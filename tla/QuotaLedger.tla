----------------------------- MODULE QuotaLedger -----------------------------
(* One QuotaUsage ledger and everything that writes it: the admission webhook *)
(* (any number of concurrent CREATE requests, over all replicas), the usage   *)
(* reconciler's single worker and the expiry sweeper, each running            *)
(* Store.Apply, a read / compute / compare-and-swap loop against the          *)
(* apiserver.  Around them: the consumer's objects, the informer that reports *)
(* them late and in order, controller crashes, and the clock.                 *)
(*                                                                            *)
(* A request creates at most one object, so a request also stands for its     *)
(* object (its UID); Name gives the object key, which several may share.      *)
EXTENDS Accounting, Sequences

CONSTANTS
    Requests,       \* CREATE requests, and the objects they create
    Generated,      \* the requests that use generateName (no name at admission)
    Name,           \* request -> "namespace/name" of its object (quota.ObjectKey)
    Uid,            \* request -> "uid:<request UID>"
    Deletable,      \* objects the consumer may delete
    Limits,         \* limits a webhook replica's registry may hold
    MaxSkew,        \* how far a process's clock may run ahead of the slowest
    MaxLatency,     \* admit -> observe latency the deployment is sized for
    BoundedOutage,  \* TRUE: a controller outage counts against MaxLatency
    Worker, Sweeper,
    MaxTime, MaxFaults, MaxCrashes    \* bounds of the model

Processes == Requests \cup {Worker, Sweeper}

ASSUME LedgerAssumption ==
    /\ IsFiniteSet(Requests)
    /\ Generated \subseteq Requests
    /\ Deletable \subseteq Requests
    /\ Limits \subseteq Nat /\ Limits # {}
    /\ MaxSkew \in Nat /\ MaxLatency \in Nat
    /\ MaxTime \in Nat /\ MaxFaults \in Nat /\ MaxCrashes \in Nat
    /\ BoundedOutage \in BOOLEAN
    /\ Worker \notin Requests /\ Sweeper \notin Requests /\ Worker # Sweeper

VARIABLES
    now,      \* the slowest process's clock
    ledger,   \* the stored QuotaUsage: does it exist, resourceVersion, status
    pc,       \* where each process is
    draft,    \* what a process will write: the resourceVersion it read, the status
    lim,      \* the limit a request read from the registry
    since,    \* when the decision on a request was computed
    store,    \* the governed objects of the consumer workspace (etcd)
    events,   \* watch events not yet delivered to the informer
    cache,    \* the informer's cache
    queue,    \* the controller's work queue of object keys
    work,     \* the worker's current item and the objects it has listed
    folded,   \* history: the objects the stored confirmed count stands for
    up,       \* is the controller running
    faults, crashes

vars == <<now, ledger, pc, draft, lim, since, store, events, cache, queue, work,
          folded, up, faults, crashes>>
requestVars  == <<lim, since>>
clusterVars  == <<store, events>>
informerVars == <<cache, queue>>
envVars      == <<now, up, faults, crashes>>

NoDraft == [rv |-> 0, status |-> NoUsage]
NoWork  == [items |-> {}, list |-> {}]

\* Mutant: every request reserves under its UID, which no listed object matches.
KeyAlwaysUid(r) == Uid[r]

\* The key the webhook reserves under: the object key when the name is known,
\* the request UID when the apiserver generates the name after admission.
RequestKey(r) == IF r \in Generated THEN Uid[r] ELSE Name[r]

KeysOf(objects) == {Name[o] : o \in objects}

\* What a process's clock may read.
Clock == now .. (now + MaxSkew)

Init ==
    /\ now = 0
    /\ ledger = [exists |-> FALSE, rv |-> 0, status |-> NoUsage]
    /\ pc = [p \in Processes |-> "idle"]
    /\ draft = [p \in Processes |-> NoDraft]
    /\ lim = [r \in Requests |-> 0]
    /\ since = [r \in Requests |-> 0]
    /\ store = {} /\ events = <<>> /\ cache = {} /\ queue = {}
    /\ work = NoWork
    /\ folded = {}
    /\ up = TRUE /\ faults = 0 /\ crashes = 0
-----------------------------------------------------------------------------
(* The admission webhook up to Store.Reserve.                                 *)

\* The registry has a limit for the governed resource.  It is read here once,
\* before the compare-and-swap loop.
Handle(r) ==
    /\ pc[r] = "idle"
    /\ \E l \in Limits : lim' = [lim EXCEPT ![r] = l]
    /\ pc' = [pc EXCEPT ![r] = "get"]
    /\ UNCHANGED <<ledger, draft, since, clusterVars, informerVars, work, folded, envVars>>

\* No kcp.io/cluster annotation, or the policy has not been synced: fail closed.
RejectUnsynced(r) ==
    /\ pc[r] = "idle"
    /\ pc' = [pc EXCEPT ![r] = "rejected"]
    /\ UNCHANGED <<ledger, draft, requestVars, clusterVars, informerVars, work, folded, envVars>>
-----------------------------------------------------------------------------
(* Store.Apply: get or create, compute, compare and swap.                     *)

\* GET answered NotFound: the CREATE is a call of its own.
GetMissing(p) ==
    /\ pc[p] = "get" /\ ~ledger.exists
    /\ pc' = [pc EXCEPT ![p] = "create"]
    /\ UNCHANGED <<ledger, draft, requestVars, clusterVars, informerVars, work, folded, envVars>>

\* CREATE answered AlreadyExists: read again.
CreateExists(p) ==
    /\ pc[p] = "create" /\ ledger.exists
    /\ pc' = [pc EXCEPT ![p] = "get"]
    /\ UNCHANGED <<ledger, draft, requestVars, clusterVars, informerVars, work, folded, envVars>>

\* The process has the current ledger in hand: its GET answered, or its CREATE
\* made an empty one.  The status is computed in the same step: a clock read
\* later than the GET only makes the read older, which the CAS detects, and a
\* decision that writes nothing is as good at the earlier time.
ReadLedger(p) ==
    \/ pc[p] = "get" /\ ledger.exists /\ UNCHANGED ledger
    \/ /\ pc[p] = "create" /\ ~ledger.exists
       /\ ledger' = [exists |-> TRUE, rv |-> ledger.rv + 1, status |-> ledger.status]

Propose(p, st) ==
    /\ pc' = [pc EXCEPT ![p] = "write"]
    /\ draft' = [draft EXCEPT ![p] = [rv |-> ledger'.rv, status |-> st]]

Grant(r) ==
    /\ ReadLedger(r)
    /\ \E t \in Clock :
         /\ ~Reserved(ledger.status, RequestKey(r), t)
         /\ Used(ledger.status, t) < lim[r]
         /\ Propose(r, Reserve(ledger.status, RequestKey(r), lim[r], t))
    /\ since' = [since EXCEPT ![r] = now]
    /\ UNCHANGED <<lim, clusterVars, informerVars, work, folded, envVars>>

\* The key is already reserved: allowed, and nothing is written.
AdmitAgain(r) ==
    /\ ReadLedger(r)
    /\ \E t \in Clock : Reserved(ledger.status, RequestKey(r), t)
    /\ pc' = [pc EXCEPT ![r] = "allowed"]
    /\ since' = [since EXCEPT ![r] = now]
    /\ UNCHANGED <<draft, lim, clusterVars, informerVars, work, folded, envVars>>

Deny(r) ==
    /\ ReadLedger(r)
    /\ \E t \in Clock : ~ReserveOK(ledger.status, RequestKey(r), lim[r], t)
    /\ pc' = [pc EXCEPT ![r] = "rejected"]
    /\ UNCHANGED <<draft, requestVars, clusterVars, informerVars, work, folded, envVars>>

\* The worker recomputes confirmed from the list it took before the loop.
FoldedStatus == FoldConfirmed(ledger.status, Cardinality(work.list), KeysOf(work.list))

Fold ==
    /\ ReadLedger(Worker)
    /\ FoldedStatus # ledger.status
    /\ Propose(Worker, FoldedStatus)
    /\ UNCHANGED <<requestVars, clusterVars, informerVars, work, folded, envVars>>

FoldUnchanged ==
    /\ ReadLedger(Worker)
    /\ FoldedStatus = ledger.status
    /\ pc' = [pc EXCEPT ![Worker] = "idle"]
    /\ folded' = work.list
    /\ work' = NoWork
    /\ UNCHANGED <<draft, requestVars, clusterVars, informerVars, envVars>>

SweepExpired ==
    /\ ReadLedger(Sweeper)
    /\ \E t \in Clock : /\ Sweep(ledger.status, t) # ledger.status
                        /\ Propose(Sweeper, Sweep(ledger.status, t))
    /\ UNCHANGED <<requestVars, clusterVars, informerVars, work, folded, envVars>>

SweepUnchanged ==
    /\ ReadLedger(Sweeper)
    /\ \E t \in Clock : Sweep(ledger.status, t) = ledger.status
    /\ pc' = [pc EXCEPT ![Sweeper] = "idle"]
    /\ UNCHANGED <<draft, requestVars, clusterVars, informerVars, work, folded, envVars>>

\* Mutant: last write wins.
LandUnchecked(p) ==
    /\ pc[p] = "write"
    /\ ledger' = [exists |-> TRUE, rv |-> ledger.rv + 1, status |-> draft[p].status]
    /\ draft' = [draft EXCEPT ![p] = NoDraft]
    /\ folded' = IF p = Worker THEN work.list ELSE folded

\* The status update lands: the resourceVersion is still the one that was read.
Land(p) ==
    /\ pc[p] = "write" /\ draft[p].rv = ledger.rv
    /\ ledger' = [exists |-> TRUE, rv |-> ledger.rv + 1, status |-> draft[p].status]
    /\ draft' = [draft EXCEPT ![p] = NoDraft]
    /\ folded' = IF p = Worker THEN work.list ELSE folded

Write(p) ==
    /\ Land(p)
    /\ pc' = [pc EXCEPT ![p] = IF p \in Requests THEN "allowed" ELSE "idle"]
    /\ work' = IF p = Worker THEN NoWork ELSE work
    /\ UNCHANGED <<requestVars, clusterVars, informerVars, envVars>>

\* Mutants: a conflict is answered by writing the stale draft over the new
\* resourceVersion; by writing it again without a new read.
ConflictOverwrite(p) ==
    /\ pc[p] = "write" /\ draft[p].rv # ledger.rv
    /\ draft' = [draft EXCEPT ![p].rv = ledger.rv]
    /\ UNCHANGED <<pc, ledger, requestVars, clusterVars, informerVars, work, folded, envVars>>
ConflictRewrite(p) ==
    /\ pc[p] = "write" /\ draft[p].rv # ledger.rv
    /\ UNCHANGED <<pc, draft, ledger, requestVars, clusterVars, informerVars, work, folded, envVars>>

\* 409 Conflict: back off and read again.
Conflict(p) ==
    /\ pc[p] = "write" /\ draft[p].rv # ledger.rv
    /\ pc' = [pc EXCEPT ![p] = "get"]
    /\ draft' = [draft EXCEPT ![p] = NoDraft]
    /\ UNCHANGED <<ledger, requestVars, clusterVars, informerVars, work, folded, envVars>>

\* Mutant: the error is logged and the worker's item forgotten.
FailedWithoutRetry(p) ==
    /\ faults < MaxFaults /\ faults' = faults + 1
    /\ pc' = [pc EXCEPT ![p] = IF p \in Requests THEN "rejected" ELSE "idle"]
    /\ work' = IF p = Worker THEN NoWork ELSE work
    /\ UNCHANGED <<requestVars, clusterVars, informerVars, now, up, crashes>>

\* Apply returns an error: a request is denied (fail closed), the worker's item
\* goes back to the work queue, the sweeper waits for its next tick.
Failed(p) ==
    /\ faults < MaxFaults /\ faults' = faults + 1
    /\ pc' = [pc EXCEPT ![p] = IF p \in Requests THEN "rejected" ELSE "idle"]
    /\ queue' = IF p = Worker THEN queue \cup work.items ELSE queue
    /\ work' = IF p = Worker THEN NoWork ELSE work
    /\ UNCHANGED <<requestVars, clusterVars, cache, now, up, crashes>>

\* A call failed, the context expired or the backoff ran out of steps.
GiveUp(p) ==
    /\ pc[p] \in {"get", "create", "write"}
    /\ Failed(p)
    /\ draft' = [draft EXCEPT ![p] = NoDraft]
    /\ UNCHANGED <<ledger, folded>>

\* The update was applied but its answer never arrived.
LoseReply(p) == Land(p) /\ Failed(p)
-----------------------------------------------------------------------------
(* The consumer's apiserver.                                                  *)

Notify(type, o) == events' = IF up THEN Append(events, [type |-> type, object |-> o]) ELSE events

\* The admitted object is persisted; a name is taken by at most one object.
Persist(r) ==
    /\ pc[r] = "allowed"
    /\ Name[r] \notin KeysOf(store)
    /\ pc' = [pc EXCEPT ![r] = "persisted"]
    /\ store' = store \cup {r}
    /\ Notify("add", r)
    /\ UNCHANGED <<ledger, draft, requestVars, informerVars, work, folded, envVars>>

\* The create fails after this webhook allowed it: another webhook, a schema
\* error, AlreadyExists, or an answer that came after the admission timeout.
FailDownstream(r) ==
    /\ pc[r] = "allowed"
    /\ pc' = [pc EXCEPT ![r] = "rejected"]
    /\ UNCHANGED <<ledger, draft, requestVars, clusterVars, informerVars, work, folded, envVars>>

Delete(o) ==
    /\ o \in store \cap Deletable
    /\ store' = store \ {o}
    /\ Notify("delete", o)
    /\ UNCHANGED <<ledger, pc, draft, requestVars, informerVars, work, folded, envVars>>
-----------------------------------------------------------------------------
(* The controller: informer, worker, sweep ticker, crash and restart.         *)

Deliver ==
    /\ up /\ events # <<>>
    /\ events' = Tail(events)
    /\ LET e == Head(events) IN
         /\ cache' = IF e.type = "add" THEN cache \cup {e.object} ELSE cache \ {e.object}
         /\ queue' = queue \cup {Name[e.object]}
    /\ UNCHANGED <<ledger, pc, draft, requestVars, store, work, folded, envVars>>

\* Mutant: only the object of the reconciled key is counted.
StartReconcileOne ==
    /\ up /\ pc[Worker] = "idle"
    /\ \E k \in queue : /\ queue' = queue \ {k}
                        /\ work' = [items |-> {k}, list |-> {o \in cache : Name[o] = k}]
    /\ pc' = [pc EXCEPT ![Worker] = "get"]
    /\ UNCHANGED <<ledger, draft, requestVars, clusterVars, cache, folded, envVars>>

\* ReconcileCluster lists the cache once and hands the list to the CAS loop.
StartReconcile ==
    /\ up /\ pc[Worker] = "idle"
    /\ \E k \in queue : /\ queue' = queue \ {k}
                        /\ work' = [items |-> {k}, list |-> cache]
    /\ pc' = [pc EXCEPT ![Worker] = "get"]
    /\ UNCHANGED <<ledger, draft, requestVars, clusterVars, cache, folded, envVars>>

\* The ticker fires; usageKeys lists the ledgers that exist.
SweepTick ==
    /\ up /\ pc[Sweeper] = "idle" /\ ledger.exists
    /\ pc' = [pc EXCEPT ![Sweeper] = "get"]
    /\ UNCHANGED <<ledger, draft, requestVars, clusterVars, informerVars, work, folded, envVars>>

Crash ==
    /\ up /\ crashes < MaxCrashes /\ crashes' = crashes + 1
    /\ up' = FALSE
    /\ pc' = [pc EXCEPT ![Worker] = "idle", ![Sweeper] = "idle"]
    /\ draft' = [draft EXCEPT ![Worker] = NoDraft, ![Sweeper] = NoDraft]
    /\ events' = <<>> /\ cache' = {} /\ queue' = {} /\ work' = NoWork
    /\ UNCHANGED <<ledger, requestVars, store, folded, now, faults>>

\* Mutant: the worker starts before the informer's cache is filled.
RestartUnsynced ==
    /\ ~up /\ up' = TRUE
    /\ cache' = {} /\ queue' = KeysOf(store)
    /\ UNCHANGED <<ledger, pc, draft, requestVars, clusterVars, work, folded, now, faults, crashes>>

\* The informer's initial list: an add for every object that exists now, and
\* nothing at all for those deleted while the controller was away.
Restart ==
    /\ ~up /\ up' = TRUE
    /\ cache' = store /\ queue' = KeysOf(store)
    /\ UNCHANGED <<ledger, pc, draft, requestVars, clusterVars, work, folded, now, faults, crashes>>
-----------------------------------------------------------------------------
(* Time.  The deployment sizes the TTL against the worst admit -> observe     *)
(* latency; Pending says for which requests that latency is running, and the  *)
(* clock does not pass the bound.                                             *)

Pending(r) ==
    \/ pc[r] \in {"write", "allowed"}
    \/ r \in store \ folded /\ (up \/ BoundedOutage)

Tick ==
    /\ now < MaxTime
    /\ \A r \in Requests : Pending(r) => now < since[r] + MaxLatency
    /\ now' = now + 1
    /\ UNCHANGED <<ledger, pc, draft, requestVars, clusterVars, informerVars, work, folded,
                   up, faults, crashes>>
-----------------------------------------------------------------------------
Request(r) ==
    \/ Handle(r) \/ RejectUnsynced(r)
    \/ Grant(r) \/ AdmitAgain(r) \/ Deny(r)
    \/ Persist(r) \/ FailDownstream(r)

CAS(p) == GetMissing(p) \/ CreateExists(p) \/ Write(p) \/ Conflict(p)

Reconcile == StartReconcile \/ Fold \/ FoldUnchanged

SweepAll == SweepTick \/ SweepExpired \/ SweepUnchanged

Next ==
    \/ \E r \in Requests : Request(r) \/ Delete(r)
    \/ \E p \in Processes : CAS(p) \/ GiveUp(p) \/ LoseReply(p)
    \/ Reconcile \/ SweepAll
    \/ Deliver \/ Crash \/ Restart \/ Tick

Spec == Init /\ [][Next]_vars
-----------------------------------------------------------------------------
(* Fairness.  The controller's informer, worker, ticker and restart, and the  *)
(* webhook's goroutine for an accepted request, are scheduled by their        *)
(* runtimes; what the consumer, the clock, the network and crashes do is not  *)
(* promised.                                                                  *)

Fairness ==
    /\ WF_vars(Deliver)
    /\ WF_vars(Reconcile \/ CAS(Worker))
    /\ WF_vars(SweepAll \/ CAS(Sweeper))
    /\ WF_vars(Restart)
    /\ \A r \in Requests : WF_vars(Grant(r) \/ AdmitAgain(r) \/ Deny(r) \/ CAS(r))

FairSpec == Spec /\ Fairness
-----------------------------------------------------------------------------
(* What the deployment has to guarantee for the strict promise (R1).          *)

\* No two requests ever name the same object, nor reserve under one key.
DistinctKeys ==
    \A r, s \in Requests : RequestKey(r) \in {RequestKey(s), Name[s]} => r = s

\* The TTL covers the latency, the clock skew, and the part of a second that
\* storing a time loses.
TTLCovers == MaxLatency + MaxSkew + Second <= TTL

StrictHypotheses == DistinctKeys /\ TTLCovers /\ BoundedOutage
-----------------------------------------------------------------------------
RequestPC == {"idle", "get", "create", "write", "allowed", "persisted", "rejected"}
Times     == 0 .. (MaxTime + MaxSkew + TTL)
Keys      == {Name[r] : r \in Requests} \cup {RequestKey(r) : r \in Requests}
Statuses  == [confirmed : Nat, reservations : SUBSET [key : Keys, expiresAt : Times]]

\* The shape of every variable, and that a process holds a draft exactly while
\* it is about to write (store.go's u lives within one loop iteration).
TypeOK ==
    /\ now \in 0 .. MaxTime
    /\ ledger \in [exists : BOOLEAN, rv : Nat, status : Statuses]
    /\ pc \in [Processes -> RequestPC]
    /\ draft \in [Processes -> [rv : Nat, status : Statuses]]
    /\ lim \in [Requests -> Nat]
    /\ since \in [Requests -> 0 .. MaxTime]
    /\ store \subseteq Requests
    /\ events \in Seq([type : {"add", "delete"}, object : Requests])
    /\ cache \subseteq Requests
    /\ queue \subseteq KeysOf(Requests)
    /\ work \in [items : SUBSET KeysOf(Requests), list : SUBSET Requests]
    /\ folded \subseteq Requests
    /\ up \in BOOLEAN
    /\ faults \in 0 .. MaxFaults /\ crashes \in 0 .. MaxCrashes

\* Objects the consumer holds or is about to hold: live, or admitted and not
\* yet decided by its apiserver.
Charged == store \cup {r \in Requests : pc[r] = "allowed"}

\* Reservations every process's clock still takes for live.
FirmReservations == Live(ledger.status, now + MaxSkew)

\* What a draft adds to, or takes from, the status it was computed from.
GrantDraft(r) ==
    /\ ledger.status.confirmed + Cardinality(FirmReservations) < lim[r]
    /\ \E v \in [key : {RequestKey(r)}, expiresAt : Times] :
         /\ since[r] + TTL < v.expiresAt + Second
         /\ draft[r].status = [confirmed |-> ledger.status.confirmed,
                               reservations |-> ledger.status.reservations \cup {v}]

FoldDraft == draft[Worker].status = FoldedStatus

SweepDraft ==
    /\ draft[Sweeper].status.confirmed = ledger.status.confirmed
    /\ FirmReservations \subseteq draft[Sweeper].status.reservations
    /\ draft[Sweeper].status.reservations \subseteq ledger.status.reservations

Fresh(p) ==
    pc[p] = "write" =>
        /\ draft[p].rv <= ledger.rv
        /\ draft[p].rv = ledger.rv => /\ p \in Requests => GrantDraft(p)
                                      /\ p = Worker => FoldDraft
                                      /\ p = Sweeper => SweepDraft

\* Compare and swap (store.go:68-113).  A draft that would pass the
\* resourceVersion check was computed from the status it replaces: another
\* writer's update is never lost, however the read, compute and write steps of
\* the processes interleave.
DraftFresh == \A p \in Processes : Fresh(p)

\* confirmed is the size of the set of objects last folded: no writer but the
\* worker ever changes it (ADR-001: the reconciler owns confirmed).
ConfirmedIsCount == ledger.status.confirmed = Cardinality(folded)

\* The hand-off of FoldConfirmed (accounting.go:65-79): every object that is live or
\* admitted is counted, in confirmed or by a reservation no clock takes for
\* expired.  There is no moment at which it is in neither.
Covered ==
    \A r \in Charged : r \in folded \/ \E v \in FirmReservations : v.key = RequestKey(r)

\* R1: the limit may never be exceeded, even momentarily.  (Charged, which also
\* counts what has been admitted, is bounded through GrantWithinLimit and the
\* refinement of StrictQuota.)
NoOvershoot == \E l \in Limits : Cardinality(store) <= l

\* A named object already in confirmed holds no reservation as well (the key
\* match of FoldConfirmed, accounting.go:72): a hand-off never counts it twice.
NoDoubleCount ==
    \A o \in folded \ Generated : \A v \in ledger.status.reservations : v.key # RequestKey(o)

\* Reserve is idempotent under concurrency (accounting.go:34-38): two requests
\* for one name share one live reservation, whichever replica served them.
OneReservationPerKey ==
    \A v, w \in FirmReservations : v.key = w.key => v = w

\* Objects a watch event still on its way is about.
Announced(type) ==
    {o \in Requests : \E i \in DOMAIN events : events[i] = [type |-> type, object |-> o]}

\* What the single worker and the ordered watch guarantee whatever names the
\* consumer uses: a recount never knows less of the live objects than the one
\* before it (usage_reconciler.go:41-59 lists a cache that only moves forward, and a
\* restarted controller lists afresh).
Bookkeeping ==
    /\ pc[Worker] = "idle" => work = NoWork
    /\ ~up => pc[Worker] = "idle"
    /\ store \cup folded \cup work.list \cup cache \cup Announced("add") \cup Announced("delete")
         \subseteq {r \in Requests : pc[r] = "persisted"}
    /\ Announced("delete") \cap store = {}
    /\ up => store \cap (folded \cup work.list) \subseteq cache
    /\ pc[Worker] # "idle" => store \cap folded \subseteq work.list
    /\ \A r \in Requests : pc[r] \in {"get", "create", "write"} => lim[r] \in Limits

\* Under StrictHypotheses, what makes the promise inductive: a reservation was
\* made by the one request of its key; the latency of whatever is pending is
\* within bounds; each charged object is counted, in confirmed or by a
\* reservation that outlives the latency; and there are not too many of them.
StrictInv ==
    /\ \A v \in ledger.status.reservations : \A r \in Requests :
         v.key = RequestKey(r) => pc[r] \in {"allowed", "persisted", "rejected"}
    /\ \A r \in Requests : Pending(r) => now <= since[r] + MaxLatency
    /\ \A r \in Charged : r \in folded \/ \E v \in ledger.status.reservations :
         v.key = RequestKey(r) /\ since[r] + TTL < v.expiresAt + Second
    /\ \E l \in Limits : Cardinality(Charged) <= l

\* A request that is granted a slot finds the workspace within the limit it
\* read, at the moment the write lands, not only when Reserve computed it.
GrantWithinLimit ==
    [][\A r \in Requests : pc[r] = "write" /\ pc'[r] = "allowed"
                             => Cardinality(Charged') <= lim[r]]_vars

\* Reserve "grants a slot for objKey iff Used < limit" (accounting.go:31), also at
\* the moment the write lands and by every clock: a new reservation and all that
\* is counted with it are within the limit its request read.  This is what is left
\* of the promise when names are used again or the TTL is too short.
SlotWithinLimit ==
    [][\A v \in ledger'.status.reservations \ ledger.status.reservations :
          \E r \in Requests :
             /\ v.key = RequestKey(r) /\ pc[r] = "write"
             /\ ledger'.status.confirmed + Cardinality(FirmReservations') <= lim[r]]_vars

\* The two fates of a reservation (accounting.go Sweep and FoldConfirmed): it leaves the
\* ledger expired, or because confirmed now counts an object of its key.
TwoFates ==
    [][\A v \in ledger.status.reservations \ ledger'.status.reservations :
          v.expiresAt <= now + MaxSkew \/ v.key \in KeysOf(folded')]_vars

\* "resync corrects on recovery" (the design's section 10): once the consumer is quiet,
\* confirmed settles on the number of live objects.
ConfirmedConverges == <>[](ledger.status.confirmed = Cardinality(store))

\* What the recount after the last informer event makes of it, controller crashes
\* included (ReconcileCluster; the initial list of accounting.go:299-306): confirmed
\* settles on the live count, except that nothing reports a consumer that was
\* emptied while the controller was away.
ConvergesUnlessEmptied ==
    <>[](\/ ledger.status.confirmed = Cardinality(store)
         \/ crashes > 0 /\ store = {})

\* An orphaned reservation is reclaimed: the sweep removes whatever has expired,
\* also after a crash (usageKeys lists the stored ledgers, not memory).
ExpiredSwept ==
    \A r \in Requests :
        (\E v \in ledger.status.reservations : v.key = RequestKey(r) /\ v.expiresAt <= now)
        ~> ~\E v \in ledger.status.reservations : v.key = RequestKey(r) /\ v.expiresAt <= now

\* Every request that starts Apply gets an answer: the loop of store.go cannot
\* be kept retrying for ever by the other writers.
EveryRequestAnswered ==
    \A r \in Requests : pc[r] = "get" ~> pc[r] \in {"allowed", "persisted", "rejected"}
=============================================================================
