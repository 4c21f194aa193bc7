--------------------------- MODULE RegistryWatcher ---------------------------
(* One webhook replica's mirror of the ConsumptionQuotas (cmd/webhook,          *)
(* internal/registry).  Two goroutines write it: the worker that reconciles one *)
(* quota after another from the informer's cache, and the start-up population,  *)
(* which lists the quotas shard by shard through the virtual workspaces and     *)
(* opens the replica for requests when it is through.                           *)
(*                                                                              *)
(* remember and forget change known under w.mu and the registry under a lock of *)
(* its own, so each is two steps.                                               *)
EXTENDS Naturals

CONSTANTS
    CQs,         \* ConsumptionQuotas, "<cluster>/<name>"
    Refs,        \* registry keys: group, resource, identity hash
    Limits,
    Names,       \* CQ -> the refs it may govern
    Shards,
    Shard,       \* CQ -> the shard of its workspace
    Deletable,   \* CQs that may be deleted; the others exist from the start
    None,
    MaxEdits, MaxFaults    \* bounds of the model; a restart is a fault

ASSUME RegistryAssumption ==
    /\ Names \in [CQs -> SUBSET Refs]
    /\ Shard \in [CQs -> Shards]
    /\ Deletable \subseteq CQs
    /\ None \notin Refs \cup Limits \cup CQs
    /\ MaxEdits \in Nat /\ MaxFaults \in Nat

VARIABLES
    cq,          \* the stored quotas
    view,        \* the informer's copies of them
    queue,       \* quotas waiting to be reconciled
    advertised,  \* shards the endpoint slice lists
    limits,      \* the registry: ref -> limit
    known,       \* CQ -> the ref remembered for it
    worker,      \* the reconcile in progress: its registry call is still to come
    pop,         \* the population: urls resolved, shards to list, quotas to remember
    listed,      \* what the population last listed for each quota
    edits, faults

vars == <<cq, view, queue, advertised, limits, known, worker, pop, listed, edits, faults>>
memory == <<view, queue, limits, known, worker, pop, listed>>

\* A quota that is deleted, or being deleted, is gone; one whose identity has not
\* been stamped is pending.
Quota(ref, limit) == [state |-> "active", ref |-> ref, limit |-> limit]
Gone    == [state |-> "gone", ref |-> None, limit |-> None]
Pending == [state |-> "pending", ref |-> None, limit |-> None]
Quotas(c) == {Quota(r, l) : r \in Names[c], l \in Limits}

Active(q) == q.state = "active"

Idle    == [op |-> "idle", cq |-> None, ref |-> None, limit |-> None]
Polling == [pc |-> "poll", urls |-> {}, todo |-> {}, items |-> {}, cur |-> None]

Init ==
    /\ \E shown \in {f \in [CQs -> {Gone} \cup UNION {Quotas(c) : c \in CQs}] :
                       \A c \in CQs : f[c] \in Quotas(c) \/ (c \in Deletable /\ f[c] = Gone)} :
         cq = shown
    /\ advertised \in SUBSET Shards
    /\ view = [c \in CQs |-> Gone] /\ queue = {}
    /\ limits = [r \in Refs |-> None] /\ known = [c \in CQs |-> None]
    /\ worker = Idle /\ pop = Polling /\ listed = view
    /\ edits = 0 /\ faults = 0
-----------------------------------------------------------------------------
(* The provider, the controller that stamps identities, kcp, the informer.    *)

Create(c) ==
    /\ edits < MaxEdits /\ edits' = edits + 1
    /\ cq[c] = Gone /\ cq' = [cq EXCEPT ![c] = Pending]
    /\ UNCHANGED <<advertised, memory, faults>>

Stamp(c) ==
    /\ cq[c] = Pending
    /\ \E q \in Quotas(c) : cq' = [cq EXCEPT ![c] = q]
    /\ UNCHANGED <<advertised, memory, edits, faults>>

Edit(c) ==
    /\ edits < MaxEdits /\ edits' = edits + 1
    /\ Active(cq[c])
    /\ \E q \in Quotas(c) \ {cq[c]} : cq' = [cq EXCEPT ![c] = q]
    /\ UNCHANGED <<advertised, memory, faults>>

Delete(c) ==
    /\ c \in Deletable /\ cq[c] # Gone /\ cq' = [cq EXCEPT ![c] = Gone]
    /\ UNCHANGED <<advertised, memory, edits, faults>>

Advertise(s) ==
    /\ s \notin advertised /\ advertised' = advertised \cup {s}
    /\ UNCHANGED <<cq, memory, edits, faults>>

Sync(c) ==
    /\ Shard[c] \in advertised /\ view[c] # cq[c]
    /\ view' = [view EXCEPT ![c] = cq[c]]
    /\ queue' = queue \cup {c}
    /\ UNCHANGED <<cq, advertised, limits, known, worker, pop, listed, edits, faults>>

\* The process ends, also because the population timed out, and starts again.
Restart ==
    /\ faults < MaxFaults /\ faults' = faults + 1
    /\ view' = [c \in CQs |-> Gone] /\ queue' = {}
    /\ limits' = [r \in Refs |-> None] /\ known' = [c \in CQs |-> None]
    /\ worker' = Idle /\ pop' = Polling /\ listed' = view'
    /\ UNCHANGED <<cq, advertised, edits>>
-----------------------------------------------------------------------------
(* Reconcile: the half of remember and forget under w.mu, then the registry.  *)

Take(c) == worker = Idle /\ c \in queue /\ queue' = queue \ {c}

\* Mutant: a quota keeps the registry key it was first remembered with.
FirstRef(c) == IF known[c] = None THEN view[c].ref ELSE known[c]

GovernedRef(c) == view[c].ref

Remember(c) ==
    /\ Take(c) /\ Active(view[c])
    /\ known' = [known EXCEPT ![c] = GovernedRef(c)]
    /\ worker' = [op |-> "set", cq |-> c, ref |-> GovernedRef(c), limit |-> view[c].limit]
    /\ UNCHANGED <<cq, view, advertised, limits, pop, listed, edits, faults>>

\* Mutant: the quota is forgotten and its registry entry is not.
NoDeletion(c) == Idle

Deletion(c) ==
    IF known[c] = None THEN Idle
    ELSE [op |-> "delete", cq |-> c, ref |-> known[c], limit |-> None]

Forget(c) ==
    /\ Take(c) /\ view[c] = Gone
    /\ known' = [known EXCEPT ![c] = None]
    /\ worker' = Deletion(c)
    /\ UNCHANGED <<cq, view, advertised, limits, pop, listed, edits, faults>>

Skip(c) ==
    /\ Take(c) /\ view[c] = Pending
    /\ UNCHANGED <<cq, view, advertised, limits, known, worker, pop, listed, edits, faults>>

\* reg.Set, or reg.Delete with a limit of None.
Apply ==
    /\ worker # Idle
    /\ limits' = [limits EXCEPT ![worker.ref] = worker.limit]
    /\ worker' = Idle
    /\ UNCHANGED <<cq, view, queue, advertised, known, pop, listed, edits, faults>>
-----------------------------------------------------------------------------
(* PopulateRegistry.                                                          *)

\* Read from the endpoint slice; it is an error that there is none, and the poll
\* goes on.
VirtualWorkspaceURLs == advertised

\* One client for each virtual workspace that is advertised at this moment.
Poll ==
    /\ pop.pc = "poll" /\ VirtualWorkspaceURLs # {}
    /\ pop' = [pop EXCEPT !.pc = "list", !.urls = VirtualWorkspaceURLs, !.todo = VirtualWorkspaceURLs]
    /\ UNCHANGED <<cq, view, queue, advertised, limits, known, worker, listed, edits, faults>>

Listing == pop.pc = "list" /\ pop.items = {} /\ pop.cur = None

\* Mutant: quotas without an identity, or being deleted, are not left out.
ItemsAll(s) == {c \in CQs : Shard[c] = s}

Items(s) == {c \in CQs : Shard[c] = s /\ Active(cq[c])}

List(s) ==
    /\ Listing /\ s \in pop.todo
    /\ listed' = [c \in CQs |-> IF c \in Items(s) THEN cq[c] ELSE listed[c]]
    /\ pop' = [pop EXCEPT !.todo = @ \ {s}, !.items = Items(s)]
    /\ UNCHANGED <<cq, view, queue, advertised, limits, known, worker, edits, faults>>

\* Mutant: the first failed list ends the population.
Over == [Polling EXCEPT !.pc = "failed"]

StartedOver == Polling

\* A list fails: the next poll begins again, and what was remembered stays.
ListFails ==
    /\ Listing /\ pop.todo # {}
    /\ faults < MaxFaults /\ faults' = faults + 1
    /\ pop' = StartedOver
    /\ UNCHANGED <<cq, view, queue, advertised, limits, known, worker, listed, edits>>

Seed(c) ==
    /\ c \in pop.items /\ pop.cur = None
    /\ known' = [known EXCEPT ![c] = listed[c].ref]
    /\ pop' = [pop EXCEPT !.items = @ \ {c}, !.cur = c]
    /\ UNCHANGED <<cq, view, queue, advertised, limits, worker, listed, edits, faults>>

SeedLimit ==
    /\ pop.cur # None
    /\ limits' = [limits EXCEPT ![listed[pop.cur].ref] = listed[pop.cur].limit]
    /\ pop' = [pop EXCEPT !.cur = None]
    /\ UNCHANGED <<cq, view, queue, advertised, known, worker, listed, edits, faults>>

\* Mutant: one shard is enough to be ready.
ListedOne == pop.todo # pop.urls

ListedAll == pop.todo = {}

\* close(initialized)
Populated ==
    /\ Listing /\ ListedAll
    /\ pop' = [pop EXCEPT !.pc = "done"]
    /\ UNCHANGED <<cq, view, queue, advertised, limits, known, worker, listed, edits, faults>>

Ready == pop.pc = "done"

\* The limits that decide a request for ref: one, or none and it is refused,
\* by the dispatcher while not ready or by the validator that finds no limit.
Served(r) == IF Ready THEN {limits[r]} \ {None} ELSE {}
-----------------------------------------------------------------------------
Reconcile(c) == Remember(c) \/ Forget(c) \/ Skip(c)

Populate ==
    \/ Poll \/ SeedLimit \/ Populated
    \/ \E s \in Shards : List(s)
    \/ \E c \in CQs : Seed(c)

Next ==
    \/ \E c \in CQs : Create(c) \/ Stamp(c) \/ Edit(c) \/ Delete(c) \/ Sync(c) \/ Reconcile(c)
    \/ \E s \in Shards : Advertise(s)
    \/ Restart \/ Apply \/ Populate \/ ListFails

Spec == Init /\ [][Next]_vars

\* The informer delivers, the work queue is first in, first out, and both
\* goroutines run.  No shard need ever be advertised, nor a quota stamped.
Fairness ==
    /\ \A c \in CQs : WF_vars(Sync(c)) /\ SF_vars(Reconcile(c))
    /\ WF_vars(Apply) /\ WF_vars(Populate)

FairSpec == Spec /\ Fairness
-----------------------------------------------------------------------------
AnyQuota == {Gone, Pending} \cup {Quota(r, l) : r \in Refs, l \in Limits}

\* The shape of every variable; the population holds only active quotas of
\* shards it has listed.
TypeOK ==
    /\ cq \in [CQs -> AnyQuota] /\ view \in [CQs -> AnyQuota] /\ listed \in [CQs -> AnyQuota]
    /\ queue \subseteq CQs /\ advertised \subseteq Shards
    /\ limits \in [Refs -> Limits \cup {None}]
    /\ known \in [CQs -> Refs \cup {None}]
    /\ worker = Idle \/ worker \in [op : {"set", "delete"}, cq : CQs, ref : Refs, limit : Limits \cup {None}]
    /\ pop \in [pc : {"poll", "list", "done"}, urls : SUBSET advertised, todo : SUBSET Shards,
                items : SUBSET CQs, cur : CQs \cup {None}]
    /\ \A c \in pop.items \cup ({pop.cur} \ {None}) :
         Active(listed[c]) /\ Shard[c] \in pop.urls \ pop.todo
    /\ edits \in 0 .. MaxEdits /\ faults \in 0 .. MaxFaults

\* Nothing about c is under way.
CaughtUp(c) ==
    /\ view[c] = cq[c] /\ c \notin queue /\ worker.cq # c
    /\ c \notin pop.items /\ pop.cur # c

\* No two quotas ever govern the same ref; one may move between refs of its own.
OwnRefs == \A c, d \in CQs : c # d => Names[c] \cap Names[d] = {}

Entry(q) == IF Active(q) THEN q.limit ELSE None

\* "keeps the webhook's limit registry in sync" (registry_watcher.go:41-42), as
\* far as two writers allow it: once a quota that does not move is caught up with,
\* its entry is what the quota says, or what it said when the population last
\* listed it.  So an entry never disappears from under a quota that is there, and
\* none comes back for a quota that was never listed.
Mirrored ==
    OwnRefs =>
      \A c \in CQs : CaughtUp(c) /\ cq[c] # Pending =>
        \A r \in Refs : Names[c] = {r} =>
          \/ limits[r] = Entry(cq[c])
          \/ Active(listed[c]) /\ limits[r] = listed[c].limit

\* A quota that moves (registry_watcher.go:101-112): once it is caught up with, the
\* ref it governs now has an entry, though the entry of the ref before stays; and
\* the entry is what the quota says unless the population ever listed it.
MoveFollowed ==
    OwnRefs =>
      \A c \in CQs : CaughtUp(c) /\ Active(cq[c]) =>
        \/ limits[cq[c].ref] = cq[c].limit
        \/ Active(listed[c]) /\ limits[cq[c].ref] # None

\* The readiness gate (cmd/webhook/main.go:153-155): a ready replica refuses no
\* request for want of a limit when the quota was there before it started, on any
\* of the shards it found: the ref that was listed has an entry, whatever happened
\* to the limit since and wherever the quota moved.
ReadyKnows ==
    OwnRefs /\ Ready =>
      \A c \in CQs \ Deletable :
        Shard[c] \in pop.urls => Active(listed[c]) /\ Served(listed[c].ref) # {}

\* A replica that finds a shard becomes ready, and every quota on an advertised
\* shard is caught up with, failed polls, a restart and late shards included.
Opens == <>[](advertised # {} =>
                Ready /\ \A c \in CQs : Shard[c] \in advertised => CaughtUp(c))
=============================================================================
