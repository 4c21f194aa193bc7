-------------------------- MODULE AccountingManager --------------------------
(* The lifecycle of the accounting managers (cmd/controller/accounting.go): for  *)
(* each governed export some ConsumptionQuota names, one set (a sub-manager with *)
(* its informers and sweep ticker) runs, counted by the quotas that reference    *)
(* it.  Ensure and Remove are called by the controller's one reconcile worker;   *)
(* a goroutine watches each set until it stops and, when it stopped by itself,   *)
(* tries to start another.  They share sets, refs and starting under a.mu, and   *)
(* starting a set happens outside the lock.                                      *)
(*                                                                               *)
(* An instance is one set together with its watcher goroutine, which goes on to  *)
(* be the retry goroutine; its identity is used again once the goroutine ended.  *)
EXTENDS Naturals, FiniteSets

CONSTANTS
    CQs,           \* ConsumptionQuotas ("<provider cluster>/<name>")
    Governed,      \* governed exports: group, version, resource, identity, APIExport
    Key,           \* governed export -> accountingKey, which leaves the version out
    Instances,
    None,
    Names,         \* CQ -> the governed exports its spec may name
    Deletable,     \* CQs that may be deleted
    Withdrawable,  \* governed exports the service workspace may stop serving
    MaxEdits, MaxFailures, MaxStops    \* bounds of the model

Keys == {Key[g] : g \in Governed}

ASSUME ManagerAssumption ==
    /\ Key \in [Governed -> Keys]
    /\ Names \in [CQs -> SUBSET Governed]
    /\ Deletable \subseteq CQs /\ Withdrawable \subseteq Governed
    /\ None \notin Governed \cup Keys \cup Instances \cup CQs   \* no key is ""
    /\ MaxEdits \in Nat /\ MaxFailures \in Nat /\ MaxStops \in Nat

VARIABLES
    spec,       \* what each CQ names (None: deleted), its identity resolved
    served,     \* the governed exports the service workspace serves
    queue,      \* CQs waiting to be reconciled
    worker,     \* the reconcile worker, and the Ensure it is in
    refs,       \* accounting key -> CQs that reference it (nil is empty)
    sets,       \* accounting key -> the set registered for it, or None
    starting,   \* keys with an in-flight start
    pc,         \* instance -> where it is in its life
    gov,        \* instance -> the governed export it was started for
    cancelled,  \* instances whose context has been cancelled
    edits, failures, stops

vars == <<spec, served, queue, worker, refs, sets, starting, pc, gov, cancelled,
          edits, failures, stops>>
envVars == <<spec, served, edits>>
bounds  == <<edits, failures, stops>>

Idle == [pc |-> "idle", cq |-> None, gov |-> None]

Free == {i \in Instances : pc[i] = "free"}

\* A controller that starts, for the first time or again, has nothing in memory
\* and is handed every CQ by the informer's initial list.
Init ==
    /\ spec \in {s \in [CQs -> Governed \cup {None}] :
                   \A c \in CQs : s[c] \in Names[c] \cup {None}}
    /\ served = Governed
    /\ queue = {c \in CQs : spec[c] # None}
    /\ worker = Idle
    /\ refs = [k \in Keys |-> {}]
    /\ sets = [k \in Keys |-> None]
    /\ starting = {}
    /\ pc = [i \in Instances |-> "free"]
    /\ gov = [i \in Instances |-> None]
    /\ cancelled = {}
    /\ edits = 0 /\ failures = 0 /\ stops = 0
-----------------------------------------------------------------------------
(* The provider.                                                              *)

\* A CQ is created, or its spec changed.
Edit(c) ==
    /\ edits < MaxEdits /\ edits' = edits + 1
    /\ \E g \in Names[c] \ {spec[c]} : spec' = [spec EXCEPT ![c] = g]
    /\ queue' = queue \cup {c}
    /\ UNCHANGED <<served, worker, refs, sets, starting, pc, gov, cancelled, failures, stops>>

Delete(c) ==
    /\ c \in Deletable /\ spec[c] # None
    /\ spec' = [spec EXCEPT ![c] = None]
    /\ queue' = queue \cup {c}
    /\ UNCHANGED <<served, worker, refs, sets, starting, pc, gov, cancelled, bounds>>

\* Any other event on a CQ: a status write, a relist, the resync.
Touch(c) ==
    /\ spec[c] # None /\ c \notin queue
    /\ queue' = queue \cup {c}
    /\ UNCHANGED <<envVars, worker, refs, sets, starting, pc, gov, cancelled, failures, stops>>

Withdraw(g) ==
    /\ g \in served \cap Withdrawable
    /\ served' = served \ {g}
    /\ UNCHANGED <<spec, queue, worker, refs, sets, starting, pc, gov, cancelled, bounds>>
-----------------------------------------------------------------------------
(* Ensure and Remove, on the reconcile worker.                                *)

\* dropRefLocked: c's reference is dropped from every key but keep, and a set
\* left without references is cancelled and unregistered.
Dropped(c, keep) == [k \in Keys |-> IF k = keep THEN refs[k] ELSE refs[k] \ {c}]

\* Mutant: the set goes with the first reference that is dropped.
TornDownEarly(c, keep) == {k \in Keys \ {keep} : c \in refs[k]}

TornDown(c, keep) == {k \in Keys \ {keep} : refs[k] = {c}}

DropSets(c, keep) ==
    /\ sets' = [k \in Keys |-> IF k \in TornDown(c, keep) THEN None ELSE sets[k]]
    /\ cancelled' = cancelled \cup ({sets[k] : k \in TornDown(c, keep)} \ {None})

Take(c) == worker = Idle /\ c \in queue /\ queue' = queue \ {c}

\* The re-Get after the reconcile finds the CQ gone or being deleted.
Remove(c) ==
    /\ Take(c) /\ spec[c] = None
    /\ refs' = Dropped(c, None)
    /\ DropSets(c, None)
    /\ UNCHANGED <<envVars, worker, starting, pc, gov, failures, stops>>

\* Mutant: the reference under a previous key stays.
ReferenceAlso(c, k) ==
    /\ refs' = [refs EXCEPT ![k] = @ \cup {c}]
    /\ UNCHANGED <<sets, cancelled>>

Reference(c, k) ==
    /\ refs' = [Dropped(c, k) EXCEPT ![k] = @ \cup {c}]
    /\ DropSets(c, k)

EnsureRunning(c) ==
    /\ Take(c) /\ spec[c] # None
    /\ LET k == Key[spec[c]] IN
         /\ sets[k] # None \/ k \in starting
         /\ Reference(c, k)
    /\ UNCHANGED <<envVars, worker, starting, pc, gov, failures, stops>>

EnsureStart(c) ==
    /\ Take(c) /\ spec[c] # None
    /\ LET k == Key[spec[c]] IN
         /\ sets[k] = None /\ k \notin starting
         /\ Reference(c, k)
         /\ starting' = starting \cup {k}
    /\ worker' = [pc |-> "starting", cq |-> c, gov |-> spec[c]]
    /\ UNCHANGED <<envVars, pc, gov, failures, stops>>

\* Mutant: the key stays in starting.
StartedKept(k) == starting

Started(k) == starting \ {k}

\* start returned an error: the reference is rolled back, the CQ requeued.
EnsureFailed ==
    /\ worker.pc = "starting"
    /\ failures < MaxFailures /\ failures' = failures + 1
    /\ starting' = Started(Key[worker.gov])
    /\ refs' = Dropped(worker.cq, None)
    /\ DropSets(worker.cq, None)
    /\ queue' = queue \cup {worker.cq}
    /\ worker' = Idle
    /\ UNCHANGED <<envVars, pc, gov, stops>>

EnsureDone ==
    /\ worker.pc = "registered"
    /\ starting' = Started(Key[worker.gov])
    /\ worker' = Idle
    /\ UNCHANGED <<envVars, queue, refs, sets, pc, gov, cancelled, failures, stops>>
-----------------------------------------------------------------------------
(* start, on the worker or on a retry goroutine: everything that can fail     *)
(* comes before the set is registered, and its goroutine is spawned after.    *)

Launch(j, g) ==
    /\ sets' = [sets EXCEPT ![Key[g]] = j]
    /\ gov' = [gov EXCEPT ![j] = g]
    /\ cancelled' = cancelled \ {j}

EnsureRegister ==
    /\ worker.pc = "starting"
    /\ \E j \in Free : /\ Launch(j, worker.gov)
                       /\ pc' = [pc EXCEPT ![j] = "running"]
    /\ worker' = [worker EXCEPT !.pc = "registered"]
    /\ UNCHANGED <<envVars, queue, refs, starting, failures, stops>>

RetryRegister(i) ==
    /\ pc[i] = "starting"
    /\ \E j \in Free : /\ Launch(j, gov[i])
                       /\ pc' = [pc EXCEPT ![j] = "running", ![i] = "registered"]
    /\ UNCHANGED <<envVars, queue, worker, refs, starting, failures, stops>>
-----------------------------------------------------------------------------
(* The watcher goroutine of a set.                                            *)

\* subMgr.Start returns: its context was cancelled, its resource is no longer
\* served, or the manager failed.
Stop(i) ==
    /\ pc[i] = "running"
    /\ \/ (i \in cancelled \/ gov[i] \notin served) /\ UNCHANGED stops
       \/ stops < MaxStops /\ stops' = stops + 1
    /\ pc' = [pc EXCEPT ![i] = "stopped"]
    /\ UNCHANGED <<envVars, queue, worker, refs, sets, starting, gov, cancelled, failures>>

\* Mutant: the goroutine ends and its instance is not given back whole.
EndPartly(i) ==
    /\ pc' = [pc EXCEPT ![i] = "free"]
    /\ cancelled' = cancelled \ {i}
    /\ UNCHANGED gov

End(i) ==
    /\ pc' = [pc EXCEPT ![i] = "free"]
    /\ gov' = [gov EXCEPT ![i] = None]
    /\ cancelled' = cancelled \ {i}

\* Another set is registered, or none: this one was torn down.
Replaced(i) ==
    /\ pc[i] = "stopped" /\ sets[Key[gov[i]]] # i
    /\ End(i)
    /\ UNCHANGED <<envVars, queue, worker, refs, sets, starting, failures, stops>>

\* Mutant: whatever set is registered under the key is unregistered.
UnregisterAny(i) ==
    /\ pc[i] = "stopped"
    /\ sets' = [sets EXCEPT ![Key[gov[i]]] = None]

Unregister(i) ==
    /\ pc[i] = "stopped" /\ sets[Key[gov[i]]] = i
    /\ sets' = [sets EXCEPT ![Key[gov[i]]] = None]

Unreferenced(i) ==
    /\ Unregister(i) /\ refs[Key[gov[i]]] = {}
    /\ End(i)
    /\ UNCHANGED <<envVars, queue, worker, refs, starting, failures, stops>>

SelfStopped(i) ==
    /\ Unregister(i) /\ refs[Key[gov[i]]] # {}
    /\ pc' = [pc EXCEPT ![i] = "waiting"]
    /\ UNCHANGED <<envVars, queue, worker, refs, starting, gov, cancelled, failures, stops>>
-----------------------------------------------------------------------------
(* retryStart.  The delay, 5 seconds or more, outlasts the moment between     *)
(* another start's registration of its set and its return to the caller.      *)

Returning(k) ==
    \/ worker.pc = "registered" /\ Key[worker.gov] = k
    \/ \E i \in Instances : pc[i] = "registered" /\ Key[gov[i]] = k

Woken(i) == pc[i] = "waiting" /\ ~Returning(Key[gov[i]])

\* Mutant: the retry looks at the registered sets only.
WantedUnguarded(k) == refs[k] # {} /\ sets[k] = None

\* References are left, and no other start has taken over.
Wanted(k) == refs[k] # {} /\ sets[k] = None /\ k \notin starting

RetryAbandoned(i) ==
    /\ Woken(i) /\ ~Wanted(Key[gov[i]])
    /\ End(i)
    /\ UNCHANGED <<envVars, queue, worker, refs, sets, starting, failures, stops>>

RetryStart(i) ==
    /\ Woken(i) /\ Wanted(Key[gov[i]])
    /\ starting' = starting \cup {Key[gov[i]]}
    /\ pc' = [pc EXCEPT ![i] = "starting"]
    /\ UNCHANGED <<envVars, queue, worker, refs, sets, gov, cancelled, failures, stops>>

\* Mutant: one attempt only.
TryOnce(i) == End(i)

TryAgain(i) == pc' = [pc EXCEPT ![i] = "waiting"] /\ UNCHANGED <<gov, cancelled>>

RetryFailed(i) ==
    /\ pc[i] = "starting"
    /\ failures < MaxFailures /\ failures' = failures + 1
    /\ starting' = Started(Key[gov[i]])
    /\ TryAgain(i)
    /\ UNCHANGED <<envVars, queue, worker, refs, sets, stops>>

RetryDone(i) ==
    /\ pc[i] = "registered"
    /\ starting' = Started(Key[gov[i]])
    /\ End(i)
    /\ UNCHANGED <<envVars, queue, worker, refs, sets, failures, stops>>
-----------------------------------------------------------------------------
Provider(c) == Edit(c) \/ Delete(c) \/ Touch(c)

Reconcile ==
    \/ \E c \in CQs : Remove(c) \/ EnsureRunning(c) \/ EnsureStart(c)
    \/ EnsureRegister \/ EnsureFailed \/ EnsureDone

Watch(i) == Replaced(i) \/ Unreferenced(i) \/ SelfStopped(i)

Retry(i) ==
    \/ RetryAbandoned(i) \/ RetryStart(i)
    \/ RetryRegister(i) \/ RetryFailed(i) \/ RetryDone(i)

Next ==
    \/ \E c \in CQs : Provider(c)
    \/ \E g \in Governed : Withdraw(g)
    \/ Reconcile
    \/ \E i \in Instances : Stop(i) \/ Watch(i) \/ Retry(i)

Spec == Init /\ [][Next]_vars

\* The worker takes its queue in order and the goroutines are scheduled; a set
\* that has been cancelled, or whose resource is gone, stops.  The provider owes
\* nothing, and no start has to fail.
Fairness ==
    /\ \A c \in CQs : SF_vars(Remove(c) \/ EnsureRunning(c) \/ EnsureStart(c))
    /\ WF_vars(EnsureRegister \/ EnsureFailed \/ EnsureDone)
    /\ \A i \in Instances :
         /\ WF_vars(Watch(i) \/ Retry(i))
         /\ WF_vars(Stop(i) /\ (i \in cancelled \/ gov[i] \notin served))

FairSpec == Spec /\ Fairness
-----------------------------------------------------------------------------
\* The shape of every variable; an instance has a governed export exactly while
\* its goroutine lives, and the worker a quota exactly while it is in Ensure.
TypeOK ==
    /\ spec \in [CQs -> Governed \cup {None}]
    /\ served \subseteq Governed
    /\ queue \subseteq CQs
    /\ worker \in [pc : {"idle", "starting", "registered"},
                   cq : CQs \cup {None}, gov : Governed \cup {None}]
    /\ refs \in [Keys -> SUBSET CQs]
    /\ sets \in [Keys -> Instances \cup {None}]
    /\ starting \subseteq Keys
    /\ pc \in [Instances -> {"free", "running", "stopped", "waiting", "starting", "registered"}]
    /\ gov \in [Instances -> Governed \cup {None}]
    /\ cancelled \subseteq Instances
    /\ \A i \in Instances : pc[i] = "free" <=> gov[i] = None
    /\ cancelled \cap Free = {}
    /\ worker.pc = "idle" <=> worker = Idle
    /\ edits \in 0 .. MaxEdits /\ failures \in 0 .. MaxFailures /\ stops \in 0 .. MaxStops

\* The single-writer requirement (accounting.go:48-51): of the sets running for
\* one governed export all but one have been told to stop, however starts,
\* retries and teardowns overlap.
SingleWriter ==
    \A i, j \in Instances :
        /\ pc[i] = "running" /\ pc[j] = "running"
        /\ {i, j} \cap cancelled = {}
        /\ Key[gov[i]] = Key[gov[j]]
        => i = j

\* What is registered is alive, or about to be noticed by its own watcher, and
\* the other way round (accounting.go:335-338): no dead manager stays registered
\* and no live one is out of reach of a later teardown.
RegisteredIsAlive ==
    /\ \A k \in Keys : sets[k] # None => /\ pc[sets[k]] \in {"running", "stopped"}
                                         /\ Key[gov[sets[k]]] = k
                                         /\ sets[k] \notin cancelled
    /\ \A i \in Instances : pc[i] = "running" /\ i \notin cancelled => sets[Key[gov[i]]] = i

\* The in-flight guard that Ensure and retryStart share: a key in starting has
\* exactly one starter, and nobody starts a key that is not in it.
OneStarter ==
    \A k \in Keys :
        LET starters == {i \in Instances : pc[i] \in {"starting", "registered"} /\ Key[gov[i]] = k}
                        \cup {c \in CQs : worker.cq = c /\ Key[worker.gov] = k}
        IN  Cardinality(starters) = IF k \in starting THEN 1 ELSE 0

\* Reference counting is exact: a CQ the worker has taken since it last changed
\* is counted under the key it names now, and under no other, also while the set
\* it asked for is being started and after that start has failed.
RefsMatchSpecs ==
    \A c \in CQs, k \in Keys :
        c \notin queue => (c \in refs[k] <=> spec[c] # None /\ Key[spec[c]] = k)

\* Tears the set down only when the last reference is gone (accounting.go:48-49).
TeardownWhenUnreferenced ==
    [][\A i \in cancelled' \ cancelled : refs'[Key[gov[i]]] = {}]_vars

Named(c, k) == spec[c] # None /\ Key[spec[c]] = k

\* References but no set, and nobody left to start one before the next resync.
Stranded(k) ==
    /\ refs[k] # {} /\ sets[k] = None /\ k \notin starting
    /\ \A i \in Instances : pc[i] = "waiting" => Key[gov[i]] # k
    /\ \A c \in queue : ~Named(c, k)

\* Recovery never depends on the resync (accounting.go:374-376), but for two steps: the
\* quota whose reconcile was to start the set no longer names the export, and a
\* retry whose set was torn down while start was returning.
StartNotLost ==
    [][\A k \in Keys : Stranded(k)' =>
          \/ Stranded(k)
          \/ \E c \in CQs : /\ Named(c, k) \/ (worker.cq = c /\ Key[worker.gov] = k)
                           /\ ~Named(c, k)'
          \/ \E i \in Instances : pc[i] = "registered" /\ Key[gov[i]] = k /\ sets[k] = None]_vars

\* Remove "tears the set down once no ConsumptionQuota references it anymore"
\* (accounting.go:156-157).
NoUnreferencedSet == \A k \in Keys : sets[k] # None => refs[k] # {}

\* "Recovery must be prompt - never dependent on the ~10 h resync"
\* (accounting.go:374-376): once the provider is quiet, every quota whose governed
\* export is served is referenced and has a set that keeps running. The code keeps
\* this only while no quota is deleted and no version is withdrawn: a retry that gave
\* way, or one that starts the version it captured, is then not replaced by another.
Recovered ==
    <>[](\A c \in CQs : spec[c] \in served =>
            LET k == Key[spec[c]] IN
              c \in refs[k] /\ sets[k] # None /\ pc[sets[k]] = "running")
=============================================================================
