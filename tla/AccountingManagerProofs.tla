----------------------- MODULE AccountingManagerProofs -----------------------
(* Theorems about AccountingManager, for every value of its constants.        *)
EXTENDS AccountingManager, TLAPS, FiniteSetTheorems

Statuses == {"free", "running", "stopped", "waiting", "starting", "registered"}

\* A goroutine, or the worker, holds key k in starting.
InStart(i) == pc[i] \in {"starting", "registered"}
WorkerStarts(k) == worker.pc # "idle" /\ Key[worker.gov] = k

\* While the worker is in Ensure it holds a quota and what it named.
WorkerBusy ==
    worker.pc # "idle" => worker.cq \in CQs /\ worker.gov \in Governed

\* A key in starting is held, by one holder only.
HeldOnce ==
    /\ \A i \in Instances : InStart(i) =>
         /\ Key[gov[i]] \in starting
         /\ ~WorkerStarts(Key[gov[i]])
         /\ \A j \in Instances : InStart(j) /\ Key[gov[j]] = Key[gov[i]] => i = j
    /\ worker.pc # "idle" => Key[worker.gov] \in starting
    /\ \A k \in starting :
         WorkerStarts(k) \/ \E i \in Instances : InStart(i) /\ Key[gov[i]] = k

\* Nothing is registered under a key whose start has yet to register.
NothingRegistered ==
    /\ worker.pc = "starting" => sets[Key[worker.gov]] = None
    /\ \A i \in Instances : pc[i] = "starting" => sets[Key[gov[i]]] = None

\* The inductive invariant: the registry of sets is right because a start never
\* overwrites an entry, which is so because a key has one starter.
Inv == TypeOK /\ WorkerBusy /\ RegisteredIsAlive /\ HeldOnce /\ NothingRegistered
-----------------------------------------------------------------------------
(* What the actions share.                                                    *)

\* A key of a living instance, and of a busy worker, is one of Keys.
LEMMA LiveKeys ==
    ASSUME TypeOK, WorkerBusy
    PROVE  /\ \A g \in Governed : Key[g] \in Keys
           /\ \A i \in Instances : pc[i] # "free" => gov[i] \in Governed /\ Key[gov[i]] \in Keys
           /\ worker.pc # "idle" => Key[worker.gov] \in Keys
BY DEF TypeOK, WorkerBusy, Keys

\* dropRefLocked forgets a set and cancels it in one step (accounting.go:165-183):
\* the registry stays right.
LEMMA DropSetsAlive ==
    ASSUME Inv, NEW c \in CQs, NEW keep, DropSets(c, keep), UNCHANGED <<pc, gov>>
    PROVE  /\ RegisteredIsAlive'
           /\ sets' \in [Keys -> Instances \cup {None}]
           /\ \A k \in Keys : sets'[k] \in {sets[k], None}
           /\ cancelled' \subseteq Instances /\ cancelled' \cap Free = {}
           /\ \A i \in cancelled' \ cancelled : Key[gov[i]] \in TornDown(c, keep)
<1>. DEFINE T == TornDown(c, keep)
<1>1. T \subseteq Keys
  BY DEF TornDown
<1>2. /\ sets \in [Keys -> Instances \cup {None}] /\ cancelled \subseteq Instances
      /\ sets' = [k \in Keys |-> IF k \in T THEN None ELSE sets[k]]
      /\ cancelled' = cancelled \cup ({sets[k] : k \in T} \ {None})
  BY DEF Inv, TypeOK, DropSets
<1>. HIDE DEF T
<1>3. \A k \in Keys : sets[k] # None => /\ sets[k] \in Instances
                                        /\ pc[sets[k]] \in {"running", "stopped"}
                                        /\ Key[gov[sets[k]]] = k
                                        /\ sets[k] \notin cancelled
  BY <1>2 DEF Inv, RegisteredIsAlive
<1>4. \A k \in Keys : sets'[k] # None =>
        pc'[sets'[k]] \in {"running", "stopped"} /\ Key[gov'[sets'[k]]] = k
  BY <1>2, <1>3
<1>5. ASSUME NEW k \in Keys, sets'[k] # None PROVE sets'[k] \notin cancelled'
  <2>1. k \notin T /\ sets'[k] = sets[k]
    BY <1>2, <1>5
  <2>2. ASSUME NEW l \in T, sets[l] = sets[k] PROVE FALSE
    BY <1>1, <1>3, <1>5, <2>1, <2>2
  <2>. QED BY <1>2, <1>3, <1>5, <2>1, <2>2
<1>6. ASSUME NEW i \in Instances, pc'[i] = "running", i \notin cancelled'
      PROVE  sets'[Key[gov'[i]]] = i
  <2>1. sets[Key[gov[i]]] = i /\ i # None /\ Key[gov[i]] \in Keys
    BY <1>2, <1>6, LiveKeys, ManagerAssumption DEF Inv, RegisteredIsAlive
  <2>2. Key[gov[i]] \notin T
    BY <1>2, <1>6, <2>1
  <2>. QED BY <1>2, <2>1, <2>2
<1>7. RegisteredIsAlive'
  BY <1>4, <1>5, <1>6 DEF RegisteredIsAlive
<1>8. \A i \in cancelled' \ cancelled : Key[gov[i]] \in T
  BY <1>1, <1>2, <1>3
<1>9. cancelled' \subseteq Instances /\ cancelled' \cap Free = {}
  BY <1>1, <1>2, <1>3 DEF Inv, TypeOK, Free
<1>10. sets' \in [Keys -> Instances \cup {None}] /\ \A k \in Keys : sets'[k] \in {sets[k], None}
  BY <1>2
<1>. QED BY <1>7, <1>8, <1>9, <1>10 DEF T

\* A start registers a new set under a key that has none (accounting.go:331-346).
LEMMA LaunchAlive ==
    ASSUME Inv, NEW j \in Free, NEW g \in Governed, Launch(j, g), sets[Key[g]] = None,
           NEW i, pc' = [pc EXCEPT ![j] = "running"]
                  \/ (pc[i] = "starting" /\ i \in Instances
                       /\ pc' = [pc EXCEPT ![j] = "running", ![i] = "registered"])
    PROVE  RegisteredIsAlive'
<1>. DEFINE k0 == Key[g]
<1>1. /\ k0 \in Keys /\ j \in Instances /\ pc[j] = "free" /\ j # None
      /\ sets \in [Keys -> Instances \cup {None}] /\ cancelled \subseteq Instances
      /\ gov \in [Instances -> Governed \cup {None}] /\ pc \in [Instances -> Statuses]
  BY ManagerAssumption DEF Inv, TypeOK, Free, Keys, Statuses
<1>2. /\ sets' = [sets EXCEPT ![k0] = j] /\ gov' = [gov EXCEPT ![j] = g]
      /\ cancelled' = cancelled \ {j}
  BY DEF Launch
<1>3. pc'[j] = "running" /\ \A n \in Instances \ {j} : pc'[n] = pc[n] \/ (pc[n] = "starting" /\ pc'[n] = "registered")
  BY <1>1
<1>. HIDE DEF k0
<1>4. \A k \in Keys \ {k0} : sets'[k] # None =>
        /\ sets'[k] = sets[k] /\ sets[k] \in Instances \ {j} /\ sets[k] \notin cancelled
        /\ pc[sets[k]] \in {"running", "stopped"} /\ Key[gov[sets[k]]] = k
  BY <1>1, <1>2 DEF Inv, RegisteredIsAlive
<1>5. \A k \in Keys \ {k0} : sets'[k] # None =>
        /\ pc'[sets'[k]] \in {"running", "stopped"} /\ Key[gov'[sets'[k]]] = k
        /\ sets'[k] \notin cancelled'
  BY <1>1, <1>2, <1>3, <1>4
<1>6. sets'[k0] = j /\ pc'[j] = "running" /\ Key[gov'[j]] = k0 /\ j \notin cancelled'
  BY <1>1, <1>2, <1>3 DEF k0
<1>7. ASSUME NEW n \in Instances, pc'[n] = "running", n \notin cancelled', n # j
      PROVE  sets'[Key[gov'[n]]] = n
  <2>1. pc[n] = "running" /\ n \notin cancelled /\ gov'[n] = gov[n]
    BY <1>1, <1>2, <1>3, <1>7
  <2>2. sets[Key[gov[n]]] = n /\ Key[gov[n]] \in Keys /\ n # None
    BY <2>1, LiveKeys, ManagerAssumption DEF Inv, RegisteredIsAlive
  <2>3. Key[gov[n]] # k0
    BY <2>2 DEF k0
  <2>. QED BY <1>1, <1>2, <2>1, <2>2, <2>3
<1>. QED BY <1>5, <1>6, <1>7 DEF RegisteredIsAlive

\* A goroutine that ends leaves the registry right when nothing registered is it,
\* or its entry goes with it (accounting.go:354-372).
LEMMA EndAlive ==
    ASSUME Inv, NEW i \in Instances, pc[i] # "running",
           gov' = gov \/ gov' = [gov EXCEPT ![i] = None],
           cancelled' = cancelled \/ cancelled' = cancelled \ {i},
           NEW q \in {"free", "waiting", "starting"}, pc' = [pc EXCEPT ![i] = q],
           \/ UNCHANGED sets /\ \A k \in Keys : sets[k] # i
           \/ Unregister(i)
    PROVE  RegisteredIsAlive'
<1>1. /\ sets \in [Keys -> Instances \cup {None}] /\ cancelled \subseteq Instances
      /\ gov \in [Instances -> Governed \cup {None}] /\ pc \in [Instances -> Statuses]
  BY DEF Inv, TypeOK, Statuses
<1>2. \A n \in Instances \ {i} : pc'[n] = pc[n] /\ gov'[n] = gov[n]
                                 /\ (n \in cancelled' <=> n \in cancelled)
  BY <1>1
<1>3. \A k \in Keys : sets'[k] # i /\ sets'[k] \in {sets[k], None}
  <2>1. CASE UNCHANGED sets /\ \A k \in Keys : sets[k] # i
    BY <1>1, <2>1
  <2>2. CASE Unregister(i)
    <3>1. Key[gov[i]] \in Keys /\ sets' = [sets EXCEPT ![Key[gov[i]]] = None]
      BY <2>2, LiveKeys DEF Unregister, Inv
    <3>2. \A k \in Keys : sets[k] = i => Key[gov[i]] = k
      BY ManagerAssumption DEF Inv, RegisteredIsAlive
    <3>. QED BY <1>1, <3>1, <3>2, ManagerAssumption
  <2>. QED BY <2>1, <2>2
<1>4. \A k \in Keys : sets'[k] # None => sets'[k] \in Instances \ {i} /\ sets'[k] = sets[k]
  BY <1>1, <1>3
<1>5. \A k \in Keys : sets'[k] # None =>
        /\ pc'[sets'[k]] \in {"running", "stopped"} /\ Key[gov'[sets'[k]]] = k
        /\ sets'[k] \notin cancelled'
  BY <1>2, <1>4 DEF Inv, RegisteredIsAlive
<1>6. ASSUME NEW n \in Instances, pc'[n] = "running", n \notin cancelled'
      PROVE  sets'[Key[gov'[n]]] = n
  <2>1. n # i /\ pc[n] = "running" /\ n \notin cancelled /\ gov'[n] = gov[n]
    BY <1>1, <1>2, <1>6
  <2>2. sets[Key[gov[n]]] = n /\ Key[gov[n]] \in Keys
    BY <2>1, LiveKeys DEF Inv, RegisteredIsAlive
  <2>3. \/ UNCHANGED sets
        \/ sets' = [sets EXCEPT ![Key[gov[i]]] = None] /\ sets[Key[gov[i]]] = i
    BY DEF Unregister
  <2>. QED BY <1>1, <2>1, <2>2, <2>3
<1>. QED BY <1>5, <1>6 DEF RegisteredIsAlive

\* An instance that is not running or stopped is registered nowhere.
LEMMA NotRegistered ==
    ASSUME Inv, NEW i \in Instances, pc[i] \notin {"running", "stopped"}
    PROVE  \A k \in Keys : sets[k] # i
BY ManagerAssumption DEF Inv, RegisteredIsAlive

\* The worker and a retry launch under a key that nothing is registered for.
LEMMA LaunchesClear ==
    ASSUME Inv
    PROVE  /\ worker.pc = "starting" => worker.gov \in Governed /\ sets[Key[worker.gov]] = None
           /\ \A i \in Instances : pc[i] = "starting" =>
                gov[i] \in Governed /\ sets[Key[gov[i]]] = None
BY LiveKeys DEF Inv, NothingRegistered, WorkerBusy
-----------------------------------------------------------------------------
(* Each conjunct of the invariant is kept by every action.                    *)

\* What is registered stays alive, and what runs stays registered.
LEMMA NextAlive == Inv /\ [Next]_vars => RegisteredIsAlive'
<1>. SUFFICES ASSUME Inv, [Next]_vars PROVE RegisteredIsAlive'
  OBVIOUS
<1>0. RegisteredIsAlive
  BY DEF Inv
<1>1. CASE UNCHANGED <<sets, pc, gov, cancelled>>
  BY <1>0, <1>1 DEF RegisteredIsAlive
<1>2. ASSUME NEW c \in CQs, Provider(c) PROVE RegisteredIsAlive'
  BY <1>1, <1>2 DEF Provider, Edit, Delete, Touch, bounds, envVars
<1>3. ASSUME NEW g \in Governed, Withdraw(g) PROVE RegisteredIsAlive'
  BY <1>1, <1>3 DEF Withdraw
<1>4. CASE Reconcile
  <2>1. ASSUME NEW c \in CQs, Remove(c) \/ EnsureRunning(c) \/ EnsureStart(c)
        PROVE  RegisteredIsAlive'
    <3>1. UNCHANGED <<pc, gov>> /\ \E keep : DropSets(c, keep)
      BY <2>1 DEF Remove, EnsureRunning, EnsureStart, Reference
    <3>. QED BY <3>1, DropSetsAlive
  <2>2. CASE EnsureRegister
    <3>1. PICK j \in Free : Launch(j, worker.gov) /\ pc' = [pc EXCEPT ![j] = "running"]
      BY <2>2 DEF EnsureRegister
    <3>2. worker.gov \in Governed /\ sets[Key[worker.gov]] = None
      BY <2>2, LaunchesClear DEF EnsureRegister
    <3>. QED BY <3>1, <3>2, LaunchAlive
  <2>3. CASE EnsureFailed
    <3>1. worker.cq \in CQs /\ UNCHANGED <<pc, gov>> /\ DropSets(worker.cq, None)
      BY <2>3 DEF EnsureFailed, Inv, WorkerBusy
    <3>. QED BY <3>1, DropSetsAlive
  <2>4. CASE EnsureDone
    BY <1>1, <2>4 DEF EnsureDone
  <2>. QED BY <1>4, <2>1, <2>2, <2>3, <2>4 DEF Reconcile
<1>5. ASSUME NEW i \in Instances, Stop(i) PROVE RegisteredIsAlive'
  <2>1. /\ pc[i] = "running" /\ pc' = [pc EXCEPT ![i] = "stopped"]
        /\ UNCHANGED <<sets, gov, cancelled>>
    BY <1>5 DEF Stop
  <2>2. pc \in [Instances -> Statuses] /\ sets \in [Keys -> Instances \cup {None}]
    BY DEF Inv, TypeOK, Statuses
  <2>. QED BY <1>0, <2>1, <2>2 DEF RegisteredIsAlive
<1>6. ASSUME NEW i \in Instances, Watch(i) PROVE RegisteredIsAlive'
  <2>1. CASE Replaced(i)
    <3>1. \A k \in Keys : sets[k] # i
      BY <1>0, <2>1, ManagerAssumption DEF Replaced, RegisteredIsAlive
    <3>. QED BY <2>1, <3>1, EndAlive DEF Replaced, End
  <2>2. CASE Unreferenced(i)
    BY <2>2, EndAlive DEF Unreferenced, Unregister, End
  <2>3. CASE SelfStopped(i)
    BY <2>3, EndAlive DEF SelfStopped, Unregister
  <2>. QED BY <1>6, <2>1, <2>2, <2>3 DEF Watch
<1>7. ASSUME NEW i \in Instances, Retry(i) PROVE RegisteredIsAlive'
  <2>1. CASE RetryAbandoned(i) \/ RetryStart(i) \/ RetryFailed(i) \/ RetryDone(i)
    <3>1. pc[i] \notin {"running", "stopped"} /\ UNCHANGED sets
      BY <2>1 DEF RetryAbandoned, RetryStart, RetryFailed, RetryDone, Woken
    <3>. QED BY <2>1, <3>1, NotRegistered, EndAlive
             DEF RetryAbandoned, RetryStart, RetryFailed, RetryDone, End, TryAgain
  <2>2. CASE RetryRegister(i)
    <3>1. PICK j \in Free : /\ Launch(j, gov[i])
                            /\ pc' = [pc EXCEPT ![j] = "running", ![i] = "registered"]
      BY <2>2 DEF RetryRegister
    <3>2. pc[i] = "starting" /\ gov[i] \in Governed /\ sets[Key[gov[i]]] = None
      BY <2>2, LaunchesClear DEF RetryRegister
    <3>. QED BY <3>1, <3>2, LaunchAlive
  <2>. QED BY <1>7, <2>1, <2>2 DEF Retry
<1>8. CASE UNCHANGED vars
  BY <1>1, <1>8 DEF vars
<1>. QED BY <1>2, <1>3, <1>4, <1>5, <1>6, <1>7, <1>8 DEF Next

\* The worker in Ensure holds a quota and a governed export (accounting.go:106-154).
LEMMA NextWorkerBusy == Inv /\ [Next]_vars => WorkerBusy'
<1>. SUFFICES ASSUME Inv, [Next]_vars PROVE WorkerBusy'
  OBVIOUS
<1>1. TypeOK /\ WorkerBusy
  BY DEF Inv
<1>2. ASSUME NEW c \in CQs, EnsureStart(c) PROVE WorkerBusy'
  BY <1>1, <1>2 DEF EnsureStart, Take, TypeOK, WorkerBusy
<1>3. CASE worker' = Idle
  BY <1>3 DEF WorkerBusy, Idle
<1>4. CASE UNCHANGED worker
  BY <1>1, <1>4 DEF WorkerBusy
<1>5. CASE EnsureRegister
  BY <1>1, <1>5 DEF EnsureRegister, WorkerBusy, TypeOK
<1>. QED
  BY <1>2, <1>3, <1>4, <1>5
  DEF Next, Provider, Edit, Delete, Touch, Withdraw, Reconcile, Remove, EnsureRunning,
      EnsureFailed, EnsureDone, Stop, Watch, Replaced, Unreferenced, SelfStopped,
      Retry, RetryAbandoned, RetryStart, RetryRegister, RetryFailed, RetryDone, vars

\* Who holds a key does not change when nobody begins or ends a start.
LEMMA SameHolders ==
    ASSUME HeldOnce, UNCHANGED starting,
           worker'.gov = worker.gov, worker.pc # "idle" <=> worker'.pc # "idle",
           \A i \in Instances : InStart(i)' <=> InStart(i),
           \A i \in Instances : InStart(i) => gov'[i] = gov[i]
    PROVE  HeldOnce'
BY DEF HeldOnce, WorkerStarts

\* A start that begins takes a key nobody holds (accounting.go:133-137, 411-416).
LEMMA HoldersAfterStart ==
    ASSUME Inv, NEW k \in Keys, k \notin starting, starting' = starting \cup {k},
           UNCHANGED gov,
           \/ /\ worker.pc = "idle" /\ worker'.pc # "idle" /\ Key[worker'.gov] = k
              /\ UNCHANGED pc
           \/ /\ UNCHANGED worker
              /\ \E i \in Instances : /\ pc[i] = "waiting" /\ Key[gov[i]] = k
                                      /\ pc' = [pc EXCEPT ![i] = "starting"]
    PROVE  HeldOnce'
<1>1. HeldOnce /\ pc \in [Instances -> Statuses]
  BY DEF Inv, TypeOK, Statuses
<1>2. ~WorkerStarts(k) /\ \A i \in Instances : InStart(i) => Key[gov[i]] # k
  BY <1>1 DEF HeldOnce, WorkerStarts
<1>3. CASE /\ worker.pc = "idle" /\ worker'.pc # "idle" /\ Key[worker'.gov] = k
           /\ UNCHANGED pc
  BY <1>1, <1>2, <1>3 DEF HeldOnce, WorkerStarts, InStart
<1>4. ASSUME UNCHANGED worker, NEW i \in Instances, pc[i] = "waiting", Key[gov[i]] = k,
             pc' = [pc EXCEPT ![i] = "starting"]
      PROVE  HeldOnce'
  <2>1. \A n \in Instances : InStart(n)' <=> InStart(n) \/ n = i
    BY <1>1, <1>4 DEF InStart
  <2>2. ~InStart(i)
    BY <1>4 DEF InStart
  <2>. QED BY <1>1, <1>2, <1>4, <2>1, <2>2 DEF HeldOnce, WorkerStarts
<1>. QED BY <1>3, <1>4

\* A start that ends gives back the key it held alone (accounting.go:144, 422).
LEMMA HoldersAfterEnd ==
    ASSUME HeldOnce,
           \/ /\ worker.pc # "idle" /\ worker' = Idle /\ UNCHANGED <<pc, gov>>
              /\ starting' = Started(Key[worker.gov])
           \/ /\ UNCHANGED worker
              /\ \E i \in Instances :
                   /\ InStart(i) /\ starting' = Started(Key[gov[i]])
                   /\ ~InStart(i)'
                   /\ \A n \in Instances \ {i} : pc'[n] = pc[n] /\ gov'[n] = gov[n]
    PROVE  HeldOnce'
<1>1. CASE /\ worker.pc # "idle" /\ worker' = Idle /\ UNCHANGED <<pc, gov>>
           /\ starting' = Started(Key[worker.gov])
  BY <1>1 DEF HeldOnce, WorkerStarts, InStart, Idle, Started
<1>2. ASSUME UNCHANGED worker, NEW i \in Instances, InStart(i), ~InStart(i)',
             starting' = Started(Key[gov[i]]),
             \A n \in Instances \ {i} : pc'[n] = pc[n] /\ gov'[n] = gov[n]
      PROVE  HeldOnce'
  <2>1. \A n \in Instances : InStart(n)' <=> InStart(n) /\ n # i
    BY <1>2 DEF InStart
  <2>2. \A n \in Instances : InStart(n)' => gov'[n] = gov[n]
    BY <1>2, <2>1
  <2>. QED BY <1>2, <2>1, <2>2 DEF HeldOnce, WorkerStarts, Started
<1>. QED BY <1>1, <1>2

\* The in-flight guard: a key in starting has exactly one holder.
LEMMA NextHeldOnce == Inv /\ [Next]_vars => HeldOnce'
<1>. SUFFICES ASSUME Inv, [Next]_vars PROVE HeldOnce'
  OBVIOUS
<1>0. /\ HeldOnce /\ pc \in [Instances -> Statuses] /\ gov \in [Instances -> Governed \cup {None}]
      /\ worker = Idle <=> worker.pc = "idle"
  BY DEF Inv, TypeOK, Statuses
<1>1. CASE UNCHANGED <<worker, starting, pc, gov>>
  BY <1>0, <1>1, SameHolders DEF InStart
<1>2. ASSUME NEW c \in CQs, EnsureStart(c) PROVE HeldOnce'
  BY <1>2, LiveKeys, HoldersAfterStart DEF EnsureStart, Take, Idle, Inv, TypeOK
<1>3. CASE EnsureRegister
  <2>1. PICK j \in Free : Launch(j, worker.gov) /\ pc' = [pc EXCEPT ![j] = "running"]
    BY <1>3 DEF EnsureRegister
  <2>2. worker.pc # "idle" /\ worker'.pc # "idle" /\ worker'.gov = worker.gov /\ UNCHANGED starting
    BY <1>3 DEF EnsureRegister, Inv, TypeOK
  <2>. QED BY <1>0, <2>1, <2>2, SameHolders DEF InStart, Launch, Free
<1>4. CASE EnsureFailed \/ EnsureDone
  BY <1>0, <1>4, HoldersAfterEnd DEF EnsureFailed, EnsureDone
<1>5. ASSUME NEW i \in Instances, Stop(i) \/ Watch(i) \/ RetryAbandoned(i) PROVE HeldOnce'
  <2>1. /\ UNCHANGED <<worker, starting>> /\ pc[i] \in {"running", "stopped", "waiting"}
        /\ \E q \in {"stopped", "free", "waiting"} : pc' = [pc EXCEPT ![i] = q]
        /\ gov' = gov \/ gov' = [gov EXCEPT ![i] = None]
    BY <1>5 DEF Stop, Watch, Replaced, Unreferenced, SelfStopped, RetryAbandoned, Woken,
                End, Unregister
  <2>. QED BY <1>0, <2>1, SameHolders DEF InStart
<1>6. ASSUME NEW i \in Instances, RetryStart(i) PROVE HeldOnce'
  BY <1>6, LiveKeys, HoldersAfterStart DEF RetryStart, Woken, Wanted, Inv
<1>7. ASSUME NEW i \in Instances, RetryRegister(i) PROVE HeldOnce'
  <2>1. PICK j \in Free : /\ Launch(j, gov[i])
                          /\ pc' = [pc EXCEPT ![j] = "running", ![i] = "registered"]
    BY <1>7 DEF RetryRegister
  <2>. QED BY <1>0, <1>7, <2>1, SameHolders DEF InStart, Launch, Free, RetryRegister
<1>8. ASSUME NEW i \in Instances, RetryFailed(i) \/ RetryDone(i) PROVE HeldOnce'
  BY <1>0, <1>8, HoldersAfterEnd DEF RetryFailed, RetryDone, TryAgain, End, InStart
<1>. QED
  BY <1>1, <1>2, <1>3, <1>4, <1>5, <1>6, <1>7, <1>8
  DEF Next, Provider, Edit, Delete, Touch, Withdraw, Reconcile, Remove, EnsureRunning,
      Retry, vars, envVars, bounds

\* Until a start registers its set nobody else registers one under its key: the
\* others find the key in starting (accounting.go:133, 411).
LEMMA NextNothingRegistered == Inv /\ [Next]_vars => NothingRegistered'
<1>. SUFFICES ASSUME Inv, [Next]_vars PROVE NothingRegistered'
  OBVIOUS
<1>0. /\ NothingRegistered /\ HeldOnce /\ TypeOK
      /\ pc \in [Instances -> Statuses] /\ gov \in [Instances -> Governed \cup {None}]
      /\ sets \in [Keys -> Instances \cup {None}]
  BY DEF Inv, TypeOK, Statuses
<1>1. ASSUME worker'.gov = worker.gov, worker'.pc = "starting" => worker.pc = "starting",
             \A k \in Keys : sets'[k] \in {sets[k], None},
             \A i \in Instances : pc'[i] = "starting" => pc[i] = "starting" /\ gov'[i] = gov[i]
      PROVE  NothingRegistered'
  BY <1>0, <1>1, LiveKeys DEF NothingRegistered, Inv
<1>2. ASSUME NEW c \in CQs, Remove(c) \/ EnsureRunning(c) PROVE NothingRegistered'
  <2>1. UNCHANGED <<worker, pc, gov>> /\ \E keep : DropSets(c, keep)
    BY <1>2 DEF Remove, EnsureRunning, Reference
  <2>. QED BY <1>1, <2>1, DropSetsAlive
<1>3. ASSUME NEW c \in CQs, EnsureStart(c) PROVE NothingRegistered'
  <2>1. /\ worker' = [pc |-> "starting", cq |-> c, gov |-> spec[c]] /\ UNCHANGED <<pc, gov>>
        /\ spec[c] \in Governed /\ sets[Key[spec[c]]] = None
        /\ \E keep : DropSets(c, keep)
    BY <1>0, <1>3 DEF EnsureStart, Reference, TypeOK
  <2>2. \A k \in Keys : sets'[k] \in {sets[k], None}
    BY <2>1, DropSetsAlive
  <2>. QED BY <1>0, <2>1, <2>2, LiveKeys DEF NothingRegistered, Inv
<1>4. CASE EnsureFailed \/ EnsureDone
  <2>1. worker' = Idle /\ UNCHANGED <<pc, gov>>
    BY <1>4 DEF EnsureFailed, EnsureDone
  <2>2. \A k \in Keys : sets'[k] \in {sets[k], None}
    <3>1. CASE EnsureFailed
      BY <3>1, DropSetsAlive DEF EnsureFailed, Inv, WorkerBusy
    <3>2. CASE EnsureDone
      BY <3>2 DEF EnsureDone
    <3>. QED BY <1>4, <3>1, <3>2
  <2>. QED BY <1>0, <2>1, <2>2, LiveKeys DEF NothingRegistered, Inv, Idle
<1>5. CASE EnsureRegister
  <2>1. PICK j \in Free : Launch(j, worker.gov) /\ pc' = [pc EXCEPT ![j] = "running"]
    BY <1>5 DEF EnsureRegister
  <2>2. worker.pc = "starting" /\ worker'.pc = "registered"
    BY <1>0, <1>5 DEF EnsureRegister, TypeOK
  <2>3. \A i \in Instances : pc'[i] = "starting" =>
          /\ pc[i] = "starting" /\ gov'[i] = gov[i]
          /\ Key[gov[i]] # Key[worker.gov]
    BY <1>0, <2>1, <2>2 DEF Launch, Free, HeldOnce, InStart, WorkerStarts
  <2>. QED BY <1>0, <2>1, <2>2, <2>3, LiveKeys DEF NothingRegistered, Launch, Inv
<1>6. ASSUME NEW i \in Instances, Stop(i) \/ Watch(i) PROVE NothingRegistered'
  <2>1. /\ UNCHANGED worker
        /\ sets' = sets \/ sets' = [sets EXCEPT ![Key[gov[i]]] = None]
        /\ \E q \in {"stopped", "free", "waiting"} : pc' = [pc EXCEPT ![i] = q]
        /\ gov' = gov \/ gov' = [gov EXCEPT ![i] = None]
    BY <1>6 DEF Stop, Watch, Replaced, Unreferenced, SelfStopped, End, Unregister
  <2>. QED BY <1>0, <1>1, <2>1
<1>7. ASSUME NEW i \in Instances, Retry(i) PROVE NothingRegistered'
  <2>1. CASE RetryAbandoned(i) \/ RetryFailed(i) \/ RetryDone(i)
    <3>1. /\ UNCHANGED <<worker, sets>>
          /\ \E q \in {"free", "waiting"} : pc' = [pc EXCEPT ![i] = q]
          /\ gov' = gov \/ gov' = [gov EXCEPT ![i] = None]
      BY <2>1 DEF RetryAbandoned, RetryFailed, RetryDone, End, TryAgain
    <3>. QED BY <1>0, <1>1, <3>1
  <2>2. CASE RetryStart(i)
    BY <1>0, <2>2 DEF RetryStart, Woken, Wanted, NothingRegistered
  <2>3. CASE RetryRegister(i)
    <3>1. PICK j \in Free : /\ Launch(j, gov[i])
                            /\ pc' = [pc EXCEPT ![j] = "running", ![i] = "registered"]
      BY <2>3 DEF RetryRegister
    <3>2. pc[i] = "starting" /\ UNCHANGED worker
      BY <2>3 DEF RetryRegister
    <3>3. \A n \in Instances : pc'[n] = "starting" =>
            /\ pc[n] = "starting" /\ gov'[n] = gov[n]
            /\ Key[gov[n]] # Key[gov[i]]
      BY <1>0, <3>1, <3>2 DEF Launch, Free, HeldOnce, InStart
    <3>4. worker.pc # "idle" => Key[worker.gov] # Key[gov[i]]
      BY <1>0, <3>2 DEF HeldOnce, InStart, WorkerStarts
    <3>. QED BY <1>0, <3>1, <3>2, <3>3, <3>4, LiveKeys DEF NothingRegistered, Launch, Inv
  <2>. QED BY <1>7, <2>1, <2>2, <2>3 DEF Retry
<1>8. CASE UNCHANGED <<worker, sets, pc, gov>>
  BY <1>0, <1>8 DEF NothingRegistered
<1>. QED
  BY <1>2, <1>3, <1>4, <1>5, <1>6, <1>7, <1>8
  DEF Next, Provider, Edit, Delete, Touch, Withdraw, Reconcile, vars, envVars, bounds

\* Every action keeps the shape of the state.
LEMMA NextTypeOK == Inv /\ [Next]_vars => TypeOK'
<1>. SUFFICES ASSUME Inv, [Next]_vars PROVE TypeOK'
  OBVIOUS
<1>. DEFINE ProviderOK == /\ spec \in [CQs -> Governed \cup {None}] /\ served \subseteq Governed
                          /\ edits \in 0 .. MaxEdits
            WorkerOK == /\ queue \subseteq CQs
                        /\ worker \in [pc : {"idle", "starting", "registered"},
                                       cq : CQs \cup {None}, gov : Governed \cup {None}]
                        /\ refs \in [Keys -> SUBSET CQs] /\ starting \subseteq Keys
                        /\ worker.pc = "idle" <=> worker = Idle
            CountsOK == failures \in 0 .. MaxFailures /\ stops \in 0 .. MaxStops
            SetsOK == /\ sets \in [Keys -> Instances \cup {None}]
                      /\ pc \in [Instances -> Statuses]
                      /\ gov \in [Instances -> Governed \cup {None}]
                      /\ cancelled \subseteq Instances /\ cancelled \cap Free = {}
                      /\ \A i \in Instances : pc[i] = "free" <=> gov[i] = None
<1>0. /\ TypeOK /\ ProviderOK /\ WorkerOK /\ CountsOK /\ SetsOK
      /\ MaxEdits \in Nat /\ MaxFailures \in Nat /\ MaxStops \in Nat /\ None \notin Governed
      /\ \A c \in CQs : Names[c] \subseteq Governed
  BY ManagerAssumption DEF Inv, TypeOK, Statuses
<1>1. ProviderOK'
  <2>1. ASSUME NEW c \in CQs, Edit(c) PROVE ProviderOK'
    BY <1>0, <2>1 DEF Edit
  <2>. QED
    BY <1>0, <2>1
    DEF Next, Provider, Delete, Touch, Withdraw, Reconcile, Remove, EnsureRunning, EnsureStart,
        EnsureRegister, EnsureFailed, EnsureDone, Stop, Watch, Replaced, Unreferenced,
        SelfStopped, Retry, RetryAbandoned, RetryStart, RetryRegister, RetryFailed, RetryDone,
        vars, envVars, bounds
<1>2. CountsOK'
  BY <1>0
  DEF Next, Provider, Edit, Delete, Touch, Withdraw, Reconcile, Remove, EnsureRunning, EnsureStart,
      EnsureRegister, EnsureFailed, EnsureDone, Stop, Watch, Replaced, Unreferenced,
      SelfStopped, Retry, RetryAbandoned, RetryStart, RetryRegister, RetryFailed, RetryDone,
      vars, envVars, bounds
<1>3. WorkerOK'
  <2>1. CASE UNCHANGED <<queue, worker, refs, starting>>
    BY <1>0, <2>1
  <2>2. ASSUME NEW c \in CQs, Provider(c) PROVE WorkerOK'
    BY <1>0, <2>2 DEF Provider, Edit, Delete, Touch
  <2>3. ASSUME NEW c \in CQs, Remove(c) \/ EnsureRunning(c) \/ EnsureStart(c)
        PROVE  WorkerOK'
    <3>1. ASSUME NEW k \in Keys, Reference(c, k) PROVE refs' \in [Keys -> SUBSET CQs]
      BY <1>0, <3>1 DEF Reference, Dropped
    <3>2. ASSUME Remove(c) PROVE refs' \in [Keys -> SUBSET CQs]
      BY <1>0, <3>2 DEF Remove, Dropped
    <3>3. refs' \in [Keys -> SUBSET CQs]
      BY <1>0, <2>3, <3>1, <3>2, LiveKeys DEF EnsureRunning, EnsureStart, Inv
    <3>. QED BY <1>0, <2>3, <3>3, LiveKeys
             DEF Remove, EnsureRunning, EnsureStart, Take, Idle, Inv
  <2>4. CASE EnsureRegister
    BY <1>0, <2>4 DEF EnsureRegister, Idle
  <2>5. CASE EnsureFailed \/ EnsureDone
    <3>1. Dropped(worker.cq, None) \in [Keys -> SUBSET CQs] /\ Idle \in [pc : {"idle"}, cq : {None}, gov : {None}]
      BY <1>0 DEF Dropped, Idle
    <3>. QED BY <1>0, <2>5, <3>1 DEF EnsureFailed, EnsureDone, Started, Idle, Inv, WorkerBusy
  <2>6. ASSUME NEW i \in Instances, Retry(i) PROVE WorkerOK'
    BY <1>0, <2>6, LiveKeys
    DEF Retry, RetryAbandoned, RetryStart, RetryRegister, RetryFailed, RetryDone, Started, Woken, Inv
  <2>. QED BY <2>1, <2>2, <2>3, <2>4, <2>5, <2>6
           DEF Next, Withdraw, Reconcile, Stop, Watch, Replaced, Unreferenced, SelfStopped, vars
<1>4. SetsOK'
  <2>1. CASE UNCHANGED <<sets, pc, gov, cancelled>>
    BY <1>0, <2>1 DEF Free
  <2>2. ASSUME NEW c \in CQs, NEW keep, DropSets(c, keep), UNCHANGED <<pc, gov>> PROVE SetsOK'
    BY <1>0, <2>2, DropSetsAlive DEF Free
  <2>3. ASSUME NEW j \in Free, NEW g \in Governed, Launch(j, g), NEW i \in Instances,
               \/ pc' = [pc EXCEPT ![j] = "running"]
               \/ pc[i] = "starting" /\ pc' = [pc EXCEPT ![j] = "running", ![i] = "registered"]
        PROVE  SetsOK'
    BY <1>0, <2>3 DEF Free, Launch, Statuses
  <2>4. ASSUME NEW i \in Instances, pc[i] # "free",
               \/ pc' = [pc EXCEPT ![i] = "free"] /\ gov' = [gov EXCEPT ![i] = None]
                  /\ cancelled' = cancelled \ {i}
               \/ \E q \in Statuses \ {"free"} :
                    pc' = [pc EXCEPT ![i] = q] /\ UNCHANGED <<gov, cancelled>>,
               sets' = sets \/ sets' = [sets EXCEPT ![Key[gov[i]]] = None]
        PROVE  SetsOK'
    BY <1>0, <2>4 DEF Free, Statuses
  <2>5. CASE Reconcile
    <3>1. CASE EnsureRegister
      BY <2>3, <3>1, LaunchesClear DEF EnsureRegister, Free
    <3>. QED BY <2>1, <2>2, <2>5, <3>1
             DEF Reconcile, Remove, EnsureRunning, EnsureStart, Reference, EnsureFailed,
                 EnsureDone, Inv, WorkerBusy
  <2>6. ASSUME NEW i \in Instances, Stop(i) \/ Watch(i) PROVE SetsOK'
    BY <2>4, <2>6 DEF Stop, Watch, Replaced, Unreferenced, SelfStopped, End, Unregister, Statuses
  <2>7. ASSUME NEW i \in Instances, Retry(i) PROVE SetsOK'
    <3>1. CASE RetryRegister(i)
      BY <2>3, <3>1, LaunchesClear DEF RetryRegister
    <3>. QED BY <2>4, <2>7, <3>1
             DEF Retry, RetryAbandoned, RetryStart, RetryFailed, RetryDone, Woken, End, TryAgain,
                 Statuses
  <2>. QED BY <2>1, <2>5, <2>6, <2>7
           DEF Next, Provider, Edit, Delete, Touch, Withdraw, vars
<1>. QED BY <1>1, <1>2, <1>3, <1>4 DEF TypeOK, Statuses
-----------------------------------------------------------------------------
(* The theorems.                                                              *)

\* A controller that has just started satisfies the invariant.
LEMMA InitInv == Init => Inv
BY ManagerAssumption
DEF Init, Inv, TypeOK, WorkerBusy, RegisteredIsAlive, HeldOnce, NothingRegistered, InStart,
    WorkerStarts, Idle, Free, Keys

\* The invariant holds in every reachable state.
THEOREM ManagerInvariant == Spec => []Inv
<1>1. Inv /\ [Next]_vars => Inv'
  BY NextTypeOK, NextWorkerBusy, NextAlive, NextHeldOnce, NextNothingRegistered DEF Inv
<1>. QED BY InitInv, <1>1, PTL DEF Spec

\* Every reachable state is well typed, for any number of quotas, exports and
\* sets: an instance is given back whole when its goroutine ends, and Ensure
\* leaves the worker idle.
THEOREM ManagerTypeCorrect == Spec => []TypeOK
<1>1. Inv => TypeOK
  BY DEF Inv
<1>. QED BY <1>1, ManagerInvariant, PTL

\* No dead set stays registered and no live one is out of reach of a teardown
\* (accounting.go:335-338), however starts, retries and teardowns overlap.
THEOREM RegistryIsAlive == Spec => []RegisteredIsAlive
<1>1. Inv => RegisteredIsAlive
  BY DEF Inv
<1>. QED BY <1>1, ManagerInvariant, PTL

\* At most one uncancelled set runs for an accounting key: the single-writer
\* requirement of the ledger (accounting.go:48-51).
THEOREM OneWriterPerExport == Spec => []SingleWriter
<1>1. Inv => SingleWriter
  BY DEF Inv, RegisteredIsAlive, SingleWriter
<1>. QED BY <1>1, ManagerInvariant, PTL

\* A key is in starting exactly while one start of it is in flight, on the worker
\* or on a retry goroutine (accounting.go:133-144, 411-422).
THEOREM OneStarterPerKey == Spec => []OneStarter
<1>1. ASSUME Inv, NEW k \in Keys
      PROVE  LET starters == {i \in Instances : pc[i] \in {"starting", "registered"} /\ Key[gov[i]] = k}
                              \cup {c \in CQs : worker.cq = c /\ Key[worker.gov] = k}
             IN  Cardinality(starters) = IF k \in starting THEN 1 ELSE 0
  <2>. DEFINE byGoroutine == {i \in Instances : pc[i] \in {"starting", "registered"} /\ Key[gov[i]] = k}
              byWorker == {c \in CQs : worker.cq = c /\ Key[worker.gov] = k}
  <2>0. HeldOnce
    BY <1>1 DEF Inv
  <2>1. byWorker = IF WorkerStarts(k) THEN {worker.cq} ELSE {}
    BY <1>1, ManagerAssumption DEF Inv, TypeOK, WorkerBusy, WorkerStarts, Idle
  <2>2. \A i \in Instances : i \in byGoroutine <=> InStart(i) /\ Key[gov[i]] = k
    BY DEF InStart
  <2>3. CASE k \notin starting
    <3>1. byGoroutine \cup byWorker = {}
      BY <2>0, <2>1, <2>2, <2>3 DEF HeldOnce, WorkerStarts
    <3>. QED BY <2>3, <3>1, FS_EmptySet
  <2>4. CASE k \in starting
    <3>1. CASE WorkerStarts(k)
      <4>1. byGoroutine \cup byWorker = {worker.cq}
        BY <2>0, <2>1, <2>2, <3>1 DEF HeldOnce
      <4>. QED BY <2>4, <4>1, FS_Singleton
    <3>2. CASE ~WorkerStarts(k)
      <4>1. PICK i \in Instances : InStart(i) /\ Key[gov[i]] = k
        BY <2>0, <2>4, <3>2 DEF HeldOnce
      <4>2. byGoroutine \cup byWorker = {i}
        BY <2>0, <2>1, <2>2, <3>2, <4>1 DEF HeldOnce
      <4>. QED BY <2>4, <4>2, FS_Singleton
    <3>. QED BY <3>1, <3>2
  <2>. QED BY <2>3, <2>4
<1>2. Inv => OneStarter
  BY <1>1 DEF OneStarter
<1>. QED BY <1>2, ManagerInvariant, PTL

\* Ensure moves c's reference to the key it names now and Remove drops it
\* (accounting.go:127-131, 162); the rollback of a failed start requeues the quota.
LEMMA NextRefsMatch == Inv /\ RefsMatchSpecs /\ [Next]_vars => RefsMatchSpecs'
<1>. SUFFICES ASSUME Inv, RefsMatchSpecs, [Next]_vars PROVE RefsMatchSpecs'
  OBVIOUS
<1>0. /\ refs \in [Keys -> SUBSET CQs] /\ spec \in [CQs -> Governed \cup {None}]
      /\ None \notin Keys /\ \A g \in Governed : Key[g] \in Keys
  BY ManagerAssumption, LiveKeys DEF Inv, TypeOK
<1>1. CASE UNCHANGED <<spec, refs>> /\ queue \subseteq queue'
  BY <1>1 DEF RefsMatchSpecs
<1>2. ASSUME NEW c \in CQs, Edit(c) \/ Delete(c) PROVE RefsMatchSpecs'
  BY <1>0, <1>2 DEF Edit, Delete, RefsMatchSpecs
<1>3. ASSUME NEW c \in CQs, UNCHANGED spec, queue \subseteq queue' \cup {c},
             \A k \in Keys : refs'[k] \ {c} = refs[k] \ {c},
             c \notin queue' =>
               \A k \in Keys : c \in refs'[k] <=> spec[c] # None /\ Key[spec[c]] = k
      PROVE  RefsMatchSpecs'
  <2>1. ASSUME NEW d \in CQs, NEW k \in Keys, d \notin queue', d # c
        PROVE  d \in refs'[k] <=> spec'[d] # None /\ Key[spec'[d]] = k
    <3>1. d \notin queue /\ (d \in refs'[k] <=> d \in refs[k])
      BY <1>3, <2>1
    <3>. QED BY <1>3, <3>1 DEF RefsMatchSpecs
  <2>. QED BY <1>3, <2>1 DEF RefsMatchSpecs
<1>4. ASSUME NEW c \in CQs, EnsureRunning(c) \/ EnsureStart(c) PROVE RefsMatchSpecs'
  <2>1. /\ Key[spec[c]] \in Keys /\ spec[c] # None /\ queue' = queue \ {c} /\ UNCHANGED spec
        /\ Reference(c, Key[spec[c]])
    BY <1>0, <1>4 DEF EnsureRunning, EnsureStart, Take, envVars
  <2>2. \A k \in Keys : refs'[k] = IF k = Key[spec[c]] THEN refs[k] \cup {c} ELSE refs[k] \ {c}
    BY <1>0, <2>1 DEF Reference, Dropped
  <2>3. \A k \in Keys : refs'[k] \ {c} = refs[k] \ {c}
    BY <2>2
  <2>4. \A k \in Keys : c \in refs'[k] <=> spec[c] # None /\ Key[spec[c]] = k
    BY <2>1, <2>2
  <2>5. UNCHANGED spec /\ queue \subseteq queue' \cup {c}
    BY <2>1
  <2>. QED BY <1>3, <2>3, <2>4, <2>5
<1>5. ASSUME NEW c \in CQs, Remove(c) PROVE RefsMatchSpecs'
  <2>1. \A k \in Keys : refs'[k] = refs[k] \ {c}
    BY <1>0, <1>5 DEF Remove, Dropped
  <2>2. spec[c] = None /\ queue' = queue \ {c} /\ UNCHANGED spec
    BY <1>5 DEF Remove, Take, envVars
  <2>3. \A k \in Keys : refs'[k] \ {c} = refs[k] \ {c} /\ c \notin refs'[k]
    BY <2>1
  <2>. QED BY <1>3, <2>2, <2>3
<1>6. CASE EnsureFailed
  <2>1. worker.cq \in CQs /\ \A k \in Keys : refs'[k] = refs[k] \ {worker.cq}
    BY <1>0, <1>6 DEF EnsureFailed, Dropped, Inv, WorkerBusy
  <2>. QED BY <1>0, <1>3, <1>6, <2>1 DEF EnsureFailed, envVars
<1>. QED
  BY <1>1, <1>2, <1>4, <1>5, <1>6
  DEF Next, Provider, Touch, Withdraw, Reconcile, EnsureRegister, EnsureDone, Stop, Watch,
      Replaced, Unreferenced, SelfStopped, Retry, RetryAbandoned, RetryStart, RetryRegister,
      RetryFailed, RetryDone, vars, envVars, bounds

\* A quota the worker has taken since it last changed is counted under the key it
\* names now and under no other, so no set is kept or lost by a stale reference.
THEOREM RefsAreExact == Spec => []RefsMatchSpecs
<1>1. Init => RefsMatchSpecs
  BY DEF Init, RefsMatchSpecs
<1>. QED BY <1>1, NextRefsMatch, ManagerInvariant, PTL DEF Spec

\* A set is told to stop only by the call that drops the last reference of its
\* key (accounting.go:48-49).
THEOREM TeardownAtLastReference == Spec => TeardownWhenUnreferenced
<1>1. ASSUME Inv, [Next]_vars
      PROVE  \A i \in cancelled' \ cancelled : refs'[Key[gov[i]]] = {}
  <2>1. ASSUME NEW c \in CQs, NEW keep, DropSets(c, keep), UNCHANGED <<pc, gov>>,
               \A k \in Keys \ {keep} : refs'[k] = refs[k] \ {c}
        PROVE  \A i \in cancelled' \ cancelled : refs'[Key[gov[i]]] = {}
    BY <1>1, <2>1, DropSetsAlive DEF TornDown
  <2>2. ASSUME NEW c \in CQs, EnsureRunning(c) \/ EnsureStart(c)
        PROVE  \A i \in cancelled' \ cancelled : refs'[Key[gov[i]]] = {}
    <3>1. Reference(c, Key[spec[c]]) /\ UNCHANGED <<pc, gov>>
      BY <2>2 DEF EnsureRunning, EnsureStart
    <3>2. \A k \in Keys \ {Key[spec[c]]} : refs'[k] = refs[k] \ {c}
      BY <3>1 DEF Reference, Dropped
    <3>. QED BY <2>1, <3>1, <3>2 DEF Reference
  <2>3. ASSUME NEW c \in CQs, Remove(c)
        PROVE  \A i \in cancelled' \ cancelled : refs'[Key[gov[i]]] = {}
    BY <2>1, <2>3 DEF Remove, Dropped
  <2>4. CASE EnsureFailed
    BY <1>1, <2>1, <2>4 DEF EnsureFailed, Dropped, Inv, WorkerBusy
  <2>. QED
    BY <1>1, <2>2, <2>3, <2>4
    DEF Next, Provider, Edit, Delete, Touch, Withdraw, Reconcile, EnsureRegister, EnsureDone,
        Launch, Stop, Watch, Replaced, Unreferenced, SelfStopped, Retry, RetryAbandoned,
        RetryStart, RetryRegister, RetryFailed, RetryDone, End, TryAgain, vars, bounds
<1>2. Inv /\ [Next]_vars => [\A i \in cancelled' \ cancelled : refs'[Key[gov[i]]] = {}]_vars
  BY <1>1
<1>. QED BY <1>2, ManagerInvariant, PTL DEF Spec, TeardownWhenUnreferenced
-----------------------------------------------------------------------------
(* A referenced export does not lose the last attempt to start its set.       *)

\* Some retry goroutine is waiting to start k's set.
Waited(k) == \E i \in Instances : pc[i] = "waiting" /\ Key[gov[i]] = k

\* While the worker is in Ensure its quota counts, so a set that was registered for
\* it and stopped is waited for.
Followed ==
    /\ worker.pc # "idle" => worker.cq \in refs[Key[worker.gov]]
    /\ worker.pc = "registered" => sets[Key[worker.gov]] # None \/ Waited(Key[worker.gov])

\* A step of one goroutine leaves the other waiting goroutines as they are.
LEMMA OthersWait ==
    ASSUME TypeOK, NEW k, Waited(k), NEW i \in Instances,
           pc[i] # "waiting" \/ Key[gov[i]] # k \/ (pc'[i] = "waiting" /\ gov'[i] = gov[i]),
           \A n \in Instances \ {i} : pc[n] = "waiting" => pc'[n] = "waiting" /\ gov'[n] = gov[n]
    PROVE  Waited(k)'
<1>1. PICK n \in Instances : pc[n] = "waiting" /\ Key[gov[n]] = k
  BY DEF Waited
<1>2. pc'[n] = "waiting" /\ gov'[n] = gov[n]
  BY <1>1
<1>. QED BY <1>1, <1>2 DEF Waited

\* Launching a set disturbs no waiting goroutine: it takes a free instance.
LEMMA LaunchWaits ==
    ASSUME TypeOK, NEW j \in Free, NEW g \in Governed, Launch(j, g), NEW i \in Instances,
           \/ pc' = [pc EXCEPT ![j] = "running"]
           \/ pc[i] = "starting" /\ pc' = [pc EXCEPT ![j] = "running", ![i] = "registered"]
    PROVE  /\ \A n \in Instances : pc[n] = "waiting" => pc'[n] = "waiting" /\ gov'[n] = gov[n]
           /\ sets' = [sets EXCEPT ![Key[g]] = j]
<1>1. /\ pc \in [Instances -> Statuses] /\ gov \in [Instances -> Governed \cup {None}]
      /\ j \in Instances /\ pc[j] = "free"
  BY DEF TypeOK, Free, Statuses
<1>2. gov' = [gov EXCEPT ![j] = g] /\ sets' = [sets EXCEPT ![Key[g]] = j]
  BY DEF Launch
<1>3. ASSUME NEW n \in Instances, pc[n] = "waiting"
      PROVE  pc'[n] = "waiting" /\ gov'[n] = gov[n]
  <2>1. n # j
    BY <1>1, <1>3
  <2>2. gov'[n] = gov[n]
    BY <1>1, <1>2, <2>1
  <2>3. pc'[n] = pc[n]
    BY <1>1, <1>3, <2>1
  <2>. QED BY <1>3, <2>2, <2>3
<1>. QED BY <1>2, <1>3

\* What a step of an instance's own goroutine does to the others, and to the sets:
\* it may clear the entry of its own key only.
LEMMA OwnStep ==
    ASSUME TypeOK, NEW i \in Instances,
           \/ Stop(i) \/ Watch(i)
           \/ RetryAbandoned(i) \/ RetryStart(i) \/ RetryFailed(i) \/ RetryDone(i)
    PROVE  /\ \A n \in Instances \ {i} : pc'[n] = pc[n] /\ gov'[n] = gov[n]
           /\ UNCHANGED <<spec, queue, worker, refs>>
<1>1. pc \in [Instances -> Statuses] /\ gov \in [Instances -> Governed \cup {None}]
  BY DEF TypeOK, Statuses
<1>2. /\ \E q : pc' = [pc EXCEPT ![i] = q]
      /\ gov' = gov \/ gov' = [gov EXCEPT ![i] = None]
  BY DEF Stop, Watch, Replaced, Unreferenced, SelfStopped, RetryAbandoned, RetryStart,
         RetryFailed, RetryDone, End, TryAgain
<1>3. UNCHANGED <<spec, queue, worker, refs>>
  BY DEF Stop, Watch, Replaced, Unreferenced, SelfStopped, RetryAbandoned, RetryStart,
         RetryFailed, RetryDone, envVars
<1>. QED BY <1>1, <1>2, <1>3

\* The worker's own reference keeps its set from ending unnoticed, and a retry does
\* not wake while a start is returning (accounting.go:362-380).
LEMMA NextFollowed == Inv /\ Followed /\ [Next]_vars => Followed'
<1>. SUFFICES ASSUME Inv, Followed, [Next]_vars PROVE Followed'
  OBVIOUS
<1>. PICK K : K = Key[worker.gov]
  OBVIOUS
<1>0. /\ TypeOK /\ WorkerBusy /\ None \notin Instances
      /\ refs \in [Keys -> SUBSET CQs] /\ sets \in [Keys -> Instances \cup {None}]
      /\ pc \in [Instances -> Statuses] /\ gov \in [Instances -> Governed \cup {None}]
      /\ worker.pc # "idle" => K \in Keys
      /\ \A i \in Instances : pc[i] # "free" => gov[i] \in Governed /\ Key[gov[i]] \in Keys
  BY ManagerAssumption, LiveKeys DEF Inv, TypeOK, Statuses
<1>1. CASE worker'.pc = "idle"
  BY <1>1 DEF Followed
<1>2. CASE /\ UNCHANGED <<worker, refs>>
           /\ worker.pc = "registered" => sets'[K] # None \/ Waited(K)'
  BY <1>2 DEF Followed
<1>3. CASE UNCHANGED <<worker, refs, sets, pc, gov>>
  BY <1>3 DEF Followed, Waited
<1>4. ASSUME NEW c \in CQs, EnsureStart(c) PROVE Followed'
  <2>1. /\ worker' = [pc |-> "starting", cq |-> c, gov |-> spec[c]]
        /\ Reference(c, Key[spec[c]]) /\ spec[c] \in Governed
    BY <1>0, <1>4 DEF EnsureStart, TypeOK
  <2>2. c \in refs'[Key[spec[c]]]
    BY <1>0, <2>1, LiveKeys DEF Reference, Dropped
  <2>. QED BY <2>1, <2>2 DEF Followed
<1>5. CASE EnsureRegister
  <2>1. PICK j \in Free : Launch(j, worker.gov)
    BY <1>5 DEF EnsureRegister
  <2>2. /\ worker.pc = "starting" /\ worker' = [worker EXCEPT !.pc = "registered"]
        /\ UNCHANGED refs
    BY <1>5 DEF EnsureRegister
  <2>3. worker'.pc = "registered" /\ worker'.cq = worker.cq /\ worker'.gov = worker.gov
    BY <1>0, <2>2 DEF TypeOK
  <2>4. sets'[K] # None
    BY <1>0, <2>1, <2>2 DEF Launch, Free
  <2>. QED BY <2>2, <2>3, <2>4 DEF Followed
<1>6. ASSUME NEW i \in Instances, Stop(i) \/ Watch(i) PROVE Followed'
  <2>1. UNCHANGED <<worker, refs>>
    BY <1>0, <1>6, OwnStep
  <2>2. ASSUME worker.pc = "registered" PROVE sets'[K] # None \/ Waited(K)'
    <3>1. pc[i] # "waiting" /\ pc[i] # "free"
      BY <1>6 DEF Stop, Watch, Replaced, Unreferenced, SelfStopped, Unregister
    <3>2. CASE Waited(K)
      BY <1>0, <1>6, <3>1, <3>2, OthersWait, OwnStep
    <3>3. CASE sets[K] # None /\ sets' = sets
      BY <3>3
    <3>4. CASE sets[K] # None /\ (Unreferenced(i) \/ SelfStopped(i))
      <4>1. sets' = [sets EXCEPT ![Key[gov[i]]] = None]
        BY <3>4 DEF Unreferenced, SelfStopped, Unregister
      <4>2. CASE Key[gov[i]] # K
        BY <1>0, <2>2, <3>4, <4>1, <4>2
      <4>3. CASE Key[gov[i]] = K
        <5>1. refs[K] # {}
          BY <2>2 DEF Followed
        <5>2. pc' = [pc EXCEPT ![i] = "waiting"] /\ gov' = gov
          BY <3>4, <4>3, <5>1 DEF Unreferenced, SelfStopped
        <5>. QED BY <1>0, <4>3, <5>2 DEF Waited
      <4>. QED BY <4>2, <4>3
    <3>5. sets' = sets \/ Unreferenced(i) \/ SelfStopped(i)
      BY <1>6 DEF Stop, Watch, Replaced
    <3>. QED BY <2>2, <3>2, <3>3, <3>4, <3>5 DEF Followed
  <2>. QED BY <1>2, <2>1, <2>2
<1>7. ASSUME NEW i \in Instances, RetryRegister(i) PROVE Followed'
  <2>1. PICK j \in Free : /\ Launch(j, gov[i])
                          /\ pc' = [pc EXCEPT ![j] = "running", ![i] = "registered"]
    BY <1>7 DEF RetryRegister
  <2>2. pc[i] = "starting" /\ gov[i] \in Governed /\ Key[gov[i]] \in Keys
    BY <1>0, <1>7 DEF RetryRegister
  <2>3. /\ \A n \in Instances : pc[n] = "waiting" => pc'[n] = "waiting" /\ gov'[n] = gov[n]
        /\ sets' = [sets EXCEPT ![Key[gov[i]]] = j]
    BY <1>0, <2>1, <2>2, LaunchWaits
  <2>4. Waited(K) => Waited(K)'
    BY <2>3 DEF Waited
  <2>5. worker.pc = "registered" /\ sets[K] # None => sets'[K] # None
    BY <1>0, <2>1, <2>3 DEF Free
  <2>. QED BY <1>2, <1>7, <2>4, <2>5 DEF RetryRegister, Followed
<1>8. ASSUME NEW i \in Instances,
             RetryAbandoned(i) \/ RetryStart(i) \/ RetryFailed(i) \/ RetryDone(i)
      PROVE  Followed'
  <2>1. UNCHANGED <<worker, refs>>
    BY <1>0, <1>8, OwnStep
  <2>2. sets' = sets
    BY <1>8 DEF RetryAbandoned, RetryStart, RetryFailed, RetryDone
  <2>3. ASSUME worker.pc = "registered", Waited(K) PROVE Waited(K)'
    <3>1. pc[i] # "waiting" \/ Key[gov[i]] # K
      BY <1>8, <2>3 DEF RetryAbandoned, RetryStart, RetryFailed, RetryDone, Woken, Returning
    <3>. QED BY <1>0, <1>8, <2>3, <3>1, OthersWait, OwnStep
  <2>. QED BY <1>2, <2>1, <2>2, <2>3 DEF Followed
<1>9. ASSUME NEW c \in CQs, Remove(c) \/ EnsureRunning(c) PROVE Followed'
  BY <1>1, <1>9 DEF Remove, EnsureRunning, Take, Idle
<1>. QED
  BY <1>1, <1>3, <1>4, <1>5, <1>6, <1>7, <1>8, <1>9
  DEF Next, Provider, Edit, Delete, Touch, Withdraw, Reconcile, EnsureFailed, EnsureDone, Idle,
      Retry, vars, envVars, bounds

\* The steps that may strand an export, as StartNotLost names them.
LosesItsQuota(k) ==
    \E c \in CQs : /\ Named(c, k) \/ (worker.cq = c /\ Key[worker.gov] = k)
                   /\ ~Named(c, k)'
LosesItsReturn(k) ==
    \E i \in Instances : pc[i] = "registered" /\ Key[gov[i]] = k /\ sets[k] = None

\* Every other step that gives up one way to start a referenced set leaves another.
LEMMA NextNotStranded ==
    ASSUME Inv, Followed, [Next]_vars, NEW k \in Keys, Stranded(k)'
    PROVE  Stranded(k) \/ LosesItsQuota(k) \/ LosesItsReturn(k)
<1>0. /\ TypeOK /\ WorkerBusy /\ None \notin Instances /\ None \notin Keys
      /\ refs \in [Keys -> SUBSET CQs] /\ sets \in [Keys -> Instances \cup {None}]
      /\ pc \in [Instances -> Statuses] /\ gov \in [Instances -> Governed \cup {None}]
      /\ spec \in [CQs -> Governed \cup {None}]
      /\ \A i \in Instances : pc[i] # "free" => gov[i] \in Governed /\ Key[gov[i]] \in Keys
      /\ worker.pc # "idle" => Key[worker.gov] \in Keys /\ worker.cq \in CQs
  BY ManagerAssumption, LiveKeys DEF Inv, TypeOK, WorkerBusy, Statuses
<1>1. /\ refs'[k] # {} /\ sets'[k] = None /\ k \notin starting' /\ ~Waited(k)'
      /\ \A c \in queue' : ~Named(c, k)'
  BY DEF Stranded, Waited
<1>2. ASSUME refs[k] # {}, sets[k] = None, k \notin starting, Waited(k) => Waited(k)',
             \A c \in queue : ~Named(c, k)
      PROVE  Stranded(k)
  BY <1>1, <1>2 DEF Stranded, Waited
<1>3. ASSUME UNCHANGED <<spec, refs, sets, starting, pc, gov>>, queue \subseteq queue'
      PROVE  Stranded(k)
  BY <1>1, <1>2, <1>3 DEF Waited, Named
<1>4. ASSUME NEW c \in CQs, Edit(c) \/ Delete(c) PROVE Stranded(k) \/ LosesItsQuota(k)
  <2>1. /\ queue' = queue \cup {c} /\ UNCHANGED <<refs, sets, starting, pc, gov>>
        /\ \A d \in CQs \ {c} : spec'[d] = spec[d]
    BY <1>0, <1>4 DEF Edit, Delete
  <2>2. CASE Named(c, k)
    BY <1>1, <2>1, <2>2 DEF LosesItsQuota
  <2>3. CASE ~Named(c, k)
    <3>1. \A d \in queue : ~Named(d, k)
      <4>. SUFFICES ASSUME NEW d \in queue, d # c PROVE ~Named(d, k)
        BY <2>3
      <4>1. ~Named(d, k)'
        BY <1>1, <2>1
      <4>2. spec'[d] = spec[d]
        BY <2>1 DEF Inv, TypeOK
      <4>. QED BY <4>1, <4>2 DEF Named
    <3>2. Waited(k) => Waited(k)'
      BY <2>1 DEF Waited
    <3>. QED BY <1>1, <1>2, <2>1, <3>1, <3>2
  <2>. QED BY <2>2, <2>3
<1>5. ASSUME NEW c \in CQs, NEW keep, DropSets(c, keep), k # keep, refs'[k] = refs[k] \ {c},
             UNCHANGED <<pc, gov>>, k \in starting => k \in starting',
             \A d \in queue : Named(d, k) => Named(d, k)' /\ d \in queue'
      PROVE  Stranded(k)
  <2>1. k \notin TornDown(c, keep)
    BY <1>1, <1>5 DEF TornDown
  <2>2. sets'[k] = sets[k]
    BY <1>5, <2>1 DEF DropSets
  <2>3. Waited(k) => Waited(k)'
    BY <1>5 DEF Waited
  <2>. QED BY <1>1, <1>2, <1>5, <2>2, <2>3
<1>6. ASSUME NEW c \in CQs, Remove(c) PROVE Stranded(k)
  <2>1. /\ spec[c] = None /\ queue' = queue \ {c} /\ UNCHANGED <<spec, starting, pc, gov>>
        /\ refs' = Dropped(c, None) /\ DropSets(c, None)
    BY <1>6 DEF Remove, Take, envVars
  <2>2. refs'[k] = refs[k] \ {c} /\ k # None
    BY <1>0, <2>1 DEF Dropped
  <2>3. \A d \in queue : Named(d, k) => Named(d, k)' /\ d \in queue'
    BY <2>1 DEF Named
  <2>. QED BY <1>5, <2>1, <2>2, <2>3
<1>7. ASSUME NEW c \in CQs, EnsureRunning(c) \/ EnsureStart(c) PROVE Stranded(k)
  <2>1. /\ spec[c] # None /\ queue' = queue \ {c} /\ UNCHANGED <<spec, pc, gov>>
        /\ Reference(c, Key[spec[c]]) /\ starting \subseteq starting'
        /\ sets[Key[spec[c]]] # None \/ Key[spec[c]] \in starting'
    BY <1>7 DEF EnsureRunning, EnsureStart, Take, envVars
  <2>2. CASE Key[spec[c]] = k
    <3>1. sets'[k] = sets[k]
      BY <2>1, <2>2 DEF Reference, DropSets, TornDown
    <3>. QED BY <1>1, <2>1, <2>2, <3>1
  <2>3. CASE Key[spec[c]] # k
    <3>1. refs'[k] = refs[k] \ {c} /\ DropSets(c, Key[spec[c]])
      <4>1. /\ refs' = [Dropped(c, Key[spec[c]]) EXCEPT ![Key[spec[c]]] = @ \cup {c}]
            /\ DropSets(c, Key[spec[c]])
        BY <2>1 DEF Reference
      <4>. QED BY <2>3, <4>1 DEF Dropped
    <3>2. \A d \in queue : Named(d, k) => Named(d, k)' /\ d \in queue'
      BY <2>1, <2>3 DEF Named
    <3>. QED BY <1>5, <2>1, <2>3, <3>1, <3>2
  <2>. QED BY <2>2, <2>3
<1>8. CASE EnsureFailed
  <2>1. /\ worker.cq \in CQs /\ queue' = queue \cup {worker.cq} /\ UNCHANGED <<spec, pc, gov>>
        /\ refs' = Dropped(worker.cq, None) /\ DropSets(worker.cq, None)
        /\ starting' = starting \ {Key[worker.gov]}
    BY <1>0, <1>8 DEF EnsureFailed, Started, envVars
  <2>2. CASE Key[worker.gov] = k
    BY <1>1, <2>1, <2>2 DEF LosesItsQuota
  <2>3. CASE Key[worker.gov] # k
    <3>1. refs'[k] = refs[k] \ {worker.cq} /\ k # None
      BY <1>0, <2>1 DEF Dropped
    <3>2. \A d \in queue : Named(d, k) => Named(d, k)' /\ d \in queue'
      BY <2>1 DEF Named
    <3>. QED BY <1>5, <2>1, <2>3, <3>1, <3>2
  <2>. QED BY <2>2, <2>3
<1>9. CASE EnsureDone
  <2>1. /\ UNCHANGED <<spec, queue, refs, sets, pc, gov>>
        /\ worker.pc = "registered" /\ starting' = starting \ {Key[worker.gov]}
    BY <1>9 DEF EnsureDone, Started, envVars
  <2>2. Waited(k) => Waited(k)'
    BY <2>1 DEF Waited
  <2>3. Key[worker.gov] # k
    BY <1>1, <2>1, <2>2 DEF Followed
  <2>4. \A c \in queue : ~Named(c, k)
    BY <1>1, <2>1 DEF Named
  <2>. QED BY <1>1, <1>2, <2>1, <2>2, <2>3, <2>4
<1>10. ASSUME NEW j \in Free, NEW g \in Governed, Launch(j, g), NEW i \in Instances,
              \/ pc' = [pc EXCEPT ![j] = "running"]
              \/ pc[i] = "starting" /\ pc' = [pc EXCEPT ![j] = "running", ![i] = "registered"],
              UNCHANGED <<spec, queue, refs, starting>>
       PROVE  Stranded(k)
  <2>1. /\ \A n \in Instances : pc[n] = "waiting" => pc'[n] = "waiting" /\ gov'[n] = gov[n]
        /\ sets' = [sets EXCEPT ![Key[g]] = j]
    BY <1>0, <1>10, LaunchWaits
  <2>2. Waited(k) => Waited(k)'
    BY <2>1 DEF Waited
  <2>3. sets'[k] = sets[k]
    BY <1>0, <1>1, <1>10, <2>1 DEF Free
  <2>4. \A c \in queue : ~Named(c, k)
    BY <1>1, <1>10 DEF Named
  <2>. QED BY <1>1, <1>2, <1>10, <2>2, <2>3, <2>4
<1>11. CASE EnsureRegister
  <2>1. PICK j \in Free : Launch(j, worker.gov) /\ pc' = [pc EXCEPT ![j] = "running"]
    BY <1>11 DEF EnsureRegister
  <2>2. UNCHANGED <<spec, queue, refs, starting>> /\ worker.gov \in Governed
    BY <1>0, <1>11 DEF EnsureRegister, envVars, WorkerBusy
  <2>. QED BY <1>10, <2>1, <2>2 DEF Free
<1>12. ASSUME NEW i \in Instances, RetryRegister(i) PROVE Stranded(k)
  <2>1. PICK j \in Free : /\ Launch(j, gov[i])
                          /\ pc' = [pc EXCEPT ![j] = "running", ![i] = "registered"]
    BY <1>12 DEF RetryRegister
  <2>2. /\ UNCHANGED <<spec, queue, refs, starting>>
        /\ pc[i] = "starting" /\ gov[i] \in Governed
    BY <1>0, <1>12 DEF RetryRegister, envVars
  <2>. QED BY <1>10, <2>1, <2>2
<1>13. ASSUME NEW i \in Instances, UNCHANGED <<spec, queue, refs>>,
              \A n \in Instances \ {i} : pc'[n] = pc[n] /\ gov'[n] = gov[n],
              pc[i] # "waiting" \/ Key[gov[i]] # k \/ (pc'[i] = "waiting" /\ gov'[i] = gov[i]),
              sets'[k] = sets[k], k \in starting => k \in starting'
       PROVE  Stranded(k)
  <2>1. Waited(k) => Waited(k)'
    BY <1>0, <1>13, OthersWait
  <2>2. \A c \in queue : ~Named(c, k)
    BY <1>1, <1>13 DEF Named
  <2>. QED BY <1>1, <1>2, <1>13, <2>1, <2>2
<1>14. ASSUME NEW i \in Instances, Stop(i) \/ Watch(i) PROVE Stranded(k)
  <2>1. UNCHANGED starting /\ pc[i] \in {"running", "stopped"}
    BY <1>14 DEF Stop, Watch, Replaced, Unreferenced, SelfStopped, Unregister
  <2>2. CASE sets'[k] = sets[k]
    BY <1>0, <1>13, <1>14, <2>1, <2>2, OwnStep
  <2>3. CASE sets'[k] # sets[k]
    <3>1. Unregister(i) /\ (Unreferenced(i) \/ SelfStopped(i))
      BY <1>14, <2>3 DEF Stop, Watch, Replaced, Unreferenced, SelfStopped
    <3>2. Key[gov[i]] = k
      BY <1>0, <2>3, <3>1 DEF Unregister
    <3>3. refs'[k] = refs[k]
      BY <1>0, <1>14, OwnStep
    <3>4. pc' = [pc EXCEPT ![i] = "waiting"] /\ gov' = gov
      BY <1>1, <3>1, <3>2, <3>3 DEF Unreferenced, SelfStopped
    <3>5. Waited(k)'
      BY <1>0, <3>2, <3>4 DEF Waited
    <3>. QED BY <1>1, <3>5
  <2>. QED BY <2>2, <2>3
<1>15. ASSUME NEW i \in Instances,
              RetryAbandoned(i) \/ RetryStart(i) \/ RetryFailed(i) \/ RetryDone(i)
       PROVE  Stranded(k) \/ LosesItsReturn(k)
  <2>1. /\ UNCHANGED <<spec, queue, refs, sets>>
        /\ \A n \in Instances \ {i} : pc'[n] = pc[n] /\ gov'[n] = gov[n]
    <3>1. UNCHANGED sets
      BY <1>15 DEF RetryAbandoned, RetryStart, RetryFailed, RetryDone
    <3>. QED BY <1>0, <1>15, <3>1, OwnStep
  <2>2. CASE Key[gov[i]] # k
    <3>1. k \in starting => k \in starting'
      BY <1>15, <2>2 DEF RetryAbandoned, RetryStart, RetryFailed, RetryDone, Started
    <3>. QED BY <1>13, <2>1, <2>2, <3>1
  <2>3. CASE Key[gov[i]] = k /\ RetryAbandoned(i)
    BY <1>1, <2>1, <2>3 DEF RetryAbandoned, Wanted
  <2>4. CASE Key[gov[i]] = k /\ RetryStart(i)
    BY <1>1, <2>4 DEF RetryStart
  <2>5. CASE Key[gov[i]] = k /\ RetryFailed(i)
    <3>1. pc' = [pc EXCEPT ![i] = "waiting"] /\ gov' = gov
      BY <2>5 DEF RetryFailed, TryAgain
    <3>. QED BY <1>0, <1>1, <2>5, <3>1 DEF Waited
  <2>6. CASE Key[gov[i]] = k /\ RetryDone(i)
    BY <1>1, <2>1, <2>6 DEF RetryDone, LosesItsReturn
  <2>. QED BY <1>15, <2>2, <2>3, <2>4, <2>5, <2>6
<1>16. ASSUME NEW c \in CQs, Touch(c) PROVE Stranded(k)
  <2>1. queue' = queue \cup {c} /\ UNCHANGED <<spec, refs, sets, starting, pc, gov>>
    BY <1>16 DEF Touch, envVars
  <2>. QED BY <1>3, <2>1
<1>17. CASE (\E g \in Governed : Withdraw(g)) \/ UNCHANGED vars
  BY <1>3, <1>17 DEF Withdraw, vars
<1>. QED
  BY <1>4, <1>6, <1>7, <1>8, <1>9, <1>11, <1>12, <1>14, <1>15, <1>16, <1>17
  DEF Next, Provider, Reconcile, Retry

\* However starts fail and sets stop, a referenced export keeps a set, a start under
\* way, a waiting retry or a queued quota, and loses the last of them in the two
\* named ways only (accounting.go:146-153, 374-380, 415-446).
THEOREM StartsAreNotLost == Spec => StartNotLost
<1>1. Init => Followed
  BY DEF Init, Followed, Idle
<1>2. Spec => []Followed
  BY <1>1, NextFollowed, ManagerInvariant, PTL DEF Spec
<1>3. Inv /\ Followed /\ [Next]_vars =>
        [\A k \in Keys : Stranded(k)' =>
          \/ Stranded(k)
          \/ \E c \in CQs : /\ Named(c, k) \/ (worker.cq = c /\ Key[worker.gov] = k)
                           /\ ~Named(c, k)'
          \/ \E i \in Instances : pc[i] = "registered" /\ Key[gov[i]] = k /\ sets[k] = None]_vars
  BY NextNotStranded DEF LosesItsQuota, LosesItsReturn
<1>. QED BY <1>2, <1>3, ManagerInvariant, PTL DEF Spec, StartNotLost
=============================================================================
