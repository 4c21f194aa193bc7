------------------------ MODULE ProviderPolicyProofs ------------------------
(* Theorems about ProviderPolicy, for every value of its constants.           *)
EXTENDS ProviderPolicy, TLAPS

\* A quota that exists names what it governs, is stamped only under a finalizer,
\* and waits for its deletion only under one.
Sane(q) ==
    /\ q.spec = None => q = Absent
    /\ q.deleting => q.finalizer
    /\ ~q.finalizer => q.id = None

\* What an old copy still tells: the finalizer of a quota that was not being
\* deleted is still there, and a deletion that was under way is, or it is over and
\* the quota of that name now is another one, which has no finalizer yet.
CopyTells(c) ==
    /\ view[c].finalizer /\ ~view[c].deleting => cq[c].finalizer
    /\ view[c].deleting /\ cq[c].finalizer => cq[c].deleting

\* What each call of the reconcile may count on when it is made.
Ready ==
    LET c == worker.cq  obj == worker.obj IN
      /\ worker.pc # "idle" => c \in CQs
      /\ worker.pc \notin {"idle", "reget"} => obj.spec # None
      /\ worker.pc = "finalize" => /\ ~obj.finalizer /\ ~obj.deleting
                                   /\ ~cq[c].finalizer => ~view[c].deleting
      /\ worker.pc \in {"resolve", "stamp", "install"} => cq[c].finalizer
      /\ worker.pc = "install" => obj.id = Identity[obj.spec]
      /\ worker.pc \in {"teardown", "dropFinalizer"} =>
           /\ cq[c].finalizer => cq[c].deleting
           /\ view[c].finalizer => view[c].deleting

\* The apiserver has a write of the controller that the informer has not seen, and
\* that nobody else takes back.
Behind(c) == view[c].finalizer # cq[c].finalizer \/ view[c].id # cq[c].id

Complete(q) == q.spec # None /\ q.finalizer /\ ~q.deleting /\ q.id = Identity[q.spec]

\* A quota that no event is waiting for is reconciled as the informer has it, or
\* an event is to come; and so it will be when the reconcile under way ends.
Progress(c) ==
    c \notin queue =>
      /\ worker.cq # c =>
           \/ Behind(c)
           \/ view[c] = Absent /\ accounted[c] = None
           \/ Complete(view[c]) /\ accounted[c] = <<view[c].spec, view[c].id>>
      /\ worker.cq = c =>
           /\ worker.pc \in {"finalize", "resolve", "stamp", "teardown", "dropFinalizer"} =>
                worker.obj = view[c]
           /\ worker.pc = "resolve" => view[c].finalizer /\ ~view[c].deleting
           /\ worker.pc = "stamp" => view[c].id # Identity[view[c].spec]
           /\ worker.pc = "install" => Behind(c) \/ Complete(view[c])
           /\ worker.pc \in {"teardown", "dropFinalizer"} => view[c].finalizer
           /\ worker.pc = "reget" => Behind(c) \/ Complete(view[c]) \/ view[c] = Absent

\* The inductive invariant.
Inv ==
    /\ TypeOK /\ Ready
    /\ \A c \in CQs : Sane(cq[c]) /\ Sane(view[c]) /\ CopyTells(c)
-----------------------------------------------------------------------------
(* The actions' common parts.                                                 *)

PCs == {"idle", "finalize", "resolve", "stamp", "install", "teardown", "dropFinalizer", "reget"}

\* Where the reconcile of a copy begins (consumptionquota_controller.go:53-84).
LEMMA FirstCallFacts ==
    ASSUME NEW q \in Quotas
    PROVE  /\ FirstCall(q) \in {"finalize", "resolve", "teardown", "reget"}
           /\ FirstCall(q) = "reget" <=> q = Absent
           /\ FirstCall(q) = "teardown" => q.deleting
           /\ FirstCall(q) = "resolve" => ~q.deleting /\ q.finalizer
           /\ FirstCall(q) = "finalize" => ~q.deleting /\ ~q.finalizer
<1>0. q.deleting \in BOOLEAN /\ q.finalizer \in BOOLEAN
  BY DEF Quotas
<1>1. Absent.deleting = FALSE /\ Absent.finalizer = FALSE
  BY DEF Absent
<1>. QED BY <1>0, <1>1 DEF FirstCall

\* A quota that is not there is sane; so is any copy the provider makes of one.
LEMMA QuotaFacts ==
    /\ Absent \in Quotas /\ Sane(Absent) /\ ~Absent.finalizer /\ ~Absent.deleting
    /\ Absent.spec = None /\ Absent.id = None
    /\ Idle.pc = "idle" /\ Idle.cq = None /\ Idle.obj = Absent
BY DEF Absent, Quotas, Sane, Idle

\* The worker after a call: further on with the same quota, or idle with the quota
\* queued again.
LEMMA WorkerSteps ==
    ASSUME TypeOK, NEW pc \in PCs, NEW obj
    PROVE  /\ GoTo(pc, obj) => worker' = [pc |-> pc, cq |-> worker.cq, obj |-> obj]
           /\ Answered(pc, obj) =>
                \/ worker' = [pc |-> pc, cq |-> worker.cq, obj |-> obj] /\ UNCHANGED queue
                \/ worker' = Idle /\ queue' = queue \cup {worker.cq}
<1>1. worker \in [pc : PCs, cq : CQs \cup {None}, obj : Quotas]
  BY DEF TypeOK, PCs
<1>2. ASSUME GoTo(pc, obj) PROVE worker' = [pc |-> pc, cq |-> worker.cq, obj |-> obj]
  BY <1>1, <1>2 DEF GoTo
<1>. QED BY <1>2 DEF Answered, Requeue

\* A fault, a refused call or a restart leaves the worker idle.
LEMMA GivenUp ==
    Conflict \/ Fault \/ AccountFails =>
      /\ worker' = Idle /\ queue' = queue \cup {worker.cq}
      /\ UNCHANGED <<cq, view, vwc, vwcView, assigned>>
<1>1. ASSUME Conflict \/ Fault
      PROVE  Requeue /\ UNCHANGED <<cq, view, vwc, vwcView, assigned>>
  BY <1>1 DEF Conflict, Fault
<1>2. ASSUME AccountFails
      PROVE  Requeue /\ UNCHANGED <<cq, view, vwc, vwcView, assigned>>
  BY <1>2 DEF AccountFails
<1>. QED BY <1>1, <1>2 DEF Requeue
-----------------------------------------------------------------------------
(* Each conjunct of the invariant is kept by every action.                    *)

\* The counts stay within their bounds.
LEMMA NextBounds ==
    TypeOK /\ [Next]_vars =>
      edits' \in 0 .. MaxEdits /\ faults' \in 0 .. MaxFaults /\ restarts' \in 0 .. MaxRestarts
<1>. SUFFICES ASSUME TypeOK, [Next]_vars
              PROVE  /\ edits' \in 0 .. MaxEdits /\ faults' \in 0 .. MaxFaults
                     /\ restarts' \in 0 .. MaxRestarts
  OBVIOUS
<1>1. /\ UNCHANGED edits \/ (edits < MaxEdits /\ edits' = edits + 1)
      /\ UNCHANGED faults \/ (faults < MaxFaults /\ faults' = faults + 1)
      /\ UNCHANGED restarts \/ (restarts < MaxRestarts /\ restarts' = restarts + 1)
  BY DEF Next, Edit, Delete, Sync, Begin, Assign, SyncVWC, Restart, Reconcile, Finalize, Resolve,
         Stamp, Install, Teardown, DropFinalizer, Conflict, Account, AccountFails, Fault, Answered,
         vars, bounds, memory
<1>. QED BY <1>1, PolicyAssumption DEF TypeOK

\* The quota q that the provider makes of the stored quota c: an edit or a creation
\* when it is not being deleted, or a deletion, under a finalizer or without one.
Provided(c, q) ==
    LET old == cq[c] IN
      \/ /\ ~old.deleting /\ q.spec # None /\ q.finalizer = old.finalizer
         /\ q.id = old.id /\ ~q.deleting
      \/ /\ old.finalizer /\ q.finalizer = old.finalizer /\ q.deleting
         /\ q.spec = old.spec /\ q.id = old.id
      \/ ~old.finalizer /\ q = Absent

\* The quota q that the worker makes of it: Finalize, Stamp or DropFinalizer.
Written(c, q) ==
    LET old == cq[c] IN
      /\ worker.cq = c /\ worker.obj = old
      /\ \/ /\ worker.pc = "finalize"
            /\ q.finalizer /\ q.spec = old.spec /\ q.id = old.id /\ q.deleting = old.deleting
         \/ /\ worker.pc = "stamp" /\ q.finalizer = old.finalizer
            /\ q.deleting = old.deleting /\ q.spec = old.spec /\ q.id = Identity[old.spec]
         \/ worker.pc = "dropFinalizer" /\ q = Absent

Rewrites(c, q) == Provided(c, q) \/ Written(c, q)

\* A quota is written, or the informer sees it.
StoredStep(c) ==
    \/ /\ UNCHANGED view
       /\ \E q \in Quotas : cq' = [cq EXCEPT ![c] = q] /\ Rewrites(c, q)
    \/ UNCHANGED cq /\ view' = [view EXCEPT ![c] = cq[c]]

\* What the provider does to the stored quotas.
ProviderStep(c) ==
    /\ UNCHANGED view
    /\ \E q \in Quotas : cq' = [cq EXCEPT ![c] = q] /\ Provided(c, q)

\* The provider's actions are such steps.
LEMMA ProviderSteps ==
    ASSUME TypeOK, NEW e \in CQs, Edit(e) \/ Delete(e)
    PROVE  ProviderStep(e)
<1>0. cq \in [CQs -> Quotas]
  BY DEF TypeOK
<1>1. ASSUME NEW c \in CQs, Edit(c) PROVE ProviderStep(c)
  <2>1. PICK g \in Names[c] \ {cq[c].spec} : cq' = [cq EXCEPT ![c].spec = g]
    BY <1>1 DEF Edit
  <2>. DEFINE q == [cq[c] EXCEPT !.spec = g]
  <2>2. g \in Governed /\ g # None /\ cq[c] \in Quotas /\ ~cq[c].deleting /\ UNCHANGED view
    BY <1>0, <1>1, PolicyAssumption DEF Edit, memory
  <2>3. /\ q \in Quotas /\ q.spec = g /\ q.finalizer = cq[c].finalizer /\ q.id = cq[c].id
        /\ q.deleting = cq[c].deleting
    BY <2>2 DEF Quotas
  <2>4. cq' = [cq EXCEPT ![c] = q]
    BY <1>0, <2>1
  <2>5. Provided(c, q)
    BY <2>2, <2>3 DEF Provided
  <2>. QED BY <2>2, <2>3, <2>4, <2>5 DEF ProviderStep
<1>2. ASSUME NEW c \in CQs, Delete(c) PROVE ProviderStep(c)
  <2>. DEFINE q == IF cq[c].finalizer THEN [cq[c] EXCEPT !.deleting = TRUE] ELSE Absent
  <2>1. cq[c] \in Quotas /\ cq' = [cq EXCEPT ![c] = q] /\ UNCHANGED view
    BY <1>0, <1>2 DEF Delete, memory
  <2>2. q \in Quotas /\ Provided(c, q)
    <3>1. CASE cq[c].finalizer
      <4>1. /\ q \in Quotas /\ q.deleting /\ q.spec = cq[c].spec /\ q.id = cq[c].id
            /\ q.finalizer /\ q.finalizer = cq[c].finalizer
        BY <2>1, <3>1 DEF Quotas
      <4>. QED BY <3>1, <4>1 DEF Provided
    <3>2. CASE ~cq[c].finalizer
      BY <3>2, QuotaFacts DEF Provided
    <3>. QED BY <3>1, <3>2
  <2>. QED BY <2>1, <2>2 DEF ProviderStep
<1>. QED BY <1>1, <1>2

\* Every action is one of these for some quota.
LEMMA StoredSteps ==
    ASSUME Inv, [Next]_vars
    PROVE  \/ UNCHANGED <<cq, view>> \/ (UNCHANGED cq /\ view' = cq)
           \/ \E c \in CQs : StoredStep(c)
<1>0. /\ cq \in [CQs -> Quotas] /\ view \in [CQs -> Quotas]
      /\ worker.pc # "idle" => worker.cq \in CQs
      /\ worker.obj \in Quotas
      /\ \A c \in CQs : Sane(cq[c])
  BY DEF Inv, TypeOK, Ready
<1>1. ASSUME NEW c \in CQs, Edit(c) \/ Delete(c) PROVE StoredStep(c)
  BY <1>1, ProviderSteps DEF Inv, ProviderStep, StoredStep, Rewrites
<1>3. CASE Finalize
  <2>. DEFINE c == worker.cq
              q == [cq[c] EXCEPT !.finalizer = TRUE]
  <2>1. worker.pc = "finalize" /\ c \in CQs /\ worker.obj = cq[c] /\ UNCHANGED view
    BY <1>0, <1>3 DEF Finalize, Current
  <2>2. cq' = [cq EXCEPT ![c] = q]
    BY <1>0, <1>3 DEF Finalize
  <2>3. /\ q \in Quotas /\ q.finalizer /\ q.spec = cq[c].spec /\ q.id = cq[c].id
        /\ q.deleting = cq[c].deleting
    BY <1>0, <2>1 DEF Quotas
  <2>4. Rewrites(c, q)
    BY <2>1, <2>3 DEF Rewrites, Written
  <2>. HIDE DEF q
  <2>. QED BY <2>1, <2>2, <2>3, <2>4 DEF StoredStep
<1>4. CASE Stamp
  <2>. DEFINE c == worker.cq
              q == [worker.obj EXCEPT !.id = Identity[worker.obj.spec]]
  <2>1. /\ worker.pc = "stamp" /\ c \in CQs /\ worker.obj = cq[c] /\ UNCHANGED view
        /\ cq' = [cq EXCEPT ![c] = q]
    BY <1>0, <1>4 DEF Stamp, Current
  <2>2. worker.obj.spec \in Governed
    BY <1>0, <2>1 DEF Inv, Ready, Quotas
  <2>3. /\ q \in Quotas /\ q.id = Identity[cq[c].spec] /\ q.finalizer = cq[c].finalizer
        /\ q.deleting = cq[c].deleting /\ q.spec = cq[c].spec
    BY <1>0, <2>1, <2>2 DEF Quotas, Identities
  <2>4. Rewrites(c, q)
    BY <2>1, <2>3 DEF Rewrites, Written
  <2>. HIDE DEF q
  <2>. QED BY <2>1, <2>3, <2>4 DEF StoredStep
<1>5. CASE DropFinalizer
  <2>1. /\ worker.pc = "dropFinalizer" /\ worker.cq \in CQs /\ worker.obj = cq[worker.cq]
        /\ UNCHANGED view /\ cq' = [cq EXCEPT ![worker.cq] = Absent]
    BY <1>0, <1>5 DEF DropFinalizer, Current
  <2>2. Rewrites(worker.cq, Absent)
    BY <2>1 DEF Rewrites, Written
  <2>. QED BY <2>1, <2>2, QuotaFacts DEF StoredStep
<1>6. ASSUME NEW c \in CQs, Sync(c) PROVE StoredStep(c)
  BY <1>6 DEF Sync, StoredStep
<1>7. CASE Restart
  BY <1>7 DEF Restart
<1>8. CASE UNCHANGED <<cq, view>>
  BY <1>8
<1>. QED
  BY <1>0, <1>1, <1>3, <1>4, <1>5, <1>6, <1>7, <1>8
  DEF Next, Begin, Assign, SyncVWC, Reconcile, Resolve, Install, Teardown, Conflict, Account,
      AccountFails, Fault, Finalize, Stamp, DropFinalizer, vars, memory

\* The quotas and their copies keep their shape, and the copies keep telling what
\* they told.
LEMMA NextQuotas ==
    ASSUME Inv, [Next]_vars
    PROVE  /\ cq' \in [CQs -> Quotas] /\ view' \in [CQs -> Quotas]
           /\ \A c \in CQs : (Sane(cq[c]) /\ Sane(view[c]) /\ CopyTells(c))'
<1>0. /\ cq \in [CQs -> Quotas] /\ view \in [CQs -> Quotas]
      /\ \A c \in CQs : Sane(cq[c]) /\ Sane(view[c]) /\ CopyTells(c)
  BY DEF Inv, TypeOK
<1>1. CASE UNCHANGED <<cq, view>>
  BY <1>0, <1>1 DEF CopyTells
<1>2. CASE UNCHANGED cq /\ view' = cq
  BY <1>0, <1>2 DEF CopyTells, Sane
<1>3. ASSUME NEW c \in CQs, UNCHANGED cq, view' = [view EXCEPT ![c] = cq[c]]
      PROVE  /\ cq' \in [CQs -> Quotas] /\ view' \in [CQs -> Quotas]
             /\ \A d \in CQs : (Sane(cq[d]) /\ Sane(view[d]) /\ CopyTells(d))'
  <2>1. view'[c] = cq[c] /\ \A d \in CQs \ {c} : view'[d] = view[d]
    BY <1>0, <1>3
  <2>. QED BY <1>0, <1>3, <2>1 DEF CopyTells, Sane
<1>4. ASSUME NEW c \in CQs, UNCHANGED view, NEW q \in Quotas, cq' = [cq EXCEPT ![c] = q],
             Rewrites(c, q)
      PROVE  /\ cq' \in [CQs -> Quotas] /\ view' \in [CQs -> Quotas]
             /\ \A d \in CQs : (Sane(cq[d]) /\ Sane(view[d]) /\ CopyTells(d))'
  <2>1. cq'[c] = q /\ \A d \in CQs \ {c} : cq'[d] = cq[d]
    BY <1>0, <1>4
  <2>2. Sane(q)
    <3>1. worker.pc \in {"finalize", "stamp"} /\ worker.cq = c /\ worker.obj = cq[c] => cq[c].spec # None
      BY DEF Inv, Ready
    <3>2. worker.pc = "stamp" /\ worker.cq = c => cq[c].finalizer
      BY DEF Inv, Ready
    <3>. QED BY <1>0, <1>4, <3>1, <3>2, QuotaFacts DEF Rewrites, Provided, Written, Sane
  <2>3. CopyTells(c)'
    <3>1. worker.pc = "finalize" /\ worker.cq = c /\ worker.obj = cq[c]
            => ~cq[c].finalizer /\ ~view[c].deleting
      BY DEF Inv, Ready
    <3>2. worker.pc = "dropFinalizer" /\ worker.cq = c /\ view[c].finalizer => view[c].deleting
      BY DEF Inv, Ready
    <3>. QED BY <1>0, <1>4, <2>1, <3>1, <3>2, QuotaFacts DEF Rewrites, Provided, Written, CopyTells
  <2>. QED BY <1>0, <1>4, <2>1, <2>2, <2>3 DEF CopyTells
<1>. QED BY <1>1, <1>2, <1>3, <1>4, StoredSteps DEF StoredStep

\* While the worker is at a call, what the others do to its quota leaves the call
\* what it counts on.
LEMMA ReadyStays ==
    ASSUME Inv, [Next]_vars, worker' = worker
    PROVE  Ready'
<1>. DEFINE c == worker.cq
<1>0. /\ cq \in [CQs -> Quotas] /\ view \in [CQs -> Quotas] /\ worker.obj \in Quotas
      /\ worker.pc # "idle" => c \in CQs
      /\ \A d \in CQs : Sane(cq[d]) /\ CopyTells(d)
  BY DEF Inv, TypeOK, Ready
<1>1. CASE worker.pc = "idle"
  BY <1>1 DEF Ready
<1>2. CASE UNCHANGED <<cq, view>>
  BY <1>2 DEF Inv, Ready
<1>3. CASE c \in CQs /\ UNCHANGED cq /\ (view'[c] = view[c] \/ view'[c] = cq[c])
  BY <1>0, <1>3 DEF Inv, Ready, Sane
<1>4. ASSUME c \in CQs, UNCHANGED view, NEW q, cq'[c] = q, Rewrites(c, q)
      PROVE  Ready'
  BY <1>0, <1>4, QuotaFacts DEF Inv, Ready, Rewrites, Provided, Written
<1>5. ASSUME NEW d \in CQs, StoredStep(d), c \in CQs PROVE Ready'
  <2>1. CASE UNCHANGED cq /\ view' = [view EXCEPT ![d] = cq[d]]
    BY <1>0, <1>3, <1>5, <2>1
  <2>2. ASSUME UNCHANGED view, NEW q \in Quotas, cq' = [cq EXCEPT ![d] = q], Rewrites(d, q)
        PROVE  Ready'
    <3>1. CASE d = c
      BY <1>0, <1>4, <2>2, <3>1
    <3>2. CASE d # c
      <4>1. cq'[c] = cq[c]
        BY <1>0, <2>2, <3>2
      <4>. QED BY <1>0, <1>3, <1>5, <2>2, <4>1 DEF Inv, Ready
    <3>. QED BY <3>1, <3>2
  <2>. QED BY <1>5, <2>1, <2>2 DEF StoredStep
<1>. QED BY <1>0, <1>1, <1>2, <1>3, <1>5, StoredSteps

\* Each call is made only when what it counts on holds (consumptionquota_controller.go:53-146).
LEMMA NextReady == Inv /\ [Next]_vars => Ready'
<1>. SUFFICES ASSUME Inv, [Next]_vars PROVE Ready'
  OBVIOUS
<1>. DEFINE c == worker.cq
<1>0. /\ cq \in [CQs -> Quotas] /\ view \in [CQs -> Quotas] /\ worker.obj \in Quotas
      /\ TypeOK /\ Ready
      /\ worker.pc # "idle" => c \in CQs
      /\ \A d \in CQs : Sane(cq[d]) /\ Sane(view[d]) /\ CopyTells(d)
      /\ \A g \in Governed : g # None
      /\ {"idle", "reget", "install", "stamp", "dropFinalizer"} \subseteq PCs
  BY PolicyAssumption DEF Inv, TypeOK, Ready, PCs
<1>1. CASE worker' = Idle
  BY <1>1, QuotaFacts DEF Ready
<1>2. ASSUME worker.pc # "idle", worker'.pc = "reget", worker'.cq = c PROVE Ready'
  BY <1>0, <1>2 DEF Ready
<1>3. ASSUME NEW d \in CQs, Begin(d) PROVE Ready'
  <2>1. /\ worker' = [cq |-> d, obj |-> view[d], pc |-> FirstCall(view[d])] /\ view[d] \in Quotas
        /\ UNCHANGED <<cq, view>>
    BY <1>0, <1>3 DEF Begin
  <2>. QED BY <1>0, <1>3, <2>1, FirstCallFacts DEF Ready, CopyTells, Sane
<1>4. CASE Finalize \/ DropFinalizer \/ Install
  BY <1>0, <1>1, <1>2, <1>4, WorkerSteps DEF Finalize, DropFinalizer, Install
<1>5. CASE Resolve
  <2>1. /\ worker.pc = "resolve" /\ UNCHANGED <<cq, view>>
        /\ \/ GoTo("reget", worker.obj)
           \/ GoTo("install", worker.obj) /\ worker.obj.id = Identity[worker.obj.spec]
           \/ GoTo("stamp", worker.obj)
    BY <1>5 DEF Resolve
  <2>2. \E pc \in {"reget", "install", "stamp"} :
          /\ worker' = [pc |-> pc, cq |-> c, obj |-> worker.obj]
          /\ pc = "install" => worker.obj.id = Identity[worker.obj.spec]
    BY <1>0, <2>1, WorkerSteps
  <2>. QED BY <1>0, <2>1, <2>2 DEF Ready
<1>6. CASE Stamp
  <2>. DEFINE stamped == [worker.obj EXCEPT !.id = Identity[worker.obj.spec]]
  <2>1. /\ worker.pc = "stamp" /\ worker.obj = cq[c] /\ Answered("install", stamped)
        /\ cq' = [cq EXCEPT ![c] = stamped]
    BY <1>6 DEF Stamp, Current
  <2>2. /\ stamped.spec = worker.obj.spec /\ stamped.finalizer = worker.obj.finalizer
        /\ stamped.id = Identity[stamped.spec]
    BY <1>0 DEF Quotas
  <2>3. cq'[c] = stamped /\ stamped.finalizer /\ stamped.spec # None /\ c \in CQs
    BY <1>0, <2>1, <2>2 DEF Ready
  <2>. HIDE DEF stamped
  <2>4. worker' = [pc |-> "install", cq |-> c, obj |-> stamped] \/ worker' = Idle
    BY <1>0, <2>1, WorkerSteps
  <2>. QED BY <1>1, <2>2, <2>3, <2>4 DEF Ready
<1>7. CASE Teardown
  <2>1. /\ worker.pc = "teardown" /\ UNCHANGED <<cq, view>>
        /\ \E pc \in {"reget", "dropFinalizer"} :
             GoTo(pc, worker.obj) \/ Answered(pc, worker.obj)
    BY <1>7 DEF Teardown
  <2>2. worker' = Idle \/ \E pc \in {"reget", "dropFinalizer"} :
                            worker' = [pc |-> pc, cq |-> c, obj |-> worker.obj]
    BY <1>0, <2>1, WorkerSteps
  <2>. QED BY <1>0, <1>1, <2>1, <2>2 DEF Ready
<1>8. CASE Conflict \/ Fault \/ Account \/ AccountFails \/ Restart
  BY <1>1, <1>8, GivenUp DEF Account, Restart
<1>. QED
  BY <1>3, <1>4, <1>5, <1>6, <1>7, <1>8, ReadyStays
  DEF Next, Edit, Delete, Sync, Assign, SyncVWC, Reconcile, vars, memory

\* The webhook configuration holds only entries of exports that have an identity,
\* and what the accounting manager is told is such a pair too.
LEMMA NextTypeOK == Inv /\ [Next]_vars => TypeOK'
<1>. SUFFICES ASSUME Inv, [Next]_vars PROVE TypeOK'
  OBVIOUS
<1>. DEFINE c == worker.cq
            Entries == {Entry(g, id) : g \in Governed, id \in Identities}
            WorkerOK == /\ worker \in [pc : PCs, cq : CQs \cup {None}, obj : Quotas]
                        /\ worker.pc = "idle" <=> worker = Idle
                        /\ queue \subseteq CQs
            HookOK == vwc \cup vwcView \cup lost \subseteq Entries /\ assigned \subseteq Governed
            AccountOK == accounted \in [CQs -> (Governed \X Identities) \cup {None}]
<1>0. /\ TypeOK /\ cq \in [CQs -> Quotas] /\ view \in [CQs -> Quotas] /\ Ready
      /\ WorkerOK /\ HookOK /\ AccountOK
      /\ worker.pc # "idle" => c \in CQs
      /\ \A d \in CQs : Sane(cq[d]) /\ Sane(view[d])
  BY DEF Inv, TypeOK, PCs, Ready
<1>1. AccountOK'
  <2>1. CASE Account
    <3>1. ~Gone(view[c]) /\ Resolved(view[c]) /\ c \in CQs =>
            view[c].spec \in Governed /\ view[c].id \in Identities
      BY <1>0 DEF Gone, Resolved, Sane, Quotas
    <3>. QED BY <1>0, <2>1, <3>1 DEF Account
  <2>2. CASE AccountFails \/ Restart
    BY <1>0, <2>2 DEF AccountFails, Restart
  <2>3. CASE UNCHANGED accounted
    BY <1>0, <2>3
  <2>. QED
    BY <2>1, <2>2, <2>3
    DEF Next, Edit, Delete, Sync, Begin, Assign, SyncVWC, Reconcile, Finalize, Resolve, Stamp,
        Install, Teardown, DropFinalizer, Conflict, Fault, vars, memory
<1>2. HookOK'
  <2>1. CASE Install
    <3>1. worker.obj.spec \in Governed /\ worker.obj.id \in Identities
      BY <1>0, <2>1 DEF Install, Ready, Quotas, Identities
    <3>2. Upserted \subseteq Entries
      BY <1>0, <3>1 DEF Upserted
    <3>. QED BY <1>0, <2>1, <3>2 DEF Install
  <2>2. CASE Teardown
    BY <1>0, <2>2 DEF Teardown, Remaining
  <2>3. ASSUME NEW g \in Governed, Assign(g) PROVE HookOK'
    BY <1>0, <2>3 DEF Assign, memory
  <2>4. CASE SyncVWC \/ Restart
    BY <1>0, <2>4 DEF SyncVWC, Restart
  <2>5. CASE UNCHANGED <<vwc, vwcView, assigned, lost>>
    BY <1>0, <2>5
  <2>. QED
    BY <2>1, <2>2, <2>3, <2>4, <2>5
    DEF Next, Edit, Delete, Sync, Begin, Reconcile, Finalize, Resolve, Stamp, DropFinalizer,
        Conflict, Account, AccountFails, Fault, vars, memory
<1>3. WorkerOK'
  <2>0. Idle \in [pc : PCs, cq : CQs \cup {None}, obj : Quotas] /\ Idle.pc = "idle"
    BY QuotaFacts DEF Idle, PCs
  <2>1. ASSUME NEW d \in CQs, Begin(d) PROVE WorkerOK'
    BY <1>0, <2>0, <2>1, FirstCallFacts DEF Begin, PCs
  <2>2. ASSUME worker' = Idle, queue' \subseteq CQs PROVE WorkerOK'
    BY <2>0, <2>2
  <2>3. ASSUME c \in CQs, NEW pc \in PCs \ {"idle"}, NEW obj \in Quotas,
               queue' = queue \/ queue' = queue \cup {c},
               GoTo(pc, obj) \/ Answered(pc, obj)
        PROVE  WorkerOK'
    <3>1. worker' = Idle \/ worker' = [pc |-> pc, cq |-> c, obj |-> obj]
      BY <1>0, <2>3, WorkerSteps
    <3>. QED BY <1>0, <2>0, <2>3, <3>1 DEF Idle
  <2>4. CASE Finalize \/ Resolve \/ Install \/ Teardown \/ DropFinalizer
    <3>1. /\ c \in CQs /\ worker.obj \in Quotas
          /\ queue' = queue \/ queue' = queue \cup {c}
          /\ \E pc \in PCs \ {"idle"} : GoTo(pc, worker.obj) \/ Answered(pc, worker.obj)
      BY <1>0, <2>4
      DEF Finalize, Resolve, Install, Teardown, DropFinalizer, PCs, Answered, Requeue
    <3>. QED BY <2>3, <3>1
  <2>5. CASE Stamp
    <3>1. c \in CQs /\ worker.obj.spec \in Governed
      BY <1>0, <2>5 DEF Stamp, Ready, Quotas
    <3>2. [worker.obj EXCEPT !.id = Identity[worker.obj.spec]] \in Quotas
      BY <1>0, <3>1 DEF Quotas, Identities
    <3>. QED BY <2>3, <2>5, <3>1, <3>2 DEF Stamp, PCs, Answered, Requeue
  <2>6. CASE Conflict \/ Fault \/ AccountFails
    <3>1. c \in CQs
      BY <1>0, <2>6 DEF Conflict, Refused, Fault, AccountFails
    <3>. QED BY <1>0, <2>2, <2>6, <3>1, GivenUp
  <2>7. CASE Account \/ Restart
    BY <1>0, <2>2, <2>7 DEF Account, Restart
  <2>8. ASSUME NEW d \in CQs, Sync(d) PROVE WorkerOK'
    BY <1>0, <2>8 DEF Sync
  <2>9. CASE UNCHANGED <<worker, queue>>
    BY <1>0, <2>9
  <2>. QED
    BY <2>1, <2>4, <2>5, <2>6, <2>7, <2>8, <2>9
    DEF Next, Edit, Delete, Assign, SyncVWC, Reconcile, vars, memory
<1>4. \A d \in CQs : cq'[d].deleting => cq'[d].finalizer
  BY NextQuotas DEF Sane
<1>. QED BY <1>0, <1>1, <1>2, <1>3, <1>4, NextQuotas, NextBounds DEF TypeOK, PCs

\* The provider does not take back what the controller wrote: the informer stays
\* behind until it sees it.
LEMMA BehindStays ==
    ASSUME Inv, NEW c \in CQs, NEW d \in CQs, ProviderStep(d), Behind(c)
    PROVE  Behind(c)'
<1>1. PICK q \in Quotas : cq' = [cq EXCEPT ![d] = q] /\ Provided(d, q)
  BY DEF ProviderStep
<1>2. cq \in [CQs -> Quotas] /\ UNCHANGED view /\ \A e \in CQs : Sane(cq[e])
  BY DEF Inv, TypeOK, ProviderStep
<1>3. CASE d = c
  <2>1. cq'[c] = q /\ cq[c].finalizer \in BOOLEAN
    BY <1>1, <1>2, <1>3 DEF Quotas
  <2>2. q.finalizer = cq[c].finalizer /\ q.id = cq[c].id
    <3>1. Provided(c, q) /\ (~cq[c].finalizer => cq[c].id = None)
      BY <1>1, <1>2, <1>3 DEF Sane
    <3>2. Absent.finalizer = FALSE /\ Absent.id = None
      BY DEF Absent
    <3>. QED BY <2>1, <3>1, <3>2 DEF Provided
  <2>. QED BY <1>2, <2>1, <2>2 DEF Behind
<1>4. CASE d # c
  <2>1. cq'[c] = cq[c]
    BY <1>1, <1>2, <1>4
  <2>. QED BY <1>2, <2>1 DEF Behind
<1>. QED BY <1>3, <1>4

\* An action that is not the worker's at c and brings no event for c leaves it
\* reconciled, or on its way.
LEMMA ProgressStays ==
    ASSUME NEW c \in CQs, Progress(c), c \in queue => c \in queue',
           view'[c] = view[c], accounted'[c] = accounted[c], Behind(c) => Behind(c)',
           worker' = worker \/ (worker.cq # c /\ worker'.cq # c)
    PROVE  Progress(c)'
BY DEF Progress

\* No reconcile ends with c as it should not be and nothing to come that would
\* reconcile it again (consumptionquota_controller.go:53-146, main.go:204-250).
LEMMA NextProgress ==
    ASSUME Inv, [Next]_vars, NEW c \in CQs, Progress(c)
    PROVE  Progress(c)'
<1>0. /\ TypeOK /\ Ready /\ cq \in [CQs -> Quotas] /\ view \in [CQs -> Quotas]
      /\ worker.obj \in Quotas /\ accounted \in [CQs -> (Governed \X Identities) \cup {None}]
      /\ queue \subseteq CQs /\ c # None /\ Idle.cq = None
      /\ Sane(view[c]) /\ Sane(cq[c])
      /\ {"idle", "reget", "install", "stamp", "dropFinalizer"} \subseteq PCs
  BY PolicyAssumption, QuotaFacts DEF Inv, TypeOK, PCs
<1>1. ASSUME c \in queue' PROVE Progress(c)'
  BY <1>1 DEF Progress
<1>2. ASSUME UNCHANGED <<cq, view, queue, worker, accounted>> PROVE Progress(c)'
  BY <1>2 DEF Progress, Behind
<1>3. ASSUME NEW d \in CQs, Edit(d) \/ Delete(d) PROVE Progress(c)'
  <2>1. ProviderStep(d) /\ UNCHANGED <<view, queue, worker, accounted>>
    BY <1>0, <1>3, ProviderSteps DEF Edit, Delete, memory
  <2>. QED BY <2>1, BehindStays, ProgressStays
<1>4. ASSUME NEW d \in CQs, Sync(d) PROVE Progress(c)'
  <2>1. CASE d = c
    BY <1>1, <1>4, <2>1 DEF Sync
  <2>2. CASE d # c
    <3>1. /\ view'[c] = view[c]
          /\ c \in queue => c \in queue'
          /\ UNCHANGED <<worker, accounted, cq>>
      BY <1>0, <1>4, <2>2 DEF Sync
    <3>. QED BY <3>1, ProgressStays DEF Behind
  <2>. QED BY <2>1, <2>2
<1>5. CASE Restart
  <2>1. CASE cq[c].spec = None
    BY <1>0, <1>5, <2>1 DEF Restart, Progress, Sane
  <2>2. CASE cq[c].spec # None
    BY <1>1, <1>5, <2>2 DEF Restart
  <2>. QED BY <2>1, <2>2
<1>6. ASSUME NEW d \in CQs, Begin(d) PROVE Progress(c)'
  <2>1. /\ worker' = [cq |-> d, obj |-> view[d], pc |-> FirstCall(view[d])] /\ worker = Idle
        /\ queue' = queue \ {d} /\ UNCHANGED <<cq, view, accounted>>
    BY <1>6 DEF Begin
  <2>2. CASE d = c
    BY <1>0, <2>1, <2>2, FirstCallFacts DEF Progress, Sane
  <2>3. CASE d # c
    BY <1>0, <2>1, <2>3, ProgressStays DEF Behind
  <2>. QED BY <2>2, <2>3
<1>7. CASE worker.cq # c /\ (Reconcile \/ Fault)
  <2>1. /\ UNCHANGED view /\ cq'[c] = cq[c] /\ accounted'[c] = accounted[c]
        /\ queue' = queue \/ queue' = queue \cup {worker.cq}
        /\ worker' = Idle \/ \E pc \in PCs : \E obj : GoTo(pc, obj) \/ Answered(pc, obj)
    BY <1>0, <1>7
    DEF Reconcile, Finalize, Resolve, Stamp, Install, Teardown, DropFinalizer, Conflict, Account,
        AccountFails, Fault, Requeue, Answered
  <2>2. worker'.cq # c
    BY <1>0, <1>7, <2>1, WorkerSteps
  <2>. QED BY <1>0, <1>7, <2>1, <2>2, ProgressStays DEF Behind
<1>8. ASSUME worker.cq = c, c \notin queue', Reconcile \/ Fault PROVE Progress(c)'
  <2>. DEFINE Ends == worker'.pc = "reget" /\ worker'.cq = c /\ c \notin queue
  <2>0. /\ worker.pc # "idle" /\ c \notin queue /\ UNCHANGED view
        /\ ~(Conflict \/ Fault \/ AccountFails)
    BY <1>0, <1>8, GivenUp, QuotaFacts
    DEF Reconcile, Finalize, Resolve, Stamp, Install, Teardown, DropFinalizer, Account, Requeue,
        Answered, TypeOK
  <2>1. ASSUME NEW pc \in PCs, NEW obj, Answered(pc, obj) \/ GoTo(pc, obj)
        PROVE  worker' = [pc |-> pc, cq |-> c, obj |-> obj]
    BY <1>0, <1>8, <2>1, WorkerSteps
  <2>2. CASE Finalize
    <3>1. /\ worker.obj = cq[c] /\ worker.obj = view[c] /\ ~view[c].finalizer
          /\ cq'[c].finalizer /\ worker'.pc = "reget" /\ worker'.cq = c
      BY <1>0, <1>8, <2>0, <2>1, <2>2 DEF Finalize, Current, Progress, Ready, Quotas
    <3>. QED BY <1>0, <2>0, <3>1 DEF Progress, Behind
  <2>3. CASE Resolve
    <3>1. /\ worker.obj = view[c] /\ view[c].finalizer /\ ~view[c].deleting /\ UNCHANGED cq
          /\ view[c].spec \in Governed /\ view[c].spec # None
          /\ worker' = [pc |-> IF view[c].id = Identity[view[c].spec] THEN "install" ELSE "stamp",
                        cq |-> c, obj |-> view[c]]
      BY <1>0, <1>8, <2>0, <2>1, <2>3, PolicyAssumption DEF Resolve, Progress, TypeOK
    <3>. QED BY <2>0, <3>1 DEF Progress, Complete, Behind
  <2>4. CASE Stamp
    <3>1. /\ worker.obj = cq[c] /\ worker.obj = view[c] /\ view[c].id # Identity[view[c].spec]
          /\ cq'[c].id = Identity[view[c].spec] /\ worker'.pc = "install" /\ worker'.cq = c
      BY <1>0, <1>8, <2>0, <2>1, <2>4 DEF Stamp, Current, Progress, Quotas
    <3>. QED BY <2>0, <3>1 DEF Progress, Behind
  <2>5. CASE Install
    <3>1. /\ Behind(c) \/ Complete(view[c])
          /\ UNCHANGED cq /\ worker'.pc = "reget" /\ worker'.cq = c
      BY <1>0, <1>8, <2>0, <2>1, <2>5 DEF Install, Progress
    <3>. QED BY <2>0, <3>1 DEF Progress, Behind
  <2>6. CASE Teardown
    <3>1. worker.obj = view[c] /\ view[c].finalizer /\ UNCHANGED cq
      BY <1>8, <2>0, <2>6 DEF Teardown, Progress
    <3>2. worker' = [pc |-> "dropFinalizer", cq |-> c, obj |-> view[c]]
      BY <1>0, <2>1, <2>6, <3>1 DEF Teardown
    <3>. QED BY <2>0, <3>1, <3>2 DEF Progress
  <2>7. CASE DropFinalizer
    <3>1. /\ view[c].finalizer /\ cq'[c] = Absent /\ worker'.pc = "reget" /\ worker'.cq = c
      BY <1>0, <1>8, <2>0, <2>1, <2>7 DEF DropFinalizer, Progress
    <3>. QED BY <2>0, <3>1, QuotaFacts DEF Progress, Behind
  <2>8. CASE Account
    <3>1. /\ Behind(c) \/ Complete(view[c]) \/ view[c] = Absent
          /\ UNCHANGED cq /\ worker' = Idle
          /\ accounted'[c] = IF Gone(view[c]) THEN None
                             ELSE IF ~Resolved(view[c]) THEN accounted[c]
                             ELSE <<view[c].spec, view[c].id>>
      BY <1>0, <1>8, <2>0, <2>8 DEF Account, Progress
    <3>2. view[c] = Absent => accounted'[c] = None
      BY <3>1 DEF Gone
    <3>3. Complete(view[c]) => accounted'[c] = <<view[c].spec, view[c].id>>
      <4>1. ASSUME Complete(view[c]) PROVE view[c].id # None /\ view[c] # Absent /\ ~view[c].deleting
        BY <1>0, <4>1, PolicyAssumption, QuotaFacts DEF Complete, Quotas, Identities
      <4>. QED BY <3>1, <4>1 DEF Gone, Resolved
    <3>. QED BY <1>0, <2>0, <3>1, <3>2, <3>3 DEF Progress, Behind
  <2>. QED BY <1>8, <2>0, <2>2, <2>3, <2>4, <2>5, <2>6, <2>7, <2>8 DEF Reconcile
<1>. QED
  BY <1>1, <1>2, <1>3, <1>4, <1>5, <1>6, <1>7, <1>8
  DEF Next, Assign, SyncVWC, vars, memory
-----------------------------------------------------------------------------
(* Enforcement, but for the entries that were removed.                        *)

\* The entry of an export with the identity it has.
ExportEntry(g) == Entry(g, Identity[g])

\* Entries that are there, or were taken away by a Remove.
Installed == vwc \cup lost

Enforces(q) == Complete(q) /\ ExportEntry(q.spec) \in Installed

\* Entries are of exports as they are, and an old copy of the configuration shows
\* nothing that was not installed.
OnlyGrows == vwcView \subseteq Installed /\ Installed \subseteq {ExportEntry(g) : g \in Governed}

\* A quota that no event is waiting for has its entry as the informer has it, or an
\* event is to come; and so it will be when the reconcile under way ends.
Entering(c) ==
    c \notin queue =>
      /\ worker.cq # c => Behind(c) \/ view[c] = Absent \/ Enforces(view[c])
      /\ worker.cq = c =>
           /\ worker.pc = "install" => Behind(c) \/ worker.obj = view[c]
           /\ worker.pc = "reget" => Behind(c) \/ view[c] = Absent \/ Enforces(view[c])

\* Only a Remove takes an entry away, however old the copy an update is computed
\* from.
LEMMA NextOnlyGrows ==
    ASSUME NamesTell, Inv, OnlyGrows, [Next]_vars
    PROVE  OnlyGrows' /\ Installed \subseteq Installed'
<1>. DEFINE Entries == {ExportEntry(g) : g \in Governed}
<1>0. worker.obj \in Quotas /\ Ready
  BY DEF Inv, TypeOK
<1>1. CASE Install
  <2>1. /\ worker.obj.spec \in Governed
        /\ Entry(worker.obj.spec, worker.obj.id) = ExportEntry(worker.obj.spec)
    BY <1>0, <1>1 DEF Install, Ready, Quotas, ExportEntry
  <2>2. ASSUME NEW e \in vwc, e.name = ExportEntry(worker.obj.spec).name
        PROVE  e = ExportEntry(worker.obj.spec)
    <3>1. PICK g \in Governed : e = ExportEntry(g)
      BY DEF OnlyGrows, Installed
    <3>2. EntryName(g, Identity[g]) = EntryName(worker.obj.spec, Identity[worker.obj.spec])
      BY <2>2, <3>1 DEF ExportEntry, Entry
    <3>3. Rule[g] = Rule[worker.obj.spec] /\ Identity[g] = Identity[worker.obj.spec]
      BY <2>1, <3>2 DEF NamesTell, EntryName
    <3>. QED BY <3>1, <3>2, <3>3 DEF ExportEntry, Entry
  <2>3. vwcView = vwc => vwc \subseteq Upserted /\ Upserted \subseteq Entries
    BY <2>1, <2>2 DEF Upserted, OnlyGrows, Installed
  <2>4. /\ UNCHANGED vwc \/ (vwcView = vwc /\ vwc' = Upserted)
        /\ UNCHANGED vwcView /\ lost' = lost \ vwc'
    BY <1>1 DEF Install, CurrentVWC
  <2>5. vwc \subseteq vwc' /\ vwc' \subseteq Entries
    BY <2>3, <2>4 DEF OnlyGrows, Installed
  <2>. QED BY <2>4, <2>5 DEF OnlyGrows, Installed
<1>2. CASE Teardown
  <2>1. /\ UNCHANGED vwcView
        /\ \/ UNCHANGED <<vwc, lost>>
           \/ vwc' = Remaining /\ lost' = (lost \cup vwc) \ vwc'
    BY <1>2 DEF Teardown
  <2>2. Remaining \subseteq vwcView
    BY DEF Remaining
  <2>. QED BY <2>1, <2>2 DEF OnlyGrows, Installed
<1>3. CASE SyncVWC \/ Restart
  BY <1>3 DEF SyncVWC, Restart, OnlyGrows, Installed
<1>4. CASE UNCHANGED <<vwc, vwcView, lost>>
  BY <1>4 DEF OnlyGrows, Installed
<1>. QED
  BY <1>1, <1>2, <1>3, <1>4
  DEF Next, Edit, Delete, Sync, Begin, Assign, Reconcile, Finalize, Resolve, Stamp,
      DropFinalizer, Conflict, Account, AccountFails, Fault, vars, memory

\* An action that is not the worker's at c and brings no event for c leaves it
\* enforced, or on its way.
LEMMA EnteringStays ==
    ASSUME NEW c \in CQs, Entering(c), Installed \subseteq Installed', c \in queue => c \in queue',
           view'[c] = view[c], Behind(c) => Behind(c)',
           worker' = worker \/ (worker.cq # c /\ worker'.cq # c)
    PROVE  Entering(c)'
BY DEF Entering, Enforces, Complete

\* No reconcile ends with a quota that was never enforced and nothing to come that
\* would reconcile it again.
LEMMA NextEntering ==
    ASSUME Inv, OnlyGrows, Installed \subseteq Installed', [Next]_vars,
           NEW c \in CQs, Progress(c), Entering(c)
    PROVE  Entering(c)'
<1>0. /\ TypeOK /\ Ready /\ cq \in [CQs -> Quotas] /\ view \in [CQs -> Quotas]
      /\ worker.obj \in Quotas /\ queue \subseteq CQs /\ c # None /\ Idle.cq = None
      /\ Sane(view[c]) /\ Sane(cq[c])
      /\ {"idle", "reget", "install", "stamp", "dropFinalizer"} \subseteq PCs
  BY PolicyAssumption, QuotaFacts DEF Inv, TypeOK, PCs
<1>1. ASSUME c \in queue' PROVE Entering(c)'
  BY <1>1 DEF Entering
<1>2. ASSUME UNCHANGED <<cq, view, queue, worker>> PROVE Entering(c)'
  BY <1>2, EnteringStays DEF Behind
<1>3. ASSUME NEW d \in CQs, Edit(d) \/ Delete(d) PROVE Entering(c)'
  <2>1. ProviderStep(d) /\ UNCHANGED <<view, queue, worker>>
    BY <1>0, <1>3, ProviderSteps DEF Edit, Delete, memory
  <2>. QED BY <2>1, BehindStays, EnteringStays
<1>4. ASSUME NEW d \in CQs, Sync(d) PROVE Entering(c)'
  <2>1. CASE d = c
    BY <1>1, <1>4, <2>1 DEF Sync
  <2>2. CASE d # c
    <3>1. /\ view'[c] = view[c]
          /\ c \in queue => c \in queue'
          /\ UNCHANGED <<worker, cq>>
      BY <1>0, <1>4, <2>2 DEF Sync
    <3>. QED BY <3>1, EnteringStays DEF Behind
  <2>. QED BY <2>1, <2>2
<1>5. CASE Restart
  <2>1. CASE cq[c].spec = None
    BY <1>0, <1>5, <2>1 DEF Restart, Entering, Sane
  <2>2. CASE cq[c].spec # None
    BY <1>1, <1>5, <2>2 DEF Restart
  <2>. QED BY <2>1, <2>2
<1>6. ASSUME NEW d \in CQs, Begin(d) PROVE Entering(c)'
  <2>1. /\ worker' = [cq |-> d, obj |-> view[d], pc |-> FirstCall(view[d])] /\ worker = Idle
        /\ queue' = queue \ {d} /\ UNCHANGED <<cq, view>>
    BY <1>6 DEF Begin
  <2>2. CASE d = c
    BY <1>0, <2>1, <2>2, FirstCallFacts DEF Entering
  <2>3. CASE d # c
    BY <1>0, <2>1, <2>3, EnteringStays DEF Behind
  <2>. QED BY <2>2, <2>3
<1>7. CASE worker.cq # c /\ (Reconcile \/ Fault)
  <2>1. /\ UNCHANGED view /\ cq'[c] = cq[c]
        /\ queue' = queue \/ queue' = queue \cup {worker.cq}
        /\ worker' = Idle \/ \E pc \in PCs : \E obj : GoTo(pc, obj) \/ Answered(pc, obj)
    BY <1>0, <1>7
    DEF Reconcile, Finalize, Resolve, Stamp, Install, Teardown, DropFinalizer, Conflict, Account,
        AccountFails, Fault, Requeue, Answered, PCs
  <2>2. worker'.cq # c
    BY <1>0, <1>7, <2>1, WorkerSteps
  <2>. QED BY <1>0, <1>7, <2>1, <2>2, EnteringStays DEF Behind
<1>8. ASSUME worker.cq = c, c \notin queue', Reconcile \/ Fault PROVE Entering(c)'
  <2>0. /\ worker.pc # "idle" /\ c \notin queue /\ UNCHANGED view
        /\ ~(Conflict \/ Fault \/ AccountFails)
    BY <1>0, <1>8, GivenUp, QuotaFacts
    DEF Reconcile, Finalize, Resolve, Stamp, Install, Teardown, DropFinalizer, Account, Requeue,
        Answered, TypeOK
  <2>1. ASSUME NEW pc \in PCs, NEW obj, Answered(pc, obj) \/ GoTo(pc, obj)
        PROVE  worker' = [pc |-> pc, cq |-> c, obj |-> obj]
    BY <1>0, <1>8, <2>1, WorkerSteps
  <2>2. CASE Finalize
    <3>1. /\ worker.obj = cq[c] /\ worker.obj = view[c] /\ ~view[c].finalizer
          /\ cq'[c].finalizer /\ worker'.pc = "reget" /\ worker'.cq = c
      BY <1>0, <1>8, <2>0, <2>1, <2>2 DEF Finalize, Current, Progress, Ready, Quotas
    <3>. QED BY <1>0, <2>0, <3>1 DEF Entering, Behind
  <2>3. CASE Resolve
    <3>1. /\ worker.obj = view[c] /\ worker'.cq = c /\ worker'.obj = view[c]
          /\ worker'.pc \in {"install", "stamp"}
      BY <1>0, <1>8, <2>0, <2>1, <2>3 DEF Resolve, Progress
    <3>. QED BY <2>0, <3>1 DEF Entering
  <2>4. CASE Stamp
    <3>1. /\ worker.obj = cq[c] /\ worker.obj = view[c] /\ view[c].id # Identity[view[c].spec]
          /\ cq'[c].id = Identity[view[c].spec] /\ worker'.pc = "install" /\ worker'.cq = c
      BY <1>0, <1>8, <2>0, <2>1, <2>4 DEF Stamp, Current, Progress, Quotas
    <3>. QED BY <2>0, <3>1 DEF Entering, Behind
  <2>5. CASE Install
    <3>1. /\ Behind(c) \/ (Complete(view[c]) /\ worker.obj = view[c])
          /\ UNCHANGED cq /\ worker'.pc = "reget" /\ worker'.cq = c
      BY <1>0, <1>8, <2>0, <2>1, <2>5 DEF Install, Progress, Entering
    <3>2. Entry(worker.obj.spec, worker.obj.id) \in Upserted
      BY DEF Upserted
    <3>3. Entry(worker.obj.spec, worker.obj.id) \in Installed'
      BY <2>5, <3>2 DEF Install, OnlyGrows, Installed
    <3>. QED BY <2>0, <3>1, <3>3 DEF Entering, Behind, Complete, Enforces, ExportEntry, Entry, EntryName
  <2>6. CASE Teardown
    <3>1. worker.obj = view[c] /\ view[c].finalizer
      BY <1>8, <2>0, <2>6 DEF Teardown, Progress
    <3>2. worker' = [pc |-> "dropFinalizer", cq |-> c, obj |-> view[c]]
      BY <1>0, <2>1, <2>6, <3>1 DEF Teardown
    <3>. QED BY <2>0, <3>2 DEF Entering
  <2>7. CASE DropFinalizer
    <3>1. /\ view[c].finalizer /\ cq'[c] = Absent /\ worker'.pc = "reget" /\ worker'.cq = c
      BY <1>0, <1>8, <2>0, <2>1, <2>7 DEF DropFinalizer, Progress
    <3>. QED BY <2>0, <3>1, QuotaFacts DEF Entering, Behind
  <2>8. CASE Account
    <3>1. /\ Behind(c) \/ view[c] = Absent \/ Enforces(view[c])
          /\ UNCHANGED cq /\ worker' = Idle
      BY <1>0, <1>8, <2>0, <2>8 DEF Account, Entering
    <3>. QED BY <1>0, <2>0, <3>1 DEF Entering, Behind, Enforces, Complete
  <2>. QED BY <1>8, <2>0, <2>2, <2>3, <2>4, <2>5, <2>6, <2>7, <2>8 DEF Reconcile
<1>. QED
  BY <1>1, <1>2, <1>3, <1>4, <1>5, <1>6, <1>7, <1>8
  DEF Next, Assign, SyncVWC, vars, memory
-----------------------------------------------------------------------------
(* The theorems.                                                              *)

\* The invariant holds when the controller starts in an empty workspace.
LEMMA InitInv == Init => Inv /\ \A c \in CQs : Progress(c)
<1>. SUFFICES ASSUME Init PROVE Inv /\ \A c \in CQs : Progress(c)
  OBVIOUS
<1>0. /\ \A c \in CQs : cq[c] = Absent /\ view[c] = Absent /\ accounted[c] = None
      /\ worker = Idle /\ queue = {}
  BY DEF Init
<1>1. TypeOK
  <2>1. worker \in [pc : {"idle", "finalize", "resolve", "stamp", "install",
                         "teardown", "dropFinalizer", "reget"},
                   cq : CQs \cup {None}, obj : Quotas]
    BY <1>0, QuotaFacts DEF Idle
  <2>. QED BY <1>0, <2>1, PolicyAssumption, QuotaFacts DEF Init, TypeOK
<1>2. Ready
  BY <1>0, QuotaFacts DEF Ready
<1>3. ASSUME NEW c \in CQs PROVE Sane(cq[c]) /\ Sane(view[c]) /\ CopyTells(c) /\ Progress(c)
  BY <1>0, <1>3, PolicyAssumption, QuotaFacts DEF CopyTells, Progress
<1>. QED BY <1>1, <1>2, <1>3 DEF Inv

\* The invariant holds in every reachable state.
THEOREM PolicyInvariant == Spec => []Inv
<1>1. Inv /\ [Next]_vars => Inv'
  BY NextTypeOK, NextReady, NextQuotas DEF Inv
<1>2. Init => Inv
  BY InitInv
<1>. QED BY <1>1, <1>2, PTL DEF Spec

\* Every reachable state is well typed: no entry without an identity is ever sent
\* to the webhook, and no deletion waits without a finalizer.
THEOREM PolicyTypeCorrect == Spec => []TypeOK
<1>1. Inv => TypeOK
  BY DEF Inv
<1>. QED BY <1>1, PolicyInvariant, PTL

\* Once the controller has seen all there is to see of a quota and is done with it,
\* the quota has its finalizer, the identity of what it governs now, and is
\* accounted for; one that is gone is not (consumptionquota_controller.go:53-60,
\* main.go:221-250).  So no stale read, lost answer, fault or restart ends a quota's
\* reconciliation early.
THEOREM QuotasAreReconciled == Spec => []Reconciled
<1>. DEFINE AllProgress == \A c \in CQs : Progress(c)
<1>1. Init => AllProgress
  BY InitInv
<1>2. Inv /\ AllProgress /\ [Next]_vars => AllProgress'
  BY NextProgress
<1>3. Inv /\ AllProgress => Reconciled
  <2>. SUFFICES ASSUME Inv, AllProgress, NEW c \in CQs, CaughtUp(c)
                PROVE  IF cq[c].spec = None
                       THEN accounted[c] = None
                       ELSE /\ cq[c].finalizer /\ ~cq[c].deleting
                            /\ cq[c].id = Identity[cq[c].spec]
                            /\ accounted[c] = <<cq[c].spec, cq[c].id>>
    BY DEF Reconciled
  <2>1. view[c] = cq[c] /\ c \notin queue /\ worker.cq # c /\ Progress(c)
    BY DEF CaughtUp
  <2>. QED BY <2>1, QuotaFacts DEF Progress, Behind, Complete
<1>. HIDE DEF AllProgress
<1>. QED BY <1>1, <1>2, <1>3, PolicyInvariant, PTL DEF Spec

\* An update made for one quota changes the entry of that quota's name and no
\* other, however old the copy it was computed from: the apiserver refuses it
\* unless that copy is the configuration it replaces (webhook_installer.go:37-41).
THEOREM UpdatesOwnEntryOnly == Spec => OwnEntryOnly
<1>1. ASSUME [Next]_vars
      PROVE  vwc' # {} => \A e \in (vwc' \ vwc) \cup (vwc \ vwc') :
                            e.name = EntryName(worker.obj.spec, worker.obj.id)
  <2>1. CASE Install
    <3>1. UNCHANGED vwc \/ (vwcView = vwc /\ vwc' = Upserted)
      BY <2>1 DEF Install, CurrentVWC
    <3>2. Entry(worker.obj.spec, worker.obj.id).name = EntryName(worker.obj.spec, worker.obj.id)
      BY DEF Entry
    <3>. QED BY <3>1, <3>2 DEF Upserted
  <2>2. CASE Teardown
    <3>1. UNCHANGED vwc \/ (vwcView = vwc /\ vwc' = Remaining) \/ vwc' = {}
      BY <2>2 DEF Teardown, CurrentVWC
    <3>. QED BY <3>1 DEF Remaining
  <2>3. CASE UNCHANGED vwc
    BY <2>3
  <2>. QED
    BY <1>1, <2>1, <2>2, <2>3
    DEF Next, Edit, Delete, Sync, Begin, Assign, SyncVWC, Restart, Reconcile, Finalize, Resolve, Stamp,
        DropFinalizer, Conflict, Account, AccountFails, Fault, vars
<1>. QED BY <1>1, PTL DEF Spec, OwnEntryOnly

\* When an entry is added the quota it is for has its finalizer in the apiserver,
\* not only in the copy at hand, so it cannot disappear without a teardown
\* (consumptionquota_controller.go:76-84).
THEOREM EntriesAreGuarded == Spec => EntryGuarded
<1>1. ASSUME Inv, [Next]_vars PROVE vwc' \ vwc # {} => cq[worker.cq].finalizer
  <2>1. CASE Install
    BY <1>1, <2>1 DEF Install, Inv, Ready
  <2>2. CASE Teardown
    <3>1. UNCHANGED vwc \/ (vwcView = vwc /\ vwc' = Remaining) \/ vwc' = {}
      BY <2>2 DEF Teardown, CurrentVWC
    <3>. QED BY <3>1 DEF Remaining
  <2>3. CASE UNCHANGED vwc
    BY <2>3
  <2>. QED
    BY <1>1, <2>1, <2>2, <2>3
    DEF Next, Edit, Delete, Sync, Begin, Assign, SyncVWC, Restart, Reconcile, Finalize, Resolve, Stamp,
        DropFinalizer, Conflict, Account, AccountFails, Fault, vars
<1>. QED BY <1>1, PolicyInvariant, PTL DEF Spec, EntryGuarded

\* A quota that the controller is done with has its entry in the webhook
\* configuration, however old the copies that other reconciles work from, and
\* whatever writes are refused, unanswered or repeated, unless a Remove took away that
\* very entry and no Install has put it back: a quota loses its enforcement through
\* Remove alone (webhook_installer.go:79-116, 133-177).
THEOREM EnforcementLasts == Spec => []EnforcedButForRemovals
<1>. DEFINE AllEntering == \A c \in CQs : Progress(c) /\ Entering(c)
            Grown == NamesTell => OnlyGrows /\ AllEntering
<1>1. Init => Grown
  <2>. SUFFICES ASSUME Init PROVE OnlyGrows /\ AllEntering
    OBVIOUS
  <2>1. /\ \A c \in CQs : view[c] = Absent
        /\ worker = Idle /\ vwc = {} /\ vwcView = {} /\ lost = {}
    BY DEF Init
  <2>2. \A c \in CQs : Entering(c)
    BY <2>1, QuotaFacts, PolicyAssumption DEF Entering
  <2>. QED BY <2>1, <2>2, InitInv DEF OnlyGrows, Installed
<1>2. Inv /\ Grown /\ [Next]_vars => Grown'
  <2>. SUFFICES ASSUME Inv, OnlyGrows, AllEntering, NamesTell, [Next]_vars
                PROVE  OnlyGrows' /\ AllEntering'
    BY DEF NamesTell, EntryName
  <2>1. OnlyGrows' /\ Installed \subseteq Installed'
    BY NextOnlyGrows
  <2>. QED BY <2>1, NextProgress, NextEntering
<1>3. Grown => EnforcedButForRemovals
  <2>. SUFFICES ASSUME AllEntering, NEW c \in CQs, CaughtUp(c), cq[c].spec # None
                PROVE  Entry(cq[c].spec, cq[c].id) \in vwc \cup lost
    BY DEF EnforcedButForRemovals
  <2>1. view[c] = cq[c] /\ c \notin queue /\ worker.cq # c /\ Entering(c)
    BY DEF CaughtUp
  <2>. QED BY <2>1, QuotaFacts DEF Entering, Enforces, Behind, Complete, ExportEntry, Installed
<1>. HIDE DEF Grown
<1>. QED BY <1>1, <1>2, <1>3, PolicyInvariant, PTL DEF Spec
=============================================================================
