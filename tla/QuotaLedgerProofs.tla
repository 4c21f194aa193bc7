------------------------- MODULE QuotaLedgerProofs -------------------------
(* Theorems about QuotaLedger, for every value of its constants.              *)
EXTENDS LedgerRefinement, TLAPS, FiniteSetTheorems, SequenceTheorems

-----------------------------------------------------------------------------
(* Accounting.                                                                *)

\* Storing a time loses less than a second of it (metaTime, accounting.go:17).
LEMMA StoredBounds ==
    ASSUME NEW t \in Nat
    PROVE  Stored(t) \in Nat /\ Stored(t) <= t /\ t < Stored(t) + Second
BY AccountingAssumption DEF Stored

\* Reserve, Sweep and FoldConfirmed take a status to a status.
LEMMA StatusTypes ==
    ASSUME NEW st \in Statuses, NEW t \in 0 .. (MaxTime + MaxSkew)
    PROVE  /\ \A k \in Keys, l \in Nat : Reserve(st, k, l, t) \in Statuses
           /\ Sweep(st, t) \in Statuses
           /\ \A c \in Nat : \A K : FoldConfirmed(st, c, K) \in Statuses
<1>0. t \in Nat /\ t + TTL \in Nat /\ t + TTL <= MaxTime + MaxSkew + TTL
  BY LedgerAssumption, AccountingAssumption
<1>1. Stored(t + TTL) \in Times
  BY <1>0, StoredBounds, LedgerAssumption, AccountingAssumption DEF Times
<1>2. ASSUME NEW k \in Keys PROVE WithReservation(st, k, t) \in Statuses
  BY <1>1 DEF WithReservation, Statuses
<1>3. \A k \in Keys, l \in Nat : Reserve(st, k, l, t) \in Statuses
  BY <1>2 DEF Reserve
<1>4. Sweep(st, t) \in Statuses
  BY DEF Sweep, Live, Statuses
<1>5. \A c \in Nat : \A K : FoldConfirmed(st, c, K) \in Statuses
  BY DEF FoldConfirmed, Statuses
<1>. QED BY <1>3, <1>4, <1>5
-----------------------------------------------------------------------------
(* Type correctness.                                                          *)

\* The first state is well typed: no ledger, nothing in flight.
LEMMA InitTypeOK == Init => TypeOK
<1>. SUFFICES ASSUME Init PROVE TypeOK
  OBVIOUS
<1>1. NoUsage \in Statuses
  BY DEF NoUsage, Statuses
<1>. QED
  BY <1>1, LedgerAssumption DEF Init, TypeOK, NoDraft, NoWork, RequestPC

\* Reading the ledger, or creating it, does not change the stored status.
LEMMA ReadLedgerFacts ==
    ASSUME TypeOK, NEW p \in Processes, ReadLedger(p)
    PROVE  /\ ledger' \in [exists : BOOLEAN, rv : Nat, status : Statuses]
           /\ ledger'.status = ledger.status
           /\ ledger'.rv \in Nat /\ ledger'.rv >= ledger.rv
<1>1. CASE UNCHANGED ledger
  BY <1>1 DEF TypeOK
<1>2. CASE ledger' = [exists |-> TRUE, rv |-> ledger.rv + 1, status |-> ledger.status]
  <2>1. ledger.rv \in Nat /\ ledger.status \in Statuses
    BY DEF TypeOK
  <2>. QED BY <1>2, <2>1
<1>. QED BY <1>1, <1>2 DEF ReadLedger

\* A write that lands stores a well-typed status (store.go:104).
LEMMA LandType ==
    ASSUME TypeOK, NEW p \in Processes, Land(p)
    PROVE  /\ ledger' \in [exists : BOOLEAN, rv : Nat, status : Statuses]
           /\ draft' \in [Processes -> [rv : Nat, status : Statuses]]
           /\ folded' \subseteq Requests
<1>1. NoDraft \in [rv : Nat, status : Statuses]
  BY DEF NoDraft, NoUsage, Statuses
<1>2. ledger.rv \in Nat /\ draft[p] \in [rv : Nat, status : Statuses]
  BY DEF TypeOK
<1>3. ledger' \in [exists : BOOLEAN, rv : Nat, status : Statuses]
  BY <1>2 DEF Land
<1>4. draft' \in [Processes -> [rv : Nat, status : Statuses]]
  BY <1>1 DEF TypeOK, Land
<1>5. folded' \subseteq Requests
  BY DEF TypeOK, Land
<1>. QED BY <1>3, <1>4, <1>5

\* The watch takes well-typed events.
LEMMA NotifyType ==
    ASSUME TypeOK, NEW type \in {"add", "delete"}, NEW o \in Requests, Notify(type, o)
    PROVE  events' \in Seq([type : {"add", "delete"}, object : Requests])
<1>1. [type |-> type, object |-> o] \in [type : {"add", "delete"}, object : Requests]
  OBVIOUS
<1>2. events \in Seq([type : {"add", "delete"}, object : Requests])
  BY DEF TypeOK
<1>3. Append(events, [type |-> type, object |-> o]) \in Seq([type : {"add", "delete"}, object : Requests])
  BY <1>1, <1>2, AppendProperties
<1>. QED BY <1>2, <1>3 DEF Notify

\* Type correctness of every step of every process.
LEMMA NextTypeOK == TypeOK /\ [Next]_vars => TypeOK'
<1>. SUFFICES ASSUME TypeOK, [Next]_vars PROVE TypeOK'
  OBVIOUS
<1>. USE LedgerAssumption
<1>a. /\ Worker \in Processes /\ Sweeper \in Processes
      /\ Requests \subseteq Processes
      /\ NoDraft \in [rv : Nat, status : Statuses]
      /\ NoWork \in [items : SUBSET KeysOf(Requests), list : SUBSET Requests]
      /\ \A r \in Requests : RequestKey(r) \in Keys /\ Name[r] \in KeysOf(Requests)
  BY DEF Processes, NoDraft, NoUsage, Statuses, NoWork, Keys, KeysOf
<1>1. ASSUME NEW r \in Requests, Handle(r) PROVE TypeOK'
  BY <1>1, <1>a DEF Handle, TypeOK, RequestPC, clusterVars, informerVars, envVars
<1>2. ASSUME NEW r \in Requests, RejectUnsynced(r) PROVE TypeOK'
  BY <1>2, <1>a DEF RejectUnsynced, TypeOK, RequestPC, requestVars, clusterVars, informerVars, envVars
<1>3. ASSUME NEW r \in Requests, Grant(r) PROVE TypeOK'
  <2>1. PICK t \in Clock : Propose(r, Reserve(ledger.status, RequestKey(r), lim[r], t))
    BY <1>3 DEF Grant
  <2>2. t \in 0 .. (MaxTime + MaxSkew) /\ lim[r] \in Nat /\ ledger.status \in Statuses
    BY DEF Clock, TypeOK
  <2>3. Reserve(ledger.status, RequestKey(r), lim[r], t) \in Statuses
    BY <2>2, <1>a, StatusTypes
  <2>4. ledger' \in [exists : BOOLEAN, rv : Nat, status : Statuses]
    BY <1>3, <1>a, ReadLedgerFacts DEF Grant
  <2>. QED
    BY <1>3, <1>a, <2>1, <2>3, <2>4
    DEF Grant, Propose, TypeOK, RequestPC, clusterVars, informerVars, envVars
<1>4. ASSUME NEW r \in Requests, AdmitAgain(r) PROVE TypeOK'
  <2>1. ledger' \in [exists : BOOLEAN, rv : Nat, status : Statuses]
    BY <1>4, <1>a, ReadLedgerFacts DEF AdmitAgain
  <2>. QED
    BY <1>4, <1>a, <2>1 DEF AdmitAgain, TypeOK, RequestPC, clusterVars, informerVars, envVars
<1>5. ASSUME NEW r \in Requests, Deny(r) PROVE TypeOK'
  <2>1. ledger' \in [exists : BOOLEAN, rv : Nat, status : Statuses]
    BY <1>5, <1>a, ReadLedgerFacts DEF Deny
  <2>. QED
    BY <1>5, <1>a, <2>1 DEF Deny, TypeOK, RequestPC, requestVars, clusterVars, informerVars, envVars
<1>6. ASSUME NEW r \in Requests, Persist(r) PROVE TypeOK'
  <2>1. events' \in Seq([type : {"add", "delete"}, object : Requests])
    BY <1>6, NotifyType DEF Persist
  <2>. QED
    BY <1>6, <1>a, <2>1 DEF Persist, TypeOK, RequestPC, requestVars, informerVars, envVars
<1>7. ASSUME NEW r \in Requests, FailDownstream(r) PROVE TypeOK'
  BY <1>7, <1>a DEF FailDownstream, TypeOK, RequestPC, requestVars, clusterVars, informerVars, envVars
<1>8. ASSUME NEW r \in Requests, Delete(r) PROVE TypeOK'
  <2>1. events' \in Seq([type : {"add", "delete"}, object : Requests])
    BY <1>8, NotifyType DEF Delete
  <2>. QED
    BY <1>8, <1>a, <2>1 DEF Delete, TypeOK, requestVars, informerVars, envVars
<1>9. ASSUME NEW p \in Processes, GetMissing(p) \/ CreateExists(p) PROVE TypeOK'
  BY <1>9, <1>a
  DEF GetMissing, CreateExists, TypeOK, RequestPC, requestVars, clusterVars, informerVars, envVars
<1>10. ASSUME NEW p \in Processes, Write(p) PROVE TypeOK'
  <2>1. /\ ledger' \in [exists : BOOLEAN, rv : Nat, status : Statuses]
        /\ draft' \in [Processes -> [rv : Nat, status : Statuses]]
        /\ folded' \subseteq Requests
    BY <1>10, LandType DEF Write
  <2>. QED
    BY <1>10, <1>a, <2>1 DEF Write, TypeOK, RequestPC, requestVars, clusterVars, informerVars, envVars
<1>11. ASSUME NEW p \in Processes, Conflict(p) PROVE TypeOK'
  BY <1>11, <1>a
  DEF Conflict, TypeOK, RequestPC, requestVars, clusterVars, informerVars, envVars
<1>12. ASSUME NEW p \in Processes, GiveUp(p) PROVE TypeOK'
  BY <1>12, <1>a DEF GiveUp, Failed, TypeOK, RequestPC, requestVars, clusterVars
<1>13. ASSUME NEW p \in Processes, LoseReply(p) PROVE TypeOK'
  <2>1. /\ ledger' \in [exists : BOOLEAN, rv : Nat, status : Statuses]
        /\ draft' \in [Processes -> [rv : Nat, status : Statuses]]
        /\ folded' \subseteq Requests
    BY <1>13, LandType DEF LoseReply
  <2>. QED
    <3>1. faults' \in 0 .. MaxFaults
      BY <1>13 DEF LoseReply, Failed, TypeOK
    <3>2. pc' \in [Processes -> RequestPC]
      BY <1>13 DEF LoseReply, Failed, TypeOK, RequestPC
    <3>3. /\ queue' \subseteq KeysOf(Requests)
          /\ work' \in [items : SUBSET KeysOf(Requests), list : SUBSET Requests]
      BY <1>13, <1>a DEF LoseReply, Failed, TypeOK
    <3>. QED
      BY <1>13, <2>1, <3>1, <3>2, <3>3 DEF LoseReply, Failed, TypeOK, requestVars, clusterVars
<1>14. CASE StartReconcile
  BY <1>14, <1>a DEF StartReconcile, TypeOK, RequestPC, requestVars, clusterVars, envVars
<1>15. CASE Fold
  <2>1. ledger' \in [exists : BOOLEAN, rv : Nat, status : Statuses]
    BY <1>15, <1>a, ReadLedgerFacts DEF Fold
  <2>2. Cardinality(work.list) \in Nat
    BY FS_Subset, FS_CardinalityType DEF TypeOK
  <2>3. FoldedStatus \in Statuses
    BY <2>2, StatusTypes DEF FoldedStatus, TypeOK
  <2>. QED
    BY <1>15, <1>a, <2>1, <2>3
    DEF Fold, Propose, TypeOK, RequestPC, requestVars, clusterVars, informerVars, envVars
<1>16. CASE FoldUnchanged
  <2>1. ledger' \in [exists : BOOLEAN, rv : Nat, status : Statuses]
    BY <1>16, <1>a, ReadLedgerFacts DEF FoldUnchanged
  <2>. QED
    BY <1>16, <1>a, <2>1
    DEF FoldUnchanged, TypeOK, RequestPC, requestVars, clusterVars, informerVars, envVars
<1>17. CASE SweepTick
  BY <1>17, <1>a DEF SweepTick, TypeOK, RequestPC, requestVars, clusterVars, informerVars, envVars
<1>18. CASE SweepExpired
  <2>1. ledger' \in [exists : BOOLEAN, rv : Nat, status : Statuses]
    BY <1>18, <1>a, ReadLedgerFacts DEF SweepExpired
  <2>2. PICK t \in Clock : Propose(Sweeper, Sweep(ledger.status, t))
    BY <1>18 DEF SweepExpired
  <2>3. t \in 0 .. (MaxTime + MaxSkew) /\ ledger.status \in Statuses
    BY DEF Clock, TypeOK
  <2>4. Sweep(ledger.status, t) \in Statuses
    BY <2>3, StatusTypes
  <2>. QED
    BY <1>18, <1>a, <2>1, <2>2, <2>4
    DEF SweepExpired, Propose, TypeOK, RequestPC, requestVars, clusterVars, informerVars, envVars
<1>19. CASE SweepUnchanged
  <2>1. ledger' \in [exists : BOOLEAN, rv : Nat, status : Statuses]
    BY <1>19, <1>a, ReadLedgerFacts DEF SweepUnchanged
  <2>. QED
    BY <1>19, <1>a, <2>1
    DEF SweepUnchanged, TypeOK, RequestPC, requestVars, clusterVars, informerVars, envVars
<1>20. CASE Deliver
  <2>1. /\ Head(events) \in [type : {"add", "delete"}, object : Requests]
        /\ Tail(events) \in Seq([type : {"add", "delete"}, object : Requests])
    <3>1. events \in Seq([type : {"add", "delete"}, object : Requests]) /\ events # <<>>
      BY <1>20 DEF Deliver, TypeOK
    <3>. QED BY <3>1, HeadTailProperties
  <2>. QED
    BY <1>20, <1>a, <2>1 DEF Deliver, TypeOK, requestVars, envVars
<1>21. CASE Crash
  <2>1. pc' \in [Processes -> RequestPC]
    BY <1>21, <1>a DEF Crash, TypeOK, RequestPC
  <2>2. draft' \in [Processes -> [rv : Nat, status : Statuses]]
    BY <1>21, <1>a DEF Crash, TypeOK
  <2>3. events' \in Seq([type : {"add", "delete"}, object : Requests])
    BY <1>21 DEF Crash
  <2>4. crashes' \in 0 .. MaxCrashes
    BY <1>21 DEF Crash, TypeOK
  <2>. QED
    BY <1>21, <1>a, <2>1, <2>2, <2>3, <2>4 DEF Crash, TypeOK, requestVars
<1>22. CASE Restart
  BY <1>22, <1>a DEF Restart, TypeOK, KeysOf, requestVars, clusterVars
<1>23. CASE Tick
  BY <1>23, <1>a DEF Tick, TypeOK, requestVars, clusterVars, informerVars
<1>24. CASE UNCHANGED vars
  BY <1>24 DEF vars, TypeOK
<1>. QED
  BY <1>1, <1>2, <1>3, <1>4, <1>5, <1>6, <1>7, <1>8, <1>9, <1>10, <1>11, <1>12, <1>13, <1>14,
     <1>15, <1>16, <1>17, <1>18, <1>19, <1>20, <1>21, <1>22, <1>23, <1>24
  DEF Next, Request, CAS, Reconcile, SweepAll

\* Every variable keeps its type: in particular a status never leaves the
\* ledger's schema (confirmed a natural number), whatever the processes do.
THEOREM TypeCorrect == Spec => []TypeOK
BY InitTypeOK, NextTypeOK, PTL DEF Spec
-----------------------------------------------------------------------------
(* Compare and swap.                                                          *)

\* The image of a finite set is finite: used for the keys of the requests.
LEMMA FiniteImage ==
    ASSUME NEW S, IsFiniteSet(S), NEW f
    PROVE  IsFiniteSet({f[x] : x \in S})
<1>. DEFINE g == [x \in S |-> f[x]]
            T == {f[x] : x \in S}
<1>1. g \in [S -> T]
  OBVIOUS
<1>2. \A y \in T : \E x \in S : g[x] = y
  OBVIOUS
<1>3. g \in Surjection(S, T)
  BY <1>1, <1>2 DEF Surjection
<1>. QED BY <1>3, FS_Surjection

\* One more element counts for one at most.
LEMMA AddedOne ==
    ASSUME NEW S, IsFiniteSet(S), NEW x
    PROVE  IsFiniteSet(S \cup {x}) /\ Cardinality(S \cup {x}) <= Cardinality(S) + 1
<1>1. Cardinality(S) \in Nat
  BY FS_CardinalityType
<1>2. CASE x \in S
  <2>1. S \cup {x} = S
    BY <1>2
  <2>2. Cardinality(S \cup {x}) = Cardinality(S) /\ IsFiniteSet(S \cup {x})
    BY <2>1
  <2>3. Cardinality(S) <= Cardinality(S) + 1
    BY <1>1
  <2>. QED BY <2>2, <2>3
<1>3. CASE x \notin S
  <2>1. Cardinality(S \cup {x}) = Cardinality(S) + 1 /\ IsFiniteSet(S \cup {x})
    BY <1>3, FS_AddElement
  <2>2. Cardinality(S) + 1 <= Cardinality(S) + 1
    BY <1>1
  <2>. QED BY <2>1, <2>2
<1>. QED BY <1>2, <1>3

\* There are finitely many keys and times, so cardinalities behave.
LEMMA FiniteReservations ==
    ASSUME NEW st \in Statuses
    PROVE  IsFiniteSet(st.reservations)
<1>1. IsFiniteSet(Keys)
  <2>1. IsFiniteSet({Name[r] : r \in Requests})
    BY FiniteImage, LedgerAssumption
  <2>2. IsFiniteSet({RequestKey(r) : r \in Requests})
    <3>. DEFINE k == [r \in Requests |-> RequestKey(r)]
    <3>1. IsFiniteSet({k[r] : r \in Requests})
      <4>. HIDE DEF k
      <4>. QED BY FiniteImage, LedgerAssumption
    <3>2. {k[r] : r \in Requests} = {RequestKey(r) : r \in Requests}
      OBVIOUS
    <3>. QED BY <3>1, <3>2
  <2>. QED BY <2>1, <2>2, FS_Union DEF Keys
<1>2. IsFiniteSet(Times)
  BY FS_Interval, LedgerAssumption, AccountingAssumption DEF Times
<1>3. IsFiniteSet(Keys \X Times)
  BY <1>1, <1>2, FS_Product
<1>4. IsFiniteSet([key : Keys, expiresAt : Times])
  <2>. DEFINE h == [x \in Keys \X Times |-> [key |-> x[1], expiresAt |-> x[2]]]
              R == [key : Keys, expiresAt : Times]
  <2>1. h \in [Keys \X Times -> R]
    OBVIOUS
  <2>2. ASSUME NEW v \in R PROVE \E x \in Keys \X Times : h[x] = v
    <3>1. <<v.key, v.expiresAt>> \in Keys \X Times
      OBVIOUS
    <3>2. h[<<v.key, v.expiresAt>>] = v
      BY <3>1
    <3>. QED BY <3>1, <3>2
  <2>3. h \in Surjection(Keys \X Times, R)
    BY <2>1, <2>2 DEF Surjection
  <2>. QED BY <1>3, <2>3, FS_Surjection
<1>. QED BY <1>4, FS_Subset DEF Statuses

\* A later clock takes fewer reservations for live (accounting.go:20-29).
LEMMA FirmFacts ==
    ASSUME NEW st \in Statuses, NEW t \in Nat, NEW u \in Nat, t <= u
    PROVE  /\ Live(st, u) \subseteq Live(st, t)
           /\ Cardinality(Live(st, t)) \in Nat /\ Cardinality(Live(st, u)) \in Nat
           /\ Cardinality(Live(st, u)) <= Cardinality(Live(st, t))
<1>1. \A v \in st.reservations : v.expiresAt \in Nat
  BY LedgerAssumption, AccountingAssumption DEF Statuses, Times
<1>2. Live(st, u) \subseteq Live(st, t)
  BY <1>1 DEF Live
<1>3. IsFiniteSet(Live(st, t))
  BY FiniteReservations, FS_Subset DEF Live
<1>. QED BY <1>2, <1>3, FS_Subset, FS_CardinalityType

\* A draft stays fresh, or becomes stale and knows it, in a step that leaves it
\* alone and changes the status only together with the resourceVersion.
LEMMA StableDraft ==
    ASSUME TypeOK, TypeOK', NEW p \in Processes, Fresh(p),
           pc'[p] = "write" => pc[p] = "write" /\ draft'[p] = draft[p],
           ledger'.rv >= ledger.rv,
           ledger'.rv = ledger.rv => ledger'.status = ledger.status,
           now' >= now, p \in Requests => lim'[p] = lim[p] /\ since'[p] = since[p],
           p = Worker /\ pc'[p] = "write" => work' = work
    PROVE  Fresh(p)'
<1>. SUFFICES ASSUME pc'[p] = "write" PROVE Fresh(p)'
  BY DEF Fresh
<1>1. /\ pc[p] = "write" /\ draft'[p] = draft[p]
      /\ ledger.rv \in Nat /\ ledger'.rv \in Nat /\ draft[p].rv \in Nat
  BY DEF TypeOK
<1>2. draft'[p].rv <= ledger'.rv
  BY <1>1 DEF Fresh
<1>3. ASSUME draft'[p].rv = ledger'.rv
      PROVE  /\ p \in Requests => GrantDraft(p)'
             /\ p = Worker => FoldDraft'
             /\ p = Sweeper => SweepDraft'
  <2>1. draft[p].rv = ledger.rv /\ ledger'.rv = ledger.rv /\ ledger'.status = ledger.status
    BY <1>1, <1>3 DEF Fresh
  <2>2. /\ now + MaxSkew \in Nat /\ now' + MaxSkew \in Nat /\ now + MaxSkew <= now' + MaxSkew
        /\ ledger.status \in Statuses /\ ledger.status.confirmed \in Nat
    <3>1. now \in Nat /\ now' \in Nat
      BY LedgerAssumption DEF TypeOK
    <3>2. ledger.status \in Statuses
      BY DEF TypeOK
    <3>3. ledger.status.confirmed \in Nat
      BY <3>2 DEF Statuses
    <3>4. /\ now + MaxSkew \in Nat /\ now' + MaxSkew \in Nat
          /\ now + MaxSkew <= now' + MaxSkew
      BY <3>1, LedgerAssumption
    <3>. QED BY <3>2, <3>3, <3>4
  <2>3. /\ FirmReservations' \subseteq FirmReservations
        /\ Cardinality(FirmReservations) \in Nat /\ Cardinality(FirmReservations') \in Nat
        /\ Cardinality(FirmReservations') <= Cardinality(FirmReservations)
    BY <2>1, <2>2, FirmFacts DEF FirmReservations
  <2>4. CASE p \in Requests
    <3>1. GrantDraft(p) /\ p # Worker /\ p # Sweeper
      BY <1>1, <2>1, <2>4, LedgerAssumption DEF Fresh
    <3>2. ledger'.status.confirmed + Cardinality(FirmReservations') < lim'[p]
      <4>1. lim[p] \in Nat /\ lim'[p] = lim[p]
        BY <2>4 DEF TypeOK
      <4>2. ledger.status.confirmed + Cardinality(FirmReservations) < lim[p]
        BY <3>1 DEF GrantDraft
      <4>. QED BY <2>1, <2>2, <2>3, <4>1, <4>2
    <3>. QED BY <1>1, <2>1, <2>4, <3>1, <3>2 DEF GrantDraft
  <2>5. CASE p = Worker
    <3>1. FoldDraft /\ p \notin Requests /\ p # Sweeper
      BY <1>1, <2>1, <2>5, LedgerAssumption DEF Fresh
    <3>. QED BY <1>1, <2>1, <2>5, <3>1 DEF FoldDraft, FoldedStatus
  <2>6. CASE p = Sweeper
    <3>1. SweepDraft /\ p \notin Requests /\ p # Worker
      BY <1>1, <2>1, <2>6, LedgerAssumption DEF Fresh
    <3>. QED BY <1>1, <2>1, <2>3, <2>6, <3>1 DEF SweepDraft
  <2>. QED BY <2>4, <2>5, <2>6 DEF Processes
<1>. QED BY <1>1, <1>2, <1>3 DEF Fresh

\* A process that proposes a status it computed from the ledger it has just read.
LEMMA ProposedDraft ==
    ASSUME TypeOK, NEW p \in Processes, NEW st, ReadLedger(p), Propose(p, st)
    PROVE  /\ draft'[p].rv = ledger'.rv /\ draft'[p].status = st
           /\ ledger'.status = ledger.status
           /\ \A q \in Processes \ {p} : pc'[q] = pc[q] /\ draft'[q] = draft[q]
<1>1. ledger'.status = ledger.status
  BY ReadLedgerFacts
<1>. QED BY <1>1 DEF TypeOK, Propose

\* What Reserve proposes is fresh: it was decided on the status just read
\* (accounting.go:33-49), with room for everything the clocks agree is live.
LEMMA GrantFresh ==
    ASSUME TypeOK, TypeOK', NEW r \in Requests, Grant(r)
    PROVE  Fresh(r)'
<1>1. PICK t \in Clock :
        /\ ~Reserved(ledger.status, RequestKey(r), t)
        /\ Used(ledger.status, t) < lim[r]
        /\ Propose(r, Reserve(ledger.status, RequestKey(r), lim[r], t))
  BY DEF Grant
<1>2. /\ r \in Processes /\ r # Worker /\ r # Sweeper
      /\ t \in Nat /\ now \in Nat /\ now <= t /\ t <= now + MaxSkew /\ t <= MaxTime + MaxSkew
      /\ lim[r] \in Nat /\ ledger.status \in Statuses /\ ledger.status.confirmed \in Nat
  <2>1. r \in Processes /\ r # Worker /\ r # Sweeper
    BY LedgerAssumption DEF Processes
  <2>2. now \in 0 .. MaxTime /\ lim[r] \in Nat /\ ledger.status \in Statuses
    BY DEF TypeOK
  <2>3. ledger.status.confirmed \in Nat
    BY <2>2 DEF Statuses
  <2>4. t \in Nat /\ now \in Nat /\ now <= t /\ t <= now + MaxSkew /\ t <= MaxTime + MaxSkew
    BY <2>2, LedgerAssumption DEF Clock
  <2>. QED BY <2>1, <2>2, <2>3, <2>4
<1>3. Reserve(ledger.status, RequestKey(r), lim[r], t) = WithReservation(ledger.status, RequestKey(r), t)
  <2>1. Used(ledger.status, t) \in Nat
    BY <1>2, FirmFacts DEF Used
  <2>. QED BY <1>1, <1>2, <2>1 DEF Reserve
<1>. DEFINE v == [key |-> RequestKey(r), expiresAt |-> Stored(t + TTL)]
<1>4. /\ v \in [key : {RequestKey(r)}, expiresAt : Times]
      /\ now + TTL < v.expiresAt + Second
  <2>1. /\ Stored(t + TTL) \in Nat /\ Stored(t + TTL) <= t + TTL
        /\ t + TTL < Stored(t + TTL) + Second
    BY <1>2, StoredBounds, AccountingAssumption
  <2>2. Stored(t + TTL) \in Times
    BY <1>2, <2>1, LedgerAssumption, AccountingAssumption DEF Times
  <2>. QED BY <1>2, <2>1, <2>2, AccountingAssumption
<1>5. WithReservation(ledger.status, RequestKey(r), t)
        = [confirmed |-> ledger.status.confirmed, reservations |-> ledger.status.reservations \cup {v}]
  BY <1>2 DEF WithReservation, Statuses
<1>6. ledger.status.confirmed + Cardinality(Live(ledger.status, now + MaxSkew)) < lim[r]
  <2>1. now + MaxSkew \in Nat
    BY <1>2, LedgerAssumption
  <2>2. /\ Cardinality(Live(ledger.status, now + MaxSkew)) \in Nat
        /\ Cardinality(Live(ledger.status, t)) \in Nat
        /\ Cardinality(Live(ledger.status, now + MaxSkew)) <= Cardinality(Live(ledger.status, t))
    BY <1>2, <2>1, FirmFacts
  <2>. QED BY <1>1, <1>2, <2>2 DEF Used
<1>7. /\ now' = now /\ lim' = lim /\ since'[r] = now
      /\ draft'[r].rv = ledger'.rv /\ ledger'.status = ledger.status
      /\ draft'[r].status = WithReservation(ledger.status, RequestKey(r), t)
  <2>1. ReadLedger(r) /\ now' = now /\ lim' = lim /\ since' = [since EXCEPT ![r] = now]
    BY DEF Grant, envVars
  <2>2. since'[r] = now
    BY <2>1 DEF TypeOK
  <2>. QED BY <1>1, <1>2, <1>3, <2>1, <2>2, ProposedDraft
<1>8. GrantDraft(r)'
  <2>. HIDE DEF v
  <2>. QED BY <1>4, <1>5, <1>6, <1>7 DEF GrantDraft, FirmReservations
<1>9. draft'[r].rv <= ledger'.rv
  BY <1>7 DEF TypeOK
<1>. QED BY <1>2, <1>8, <1>9 DEF Fresh

\* The step that keeps drafts fresh: a write makes every other draft stale, and
\* only a process that has just read the ledger gets a new one.
LEMMA NextDraftFresh == TypeOK /\ TypeOK' /\ DraftFresh /\ [Next]_vars => DraftFresh'
<1>. SUFFICES ASSUME TypeOK, TypeOK', DraftFresh, [Next]_vars, NEW p \in Processes
              PROVE  Fresh(p)'
  BY DEF DraftFresh
<1>0. /\ Fresh(p)
      /\ ledger.rv \in Nat /\ now \in Nat /\ draft[p].rv \in Nat
      /\ pc \in [Processes -> RequestPC]
      /\ Worker \in Processes /\ Sweeper \in Processes /\ Requests \subseteq Processes
      /\ Worker \notin Requests /\ Sweeper \notin Requests /\ Worker # Sweeper
  BY LedgerAssumption DEF DraftFresh, TypeOK, Processes
<1>1. ASSUME NEW r \in Requests, Grant(r) PROVE Fresh(p)'
  <2>1. CASE p = r
    BY <1>1, <2>1, GrantFresh
  <2>2. CASE p # r
    <3>1. PICK st : ReadLedger(r) /\ Propose(r, st)
      BY <1>1 DEF Grant
    <3>2. /\ pc'[p] = pc[p] /\ draft'[p] = draft[p]
          /\ ledger'.rv >= ledger.rv /\ ledger'.status = ledger.status
      BY <1>0, <2>2, <3>1, ProposedDraft, ReadLedgerFacts
    <3>3. /\ now' = now /\ lim' = lim /\ work' = work
          /\ p \in Requests => since'[p] = since[p]
      BY <1>1, <2>2 DEF Grant, envVars, TypeOK
    <3>. QED BY <1>0, <3>2, <3>3, StableDraft
  <2>. QED BY <2>1, <2>2
<1>2. ASSUME NEW r \in Requests, AdmitAgain(r) \/ Deny(r) PROVE Fresh(p)'
  <2>1. ledger'.rv >= ledger.rv /\ ledger'.status = ledger.status
    BY <1>0, <1>2, ReadLedgerFacts DEF AdmitAgain, Deny
  <2>2. /\ pc'[p] = "write" => pc[p] = "write" /\ p # r
        /\ draft' = draft
        /\ now' = now /\ lim' = lim /\ work' = work
        /\ p # r /\ p \in Requests => since'[p] = since[p]
    BY <1>0, <1>2 DEF AdmitAgain, Deny, envVars, requestVars, TypeOK
  <2>3. CASE pc'[p] = "write"
    BY <1>0, <2>1, <2>2, <2>3, StableDraft
  <2>. QED BY <2>3 DEF Fresh
<1>3. ASSUME NEW q \in Processes, Land(q), pc'[q] # "write", UNCHANGED <<now, lim, since>>,
             \A s \in Processes \ {q} : pc'[s] = pc[s], q # Worker => work' = work
      PROVE  Fresh(p)'
  <2>1. ledger'.rv > ledger.rv /\ ledger'.rv >= ledger.rv
    BY <1>0, <1>3 DEF Land
  <2>2. CASE p = q
    BY <1>3, <2>2 DEF Fresh
  <2>3. CASE p # q
    <3>1. pc'[p] = pc[p] /\ draft'[p] = draft[p]
      BY <1>3, <2>3 DEF Land, TypeOK
    <3>2. CASE pc[p] = "write"
      <4>1. draft'[p].rv <= ledger.rv
        BY <1>0, <3>1, <3>2 DEF Fresh
      <4>2. draft'[p].rv < ledger'.rv /\ draft'[p].rv \in Nat /\ ledger'.rv \in Nat
        BY <1>0, <2>1, <3>1, <4>1 DEF TypeOK
      <4>. QED BY <4>2 DEF Fresh
    <3>. QED BY <3>1, <3>2 DEF Fresh
  <2>. QED BY <2>2, <2>3
<1>4. ASSUME NEW q \in Processes, Write(q) PROVE Fresh(p)'
  <2>1. /\ pc'[q] # "write" /\ \A s \in Processes \ {q} : pc'[s] = pc[s]
    BY <1>0, <1>4 DEF Write
  <2>. QED BY <1>3, <1>4, <2>1 DEF Write, requestVars, envVars
<1>5. ASSUME NEW q \in Processes, LoseReply(q) PROVE Fresh(p)'
  <2>1. /\ pc'[q] # "write" /\ \A s \in Processes \ {q} : pc'[s] = pc[s]
    BY <1>0, <1>5 DEF LoseReply, Failed
  <2>. QED BY <1>3, <1>5, <2>1 DEF LoseReply, Failed, requestVars
<1>6. CASE Fold
  <2>1. /\ ReadLedger(Worker) /\ Propose(Worker, FoldedStatus)
        /\ work' = work /\ now' = now /\ lim' = lim /\ since' = since
    BY <1>6 DEF Fold, requestVars, envVars
  <2>2. /\ draft'[Worker].rv = ledger'.rv /\ draft'[Worker].status = FoldedStatus
        /\ ledger'.status = ledger.status
        /\ p # Worker => pc'[p] = pc[p] /\ draft'[p] = draft[p]
    BY <1>0, <2>1, ProposedDraft
  <2>3. CASE p = Worker
    <3>1. FoldDraft'
      BY <2>1, <2>2 DEF FoldDraft, FoldedStatus
    <3>2. draft'[Worker].rv <= ledger'.rv
      BY <2>2 DEF TypeOK
    <3>. QED BY <1>0, <2>3, <3>1, <3>2 DEF Fresh
  <2>4. CASE p # Worker
    <3>1. ledger'.rv >= ledger.rv
      BY <1>0, <2>1, ReadLedgerFacts
    <3>. QED BY <1>0, <2>1, <2>2, <2>4, <3>1, StableDraft
  <2>. QED BY <2>3, <2>4
<1>7. CASE FoldUnchanged
  <2>1. ledger'.rv >= ledger.rv /\ ledger'.status = ledger.status
    BY <1>0, <1>7, ReadLedgerFacts DEF FoldUnchanged
  <2>2. /\ pc'[p] = "write" => pc[p] = "write" /\ p # Worker
        /\ draft' = draft /\ now' = now /\ lim' = lim /\ since' = since
    BY <1>0, <1>7 DEF FoldUnchanged, envVars, requestVars
  <2>3. CASE pc'[p] = "write"
    BY <1>0, <2>1, <2>2, <2>3, StableDraft
  <2>. QED BY <2>3 DEF Fresh
<1>8. CASE SweepExpired
  <2>1. PICK t \in Clock : Propose(Sweeper, Sweep(ledger.status, t))
    BY <1>8 DEF SweepExpired
  <2>2. ReadLedger(Sweeper) /\ work' = work /\ now' = now /\ lim' = lim /\ since' = since
    BY <1>8 DEF SweepExpired, requestVars, envVars
  <2>3. /\ draft'[Sweeper].rv = ledger'.rv /\ draft'[Sweeper].status = Sweep(ledger.status, t)
        /\ ledger'.status = ledger.status
        /\ p # Sweeper => pc'[p] = pc[p] /\ draft'[p] = draft[p]
    BY <1>0, <2>1, <2>2, ProposedDraft
  <2>4. CASE p = Sweeper
    <3>1. t \in Nat /\ now + MaxSkew \in Nat /\ t <= now + MaxSkew /\ ledger.status \in Statuses
      <4>1. ledger.status \in Statuses
        BY DEF TypeOK
      <4>. QED BY <1>0, <4>1, LedgerAssumption DEF Clock
    <3>2. Live(ledger.status, now + MaxSkew) \subseteq Live(ledger.status, t)
      BY <3>1, FirmFacts
    <3>3. /\ Sweep(ledger.status, t).confirmed = ledger.status.confirmed
          /\ Sweep(ledger.status, t).reservations = Live(ledger.status, t)
      BY <3>1 DEF Sweep, Statuses
    <3>4. Live(ledger.status, t) \subseteq ledger.status.reservations
      BY DEF Live
    <3>5. SweepDraft'
      BY <2>2, <2>3, <3>2, <3>3, <3>4 DEF SweepDraft, FirmReservations
    <3>6. draft'[Sweeper].rv <= ledger'.rv
      BY <2>3 DEF TypeOK
    <3>. QED BY <1>0, <2>4, <3>5, <3>6 DEF Fresh
  <2>5. CASE p # Sweeper
    <3>1. ledger'.rv >= ledger.rv
      BY <1>0, <2>2, ReadLedgerFacts
    <3>. QED BY <1>0, <2>2, <2>3, <2>5, <3>1, StableDraft
  <2>. QED BY <2>4, <2>5
<1>9. CASE SweepUnchanged
  <2>1. ledger'.rv >= ledger.rv /\ ledger'.status = ledger.status
    BY <1>0, <1>9, ReadLedgerFacts DEF SweepUnchanged
  <2>2. /\ pc'[p] = "write" => pc[p] = "write" /\ p # Sweeper
        /\ draft' = draft /\ now' = now /\ lim' = lim /\ since' = since /\ work' = work
    BY <1>0, <1>9 DEF SweepUnchanged, envVars, requestVars
  <2>. QED BY <1>0, <2>1, <2>2, StableDraft
<1>10. ASSUME UNCHANGED <<ledger, since>>, now' >= now,
              pc'[p] = "write" => /\ pc[p] = "write" /\ draft'[p] = draft[p]
                                  /\ p \in Requests => lim'[p] = lim[p]
                                  /\ p = Worker => work' = work
       PROVE  Fresh(p)'
  <2>1. CASE pc'[p] = "write"
    <3>1. ledger'.rv >= ledger.rv
      BY <1>0, <1>10
    <3>. QED BY <1>0, <1>10, <2>1, <3>1, StableDraft
  <2>. QED BY <2>1 DEF Fresh
<1>11. ASSUME NEW r \in Requests, Handle(r) PROVE Fresh(p)'
  BY <1>0, <1>10, <1>11 DEF Handle, clusterVars, informerVars, envVars, TypeOK
<1>12. ASSUME NEW r \in Requests, RejectUnsynced(r) \/ Persist(r) \/ FailDownstream(r) \/ Delete(r)
       PROVE  Fresh(p)'
  BY <1>0, <1>10, <1>12
  DEF RejectUnsynced, Persist, FailDownstream, Delete, requestVars, clusterVars, informerVars, envVars
<1>13. ASSUME NEW q \in Processes, GetMissing(q) \/ CreateExists(q) \/ Conflict(q) PROVE Fresh(p)'
  <2>1. UNCHANGED <<ledger, now, lim, since, work>>
    BY <1>13 DEF GetMissing, CreateExists, Conflict, requestVars, envVars
  <2>2. \E a \in {"create", "get"} : pc' = [pc EXCEPT ![q] = a]
    BY <1>13 DEF GetMissing, CreateExists, Conflict
  <2>3. pc'[q] # "write" /\ (p # q => pc'[p] = pc[p])
    BY <1>0, <2>2
  <2>4. p # q => draft'[p] = draft[p]
    <3>1. draft' = draft \/ draft' = [draft EXCEPT ![q] = NoDraft]
      BY <1>13 DEF GetMissing, CreateExists, Conflict
    <3>. QED BY <3>1 DEF TypeOK
  <2>5. now' >= now
    BY <1>0, <2>1
  <2>. QED BY <1>10, <2>1, <2>3, <2>4, <2>5
<1>14. ASSUME NEW q \in Processes, GiveUp(q) PROVE Fresh(p)'
  BY <1>0, <1>10, <1>14 DEF GiveUp, Failed, requestVars, clusterVars, TypeOK
<1>15. CASE StartReconcile \/ SweepTick
  BY <1>0, <1>10, <1>15
  DEF StartReconcile, SweepTick, requestVars, clusterVars, informerVars, envVars
<1>16. CASE Deliver \/ Restart
  BY <1>0, <1>10, <1>16 DEF Deliver, Restart, requestVars, clusterVars, envVars
<1>17. CASE Crash
  BY <1>0, <1>10, <1>17 DEF Crash, requestVars, TypeOK
<1>18. CASE Tick
  BY <1>0, <1>10, <1>18 DEF Tick, requestVars, clusterVars, informerVars
<1>19. CASE UNCHANGED vars
  BY <1>0, <1>10, <1>19 DEF vars
<1>. QED
  BY <1>1, <1>2, <1>4, <1>5, <1>6, <1>7, <1>8, <1>9, <1>11, <1>12, <1>13, <1>14, <1>15, <1>16,
     <1>17, <1>18, <1>19
  DEF Next, Request, CAS, Reconcile, SweepAll

\* Compare and swap, for any number of requests, clocks, faults and crashes: no
\* process is ever in a position to overwrite an update it has not read.
THEOREM NoLostUpdate == Spec => []DraftFresh
<1>1. Init => DraftFresh
  BY DEF Init, DraftFresh, Fresh
<1>2. TypeOK /\ TypeOK' /\ DraftFresh /\ [Next]_vars => DraftFresh'
  BY NextDraftFresh
<1>. QED BY <1>1, <1>2, TypeCorrect, PTL DEF Spec
-----------------------------------------------------------------------------
(* How the stored status may change.                                          *)

Lands(q) == Write(q) \/ LoseReply(q)
Landing  == \E q \in Processes : Lands(q)

\* A landing write replaces the status whether or not its answer arrives.
LEMMA LandsLand ==
    ASSUME NEW q, Lands(q)
    PROVE  Land(q)
BY DEF Lands, Write, LoseReply

\* What a landing write leaves to the processes: the writer's call is over, and the
\* others stay where they are, with the drafts they have.
LEMMA LandsElsewhere ==
    ASSUME pc \in [Processes -> RequestPC],
           draft \in [Processes -> [rv : Nat, status : Statuses]],
           NEW q \in Processes, Lands(q)
    PROVE  /\ ledger'.rv = ledger.rv + 1 /\ pc'[q] # "write"
           /\ \A s \in Processes \ {q} : pc'[s] = pc[s] /\ draft'[s] = draft[s]
<1>1. /\ ledger' = [exists |-> TRUE, rv |-> ledger.rv + 1, status |-> draft[q].status]
      /\ draft' = [draft EXCEPT ![q] = NoDraft]
  BY LandsLand DEF Land
<1>2. \E a \in {"allowed", "rejected", "idle"} : pc' = [pc EXCEPT ![q] = a]
  <2>1. CASE Write(q)
    BY <2>1 DEF Write
  <2>2. CASE LoseReply(q)
    BY <2>2 DEF LoseReply, Failed
  <2>. QED BY <2>1, <2>2 DEF Lands
<1>3. \A s \in Processes \ {q} : draft'[s] = draft[s]
  BY <1>1
<1>4. pc'[q] # "write" /\ \A s \in Processes \ {q} : pc'[s] = pc[s]
  BY <1>2
<1>5. ledger'.rv = ledger.rv + 1
  BY <1>1
<1>. QED BY <1>3, <1>4, <1>5

\* Only a write that lands changes the status or what it stands for; the one
\* other step of folded is a reconcile that finds the status already right.
LEMMA StatusChange ==
    ASSUME TypeOK, [Next]_vars, ~Landing
    PROVE  /\ ledger'.status = ledger.status
           /\ folded' = folded \/ (FoldUnchanged /\ folded' = work.list /\ FoldedStatus = ledger.status)
<1>0. Worker \in Processes /\ Sweeper \in Processes /\ Requests \subseteq Processes
  BY DEF Processes
<1>1. ASSUME NEW r \in Requests, Grant(r) \/ AdmitAgain(r) \/ Deny(r)
      PROVE  ledger'.status = ledger.status /\ folded' = folded
  BY <1>0, <1>1, ReadLedgerFacts DEF Grant, AdmitAgain, Deny
<1>2. CASE Fold \/ SweepExpired \/ SweepUnchanged
  BY <1>0, <1>2, ReadLedgerFacts DEF Fold, SweepExpired, SweepUnchanged
<1>3. CASE FoldUnchanged
  BY <1>0, <1>3, ReadLedgerFacts DEF FoldUnchanged
<1>4. ASSUME NEW r \in Requests,
             Handle(r) \/ RejectUnsynced(r) \/ Persist(r) \/ FailDownstream(r) \/ Delete(r)
      PROVE  ledger' = ledger /\ folded' = folded
  BY <1>4 DEF Handle, RejectUnsynced, Persist, FailDownstream, Delete
<1>5. ASSUME NEW q \in Processes, GetMissing(q) \/ CreateExists(q) \/ Conflict(q) \/ GiveUp(q)
      PROVE  ledger' = ledger /\ folded' = folded
  BY <1>5 DEF GetMissing, CreateExists, Conflict, GiveUp
<1>6. ASSUME NEW q \in Processes, Write(q) \/ LoseReply(q) PROVE FALSE
  BY <1>6 DEF Lands, Landing
<1>7. CASE StartReconcile \/ SweepTick \/ Deliver \/ Crash \/ Restart \/ Tick
  BY <1>7 DEF StartReconcile, SweepTick, Deliver, Crash, Restart, Tick
<1>8. CASE UNCHANGED vars
  BY <1>8 DEF vars
<1>. QED
  BY <1>1, <1>2, <1>3, <1>4, <1>5, <1>6, <1>7, <1>8 DEF Next, Request, CAS, Reconcile, SweepAll

\* What the status is after a write has landed.
LEMMA LandedStatus ==
    ASSUME TypeOK, DraftFresh, NEW q \in Processes, Lands(q)
    PROVE  /\ ledger'.status = draft[q].status
           /\ q \in Requests => GrantDraft(q) /\ folded' = folded
           /\ q = Worker => FoldDraft /\ folded' = work.list
           /\ q = Sweeper => SweepDraft /\ folded' = folded
<1>1. Worker \notin Requests /\ Sweeper \notin Requests /\ Worker # Sweeper
  BY LedgerAssumption
<1>2. Fresh(q) /\ pc[q] = "write" /\ draft[q].rv = ledger.rv
  BY LandsLand DEF Land, DraftFresh
<1>. QED BY <1>1, <1>2, LandsLand DEF Land, Fresh

\* What a landed write does to each part of the status: only the worker's
\* changes confirmed, a grant drops nothing, a fold drops the listed keys.
LEMMA LandedParts ==
    ASSUME TypeOK, DraftFresh, NEW q \in Processes, Lands(q)
    PROVE  /\ q # Worker => ledger'.status.confirmed = ledger.status.confirmed
           /\ q = Worker => ledger'.status.confirmed = Cardinality(work.list)
           /\ q \in Requests => ledger.status.reservations \subseteq ledger'.status.reservations
           /\ q = Worker => ledger'.status.reservations
                             = {v \in ledger.status.reservations : v.key \notin KeysOf(work.list)}
<1>1. CASE q \in Requests
  <2>1. PICK v : ledger'.status = [confirmed |-> ledger.status.confirmed,
                                   reservations |-> ledger.status.reservations \cup {v}]
    BY <1>1, LandedStatus DEF GrantDraft
  <2>. QED BY <1>1, <2>1, LedgerAssumption
<1>2. CASE q = Worker
  <2>1. ledger'.status = FoldedStatus
    BY <1>2, LandedStatus DEF FoldDraft
  <2>. QED BY <1>2, <2>1, LedgerAssumption DEF FoldedStatus, FoldConfirmed
<1>3. CASE q = Sweeper
  BY <1>3, LandedStatus, LedgerAssumption DEF SweepDraft
<1>. QED BY <1>1, <1>2, <1>3 DEF Processes

\* No step separates confirmed from the set of objects it counts.
LEMMA NextConfirmedIsCount ==
    TypeOK /\ DraftFresh /\ ConfirmedIsCount /\ [Next]_vars => ConfirmedIsCount'
<1>. SUFFICES ASSUME TypeOK, DraftFresh, ConfirmedIsCount, [Next]_vars PROVE ConfirmedIsCount'
  OBVIOUS
<1>1. CASE ~Landing
  BY <1>1, StatusChange DEF ConfirmedIsCount, FoldedStatus, FoldConfirmed
<1>2. ASSUME NEW q \in Processes, Lands(q) PROVE ConfirmedIsCount'
  <2>1. CASE q = Worker
    BY <1>2, <2>1, LandedStatus, LandedParts DEF ConfirmedIsCount
  <2>2. CASE q # Worker
    BY <1>2, <2>2, LandedStatus, LandedParts DEF ConfirmedIsCount, Processes
  <2>. QED BY <2>1, <2>2
<1>. QED BY <1>1, <1>2 DEF Landing

\* confirmed always counts exactly the objects of the worker's last recount:
\* neither the webhook nor the sweeper ever disturbs it (ADR-001).
THEOREM ConfirmedCorrect == Spec => []ConfirmedIsCount
<1>1. Init => ConfirmedIsCount
  BY FS_EmptySet DEF Init, ConfirmedIsCount, NoUsage
<1>. QED BY <1>1, NextConfirmedIsCount, TypeCorrect, NoLostUpdate, PTL DEF Spec

\* A reservation leaves the ledger expired or fulfilled, and in no other way,
\* however the writers interleave (FoldConfirmed and Sweep under Store.Apply).
THEOREM ReservationFates == Spec => TwoFates
<1>. DEFINE Fates == \A v \in ledger.status.reservations \ ledger'.status.reservations :
                       v.expiresAt <= now + MaxSkew \/ v.key \in KeysOf(folded')
<1>1. TypeOK /\ DraftFresh /\ [Next]_vars => [Fates]_vars
  <2>. SUFFICES ASSUME TypeOK, DraftFresh, [Next]_vars,
                       NEW v \in ledger.status.reservations, v \notin ledger'.status.reservations
                PROVE  v.expiresAt <= now + MaxSkew \/ v.key \in KeysOf(folded')
    OBVIOUS
  <2>1. Landing
    BY StatusChange
  <2>2. PICK q \in Processes : Lands(q)
    BY <2>1 DEF Landing
  <2>3. CASE q \in Requests
    BY <2>2, <2>3, LandedParts
  <2>4. CASE q = Worker
    BY <2>2, <2>4, LandedStatus, LandedParts
  <2>5. CASE q = Sweeper
    <3>1. v \notin FirmReservations
      BY <2>2, <2>5, LandedStatus DEF SweepDraft
    <3>2. v.expiresAt \in Nat /\ now + MaxSkew \in Nat
      BY LedgerAssumption, AccountingAssumption DEF TypeOK, Statuses, Times
    <3>. QED BY <3>1, <3>2 DEF FirmReservations, Live
  <2>. QED BY <2>3, <2>4, <2>5 DEF Processes
<1>. QED BY <1>1, TypeCorrect, NoLostUpdate, PTL DEF Spec, TwoFates

\* A slot is granted within the limit its request read (accounting.go:31-49), by what the
\* ledger counts when the write lands, whatever names are used and however short the TTL.
THEOREM SlotsWithinLimit == Spec => SlotWithinLimit
<1>. DEFINE Within == \A v \in ledger'.status.reservations \ ledger.status.reservations :
                        \E r \in Requests :
                          /\ v.key = RequestKey(r) /\ pc[r] = "write"
                          /\ ledger'.status.confirmed + Cardinality(FirmReservations') <= lim[r]
<1>1. TypeOK /\ TypeOK' /\ DraftFresh /\ [Next]_vars => [Within]_vars
  <2>. SUFFICES ASSUME TypeOK, TypeOK', DraftFresh, [Next]_vars,
                       NEW v \in ledger'.status.reservations, v \notin ledger.status.reservations
                PROVE  \E r \in Requests :
                         /\ v.key = RequestKey(r) /\ pc[r] = "write"
                         /\ ledger'.status.confirmed + Cardinality(FirmReservations') <= lim[r]
    OBVIOUS
  <2>1. PICK q \in Processes : Lands(q)
    BY StatusChange DEF Landing
  <2>2. q \in Requests
    <3>1. q # Worker
      BY <2>1, LandedParts
    <3>2. q # Sweeper
      BY <2>1, LandedStatus DEF SweepDraft
    <3>. QED BY <3>1, <3>2 DEF Processes
  <2>3. PICK w \in [key : {RequestKey(q)}, expiresAt : Times] :
          ledger'.status = [confirmed |-> ledger.status.confirmed,
                            reservations |-> ledger.status.reservations \cup {w}]
    BY <2>1, <2>2, LandedStatus DEF GrantDraft
  <2>4. /\ pc[q] = "write" /\ now' = now /\ lim[q] \in Nat
        /\ ledger.status.confirmed + Cardinality(FirmReservations) < lim[q]
    BY <2>1, <2>2, LandedStatus DEF GrantDraft, Lands, Write, LoseReply, Land, Failed, envVars, TypeOK
  <2>5. FirmReservations' \subseteq FirmReservations \cup {w}
    BY <2>3, <2>4 DEF FirmReservations, Live
  <2>6. /\ IsFiniteSet(FirmReservations) /\ Cardinality(FirmReservations) \in Nat
        /\ ledger.status.confirmed \in Nat
    <3>1. ledger.status \in Statuses
      BY DEF TypeOK
    <3>. QED
      BY <3>1, FiniteReservations, FS_Subset, FS_CardinalityType DEF FirmReservations, Live, Statuses
  <2>7. /\ IsFiniteSet(FirmReservations \cup {w})
        /\ Cardinality(FirmReservations \cup {w}) <= Cardinality(FirmReservations) + 1
    BY <2>6, AddedOne
  <2>8. /\ Cardinality(FirmReservations') <= Cardinality(FirmReservations \cup {w})
        /\ Cardinality(FirmReservations') \in Nat
        /\ Cardinality(FirmReservations \cup {w}) \in Nat
    BY <2>5, <2>7, FS_Subset, FS_CardinalityType
  <2>9. ledger'.status.confirmed + Cardinality(FirmReservations') <= lim[q]
    <3>1. ledger'.status.confirmed = ledger.status.confirmed
      BY <2>3
    <3>. QED BY <2>4, <2>6, <2>7, <2>8, <3>1
  <2>10. v.key = RequestKey(q)
    BY <2>3
  <2>. QED BY <2>2, <2>4, <2>9, <2>10
<1>. QED BY <1>1, TypeCorrect, NoLostUpdate, PTL DEF Spec, SlotWithinLimit
-----------------------------------------------------------------------------
(* What the watch and the single worker guarantee.                            *)

\* Announcing an event adds its object to what is on its way, and nothing else.
LEMMA NotifyAnnounces ==
    ASSUME TypeOK, NEW type, NEW o \in Requests, Notify(type, o), NEW t
    PROVE  Announced(t)' \subseteq Announced(t) \cup {x \in {o} : t = type}
<1>. DEFINE e == [type |-> type, object |-> o]
<1>1. events \in Seq([type : {"add", "delete"}, object : Requests])
  BY DEF TypeOK
<1>2. CASE events' = events
  BY <1>2 DEF Announced
<1>3. CASE events' = Append(events, e)
  <2>. SUFFICES ASSUME NEW x \in Requests, NEW i \in DOMAIN events',
                       events'[i] = [type |-> t, object |-> x]
                PROVE  x \in Announced(t) \/ (x = o /\ t = type)
    BY DEF Announced
  <2>1. /\ DOMAIN events = 1 .. Len(events) /\ Len(events) \in Nat
        /\ DOMAIN events' = 1 .. (Len(events) + 1)
        /\ \A j \in 1 .. Len(events) : events'[j] = events[j]
        /\ events'[Len(events) + 1] = e
    BY <1>1, <1>3
  <2>2. CASE i \in 1 .. Len(events)
    BY <2>1, <2>2 DEF Announced
  <2>3. CASE i = Len(events) + 1
    BY <2>1, <2>3
  <2>. QED BY <2>1, <2>2, <2>3
<1>. QED BY <1>2, <1>3 DEF Notify

\* Delivering an event takes only its own object off what is on its way.
LEMMA DeliverAnnounces ==
    ASSUME TypeOK, Deliver, NEW t
    PROVE  /\ Announced(t)' \subseteq Announced(t)
           /\ Head(events).type = t => Head(events).object \in Announced(t)
<1>1. events \in Seq([type : {"add", "delete"}, object : Requests]) /\ events # <<>>
  BY DEF TypeOK, Deliver
<1>2. /\ Head(events) = events[1] /\ 1 \in DOMAIN events
      /\ events[1] \in [type : {"add", "delete"}, object : Requests]
      /\ events' = Tail(events) /\ Len(events) \in Nat
      /\ DOMAIN events = 1 .. Len(events)
  <2>1. Len(events) \in Nat /\ DOMAIN events = 1 .. Len(events) /\ Len(events) # 0
    BY <1>1, EmptySeq, LenProperties
  <2>2. 1 \in DOMAIN events
    BY <2>1
  <2>3. events[1] \in [type : {"add", "delete"}, object : Requests]
    BY <1>1, <2>1, <2>2, ElementOfSeq
  <2>4. Head(events) = events[1] /\ events' = Tail(events)
    BY <1>1 DEF Deliver
  <2>. QED BY <2>1, <2>2, <2>3, <2>4
<1>3. /\ DOMAIN events' = 1 .. (Len(events) - 1)
      /\ \A i \in 1 .. (Len(events) - 1) : events'[i] = events[i + 1]
  BY <1>1, <1>2
<1>4. Announced(t)' \subseteq Announced(t)
  <2>. SUFFICES ASSUME NEW x \in Requests, NEW i \in DOMAIN events',
                       events'[i] = [type |-> t, object |-> x]
                PROVE  x \in Announced(t)
    BY DEF Announced
  <2>1. i + 1 \in DOMAIN events /\ events[i + 1] = [type |-> t, object |-> x]
    BY <1>2, <1>3
  <2>. QED BY <2>1 DEF Announced
<1>5. ASSUME Head(events).type = t PROVE Head(events).object \in Announced(t)
  <2>1. events[1] = [type |-> t, object |-> Head(events).object] /\ Head(events).object \in Requests
    BY <1>2, <1>5
  <2>. QED BY <1>2, <2>1 DEF Announced
<1>. QED BY <1>4, <1>5

\* Every step keeps the informer, the worker and the recounts in order.
LEMMA NextBookkeeping == TypeOK /\ Bookkeeping /\ [Next]_vars => Bookkeeping'
<1>. SUFFICES ASSUME TypeOK, Bookkeeping, [Next]_vars PROVE Bookkeeping'
  OBVIOUS
<1>0. /\ pc \in [Processes -> RequestPC] /\ lim \in [Requests -> Nat]
      /\ Worker \in Processes /\ Sweeper \in Processes /\ Requests \subseteq Processes
      /\ Worker \notin Requests /\ Sweeper \notin Requests /\ Worker # Sweeper
      /\ store \subseteq Requests /\ cache \subseteq Requests /\ folded \subseteq Requests
      /\ work.list \subseteq Requests
  BY LedgerAssumption DEF TypeOK, Processes
<1>a. UNCHANGED events => Announced("add")' = Announced("add") /\ Announced("delete")' = Announced("delete")
  BY DEF Announced
<1>1. ASSUME NEW r \in Requests, Handle(r) PROVE Bookkeeping'
  BY <1>0, <1>a, <1>1 DEF Handle, Bookkeeping, clusterVars, informerVars, envVars
<1>2. ASSUME NEW r \in Requests, RejectUnsynced(r) PROVE Bookkeeping'
  BY <1>0, <1>a, <1>2 DEF RejectUnsynced, Bookkeeping, requestVars, clusterVars, informerVars, envVars
<1>3. ASSUME NEW r \in Requests, Grant(r) PROVE Bookkeeping'
  BY <1>0, <1>a, <1>3 DEF Grant, ReadLedger, Propose, Bookkeeping, clusterVars, informerVars, envVars
<1>4. ASSUME NEW r \in Requests, AdmitAgain(r) \/ Deny(r) PROVE Bookkeeping'
  BY <1>0, <1>a, <1>4
  DEF AdmitAgain, Deny, ReadLedger, Bookkeeping, requestVars, clusterVars, informerVars, envVars
<1>5. ASSUME NEW r \in Requests, Persist(r) PROVE Bookkeeping'
  <2>1. /\ Announced("add")' \subseteq Announced("add") \cup {r}
        /\ Announced("delete")' \subseteq Announced("delete")
    BY <1>5, NotifyAnnounces DEF Persist
  <2>. QED
    BY <1>0, <1>5, <2>1 DEF Persist, Bookkeeping, requestVars, informerVars, envVars
<1>6. ASSUME NEW r \in Requests, FailDownstream(r) PROVE Bookkeeping'
  BY <1>0, <1>a, <1>6 DEF FailDownstream, Bookkeeping, requestVars, clusterVars, informerVars, envVars
<1>7. ASSUME NEW r \in Requests, Delete(r) PROVE Bookkeeping'
  <2>1. /\ Announced("add")' \subseteq Announced("add")
        /\ Announced("delete")' \subseteq Announced("delete") \cup {r}
    BY <1>7, NotifyAnnounces DEF Delete
  <2>. QED
    BY <1>0, <1>7, <2>1 DEF Delete, Bookkeeping, requestVars, informerVars, envVars
<1>8. ASSUME NEW q \in Processes, GetMissing(q) \/ CreateExists(q) \/ Conflict(q) PROVE Bookkeeping'
  BY <1>0, <1>a, <1>8
  DEF GetMissing, CreateExists, Conflict, Bookkeeping, requestVars, clusterVars, informerVars, envVars
<1>9. ASSUME NEW q \in Processes, GiveUp(q) PROVE Bookkeeping'
  BY <1>0, <1>a, <1>9 DEF GiveUp, Failed, Bookkeeping, requestVars, clusterVars, NoWork
<1>10. ASSUME NEW q \in Processes, Write(q) PROVE Bookkeeping'
  BY <1>0, <1>a, <1>10
  DEF Write, Land, Bookkeeping, requestVars, clusterVars, informerVars, envVars, NoWork
<1>11. ASSUME NEW q \in Processes, LoseReply(q) PROVE Bookkeeping'
  BY <1>0, <1>a, <1>11 DEF LoseReply, Land, Failed, Bookkeeping, requestVars, clusterVars, NoWork
<1>12. CASE StartReconcile
  BY <1>0, <1>a, <1>12 DEF StartReconcile, Bookkeeping, requestVars, clusterVars, envVars
<1>13. CASE Fold
  BY <1>0, <1>a, <1>13
  DEF Fold, ReadLedger, Propose, Bookkeeping, requestVars, clusterVars, informerVars, envVars
<1>14. CASE FoldUnchanged
  BY <1>0, <1>a, <1>14
  DEF FoldUnchanged, ReadLedger, Bookkeeping, requestVars, clusterVars, informerVars, envVars, NoWork
<1>15. CASE SweepTick
  BY <1>0, <1>a, <1>15 DEF SweepTick, Bookkeeping, requestVars, clusterVars, informerVars, envVars
<1>16. CASE SweepExpired
  BY <1>0, <1>a, <1>16
  DEF SweepExpired, ReadLedger, Propose, Bookkeeping, requestVars, clusterVars, informerVars, envVars
<1>17. CASE SweepUnchanged
  BY <1>0, <1>a, <1>17
  DEF SweepUnchanged, ReadLedger, Bookkeeping, requestVars, clusterVars, informerVars, envVars
<1>18. CASE Deliver
  <2>1. Announced("add")' \subseteq Announced("add") /\ Announced("delete")' \subseteq Announced("delete")
    BY <1>18, DeliverAnnounces
  <2>2. /\ Head(events).type \in {"add", "delete"}
        /\ Head(events).object \in Announced(Head(events).type)
    <3>1. events \in Seq([type : {"add", "delete"}, object : Requests]) /\ events # <<>>
      BY <1>18 DEF TypeOK, Deliver
    <3>2. Head(events) \in [type : {"add", "delete"}, object : Requests]
      BY <3>1, HeadTailProperties
    <3>. QED BY <1>18, <3>2, DeliverAnnounces
  <2>3. CASE Head(events).type = "add"
    BY <1>0, <1>18, <2>1, <2>2, <2>3 DEF Deliver, Bookkeeping, requestVars, envVars
  <2>4. CASE Head(events).type = "delete"
    <3>1. cache' = cache \ {Head(events).object}
      BY <1>18, <2>4 DEF Deliver
    <3>2. Head(events).object \notin store
      BY <2>2, <2>4 DEF Bookkeeping
    <3>. QED BY <1>0, <1>18, <2>1, <3>1, <3>2 DEF Deliver, Bookkeeping, requestVars, envVars
  <2>. QED BY <2>2, <2>3, <2>4
<1>19. CASE Crash
  <2>1. Announced("add")' = {} /\ Announced("delete")' = {}
    BY <1>19 DEF Crash, Announced
  <2>. QED BY <1>0, <1>19, <2>1 DEF Crash, Bookkeeping, requestVars, NoWork
<1>20. CASE Restart
  BY <1>0, <1>a, <1>20 DEF Restart, Bookkeeping, requestVars, clusterVars, NoWork
<1>21. CASE Tick
  BY <1>0, <1>a, <1>21 DEF Tick, Bookkeeping, requestVars, clusterVars, informerVars
<1>22. CASE UNCHANGED vars
  BY <1>a, <1>22 DEF vars, Bookkeeping
<1>. QED
  BY <1>1, <1>2, <1>3, <1>4, <1>5, <1>6, <1>7, <1>8, <1>9, <1>10, <1>11, <1>12, <1>13, <1>14,
     <1>15, <1>16, <1>17, <1>18, <1>19, <1>20, <1>21, <1>22
  DEF Next, Request, CAS, Reconcile, SweepAll

\* Recounts never go back in time, whatever names are used, and crashes included.
THEOREM BookkeepingCorrect == Spec => []Bookkeeping
<1>1. Init => Bookkeeping
  BY LedgerAssumption DEF Init, Bookkeeping, NoWork, Announced, Processes
<1>. QED BY <1>1, NextBookkeeping, TypeCorrect, PTL DEF Spec
-----------------------------------------------------------------------------
(* The strict promise.                                                        *)

Answered == {"allowed", "persisted", "rejected"}

\* What one step may do to one request.
LEMMA RequestStep ==
    ASSUME TypeOK, Bookkeeping, BoundedOutage, [Next]_vars, NEW r \in Requests
    PROVE  /\ pc[r] \in Answered => pc'[r] \in Answered /\ since'[r] = since[r]
           /\ r \in Charged' => r \in Charged \/ AdmitAgain(r) \/ (Lands(r) /\ since'[r] = since[r])
           /\ Pending(r)' => (Pending(r) /\ since'[r] = since[r]) \/ since'[r] = now \/ r \in folded \ folded'
<1>0. /\ pc \in [Processes -> RequestPC] /\ since \in [Requests -> 0 .. MaxTime]
      /\ Worker \in Processes /\ Sweeper \in Processes /\ Requests \subseteq Processes
      /\ Worker \notin Requests /\ Sweeper \notin Requests
  BY LedgerAssumption DEF TypeOK, Processes
<1>. USE DEF Charged, Pending, Answered
<1>1. ASSUME NEW s \in Requests, Handle(s) \/ RejectUnsynced(s)
      PROVE  /\ pc[r] \in Answered => pc'[r] \in Answered /\ since'[r] = since[r]
             /\ r \in Charged' => r \in Charged
             /\ Pending(r)' => Pending(r) /\ since'[r] = since[r]
  BY <1>0, <1>1 DEF Handle, RejectUnsynced, requestVars, clusterVars, envVars
<1>2. ASSUME NEW s \in Requests, Grant(s)
      PROVE  /\ pc[r] \in Answered => pc'[r] \in Answered /\ since'[r] = since[r]
             /\ r \in Charged' => r \in Charged
             /\ Pending(r)' => (Pending(r) /\ since'[r] = since[r]) \/ since'[r] = now
  BY <1>0, <1>2 DEF Grant, ReadLedger, Propose, clusterVars, envVars
<1>3. ASSUME NEW s \in Requests, AdmitAgain(s)
      PROVE  /\ pc[r] \in Answered => pc'[r] \in Answered /\ since'[r] = since[r]
             /\ r \in Charged' => r \in Charged \/ AdmitAgain(r)
             /\ Pending(r)' => (Pending(r) /\ since'[r] = since[r]) \/ since'[r] = now
  BY <1>0, <1>3 DEF AdmitAgain, ReadLedger, clusterVars, envVars
<1>4. ASSUME NEW s \in Requests, Deny(s) \/ Persist(s) \/ FailDownstream(s) \/ Delete(s)
      PROVE  /\ pc[r] \in Answered => pc'[r] \in Answered /\ since'[r] = since[r]
             /\ r \in Charged' => r \in Charged
             /\ Pending(r)' => Pending(r) /\ since'[r] = since[r]
  BY <1>0, <1>4
  DEF Deny, ReadLedger, Persist, FailDownstream, Delete, requestVars, clusterVars, envVars
<1>5. ASSUME NEW q \in Processes, GetMissing(q) \/ CreateExists(q) \/ Conflict(q) \/ GiveUp(q)
      PROVE  /\ pc[r] \in Answered => pc'[r] \in Answered /\ since'[r] = since[r]
             /\ r \in Charged' => r \in Charged
             /\ Pending(r)' => Pending(r) /\ since'[r] = since[r]
  BY <1>0, <1>5
  DEF GetMissing, CreateExists, Conflict, GiveUp, Failed, requestVars, clusterVars, envVars
<1>6. ASSUME NEW q \in Processes, Write(q) \/ LoseReply(q)
      PROVE  /\ pc[r] \in Answered => pc'[r] \in Answered /\ since'[r] = since[r]
             /\ r \in Charged' => r \in Charged \/ (Lands(r) /\ since'[r] = since[r])
             /\ Pending(r)' => (Pending(r) /\ since'[r] = since[r]) \/ r \in folded \ folded'
  <2>1. Lands(q) /\ store' = store /\ since' = since
    BY <1>6 DEF Lands, Write, LoseReply, Failed, requestVars, clusterVars
  <2>2. pc' = [pc EXCEPT ![q] = pc'[q]] /\ pc[q] = "write"
    BY <1>0, <1>6 DEF Write, LoseReply, Land, Failed
  <2>3. pc'[q] \in {"allowed", "rejected", "idle"}
    BY <1>0, <1>6 DEF Write, LoseReply, Failed
  <2>. QED BY <1>0, <2>1, <2>2, <2>3
<1>7. CASE StartReconcile \/ Fold \/ SweepTick \/ SweepExpired \/ SweepUnchanged
  BY <1>0, <1>7
  DEF StartReconcile, Fold, SweepTick, SweepExpired, SweepUnchanged, Propose, ReadLedger,
      requestVars, clusterVars, envVars
<1>8. CASE FoldUnchanged
  BY <1>0, <1>8 DEF FoldUnchanged, ReadLedger, requestVars, clusterVars, envVars
<1>9. CASE Deliver \/ Crash \/ Restart \/ Tick
  BY <1>0, <1>9 DEF Deliver, Crash, Restart, Tick, requestVars, clusterVars, envVars
<1>10. CASE UNCHANGED vars
  BY <1>10 DEF vars
<1>. QED
  BY <1>1, <1>2, <1>3, <1>4, <1>5, <1>6, <1>7, <1>8, <1>9, <1>10
  DEF Next, Request, CAS, Reconcile, SweepAll

\* The clock only moves when no latency is used up.
LEMMA ClockStep ==
    ASSUME [Next]_vars
    PROVE  now' = now \/ (Tick /\ now' = now + 1)
BY DEF Next, Request, CAS, Reconcile, SweepAll, vars, Handle, RejectUnsynced, Grant, AdmitAgain,
       Deny, Persist, FailDownstream, Delete, GetMissing, CreateExists, Write, Conflict, GiveUp,
       LoseReply, Failed, StartReconcile, Fold, FoldUnchanged, SweepTick, SweepExpired,
       SweepUnchanged, Deliver, Crash, Restart, Tick, envVars

\* A reservation that outlives the admit -> observe latency of its request is
\* one that every clock still takes for live: this is what the TTL is for.
LEMMA HeldIsFirm ==
    ASSUME TypeOK, StrictInv, StrictHypotheses, NEW r \in Charged, r \notin folded,
           NEW v \in ledger.status.reservations, since[r] + TTL < v.expiresAt + Second
    PROVE  v \in FirmReservations
<1>1. r \in Requests /\ Pending(r)
  BY DEF Charged, Pending, StrictHypotheses, TypeOK
<1>2. now <= since[r] + MaxLatency
  BY <1>1 DEF StrictInv
<1>3. now \in Nat /\ since[r] \in Nat /\ v.expiresAt \in Nat
  <2>1. ledger.status \in Statuses /\ now \in 0 .. MaxTime /\ since[r] \in 0 .. MaxTime
    BY <1>1 DEF TypeOK
  <2>. QED BY <2>1, LedgerAssumption, AccountingAssumption DEF Statuses, Times
<1>4. v.expiresAt > now + MaxSkew
  BY <1>2, <1>3, LedgerAssumption, AccountingAssumption DEF StrictHypotheses, TTLCovers
<1>. QED BY <1>4 DEF FirmReservations, Live

\* The inductive invariant implies the hand-off property.
LEMMA StrictImpliesCovered == TypeOK /\ StrictInv /\ StrictHypotheses => Covered
<1>. SUFFICES ASSUME TypeOK, StrictInv, StrictHypotheses, NEW r \in Charged, r \notin folded
              PROVE  \E v \in FirmReservations : v.key = RequestKey(r)
  BY DEF Covered
<1>1. PICK v \in ledger.status.reservations :
        v.key = RequestKey(r) /\ since[r] + TTL < v.expiresAt + Second
  BY DEF StrictInv
<1>. QED BY <1>1, HeldIsFirm

\* Distinct charged objects are counted by distinct things.
LEMMA ChargedCounted ==
    ASSUME TypeOK, Covered, DistinctKeys
    PROVE  /\ IsFiniteSet(Charged)
           /\ Cardinality(Charged) <= Cardinality(folded) + Cardinality(FirmReservations)
<1>1. /\ IsFiniteSet(Charged) /\ IsFiniteSet(folded) /\ Charged \subseteq Requests
  BY FS_Subset, LedgerAssumption DEF Charged, TypeOK
<1>2. IsFiniteSet(FirmReservations)
  BY FiniteReservations, FS_Subset DEF FirmReservations, Live, TypeOK
<1>. DEFINE S == Charged \ folded
            f == [r \in S |-> CHOOSE v \in FirmReservations : v.key = RequestKey(r)]
<1>3. \A r \in S : f[r] \in FirmReservations /\ f[r].key = RequestKey(r)
  BY DEF Covered
<1>4. \A r, s \in S : f[r] = f[s] => r = s
  <2>. HIDE DEF f
  <2>. QED BY <1>1, <1>3 DEF DistinctKeys
<1>5. f \in Injection(S, FirmReservations)
  <2>1. f \in [S -> FirmReservations]
    BY <1>3
  <2>. HIDE DEF f, S
  <2>. QED BY <1>4, <2>1 DEF Injection, IsInjective
<1>6. IsFiniteSet(S) /\ Cardinality(S) <= Cardinality(FirmReservations)
  <2>. HIDE DEF f, S
  <2>. QED BY <1>2, <1>5, FS_Injection
<1>7. IsFiniteSet(S \cup folded)
      /\ Cardinality(S \cup folded) <= Cardinality(S) + Cardinality(folded)
  <2>1. IsFiniteSet(S \cap folded) /\ Cardinality(S \cap folded) \in Nat
    BY <1>1, FS_Subset, FS_CardinalityType
  <2>2. Cardinality(S) \in Nat /\ Cardinality(folded) \in Nat
    BY <1>1, <1>6, FS_CardinalityType
  <2>3. IsFiniteSet(S \cup folded)
        /\ Cardinality(S \cup folded) = Cardinality(S) + Cardinality(folded) - Cardinality(S \cap folded)
    BY <1>1, <1>6, FS_Union
  <2>. QED BY <2>1, <2>2, <2>3
<1>8. Cardinality(Charged) <= Cardinality(S \cup folded)
  BY <1>7, FS_Subset
<1>. QED
  BY <1>1, <1>2, <1>6, <1>7, <1>8, FS_CardinalityType

\* An object that is still live, or admitted, is not dropped from the count.
LEMMA FoldKeeps ==
    ASSUME TypeOK, Bookkeeping, DraftFresh, [Next]_vars, NEW r \in Charged, r \in folded
    PROVE  r \in folded'
<1>1. r \in store
  BY DEF Charged, Bookkeeping
<1>2. CASE ~Landing
  <2>1. CASE folded' = folded
    BY <2>1
  <2>2. CASE FoldUnchanged /\ folded' = work.list
    <3>1. pc[Worker] # "idle"
      BY <2>2 DEF FoldUnchanged, ReadLedger
    <3>. QED BY <1>1, <2>2, <3>1 DEF Bookkeeping
  <2>. QED BY <1>2, <2>1, <2>2, StatusChange
<1>3. ASSUME NEW q \in Processes, Lands(q) PROVE r \in folded'
  <2>1. CASE q = Worker
    <3>1. pc[Worker] # "idle" /\ folded' = work.list
      BY <1>3, <2>1, LandsLand DEF Land
    <3>. QED BY <1>1, <3>1 DEF Bookkeeping
  <2>2. CASE q # Worker
    BY <1>3, <2>2, LandsLand DEF Land
  <2>. QED BY <2>1, <2>2
<1>. QED BY <1>2, <1>3 DEF Landing

\* With distinct keys a request never finds its key reserved.
LEMMA NoSecondAdmission ==
    ASSUME StrictInv, NEW r \in Requests
    PROVE  ~AdmitAgain(r)
<1>. SUFFICES ASSUME AdmitAgain(r) PROVE FALSE
  OBVIOUS
<1>1. PICK v \in ledger.status.reservations : v.key = RequestKey(r)
  BY DEF AdmitAgain, Reserved, Live
<1>2. pc[r] \in {"get", "create"}
  BY DEF AdmitAgain, ReadLedger
<1>. QED BY <1>1, <1>2 DEF StrictInv

\* A grant is decided on a count that covers everything charged, so when it
\* lands there is room for it under the limit its request read.
LEMMA LandingWithinLimit ==
    ASSUME StrictHypotheses, TypeOK, TypeOK', DraftFresh, ConfirmedIsCount, Bookkeeping,
           StrictInv, [Next]_vars, NEW r \in Requests, Lands(r)
    PROVE  lim[r] \in Limits /\ Cardinality(Charged') <= lim[r]
<1>0. /\ DistinctKeys /\ BoundedOutage /\ Covered
      /\ Requests \subseteq Processes /\ Worker \notin Requests /\ Sweeper \notin Requests
  BY StrictImpliesCovered, LedgerAssumption DEF StrictHypotheses, Processes
<1>1. IsFiniteSet(Charged) /\ Cardinality(Charged) \in Nat
  BY <1>0, ChargedCounted, FS_CardinalityType
<1>2. Charged' \subseteq Charged \cup {r}
  <2>1. ASSUME NEW s \in Charged' PROVE s \in Charged \/ s = r
    <3>1. s \in Requests
      BY DEF Charged, TypeOK
    <3>2. CASE Lands(s)
      <4>1. s # r => pc'[s] = pc[s]
        BY <1>0, <3>1 DEF Lands, Write, LoseReply, Failed, TypeOK
      <4>2. s # r => pc'[s] = "write" /\ store' = store
        BY <3>2, <4>1, LandsLand DEF Lands, Land, Write, LoseReply, Failed, clusterVars
      <4>. QED BY <2>1, <4>2 DEF Charged
    <3>. QED BY <1>0, <2>1, <3>1, <3>2, RequestStep, NoSecondAdmission
  <2>. QED BY <2>1
<1>3. /\ IsFiniteSet(Charged \cup {r})
      /\ Cardinality(Charged \cup {r}) <= Cardinality(Charged) + 1
  BY <1>1, AddedOne
<1>4. Cardinality(Charged') <= Cardinality(Charged) + 1
  <2>1. Cardinality(Charged') \in Nat /\ Cardinality(Charged \cup {r}) \in Nat
    BY <1>2, <1>3, FS_Subset, FS_CardinalityType
  <2>2. Cardinality(Charged') <= Cardinality(Charged \cup {r})
    BY <1>2, <1>3, FS_Subset
  <2>. QED BY <1>1, <1>3, <2>1, <2>2
<1>5. ledger.status.confirmed + Cardinality(FirmReservations) < lim[r]
  BY <1>0, LandedStatus DEF GrantDraft
<1>6. Cardinality(Charged) < lim[r] /\ lim[r] \in Limits /\ lim[r] \in Nat
  <2>1. Cardinality(Charged) <= ledger.status.confirmed + Cardinality(FirmReservations)
    BY <1>0, ChargedCounted DEF ConfirmedIsCount
  <2>2. lim[r] \in Limits /\ lim[r] \in Nat
    BY LandsLand, LedgerAssumption DEF Land, Bookkeeping, TypeOK
  <2>3. ledger.status.confirmed + Cardinality(FirmReservations) \in Nat
    <3>1. ledger.status \in Statuses /\ IsFiniteSet(FirmReservations)
      BY FiniteReservations, FS_Subset DEF FirmReservations, Live, TypeOK
    <3>. QED BY <3>1, FS_CardinalityType DEF Statuses
  <2>. QED BY <1>1, <1>5, <2>1, <2>2, <2>3
<1>7. Cardinality(Charged') \in Nat
  BY <1>2, <1>3, FS_Subset, FS_CardinalityType
<1>8. Cardinality(Charged') <= lim[r]
  BY <1>1, <1>4, <1>6, <1>7
<1>. QED BY <1>6, <1>8

\* The inductive step of the strict promise.
LEMMA NextStrictInv ==
    ASSUME StrictHypotheses, TypeOK, TypeOK', DraftFresh, ConfirmedIsCount, Bookkeeping,
           StrictInv, [Next]_vars
    PROVE  StrictInv'
<1>0. /\ DistinctKeys /\ BoundedOutage /\ Covered
      /\ Requests \subseteq Processes /\ Worker \notin Requests /\ Sweeper \notin Requests
  BY StrictImpliesCovered, LedgerAssumption DEF StrictHypotheses, Processes
<1>1. ASSUME NEW v \in ledger'.status.reservations, NEW r \in Requests, v.key = RequestKey(r)
      PROVE  pc'[r] \in Answered
  <2>1. CASE v \in ledger.status.reservations
    <3>1. pc[r] \in Answered
      BY <1>1, <2>1 DEF StrictInv, Answered
    <3>. QED BY <1>0, <3>1, RequestStep
  <2>2. CASE v \notin ledger.status.reservations
    <3>1. PICK q \in Processes : Lands(q)
      BY <2>2, StatusChange DEF Landing
    <3>2. q \in Requests
      <4>1. q # Worker
        BY <1>1, <2>2, <3>1, LandedParts
      <4>2. q # Sweeper
        BY <1>1, <2>2, <3>1, LandedStatus DEF SweepDraft
      <4>. QED BY <4>1, <4>2 DEF Processes
    <3>3. v.key = RequestKey(q)
      <4>1. PICK w \in [key : {RequestKey(q)}, expiresAt : Times] :
              ledger'.status = [confirmed |-> ledger.status.confirmed,
                                reservations |-> ledger.status.reservations \cup {w}]
        BY <3>1, <3>2, LandedStatus DEF GrantDraft
      <4>. QED BY <1>1, <2>2, <4>1
    <3>4. q = r
      BY <1>0, <1>1, <3>2, <3>3 DEF DistinctKeys
    <3>5. pc'[r] \in Answered
      <4>. QED BY <3>1, <3>2, <3>4 DEF Lands, Write, LoseReply, Failed, Answered, TypeOK, Processes
    <3>. QED BY <3>5
  <2>. QED BY <2>1, <2>2
<1>2. ASSUME NEW r \in Requests, Pending(r)' PROVE now' <= since'[r] + MaxLatency
  <2>1. /\ now \in Nat /\ now' \in Nat /\ since[r] \in Nat /\ since'[r] \in Nat /\ MaxLatency \in Nat
    BY LedgerAssumption DEF TypeOK
  <2>2. CASE now' = now
    <3>1. CASE Pending(r) /\ since'[r] = since[r]
      BY <2>2, <3>1 DEF StrictInv
    <3>2. CASE since'[r] = now
      BY <2>1, <2>2, <3>2
    <3>3. CASE r \in folded \ folded'
      <4>1. r \notin Charged
        BY <3>3, FoldKeeps
      <4>2. r \notin Charged'
        <5>1. pc[r] = "persisted"
          BY <3>3 DEF Bookkeeping
        <5>2. ~AdmitAgain(r) /\ ~Lands(r)
          BY <5>1, NoSecondAdmission, LandsLand DEF Land
        <5>. QED BY <1>0, <4>1, <5>2, RequestStep
      <4>3. pc'[r] # "write"
        <5>1. pc[r] = "persisted"
          BY <3>3 DEF Bookkeeping
        <5>2. pc'[r] \in Answered
          BY <1>0, <5>1, RequestStep DEF Answered
        <5>. QED BY <5>2 DEF Answered
      <4>. QED BY <1>2, <4>2, <4>3 DEF Pending, Charged
    <3>. QED BY <1>0, <1>2, <3>1, <3>2, <3>3, RequestStep
  <2>3. CASE Tick /\ now' = now + 1
    <3>1. Pending(r) /\ since'[r] = since[r]
      BY <1>2, <2>3 DEF Tick, Pending, requestVars, clusterVars
    <3>2. now < since[r] + MaxLatency
      BY <2>3, <3>1 DEF Tick
    <3>. QED BY <2>1, <2>3, <3>1, <3>2
  <2>. QED BY <2>2, <2>3, ClockStep
<1>3. ASSUME NEW r \in Charged', r \notin folded'
      PROVE  \E v \in ledger'.status.reservations :
               v.key = RequestKey(r) /\ since'[r] + TTL < v.expiresAt + Second
  <2>0. r \in Requests
    BY DEF Charged, TypeOK
  <2>1. CASE Lands(r) /\ since'[r] = since[r]
    <3>1. PICK v \in [key : {RequestKey(r)}, expiresAt : Times] :
            /\ since[r] + TTL < v.expiresAt + Second
            /\ ledger'.status = [confirmed |-> ledger.status.confirmed,
                                 reservations |-> ledger.status.reservations \cup {v}]
      BY <1>0, <2>0, <2>1, LandedStatus DEF GrantDraft
    <3>. QED BY <2>1, <3>1
  <2>2. CASE r \in Charged /\ ~Lands(r)
    <3>1. r \notin folded
      BY <1>3, <2>2, FoldKeeps
    <3>2. PICK v \in ledger.status.reservations :
            v.key = RequestKey(r) /\ since[r] + TTL < v.expiresAt + Second
      BY <2>2, <3>1 DEF StrictInv
    <3>3. v \in FirmReservations
      BY <2>2, <3>1, <3>2, HeldIsFirm
    <3>4. since'[r] = since[r]
      <4>1. pc[r] \in Answered
        BY <2>2 DEF Charged, Bookkeeping, Answered
      <4>. QED BY <1>0, <2>0, <4>1, RequestStep
    <3>5. v \in ledger'.status.reservations
      <4>1. CASE ~Landing
        BY <3>2, <4>1, StatusChange
      <4>2. ASSUME NEW q \in Processes, Lands(q) PROVE v \in ledger'.status.reservations
        <5>1. CASE q \in Requests
          BY <4>2, <5>1, LandedParts
        <5>2. CASE q = Worker
          <6>1. folded' = work.list /\ work.list \subseteq Requests
            BY <4>2, <5>2, LandsLand DEF Land, TypeOK
          <6>2. v.key \notin KeysOf(work.list)
            BY <1>0, <1>3, <2>0, <3>2, <6>1 DEF KeysOf, DistinctKeys
          <6>. QED BY <4>2, <5>2, <6>2, LandedParts
        <5>3. CASE q = Sweeper
          BY <3>3, <4>2, <5>3, LandedStatus DEF SweepDraft
        <5>. QED BY <5>1, <5>2, <5>3 DEF Processes
      <4>. QED BY <4>1, <4>2 DEF Landing
    <3>. QED BY <3>2, <3>4, <3>5
  <2>3. CASE r \in Charged /\ Lands(r)
    <3>1. since'[r] = since[r]
      <4>1. pc[r] \in Answered
        BY <2>3 DEF Charged, Bookkeeping, Answered
      <4>. QED BY <1>0, <2>0, <4>1, RequestStep
    <3>. QED BY <2>1, <2>3, <3>1
  <2>4. ~AdmitAgain(r)
    BY <2>0, NoSecondAdmission
  <2>. QED BY <1>0, <1>3, <2>0, <2>1, <2>2, <2>3, <2>4, RequestStep
<1>4. \E l \in Limits : Cardinality(Charged') <= l
  <2>0. IsFiniteSet(Charged) /\ Cardinality(Charged) \in Nat
    BY <1>0, ChargedCounted, FS_CardinalityType
  <2>1. CASE \E r \in Requests : Lands(r)
    BY <2>1, LandingWithinLimit
  <2>2. CASE ~\E r \in Requests : Lands(r)
    <3>1. Charged' \subseteq Charged
      <4>1. \A r \in Charged' : r \in Requests
        BY DEF Charged, TypeOK
      <4>. QED BY <1>0, <2>2, <4>1, RequestStep, NoSecondAdmission
    <3>2. Cardinality(Charged') <= Cardinality(Charged) /\ Cardinality(Charged') \in Nat
      BY <2>0, <3>1, FS_Subset, FS_CardinalityType
    <3>3. PICK l \in Limits : Cardinality(Charged) <= l
      BY DEF StrictInv
    <3>4. l \in Nat
      BY LedgerAssumption
    <3>5. Cardinality(Charged') <= l
      BY <2>0, <3>2, <3>3, <3>4
    <3>. QED BY <3>5
  <2>. QED BY <2>1, <2>2
<1>. QED BY <1>1, <1>2, <1>3, <1>4 DEF StrictInv, Answered

\* Nothing is charged in the first state.
LEMMA InitStrictInv == Init => StrictInv
<1>. SUFFICES ASSUME Init PROVE StrictInv
  OBVIOUS
<1>1. Charged = {} /\ ledger.status.reservations = {}
  BY DEF Init, Charged, NoUsage, Processes
<1>2. \A r \in Requests : ~Pending(r)
  BY DEF Init, Pending, Processes
<1>3. \E l \in Limits : Cardinality(Charged) <= l
  <2>1. PICK l \in Limits : l \in Nat
    BY LedgerAssumption
  <2>2. Cardinality(Charged) = 0
    BY <1>1, FS_EmptySet
  <2>. QED BY <2>1, <2>2
<1>4. \A r \in Requests : r \notin Charged
  BY <1>1
<1>. QED BY <1>1, <1>2, <1>3, <1>4 DEF StrictInv

\* The inductive invariant of the strict promise (webhook, store, reconciler and
\* sweeper together) holds, through lag, skew, faults, crashes and conflicts.
THEOREM StrictInvariant ==
    ASSUME StrictHypotheses
    PROVE  Spec => []StrictInv
<1>1. /\ TypeOK /\ TypeOK' /\ DraftFresh /\ ConfirmedIsCount /\ Bookkeeping
      /\ StrictInv /\ [Next]_vars
      => StrictInv'
  BY NextStrictInv
<1>. QED
  BY <1>1, InitStrictInv, TypeCorrect, NoLostUpdate, ConfirmedCorrect, BookkeepingCorrect, PTL
  DEF Spec

\* FoldConfirmed hands objects over without a gap: at no moment is a live or
\* admitted object in neither confirmed nor a live reservation.
THEOREM AlwaysCovered ==
    ASSUME StrictHypotheses
    PROVE  Spec => []Covered
<1>1. TypeOK /\ StrictInv => Covered
  BY StrictImpliesCovered
<1>. QED BY <1>1, TypeCorrect, StrictInvariant, PTL

\* R1.  With names used once, a TTL that covers latency, skew and the second lost in
\* storing, and outages within that latency, no consumer ever has more objects
\* than the highest limit, for any number of concurrent requests and replicas.
THEOREM LimitNeverExceeded ==
    ASSUME StrictHypotheses
    PROVE  Spec => []NoOvershoot
<1>1. TypeOK /\ StrictInv => NoOvershoot
  <2>. SUFFICES ASSUME TypeOK, StrictInv PROVE NoOvershoot
    OBVIOUS
  <2>1. PICK l \in Limits : Cardinality(Charged) <= l
    BY DEF StrictInv
  <2>2. IsFiniteSet(Charged) /\ store \subseteq Charged
    BY FS_Subset, LedgerAssumption DEF Charged, TypeOK
  <2>3. /\ Cardinality(store) <= Cardinality(Charged)
        /\ Cardinality(store) \in Nat /\ Cardinality(Charged) \in Nat /\ l \in Nat
    BY <2>2, FS_Subset, FS_CardinalityType, LedgerAssumption
  <2>. QED BY <2>1, <2>3 DEF NoOvershoot
<1>. QED BY <1>1, TypeCorrect, StrictInvariant, PTL

\* A request goes from write to allowed only by its own landing write.
LEMMA OnlyLandingGrants ==
    ASSUME TypeOK, [Next]_vars, NEW r \in Requests, pc[r] = "write", pc'[r] = "allowed"
    PROVE  Lands(r)
<1>0. /\ pc \in [Processes -> RequestPC] /\ Requests \subseteq Processes
      /\ Worker \notin Requests /\ Sweeper \notin Requests
  BY LedgerAssumption DEF TypeOK, Processes
<1>1. ASSUME NEW s \in Requests,
             Handle(s) \/ RejectUnsynced(s) \/ Grant(s) \/ AdmitAgain(s) \/ Deny(s)
               \/ Persist(s) \/ FailDownstream(s) \/ Delete(s)
      PROVE  FALSE
  BY <1>0, <1>1
  DEF Handle, RejectUnsynced, Grant, Propose, AdmitAgain, Deny, ReadLedger, Persist, FailDownstream, Delete
<1>2. ASSUME NEW q \in Processes, GetMissing(q) \/ CreateExists(q) \/ Conflict(q) \/ GiveUp(q)
      PROVE  FALSE
  BY <1>0, <1>2 DEF GetMissing, CreateExists, Conflict, GiveUp, Failed
<1>3. ASSUME NEW q \in Processes, Write(q) \/ LoseReply(q) PROVE q = r
  BY <1>0, <1>3 DEF Write, LoseReply, Failed
<1>4. CASE Reconcile \/ SweepAll \/ Deliver \/ Crash \/ Restart \/ Tick \/ UNCHANGED vars
  BY <1>0, <1>4
  DEF Reconcile, SweepAll, StartReconcile, Fold, FoldUnchanged, SweepTick, SweepExpired,
      SweepUnchanged, Propose, Deliver, Crash, Restart, Tick, vars
<1>. QED BY <1>1, <1>2, <1>3, <1>4 DEF Next, Request, CAS, Lands

\* The limit holds for each grant at the moment its write lands, with whatever
\* limit the serving replica had read.
THEOREM GrantsWithinLimit ==
    ASSUME StrictHypotheses
    PROVE  Spec => GrantWithinLimit
<1>. DEFINE Within == \A r \in Requests : pc[r] = "write" /\ pc'[r] = "allowed"
                                            => Cardinality(Charged') <= lim[r]
<1>1. /\ TypeOK /\ TypeOK' /\ DraftFresh /\ ConfirmedIsCount /\ Bookkeeping
      /\ StrictInv /\ [Next]_vars
      => [Within]_vars
  BY OnlyLandingGrants, LandingWithinLimit
<1>. QED
  BY <1>1, StrictInvariant, TypeCorrect, NoLostUpdate, ConfirmedCorrect, BookkeepingCorrect, PTL
  DEF Spec, GrantWithinLimit
=============================================================================
