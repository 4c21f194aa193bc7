----------------------- MODULE LedgerRefinementProofs -----------------------
(* QuotaLedger implements its two abstract specifications: AtomicLedger, for  *)
(* every value of the constants, and StrictQuota, under the hypotheses of the *)
(* strict promise.  The invariant behind the first also gives the two         *)
(* uniqueness properties of the ledger.                                       *)
EXTENDS QuotaLedgerProofs

-----------------------------------------------------------------------------
(* What a draft that can still land was computed from.                        *)

\* Reserve granted the slot on the stored status, at a time some clock may have
\* read since.
Granted(r) ==
    \E t \in 0 .. (now + MaxSkew) :
        /\ ~Reserved(ledger.status, RequestKey(r), t)
        /\ Used(ledger.status, t) < lim[r]
        /\ draft[r].status = WithReservation(ledger.status, RequestKey(r), t)

Swept == \E t \in 0 .. (now + MaxSkew) : draft[Sweeper].status = Sweep(ledger.status, t)

Computed(p) ==
    pc[p] = "write" /\ draft[p].rv = ledger.rv =>
        /\ p \in Requests => Granted(p)
        /\ p = Sweeper => Swept

\* DraftFresh says what a draft adds to the status it replaces, this which call
\* computed it and when; a recount is determined by DraftFresh already.
DraftsComputed == \A p \in Processes : Computed(p)

\* A draft a step leaves alone is still computed, or has become stale.
LEMMA StableComputed ==
    ASSUME TypeOK, TypeOK', NEW p \in Processes, Fresh(p), Computed(p),
           pc'[p] = "write" => pc[p] = "write" /\ draft'[p] = draft[p],
           ledger'.rv >= ledger.rv,
           ledger'.rv = ledger.rv => ledger'.status = ledger.status,
           now' >= now, p \in Requests => lim'[p] = lim[p]
    PROVE  Computed(p)'
<1>. SUFFICES ASSUME pc'[p] = "write", draft'[p].rv = ledger'.rv
              PROVE  (p \in Requests => Granted(p)') /\ (p = Sweeper => Swept')
  BY DEF Computed
<1>1. /\ pc[p] = "write" /\ draft'[p] = draft[p]
      /\ ledger.rv \in Nat /\ ledger'.rv \in Nat /\ draft[p].rv \in Nat
      /\ now \in Nat /\ now' \in Nat /\ MaxSkew \in Nat
  BY LedgerAssumption DEF TypeOK
<1>2. draft[p].rv = ledger.rv /\ ledger'.status = ledger.status
  BY <1>1 DEF Fresh
<1>3. \A t \in 0 .. (now + MaxSkew) : t \in 0 .. (now' + MaxSkew)
  BY <1>1
<1>4. p \in Requests => Granted(p)'
  BY <1>1, <1>2, <1>3 DEF Computed, Granted
<1>5. p = Sweeper => Swept'
  BY <1>1, <1>2, <1>3 DEF Computed, Swept
<1>. QED BY <1>4, <1>5

\* Reserve decides and writes with one clock reading (accounting.go:33-49).
LEMMA GrantComputed ==
    ASSUME TypeOK, TypeOK', NEW r \in Requests, Grant(r)
    PROVE  Computed(r)'
<1>1. PICK t \in Clock :
        /\ ~Reserved(ledger.status, RequestKey(r), t)
        /\ Used(ledger.status, t) < lim[r]
        /\ Propose(r, Reserve(ledger.status, RequestKey(r), lim[r], t))
  BY DEF Grant
<1>2. /\ r \in Processes /\ r # Sweeper
      /\ t \in Nat /\ now \in Nat /\ t \in 0 .. (now + MaxSkew)
      /\ lim[r] \in Nat /\ ledger.status \in Statuses /\ ledger.status.confirmed \in Nat
  <2>1. now \in Nat /\ lim[r] \in Nat /\ ledger.status \in Statuses
    BY DEF TypeOK
  <2>2. ledger.status.confirmed \in Nat
    BY <2>1 DEF Statuses
  <2>3. t \in Nat /\ t \in 0 .. (now + MaxSkew)
    BY <2>1, LedgerAssumption DEF Clock
  <2>. QED BY <2>1, <2>2, <2>3, LedgerAssumption DEF Processes
<1>3. Reserve(ledger.status, RequestKey(r), lim[r], t) = WithReservation(ledger.status, RequestKey(r), t)
  <2>1. Used(ledger.status, t) \in Nat
    BY <1>2, FirmFacts DEF Used
  <2>. QED BY <1>1, <1>2, <2>1 DEF Reserve
<1>4. /\ now' = now /\ lim' = lim /\ ledger'.status = ledger.status
      /\ draft'[r].status = WithReservation(ledger.status, RequestKey(r), t)
  <2>1. ReadLedger(r) /\ now' = now /\ lim' = lim
    BY DEF Grant, envVars
  <2>. QED BY <1>1, <1>2, <1>3, <2>1, ProposedDraft
<1>5. Granted(r)'
  BY <1>1, <1>2, <1>4 DEF Granted
<1>. QED BY <1>2, <1>5 DEF Computed

\* A landed write makes every other draft stale; a new draft is computed from
\* the status just read.
LEMMA NextDraftsComputed ==
    TypeOK /\ TypeOK' /\ DraftFresh /\ DraftsComputed /\ [Next]_vars => DraftsComputed'
<1>. SUFFICES ASSUME TypeOK, TypeOK', DraftFresh, DraftsComputed, [Next]_vars, NEW p \in Processes
              PROVE  Computed(p)'
  BY DEF DraftsComputed
<1>0. /\ Fresh(p) /\ Computed(p)
      /\ ledger.rv \in Nat /\ now \in Nat /\ draft[p].rv \in Nat
      /\ pc \in [Processes -> RequestPC]
      /\ Worker \in Processes /\ Sweeper \in Processes /\ Requests \subseteq Processes
      /\ Worker \notin Requests /\ Sweeper \notin Requests /\ Worker # Sweeper
  BY LedgerAssumption DEF DraftFresh, DraftsComputed, TypeOK, Processes
<1>a. ASSUME ledger'.rv >= ledger.rv, ledger'.rv = ledger.rv => ledger'.status = ledger.status,
             now' >= now,
             pc'[p] = "write" => /\ pc[p] = "write" /\ draft'[p] = draft[p]
                                 /\ p \in Requests => lim'[p] = lim[p]
      PROVE  Computed(p)'
  <2>1. CASE pc'[p] = "write"
    BY <1>0, <1>a, <2>1, StableComputed
  <2>. QED BY <2>1 DEF Computed
<1>1. ASSUME NEW r \in Requests, Grant(r) PROVE Computed(p)'
  <2>1. CASE p = r
    BY <1>1, <2>1, GrantComputed
  <2>2. CASE p # r
    <3>1. PICK st : ReadLedger(r) /\ Propose(r, st)
      BY <1>1 DEF Grant
    <3>2. /\ pc'[p] = pc[p] /\ draft'[p] = draft[p]
          /\ ledger'.rv >= ledger.rv /\ ledger'.status = ledger.status
      BY <1>0, <2>2, <3>1, ProposedDraft, ReadLedgerFacts
    <3>3. now' = now /\ lim' = lim
      BY <1>1 DEF Grant, envVars
    <3>. QED BY <1>0, <1>a, <3>2, <3>3
  <2>. QED BY <2>1, <2>2
<1>2. ASSUME NEW r \in Requests, AdmitAgain(r) \/ Deny(r) PROVE Computed(p)'
  <2>1. ledger'.rv >= ledger.rv /\ ledger'.status = ledger.status
    BY <1>0, <1>2, ReadLedgerFacts DEF AdmitAgain, Deny
  <2>2. /\ pc'[p] = "write" => pc[p] = "write"
        /\ draft' = draft /\ now' = now /\ lim' = lim
    BY <1>0, <1>2 DEF AdmitAgain, Deny, envVars, requestVars
  <2>. QED BY <1>0, <1>a, <2>1, <2>2
<1>3. ASSUME NEW q \in Processes, Lands(q) PROVE Computed(p)'
  <2>1. /\ ledger'.rv = ledger.rv + 1 /\ pc'[q] # "write"
        /\ \A s \in Processes \ {q} : pc'[s] = pc[s] /\ draft'[s] = draft[s]
    BY <1>3, LandsElsewhere DEF TypeOK
  <2>2. CASE p = q
    BY <2>1, <2>2 DEF Computed
  <2>3. CASE p # q
    <3>1. pc'[p] = pc[p] /\ draft'[p] = draft[p]
      BY <2>1, <2>3
    <3>. QED BY <1>0, <2>1, <3>1 DEF Fresh, Computed
  <2>. QED BY <2>2, <2>3
<1>4. CASE Fold
  <2>1. ReadLedger(Worker) /\ Propose(Worker, FoldedStatus) /\ now' = now /\ lim' = lim
    BY <1>4 DEF Fold, requestVars, envVars
  <2>2. CASE p = Worker
    BY <1>0, <2>2 DEF Computed
  <2>3. CASE p # Worker
    <3>1. /\ pc'[p] = pc[p] /\ draft'[p] = draft[p]
          /\ ledger'.rv >= ledger.rv /\ ledger'.status = ledger.status
      BY <1>0, <2>1, <2>3, ProposedDraft, ReadLedgerFacts
    <3>. QED BY <1>0, <1>a, <2>1, <3>1
  <2>. QED BY <2>2, <2>3
<1>5. CASE SweepExpired
  <2>1. PICK t \in Clock : Propose(Sweeper, Sweep(ledger.status, t))
    BY <1>5 DEF SweepExpired
  <2>2. ReadLedger(Sweeper) /\ now' = now /\ lim' = lim
    BY <1>5 DEF SweepExpired, requestVars, envVars
  <2>3. /\ draft'[Sweeper].status = Sweep(ledger.status, t)
        /\ ledger'.status = ledger.status /\ ledger'.rv >= ledger.rv
        /\ p # Sweeper => pc'[p] = pc[p] /\ draft'[p] = draft[p]
    BY <1>0, <2>1, <2>2, ProposedDraft, ReadLedgerFacts
  <2>4. CASE p = Sweeper
    <3>1. t \in 0 .. (now' + MaxSkew)
      BY <1>0, <2>2, LedgerAssumption DEF Clock
    <3>. QED BY <1>0, <2>3, <2>4, <3>1 DEF Computed, Swept
  <2>5. CASE p # Sweeper
    BY <1>0, <1>a, <2>2, <2>3, <2>5
  <2>. QED BY <2>4, <2>5
<1>6. CASE FoldUnchanged \/ SweepUnchanged
  <2>1. ledger'.rv >= ledger.rv /\ ledger'.status = ledger.status
    BY <1>0, <1>6, ReadLedgerFacts DEF FoldUnchanged, SweepUnchanged
  <2>2. /\ pc'[p] = "write" => pc[p] = "write"
        /\ draft' = draft /\ now' = now /\ lim' = lim
    BY <1>0, <1>6 DEF FoldUnchanged, SweepUnchanged, envVars, requestVars
  <2>. QED BY <1>0, <1>a, <2>1, <2>2
<1>7. ASSUME ledger' = ledger, now' >= now,
             pc'[p] = "write" => /\ pc[p] = "write" /\ draft'[p] = draft[p]
                                 /\ p \in Requests => lim'[p] = lim[p]
      PROVE  Computed(p)'
  <2>1. ledger'.rv >= ledger.rv
    BY <1>0, <1>7
  <2>. QED BY <1>a, <1>7, <2>1
<1>8. ASSUME NEW r \in Requests, Handle(r) PROVE Computed(p)'
  BY <1>0, <1>7, <1>8 DEF Handle, clusterVars, informerVars, envVars, TypeOK
<1>9. ASSUME NEW r \in Requests, RejectUnsynced(r) \/ Persist(r) \/ FailDownstream(r) \/ Delete(r)
      PROVE  Computed(p)'
  BY <1>0, <1>7, <1>9
  DEF RejectUnsynced, Persist, FailDownstream, Delete, requestVars, clusterVars, informerVars, envVars
<1>10. ASSUME NEW q \in Processes, GetMissing(q) \/ CreateExists(q) \/ Conflict(q) PROVE Computed(p)'
  <2>1. ledger' = ledger /\ now' = now /\ lim' = lim
    BY <1>10 DEF GetMissing, CreateExists, Conflict, requestVars, envVars
  <2>2. \E a \in {"create", "get"} : pc' = [pc EXCEPT ![q] = a]
    BY <1>10 DEF GetMissing, CreateExists, Conflict
  <2>3. pc'[q] # "write" /\ (p # q => pc'[p] = pc[p])
    BY <1>0, <2>2
  <2>4. p # q => draft'[p] = draft[p]
    <3>1. draft' = draft \/ draft' = [draft EXCEPT ![q] = NoDraft]
      BY <1>10 DEF GetMissing, CreateExists, Conflict
    <3>. QED BY <3>1 DEF TypeOK
  <2>5. now' >= now
    BY <1>0, <2>1
  <2>. QED BY <1>7, <2>1, <2>3, <2>4, <2>5
<1>11. ASSUME NEW q \in Processes, GiveUp(q) PROVE Computed(p)'
  BY <1>0, <1>7, <1>11 DEF GiveUp, Failed, requestVars, clusterVars, TypeOK
<1>12. CASE StartReconcile \/ SweepTick \/ Deliver \/ Restart
  BY <1>0, <1>7, <1>12
  DEF StartReconcile, SweepTick, Deliver, Restart, requestVars, clusterVars, informerVars, envVars
<1>13. CASE Crash
  BY <1>0, <1>7, <1>13 DEF Crash, requestVars, TypeOK
<1>14. CASE Tick \/ UNCHANGED vars
  BY <1>0, <1>7, <1>14 DEF Tick, requestVars, clusterVars, informerVars, vars
<1>. QED
  BY <1>1, <1>2, <1>3, <1>4, <1>5, <1>6, <1>8, <1>9, <1>10, <1>11, <1>12, <1>13, <1>14
  DEF Next, Request, CAS, Reconcile, SweepAll, Lands

\* Whatever may still land was computed, by its own call, from the status it
\* will replace.
THEOREM DraftsComputedCorrect == Spec => []DraftsComputed
<1>1. Init => DraftsComputed
  BY DEF Init, DraftsComputed, Computed
<1>. QED BY <1>1, NextDraftsComputed, TypeCorrect, NoLostUpdate, PTL DEF Spec
-----------------------------------------------------------------------------
(* Each update of the status is one step of AtomicLedger.                     *)

\* Both specifications start from the empty status at time zero.
LEMMA AtomicInit == Init => Atomic!Init
BY DEF Init, Atomic!Init, NoUsage, Atomic!NoUsage

\* The two copies of the arithmetic are the same.
LEMMA AtomicArithmetic ==
    /\ \A st, k, t : Atomic!Reserved(st, k, t) = Reserved(st, k, t)
    /\ \A st, t : Atomic!Used(st, t) = Used(st, t)
    /\ \A st, k, t : Atomic!WithReservation(st, k, t) = WithReservation(st, k, t)
    /\ \A st, t : Atomic!Sweep(st, t) = Sweep(st, t)
    /\ \A st, c, K : Atomic!FoldConfirmed(st, c, K) = FoldConfirmed(st, c, K)
    /\ \A S : Atomic!Cardinality(S) = Cardinality(S)
<1>1. ASSUME NEW S PROVE Atomic!Cardinality(S) = Cardinality(S)
  BY DEF Atomic!Cardinality, Cardinality
<1>2. ASSUME NEW st, NEW t PROVE Atomic!Live(st, t) = Live(st, t)
  BY DEF Atomic!Live, Live
<1>3. ASSUME NEW st, NEW t PROVE Atomic!Used(st, t) = Used(st, t)
  BY <1>1, <1>2 DEF Atomic!Used, Used
<1>4. ASSUME NEW st, NEW k, NEW t PROVE Atomic!Reserved(st, k, t) = Reserved(st, k, t)
  BY <1>2 DEF Atomic!Reserved, Reserved
<1>5. ASSUME NEW st, NEW k, NEW t PROVE Atomic!WithReservation(st, k, t) = WithReservation(st, k, t)
  BY DEF Atomic!WithReservation, WithReservation, Atomic!Stored, Stored
<1>6. ASSUME NEW st, NEW t PROVE Atomic!Sweep(st, t) = Sweep(st, t)
  BY <1>2 DEF Atomic!Sweep, Sweep
<1>7. ASSUME NEW st, NEW c, NEW K PROVE Atomic!FoldConfirmed(st, c, K) = FoldConfirmed(st, c, K)
  BY DEF Atomic!FoldConfirmed, FoldConfirmed
<1>. QED BY <1>1, <1>3, <1>4, <1>5, <1>6, <1>7

\* A write that lands, answered or not, is the abstract step of its writer; every
\* other step leaves the status alone, or is a tick of the clock.
LEMMA AtomicStep ==
    TypeOK /\ DraftFresh /\ DraftsComputed /\ Bookkeeping /\ [Next]_vars
      => [Atomic!Next]_<<ledger.status, now>>
<1>. SUFFICES ASSUME TypeOK, DraftFresh, DraftsComputed, Bookkeeping, [Next]_vars
              PROVE  Atomic!Next \/ UNCHANGED <<ledger.status, now>>
  OBVIOUS
<1>0. Worker \notin Requests /\ Sweeper \notin Requests /\ Requests \subseteq Processes
  BY LedgerAssumption DEF Processes
<1>1. CASE ~Landing
  <2>1. ledger'.status = ledger.status
    BY <1>1, StatusChange
  <2>2. CASE now' = now
    BY <2>1, <2>2
  <2>3. CASE now' = now + 1
    BY <2>1, <2>3 DEF Atomic!Next, Atomic!Tick
  <2>. QED BY <2>2, <2>3, ClockStep
<1>2. ASSUME NEW q \in Processes, Lands(q) PROVE Atomic!Next
  <2>1. /\ now' = now /\ ledger'.status = draft[q].status
        /\ pc[q] = "write" /\ draft[q].rv = ledger.rv
    BY <1>2 DEF Lands, Write, LoseReply, Land, Failed, envVars
  <2>2. CASE q \in Requests
    <3>1. PICK t \in 0 .. (now + MaxSkew) :
            /\ ~Reserved(ledger.status, RequestKey(q), t)
            /\ Used(ledger.status, t) < lim[q]
            /\ draft[q].status = WithReservation(ledger.status, RequestKey(q), t)
      BY <1>2, <2>1, <2>2 DEF DraftsComputed, Computed, Granted
    <3>2. lim[q] \in Limits
      BY <2>1, <2>2 DEF Bookkeeping
    <3>3. Atomic!Grant(RequestKey(q), lim[q], t)
      BY <2>1, <3>1, AtomicArithmetic DEF Atomic!Grant
    <3>. QED BY <2>2, <3>2, <3>3 DEF Atomic!Next
  <2>3. CASE q = Worker
    <3>1. ledger'.status = FoldedStatus
      BY <1>2, <2>3, LandedStatus DEF FoldDraft
    <3>2. work.list \in SUBSET Requests
      BY DEF TypeOK
    <3>3. Atomic!Recount(work.list)
      BY <2>1, <3>1, AtomicArithmetic DEF Atomic!Recount, FoldedStatus, KeysOf, ListedKey
    <3>. QED BY <3>2, <3>3 DEF Atomic!Next
  <2>4. CASE q = Sweeper
    <3>1. PICK t \in 0 .. (now + MaxSkew) : draft[Sweeper].status = Sweep(ledger.status, t)
      BY <1>0, <1>2, <2>1, <2>4 DEF DraftsComputed, Computed, Swept
    <3>2. Atomic!Expire(t)
      BY <2>1, <2>4, <3>1, AtomicArithmetic DEF Atomic!Expire
    <3>. QED BY <3>1, <3>2 DEF Atomic!Next
  <2>. QED BY <2>2, <2>3, <2>4 DEF Processes
<1>. QED BY <1>1, <1>2 DEF Landing

\* Store.Apply (store.go:49-121) is atomic for any number of writers, clocks, conflicts,
\* failures, lost answers and crashes, and whatever names the consumer uses.
THEOREM AtomicRefinement == Spec => ApplyIsAtomic
<1>1. Spec => Atomic!Init
  BY AtomicInit, PTL DEF Spec
<1>2. Spec => [][Atomic!Next]_<<ledger.status, now>>
  BY AtomicStep, TypeCorrect, NoLostUpdate, DraftsComputedCorrect, BookkeepingCorrect, PTL DEF Spec
<1>. QED BY <1>1, <1>2, PTL DEF ApplyIsAtomic, Atomic!Spec
-----------------------------------------------------------------------------
(* The ledger holds an object once.                                           *)

\* Two reservations of one key: the later grant found the earlier one expired.
LEMMA NextOneReservationPerKey ==
    TypeOK /\ TypeOK' /\ DraftFresh /\ DraftsComputed /\ OneReservationPerKey /\ [Next]_vars
      => OneReservationPerKey'
<1>. SUFFICES ASSUME TypeOK, TypeOK', DraftFresh, DraftsComputed, OneReservationPerKey, [Next]_vars,
                     NEW v \in FirmReservations', NEW w \in FirmReservations', v.key = w.key
              PROVE  v = w
  BY DEF OneReservationPerKey
<1>0. /\ now \in Nat /\ now' \in Nat /\ now <= now' /\ MaxSkew \in Nat
      /\ Requests \subseteq Processes
      /\ v.expiresAt \in Nat /\ v.expiresAt > now + MaxSkew
      /\ w.expiresAt \in Nat /\ w.expiresAt > now + MaxSkew
      /\ v \in ledger'.status.reservations /\ w \in ledger'.status.reservations
  <2>1. now \in Nat /\ now' \in Nat /\ ledger'.status \in Statuses /\ now <= now'
    <3>1. now \in Nat /\ now' \in Nat /\ ledger'.status \in Statuses
      BY DEF TypeOK
    <3>. QED BY <3>1, ClockStep
  <2>2. /\ v \in ledger'.status.reservations /\ v.expiresAt > now' + MaxSkew
        /\ w \in ledger'.status.reservations /\ w.expiresAt > now' + MaxSkew
    BY DEF FirmReservations, Live
  <2>3. v.expiresAt \in Nat /\ w.expiresAt \in Nat
    BY <2>1, <2>2, LedgerAssumption, AccountingAssumption DEF Statuses, Times
  <2>. QED BY <2>1, <2>2, <2>3, LedgerAssumption DEF Processes
<1>1. CASE v \in ledger.status.reservations /\ w \in ledger.status.reservations
  BY <1>0, <1>1 DEF OneReservationPerKey, FirmReservations, Live
<1>2. CASE v \notin ledger.status.reservations \/ w \notin ledger.status.reservations
  <2>1. PICK q \in Processes : Lands(q)
    BY <1>0, <1>2, StatusChange DEF Landing
  <2>2. q \in Requests
    <3>1. q # Worker
      BY <1>0, <1>2, <2>1, LandedParts
    <3>2. q # Sweeper
      BY <1>0, <1>2, <2>1, LandedStatus DEF SweepDraft
    <3>. QED BY <3>1, <3>2 DEF Processes
  <2>3. PICK t \in 0 .. (now + MaxSkew) :
          /\ ~Reserved(ledger.status, RequestKey(q), t)
          /\ draft[q].status = WithReservation(ledger.status, RequestKey(q), t)
    BY <1>0, <2>1, <2>2, LandsLand DEF DraftsComputed, Computed, Granted, Land
  <2>. DEFINE g == [key |-> RequestKey(q), expiresAt |-> Stored(t + TTL)]
  <2>4. ledger'.status.reservations = ledger.status.reservations \cup {g}
    <3>1. ledger'.status = draft[q].status /\ ledger.status \in Statuses
      BY <2>1, <2>2, <1>0, LandedStatus DEF TypeOK
    <3>. QED BY <2>3, <3>1 DEF WithReservation, Statuses
  <2>5. ASSUME NEW x \in ledger.status.reservations, x.key = RequestKey(q),
               x.expiresAt \in Nat, x.expiresAt > now + MaxSkew
        PROVE  FALSE
    <3>1. t \in Nat /\ t <= now + MaxSkew
      BY <1>0
    <3>2. x \in Live(ledger.status, t)
      BY <1>0, <2>5, <3>1 DEF Live
    <3>. QED BY <2>3, <2>5, <3>2 DEF Reserved
  <2>6. g.key = RequestKey(q)
    OBVIOUS
  <2>. HIDE DEF g
  <2>. QED BY <1>0, <1>2, <2>4, <2>5, <2>6
<1>. QED BY <1>1, <1>2

\* Reserve is idempotent per key (accounting.go:34-38): however many requests for one
\* name race on however many replicas, at most one live reservation is stored.
THEOREM ReservationsUnique == Spec => []OneReservationPerKey
<1>1. Init => OneReservationPerKey
  BY DEF Init, OneReservationPerKey, FirmReservations, Live, NoUsage
<1>. QED
  BY <1>1, NextOneReservationPerKey, TypeCorrect, NoLostUpdate, DraftsComputedCorrect, PTL DEF Spec

\* A recount drops the reservations of what it counts, and no later grant is for
\* an object that was counted: its request has its answer.
LEMMA NextNoDoubleCount ==
    ASSUME DistinctKeys, TypeOK, DraftFresh, Bookkeeping, NoDoubleCount, [Next]_vars
    PROVE  NoDoubleCount'
<1>. SUFFICES ASSUME NEW o \in folded', o \notin Generated,
                     NEW v \in ledger'.status.reservations, v.key = RequestKey(o)
              PROVE  FALSE
  BY DEF NoDoubleCount
<1>0. /\ Requests \subseteq Processes /\ Worker \notin Requests /\ Sweeper \notin Requests
      /\ folded \subseteq Requests /\ work.list \subseteq Requests
      /\ RequestKey(o) = Name[o]
  BY LedgerAssumption DEF TypeOK, Processes, RequestKey
<1>1. CASE ~Landing
  <2>1. ledger'.status = ledger.status
    BY <1>1, StatusChange
  <2>2. CASE folded' = folded
    BY <2>1, <2>2 DEF NoDoubleCount
  <2>3. CASE folded' = work.list /\ FoldedStatus = ledger.status
    <3>1. v.key \notin KeysOf(work.list)
      BY <2>1, <2>3 DEF FoldedStatus, FoldConfirmed
    <3>. QED BY <1>0, <2>3, <3>1 DEF KeysOf
  <2>. QED BY <1>1, <2>2, <2>3, StatusChange
<1>2. ASSUME NEW q \in Processes, Lands(q) PROVE FALSE
  <2>1. CASE q \in Requests
    <3>1. o \in folded
      BY <1>2, <2>1, LandedStatus
    <3>2. v \notin ledger.status.reservations
      BY <3>1 DEF NoDoubleCount
    <3>3. v.key = RequestKey(q)
      <4>1. PICK w \in [key : {RequestKey(q)}, expiresAt : Times] :
              ledger'.status = [confirmed |-> ledger.status.confirmed,
                                reservations |-> ledger.status.reservations \cup {w}]
        BY <1>2, <2>1, LandedStatus DEF GrantDraft
      <4>. QED BY <3>2, <4>1
    <3>4. q = o
      BY <1>0, <2>1, <3>1, <3>3 DEF DistinctKeys
    <3>. QED BY <1>2, <3>1, <3>4, LandsLand DEF Land, Bookkeeping
  <2>2. CASE q = Worker
    <3>1. o \in work.list /\ v.key \notin KeysOf(work.list)
      BY <1>2, <2>2, LandedStatus, LandedParts
    <3>. QED BY <1>0, <3>1 DEF KeysOf
  <2>3. CASE q = Sweeper
    <3>1. o \in folded /\ v \in ledger.status.reservations
      BY <1>2, <2>3, LandedStatus DEF SweepDraft
    <3>. QED BY <3>1 DEF NoDoubleCount
  <2>. QED BY <2>1, <2>2, <2>3 DEF Processes
<1>. QED BY <1>1, <1>2 DEF Landing

\* The hand-off never holds two slots for a named object (FoldConfirmed,
\* accounting.go:65-79), as long as no two requests name the same object.
THEOREM CountedOnce ==
    ASSUME DistinctKeys
    PROVE  Spec => []NoDoubleCount
<1>1. Init => NoDoubleCount
  BY DEF Init, NoDoubleCount
<1>2. TypeOK /\ DraftFresh /\ Bookkeeping /\ NoDoubleCount /\ [Next]_vars => NoDoubleCount'
  BY NextNoDoubleCount
<1>. QED BY <1>1, <1>2, TypeCorrect, NoLostUpdate, BookkeepingCorrect, PTL DEF Spec
-----------------------------------------------------------------------------
(* Slots are taken and freed one at a time.                                   *)

\* What a step may do to the objects a consumer is charged for: an admission
\* adds its own object, a failed create or a delete takes one away.
LEMMA ChargedStep ==
    ASSUME TypeOK, Bookkeeping, StrictInv, [Next]_vars
    PROVE  \/ Charged' = Charged
           \/ \E r \in Requests \ Charged : Lands(r) /\ Charged' = Charged \cup {r}
           \/ \E r \in Requests \cap Charged : Charged' = Charged \ {r}
<1>0. /\ pc \in [Processes -> RequestPC] /\ store \subseteq Requests
      /\ Worker \in Processes /\ Sweeper \in Processes /\ Requests \subseteq Processes
      /\ Worker \notin Requests /\ Sweeper \notin Requests
      /\ \A r \in store : pc[r] = "persisted"
  BY LedgerAssumption DEF TypeOK, Processes, Bookkeeping
<1>. USE DEF Charged
<1>1. ASSUME NEW r \in Requests, Handle(r) \/ RejectUnsynced(r) \/ Grant(r) \/ Deny(r)
      PROVE  Charged' = Charged
  BY <1>0, <1>1
  DEF Handle, RejectUnsynced, Grant, Deny, ReadLedger, Propose, requestVars, clusterVars
<1>2. ASSUME NEW r \in Requests PROVE ~AdmitAgain(r)
  BY NoSecondAdmission
<1>3. ASSUME NEW r \in Requests, Persist(r) PROVE Charged' = Charged
  <2>1. /\ \A x \in Requests : pc'[x] = IF x = r THEN "persisted" ELSE pc[x]
        /\ store' = store \cup {r} /\ pc[r] = "allowed"
    BY <1>0, <1>3 DEF Persist
  <2>. QED BY <1>0, <2>1
<1>4. ASSUME NEW r \in Requests, FailDownstream(r) PROVE r \in Charged /\ Charged' = Charged \ {r}
  <2>1. /\ \A x \in Requests : pc'[x] = IF x = r THEN "rejected" ELSE pc[x]
        /\ store' = store /\ pc[r] = "allowed"
    BY <1>0, <1>4 DEF FailDownstream, clusterVars
  <2>. QED BY <1>0, <2>1
<1>5. ASSUME NEW r \in Requests, Delete(r) PROVE r \in Charged /\ Charged' = Charged \ {r}
  <2>1. pc' = pc /\ store' = store \ {r} /\ r \in store
    BY <1>5 DEF Delete
  <2>. QED BY <1>0, <2>1
<1>6. ASSUME NEW q \in Processes, GetMissing(q) \/ CreateExists(q) \/ Conflict(q) \/ GiveUp(q)
      PROVE  Charged' = Charged
  BY <1>0, <1>6
  DEF GetMissing, CreateExists, Conflict, GiveUp, Failed, requestVars, clusterVars
<1>7. ASSUME NEW q \in Processes, LoseReply(q) PROVE Charged' = Charged
  BY <1>0, <1>7 DEF LoseReply, Land, Failed, clusterVars
<1>8. ASSUME NEW q \in Processes, Write(q)
      PROVE  \/ Charged' = Charged
             \/ q \in Requests \ Charged /\ Lands(q) /\ Charged' = Charged \cup {q}
  <2>0. pc[q] = "write" /\ store' = store /\ Lands(q)
    BY <1>8 DEF Write, Land, Lands, clusterVars
  <2>1. CASE q \in Requests
    <3>1. \A x \in Requests : pc'[x] = IF x = q THEN "allowed" ELSE pc[x]
      BY <1>0, <1>8, <2>1 DEF Write
    <3>. QED BY <1>0, <2>0, <2>1, <3>1
  <2>2. CASE q \notin Requests
    <3>1. \A x \in Requests : pc'[x] = pc[x]
      BY <1>0, <1>8, <2>2 DEF Write
    <3>. QED BY <2>0, <3>1
  <2>. QED BY <2>1, <2>2
<1>9. CASE Reconcile \/ SweepAll \/ Deliver \/ Crash \/ Restart \/ Tick \/ UNCHANGED vars
  BY <1>0, <1>9
  DEF Reconcile, SweepAll, StartReconcile, Fold, FoldUnchanged, SweepTick, SweepExpired,
      SweepUnchanged, Propose, ReadLedger, Deliver, Crash, Restart, Tick, clusterVars, vars
<1>. QED
  BY <1>1, <1>2, <1>3, <1>4, <1>5, <1>6, <1>7, <1>8, <1>9 DEF Next, Request, CAS

\* An admission lands below the highest limit.
LEMMA StrictStep ==
    ASSUME StrictHypotheses, TypeOK, TypeOK', DraftFresh, ConfirmedIsCount, Bookkeeping,
           StrictInv, [Next]_vars
    PROVE  [Strict!Next]_Charged
<1>1. IsFiniteSet(Charged) /\ Cardinality(Charged) \in Nat
  BY StrictImpliesCovered, ChargedCounted, FS_CardinalityType DEF StrictHypotheses
<1>2. HighestLimit \in Limits /\ \A m \in Limits : m <= HighestLimit
  BY HighestLimitAssumption DEF HighestLimit
<1>3. ASSUME NEW r \in Requests \ Charged, Lands(r), Charged' = Charged \cup {r}
      PROVE  Strict!Take(r)
  <2>1. lim[r] \in Limits /\ Cardinality(Charged') <= lim[r]
    BY <1>3, LandingWithinLimit
  <2>2. Cardinality(Charged') = Cardinality(Charged) + 1
    BY <1>1, <1>3, FS_AddElement
  <2>3. lim[r] \in Nat /\ HighestLimit \in Nat /\ lim[r] <= HighestLimit
    BY <1>2, <2>1, LedgerAssumption
  <2>4. Cardinality(Charged) < HighestLimit
    BY <1>1, <2>1, <2>2, <2>3
  <2>5. Strict!Cardinality(Charged) = Cardinality(Charged)
    BY DEF Strict!Cardinality, Cardinality
  <2>. QED BY <1>3, <2>4, <2>5 DEF Strict!Take
<1>4. ASSUME NEW r \in Requests \cap Charged, Charged' = Charged \ {r}
      PROVE  Strict!Free(r)
  BY <1>4 DEF Strict!Free
<1>. QED BY <1>3, <1>4, ChargedStep DEF Strict!Next

\* R1 as a whole, for any number of requests and replicas: under the hypotheses
\* of the strict promise, the webhook, Store.Apply, the reconciler and the
\* sweeper implement a quota whose slots are taken one at a time below the
\* highest limit and freed one at a time (creation_validator.go:54-90, usage_reconciler.go:41-59).
THEOREM StrictRefinement ==
    ASSUME StrictHypotheses
    PROVE  Spec => ImplementsStrictQuota
<1>1. Init => Strict!Init
  BY DEF Init, Strict!Init, Charged, Processes
<1>2. /\ TypeOK /\ TypeOK' /\ DraftFresh /\ ConfirmedIsCount /\ Bookkeeping
      /\ StrictInv /\ [Next]_vars
      => [Strict!Next]_Charged
  BY StrictStep
<1>. QED
  BY <1>1, <1>2, StrictInvariant, TypeCorrect, NoLostUpdate, ConfirmedCorrect, BookkeepingCorrect, PTL
  DEF Spec, ImplementsStrictQuota, Strict!Spec
=============================================================================
