----------------------------- MODULE Accounting -----------------------------
(* The pure reservation arithmetic of internal/accounting: a usage status is  *)
(* the confirmed count plus the reservations still held for creates that were *)
(* admitted but not yet observed.                                             *)
(*                                                                            *)
(* The code keeps the reservations in a slice, appends to it and filters it.  *)
(* Nothing reads their order and two equal entries cannot arise (Reserve adds *)
(* a key only when no live entry has it, and a live entry expires later than  *)
(* any expired one), so a set of [key, expiresAt] records says the same.      *)
(* Time is a natural number of ticks.                                         *)
EXTENDS Naturals, FiniteSets

CONSTANTS
    TTL,      \* reservation lifetime (--reservation-ttl), in ticks
    Second    \* ticks in one second: what a metav1.Time keeps when it is stored

ASSUME AccountingAssumption ==
    /\ TTL \in Nat
    /\ Second \in Nat \ {0}

NoUsage == [confirmed |-> 0, reservations |-> {}]

\* metav1.Time is serialised as RFC 3339 with whole seconds, so what the next
\* reader of the stored status sees is the time rounded down to a second.
Stored(t) == t - (t % Second)

Live(st, t) == {v \in st.reservations : v.expiresAt > t}

\* Mutant: the limit is compared with confirmed alone.
UsedConfirmedOnly(st, t) == st.confirmed

Used(st, t) == st.confirmed + Cardinality(Live(st, t))

\* Mutant: the loop over the reservations never matches its key.
ReservedNever(st, key, t) == FALSE

Reserved(st, key, t) == \E v \in Live(st, t) : v.key = key

\* Mutant: a granted slot is counted as confirmed at once.
WithReservationConfirmed(st, key, t) ==
    [confirmed |-> st.confirmed + 1,
     reservations |-> st.reservations \cup {[key |-> key, expiresAt |-> Stored(t + TTL)]}]

WithReservation(st, key, t) ==
    [st EXCEPT !.reservations = @ \cup {[key |-> key, expiresAt |-> Stored(t + TTL)]}]

\* The status Reserve returns, and its second result.
Reserve(st, key, limit, t) ==
    IF Reserved(st, key, t) \/ Used(st, t) >= limit THEN st ELSE WithReservation(st, key, t)

ReserveOK(st, key, limit, t) == Reserved(st, key, t) \/ Used(st, t) < limit

\* Mutants: the comparison inverted, and inclusive at the moment of expiry.
SweepLive(st, t) == [st EXCEPT !.reservations = @ \ Live(st, t)]
SweepLater(st, t) == [st EXCEPT !.reservations = {v \in @ : v.expiresAt >= t}]

Sweep(st, t) == [st EXCEPT !.reservations = Live(st, t)]

\* Mutants: the status is rebuilt from the list alone; reservations are taken
\* out of the count instead of being matched by key.
FoldForgetting(st, trueCount, liveKeys) == [confirmed |-> trueCount, reservations |-> {}]
FoldSubtracting(st, trueCount, liveKeys) ==
    [confirmed |-> trueCount - Cardinality(st.reservations), reservations |-> st.reservations]

FoldConfirmed(st, trueCount, liveKeys) ==
    [confirmed |-> trueCount, reservations |-> {v \in st.reservations : v.key \notin liveKeys}]
=============================================================================
