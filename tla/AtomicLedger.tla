---------------------------- MODULE AtomicLedger ----------------------------
(* What Store.Apply promises its callers: each update of the usage status     *)
(* happens in one step, computed from the status it replaces.  There are no   *)
(* drafts, resourceVersions or retries here.                                  *)
EXTENDS Accounting

CONSTANTS
    ReservationKeys,  \* keys a request may reserve under
    Objects,          \* objects the reconciler may have listed
    KeyOf(_),         \* their keys
    Limits,
    MaxSkew

VARIABLES status, now

Init == status = NoUsage /\ now = 0

\* A slot is granted on the status of this very step, by a process whose clock
\* did not run more than MaxSkew ahead when it decided.
Grant(k, l, t) ==
    /\ ~Reserved(status, k, t)
    /\ Used(status, t) < l
    /\ status' = WithReservation(status, k, t)
    /\ UNCHANGED now

Recount(S) ==
    /\ status' = FoldConfirmed(status, Cardinality(S), {KeyOf(o) : o \in S})
    /\ UNCHANGED now

Expire(t) == status' = Sweep(status, t) /\ UNCHANGED now

Tick == now' = now + 1 /\ UNCHANGED status

Next ==
    \/ \E t \in 0 .. (now + MaxSkew) :
          \/ \E k \in ReservationKeys, l \in Limits : Grant(k, l, t)
          \/ Expire(t)
    \/ \E S \in SUBSET Objects : Recount(S)
    \/ Tick

Spec == Init /\ [][Next]_<<status, now>>
=============================================================================
