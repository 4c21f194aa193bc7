-------------------------- MODULE LedgerRefinement --------------------------
(* QuotaLedger seen through its two abstract specifications.                  *)
EXTENDS QuotaLedger

\* A limit is an int32 (ConsumptionQuota's defaultLimit): there is a highest one.
ASSUME HighestLimitAssumption == \E l \in Limits : \A m \in Limits : m <= l

ListedKey(o) == Name[o]

Atomic == INSTANCE AtomicLedger WITH
    status <- ledger.status,
    ReservationKeys <- {RequestKey(r) : r \in Requests},
    Objects <- Requests,
    KeyOf <- ListedKey

\* The highest limit any replica has ever been given.
HighestLimit == CHOOSE l \in Limits : \A m \in Limits : m <= l

Strict == INSTANCE StrictQuota WITH
    held <- Charged,
    Objects <- Requests,
    Limit <- HighestLimit

\* Store.Apply (store.go:49-121) is atomic: whatever the interleaving of GET, CREATE, UPDATE,
\* conflicts, errors and lost answers of all the writers, the stored status
\* changes as if each update were one step on the current status.
ApplyIsAtomic == Atomic!Spec

\* R1 as a whole: the webhook, the ledger, the reconciler and the sweeper
\* together implement a quota whose slots are taken one at a time below the limit
\* and freed one at a time.
ImplementsStrictQuota == Strict!Spec
=============================================================================
