--------------------------- MODULE MCQuotaLedger ---------------------------
(* Instances of QuotaLedger for TLC.                                          *)
EXTENDS LedgerRefinement, TLC

CONSTANTS r1, r2, r3

\* Every request names an object of its own.
DistinctName == [r \in Requests |-> r]

\* r2 creates, or creates again, the object r1 names.
SharedName == [r \in Requests |-> IF r = r2 THEN r1 ELSE r]

RequestUid == [r \in Requests |-> <<"uid", r>>]

\* Requests that differ in nothing but their identity.
Interchangeable == Permutations(Requests \ Generated)
=============================================================================
