----------------------------- MODULE StrictQuota -----------------------------
(* The promise the project makes to a provider (requirement R1): a consumer   *)
(* takes and frees slots one at a time and never holds more than the limit.   *)
EXTENDS Naturals, FiniteSets

CONSTANTS Objects, Limit

VARIABLE held

Init == held = {}

Take(o) == o \notin held /\ Cardinality(held) < Limit /\ held' = held \cup {o}

Free(o) == o \in held /\ held' = held \ {o}

Next == \E o \in Objects : Take(o) \/ Free(o)

Spec == Init /\ [][Next]_held
=============================================================================
