-------------------------- MODULE MCRegistryWatcher --------------------------
(* Instances of RegistryWatcher for TLC.                                      *)
EXTENDS RegistryWatcher, TLC

CONSTANTS c1, c2, r1, r2, r3, s1, s2

OwnRef   == [c \in CQs |-> IF c = c1 THEN {r1, r3} ELSE {r2}]
OwnShard == [c \in CQs |-> IF c = c1 THEN s1 ELSE s2]
=============================================================================
