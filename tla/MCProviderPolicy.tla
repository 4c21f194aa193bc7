-------------------------- MODULE MCProviderPolicy --------------------------
(* Instances of ProviderPolicy for TLC.                                       *)
EXTENDS ProviderPolicy, TLC

CONSTANTS c1, c2, g1, g2, id1, id2

AnyName == [c \in CQs |-> Governed]

\* One quota moves between the exports, the other stays with its own.
OneMoves == [c \in CQs |-> IF c = c1 THEN Governed ELSE {g2}]

\* Two resources of two exports.
OwnIdentity == [g \in Governed |-> IF g = g1 THEN id1 ELSE id2]
OwnResource == [g \in Governed |-> g]
=============================================================================
