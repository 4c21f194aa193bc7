------------------------ MODULE MCAccountingManager ------------------------
(* Instances of AccountingManager for TLC.                                    *)
EXTENDS AccountingManager, TLC

CONSTANTS c1, c2, g1, g2, i1, i2, i3

\* Two exports of their own, and two versions of one export.
OwnKey    == [g \in Governed |-> g]
SharedKey == [g \in Governed |-> g1]

AnyName == [c \in CQs |-> Governed]

Alike == Permutations(Instances)
=============================================================================
