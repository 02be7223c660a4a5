------------------------- MODULE MCTokenPersistence -------------------------
(***************************************************************************)
(* Small instances of TokenPersistence for TLC.                            *)
(***************************************************************************)
EXTENDS TokenPersistence, TLC

OnePool      == [t \in Tokens |-> 1]
FlatPriority == [t \in Tokens |-> 0]
QuotaOne     == [t \in Tokens |-> [m \in Modes |-> 1]]

Empty == {<<0, 1>>}   \* what the upstream answers for an exhausted mode

FlusherSymmetry == Permutations(Flushers)
=============================================================================
