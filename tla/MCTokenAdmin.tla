---------------------------- MODULE MCTokenAdmin ----------------------------
(***************************************************************************)
(* A small instance of TokenAdmin for TLC.                                 *)
(***************************************************************************)
EXTENDS TokenAdmin, TLC

CONSTANTS m

OnePool  == [t \in Tokens |-> 1]
Flat     == [t \in Tokens |-> 0]
QuotaOne == [t \in Tokens |-> [k \in Modes |-> 1]]

NoQuotas == [k \in {} |-> 0]
SomeUpdates == {[status |-> "disabled", quotas |-> NoQuotas],
                [status |-> "keep", quotas |-> [k \in {m} |-> 2]]}

Reported == {<<2, 2>>}

AdminSymmetry == Permutations(Admins)
=============================================================================
