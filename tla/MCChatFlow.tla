----------------------------- MODULE MCChatFlow -----------------------------
(***************************************************************************)
(* Small instances of ChatFlow for TLC: the functions the configurations   *)
(* give to its CONSTANTS.                                                  *)
(***************************************************************************)
EXTENDS ChatFlow, TLC

CONSTANTS r1, t1, m1, m2   \* the values the functions below tell apart

OnePool   == [t \in Tokens |-> 3]
TwoPools  == [t \in Tokens |-> IF t = t1 THEN 2 ELSE 3]
FromSuper == [r \in Requests |-> 2]
FromHeavy == [r \in Requests |-> 3]

FlatPriority == [t \in Tokens |-> 0]
TwoTiers     == [t \in Tokens |-> IF t = t1 THEN 1 ELSE 0]

QuotaOne   == [t \in Tokens |-> [m \in Modes |-> 1]]
QuotaTwo   == [t \in Tokens |-> [m \in Modes |-> 2]]
QuotaThree == [t \in Tokens |-> [m \in Modes |-> 3]]

OneMode  == [r \in Requests |-> m1]

NoRefresh   == {}
FullOrEmpty == {<<0, 1>>, <<1, 1>>}   \* an exhausted mode, a restored one

RequestSymmetry == Permutations(Requests)
=============================================================================
