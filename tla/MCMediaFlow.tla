----------------------------- MODULE MCMediaFlow -----------------------------
(* Small instances of MediaFlow for TLC. *)
EXTENDS MediaFlow, TLC

CONSTANTS r1, r2, t1, t2, t3, m1

OnePool      == [t \in Tokens |-> 3]
FlatPriority == [t \in Tokens |-> 0]
Quota(n)     == [t \in Tokens |-> [m \in Modes |-> n]]
QuotaOne     == Quota(1)

(* Any kind of request next to any kind. *)
AnyKind == [r \in Reqs |-> {"ws", "lite", "edit", "video"}]

(* Nothing distinguishes two requests, or two tokens. *)
FlowSymmetry == Permutations(Tokens) \cup Permutations(Reqs)
=============================================================================
