----------------------------- MODULE TokenLease -----------------------------
(***************************************************************************)
(* What the token manager promises the request flows, without pools,       *)
(* quotas, statuses, errors or retries: a request borrows at most one      *)
(* token at a time, gives it back before it borrows another, and no token  *)
(* is ever lent to more than MaxInflight requests (0 means no limit, as    *)
(* in config.defaults.toml).                                               *)
(***************************************************************************)
EXTENDS Integers, FiniteSets

CONSTANTS Requests,     \* the client requests the flows serve
          Tokens,       \* the upstream credentials
          NoToken,      \* the lease of a request that holds nothing
          MaxInflight   \* token.max_inflight

VARIABLE lease          \* lease[r] is the token request r holds, or NoToken

Borrowers(t) == {r \in Requests : lease[r] = t}

Init == lease = [r \in Requests |-> NoToken]

Acquire(r, t) ==
  /\ lease[r] = NoToken
  /\ MaxInflight > 0 => Cardinality(Borrowers(t)) < MaxInflight
  /\ lease' = [lease EXCEPT ![r] = t]

Release(r) ==
  /\ lease[r] # NoToken
  /\ lease' = [lease EXCEPT ![r] = NoToken]

Next == \E r \in Requests : Release(r) \/ \E t \in Tokens : Acquire(r, t)

Spec == Init /\ [][Next]_lease
=============================================================================
