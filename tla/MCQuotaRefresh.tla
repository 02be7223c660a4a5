--------------------------- MODULE MCQuotaRefresh ---------------------------
(***************************************************************************)
(* A small instance of QuotaRefresh for TLC: the database holds one token, *)
(* whose pool offers either a local mode or one the upstream accounts for. *)
(***************************************************************************)
EXTENDS QuotaRefresh

CONSTANTS t1, t2, local, remote

OneSuper  == [t \in Tokens |-> 2]
Flat      == [t \in Tokens |-> 0]
OneMode   == [t \in Tokens |-> [m \in Modes |->
                IF (t = t1) = (m = local) THEN 1 ELSE 0]]
Windows   == [m \in Modes |-> IF m = local THEN 2 ELSE 1]

(* Quota left, more than the limit even, and an exhausted window with the  *)
(* time to wait.                                                           *)
SomeAnswers == {[left |-> 2, limit |-> 1, wait |-> 0],
                [left |-> -1, limit |-> 1, wait |-> 2]}

OnlyToken(t) ==
  /\ tokens = {t}
  /\ status = [u \in Tokens |-> "active"]
  /\ failCount = [u \in Tokens |-> 0]
  /\ quota = DefaultQuota
  /\ limit = DefaultQuota
  /\ resumeAt = [u \in Tokens |-> [m \in Modes |-> 0]]
  /\ inflight = [u \in Tokens |-> 0]
  /\ recent = {}
  /\ dirty = {}

OneTokenInit == (\E t \in Tokens : OnlyToken(t)) /\ SchedulerInit

OneTokenSpec == OneTokenInit /\ [][Next]_vars /\ Fairness
=============================================================================
