---------------------------- MODULE TokenManager ----------------------------
(***************************************************************************)
(* The in-memory token registry of internal/token: TokenManager and the    *)
(* TokenPools it owns.  Every exported method of the Go type takes m.mu    *)
(* for its whole body, so a method is one atomic step and is written here  *)
(* as one action on the manager's variables.  The modules that EXTEND this *)
(* one are the callers; they decide in which order the methods run.        *)
(*                                                                         *)
(* Data abstractions.  A map entry that is missing in Go reads as zero, so *)
(* the quota maps are total functions.  lastPickedAt is the set `recent`   *)
(* of tokens whose last pick is still inside the penalty window, and the   *)
(* passing of that window is the action PenaltyExpires.  failCount is only *)
(* ever compared with FailThreshold, so it saturates there.  StatusReason, *)
(* LastUsed and the credentials are left out.                              *)
(***************************************************************************)
EXTENDS Integers, FiniteSets

CONSTANTS
  Tokens,             \* token IDs
  Modes,              \* quota modes of the model catalogue
  PoolLevel,          \* PoolLevel[t]: 1 ssoBasic, 2 ssoSuper, 3 ssoHeavy
  Priority,           \* Priority[t]: a higher tier is picked first
  DefaultQuota,       \* DefaultQuota[t][m]: the catalogue's quota for t's pool
  MaxInflight,        \* token.max_inflight, 0 = unlimited
  FailThreshold,      \* token.fail_threshold, 0 = never disable
  RecentUsePenalty,   \* token.recent_use_penalty_sec > 0
  Algorithm           \* token.selection_algorithm

PoolLevels == 1..3
Statuses   == {"active", "disabled", "expired"}

ASSUME ManagerAssumption ==
  /\ IsFiniteSet(Tokens)
  /\ PoolLevel \in [Tokens -> PoolLevels]
  /\ Priority \in [Tokens -> Int]
  /\ DefaultQuota \in [Tokens -> [Modes -> Nat]]
  /\ MaxInflight \in Nat
  /\ FailThreshold \in Nat
  /\ RecentUsePenalty \in BOOLEAN
  /\ Algorithm \in {"high_quota_first", "random", "round_robin"}

VARIABLES
  tokens,     \* the IDs the manager knows (m.tokens and the pools)
  status,     \* status[t]
  failCount,  \* failCount[t], saturating at FailThreshold
  quota,      \* quota[t][m]: remaining calls, pre-deducted by a pick
  limit,      \* limit[t][m]: 0 when unknown
  resumeAt,   \* resumeAt[t][m]: when to look at an exhausted mode, 0 = absent
  inflight,   \* inflight[t]: "active request count (memory-only)"
  recent,     \* tokens picked within the penalty window
  dirty       \* tokens whose row has to be written back

managerVars == <<tokens, status, failCount, quota, limit, resumeAt, inflight,
                 recent, dirty>>

ManagerTypeOK ==
  /\ tokens \subseteq Tokens
  /\ status \in [Tokens -> Statuses]
  /\ failCount \in [Tokens -> 0..FailThreshold]
  /\ quota \in [Tokens -> [Modes -> Nat]]
  /\ limit \in [Tokens -> [Modes -> Nat]]
  /\ resumeAt \in [Tokens -> [Modes -> Nat]]
  /\ inflight \in [Tokens -> Nat]
  /\ recent \subseteq Tokens
  /\ dirty \subseteq Tokens

(* LoadTokens on a database of imported, still unused tokens. *)
ManagerInit ==
  /\ tokens = Tokens
  /\ status = [t \in Tokens |-> "active"]
  /\ failCount = [t \in Tokens |-> 0]
  /\ quota = DefaultQuota
  /\ limit = DefaultQuota
  /\ resumeAt = [t \in Tokens |-> [m \in Modes |-> 0]]
  /\ inflight = [t \in Tokens |-> 0]
  /\ recent = {}
  /\ dirty = {}

-----------------------------------------------------------------------------
(* Selection: pool.selectWithExclude under manager.selectTrackedToken.     *)

(* Mutant: the limit is exceeded by one. *)
SaturatedLate == {t \in Tokens : MaxInflight > 0 /\ inflight[t] > MaxInflight}

(* addInflightExcludes: a hard exclusion. *)
Saturated == {t \in Tokens : MaxInflight > 0 /\ inflight[t] >= MaxInflight}

(* addRecentUseExcludes: a soft one, dropped when nothing else is left. *)
Penalised == IF RecentUsePenalty THEN recent ELSE {}

(* Mutant: an exhausted mode is still offered. *)
UsableExhausted(pool, m, exclude) ==
  {t \in tokens \ exclude : PoolLevel[t] = pool /\ status[t] = "active"}

Usable(pool, m, exclude) ==
  {t \in tokens \ exclude : /\ PoolLevel[t] = pool
                            /\ status[t] = "active"
                            /\ quota[t][m] > 0}

TopTier(S) == {t \in S : \A u \in S : Priority[u] <= Priority[t]}

(* Ties of high_quota_first are broken at random.  The round-robin counter *)
(* of a pool is advanced by every flow and mode, so its next choice is any *)
(* token of the tier, like random's.                                       *)
ByAlgorithm(S, m) ==
  IF Algorithm = "high_quota_first"
  THEN {t \in S : \A u \in S : quota[u][m] <= quota[t][m]}
  ELSE S

(* The tokens Pick(pool, m) may return; empty means ErrNoTokenAvailable. *)
Selectable(pool, m) ==
  LET fresh == Usable(pool, m, Saturated \cup Penalised)
      any   == Usable(pool, m, Saturated)
  IN  ByAlgorithm(TopTier(IF fresh # {} THEN fresh ELSE any), m)

-----------------------------------------------------------------------------
(* The methods.  Each but ReleaseInflightOnly returns early on an ID the   *)
(* manager does not know.                                                  *)

MarkDirty(t) == dirty' = dirty \cup {t}

(* releaseInflight: never below zero. *)
ReleaseInflight(t) ==
  inflight' = [inflight EXCEPT ![t] = IF @ > 0 THEN @ - 1 ELSE 0]

(* manager.pick with a selected token: charge the mode, count the request. *)
Pick(t, m) ==
  /\ quota' = [quota EXCEPT ![t][m] = @ - 1]
  /\ inflight' = [inflight EXCEPT ![t] = @ + 1]
  /\ recent' = recent \cup {t}
  /\ MarkDirty(t)
  /\ UNCHANGED <<tokens, status, failCount, limit, resumeAt>>

ReleaseInflightOnly(t) ==
  /\ ReleaseInflight(t)
  /\ UNCHANGED <<tokens, status, failCount, quota, limit, resumeAt, recent, dirty>>

(* Mutant: the failures before a success keep counting. *)
MarkSuccessKeepingCount(t) ==
  /\ status' = [status EXCEPT ![t] = "active"]
  /\ MarkDirty(t)
  /\ ReleaseInflight(t)
  /\ UNCHANGED <<tokens, failCount, quota, limit, resumeAt, recent>>

(* Any token a finished request used becomes active again. *)
MarkSuccess(t) ==
  IF t \in tokens
  THEN /\ status' = [status EXCEPT ![t] = "active"]
       /\ failCount' = [failCount EXCEPT ![t] = 0]
       /\ MarkDirty(t)
       /\ ReleaseInflight(t)
       /\ UNCHANGED <<tokens, quota, limit, resumeAt, recent>>
  ELSE UNCHANGED managerVars

(* The failure bookkeeping MarkFailed and MarkFailedKeepInflight share. *)
CountFailure(t) ==
  LET fails == IF failCount[t] < FailThreshold THEN failCount[t] + 1 ELSE FailThreshold
  IN  /\ failCount' = [failCount EXCEPT ![t] = fails]
      /\ status' = [status EXCEPT ![t] =
                      IF FailThreshold > 0 /\ fails >= FailThreshold THEN "disabled" ELSE @]
      /\ MarkDirty(t)

MarkFailed(t) ==
  IF t \in tokens
  THEN /\ CountFailure(t)
       /\ ReleaseInflight(t)
       /\ UNCHANGED <<tokens, quota, limit, resumeAt, recent>>
  ELSE UNCHANGED managerVars

(* Mutant: the count is dropped although the request keeps the token. *)
MarkFailedDroppingInflight(t) == MarkFailed(t)

MarkFailedKeepInflight(t) ==
  IF t \in tokens
  THEN /\ CountFailure(t)
       /\ UNCHANGED <<tokens, quota, limit, resumeAt, inflight, recent>>
  ELSE UNCHANGED managerVars

MarkExpired(t) ==
  IF t \in tokens
  THEN /\ status' = [status EXCEPT ![t] = "expired"]
       /\ MarkDirty(t)
       /\ ReleaseInflight(t)
       /\ UNCHANGED <<tokens, failCount, quota, limit, resumeAt, recent>>
  ELSE UNCHANGED managerVars

(* Mutant: the cap is missing. *)
RefundedUncapped(q, lim) == q + 1

(* cappedRefund: a limit of zero means the limit is not known. *)
Refunded(q, lim) == IF lim > 0 /\ q + 1 > lim THEN lim ELSE q + 1

RefundQuota(t, m) ==
  IF t \in tokens
  THEN /\ quota' = [quota EXCEPT ![t][m] = Refunded(quota[t][m], limit[t][m])]
       /\ MarkDirty(t)
       /\ UNCHANGED <<tokens, status, failCount, limit, resumeAt, inflight, recent>>
  ELSE UNCHANGED managerVars

ClearModeQuota(t, m) ==
  IF t \in tokens
  THEN /\ quota' = [quota EXCEPT ![t][m] = 0]
       /\ ReleaseInflight(t)
       /\ MarkDirty(t)
       /\ UNCHANGED <<tokens, status, failCount, limit, resumeAt, recent>>
  ELSE UNCHANGED managerVars

SetResumeAt(t, m, at) ==
  IF t \in tokens
  THEN /\ resumeAt' = [resumeAt EXCEPT ![t][m] = at]
       /\ MarkDirty(t)
       /\ UNCHANGED <<tokens, status, failCount, quota, limit, inflight, recent>>
  ELSE UNCHANGED managerVars

ClearResumeAt(t, m) == SetResumeAt(t, m, 0)

UpdateModeQuota(t, m, remaining, lim) ==
  IF t \in tokens
  THEN /\ quota' = [quota EXCEPT ![t][m] =
                      IF lim > 0 /\ remaining > lim THEN lim ELSE remaining]
       /\ limit' = [limit EXCEPT ![t][m] = lim]
       /\ MarkDirty(t)
       /\ UNCHANGED <<tokens, status, failCount, resumeAt, inflight, recent>>
  ELSE UNCHANGED managerVars

(* recentlyPickedIDs drops a token once the penalty window is over. *)
PenaltyExpires(t) ==
  /\ t \in recent
  /\ recent' = recent \ {t}
  /\ UNCHANGED <<tokens, status, failCount, quota, limit, resumeAt, inflight, dirty>>

-----------------------------------------------------------------------------
(* What the methods keep true together, whoever calls them.                *)

(* A refund that arrives after a refresh has already restored the quota    *)
(* does not push it past the limit the upstream reported.                  *)
QuotaWithinLimit ==
  \A t \in Tokens, m \in Modes : limit[t][m] > 0 => quota[t][m] <= limit[t][m]

(* A token that has failed FailThreshold times in a row is not picked      *)
(* again until a request that was still using it succeeds.                 *)
ThresholdDisables ==
  \A t \in Tokens :
    FailThreshold > 0 /\ failCount[t] = FailThreshold => status[t] # "active"

=============================================================================
