------------------------- MODULE TokenManager_proofs ------------------------
(***************************************************************************)
(* Facts about the manager's methods that the proofs about its callers     *)
(* cite: each method keeps the manager well typed.                         *)
(***************************************************************************)
EXTENDS TokenManager, TLAPS

(* One entry of a quota map is overwritten, the map keeps its type. *)
LEMMA CellUpdate ==
  ASSUME NEW f \in [Tokens -> [Modes -> Nat]], NEW t \in Tokens, NEW m \in Modes,
         NEW v \in Nat
  PROVE  [f EXCEPT ![t][m] = v] \in [Tokens -> [Modes -> Nat]]
OBVIOUS

(* Pick charges a mode that has quota left, so the quota stays natural. *)
LEMMA PickType ==
  ASSUME ManagerTypeOK, NEW t \in Tokens, NEW m \in Modes, quota[t][m] > 0, Pick(t, m)
  PROVE  ManagerTypeOK'
<1>1. quota' \in [Tokens -> [Modes -> Nat]]
  BY DEF ManagerTypeOK, Pick
<1>2. inflight' \in [Tokens -> Nat]
  BY DEF ManagerTypeOK, Pick
<1> QED
  BY <1>1, <1>2 DEF ManagerTypeOK, Pick, MarkDirty

(* releaseInflight never takes the counter below zero. *)
LEMMA ReleaseType ==
  ASSUME ManagerTypeOK, NEW t \in Tokens, ReleaseInflight(t)
  PROVE  inflight' \in [Tokens -> Nat]
BY DEF ManagerTypeOK, ReleaseInflight

LEMMA ReleaseOnlyType ==
  ASSUME ManagerTypeOK, NEW t \in Tokens, ReleaseInflightOnly(t)
  PROVE  ManagerTypeOK'
<1>1. inflight' \in [Tokens -> Nat]
  BY ReleaseType DEF ReleaseInflightOnly
<1> QED
  BY <1>1 DEF ManagerTypeOK, ReleaseInflightOnly

LEMMA StutterType ==
  ASSUME ManagerTypeOK, UNCHANGED managerVars
  PROVE  ManagerTypeOK'
BY DEF ManagerTypeOK, managerVars

LEMMA MarkSuccessType ==
  ASSUME ManagerTypeOK, NEW t \in Tokens, MarkSuccess(t)
  PROVE  ManagerTypeOK'
<1>1. CASE t \in tokens
  <2>1. inflight' \in [Tokens -> Nat]
    BY <1>1, ReleaseType DEF MarkSuccess
  <2>2. status' \in [Tokens -> Statuses]
    BY <1>1 DEF MarkSuccess, ManagerTypeOK, Statuses
  <2>3. 0 \in 0..FailThreshold
    BY ManagerAssumption
  <2>4. failCount' \in [Tokens -> 0..FailThreshold]
    BY <1>1, <2>3 DEF MarkSuccess, ManagerTypeOK
  <2> QED
    BY <1>1, <2>1, <2>2, <2>4 DEF MarkSuccess, ManagerTypeOK, MarkDirty
<1>2. CASE t \notin tokens
  BY <1>2, StutterType DEF MarkSuccess
<1> QED
  BY <1>1, <1>2

(* The saturating failure counter stays between zero and the threshold. *)
LEMMA CountFailureType ==
  ASSUME ManagerTypeOK, NEW t \in Tokens, CountFailure(t)
  PROVE  /\ status' \in [Tokens -> Statuses]
         /\ failCount' \in [Tokens -> 0..FailThreshold]
         /\ dirty' \subseteq Tokens
BY ManagerAssumption DEF CountFailure, ManagerTypeOK, Statuses, MarkDirty

LEMMA MarkFailedType ==
  ASSUME ManagerTypeOK, NEW t \in Tokens, MarkFailed(t)
  PROVE  ManagerTypeOK'
<1>1. CASE t \in tokens
  BY <1>1, ReleaseType, CountFailureType DEF MarkFailed, ManagerTypeOK
<1>2. CASE t \notin tokens
  BY <1>2, StutterType DEF MarkFailed
<1> QED
  BY <1>1, <1>2

LEMMA MarkFailedKeepType ==
  ASSUME ManagerTypeOK, NEW t \in Tokens, MarkFailedKeepInflight(t)
  PROVE  ManagerTypeOK'
<1>1. CASE t \in tokens
  BY <1>1, CountFailureType DEF MarkFailedKeepInflight, ManagerTypeOK
<1>2. CASE t \notin tokens
  BY <1>2, StutterType DEF MarkFailedKeepInflight
<1> QED
  BY <1>1, <1>2

LEMMA MarkExpiredType ==
  ASSUME ManagerTypeOK, NEW t \in Tokens, MarkExpired(t)
  PROVE  ManagerTypeOK'
<1>1. CASE t \in tokens
  BY <1>1, ReleaseType DEF MarkExpired, ManagerTypeOK, Statuses, MarkDirty
<1>2. CASE t \notin tokens
  BY <1>2, StutterType DEF MarkExpired
<1> QED
  BY <1>1, <1>2

(* A capped refund adds at most one unit and respects a known limit. *)
LEMMA RefundedBound ==
  ASSUME NEW q \in Nat, NEW lim \in Nat
  PROVE  /\ Refunded(q, lim) \in Nat
         /\ Refunded(q, lim) <= q + 1
         /\ lim > 0 => Refunded(q, lim) <= lim
BY DEF Refunded

LEMMA RefundType ==
  ASSUME ManagerTypeOK, NEW t \in Tokens, NEW m \in Modes, RefundQuota(t, m)
  PROVE  ManagerTypeOK'
<1>1. CASE t \in tokens
  <2>1. Refunded(quota[t][m], limit[t][m]) \in Nat
    BY RefundedBound DEF ManagerTypeOK
  <2>2. quota' \in [Tokens -> [Modes -> Nat]]
    <3>1. quota' = [quota EXCEPT ![t][m] = Refunded(quota[t][m], limit[t][m])]
      BY <1>1 DEF RefundQuota
    <3>2. quota \in [Tokens -> [Modes -> Nat]]
      BY DEF ManagerTypeOK
    <3> QED
      BY <3>1, <3>2, <2>1, CellUpdate
  <2> QED
    BY <1>1, <2>2 DEF RefundQuota, ManagerTypeOK, MarkDirty
<1>2. CASE t \notin tokens
  BY <1>2, StutterType DEF RefundQuota
<1> QED
  BY <1>1, <1>2

LEMMA ClearModeType ==
  ASSUME ManagerTypeOK, NEW t \in Tokens, NEW m \in Modes, ClearModeQuota(t, m)
  PROVE  ManagerTypeOK'
<1>1. CASE t \in tokens
  <2>1. quota' \in [Tokens -> [Modes -> Nat]]
    <3>1. quota' = [quota EXCEPT ![t][m] = 0]
      BY <1>1 DEF ClearModeQuota
    <3>2. quota \in [Tokens -> [Modes -> Nat]]
      BY DEF ManagerTypeOK
    <3> QED
      BY <3>1, <3>2, CellUpdate
  <2>2. inflight' \in [Tokens -> Nat]
    BY <1>1, ReleaseType DEF ClearModeQuota
  <2> QED
    BY <1>1, <2>1, <2>2 DEF ClearModeQuota, ManagerTypeOK, MarkDirty
<1>2. CASE t \notin tokens
  BY <1>2, StutterType DEF ClearModeQuota
<1> QED
  BY <1>1, <1>2

LEMMA SetResumeType ==
  ASSUME ManagerTypeOK, NEW t \in Tokens, NEW m \in Modes, NEW at \in Nat,
         SetResumeAt(t, m, at)
  PROVE  ManagerTypeOK'
<1>1. CASE t \in tokens
  <2>1. resumeAt' \in [Tokens -> [Modes -> Nat]]
    <3>1. resumeAt' = [resumeAt EXCEPT ![t][m] = at]
      BY <1>1 DEF SetResumeAt
    <3>2. resumeAt \in [Tokens -> [Modes -> Nat]]
      BY DEF ManagerTypeOK
    <3> QED
      BY <3>1, <3>2, CellUpdate
  <2> QED
    BY <1>1, <2>1 DEF SetResumeAt, ManagerTypeOK, MarkDirty
<1>2. CASE t \notin tokens
  BY <1>2, StutterType DEF SetResumeAt
<1> QED
  BY <1>1, <1>2

LEMMA UpdateQuotaType ==
  ASSUME ManagerTypeOK, NEW t \in Tokens, NEW m \in Modes,
         NEW remaining \in Nat, NEW lim \in Nat, UpdateModeQuota(t, m, remaining, lim)
  PROVE  ManagerTypeOK'
<1>1. CASE t \in tokens
  <2>1. quota' \in [Tokens -> [Modes -> Nat]]
    <3>1. quota' = [quota EXCEPT ![t][m] = IF lim > 0 /\ remaining > lim THEN lim ELSE remaining]
      BY <1>1 DEF UpdateModeQuota
    <3>2. quota \in [Tokens -> [Modes -> Nat]]
      BY DEF ManagerTypeOK
    <3> QED
      BY <3>1, <3>2, CellUpdate
  <2>2. limit' \in [Tokens -> [Modes -> Nat]]
    <3>1. limit' = [limit EXCEPT ![t][m] = lim]
      BY <1>1 DEF UpdateModeQuota
    <3>2. limit \in [Tokens -> [Modes -> Nat]]
      BY DEF ManagerTypeOK
    <3> QED
      BY <3>1, <3>2, CellUpdate
  <2> QED
    BY <1>1, <2>1, <2>2 DEF UpdateModeQuota, ManagerTypeOK, MarkDirty
<1>2. CASE t \notin tokens
  BY <1>2, StutterType DEF UpdateModeQuota
<1> QED
  BY <1>1, <1>2

LEMMA PenaltyType ==
  ASSUME ManagerTypeOK, NEW t \in Tokens, PenaltyExpires(t)
  PROVE  ManagerTypeOK'
BY DEF ManagerTypeOK, PenaltyExpires

(* What Pick may return is an active token of the pool that has quota left *)
(* in the mode and is below max_inflight, penalty fallback or not.         *)
LEMMA SelectableFacts ==
  ASSUME ManagerTypeOK, NEW p, NEW m \in Modes, NEW t \in Selectable(p, m)
  PROVE  /\ t \in Tokens
         /\ PoolLevel[t] = p
         /\ status[t] = "active"
         /\ quota[t][m] > 0
         /\ MaxInflight > 0 => inflight[t] < MaxInflight
<1> DEFINE fresh == Usable(p, m, Saturated \cup Penalised)
           any   == Usable(p, m, Saturated)
           S     == IF fresh # {} THEN fresh ELSE any
<1>1. t \in TopTier(S)
  BY DEF Selectable, ByAlgorithm
<1>2. t \in any
  BY <1>1 DEF TopTier, Usable
<1>3. t \in Tokens
  BY <1>2 DEF Usable, ManagerTypeOK
<1>4. MaxInflight > 0 => inflight[t] < MaxInflight
  BY <1>2, <1>3, ManagerAssumption DEF Usable, Saturated, ManagerTypeOK
<1> QED
  BY <1>2, <1>3, <1>4 DEF Usable

-----------------------------------------------------------------------------
(* A call of any method a flow or the scheduler uses, with any arguments   *)
(* they may pass: a pick only charges a mode that has quota left.          *)
CallOn(t) ==
  \/ MarkSuccess(t) \/ MarkFailed(t) \/ MarkFailedKeepInflight(t) \/ MarkExpired(t)
  \/ ReleaseInflightOnly(t) \/ PenaltyExpires(t)
  \/ \E m \in Modes :
       \/ quota[t][m] > 0 /\ Pick(t, m)
       \/ RefundQuota(t, m)
       \/ ClearModeQuota(t, m)
       \/ \E at \in Nat : SetResumeAt(t, m, at)
       \/ \E remaining \in Nat, lim \in Nat : UpdateModeQuota(t, m, remaining, lim)

MethodCall == \E t \in Tokens : CallOn(t)

(* Only MarkSuccess reactivates a token, and it forgets the failures too. *)
LEMMA MethodsKeepThreshold ==
  ASSUME ManagerTypeOK, ThresholdDisables, MethodCall
  PROVE  ThresholdDisables'
<1> PICK t \in Tokens : CallOn(t)
  BY DEF MethodCall
<1>1. CASE UNCHANGED <<status, failCount>>
  BY <1>1 DEF ThresholdDisables
<1>2. CASE t \in tokens /\ MarkSuccess(t)
  <2>0. failCount \in [Tokens -> 0..FailThreshold] /\ status \in [Tokens -> Statuses]
    BY DEF ManagerTypeOK
  <2>1. /\ failCount' = [failCount EXCEPT ![t] = 0]
        /\ status' = [status EXCEPT ![t] = "active"]
    BY <1>2 DEF MarkSuccess
  <2> SUFFICES ASSUME NEW u \in Tokens, FailThreshold > 0, failCount'[u] = FailThreshold
               PROVE  status'[u] # "active"
    BY DEF ThresholdDisables
  <2>2. u # t
    BY <2>0, <2>1
  <2> QED
    BY <2>0, <2>1, <2>2 DEF ThresholdDisables
<1>3. CASE t \in tokens /\ MarkExpired(t)
  BY <1>3 DEF MarkExpired, ManagerTypeOK, ThresholdDisables
<1>4. CASE CountFailure(t)
  <2>0. FailThreshold \in Nat /\ failCount \in [Tokens -> 0..FailThreshold]
        /\ status \in [Tokens -> Statuses]
    BY ManagerAssumption DEF ManagerTypeOK
  <2> DEFINE fails == IF failCount[t] < FailThreshold THEN failCount[t] + 1
                                                     ELSE FailThreshold
  <2>1. /\ failCount' = [failCount EXCEPT ![t] = fails]
        /\ status' = [status EXCEPT ![t] =
                        IF FailThreshold > 0 /\ fails >= FailThreshold THEN "disabled" ELSE @]
    BY <1>4 DEF CountFailure
  <2> SUFFICES ASSUME NEW u \in Tokens, FailThreshold > 0, failCount'[u] = FailThreshold
               PROVE  status'[u] # "active"
    BY DEF ThresholdDisables
  <2>2. CASE u = t
    <3>1. fails = FailThreshold
      BY <2>0, <2>1, <2>2
    <3> QED
      BY <2>0, <2>1, <2>2, <3>1
  <2>3. CASE u # t
    BY <2>0, <2>1, <2>3 DEF ThresholdDisables
  <2> QED
    BY <2>2, <2>3
<1> QED
  BY <1>1, <1>2, <1>3, <1>4
  DEF CallOn, MarkSuccess, MarkFailed, MarkFailedKeepInflight, MarkExpired,
      ReleaseInflightOnly, PenaltyExpires, Pick, RefundQuota, ClearModeQuota, SetResumeAt, UpdateModeQuota,
      managerVars

(* One cell of the quota and of the limit map is overwritten by values     *)
(* that respect the limit.                                                 *)
LEMMA MethodsKeepLimit ==
  ASSUME ManagerTypeOK, QuotaWithinLimit, MethodCall
  PROVE  QuotaWithinLimit'
<1> PICK t \in Tokens : CallOn(t)
  BY DEF MethodCall
<1>0. quota \in [Tokens -> [Modes -> Nat]] /\ limit \in [Tokens -> [Modes -> Nat]]
  BY DEF ManagerTypeOK
<1>1. CASE UNCHANGED <<quota, limit>>
  BY <1>1 DEF QuotaWithinLimit
<1>2. ASSUME NEW m \in Modes, Pick(t, m), quota[t][m] > 0 PROVE QuotaWithinLimit'
  BY <1>0, <1>2 DEF Pick, QuotaWithinLimit
<1>3. ASSUME NEW m \in Modes, RefundQuota(t, m), t \in tokens PROVE QuotaWithinLimit'
  <2>1. limit[t][m] > 0 => Refunded(quota[t][m], limit[t][m]) <= limit[t][m]
    BY <1>0, RefundedBound
  <2> QED
    BY <1>0, <1>3, <2>1 DEF RefundQuota, QuotaWithinLimit
<1>4. ASSUME NEW m \in Modes, ClearModeQuota(t, m), t \in tokens PROVE QuotaWithinLimit'
  BY <1>0, <1>4 DEF ClearModeQuota, QuotaWithinLimit
<1>5. ASSUME NEW m \in Modes, NEW remaining \in Nat, NEW lim \in Nat,
             UpdateModeQuota(t, m, remaining, lim), t \in tokens
      PROVE  QuotaWithinLimit'
  BY <1>0, <1>5 DEF UpdateModeQuota, QuotaWithinLimit
<1> QED
  BY <1>1, <1>2, <1>3, <1>4, <1>5
  DEF CallOn, MarkSuccess, MarkFailed, MarkFailedKeepInflight, MarkExpired,
      ReleaseInflightOnly, PenaltyExpires, RefundQuota, ClearModeQuota, SetResumeAt, UpdateModeQuota,
      managerVars

=============================================================================
