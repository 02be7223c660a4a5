--------------------------- MODULE ChatFlow_proofs --------------------------
(***************************************************************************)
(* What holds of ChatFlow for every set of requests and tokens and every   *)
(* configuration.  The inductive invariant is IInv: a request's locals are *)
(* consistent with where it stands (RetryBounds), the manager knows every  *)
(* token, and no counter is below the number of requests it stands for.    *)
(***************************************************************************)
EXTENDS ChatFlow, TokenManager_proofs, FiniteSetTheorems

Loaded == tokens = Tokens

-----------------------------------------------------------------------------
(* The goroutine's locals.                                                 *)

(* Returning resets the locals of one request and nothing else. *)
LEMMA FinishLocals ==
  ASSUME FlowTypeOK, RetryBounds, NEW r \in Requests, Finish(r)
  PROVE  FlowTypeOK' /\ RetryBounds'
<1>0. 0 \in 0..MaxAttempts /\ 0 \in 0..PerTokenRetries
  BY ChatAssumption
<1>1. FlowTypeOK'
  BY <1>0, ChatAssumption DEF FlowTypeOK, Finish, Goto, Labels
<1>2. RetryBounds'
  BY DEF FlowTypeOK, RetryBounds, Finish, Goto
<1> QED
  BY <1>1, <1>2

(* Going on without a token keeps the loop counter within its bound. *)
LEMMA ContinueLocals ==
  ASSUME FlowTypeOK, RetryBounds, NEW r \in Requests,
         pc[r] \in {"call", "refunded", "cleared"},
         NEW next \in {"finish", "retry", "backoff"}, ContinueWithout(r, next)
  PROVE  FlowTypeOK' /\ RetryBounds'
<1>1. CASE next = "finish"
  BY <1>1, FinishLocals DEF ContinueWithout
<1>2. CASE next # "finish"
  <2>1. attempt[r] < MaxAttempts /\ attempt[r] \in 0..MaxAttempts /\ MaxAttempts \in Nat
    BY ChatAssumption DEF RetryBounds, FlowTypeOK
  <2>2. FlowTypeOK'
    BY <1>2, <2>1 DEF FlowTypeOK, ContinueWithout, Goto, Labels
  <2>3. RetryBounds'
    BY <1>2, <2>1 DEF FlowTypeOK, RetryBounds, ContinueWithout, Goto
  <2> QED
    BY <2>2, <2>3
<1> QED
  BY <1>1, <1>2

LEMMA NextAfterType ==
  ASSUME NEW e \in Errors, NEW streaming \in BOOLEAN
  PROVE  NextAfter(e, streaming) \in {"finish", "retry", "backoff"}
BY DEF NextAfter

(* A call that fails but keeps the token leaves it a further attempt. *)
LEMMA KeepLocals ==
  ASSUME FlowTypeOK, RetryBounds, NEW r \in Requests,
         NEW e, NEW streaming \in BOOLEAN, FailKeepingToken(r, e, streaming)
  PROVE  FlowTypeOK' /\ RetryBounds'
<1>1. /\ attempt[r] < MaxAttempts /\ attempt[r] \in 0..MaxAttempts /\ MaxAttempts \in Nat
      /\ retries[r] + 1 < PerTokenRetries /\ retries[r] \in 0..PerTokenRetries
      /\ PerTokenRetries \in Nat
  BY ChatAssumption DEF RetryBounds, FlowTypeOK, FailKeepingToken, KeepsToken
<1>2. FlowTypeOK'
  BY <1>1 DEF FlowTypeOK, FailKeepingToken, Goto, Labels
<1>3. RetryBounds'
  BY <1>1 DEF FlowTypeOK, RetryBounds, FailKeepingToken, Goto
<1> QED
  BY <1>2, <1>3

(* A fresh pick is allowed its first call: an attempt is left, so neither  *)
(* retry parameter is zero.                                                *)
LEMMA AttemptsPositive ==
  ASSUME NEW n \in 0..MaxAttempts, n < MaxAttempts
  PROVE  PerTokenRetries > 0
<1>1. CASE PerTokenRetries = 0
  <2>1. MaxAttempts = 0
    BY <1>1, ChatAssumption DEF MaxAttempts
  <2> QED
    BY <2>1
<1> QED
  BY <1>1, ChatAssumption

LEMMA PickLocals ==
  ASSUME FlowTypeOK, RetryBounds, ManagerTypeOK, NEW r \in Requests, PickToken(r)
  PROVE  FlowTypeOK' /\ RetryBounds'
<1>1. PICK t \in Selectable(pool[r], ModeOf[r]) : tok' = [tok EXCEPT ![r] = t]
  BY DEF PickToken
<1>2. t \in Tokens /\ t # NoToken
  BY <1>1, SelectableFacts, ChatAssumption
<1>3. PerTokenRetries > 0 /\ 0 \in 0..PerTokenRetries
  BY AttemptsPositive, ChatAssumption DEF PickToken, RetryBounds, FlowTypeOK
<1>4. FlowTypeOK'
  BY <1>1, <1>2, <1>3 DEF FlowTypeOK, PickToken, Goto, Labels
<1>5. RetryBounds'
  BY <1>1, <1>2, <1>3 DEF FlowTypeOK, RetryBounds, PickToken, Goto
<1> QED
  BY <1>4, <1>5

(* The steps that touch no token. *)
LEMMA LocalSteps ==
  ASSUME FlowTypeOK, RetryBounds, NEW r \in Requests,
         \/ Arrive(r) \/ NeedToken(r) \/ SameTokenAgain(r)
         \/ NextPool(r) \/ BackoffEnds(r)
  PROVE  FlowTypeOK' /\ RetryBounds'
<1>1. /\ attempt[r] \in 0..MaxAttempts /\ MaxAttempts \in Nat
      /\ pool[r] \in 1..3 /\ Floor[r] \in PoolLevels
  BY ChatAssumption DEF FlowTypeOK, PoolLevels
<1>2. CASE Arrive(r)
  BY <1>2 DEF FlowTypeOK, RetryBounds, Arrive, Goto, Labels
<1>3. CASE NeedToken(r)
  BY <1>1, <1>3 DEF FlowTypeOK, RetryBounds, NeedToken, Goto, Labels
<1>4. CASE SameTokenAgain(r)
  BY <1>1, <1>4 DEF FlowTypeOK, RetryBounds, SameTokenAgain, Goto, Labels
<1>5. CASE NextPool(r)
  <2>1. pool[r] + 1 \in PoolLevels
    BY <1>1, <1>5 DEF NextPool, TopLevel, PoolLevels
  <2> QED
    BY <1>5, <2>1 DEF FlowTypeOK, RetryBounds, NextPool
<1>6. CASE BackoffEnds(r)
  <2>1. attempt[r] + 1 \in 0..MaxAttempts
    BY <1>1, <1>6 DEF BackoffEnds, RetryBounds
  <2>2. FlowTypeOK'
    BY <1>6, <2>1 DEF FlowTypeOK, BackoffEnds, Goto, Labels
  <2>3. RetryBounds'
    BY <1>6, <2>1 DEF FlowTypeOK, RetryBounds, BackoffEnds, Goto
  <2> QED
    BY <2>2, <2>3
<1> QED
  BY <1>2, <1>3, <1>4, <1>5, <1>6

(* The first section of a report in two. *)
LEMMA ReportLocals ==
  ASSUME FlowTypeOK, RetryBounds, NEW r \in Requests,
         NEW next \in {"finish", "retry", "backoff"}, NEW label \in {"refunded", "cleared"},
         pc[r] = "call", Goto(r, label), after' = [after EXCEPT ![r] = next],
         UNCHANGED <<tok, attempt, retries, pool>>
  PROVE  FlowTypeOK' /\ RetryBounds'
<1>1. FlowTypeOK'
  BY DEF FlowTypeOK, Goto, Labels
<1>2. RetryBounds'
  BY DEF FlowTypeOK, RetryBounds, Goto
<1> QED
  BY <1>1, <1>2


-----------------------------------------------------------------------------
(* Types and locals are preserved by every step.                           *)

Base == TypeOK /\ RetryBounds /\ Loaded

(* The request that reports an outcome has a token. *)
LEMMA CallerHasToken ==
  ASSUME Base, NEW r \in Requests, pc[r] \in {"call", "refunded", "cleared"}
  PROVE  tok[r] \in Tokens /\ ModeOf[r] \in Modes
BY ChatAssumption DEF Base, TypeOK, FlowTypeOK, RetryBounds

LEMMA ReleaseIfHeldType ==
  ASSUME Base, NEW r \in Requests, ReleaseIfHeld(r)
  PROVE  ManagerTypeOK' /\ Loaded'
<1>1. CASE tok[r] = NoToken
  BY <1>1, StutterType DEF ReleaseIfHeld, Base, TypeOK, Loaded, managerVars
<1>2. CASE tok[r] # NoToken
  <2>1. tok[r] \in Tokens
    BY <1>2 DEF Base, TypeOK, FlowTypeOK
  <2> QED
    BY <1>2, <2>1, ReleaseOnlyType
    DEF ReleaseIfHeld, Base, TypeOK, Loaded, ReleaseInflightOnly
<1> QED
  BY <1>1, <1>2

LEMMA StepType ==
  ASSUME Base, NEW r \in Requests, Arrive(r) \/ Step(r)
  PROVE  Base'
<1> USE DEF Base, TypeOK
<1>1. CASE UNCHANGED managerVars /\ (\/ Arrive(r) \/ NeedToken(r) \/ SameTokenAgain(r)
                                     \/ NextPool(r) \/ BackoffEnds(r))
  BY <1>1, LocalSteps, StutterType DEF Loaded, managerVars
<1>2. CASE Exhausted(r) \/ NoTokenLeft(r)
  BY <1>2, FinishLocals, StutterType DEF Loaded, managerVars, Exhausted, NoTokenLeft
<1>3. CASE AbandonAtHead(r) \/ AbandonInBackoff(r)
  BY <1>3, FinishLocals, ReleaseIfHeldType DEF AbandonAtHead, AbandonInBackoff
<1>4. CASE PickToken(r)
  <2>1. PICK t \in Selectable(pool[r], ModeOf[r]) : Pick(t, ModeOf[r])
    BY <1>4 DEF PickToken
  <2>2. ModeOf[r] \in Modes
    BY ChatAssumption
  <2>3. t \in Tokens /\ quota[t][ModeOf[r]] > 0
    BY <2>1, <2>2, SelectableFacts
  <2>4. ManagerTypeOK' /\ Loaded'
    BY <2>1, <2>2, <2>3, PickType DEF Pick, Loaded
  <2> QED
    BY <1>4, <2>4, PickLocals
<1>5. CASE CallEnds(r)
  <2>0. pc[r] = "call"
    BY <1>5 DEF CallEnds, CallSucceeds, FailRateLimited, FailKeepingToken,
                FailReleasingToken, FailRefundingQuota
  <2>1. tok[r] \in Tokens /\ ModeOf[r] \in Modes
    BY <2>0, CallerHasToken
  <2>2. CASE CallSucceeds(r)
    BY <2>1, <2>2, FinishLocals, MarkSuccessType
    DEF CallSucceeds, Loaded, MarkSuccess, managerVars
  <2>3. ASSUME NEW streaming \in BOOLEAN, FailRateLimited(r, streaming) PROVE Base'
    <3>1. ManagerTypeOK' /\ Loaded'
      BY <2>1, <2>3, ClearModeType DEF FailRateLimited, ClearModeQuota, Loaded, managerVars
    <3>2. NextAfter("rate_limited", streaming) \in {"finish", "retry", "backoff"}
      BY DEF NextAfter
    <3>3. FlowTypeOK' /\ RetryBounds'
      BY <2>3, <3>2, ReportLocals DEF FailRateLimited
    <3> QED
      BY <3>1, <3>3
  <2>4. ASSUME NEW streaming \in BOOLEAN, NEW e \in Errors,
               FailKeepingToken(r, e, streaming)
        PROVE  Base'
    <3>1. ManagerTypeOK' /\ Loaded'
      BY <2>1, <2>4, MarkFailedKeepType, StutterType
      DEF FailKeepingToken, MarkFailedKeepInflight, Loaded, managerVars
    <3> QED
      BY <2>4, <3>1, KeepLocals
  <2>5. ASSUME NEW streaming \in BOOLEAN, NEW e \in Errors,
               FailReleasingToken(r, e, streaming)
        PROVE  Base'
    <3>1. MarkExpired(tok[r]) \/ ReleaseInflightOnly(tok[r]) \/ MarkFailed(tok[r])
      BY <2>5 DEF FailReleasingToken, ReportError
    <3>2. ManagerTypeOK' /\ Loaded'
      BY <2>1, <3>1, MarkExpiredType, ReleaseOnlyType, MarkFailedType
      DEF MarkExpired, ReleaseInflightOnly, MarkFailed, Loaded, managerVars
    <3> QED
      BY <2>0, <2>5, <3>2, ContinueLocals, NextAfterType DEF FailReleasingToken
  <2>6. ASSUME NEW streaming \in BOOLEAN, NEW e \in Errors,
               FailRefundingQuota(r, e, streaming)
        PROVE  Base'
    <3>1. ManagerTypeOK' /\ Loaded'
      BY <2>1, <2>6, RefundType DEF FailRefundingQuota, RefundQuota, Loaded, managerVars
    <3>2. FlowTypeOK' /\ RetryBounds'
      BY <2>6, NextAfterType, ReportLocals DEF FailRefundingQuota
    <3> QED
      BY <3>1, <3>2
  <2> QED
    BY <1>5, <2>2, <2>3, <2>4, <2>5, <2>6 DEF CallEnds
<1>6. CASE FinishRefund(r)
  <2>1. tok[r] \in Tokens /\ after[r] \in {"finish", "retry", "backoff"}
    BY <1>6, CallerHasToken DEF FinishRefund, FlowTypeOK
  <2>2. ManagerTypeOK' /\ Loaded'
    BY <1>6, <2>1, MarkFailedType DEF FinishRefund, MarkFailed, Loaded, managerVars
  <2> QED
    BY <1>6, <2>1, <2>2, ContinueLocals DEF FinishRefund
<1>7. CASE FinishRateLimit(r)
  <2>1. /\ tok[r] \in Tokens /\ ModeOf[r] \in Modes
        /\ after[r] \in {"finish", "retry", "backoff"}
    BY <1>7, CallerHasToken DEF FinishRateLimit, FlowTypeOK
  <2>2. ManagerTypeOK' /\ Loaded'
    BY <1>7, <2>1, SetResumeType
    DEF FinishRateLimit, ClearResumeAt, SetResumeAt, Loaded, managerVars
  <2> QED
    BY <1>7, <2>1, <2>2, ContinueLocals DEF FinishRateLimit
<1> QED
  BY <1>1, <1>2, <1>3, <1>4, <1>5, <1>6, <1>7
  DEF Step, Arrive, NeedToken, SameTokenAgain, NextPool, BackoffEnds

LEMMA FlowStutter ==
  ASSUME FlowTypeOK, RetryBounds, UNCHANGED flowVars
  PROVE  FlowTypeOK' /\ RetryBounds'
BY DEF FlowTypeOK, RetryBounds, flowVars

LEMMA EnvironmentType ==
  ASSUME Base, Environment
  PROVE  Base'
<1> USE DEF Base, TypeOK
<1>1. ASSUME NEW t \in Tokens, WindowPasses(t) PROVE Base'
  BY <1>1, PenaltyType, FlowStutter DEF WindowPasses, PenaltyExpires, Loaded
<1>2. ASSUME NEW t \in Tokens, NEW m \in Modes, RefreshQuota(t, m) PROVE Base'
  <2>1. PICK a \in RefreshAnswers : UpdateModeQuota(t, m, a[1], a[2])
    BY <1>2 DEF RefreshQuota
  <2>2. a[1] \in Nat /\ a[2] \in Nat
    BY ChatAssumption
  <2>3. ManagerTypeOK' /\ Loaded'
    BY <2>1, <2>2, UpdateQuotaType DEF UpdateModeQuota, Loaded, managerVars
  <2> QED
    BY <1>2, <2>3, FlowStutter DEF RefreshQuota
<1>3. ASSUME NEW t \in Tokens, NEW m \in Modes, RefreshResume(t, m) PROVE Base'
  <2>1. PICK at \in ResumeTimes : SetResumeAt(t, m, at)
    BY <1>3 DEF RefreshResume
  <2>2. at \in Nat
    BY ChatAssumption
  <2>3. ManagerTypeOK' /\ Loaded'
    BY <2>1, <2>2, SetResumeType DEF SetResumeAt, Loaded, managerVars
  <2> QED
    BY <1>3, <2>3, FlowStutter DEF RefreshResume
<1> QED
  BY <1>1, <1>2, <1>3 DEF Environment

LEMMA InitBase == Init => Base
<1> SUFFICES ASSUME Init PROVE Base
  OBVIOUS
<1>1. ManagerTypeOK
  BY ManagerAssumption DEF Init, ManagerInit, ManagerTypeOK, Statuses
<1>2. 0 \in 0..MaxAttempts /\ 0 \in 0..PerTokenRetries
  BY ChatAssumption
<1>3. FlowTypeOK /\ RetryBounds
  BY <1>2, ChatAssumption DEF Init, FlowTypeOK, RetryBounds, Labels
<1> QED
  BY <1>1, <1>3 DEF Base, TypeOK, Loaded, Init, ManagerInit

LEMMA NextBase == Base /\ [Next]_vars => Base'
<1> SUFFICES ASSUME Base, [Next]_vars PROVE Base'
  OBVIOUS
<1>1. CASE Next
  BY <1>1, StepType, EnvironmentType DEF Next
<1>2. CASE UNCHANGED vars
  BY <1>2, StutterType, FlowStutter DEF vars, managerVars, Base, TypeOK, Loaded
<1> QED
  BY <1>1, <1>2

(* The manager and every goroutine stay well typed: in particular quotas   *)
(* and counters stay natural numbers and the retry loop within its bound.  *)
THEOREM TypeCorrect == Spec => []TypeOK
<1>1. Base => TypeOK
  BY DEF Base
<1> QED
  BY <1>1, InitBase, NextBase, PTL DEF Spec

(* A request at the head of the loop with a token has a retry left on it:  *)
(* the release on entering the pick with a token in hand is dead code.     *)
THEOREM RetriesBounded == Spec => []RetryBounds
<1>1. Base => RetryBounds
  BY DEF Base
<1> QED
  BY <1>1, InitBase, NextBase, PTL DEF Spec


-----------------------------------------------------------------------------
(* Leases.  Every step does one of four things to the counters and to what *)
(* the requests hold.                                                      *)

Idles == inflight' = inflight /\ Borrowed' = Borrowed

(* The exit of the loop: the request lets go, the counter does not move. *)
Forgets(r) == inflight' = inflight /\ Borrowed' = [Borrowed EXCEPT ![r] = NoToken]

Borrows(r, t) ==
  /\ Borrowed[r] = NoToken
  /\ MaxInflight > 0 => inflight[t] < MaxInflight
  /\ inflight' = [inflight EXCEPT ![t] = @ + 1]
  /\ Borrowed' = [Borrowed EXCEPT ![r] = t]

Returns(r, t) ==
  /\ Borrowed[r] = t
  /\ ReleaseInflight(t)
  /\ Borrowed' = [Borrowed EXCEPT ![r] = NoToken]

LeaseStep(r) == Idles \/ Forgets(r) \/ \E t \in Tokens : Borrows(r, t) \/ Returns(r, t)

LEMMA BorrowedType ==
  ASSUME FlowTypeOK
  PROVE  Borrowed \in [Requests -> Tokens \cup {NoToken}]
BY DEF Borrowed, FlowTypeOK

(* Changing one request's place and token changes what that one holds. *)
LEMMA BorrowedUpdate ==
  ASSUME FlowTypeOK, NEW r \in Requests, NEW label \in Labels \ {"cleared"},
         NEW t \in Tokens \cup {NoToken},
         pc' = [pc EXCEPT ![r] = label], tok' = [tok EXCEPT ![r] = t]
  PROVE  Borrowed' = [Borrowed EXCEPT ![r] = t]
BY DEF Borrowed, FlowTypeOK

LEMMA FinishBorrowed ==
  ASSUME FlowTypeOK, NEW r \in Requests, Finish(r)
  PROVE  Borrowed' = [Borrowed EXCEPT ![r] = NoToken]
<1>1. "idle" \in Labels \ {"cleared"}
  BY DEF Labels
<1> QED
  BY <1>1, BorrowedUpdate DEF Finish, Goto

LEMMA ContinueBorrowed ==
  ASSUME FlowTypeOK, NEW r \in Requests, NEW next, ContinueWithout(r, next)
  PROVE  Borrowed' = [Borrowed EXCEPT ![r] = NoToken]
<1>1. "head" \in Labels \ {"cleared"} /\ "backoff" \in Labels \ {"cleared"}
  BY DEF Labels
<1> QED
  BY <1>1, FinishBorrowed, BorrowedUpdate DEF ContinueWithout, Goto

(* Moving between places other than "cleared" with the same token. *)
LEMMA MoveBorrowed ==
  ASSUME FlowTypeOK, NEW r \in Requests, pc[r] # "cleared",
         NEW label \in Labels \ {"cleared"}, Goto(r, label), UNCHANGED tok
  PROVE  Borrowed' = Borrowed
BY DEF Borrowed, FlowTypeOK, Goto

LEMMA StepLease ==
  ASSUME Base, NEW r \in Requests, Arrive(r) \/ Step(r)
  PROVE  LeaseStep(r)
<1> USE DEF Base, TypeOK
<1>0. /\ Borrowed \in [Requests -> Tokens \cup {NoToken}]
      /\ Borrowed = [Borrowed EXCEPT ![r] = Borrowed[r]]
      /\ Borrowed[r] = IF pc[r] = "cleared" THEN NoToken ELSE tok[r]
  BY BorrowedType DEF Borrowed
<1>1. CASE Arrive(r) \/ NeedToken(r) \/ SameTokenAgain(r) \/ BackoffEnds(r)
  <2>1. Borrowed' = Borrowed
    BY <1>1, MoveBorrowed DEF Arrive, NeedToken, SameTokenAgain, BackoffEnds, Labels
  <2> QED
    BY <1>1, <2>1
    DEF LeaseStep, Idles, Arrive, NeedToken, SameTokenAgain, BackoffEnds, managerVars
<1>2. CASE NextPool(r)
  BY <1>2 DEF NextPool, LeaseStep, Idles, Borrowed, managerVars
<1>3. CASE Exhausted(r) \/ NoTokenLeft(r)
  BY <1>3, FinishBorrowed DEF Exhausted, NoTokenLeft, LeaseStep, Forgets, managerVars
<1>4. CASE AbandonAtHead(r) \/ AbandonInBackoff(r)
  <2>1. Borrowed' = [Borrowed EXCEPT ![r] = NoToken]
    BY <1>4, FinishBorrowed DEF AbandonAtHead, AbandonInBackoff
  <2>2. Borrowed[r] = tok[r]
    BY <1>0, <1>4 DEF AbandonAtHead, AbandonInBackoff
  <2>3. CASE tok[r] = NoToken
    BY <1>4, <2>1, <2>3
    DEF AbandonAtHead, AbandonInBackoff, ReleaseIfHeld, LeaseStep, Forgets, managerVars
  <2>4. CASE tok[r] # NoToken
    <3>1. tok[r] \in Tokens
      BY <2>4 DEF FlowTypeOK
    <3> QED
      BY <1>4, <2>1, <2>2, <2>4, <3>1
      DEF AbandonAtHead, AbandonInBackoff, ReleaseIfHeld, ReleaseInflightOnly,
          LeaseStep, Returns
  <2> QED
    BY <2>3, <2>4
<1>5. CASE PickToken(r)
  <2>1. PICK t \in Selectable(pool[r], ModeOf[r]) :
          Pick(t, ModeOf[r]) /\ tok' = [tok EXCEPT ![r] = t]
    BY <1>5 DEF PickToken
  <2>2. t \in Tokens /\ (MaxInflight > 0 => inflight[t] < MaxInflight)
    BY <2>1, SelectableFacts, ChatAssumption
  <2>3. "call" \in Labels \ {"cleared"}
    BY DEF Labels
  <2>4. Borrowed' = [Borrowed EXCEPT ![r] = t]
    BY <1>5, <2>1, <2>2, <2>3, BorrowedUpdate DEF PickToken, Goto
  <2>5. Borrowed[r] = NoToken
    BY <1>0, <1>5 DEF PickToken, RetryBounds
  <2> QED
    BY <2>1, <2>2, <2>4, <2>5 DEF Pick, LeaseStep, Borrows
<1>6. CASE CallEnds(r)
  <2>0. pc[r] = "call"
    BY <1>6 DEF CallEnds, CallSucceeds, FailRateLimited, FailKeepingToken,
                FailReleasingToken, FailRefundingQuota
  <2>1. tok[r] \in tokens /\ tok[r] \in Tokens /\ Borrowed[r] = tok[r]
    BY <1>0, <2>0, CallerHasToken DEF Loaded
  <2>2. CASE CallSucceeds(r)
    BY <2>1, <2>2, FinishBorrowed DEF CallSucceeds, MarkSuccess, LeaseStep, Returns
  <2>3. ASSUME NEW streaming \in BOOLEAN, FailRateLimited(r, streaming)
        PROVE  LeaseStep(r)
    <3>1. Borrowed' = [Borrowed EXCEPT ![r] = NoToken]
      BY <2>3 DEF FailRateLimited, Goto, Borrowed, FlowTypeOK
    <3> QED
      BY <2>1, <2>3, <3>1 DEF FailRateLimited, ClearModeQuota, LeaseStep, Returns
  <2>4. ASSUME NEW streaming \in BOOLEAN, NEW e \in Errors,
               FailKeepingToken(r, e, streaming)
        PROVE  LeaseStep(r)
    <3>1. Borrowed' = Borrowed
      BY <2>0, <2>4, MoveBorrowed DEF FailKeepingToken, Labels
    <3> QED
      BY <2>1, <2>4, <3>1
      DEF FailKeepingToken, MarkFailedKeepInflight, LeaseStep, Idles, managerVars
  <2>5. ASSUME NEW streaming \in BOOLEAN, NEW e \in Errors,
               FailReleasingToken(r, e, streaming)
        PROVE  LeaseStep(r)
    <3>1. Borrowed' = [Borrowed EXCEPT ![r] = NoToken]
      BY <2>5, ContinueBorrowed DEF FailReleasingToken
    <3>2. ReleaseInflight(tok[r])
      BY <2>1, <2>5
      DEF FailReleasingToken, ReportError, MarkExpired, ReleaseInflightOnly, MarkFailed
    <3> QED
      BY <2>1, <3>1, <3>2 DEF LeaseStep, Returns
  <2>6. ASSUME NEW streaming \in BOOLEAN, NEW e \in Errors,
               FailRefundingQuota(r, e, streaming)
        PROVE  LeaseStep(r)
    <3>1. Borrowed' = Borrowed
      BY <2>0, <2>6, MoveBorrowed DEF FailRefundingQuota, Labels
    <3> QED
      BY <2>1, <2>6, <3>1 DEF FailRefundingQuota, RefundQuota, LeaseStep, Idles
  <2> QED
    BY <1>6, <2>2, <2>3, <2>4, <2>5, <2>6 DEF CallEnds
<1>7. CASE FinishRefund(r)
  <2>1. tok[r] \in tokens /\ tok[r] \in Tokens /\ Borrowed[r] = tok[r]
    BY <1>0, <1>7, CallerHasToken DEF FinishRefund, Loaded
  <2>2. Borrowed' = [Borrowed EXCEPT ![r] = NoToken]
    BY <1>7, ContinueBorrowed DEF FinishRefund
  <2> QED
    BY <1>7, <2>1, <2>2 DEF FinishRefund, MarkFailed, LeaseStep, Returns
<1>8. CASE FinishRateLimit(r)
  <2>1. tok[r] \in tokens /\ Borrowed[r] = NoToken
    BY <1>0, <1>8, CallerHasToken DEF FinishRateLimit, Loaded
  <2>2. Borrowed' = [Borrowed EXCEPT ![r] = NoToken]
    BY <1>8, ContinueBorrowed DEF FinishRateLimit
  <2> QED
    BY <1>8, <2>1, <2>2
    DEF FinishRateLimit, ClearResumeAt, SetResumeAt, LeaseStep, Forgets
<1> QED
  BY <1>1, <1>2, <1>3, <1>4, <1>5, <1>6, <1>7, <1>8 DEF Step

LEMMA QuietLease ==
  ASSUME Base, Environment \/ UNCHANGED vars
  PROVE  Idles
<1>1. CASE UNCHANGED vars
  BY <1>1 DEF vars, managerVars, flowVars, Idles, Borrowed
<1>2. CASE Environment
  <2>1. Borrowed' = Borrowed
    BY <1>2 DEF Environment, WindowPasses, RefreshQuota, RefreshResume, flowVars, Borrowed
  <2>2. inflight' = inflight
    BY <1>2 DEF Environment, WindowPasses, PenaltyExpires, RefreshQuota,
                UpdateModeQuota, RefreshResume, SetResumeAt, managerVars
  <2> QED
    BY <2>1, <2>2 DEF Idles
<1> QED
  BY <1>1, <1>2


(* The holders of a token are finitely many requests. *)
LEMMA HoldersFinite ==
  ASSUME NEW t
  PROVE  IsFiniteSet(Holders(t)) /\ Cardinality(Holders(t)) \in Nat
<1>1. Holders(t) \in SUBSET Requests
  BY DEF Holders
<1>2. IsFiniteSet(Holders(t))
  BY <1>1, FS_Subset, ChatAssumption
<1> QED
  BY <1>2, FS_CardinalityType

LEMMA LeaseStepCovers ==
  ASSUME Base, InflightCoversHolders, NEW r \in Requests, LeaseStep(r)
  PROVE  InflightCoversHolders'
<1> SUFFICES ASSUME NEW t \in Tokens
             PROVE  Cardinality(Holders(t)') <= inflight'[t]
  BY DEF InflightCoversHolders
<1>0. /\ Borrowed \in [Requests -> Tokens \cup {NoToken}]
      /\ NoToken \notin Tokens
      /\ inflight \in [Tokens -> Nat]
      /\ Cardinality(Holders(t)) <= inflight[t]
      /\ IsFiniteSet(Holders(t)) /\ Cardinality(Holders(t)) \in Nat
  BY BorrowedType, HoldersFinite, ChatAssumption
  DEF Base, TypeOK, ManagerTypeOK, InflightCoversHolders
<1>1. CASE Idles
  <2>1. Holders(t)' = Holders(t)
    BY <1>1 DEF Idles, Holders
  <2> QED
    BY <1>0, <1>1, <2>1 DEF Idles
<1>2. CASE Forgets(r)
  <2>1. Holders(t)' \in SUBSET Holders(t)
    BY <1>0, <1>2 DEF Forgets, Holders
  <2>2. Cardinality(Holders(t)') <= Cardinality(Holders(t)) /\ Cardinality(Holders(t)') \in Nat
    BY <1>0, <2>1, FS_Subset, FS_CardinalityType
  <2> QED
    BY <1>0, <1>2, <2>2 DEF Forgets
<1>3. ASSUME NEW u \in Tokens, Borrows(r, u)
      PROVE  Cardinality(Holders(t)') <= inflight'[t]
  <2>1. CASE t = u
    <3>1. Holders(t)' = Holders(t) \cup {r} /\ r \notin Holders(t)
      BY <1>0, <1>3, <2>1 DEF Borrows, Holders
    <3>2. Cardinality(Holders(t)') = Cardinality(Holders(t)) + 1
      BY <1>0, <3>1, FS_AddElement
    <3>3. inflight'[t] = inflight[t] + 1
      BY <1>0, <1>3, <2>1 DEF Borrows
    <3> QED
      BY <1>0, <3>2, <3>3
  <2>2. CASE t # u
    <3>1. Holders(t)' = Holders(t)
      BY <1>0, <1>3, <2>2 DEF Borrows, Holders
    <3>2. inflight'[t] = inflight[t]
      BY <1>0, <1>3, <2>2 DEF Borrows
    <3> QED
      BY <1>0, <3>1, <3>2
  <2> QED
    BY <2>1, <2>2
<1>4. ASSUME NEW u \in Tokens, Returns(r, u)
      PROVE  Cardinality(Holders(t)') <= inflight'[t]
  <2>1. CASE t = u
    <3>1. Holders(t)' = Holders(t) \ {r} /\ r \in Holders(t)
      BY <1>0, <1>4, <2>1 DEF Returns, Holders
    <3>2. Cardinality(Holders(t)') = Cardinality(Holders(t)) - 1
      BY <1>0, <3>1, FS_RemoveElement
    <3>3. Cardinality(Holders(t)) > 0
      BY <1>0, <3>1, FS_EmptySet
    <3>4. inflight'[t] = inflight[t] - 1
      BY <1>0, <1>4, <2>1, <3>3 DEF Returns, ReleaseInflight
    <3> QED
      BY <1>0, <3>2, <3>4
  <2>2. CASE t # u
    <3>1. Holders(t)' = Holders(t)
      BY <1>0, <1>4, <2>2 DEF Returns, Holders
    <3>2. inflight'[t] = inflight[t]
      BY <1>0, <1>4, <2>2 DEF Returns, ReleaseInflight
    <3> QED
      BY <1>0, <3>1, <3>2
  <2> QED
    BY <2>1, <2>2
<1> QED
  BY <1>1, <1>2, <1>3, <1>4 DEF LeaseStep

IInv == Base /\ InflightCoversHolders

LEMMA InitIInv == Init => IInv
<1> SUFFICES ASSUME Init, NEW t \in Tokens PROVE Cardinality(Holders(t)) <= inflight[t]
  BY InitBase DEF IInv, InflightCoversHolders
<1>1. Holders(t) = {}
  BY ChatAssumption DEF Init, Holders, Borrowed
<1> QED
  BY <1>1, FS_EmptySet DEF Init, ManagerInit

LEMMA NextIInv == IInv /\ [Next]_vars => IInv'
<1> SUFFICES ASSUME IInv, [Next]_vars PROVE InflightCoversHolders'
  BY NextBase DEF IInv
<1>1. ASSUME NEW r \in Requests, Arrive(r) \/ Step(r) PROVE InflightCoversHolders'
  BY <1>1, StepLease, LeaseStepCovers DEF IInv
<1>2. CASE Environment \/ UNCHANGED vars
  <2>1. Idles
    BY <1>2, QuietLease DEF IInv
  <2>2. \A t \in Tokens : Holders(t)' = Holders(t)
    BY <2>1 DEF Idles, Holders
  <2> QED
    BY <2>1, <2>2 DEF IInv, InflightCoversHolders, Idles
<1> QED
  BY <1>1, <1>2 DEF Next

LEMMA InvariantIInv == Spec => []IInv
BY InitIInv, NextIInv, PTL DEF Spec

(* Retries, swaps, backoffs and refreshes never release a token a request  *)
(* is still using.                                                         *)
THEOREM NoReleaseBehindABorrower == Spec => []InflightCoversHolders
<1>1. IInv => InflightCoversHolders
  BY DEF IInv
<1> QED
  BY <1>1, InvariantIInv, PTL

(* Each decrement of a counter is one request letting go of that token. *)
THEOREM DecrementsAreReleases == Spec => ReleasedByHolder
<1> DEFINE Matched ==
      \A t \in Tokens : inflight'[t] < inflight[t] =>
        /\ inflight'[t] = inflight[t] - 1
        /\ \E r \in Requests : Borrowed[r] = t /\ Borrowed'[r] # t
<1>1. ASSUME IInv, [Next]_vars PROVE [Matched]_vars
  <2>0. inflight \in [Tokens -> Nat] /\ NoToken \notin Tokens
        /\ Borrowed \in [Requests -> Tokens \cup {NoToken}]
    BY <1>1, BorrowedType, ChatAssumption DEF IInv, Base, TypeOK, ManagerTypeOK
  <2>1. ASSUME NEW r \in Requests, LeaseStep(r) PROVE Matched
    <3>1. CASE Idles \/ Forgets(r)
      BY <2>0, <3>1 DEF Idles, Forgets
    <3>2. ASSUME NEW u \in Tokens, Borrows(r, u) PROVE Matched
      BY <2>0, <3>2 DEF Borrows
    <3>3. ASSUME NEW u \in Tokens, Returns(r, u) PROVE Matched
      <4> SUFFICES ASSUME NEW t \in Tokens, inflight'[t] < inflight[t]
                   PROVE  /\ inflight'[t] = inflight[t] - 1
                          /\ Borrowed[r] = t /\ Borrowed'[r] # t
        OBVIOUS
      <4>1. t = u
        BY <2>0, <3>3 DEF Returns, ReleaseInflight
      <4> QED
        BY <2>0, <3>3, <4>1 DEF Returns, ReleaseInflight
    <3> QED
      BY <2>1, <3>1, <3>2, <3>3 DEF LeaseStep
  <2>2. CASE \E r \in Requests : Arrive(r) \/ Step(r)
    BY <1>1, <2>1, <2>2, StepLease DEF IInv
  <2>3. CASE Environment \/ UNCHANGED vars
    BY <1>1, <2>0, <2>3, QuietLease DEF Idles, IInv
  <2> QED
    BY <1>1, <2>2, <2>3 DEF Next
<1> QED
  BY <1>1, InvariantIInv, PTL DEF Spec, ReleasedByHolder

(* TokenLease counts with the operator of the FiniteSets it extends. *)
LEMMA SameCardinality == \A S : Lease!Cardinality(S) = Cardinality(S)
BY DEF Lease!Cardinality, Cardinality

(* The chat flow implements the abstract lease: at most max_inflight       *)
(* requests share a token and each holds at most one.                      *)
THEOREM ChatImplementsLease == Spec => ImplementsLease
<1>1. ASSUME Init PROVE Lease!Init
  BY <1>1 DEF Init, Lease!Init, Borrowed
<1>2. ASSUME IInv, [Next]_vars PROVE [Lease!Next]_Borrowed
  <2>0. Borrowed \in [Requests -> Tokens \cup {NoToken}]
    BY <1>2, BorrowedType DEF IInv, Base, TypeOK
  <2>1. ASSUME NEW r \in Requests, LeaseStep(r) PROVE [Lease!Next]_Borrowed
    <3>1. CASE Idles
      BY <3>1 DEF Idles
    <3>2. CASE Forgets(r)
      <4>1. CASE Borrowed[r] = NoToken
        BY <2>0, <3>2, <4>1 DEF Forgets
      <4>2. CASE Borrowed[r] # NoToken
        BY <3>2, <4>2 DEF Forgets, Lease!Next, Lease!Release
      <4> QED
        BY <4>1, <4>2
    <3>3. ASSUME NEW u \in Tokens, Borrows(r, u) PROVE Lease!Next
      <4>1. Lease!Borrowers(u) = Holders(u)
        BY DEF Lease!Borrowers, Holders
      <4>2. MaxInflight > 0 => Cardinality(Holders(u)) < MaxInflight
        BY <1>2, <3>3, HoldersFinite, ManagerAssumption
        DEF Borrows, IInv, InflightCoversHolders, Base, TypeOK, ManagerTypeOK
      <4>3. MaxInflight > 0 => Lease!Cardinality(Lease!Borrowers(u)) < MaxInflight
        BY <4>1, <4>2, SameCardinality
      <4>4. /\ Borrowed[r] = NoToken
            /\ Borrowed' = [Borrowed EXCEPT ![r] = u]
        BY <3>3 DEF Borrows
      <4>5. Lease!Acquire(r, u)
        BY ONLY <4>3, <4>4 DEF Lease!Acquire
      <4> QED
        BY <4>5 DEF Lease!Next
    <3>4. ASSUME NEW u \in Tokens, Returns(r, u) PROVE Lease!Next
      BY <3>4, ChatAssumption DEF Returns, Lease!Next, Lease!Release
    <3> QED
      BY <2>1, <3>1, <3>2, <3>3, <3>4 DEF LeaseStep
  <2>2. CASE \E r \in Requests : Arrive(r) \/ Step(r)
    BY <1>2, <2>1, <2>2, StepLease DEF IInv
  <2>3. CASE Environment \/ UNCHANGED vars
    BY <1>2, <2>3, QuietLease DEF Idles, IInv
  <2> QED
    BY <1>2, <2>2, <2>3 DEF Next
<1> QED
  BY <1>1, <1>2, InvariantIInv, PTL DEF Spec, ImplementsLease, Lease!Spec


-----------------------------------------------------------------------------
(* Statuses and limits: a step of the flow is at most one call on the      *)
(* manager, so what every method keeps true stays true.                    *)

LEMMA NextIsOneCall ==
  ASSUME Base, [Next]_vars
  PROVE  MethodCall \/ UNCHANGED managerVars
<1>1. ASSUME NEW r \in Requests, Arrive(r) \/ Step(r)
      PROVE  MethodCall \/ UNCHANGED managerVars
  <2>1. CASE \/ Arrive(r) \/ NeedToken(r) \/ SameTokenAgain(r) \/ NextPool(r)
             \/ Exhausted(r) \/ NoTokenLeft(r) \/ BackoffEnds(r)
    BY <2>1 DEF Arrive, NeedToken, SameTokenAgain, NextPool, Exhausted, NoTokenLeft,
                BackoffEnds
  <2>2. CASE AbandonAtHead(r) \/ AbandonInBackoff(r)
    <3>1. tok[r] \in Tokens \cup {NoToken}
      BY DEF Base, TypeOK, FlowTypeOK
    <3> QED
      BY <2>2, <3>1 DEF AbandonAtHead, AbandonInBackoff, ReleaseIfHeld, MethodCall, CallOn
  <2>3. CASE PickToken(r)
    <3>1. PICK t \in Selectable(pool[r], ModeOf[r]) : Pick(t, ModeOf[r])
      BY <2>3 DEF PickToken
    <3>2. ModeOf[r] \in Modes
      BY ChatAssumption
    <3>3. t \in Tokens /\ quota[t][ModeOf[r]] > 0
      BY <3>1, <3>2, SelectableFacts DEF Base, TypeOK
    <3> QED
      BY <3>1, <3>2, <3>3 DEF MethodCall, CallOn
  <2>4. CASE CallEnds(r) \/ FinishRefund(r) \/ FinishRateLimit(r)
    <3>1. pc[r] \in {"call", "refunded", "cleared"}
      BY <2>4 DEF CallEnds, CallSucceeds, FailRateLimited, FailKeepingToken,
                  FailReleasingToken, FailRefundingQuota, FinishRefund, FinishRateLimit
    <3>2. tok[r] \in Tokens /\ ModeOf[r] \in Modes /\ 0 \in Nat
      BY <3>1, CallerHasToken
    <3>3. \/ CallOn(tok[r]) \/ UNCHANGED managerVars
      BY <2>4, <3>2
      DEF CallEnds, CallSucceeds, FailRateLimited, FailKeepingToken, FailReleasingToken,
          ReportError, FailRefundingQuota, FinishRefund, FinishRateLimit, ClearResumeAt,
          CallOn
    <3> QED
      BY <3>2, <3>3 DEF MethodCall
  <2> QED
    BY <1>1, <2>1, <2>2, <2>3, <2>4 DEF Step
<1>2. ASSUME Environment PROVE MethodCall
  <2>1. \A a \in RefreshAnswers : a[1] \in Nat /\ a[2] \in Nat
    BY ChatAssumption
  <2>2. \A at \in ResumeTimes : at \in Nat
    BY ChatAssumption
  <2> QED
    BY <1>2, <2>1, <2>2
    DEF Environment, WindowPasses, RefreshQuota, RefreshResume, MethodCall, CallOn
<1> QED
  BY <1>1, <1>2 DEF Next, vars

(* A token at the failure threshold is not active. *)
THEOREM ThresholdHolds == Spec => []ThresholdDisables
<1>1. Init => ThresholdDisables
  BY ManagerAssumption DEF Init, ManagerInit, ThresholdDisables
<1>2. Base /\ ThresholdDisables /\ [Next]_vars => ThresholdDisables'
  <2> SUFFICES ASSUME Base, ThresholdDisables, [Next]_vars PROVE ThresholdDisables'
    OBVIOUS
  <2>1. CASE MethodCall
    BY <2>1, MethodsKeepThreshold DEF Base, TypeOK
  <2>2. CASE UNCHANGED managerVars
    BY <2>2 DEF managerVars, ThresholdDisables
  <2> QED
    BY <2>1, <2>2, NextIsOneCall
<1> QED
  BY <1>1, <1>2, InitBase, NextBase, PTL DEF Spec

(* Picks, refunds, rate limits and refreshes in any order keep a quota     *)
(* within the last limit that was installed.                               *)
THEOREM LimitHolds == Spec => []QuotaWithinLimit
<1>1. Init => QuotaWithinLimit
  BY ManagerAssumption DEF Init, ManagerInit, QuotaWithinLimit
<1>2. Base /\ QuotaWithinLimit /\ [Next]_vars => QuotaWithinLimit'
  <2> SUFFICES ASSUME Base, QuotaWithinLimit, [Next]_vars PROVE QuotaWithinLimit'
    OBVIOUS
  <2>1. CASE MethodCall
    BY <2>1, MethodsKeepLimit DEF Base, TypeOK
  <2>2. CASE UNCHANGED managerVars
    BY <2>2 DEF managerVars, QuotaWithinLimit
  <2> QED
    BY <2>1, <2>2, NextIsOneCall
<1> QED
  BY <1>1, <1>2, InitBase, NextBase, PTL DEF Spec


-----------------------------------------------------------------------------
(* Quota.  What a step does to the quotas and to what the requests owe.    *)

Settles(r) ==
  /\ UNCHANGED <<quota, limit>>
  /\ Owes' = Owes \/ Owes' = [Owes EXCEPT ![r] = NoToken]

Charges(r, t) ==
  /\ quota[t][ModeOf[r]] > 0
  /\ quota' = [quota EXCEPT ![t][ModeOf[r]] = @ - 1]
  /\ limit' = limit
  /\ Owes' = [Owes EXCEPT ![r] = t]

Refunds(r, t) ==
  /\ Owes[r] = t
  /\ quota' = [quota EXCEPT ![t][ModeOf[r]] =
                 Refunded(quota[t][ModeOf[r]], limit[t][ModeOf[r]])]
  /\ limit' = limit
  /\ Owes' = [Owes EXCEPT ![r] = NoToken]

Clears(r, t) ==
  /\ quota' = [quota EXCEPT ![t][ModeOf[r]] = 0]
  /\ limit' = limit
  /\ Owes' = [Owes EXCEPT ![r] = NoToken]

QuotaStep(r) ==
  Settles(r) \/ \E t \in Tokens : Charges(r, t) \/ Refunds(r, t) \/ Clears(r, t)

Silent == {"refunded", "cleared"}   \* the places where nothing is owed

LEMMA OwesType ==
  ASSUME FlowTypeOK
  PROVE  Owes \in [Requests -> Tokens \cup {NoToken}]
BY DEF Owes, FlowTypeOK

LEMMA OwesUpdate ==
  ASSUME FlowTypeOK, NEW r \in Requests, NEW label \in Labels \ Silent,
         NEW t \in Tokens \cup {NoToken},
         pc' = [pc EXCEPT ![r] = label], tok' = [tok EXCEPT ![r] = t]
  PROVE  Owes' = [Owes EXCEPT ![r] = t]
BY DEF Owes, FlowTypeOK, Silent

LEMMA FinishOwes ==
  ASSUME FlowTypeOK, NEW r \in Requests, Finish(r)
  PROVE  Owes' = [Owes EXCEPT ![r] = NoToken]
<1>1. "idle" \in Labels \ Silent
  BY DEF Labels, Silent
<1> QED
  BY <1>1, OwesUpdate DEF Finish, Goto

LEMMA ContinueOwes ==
  ASSUME FlowTypeOK, NEW r \in Requests, NEW next, ContinueWithout(r, next)
  PROVE  Owes' = [Owes EXCEPT ![r] = NoToken]
<1>1. "head" \in Labels \ Silent /\ "backoff" \in Labels \ Silent
  BY DEF Labels, Silent
<1> QED
  BY <1>1, FinishOwes, OwesUpdate DEF ContinueWithout, Goto

LEMMA MoveOwes ==
  ASSUME FlowTypeOK, NEW r \in Requests, pc[r] \notin Silent,
         NEW label \in Labels \ Silent, Goto(r, label), UNCHANGED tok
  PROVE  Owes' = Owes
BY DEF Owes, FlowTypeOK, Goto, Silent

(* Entering the second section of a report settles the debt. *)
LEMMA ReportOwes ==
  ASSUME FlowTypeOK, NEW r \in Requests, NEW label \in Silent,
         Goto(r, label), UNCHANGED tok
  PROVE  Owes' = [Owes EXCEPT ![r] = NoToken]
BY DEF Owes, FlowTypeOK, Goto, Silent

LEMMA StepQuota ==
  ASSUME Base, NEW r \in Requests, Arrive(r) \/ Step(r)
  PROVE  QuotaStep(r)
<1> USE DEF Base, TypeOK
<1>1. CASE Arrive(r) \/ NeedToken(r) \/ SameTokenAgain(r) \/ BackoffEnds(r)
  <2>1. Owes' = Owes
    BY <1>1, MoveOwes
    DEF Arrive, NeedToken, SameTokenAgain, BackoffEnds, Labels, Silent
  <2> QED
    BY <1>1, <2>1
    DEF QuotaStep, Settles, Arrive, NeedToken, SameTokenAgain, BackoffEnds, managerVars
<1>2. CASE NextPool(r)
  BY <1>2 DEF NextPool, QuotaStep, Settles, Owes, managerVars
<1>3. CASE Exhausted(r) \/ NoTokenLeft(r)
  BY <1>3, FinishOwes DEF Exhausted, NoTokenLeft, QuotaStep, Settles, managerVars
<1>4. CASE AbandonAtHead(r) \/ AbandonInBackoff(r)
  <2>1. Owes' = [Owes EXCEPT ![r] = NoToken]
    BY <1>4, FinishOwes DEF AbandonAtHead, AbandonInBackoff
  <2>2. UNCHANGED <<quota, limit>>
    BY <1>4 DEF AbandonAtHead, AbandonInBackoff, ReleaseIfHeld, ReleaseInflightOnly,
                managerVars
  <2> QED
    BY <2>1, <2>2 DEF QuotaStep, Settles
<1>5. CASE PickToken(r)
  <2>1. PICK t \in Selectable(pool[r], ModeOf[r]) :
          Pick(t, ModeOf[r]) /\ tok' = [tok EXCEPT ![r] = t]
    BY <1>5 DEF PickToken
  <2>2. t \in Tokens /\ quota[t][ModeOf[r]] > 0
    BY <2>1, SelectableFacts, ChatAssumption
  <2>3. "call" \in Labels \ Silent
    BY DEF Labels, Silent
  <2>4. Owes' = [Owes EXCEPT ![r] = t]
    BY <1>5, <2>1, <2>2, <2>3, OwesUpdate DEF PickToken, Goto
  <2> QED
    BY <2>1, <2>2, <2>4 DEF Pick, QuotaStep, Charges
<1>6. CASE CallEnds(r)
  <2>0. pc[r] = "call"
    BY <1>6 DEF CallEnds, CallSucceeds, FailRateLimited, FailKeepingToken,
                FailReleasingToken, FailRefundingQuota
  <2>1. tok[r] \in tokens /\ tok[r] \in Tokens /\ Owes[r] = tok[r]
    BY <2>0, CallerHasToken DEF Loaded, Owes
  <2>2. CASE CallSucceeds(r)
    BY <2>1, <2>2, FinishOwes DEF CallSucceeds, MarkSuccess, QuotaStep, Settles
  <2>3. ASSUME NEW streaming \in BOOLEAN, FailRateLimited(r, streaming)
        PROVE  QuotaStep(r)
    <3>1. Owes' = [Owes EXCEPT ![r] = NoToken]
      BY <2>3, ReportOwes DEF FailRateLimited, Silent
    <3> QED
      BY <2>1, <2>3, <3>1 DEF FailRateLimited, ClearModeQuota, QuotaStep, Clears
  <2>4. ASSUME NEW streaming \in BOOLEAN, NEW e \in Errors,
               FailKeepingToken(r, e, streaming)
        PROVE  QuotaStep(r)
    <3>1. Owes' = Owes
      BY <2>0, <2>4, MoveOwes DEF FailKeepingToken, Labels, Silent
    <3> QED
      BY <2>1, <2>4, <3>1
      DEF FailKeepingToken, MarkFailedKeepInflight, QuotaStep, Settles, managerVars
  <2>5. ASSUME NEW streaming \in BOOLEAN, NEW e \in Errors,
               FailReleasingToken(r, e, streaming)
        PROVE  QuotaStep(r)
    <3>1. Owes' = [Owes EXCEPT ![r] = NoToken]
      BY <2>5, ContinueOwes DEF FailReleasingToken
    <3>2. UNCHANGED <<quota, limit>>
      BY <2>1, <2>5
      DEF FailReleasingToken, ReportError, MarkExpired, ReleaseInflightOnly, MarkFailed
    <3> QED
      BY <3>1, <3>2 DEF QuotaStep, Settles
  <2>6. ASSUME NEW streaming \in BOOLEAN, NEW e \in Errors,
               FailRefundingQuota(r, e, streaming)
        PROVE  QuotaStep(r)
    <3>1. Owes' = [Owes EXCEPT ![r] = NoToken]
      BY <2>6, ReportOwes DEF FailRefundingQuota, Silent
    <3> QED
      BY <2>1, <2>6, <3>1 DEF FailRefundingQuota, RefundQuota, QuotaStep, Refunds
  <2> QED
    BY <1>6, <2>2, <2>3, <2>4, <2>5, <2>6 DEF CallEnds
<1>7. CASE FinishRefund(r)
  <2>1. tok[r] \in tokens
    BY <1>7, CallerHasToken DEF FinishRefund, Loaded
  <2>2. Owes' = [Owes EXCEPT ![r] = NoToken]
    BY <1>7, ContinueOwes DEF FinishRefund
  <2> QED
    BY <1>7, <2>1, <2>2 DEF FinishRefund, MarkFailed, QuotaStep, Settles
<1>8. CASE FinishRateLimit(r)
  <2>1. tok[r] \in tokens
    BY <1>8, CallerHasToken DEF FinishRateLimit, Loaded
  <2>2. Owes' = [Owes EXCEPT ![r] = NoToken]
    BY <1>8, ContinueOwes DEF FinishRateLimit
  <2> QED
    BY <1>8, <2>1, <2>2
    DEF FinishRateLimit, ClearResumeAt, SetResumeAt, QuotaStep, Settles
<1> QED
  BY <1>1, <1>2, <1>3, <1>4, <1>5, <1>6, <1>7, <1>8 DEF Step


LEMMA ChargedFinite ==
  ASSUME NEW t, NEW m
  PROVE  IsFiniteSet(Charged(t, m)) /\ Cardinality(Charged(t, m)) \in Nat
<1>1. Charged(t, m) \in SUBSET Requests
  BY DEF Charged
<1>2. IsFiniteSet(Charged(t, m))
  BY <1>1, FS_Subset, ChatAssumption
<1> QED
  BY <1>2, FS_CardinalityType

LEMMA QuotaStepConserves ==
  ASSUME Base, RefreshAnswers = {}, QuotaConserved, NEW r \in Requests, QuotaStep(r)
  PROVE  QuotaConserved'
<1> SUFFICES ASSUME NEW t \in Tokens, NEW m \in Modes
             PROVE  quota'[t][m] + Cardinality(Charged(t, m)') <= limit'[t][m]
  BY DEF QuotaConserved
<1> DEFINE before == Cardinality(Charged(t, m))
           now    == Cardinality(Charged(t, m)')
<1>0. /\ Owes \in [Requests -> Tokens \cup {NoToken}]
      /\ NoToken \notin Tokens /\ ModeOf[r] \in Modes
      /\ quota \in [Tokens -> [Modes -> Nat]] /\ limit \in [Tokens -> [Modes -> Nat]]
      /\ quota[t][m] + before <= limit[t][m]
      /\ IsFiniteSet(Charged(t, m)) /\ before \in Nat
  BY OwesType, ChargedFinite, ChatAssumption
  DEF Base, TypeOK, ManagerTypeOK, QuotaConserved
<1>a. ASSUME Charged(t, m)' \in SUBSET Charged(t, m)
      PROVE  now <= before /\ now \in Nat
  BY <1>0, <1>a, FS_Subset, FS_CardinalityType
<1>1. CASE Settles(r)
  <2>1. Charged(t, m)' \in SUBSET Charged(t, m)
    BY <1>0, <1>1 DEF Settles, Charged
  <2> QED
    BY <1>0, <1>1, <1>a, <2>1 DEF Settles
<1>2. ASSUME NEW u \in Tokens, Charges(r, u)
      PROVE  quota'[t][m] + now <= limit'[t][m]
  <2>1. CASE t = u /\ m = ModeOf[r]
    <3>1. Charged(t, m)' \in SUBSET (Charged(t, m) \cup {r})
      BY <1>0, <1>2 DEF Charges, Charged
    <3>2. /\ IsFiniteSet(Charged(t, m) \cup {r})
          /\ Cardinality(Charged(t, m) \cup {r}) <= before + 1
          /\ Cardinality(Charged(t, m) \cup {r}) \in Nat
      <4>1. /\ IsFiniteSet(Charged(t, m) \cup {r})
            /\ \/ Cardinality(Charged(t, m) \cup {r}) = before
               \/ Cardinality(Charged(t, m) \cup {r}) = before + 1
        BY <1>0, FS_AddElement
      <4> HIDE DEF before
      <4> QED
        BY <1>0, <4>1
    <3>3. now <= before + 1 /\ now \in Nat
      BY <1>0, <3>1, <3>2, FS_Subset, FS_CardinalityType
    <3>4. quota'[t][m] = quota[t][m] - 1 /\ limit'[t][m] = limit[t][m]
      BY <1>0, <1>2, <2>1 DEF Charges
    <3> QED
      BY <1>0, <3>3, <3>4
  <2>2. CASE ~(t = u /\ m = ModeOf[r])
    <3>1. Charged(t, m)' \in SUBSET Charged(t, m)
      BY <1>0, <1>2, <2>2 DEF Charges, Charged
    <3>2. quota'[t][m] = quota[t][m] /\ limit'[t][m] = limit[t][m]
      BY <1>0, <1>2, <2>2 DEF Charges
    <3> QED
      BY <1>0, <1>a, <3>1, <3>2
  <2> QED
    BY <2>1, <2>2
<1>3. ASSUME NEW u \in Tokens, Refunds(r, u)
      PROVE  quota'[t][m] + now <= limit'[t][m]
  <2>1. CASE t = u /\ m = ModeOf[r]
    <3>1. Charged(t, m)' = Charged(t, m) \ {r} /\ r \in Charged(t, m)
      BY <1>0, <1>3, <2>1 DEF Refunds, Charged
    <3>2. now = before - 1
      BY <1>0, <3>1, FS_RemoveElement
    <3>3. Refunded(quota[t][m], limit[t][m]) \in Nat
          /\ Refunded(quota[t][m], limit[t][m]) <= quota[t][m] + 1
      BY <1>0, RefundedBound
    <3>4. /\ quota'[t][m] = Refunded(quota[t][m], limit[t][m])
          /\ limit'[t][m] = limit[t][m]
      BY <1>0, <1>3, <2>1 DEF Refunds
    <3> QED
      BY <1>0, <3>2, <3>3, <3>4
  <2>2. CASE ~(t = u /\ m = ModeOf[r])
    <3>1. Charged(t, m)' \in SUBSET Charged(t, m)
      BY <1>0, <1>3 DEF Refunds, Charged
    <3>2. quota'[t][m] = quota[t][m] /\ limit'[t][m] = limit[t][m]
      BY <1>0, <1>3, <2>2 DEF Refunds
    <3> QED
      BY <1>0, <1>a, <3>1, <3>2
  <2> QED
    BY <2>1, <2>2
<1>4. ASSUME NEW u \in Tokens, Clears(r, u)
      PROVE  quota'[t][m] + now <= limit'[t][m]
  <2>1. Charged(t, m)' \in SUBSET Charged(t, m)
    BY <1>0, <1>4 DEF Clears, Charged
  <2>2. quota'[t][m] \in Nat /\ quota'[t][m] <= quota[t][m] /\ limit'[t][m] = limit[t][m]
    BY <1>0, <1>4 DEF Clears
  <2> QED
    BY <1>0, <1>a, <2>1, <2>2
<1> QED
  BY <1>1, <1>2, <1>3, <1>4 DEF QuotaStep

LEMMA EnvironmentConserves ==
  ASSUME Base, RefreshAnswers = {}, QuotaConserved, Environment \/ UNCHANGED vars
  PROVE  QuotaConserved'
<1>1. UNCHANGED <<quota, limit>>
  BY DEF Environment, WindowPasses, PenaltyExpires, RefreshQuota, RefreshResume,
         SetResumeAt, vars, managerVars
<1>2. UNCHANGED flowVars
  BY DEF Environment, WindowPasses, RefreshQuota, RefreshResume, vars
<1>3. \A t \in Tokens, m \in Modes : Charged(t, m)' = Charged(t, m)
  BY <1>2 DEF Charged, Owes, flowVars
<1> QED
  BY <1>1, <1>3 DEF QuotaConserved

(* Without refreshes, the quota that is left and the units that may still  *)
(* be refunded never add up to more than the limit: no unit is refunded    *)
(* twice.                                                                  *)
THEOREM QuotaIsConserved == Spec => []QuotaConserved
<1>1. Init => QuotaConserved
  <2> SUFFICES ASSUME Init, NEW t \in Tokens, NEW m \in Modes
               PROVE  quota[t][m] + Cardinality(Charged(t, m)) <= limit[t][m]
    BY DEF QuotaConserved
  <2>1. Charged(t, m) = {}
    BY ChatAssumption DEF Init, Charged, Owes
  <2>2. quota[t][m] \in Nat /\ limit[t][m] = quota[t][m]
    BY ManagerAssumption DEF Init, ManagerInit
  <2> QED
    BY <2>1, <2>2, FS_EmptySet
<1>2. Base /\ QuotaConserved /\ [Next]_vars => QuotaConserved'
  <2> SUFFICES ASSUME Base, QuotaConserved, [Next]_vars PROVE QuotaConserved'
    OBVIOUS
  <2>1. CASE RefreshAnswers # {}
    BY <2>1 DEF QuotaConserved
  <2>2. CASE RefreshAnswers = {}
    <3>1. ASSUME NEW r \in Requests, Arrive(r) \/ Step(r) PROVE QuotaConserved'
      BY <2>2, <3>1, StepQuota, QuotaStepConserves
    <3>2. CASE Environment \/ UNCHANGED vars
      BY <2>2, <3>2, EnvironmentConserves
    <3> QED
      BY <3>1, <3>2 DEF Next
  <2> QED
    BY <2>1, <2>2
<1> QED
  BY <1>1, <1>2, InitBase, NextBase, PTL DEF Spec

=============================================================================
