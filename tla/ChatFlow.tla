------------------------------ MODULE ChatFlow ------------------------------
(***************************************************************************)
(* internal/flow/chat.go: executeWithRetry, one goroutine per chat         *)
(* request, against the shared TokenManager.  A request picks a token,     *)
(* calls the upstream with it, reports the outcome, and retries on the     *)
(* same token or on another one until it succeeds, gives up, runs out of   *)
(* attempts, or its client or retry budget ends it.                        *)
(*                                                                         *)
(* Every call on the manager is one critical section; the code between two *)
(* calls is local to the goroutine and belongs to the step of the call it  *)
(* follows.  Reports that make two calls are two steps, with the other     *)
(* requests and the quota scheduler free to run in between.                *)
(*                                                                         *)
(* ctx.Done and the retry budget have the same effect and may strike at    *)
(* each point where the code looks at them, so both are one nondeterminis- *)
(* tic choice.  chat.go:155-158 (release on entering the pick with a token *)
(* in hand) has no action: RetryBounds shows that it is never reached, and *)
(* neither is chat.go:290, since consumeUpstreamEvents fails only with an  *)
(* error.                                                                  *)
(***************************************************************************)
EXTENDS TokenManager

CONSTANTS
  Requests,         \* the chat requests
  NoToken,          \* currentToken == nil
  ModeOf,           \* ModeOf[r]: the quota mode of the requested model
  Floor,            \* Floor[r]: the model's pool floor as a level
  MaxTokens,        \* retry.max_tokens
  PerTokenRetries,  \* retry.per_token_retries
  RefreshAnswers,   \* the <<remaining, limit>> the scheduler may install
  ResumeTimes       \* the timestamps it may record for an exhausted mode

MaxAttempts == MaxTokens * PerTokenRetries

TopLevel == 3       \* ssoHeavy, the last pool of GetPoolsForFloor

ASSUME ChatAssumption ==
  /\ IsFiniteSet(Requests)
  /\ NoToken \notin Tokens
  /\ ModeOf \in [Requests -> Modes]
  /\ Floor \in [Requests -> PoolLevels]
  /\ MaxTokens \in Nat
  /\ PerTokenRetries \in Nat
  /\ MaxAttempts \in Nat
  /\ RefreshAnswers \subseteq {a \in Nat \X Nat : a[1] <= a[2]}
  /\ ResumeTimes \subseteq Nat

(* How a call may fail, as far as the retry policy tells errors apart:     *)
(* 401, 400, context errors, token-level 403, Cloudflare challenge,        *)
(* network / 5xx / corrupted stream, 429, and any other status.            *)
Errors == {"invalid_token", "bad_request", "cancelled", "forbidden",
           "cf_challenge", "transport", "rate_limited", "other"}

NonRecoverable == {"invalid_token", "bad_request", "cancelled"}
SwapsToken     == {"invalid_token", "forbidden", "rate_limited"}
RefundsQuota   == {"transport", "cancelled"}

VARIABLES
  pc,       \* where the request's goroutine stands
  tok,      \* currentToken
  attempt,  \* the loop counter
  retries,  \* tokenRetries
  pool,     \* the pool level the pick loop is at
  after     \* what follows a report of two sections

flowVars == <<pc, tok, attempt, retries, pool, after>>
vars == <<managerVars, flowVars>>

Labels == {"idle",      \* no such request, or its channel is closed
           "head",      \* at the loop condition
           "pick",      \* in the loop over the eligible pools
           "call",      \* in up.Chat or consumeUpstreamEvents
           "refunded",  \* RefundQuota done, MarkFailed to come
           "cleared",   \* ClearModeQuota done, ClearResumeAt to come
           "backoff"}   \* waiting on the backoff timer

FlowTypeOK ==
  /\ pc \in [Requests -> Labels]
  /\ tok \in [Requests -> Tokens \cup {NoToken}]
  /\ attempt \in [Requests -> 0..MaxAttempts]
  /\ retries \in [Requests -> 0..PerTokenRetries]
  /\ pool \in [Requests -> PoolLevels]
  /\ after \in [Requests -> {"finish", "retry", "backoff"}]

TypeOK == ManagerTypeOK /\ FlowTypeOK

Init ==
  /\ ManagerInit
  /\ pc = [r \in Requests |-> "idle"]
  /\ tok = [r \in Requests |-> NoToken]
  /\ attempt = [r \in Requests |-> 0]
  /\ retries = [r \in Requests |-> 0]
  /\ pool = Floor
  /\ after = [r \in Requests |-> "finish"]

-----------------------------------------------------------------------------
Goto(r, label) == pc' = [pc EXCEPT ![r] = label]

(* Return from executeWithRetry; the goroutine's locals are gone. *)
Finish(r) ==
  /\ Goto(r, "idle")
  /\ tok' = [tok EXCEPT ![r] = NoToken]
  /\ attempt' = [attempt EXCEPT ![r] = 0]
  /\ retries' = [retries EXCEPT ![r] = 0]
  /\ pool' = [pool EXCEPT ![r] = Floor[r]]
  /\ after' = [after EXCEPT ![r] = "finish"]

(* A non-recoverable error returns; an error of up.Chat backs off before   *)
(* the next attempt, an error inside the stream goes straight to it.       *)
NextAfter(e, streaming) ==
  IF e \in NonRecoverable THEN "finish" ELSE IF streaming THEN "retry" ELSE "backoff"

(* Go on without a token after an outcome has been reported. *)
ContinueWithout(r, next) ==
  IF next = "finish"
  THEN Finish(r)
  ELSE /\ Goto(r, IF next = "retry" THEN "head" ELSE "backoff")
       /\ tok' = [tok EXCEPT ![r] = NoToken]
       /\ attempt' = [attempt EXCEPT ![r] = IF next = "retry" THEN @ + 1 ELSE @]
       /\ after' = [after EXCEPT ![r] = "finish"]
       /\ UNCHANGED <<retries, pool>>

(* ReleaseToken, if the request still has one, on the way out. *)
ReleaseIfHeld(r) ==
  IF tok[r] # NoToken THEN ReleaseInflightOnly(tok[r]) ELSE UNCHANGED managerVars

-----------------------------------------------------------------------------
(* The head of the loop. *)

Arrive(r) ==
  /\ pc[r] = "idle"
  /\ Goto(r, "head")
  /\ UNCHANGED <<managerVars, tok, attempt, retries, pool, after>>

(* The loop condition fails: report the last error.  Nothing is released. *)
Exhausted(r) ==
  /\ pc[r] = "head"
  /\ attempt[r] >= MaxAttempts
  /\ Finish(r)
  /\ UNCHANGED managerVars

AbandonAtHead(r) ==
  /\ pc[r] = "head"
  /\ attempt[r] < MaxAttempts
  /\ ReleaseIfHeld(r)
  /\ Finish(r)

NeedToken(r) ==
  /\ pc[r] = "head"
  /\ attempt[r] < MaxAttempts
  /\ tok[r] = NoToken
  /\ Goto(r, "pick")
  /\ pool' = [pool EXCEPT ![r] = Floor[r]]
  /\ UNCHANGED <<managerVars, tok, attempt, retries, after>>

SameTokenAgain(r) ==
  /\ pc[r] = "head"
  /\ attempt[r] < MaxAttempts
  /\ tok[r] # NoToken
  /\ Goto(r, "call")
  /\ UNCHANGED <<managerVars, tok, attempt, retries, pool, after>>

-----------------------------------------------------------------------------
(* The loop over the eligible pools, lowest level first. *)

PickToken(r) ==
  /\ pc[r] = "pick"
  /\ \E t \in Selectable(pool[r], ModeOf[r]) :
       /\ Pick(t, ModeOf[r])
       /\ tok' = [tok EXCEPT ![r] = t]
  /\ Goto(r, "call")
  /\ retries' = [retries EXCEPT ![r] = 0]
  /\ UNCHANGED <<attempt, pool, after>>

NextPool(r) ==
  /\ pc[r] = "pick"
  /\ Selectable(pool[r], ModeOf[r]) = {}
  /\ pool[r] < TopLevel
  /\ pool' = [pool EXCEPT ![r] = @ + 1]
  /\ UNCHANGED <<managerVars, pc, tok, attempt, retries, after>>

NoTokenLeft(r) ==
  /\ pc[r] = "pick"
  /\ Selectable(pool[r], ModeOf[r]) = {}
  /\ pool[r] = TopLevel
  /\ Finish(r)
  /\ UNCHANGED managerVars

-----------------------------------------------------------------------------
(* The outcome of the upstream call. *)

CallSucceeds(r) ==
  /\ pc[r] = "call"
  /\ MarkSuccess(tok[r])
  /\ Finish(r)

(* shouldRetrySameToken, after tokenRetries++ *)
KeepsToken(r, e) ==
  e \notin NonRecoverable \cup SwapsToken /\ retries[r] + 1 < PerTokenRetries

(* Mutant: a failure that keeps the token refunds its unit as well. *)
FailKeepingTokenAndRefund(r, e, streaming) ==
  /\ pc[r] = "call"
  /\ KeepsToken(r, e)
  /\ RefundQuota(tok[r], ModeOf[r])
  /\ Goto(r, IF streaming THEN "head" ELSE "backoff")
  /\ attempt' = [attempt EXCEPT ![r] = IF streaming THEN @ + 1 ELSE @]
  /\ retries' = [retries EXCEPT ![r] = @ + 1]
  /\ UNCHANGED <<tok, pool, after>>

(* handleErrorKeepInflight: the request keeps the token for its next attempt. *)
FailKeepingToken(r, e, streaming) ==
  /\ pc[r] = "call"
  /\ KeepsToken(r, e)
  /\ IF e = "cf_challenge" THEN UNCHANGED managerVars ELSE MarkFailedKeepInflight(tok[r])
  /\ Goto(r, IF streaming THEN "head" ELSE "backoff")
  /\ attempt' = [attempt EXCEPT ![r] = IF streaming THEN @ + 1 ELSE @]
  /\ retries' = [retries EXCEPT ![r] = @ + 1]
  /\ UNCHANGED <<tok, pool, after>>

(* handleErrorAndRelease: what an error costs the token, for the errors    *)
(* that are reported in one section.                                       *)
ReportError(t, e) ==
  CASE e = "invalid_token"                 -> MarkExpired(t)
    [] e \in {"forbidden", "cf_challenge"} -> ReleaseInflightOnly(t)
    [] OTHER                               -> MarkFailed(t)

(* tokenRetries++ is left out here and below: the next pick resets it.     *)
FailReleasingToken(r, e, streaming) ==
  /\ pc[r] = "call"
  /\ e \notin RefundsQuota \cup {"rate_limited"}
  /\ ~KeepsToken(r, e)
  /\ ReportError(tok[r], e)
  /\ ContinueWithout(r, NextAfter(e, streaming))

(* ReportError with a refund: first RefundQuota ... *)
FailRefundingQuota(r, e, streaming) ==
  /\ pc[r] = "call"
  /\ e \in RefundsQuota
  /\ ~KeepsToken(r, e)
  /\ RefundQuota(tok[r], ModeOf[r])
  /\ Goto(r, "refunded")
  /\ after' = [after EXCEPT ![r] = NextAfter(e, streaming)]
  /\ UNCHANGED <<tok, attempt, retries, pool>>

(* ... then MarkFailed. *)
FinishRefund(r) ==
  /\ pc[r] = "refunded"
  /\ MarkFailed(tok[r])
  /\ ContinueWithout(r, after[r])

(* ReportRateLimit: first ClearModeQuota ... *)
FailRateLimited(r, streaming) ==
  /\ pc[r] = "call"
  /\ ClearModeQuota(tok[r], ModeOf[r])
  /\ Goto(r, "cleared")
  /\ after' = [after EXCEPT ![r] = NextAfter("rate_limited", streaming)]
  /\ UNCHANGED <<tok, attempt, retries, pool>>

(* Mutant: the second section releases the token again. *)
FinishRateLimitReleasing(r) ==
  /\ pc[r] = "cleared"
  /\ ReleaseInflightOnly(tok[r])
  /\ ContinueWithout(r, after[r])

(* ... then ClearResumeAt.  The refresh it requests runs in the scheduler. *)
FinishRateLimit(r) ==
  /\ pc[r] = "cleared"
  /\ ClearResumeAt(tok[r], ModeOf[r])
  /\ ContinueWithout(r, after[r])

-----------------------------------------------------------------------------
(* The backoff timer. *)

(* Mutant: a backoff does not use up an attempt. *)
BackoffEndsForFree(r) ==
  /\ pc[r] = "backoff"
  /\ Goto(r, "head")
  /\ UNCHANGED <<managerVars, tok, attempt, retries, pool, after>>

BackoffEnds(r) ==
  /\ pc[r] = "backoff"
  /\ Goto(r, "head")
  /\ attempt' = [attempt EXCEPT ![r] = @ + 1]
  /\ UNCHANGED <<managerVars, tok, retries, pool, after>>

AbandonInBackoff(r) ==
  /\ pc[r] = "backoff"
  /\ ReleaseIfHeld(r)
  /\ Finish(r)

-----------------------------------------------------------------------------
(* The scheduler's applyRateLimits, at any time and for any mode: a scan,  *)
(* a requested refresh and an administrator's refresh all end in it.       *)
RefreshQuota(t, m) ==
  /\ \E a \in RefreshAnswers : UpdateModeQuota(t, m, a[1], a[2])
  /\ UNCHANGED flowVars

RefreshResume(t, m) ==
  /\ \E at \in ResumeTimes : SetResumeAt(t, m, at)
  /\ UNCHANGED flowVars

WindowPasses(t) ==
  /\ PenaltyExpires(t)
  /\ UNCHANGED flowVars

CallEnds(r) ==
  \/ CallSucceeds(r)
  \/ \E streaming \in BOOLEAN :
       \/ FailRateLimited(r, streaming)
       \/ \E e \in Errors : \/ FailKeepingToken(r, e, streaming)
                            \/ FailReleasingToken(r, e, streaming)
                            \/ FailRefundingQuota(r, e, streaming)

(* The steps of a goroutine that is running. *)
Step(r) ==
  \/ Exhausted(r) \/ AbandonAtHead(r) \/ NeedToken(r) \/ SameTokenAgain(r)
  \/ PickToken(r) \/ NextPool(r) \/ NoTokenLeft(r)
  \/ CallEnds(r) \/ FinishRefund(r) \/ FinishRateLimit(r)
  \/ BackoffEnds(r) \/ AbandonInBackoff(r)

Environment ==
  \/ \E t \in Tokens : WindowPasses(t)
  \/ \E t \in Tokens, m \in Modes : RefreshQuota(t, m) \/ RefreshResume(t, m)

Next == (\E r \in Requests : Arrive(r) \/ Step(r)) \/ Environment

Spec == Init /\ [][Next]_vars

(* A goroutine that is not blocked for ever is scheduled; up.Chat and the  *)
(* stream end because the request's context has a deadline.  The sends on  *)
(* outCh (chat_stream.go:34 and 86) are assumed to end too: the client's   *)
(* handler keeps reading, or the 64 places of the channel suffice.         *)
FairSpec == Spec /\ \A r \in Requests : WF_vars(Step(r))

-----------------------------------------------------------------------------
(* Properties.                                                             *)

(* The token each request is using.  A rate-limited one has already given  *)
(* it back and only clears its timestamp.                                  *)
Borrowed == [r \in Requests |-> IF pc[r] = "cleared" THEN NoToken ELSE tok[r]]

Holders(t) == {r \in Requests : Borrowed[r] = t}

(* The token on which a request's pre-deducted unit may still be refunded. *)
Owes == [r \in Requests |-> IF pc[r] \in {"refunded", "cleared"} THEN NoToken ELSE tok[r]]

Charged(t, m) == {r \in Requests : Owes[r] = t /\ ModeOf[r] = m}

(* No request's token is released behind its back: the counter of a token  *)
(* never falls below the number of requests that use it.  A path that      *)
(* releases twice would lend the token out more than max_inflight times.   *)
InflightCoversHolders == \A t \in Tokens : Cardinality(Holders(t)) <= inflight[t]

(* The counter goes down by one at a time, and only when a request that    *)
(* holds the token lets go of it.  InflightCoversHolders alone would let   *)
(* a double release hide behind an earlier leak.                           *)
ReleasedByHolder ==
  [][\A t \in Tokens : inflight'[t] < inflight[t] =>
       /\ inflight'[t] = inflight[t] - 1
       /\ \E r \in Requests : Borrowed[r] = t /\ Borrowed'[r] # t]_vars

(* A unit of quota is charged by a pick and refunded at most once: without *)
(* refreshes, what is left plus what running requests may still refund     *)
(* never exceeds the limit, whatever other requests clear in between.      *)
QuotaConserved ==
  RefreshAnswers = {} =>
    \A t \in Tokens, m \in Modes :
      quota[t][m] + Cardinality(Charged(t, m)) <= limit[t][m]

(* A request that comes back to the head of the loop with a token may use  *)
(* it at least once more, so the release on entering the pick with a token *)
(* (chat.go:155-158) is never needed, and the loop counter is in range     *)
(* wherever the code works on an attempt.                                  *)
RetryBounds ==
  \A r \in Requests :
    /\ pc[r] \notin {"idle", "head"} => attempt[r] < MaxAttempts
    /\ pc[r] \in {"call", "refunded", "cleared"} => tok[r] # NoToken
    /\ pc[r] = "pick" => tok[r] = NoToken
    /\ tok[r] # NoToken => retries[r] < PerTokenRetries
    /\ pc[r] = "idle" => tok[r] = NoToken

Lease == INSTANCE TokenLease WITH lease <- Borrowed

(* The flow implements TokenLease: at most max_inflight requests share a   *)
(* token, whatever the retry loop, the refreshes and the errors do.        *)
ImplementsLease == Lease!Spec

(* Every request that arrives is answered: the retry loop terminates.      *)
RequestTerminates == \A r \in Requests : pc[r] # "idle" ~> pc[r] = "idle"

(* manager.go:23 calls inflight the "active request count": it counts no   *)
(* request that has finished.  The exit at the loop condition breaks this. *)
InflightIsActiveRequests == \A t \in Tokens : inflight[t] <= Cardinality(Holders(t))

=============================================================================
