------------------------------ MODULE MediaFlow ------------------------------
(***************************************************************************)
(* internal/flow: the image and video flows against the shared             *)
(* TokenManager.  A request of kind                                        *)
(*   ws     generates N images over a websocket.  A token is picked        *)
(*          without charging a quota; a generation the upstream's filter   *)
(*          blocked is tried again with up to MaxLegs other tokens at once *)
(*          and the first image wins (image_ws.go, image_generate.go);     *)
(*   lite   asks for N images over the chat endpoint (image_lite.go);      *)
(*   edit   uploads references, creates a post and chats until it has N    *)
(*          images (image_edit.go);                                        *)
(*   video  seeds a post, chats, upscales and caches (video.go,            *)
(*          video_sync.go).                                                *)
(* The last three charge the mode of their model and keep one token.       *)
(*                                                                         *)
(* Each call on the manager and each section under cooldownMu is a step.   *)
(* The results of recovery attempts are a set: nothing tells the order in  *)
(* which they were sent from the order in which they are received.         *)
(* generateWithRecovery is only ever called with mode "", so the branches  *)
(* for another mode in image_generate.go have no action.                   *)
(***************************************************************************)
EXTENDS TokenManager

CONSTANTS
  Reqs,          \* the requests
  NoToken,
  KindsOf,       \* KindsOf[r]: the kinds of request r may be
  Mode,          \* the quota mode of the lite, edit and video models
  Floor,         \* the models' pool floor as a level
  N,             \* images asked for
  MaxLegs,       \* image.blocked_parallel_attempts
  RecoveryOn,    \* image.blocked_parallel_enabled
  Cooldown       \* the model's cooldown_seconds > 0

TopLevel == 3

ASSUME MediaAssumption ==
  /\ IsFiniteSet(Reqs)
  /\ NoToken \notin Tokens
  /\ KindsOf \in [Reqs -> SUBSET {"ws", "lite", "edit", "video"}]
  /\ Mode \in Modes
  /\ Floor \in PoolLevels
  /\ N \in Nat \ {0}
  /\ MaxLegs \in Nat \ {0}
  /\ RecoveryOn \in BOOLEAN
  /\ Cooldown \in BOOLEAN
  /\ ~RecentUsePenalty      \* it only narrows the choice among usable tokens

(* How an upstream call fails, as the reports tell it: 401, 429 or busy,   *)
(* 403 or challenge, network / 5xx / deadline, anything else.              *)
CallErrors == {"invalid", "rate", "forbidden", "transport", "other"}

(* reportWSImageError tells fewer of them apart. *)
WSErrors == {"invalid", "rate", "other"}

(* Where a request of a kind that charges a mode starts. *)
FirstStage(k) ==
  CASE k = "edit" -> "upload" [] k = "video" -> "seed" [] OTHER -> "chat"

VARIABLES
  pc,        \* where the request's goroutine stands
  kind,      \* its kind, once it has arrived
  level,     \* the pool the pick is at
  rejected,  \* tokens the pick found cooling (poolExclude)
  cand,      \* the picked token whose cooldown is being checked
  tok,       \* the request's token
  own,       \* history: tok is lent to the request and not given back
  leg,       \* leg[r][t]: the recovery attempt on token t
  winner,    \* the recovery attempt whose image is used
  err,       \* the error to report, and the first error of the attempts
  images,    \* images produced
  used,      \* usedTokenIDs
  cooling,   \* tokens whose websocket cooldown runs (cooldownUntil)
  blocked    \* history: tokens whose generation was blocked

requestVars == <<pc, kind, level, rejected, cand, tok, own, leg, winner, err, images, used>>
mediaVars == <<requestVars, cooling, blocked>>
vars == <<managerVars, mediaVars>>

LegStates == {"none", "picked", "running", "ok", "blocked", "cooled", "done"} \cup WSErrors

MediaTypeOK ==
  /\ ManagerTypeOK
  /\ pc \in [Reqs -> {"idle", "pick", "check", "reject", "gen", "collect", "upload", "post",
                      "seed", "chat", "upscale", "cache", "output", "fail", "cooled",
                      "refunded", "cleared", "credit", "done"}]
  /\ kind \in [Reqs -> {"ws", "lite", "edit", "video", "none"}]
  /\ level \in [Reqs -> PoolLevels]
  /\ rejected \in [Reqs -> SUBSET Tokens]
  /\ cand \in [Reqs -> Tokens \cup {NoToken}]
  /\ tok \in [Reqs -> Tokens \cup {NoToken}]
  /\ own \in [Reqs -> BOOLEAN]
  /\ leg \in [Reqs -> [Tokens -> LegStates]]
  /\ winner \in [Reqs -> Tokens \cup {NoToken}]
  /\ err \in [Reqs -> {"none", "blocked"} \cup CallErrors]
  /\ images \in [Reqs -> 0..N]
  /\ used \in [Reqs -> SUBSET Tokens]
  /\ cooling \subseteq Tokens
  /\ blocked \subseteq Tokens

NoLegs == [t \in Tokens |-> "none"]

Init ==
  /\ ManagerInit
  /\ pc = [r \in Reqs |-> "idle"]
  /\ kind = [r \in Reqs |-> "none"]
  /\ level = [r \in Reqs |-> Floor]
  /\ rejected = [r \in Reqs |-> {}]
  /\ cand = [r \in Reqs |-> NoToken]
  /\ tok = [r \in Reqs |-> NoToken]
  /\ own = [r \in Reqs |-> FALSE]
  /\ leg = [r \in Reqs |-> NoLegs]
  /\ winner = [r \in Reqs |-> NoToken]
  /\ err = [r \in Reqs |-> "none"]
  /\ images = [r \in Reqs |-> 0]
  /\ used = [r \in Reqs |-> {}]
  /\ cooling = {}
  /\ blocked = {}

-----------------------------------------------------------------------------
Set(f, r, v) == [f EXCEPT ![r] = v]

Goto(r, label) == pc' = Set(pc, r, label)

(* Return: the goroutine's locals are gone. *)
Return(r) ==
  /\ Goto(r, "done")
  /\ tok' = Set(tok, r, NoToken)
  /\ own' = Set(own, r, FALSE)
  /\ err' = Set(err, r, "none")
  /\ level' = Set(level, r, Floor)
  /\ kind' = Set(kind, r, "none")
  /\ images' = Set(images, r, 0)
  /\ used' = Set(used, r, {})
  /\ UNCHANGED <<rejected, cand, leg, winner>>

(* The upstream answers about token t with outcome e. *)
Heard(t, e) ==
  /\ blocked' = IF e = "blocked" THEN blocked \cup {t} ELSE blocked
  /\ UNCHANGED cooling

Arrive(r) ==
  /\ pc[r] = "idle"
  /\ \E k \in KindsOf[r] : kind' = Set(kind, r, k)
  /\ Goto(r, "pick")
  /\ UNCHANGED <<managerVars, level, rejected, cand, tok, own, leg, winner, err, images,
                 used, cooling, blocked>>

-----------------------------------------------------------------------------
(* pickWSTokenForModelExcluding, for the first token of a request and for  *)
(* each token of a recovery.                                               *)

(* SelectAnyExcluding: the algorithm sees mode "", for which all quotas    *)
(* are zero, so any token of the highest tier may be returned.             *)
SelectableAny(pool, exclude) ==
  LET usable(ex) == {t \in tokens \ ex : PoolLevel[t] = pool /\ status[t] = "active"}
      fresh == usable(exclude \cup Saturated \cup Penalised)
  IN  TopTier(IF fresh # {} THEN fresh ELSE usable(exclude \cup Saturated))

Selected(r) == {t \in Tokens : leg[r][t] # "none"}
Excluded(r) == rejected[r] \cup Selected(r) \cup ({tok[r]} \ {NoToken})

(* PickAnyExcluding: markPicked without a charge. *)
PickAny(t) ==
  /\ inflight' = [inflight EXCEPT ![t] = @ + 1]
  /\ recent' = recent \cup {t}
  /\ MarkDirty(t)
  /\ UNCHANGED <<tokens, status, failCount, quota, limit, resumeAt>>

WSPick(r) ==
  /\ pc[r] = "pick" /\ kind[r] = "ws"
  /\ \E t \in SelectableAny(level[r], Excluded(r)) :
       /\ PickAny(t)
       /\ cand' = Set(cand, r, t)
  /\ Goto(r, "check")
  /\ UNCHANGED <<kind, level, rejected, tok, own, leg, winner, err, images, used,
                 cooling, blocked>>

WSNextPool(r) ==
  /\ pc[r] = "pick" /\ kind[r] = "ws"
  /\ SelectableAny(level[r], Excluded(r)) = {}
  /\ level[r] < TopLevel
  /\ level' = Set(level, r, level[r] + 1)
  /\ rejected' = Set(rejected, r, {})
  /\ UNCHANGED <<managerVars, pc, kind, cand, tok, own, leg, winner, err, images, used,
                 cooling, blocked>>

(* No pool has a token: the request fails, or its recovery starts with the *)
(* tokens found so far; with none of them the generation stays blocked.    *)
WSNoToken(r) ==
  /\ pc[r] = "pick" /\ kind[r] = "ws"
  /\ SelectableAny(level[r], Excluded(r)) = {}
  /\ level[r] = TopLevel
  /\ rejected' = Set(rejected, r, {})
  /\ level' = Set(level, r, Floor)
  /\ IF tok[r] = NoToken
     THEN Goto(r, "done") /\ UNCHANGED <<leg, err>>
     ELSE IF Selected(r) = {}
     THEN Goto(r, "fail") /\ err' = Set(err, r, "blocked") /\ UNCHANGED leg
     ELSE /\ Goto(r, "collect")
          /\ leg' = Set(leg, r, [t \in Tokens |-> IF leg[r][t] = "picked" THEN "running" ELSE "none"])
          /\ UNCHANGED err
  /\ UNCHANGED <<managerVars, kind, cand, tok, own, winner, images, used,
                 cooling, blocked>>

(* wsCooldownActive. *)
WSCheck(r) ==
  /\ pc[r] = "check"
  /\ IF cand[r] \in cooling
     THEN Goto(r, "reject") /\ UNCHANGED <<level, rejected, cand, tok, own, leg>>
     ELSE /\ level' = Set(level, r, Floor)
          /\ rejected' = Set(rejected, r, {})
          /\ cand' = Set(cand, r, NoToken)
          /\ IF tok[r] = NoToken
             THEN /\ Goto(r, "gen")
                  /\ tok' = Set(tok, r, cand[r])
                  /\ own' = Set(own, r, TRUE)
                  /\ UNCHANGED leg
             ELSE LET enough == Cardinality(Selected(r)) + 1 = MaxLegs
                      legs   == [leg[r] EXCEPT ![cand[r]] = "picked"]
                  IN  /\ Goto(r, IF enough THEN "collect" ELSE "pick")
                      /\ leg' = Set(leg, r, IF enough
                                            THEN [t \in Tokens |-> IF legs[t] = "picked" THEN "running" ELSE "none"]
                                            ELSE legs)
                      /\ UNCHANGED <<tok, own>>
  /\ UNCHANGED <<managerVars, kind, winner, err, images, used, cooling, blocked>>

WSReject(r) ==
  /\ pc[r] = "reject"
  /\ ReleaseInflightOnly(cand[r])
  /\ rejected' = Set(rejected, r, rejected[r] \cup {cand[r]})
  /\ cand' = Set(cand, r, NoToken)
  /\ Goto(r, "pick")
  /\ UNCHANGED <<kind, level, tok, own, leg, winner, err, images, used, cooling, blocked>>

-----------------------------------------------------------------------------
(* generateWithRecovery. *)

GenerationEnds(r) ==
  /\ pc[r] = "gen"
  /\ UNCHANGED managerVars
  /\ \E e \in WSErrors \cup {"none"} :
       /\ Heard(tok[r], e)
       /\ err' = Set(err, r, e)
       /\ Goto(r, IF e = "none" THEN "output" ELSE "fail")
  /\ UNCHANGED <<kind, level, rejected, cand, tok, own, leg, winner, images, used>>

(* The first token is given back before others are tried. *)
GenerationBlocked(r) ==
  /\ pc[r] = "gen"
  /\ Heard(tok[r], "blocked")
  /\ ReleaseInflightOnly(tok[r])
  /\ own' = Set(own, r, FALSE)
  /\ IF RecoveryOn
     THEN Goto(r, "pick") /\ UNCHANGED err
     ELSE Goto(r, "fail") /\ err' = Set(err, r, "blocked")
  /\ UNCHANGED <<kind, level, rejected, cand, tok, leg, winner, images, used>>

(* An attempt of generateBlockedRecovery sends its result.  Once there is  *)
(* a winner its context is cancelled, which shows as one of the errors.    *)
LegEnds(r, t) ==
  /\ leg[r][t] = "running"
  /\ \E e \in WSErrors \cup {"ok", "blocked"} :
       /\ leg' = [leg EXCEPT ![r][t] = e]
       /\ Heard(t, e)
  /\ UNCHANGED <<managerVars, pc, kind, level, rejected, cand, tok, own, winner, err, images, used>>

Collecting(r) == pc[r] = "collect" /\ \A t \in Tokens : leg[r][t] # "cooled"

LegDone(r, t) == leg' = [leg EXCEPT ![r][t] = "done"]

CollectImage(r, t) ==
  /\ Collecting(r)
  /\ leg[r][t] = "ok"
  /\ LegDone(r, t)
  /\ IF winner[r] = NoToken
     THEN winner' = Set(winner, r, t) /\ UNCHANGED managerVars
     ELSE ReleaseInflightOnly(t) /\ UNCHANGED winner
  /\ UNCHANGED <<pc, kind, level, rejected, cand, tok, own, err, images, used,
                 cooling, blocked>>

FirstErr(r, e) == err' = IF err[r] = "none" THEN Set(err, r, e) ELSE err

(* Mutant: a rate limit of one attempt cools the tokens of all of them.    *)
CollectErrorCoolingAll(r, t) ==
  /\ Collecting(r)
  /\ leg[r][t] \in WSErrors
  /\ FirstErr(r, leg[r][t])
  /\ IF leg[r][t] = "rate"
     THEN /\ leg' = [leg EXCEPT ![r][t] = "cooled"]
          /\ cooling' = cooling \cup Selected(r)
          /\ UNCHANGED managerVars
     ELSE /\ IF leg[r][t] = "invalid" THEN MarkExpired(t) ELSE ReleaseInflightOnly(t)
          /\ LegDone(r, t)
          /\ UNCHANGED cooling
  /\ UNCHANGED <<pc, kind, level, rejected, cand, tok, own, winner, images, used, blocked>>

(* reportWSImageError for an attempt.  A rate limit takes two sections.    *)
CollectError(r, t) ==
  /\ Collecting(r)
  /\ leg[r][t] \in WSErrors
  /\ FirstErr(r, leg[r][t])
  /\ IF leg[r][t] = "rate"
     THEN /\ leg' = [leg EXCEPT ![r][t] = "cooled"]
          /\ cooling' = IF Cooldown THEN cooling \cup {t} ELSE cooling
          /\ UNCHANGED managerVars
     ELSE /\ IF leg[r][t] = "invalid" THEN MarkExpired(t) ELSE ReleaseInflightOnly(t)
          /\ LegDone(r, t)
          /\ UNCHANGED cooling
  /\ UNCHANGED <<pc, kind, level, rejected, cand, tok, own, winner, images, used, blocked>>

(* Mutant: a losing attempt that was blocked keeps its token. *)
CollectReleaseRateOnly(r, t) ==
  /\ pc[r] = "collect"
  /\ leg[r][t] = "cooled" \/ (Collecting(r) /\ leg[r][t] = "blocked")
  /\ IF leg[r][t] = "cooled" THEN ReleaseInflightOnly(t) ELSE UNCHANGED managerVars
  /\ LegDone(r, t)
  /\ UNCHANGED <<pc, kind, level, rejected, cand, tok, own, winner, err, images, used,
                 cooling, blocked>>

(* The second section of a rate limit, and the only one of a block.        *)
CollectRelease(r, t) ==
  /\ pc[r] = "collect"
  /\ leg[r][t] = "cooled" \/ (Collecting(r) /\ leg[r][t] = "blocked")
  /\ ReleaseInflightOnly(t)
  /\ LegDone(r, t)
  /\ UNCHANGED <<pc, kind, level, rejected, cand, tok, own, winner, err, images, used,
                 cooling, blocked>>

(* Mutant: the winner's image is used as soon as it is there. *)
CollectEndsEarly(r) ==
  /\ pc[r] = "collect"
  /\ winner[r] # NoToken \/ \A t \in Tokens : leg[r][t] \in {"none", "done"}
  /\ leg' = Set(leg, r, NoLegs)
  /\ winner' = Set(winner, r, NoToken)
  /\ IF winner[r] # NoToken
     THEN /\ tok' = Set(tok, r, winner[r])
          /\ own' = Set(own, r, TRUE)
          /\ err' = Set(err, r, "none")
          /\ Goto(r, "output")
     ELSE /\ FirstErr(r, "blocked")
          /\ Goto(r, "fail")
          /\ UNCHANGED <<tok, own>>
  /\ UNCHANGED <<managerVars, kind, level, rejected, cand, images, used, cooling, blocked>>

(* resultCh is closed: every attempt has ended and been received.  The     *)
(* winner replaces the request's token; without one the error goes back to *)
(* generateWS, which still has the first token in hand.                    *)
CollectEnds(r) ==
  /\ pc[r] = "collect"
  /\ \A t \in Tokens : leg[r][t] \in {"none", "done"}
  /\ leg' = Set(leg, r, NoLegs)
  /\ winner' = Set(winner, r, NoToken)
  /\ IF winner[r] # NoToken
     THEN /\ tok' = Set(tok, r, winner[r])
          /\ own' = Set(own, r, TRUE)
          /\ err' = Set(err, r, "none")
          /\ Goto(r, "output")
     ELSE /\ FirstErr(r, "blocked")
          /\ Goto(r, "fail")
          /\ UNCHANGED <<tok, own>>
  /\ UNCHANGED <<managerVars, kind, level, rejected, cand, images, used, cooling, blocked>>

(* resolveImageOutput of a generated image: decoding it, or saving it in   *)
(* the cache, may fail.                                                    *)
WSOutput(r, ok) ==
  /\ pc[r] = "output" /\ kind[r] = "ws"
  /\ IF ok
     THEN /\ images' = Set(images, r, images[r] + 1)
          /\ used' = Set(used, r, used[r] \cup {tok[r]})
          /\ Goto(r, IF images[r] + 1 = N THEN "credit" ELSE "gen")
          /\ UNCHANGED err
     ELSE /\ err' = Set(err, r, "other")
          /\ Goto(r, "fail")
          /\ UNCHANGED <<images, used>>
  /\ UNCHANGED <<managerVars, kind, level, rejected, cand, tok, own, leg, winner,
                 cooling, blocked>>

(* ReportSuccess for one of the tokens used. *)
WSCredit(r) ==
  /\ pc[r] = "credit" /\ kind[r] = "ws"
  /\ IF used[r] = {}
     THEN Return(r) /\ UNCHANGED managerVars
     ELSE \E t \in used[r] :
            /\ MarkSuccess(t)
            /\ used' = Set(used, r, used[r] \ {t})
            /\ own' = IF t = tok[r] THEN Set(own, r, FALSE) ELSE own
            /\ UNCHANGED <<pc, kind, level, rejected, cand, tok, leg, winner, err, images>>
  /\ UNCHANGED <<cooling, blocked>>

(* reportWSImageError(req.Model, tok.ID, err, ...) in generateWS, whether  *)
(* or not the token has been given back already.                           *)
WSFail(r) ==
  /\ pc[r] = "fail" /\ kind[r] = "ws"
  /\ IF err[r] = "rate"
     THEN /\ cooling' = IF Cooldown THEN cooling \cup {tok[r]} ELSE cooling
          /\ Goto(r, "cooled")
          /\ UNCHANGED <<managerVars, kind, level, rejected, cand, tok, own, leg, winner,
                         err, images, used>>
     ELSE /\ IF err[r] = "invalid" THEN MarkExpired(tok[r]) ELSE ReleaseInflightOnly(tok[r])
          /\ Return(r)
          /\ UNCHANGED cooling
  /\ UNCHANGED blocked

WSFailCooled(r) ==
  /\ pc[r] = "cooled"
  /\ ReleaseInflightOnly(tok[r])
  /\ Return(r)
  /\ UNCHANGED <<cooling, blocked>>

-----------------------------------------------------------------------------
(* The kinds that charge a mode and keep one token. *)

Tracked(r) == kind[r] \in {"lite", "edit", "video"}

TrackedPick(r) ==
  /\ pc[r] = "pick" /\ Tracked(r)
  /\ \E t \in Selectable(level[r], Mode) :
       /\ Pick(t, Mode)
       /\ tok' = Set(tok, r, t)
  /\ own' = Set(own, r, TRUE)
  /\ Goto(r, FirstStage(kind[r]))
  /\ UNCHANGED <<kind, level, rejected, cand, leg, winner, err, images, used,
                 cooling, blocked>>

TrackedNextPool(r) ==
  /\ pc[r] = "pick" /\ Tracked(r)
  /\ Selectable(level[r], Mode) = {}
  /\ IF level[r] < TopLevel
     THEN level' = Set(level, r, level[r] + 1) /\ UNCHANGED pc
     ELSE Goto(r, "done") /\ UNCHANGED level
  /\ UNCHANGED <<managerVars, kind, rejected, cand, tok, own, leg, winner, err, images, used,
                 cooling, blocked>>

(* One call to the upstream on the request's token: go on at one of the    *)
(* labels in next, or report the error.                                    *)
UpstreamCall(r, next) ==
  /\ \/ \E label \in next : Goto(r, label) /\ UNCHANGED <<err, cooling, blocked>>
     \/ \E e \in CallErrors :
          /\ Heard(tok[r], e)
          /\ err' = Set(err, r, e)
          /\ Goto(r, "fail")
  /\ UNCHANGED <<managerVars, kind, level, rejected, cand, tok, own, leg, winner, images, used>>

UploadReferences(r) == pc[r] = "upload" /\ UpstreamCall(r, {"post"})

(* resolveImageEditParentPostID: a post that cannot be created is no error. *)
CreateEditPost(r) ==
  /\ pc[r] = "post"
  /\ Goto(r, "chat")
  /\ UNCHANGED <<managerVars, kind, level, rejected, cand, tok, own, leg, winner, err,
                 images, used, cooling, blocked>>

ResolveVideoSeedPost(r) == pc[r] = "seed" /\ UpstreamCall(r, {"chat"})

(* The answer is read to its end.  A basic account's video in high quality *)
(* is upscaled, any other goes to the cache.                               *)
LiteChat(r)  == pc[r] = "chat" /\ kind[r] = "lite" /\ UpstreamCall(r, {"output"})
EditChat(r)  == pc[r] = "chat" /\ kind[r] = "edit" /\ UpstreamCall(r, {"output"})
VideoChat(r) == pc[r] = "chat" /\ kind[r] = "video" /\ UpstreamCall(r, {"upscale", "cache"})

(* A failed upscale does not count against the token, unless it shows that *)
(* the token is bad (isNonTokenVideoPostProcessError).  Polling goes on    *)
(* after a 429, so none is ever returned.                                  *)
UpscaleVideo(r) ==
  /\ pc[r] = "upscale"
  /\ \/ Goto(r, "cache") /\ UNCHANGED <<err, cooling, blocked>>
     \/ \E e \in CallErrors \ {"rate"} :
          /\ Heard(tok[r], e)
          /\ err' = Set(err, r, e)
          /\ Goto(r, IF e \in {"invalid", "forbidden"} THEN "fail" ELSE "credit")
  /\ UNCHANGED <<managerVars, kind, level, rejected, cand, tok, own, leg, winner, images, used>>

(* resolveImageOutput downloads the image with the token's client. *)
OutputFails(r) ==
  /\ pc[r] = "output" /\ Tracked(r)
  /\ \E e \in CallErrors :
       /\ Heard(tok[r], e)
       /\ err' = Set(err, r, e)
  /\ Goto(r, "fail")
  /\ UNCHANGED <<managerVars, kind, level, rejected, cand, tok, own, leg, winner, images, used>>

(* Mutant: each call of an edit may add a full batch. *)
OutputReadyUncapped(r) ==
  /\ pc[r] = "output" /\ Tracked(r)
  /\ \E got \in 0..N :
       /\ got <= (IF kind[r] = "lite" THEN 1 ELSE N)
       /\ kind[r] = "lite" => got = 1
       /\ images' = Set(images, r, images[r] + got)
       /\ IF images[r] + got >= N
          THEN Goto(r, "credit") /\ UNCHANGED err
          ELSE IF kind[r] = "lite"
          THEN Goto(r, "chat") /\ UNCHANGED err
          ELSE \/ Goto(r, "chat") /\ UNCHANGED err
               \/ images[r] + got > 0 /\ Goto(r, "credit") /\ UNCHANGED err
               \/ images[r] + got = 0 /\ Goto(r, "fail") /\ err' = Set(err, r, "other")
  /\ UNCHANGED <<managerVars, kind, level, rejected, cand, tok, own, leg, winner, used,
                 cooling, blocked>>

(* The stream ends and the outputs are resolved: one image of a lite       *)
(* answer, as many as are still wanted of an edit's.  An edit that has     *)
(* been through all its calls keeps what it got.                           *)
OutputReady(r) ==
  /\ pc[r] = "output" /\ Tracked(r)
  /\ \E got \in 0..N :
       /\ got <= (IF kind[r] = "lite" THEN 1 ELSE N - images[r])
       /\ kind[r] = "lite" => got = 1
       /\ images' = Set(images, r, images[r] + got)
       /\ IF images[r] + got = N
          THEN Goto(r, "credit") /\ UNCHANGED err
          ELSE IF kind[r] = "lite"
          THEN Goto(r, "chat") /\ UNCHANGED err
          ELSE \/ Goto(r, "chat") /\ UNCHANGED err
               \/ images[r] + got > 0 /\ Goto(r, "credit") /\ UNCHANGED err
               \/ images[r] + got = 0 /\ Goto(r, "fail") /\ err' = Set(err, r, "other")
  /\ UNCHANGED <<managerVars, kind, level, rejected, cand, tok, own, leg, winner, used,
                 cooling, blocked>>

(* cacheVideo, whose failure does not count against the token. *)
VideoCached(r) ==
  /\ pc[r] = "cache"
  /\ \E got \in {0, N} : images' = Set(images, r, got)
  /\ Goto(r, "credit")
  /\ UNCHANGED <<managerVars, kind, level, rejected, cand, tok, own, leg, winner, err, used,
                 cooling, blocked>>

TrackedCredit(r) ==
  /\ pc[r] = "credit" /\ Tracked(r)
  /\ MarkSuccess(tok[r])
  /\ Return(r)
  /\ UNCHANGED <<cooling, blocked>>

(* reportTrackedTokenError, the reports of one section ... *)
TrackedFail(r) ==
  /\ pc[r] = "fail" /\ Tracked(r)
  /\ CASE err[r] = "invalid"   -> MarkExpired(tok[r])
       [] err[r] = "forbidden" -> ReleaseInflightOnly(tok[r])
       [] err[r] = "other"     -> MarkFailed(tok[r])
       [] OTHER                -> FALSE
  /\ Return(r)
  /\ UNCHANGED <<cooling, blocked>>

(* ... and of two: a refund before the failure is counted, the mode's      *)
(* quota before its timestamp.                                             *)
TrackedFailFirst(r) ==
  /\ pc[r] = "fail" /\ Tracked(r)
  /\ \/ err[r] = "transport" /\ RefundQuota(tok[r], Mode) /\ Goto(r, "refunded")
     \/ err[r] = "rate" /\ ClearModeQuota(tok[r], Mode) /\ Goto(r, "cleared")
  /\ own' = Set(own, r, err[r] = "transport")
  /\ UNCHANGED <<kind, level, rejected, cand, tok, leg, winner, err, images, used,
                 cooling, blocked>>

(* Mutant: a rate limit releases the token in both sections. *)
TrackedFailSecondReleasing(r) ==
  /\ \/ pc[r] = "refunded" /\ MarkFailed(tok[r])
     \/ pc[r] = "cleared" /\ ReleaseInflightOnly(tok[r])
  /\ Return(r)
  /\ UNCHANGED <<cooling, blocked>>

TrackedFailSecond(r) ==
  /\ \/ pc[r] = "refunded" /\ MarkFailed(tok[r])
     \/ pc[r] = "cleared" /\ ClearResumeAt(tok[r], Mode)
  /\ Return(r)
  /\ UNCHANGED <<cooling, blocked>>

-----------------------------------------------------------------------------
(* cooldownUntil[...] passes. *)
CooldownEnds(t) ==
  /\ t \in cooling
  /\ cooling' = cooling \ {t}
  /\ UNCHANGED <<managerVars, requestVars, blocked>>

WSStep(r) ==
  \/ WSPick(r) \/ WSNextPool(r) \/ WSNoToken(r) \/ WSCheck(r) \/ WSReject(r)
  \/ GenerationEnds(r) \/ GenerationBlocked(r)
  \/ CollectEnds(r)
  \/ \E t \in Tokens : CollectImage(r, t) \/ CollectError(r, t) \/ CollectRelease(r, t)
  \/ \E ok \in BOOLEAN : WSOutput(r, ok)
  \/ WSCredit(r) \/ WSFail(r) \/ WSFailCooled(r)

TrackedStep(r) ==
  \/ TrackedPick(r) \/ TrackedNextPool(r)
  \/ UploadReferences(r) \/ CreateEditPost(r) \/ ResolveVideoSeedPost(r)
  \/ LiteChat(r) \/ EditChat(r) \/ VideoChat(r) \/ UpscaleVideo(r)
  \/ OutputReady(r) \/ OutputFails(r) \/ VideoCached(r)
  \/ TrackedCredit(r) \/ TrackedFail(r) \/ TrackedFailFirst(r) \/ TrackedFailSecond(r)

Step(r) == WSStep(r) \/ TrackedStep(r)

Terminated == (\A r \in Reqs : pc[r] = "done") /\ UNCHANGED vars

Next ==
  \/ \E r \in Reqs : Arrive(r) \/ Step(r) \/ \E t \in Tokens : LegEnds(r, t)
  \/ \E t \in Tokens : CooldownEnds(t)
  \/ Terminated

Spec == Init /\ [][Next]_vars

-----------------------------------------------------------------------------
(* Properties.                                                             *)

(* The tokens lent to a request: the one it works with, the one whose      *)
(* cooldown it checks, those of recovery attempts that are not over, the   *)
(* winner among them.                                                      *)
Borrows(r, t) ==
  \/ own[r] /\ tok[r] = t
  \/ cand[r] = t
  \/ leg[r][t] \notin {"none", "done"}
  \/ winner[r] = t

Borrowers(t) == {r \in Reqs : Borrows(r, t)}

(* No path through the picks, the recovery and the reports keeps a token's *)
(* count up after it has let go of the token: neither a losing attempt nor *)
(* a cooling token that was only looked at stays counted.                  *)
NothingStaysLent == \A t \in Tokens : inflight[t] <= Cardinality(Borrowers(t))

(* A token whose generation was never blocked is counted exactly: requests *)
(* of the other kinds, and websocket requests that go well, neither leak   *)
(* nor release twice.                                                      *)
UnblockedAreCounted ==
  \A t \in Tokens \ blocked : inflight[t] = Cardinality(Borrowers(t))

(* A token is expired, or put in cooldown, by a request that has it and    *)
(* because of what the upstream said about this very token; only the first *)
(* token of a blocked generation may be blamed for another's answer.       *)
Blames(r, t, e) ==
  \/ tok[r] = t /\ own[r] /\ err[r] = e
  \/ leg[r][t] = e

BlameIsOwn ==
  [][\A t \in Tokens \ blocked :
       /\ status[t] # "expired" /\ status'[t] = "expired" => \E r \in Reqs : Blames(r, t, "invalid")
       /\ t \in cooling' \ cooling => \E r \in Reqs : Blames(r, t, "rate")]_vars

(* The unit of quota that a lite, edit or video request was charged comes  *)
(* back at most once.                                                      *)
MediaQuotaConserved ==
  \A t \in Tokens :
    quota[t][Mode] + Cardinality({r \in Reqs : tok[r] = t /\ Tracked(r) /\ own[r] /\ pc[r] # "refunded"})
      <= limit[t][Mode]

(* What holds of the state and of the quota. *)
MediaInv == MediaTypeOK /\ MediaQuotaConserved

=============================================================================
