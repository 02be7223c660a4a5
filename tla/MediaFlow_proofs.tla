---------------------------- MODULE MediaFlow_proofs --------------------------
(***************************************************************************)
(* The image and video flows for any number of requests, tokens, images    *)
(* and recovery attempts: a token is counted for no more requests than     *)
(* have it, exactly for as many as long as its generation was never        *)
(* blocked; a unit of quota comes back at most once; and what a request    *)
(* does to a token's standing follows from an answer about that token.     *)
(*                                                                         *)
(* A step of a request is described once by StepOK: the goroutine changes  *)
(* its own locals, keeps what is known of them (ReqOK), and moves the      *)
(* counter and the quota of a token together with what the request holds   *)
(* of it. One lemma per action shows StepOK; the invariant follows from it *)
(* for all of them.                                                        *)
(***************************************************************************)
EXTENDS MediaFlow, TokenManager_proofs, FiniteSetTheorems

(* Where a goroutine may stand.                                            *)
Labels == {"idle", "pick", "check", "reject", "gen", "collect", "upload", "post",
           "seed", "chat", "upscale", "cache", "output", "fail", "cooled",
           "refunded", "cleared", "credit", "done"}
Kinds == {"ws", "lite", "edit", "video", "none"}
Errors == {"none", "blocked"} \cup CallErrors

(* The stages only a ws request has, only the other kinds have, and both.  *)
WSStages == {"check", "reject", "gen", "collect", "cooled"}
TrackedStages == {"upload", "post", "seed", "chat", "upscale", "cache", "refunded", "cleared"}
SharedStages == {"pick", "output", "fail", "credit"}

(* No recovery is under way; no token; a lent token; a token that is lent  *)
(* or whose generation was blocked.                                        *)
NoRecovery(r) == winner[r] = NoToken /\ \A t \in Tokens : leg[r][t] = "none"
NotLent(r) == tok[r] = NoToken /\ ~own[r]
OwnsTok(r) == own[r] /\ tok[r] # NoToken
LentOrBlocked(r) == tok[r] # NoToken /\ (own[r] \/ tok[r] \in blocked)

(* A stage belongs to the kind of the request.                             *)
StageKind(r) ==
  /\ pc[r] = "idle" => kind[r] = "none"
  /\ pc[r] \in WSStages => kind[r] = "ws"
  /\ pc[r] \in TrackedStages => Tracked(r)
  /\ pc[r] \in SharedStages => kind[r] = "ws" \/ Tracked(r)

(* What a request has of its token at each stage. A ws request keeps       *)
(* naming its first token after it gave it back, and only when the         *)
(* generation with it was blocked.                                         *)
TokenOK(r) ==
  /\ own[r] => tok[r] # NoToken
  /\ pc[r] \in {"idle", "done"} => NotLent(r)
  /\ kind[r] = "ws" =>
       /\ pc[r] \in {"pick", "check", "reject"} =>
            NotLent(r) \/ (~own[r] /\ tok[r] \in blocked)
       /\ pc[r] = "collect" => ~own[r] /\ tok[r] \in blocked
       /\ pc[r] \in {"gen", "output"} => OwnsTok(r)
       /\ pc[r] \in {"fail", "cooled"} => LentOrBlocked(r)
       /\ pc[r] = "credit" => tok[r] # NoToken
  /\ Tracked(r) =>
       /\ pc[r] = "pick" => NotLent(r)
       /\ pc[r] \in (TrackedStages \ {"cleared"}) \cup {"output", "fail", "credit"} => OwnsTok(r)
       /\ pc[r] = "cleared" => ~own[r] /\ tok[r] # NoToken

(* The token whose cooldown is checked is not one the request has already. *)
CandOK(r) ==
  /\ pc[r] \in {"check", "reject"} <=> cand[r] # NoToken
  /\ cand[r] # NoToken => cand[r] # tok[r] /\ leg[r][cand[r]] = "none"

(* Recovery attempts: a first token exists while tokens are collected for  *)
(* it, and a winner has ended.                                             *)
LegsOK(r) ==
  /\ pc[r] # "collect" => winner[r] = NoToken
  /\ winner[r] # NoToken => leg[r][winner[r]] = "done"
  /\ ~(pc[r] \in {"pick", "check", "reject", "collect"} /\ kind[r] = "ws") => NoRecovery(r)
  /\ pc[r] \in {"pick", "check", "reject"} =>
       /\ \A t \in Tokens : leg[r][t] \in {"none", "picked"}
       /\ tok[r] = NoToken => NoRecovery(r)

(* A token that produced an image and is no longer lent was blocked after  *)
(* it; the token in hand is among the used ones when they are credited.    *)
UsedOK(r) ==
  /\ kind[r] # "ws" => used[r] = {}
  /\ \A t \in used[r] : t \in blocked \/ (own[r] /\ t = tok[r])
  /\ pc[r] = "credit" /\ kind[r] = "ws" /\ own[r] => tok[r] \in used[r]

(* An unfinished request wants another image.                              *)
ImagesOK(r) == pc[r] # "credit" => images[r] < N

(* All of it, for one request.                                             *)
ReqOK(r) == StageKind(r) /\ TokenOK(r) /\ CandOK(r) /\ LegsOK(r) /\ UsedOK(r) /\ ImagesOK(r)

(* The manager is only called with tokens it has: nothing here removes     *)
(* one.                                                                    *)
MediaBase == MediaTypeOK /\ tokens = Tokens /\ \A r \in Reqs : ReqOK(r)

(* The inductive invariant: what is known of each request, with the        *)
(* counters and the quota.                                                 *)
MediaIInv == MediaBase /\ NothingStaysLent /\ UnblockedAreCounted /\ MediaQuotaConserved

-----------------------------------------------------------------------------
(* What a step of a request may do. *)

(* It moves its own goroutine's locals only. *)
OthersStay(r) ==
  \A q \in Reqs \ {r} :
    /\ pc'[q] = pc[q] /\ kind'[q] = kind[q] /\ level'[q] = level[q]
    /\ rejected'[q] = rejected[q] /\ cand'[q] = cand[q] /\ tok'[q] = tok[q]
    /\ own'[q] = own[q] /\ leg'[q] = leg[q] /\ winner'[q] = winner[q]
    /\ err'[q] = err[q] /\ images'[q] = images[q] /\ used'[q] = used[q]

(* The type invariant without the manager.                                 *)
LocalsType ==
  /\ pc \in [Reqs -> Labels]
  /\ kind \in [Reqs -> Kinds]
  /\ level \in [Reqs -> PoolLevels]
  /\ rejected \in [Reqs -> SUBSET Tokens]
  /\ cand \in [Reqs -> Tokens \cup {NoToken}]
  /\ tok \in [Reqs -> Tokens \cup {NoToken}]
  /\ own \in [Reqs -> BOOLEAN]
  /\ leg \in [Reqs -> [Tokens -> LegStates]]
  /\ winner \in [Reqs -> Tokens \cup {NoToken}]
  /\ err \in [Reqs -> Errors]
  /\ images \in [Reqs -> 0..N]
  /\ used \in [Reqs -> SUBSET Tokens]
  /\ cooling \subseteq Tokens
  /\ blocked \subseteq Tokens

(* The type invariant is the type of the manager with the type of the      *)
(* locals.                                                                 *)
LEMMA TypeParts ==
  MediaTypeOK <=> ManagerTypeOK /\ LocalsType
BY DEF MediaTypeOK, LocalsType, Labels, Kinds, Errors

(* The request has t after the step exactly if it had it before.           *)
SameLoans(r, t) == Borrows(r, t)' <=> Borrows(r, t)

(* The counter of a token follows the loans. A release of a token the      *)
(* request no longer has happens only to a blocked one (generateWS reports *)
(* its first token again).                                                 *)
Counted(r) ==
  \A t \in Tokens :
    \/ /\ SameLoans(r, t)
       /\ inflight'[t] = inflight[t] \/ (t \in blocked' /\ inflight'[t] <= inflight[t])
    \/ ~Borrows(r, t) /\ Borrows(r, t)' /\ inflight'[t] = inflight[t] + 1
    \/ /\ Borrows(r, t) /\ ~Borrows(r, t)'
       /\ inflight'[t] = IF inflight[t] > 0 THEN inflight[t] - 1 ELSE 0

(* The request still owes a unit of quota of t.                            *)
Charged(r, t) == tok[r] = t /\ Tracked(r) /\ own[r] /\ pc[r] # "refunded"

(* A unit comes back only from a request that owed it, and a unit is taken *)
(* when one starts to owe it.                                              *)
Billed(r) ==
  /\ limit' = limit
  /\ \A t \in Tokens :
       \/ (Charged(r, t)' => Charged(r, t)) /\ quota'[t][Mode] <= quota[t][Mode]
       \/ ~Charged(r, t) /\ quota'[t][Mode] = quota[t][Mode] - 1
       \/ Charged(r, t) /\ ~Charged(r, t)' /\ quota'[t][Mode] <= quota[t][Mode] + 1

(* BlameIsOwn, for one request.                                            *)
Blamed(r) ==
  \A t \in Tokens \ blocked :
    /\ status[t] # "expired" /\ status'[t] = "expired" => Blames(r, t, "invalid")
    /\ t \in cooling' \ cooling => Blames(r, t, "rate")

(* What every step of a request does.                                      *)
StepOK(r) ==
  /\ ManagerTypeOK' /\ LocalsType'
  /\ tokens' = tokens /\ blocked \subseteq blocked'
  /\ OthersStay(r) /\ ReqOK(r)'
  /\ Counted(r) /\ Billed(r) /\ Blamed(r)

(* What every step of a request may rely on.                               *)
Start(r) ==
  /\ ManagerTypeOK /\ LocalsType /\ tokens = Tokens /\ ReqOK(r)
  /\ NoToken \notin Tokens /\ N \in Nat \ {0} /\ Mode \in Modes /\ Floor \in PoolLevels
  /\ ~RecentUsePenalty

(* An action that only moves along. *)
LEMMA MoveStep ==
  ASSUME NEW r \in Reqs, Start(r), pc[r] # "refunded", cooling' = cooling,
         UNCHANGED <<managerVars, kind, cand, tok, own, leg, winner>>
  PROVE  ManagerTypeOK' /\ tokens' = tokens /\ Counted(r) /\ Billed(r) /\ Blamed(r)
<1>1. ManagerTypeOK'
  BY StutterType DEF Start
<1>2. Counted(r)
  BY DEF Counted, SameLoans, Borrows, managerVars
<1>3. Billed(r)
  BY DEF Billed, Charged, Tracked, managerVars, Start, ManagerTypeOK
<1>4. Blamed(r)
  BY DEF Blamed, managerVars
<1> QED
  BY <1>1, <1>2, <1>3, <1>4 DEF managerVars

(* A request that arrives has nothing.                                     *)
LEMMA ArriveStep ==
  ASSUME NEW r \in Reqs, Start(r), Arrive(r)
  PROVE  StepOK(r)
<1> USE DEF Arrive, Set, Goto
<1>0. kind[r] = "none" /\ pc[r] = "idle"
  BY DEF Start, ReqOK, StageKind
<1>1. PICK k \in {"ws", "lite", "edit", "video"} : kind' = [kind EXCEPT ![r] = k]
  BY MediaAssumption
<1>2. LocalsType'
  BY <1>1 DEF Start, LocalsType, Labels, Kinds
<1>3. OthersStay(r)
  BY <1>1 DEF OthersStay, Start, LocalsType
<1>4. ReqOK(r)'
  BY <1>0, <1>1 DEF Start, ReqOK, LocalsType, StageKind, TokenOK, CandOK, LegsOK, UsedOK, ImagesOK,
     Tracked, NotLent, OwnsTok, LentOrBlocked, NoRecovery, WSStages, TrackedStages, SharedStages
<1>5. ManagerTypeOK' /\ tokens' = tokens
  BY StutterType DEF Start, managerVars
<1>6. Counted(r)
  BY DEF Counted, SameLoans, Borrows, managerVars
<1>7. Billed(r)
  BY DEF Billed, Charged, managerVars, Start, ManagerTypeOK, ReqOK, TokenOK, NotLent
<1>8. Blamed(r)
  BY DEF Blamed, managerVars
<1> QED
  BY <1>2, <1>3, <1>4, <1>5, <1>6, <1>7, <1>8 DEF StepOK

(* The next pool: a move.                                                  *)
LEMMA WSNextPoolStep ==
  ASSUME NEW r \in Reqs, Start(r), WSNextPool(r)
  PROVE  StepOK(r)
<1> USE DEF WSNextPool, Set, Goto, Heard, TopLevel
<1>a. pc' \in [Reqs -> Labels]
  BY DEF Start, LocalsType, Labels
<1>b. err' \in [Reqs -> Errors]
  BY DEF Start, LocalsType, Errors, CallErrors, WSErrors
<1>c. level' \in [Reqs -> PoolLevels] /\ rejected' \in [Reqs -> SUBSET Tokens]
  BY SMTT(30) DEF Start, LocalsType, PoolLevels
<1>d. images' \in [Reqs -> 0..N]
  BY DEF Start, LocalsType, ReqOK, ImagesOK
<1>e. used' \in [Reqs -> SUBSET Tokens]
  BY DEF Start, LocalsType, ReqOK, TokenOK, OwnsTok
<1>f. blocked' = blocked
  BY DEF CallErrors, WSErrors
<1>1. LocalsType'
  BY <1>a, <1>b, <1>c, <1>d, <1>e, <1>f DEF Start, LocalsType
<1>2. OthersStay(r) /\ blocked \subseteq blocked'
  BY DEF OthersStay, Start, LocalsType
<1>3. ReqOK(r)'
  BY DEF Start, ReqOK, LocalsType, StageKind, TokenOK, CandOK, LegsOK, UsedOK, ImagesOK,
     Tracked, NotLent, OwnsTok, LentOrBlocked, NoRecovery, WSStages, TrackedStages, SharedStages
<1>4. pc[r] # "refunded" /\ cooling' = cooling
  OBVIOUS
<1>5. UNCHANGED <<managerVars, kind, cand, tok, own, leg, winner>>
  OBVIOUS
<1>6. ManagerTypeOK' /\ tokens' = tokens /\ Counted(r) /\ Billed(r) /\ Blamed(r)
  BY <1>4, <1>5, MoveStep
<1> QED
  BY <1>1, <1>2, <1>3, <1>6 DEF StepOK

(* An answer about the own token: a move.                                  *)
LEMMA GenerationEndsStep ==
  ASSUME NEW r \in Reqs, Start(r), GenerationEnds(r)
  PROVE  StepOK(r)
<1> USE DEF GenerationEnds, Set, Goto, Heard
<1>a. pc' \in [Reqs -> Labels]
  BY DEF Start, LocalsType, Labels
<1>b. err' \in [Reqs -> Errors]
  BY DEF Start, LocalsType, Errors, CallErrors, WSErrors
<1>c. level' \in [Reqs -> PoolLevels] /\ rejected' \in [Reqs -> SUBSET Tokens]
  BY DEF Start, LocalsType, PoolLevels
<1>d. images' \in [Reqs -> 0..N]
  BY DEF Start, LocalsType, ReqOK, ImagesOK
<1>e. used' \in [Reqs -> SUBSET Tokens]
  BY DEF Start, LocalsType, ReqOK, TokenOK, OwnsTok
<1>f. blocked' = blocked
  BY DEF CallErrors, WSErrors
<1>1. LocalsType'
  BY <1>a, <1>b, <1>c, <1>d, <1>e, <1>f DEF Start, LocalsType
<1>2. OthersStay(r) /\ blocked \subseteq blocked'
  BY DEF OthersStay, Start, LocalsType
<1>3. ReqOK(r)'
  BY DEF Start, ReqOK, LocalsType, StageKind, TokenOK, CandOK, LegsOK, UsedOK, ImagesOK,
     Tracked, NotLent, OwnsTok, LentOrBlocked, NoRecovery, WSStages, TrackedStages, SharedStages
<1>4. pc[r] # "refunded" /\ cooling' = cooling
  OBVIOUS
<1>5. UNCHANGED <<managerVars, kind, cand, tok, own, leg, winner>>
  OBVIOUS
<1>6. ManagerTypeOK' /\ tokens' = tokens /\ Counted(r) /\ Billed(r) /\ Blamed(r)
  BY <1>4, <1>5, MoveStep
<1> QED
  BY <1>1, <1>2, <1>3, <1>6 DEF StepOK

(* The next pool, or no token at all: a move.                              *)
LEMMA TrackedNextPoolStep ==
  ASSUME NEW r \in Reqs, Start(r), TrackedNextPool(r)
  PROVE  StepOK(r)
<1> USE DEF TrackedNextPool, Set, Goto, Heard, TopLevel
<1>a. pc' \in [Reqs -> Labels]
  BY SMTT(30) DEF Start, LocalsType, Labels
<1>b. err' \in [Reqs -> Errors]
  BY DEF Start, LocalsType, Errors, CallErrors, WSErrors
<1>c. level' \in [Reqs -> PoolLevels] /\ rejected' \in [Reqs -> SUBSET Tokens]
  BY SMTT(30) DEF Start, LocalsType, PoolLevels
<1>d. images' \in [Reqs -> 0..N]
  BY DEF Start, LocalsType, ReqOK, ImagesOK
<1>e. used' \in [Reqs -> SUBSET Tokens]
  BY DEF Start, LocalsType, ReqOK, TokenOK, OwnsTok
<1>f. blocked' = blocked
  BY DEF CallErrors, WSErrors
<1>1. LocalsType'
  BY <1>a, <1>b, <1>c, <1>d, <1>e, <1>f DEF Start, LocalsType
<1>2. OthersStay(r) /\ blocked \subseteq blocked'
  BY DEF OthersStay, Start, LocalsType
<1>3. ReqOK(r)'
  BY DEF Start, ReqOK, LocalsType, StageKind, TokenOK, CandOK, LegsOK, UsedOK, ImagesOK,
     Tracked, NotLent, OwnsTok, LentOrBlocked, NoRecovery, WSStages, TrackedStages, SharedStages
<1>4. pc[r] # "refunded" /\ cooling' = cooling
  OBVIOUS
<1>5. UNCHANGED <<managerVars, kind, cand, tok, own, leg, winner>>
  OBVIOUS
<1>6. ManagerTypeOK' /\ tokens' = tokens /\ Counted(r) /\ Billed(r) /\ Blamed(r)
  BY <1>4, <1>5, MoveStep
<1> QED
  BY <1>1, <1>2, <1>3, <1>6 DEF StepOK

(* A call to the upstream: a move.                                         *)
LEMMA UploadReferencesStep ==
  ASSUME NEW r \in Reqs, Start(r), UploadReferences(r)
  PROVE  StepOK(r)
<1> USE DEF UploadReferences, Set, Goto, Heard, UpstreamCall
<1>a. pc' \in [Reqs -> Labels]
  BY SMTT(30) DEF Start, LocalsType, Labels
<1>b. err' \in [Reqs -> Errors]
  BY DEF Start, LocalsType, Errors, CallErrors, WSErrors
<1>c. level' \in [Reqs -> PoolLevels] /\ rejected' \in [Reqs -> SUBSET Tokens]
  BY DEF Start, LocalsType, PoolLevels
<1>d. images' \in [Reqs -> 0..N]
  BY DEF Start, LocalsType, ReqOK, ImagesOK
<1>e. used' \in [Reqs -> SUBSET Tokens]
  BY DEF Start, LocalsType, ReqOK, TokenOK, OwnsTok
<1>f. blocked' = blocked
  BY DEF CallErrors, WSErrors
<1>1. LocalsType'
  BY <1>a, <1>b, <1>c, <1>d, <1>e, <1>f DEF Start, LocalsType
<1>2. OthersStay(r) /\ blocked \subseteq blocked'
  BY DEF OthersStay, Start, LocalsType
<1>3. ReqOK(r)'
  BY DEF Start, ReqOK, LocalsType, StageKind, TokenOK, CandOK, LegsOK, UsedOK, ImagesOK,
     Tracked, NotLent, OwnsTok, LentOrBlocked, NoRecovery, WSStages, TrackedStages, SharedStages
<1>4. pc[r] # "refunded" /\ cooling' = cooling
  OBVIOUS
<1>5. UNCHANGED <<managerVars, kind, cand, tok, own, leg, winner>>
  OBVIOUS
<1>6. ManagerTypeOK' /\ tokens' = tokens /\ Counted(r) /\ Billed(r) /\ Blamed(r)
  BY <1>4, <1>5, MoveStep
<1> QED
  BY <1>1, <1>2, <1>3, <1>6 DEF StepOK

(* A call to the upstream: a move.                                         *)
LEMMA ResolveVideoSeedPostStep ==
  ASSUME NEW r \in Reqs, Start(r), ResolveVideoSeedPost(r)
  PROVE  StepOK(r)
<1> USE DEF ResolveVideoSeedPost, Set, Goto, Heard, UpstreamCall
<1>a. pc' \in [Reqs -> Labels]
  BY SMTT(30) DEF Start, LocalsType, Labels
<1>b. err' \in [Reqs -> Errors]
  BY DEF Start, LocalsType, Errors, CallErrors, WSErrors
<1>c. level' \in [Reqs -> PoolLevels] /\ rejected' \in [Reqs -> SUBSET Tokens]
  BY DEF Start, LocalsType, PoolLevels
<1>d. images' \in [Reqs -> 0..N]
  BY DEF Start, LocalsType, ReqOK, ImagesOK
<1>e. used' \in [Reqs -> SUBSET Tokens]
  BY DEF Start, LocalsType, ReqOK, TokenOK, OwnsTok
<1>f. blocked' = blocked
  BY DEF CallErrors, WSErrors
<1>1. LocalsType'
  BY <1>a, <1>b, <1>c, <1>d, <1>e, <1>f DEF Start, LocalsType
<1>2. OthersStay(r) /\ blocked \subseteq blocked'
  BY DEF OthersStay, Start, LocalsType
<1>3. ReqOK(r)'
  BY DEF Start, ReqOK, LocalsType, StageKind, TokenOK, CandOK, LegsOK, UsedOK, ImagesOK,
     Tracked, NotLent, OwnsTok, LentOrBlocked, NoRecovery, WSStages, TrackedStages, SharedStages
<1>4. pc[r] # "refunded" /\ cooling' = cooling
  OBVIOUS
<1>5. UNCHANGED <<managerVars, kind, cand, tok, own, leg, winner>>
  OBVIOUS
<1>6. ManagerTypeOK' /\ tokens' = tokens /\ Counted(r) /\ Billed(r) /\ Blamed(r)
  BY <1>4, <1>5, MoveStep
<1> QED
  BY <1>1, <1>2, <1>3, <1>6 DEF StepOK

(* A call to the upstream: a move.                                         *)
LEMMA LiteChatStep ==
  ASSUME NEW r \in Reqs, Start(r), LiteChat(r)
  PROVE  StepOK(r)
<1> USE DEF LiteChat, Set, Goto, Heard, UpstreamCall
<1>a. pc' \in [Reqs -> Labels]
  BY DEF Start, LocalsType, Labels
<1>b. err' \in [Reqs -> Errors]
  BY DEF Start, LocalsType, Errors, CallErrors, WSErrors
<1>c. level' \in [Reqs -> PoolLevels] /\ rejected' \in [Reqs -> SUBSET Tokens]
  BY DEF Start, LocalsType, PoolLevels
<1>d. images' \in [Reqs -> 0..N]
  BY DEF Start, LocalsType, ReqOK, ImagesOK
<1>e. used' \in [Reqs -> SUBSET Tokens]
  BY DEF Start, LocalsType, ReqOK, TokenOK, OwnsTok
<1>f. blocked' = blocked
  BY DEF CallErrors, WSErrors
<1>1. LocalsType'
  BY <1>a, <1>b, <1>c, <1>d, <1>e, <1>f DEF Start, LocalsType
<1>2. OthersStay(r) /\ blocked \subseteq blocked'
  BY DEF OthersStay, Start, LocalsType
<1>3. ReqOK(r)'
  BY DEF Start, ReqOK, LocalsType, StageKind, TokenOK, CandOK, LegsOK, UsedOK, ImagesOK,
     Tracked, NotLent, OwnsTok, LentOrBlocked, NoRecovery, WSStages, TrackedStages, SharedStages
<1>4. pc[r] # "refunded" /\ cooling' = cooling
  OBVIOUS
<1>5. UNCHANGED <<managerVars, kind, cand, tok, own, leg, winner>>
  OBVIOUS
<1>6. ManagerTypeOK' /\ tokens' = tokens /\ Counted(r) /\ Billed(r) /\ Blamed(r)
  BY <1>4, <1>5, MoveStep
<1> QED
  BY <1>1, <1>2, <1>3, <1>6 DEF StepOK

(* A call to the upstream: a move.                                         *)
LEMMA EditChatStep ==
  ASSUME NEW r \in Reqs, Start(r), EditChat(r)
  PROVE  StepOK(r)
<1> USE DEF EditChat, Set, Goto, Heard, UpstreamCall
<1>a. pc' \in [Reqs -> Labels]
  BY DEF Start, LocalsType, Labels
<1>b. err' \in [Reqs -> Errors]
  BY DEF Start, LocalsType, Errors, CallErrors, WSErrors
<1>c. level' \in [Reqs -> PoolLevels] /\ rejected' \in [Reqs -> SUBSET Tokens]
  BY DEF Start, LocalsType, PoolLevels
<1>d. images' \in [Reqs -> 0..N]
  BY DEF Start, LocalsType, ReqOK, ImagesOK
<1>e. used' \in [Reqs -> SUBSET Tokens]
  BY DEF Start, LocalsType, ReqOK, TokenOK, OwnsTok
<1>f. blocked' = blocked
  BY DEF CallErrors, WSErrors
<1>1. LocalsType'
  BY <1>a, <1>b, <1>c, <1>d, <1>e, <1>f DEF Start, LocalsType
<1>2. OthersStay(r) /\ blocked \subseteq blocked'
  BY DEF OthersStay, Start, LocalsType
<1>3. ReqOK(r)'
  BY DEF Start, ReqOK, LocalsType, StageKind, TokenOK, CandOK, LegsOK, UsedOK, ImagesOK,
     Tracked, NotLent, OwnsTok, LentOrBlocked, NoRecovery, WSStages, TrackedStages, SharedStages
<1>4. pc[r] # "refunded" /\ cooling' = cooling
  OBVIOUS
<1>5. UNCHANGED <<managerVars, kind, cand, tok, own, leg, winner>>
  OBVIOUS
<1>6. ManagerTypeOK' /\ tokens' = tokens /\ Counted(r) /\ Billed(r) /\ Blamed(r)
  BY <1>4, <1>5, MoveStep
<1> QED
  BY <1>1, <1>2, <1>3, <1>6 DEF StepOK

(* A call to the upstream: a move.                                         *)
LEMMA VideoChatStep ==
  ASSUME NEW r \in Reqs, Start(r), VideoChat(r)
  PROVE  StepOK(r)
<1> USE DEF VideoChat, Set, Goto, Heard, UpstreamCall
<1>a. pc' \in [Reqs -> Labels]
  BY DEF Start, LocalsType, Labels
<1>b. err' \in [Reqs -> Errors]
  BY DEF Start, LocalsType, Errors, CallErrors, WSErrors
<1>c. level' \in [Reqs -> PoolLevels] /\ rejected' \in [Reqs -> SUBSET Tokens]
  BY DEF Start, LocalsType, PoolLevels
<1>d. images' \in [Reqs -> 0..N]
  BY DEF Start, LocalsType, ReqOK, ImagesOK
<1>e. used' \in [Reqs -> SUBSET Tokens]
  BY DEF Start, LocalsType, ReqOK, TokenOK, OwnsTok
<1>f. blocked' = blocked
  BY DEF CallErrors, WSErrors
<1>1. LocalsType'
  BY <1>a, <1>b, <1>c, <1>d, <1>e, <1>f DEF Start, LocalsType
<1>2. OthersStay(r) /\ blocked \subseteq blocked'
  BY DEF OthersStay, Start, LocalsType
<1>3. ReqOK(r)'
  BY DEF Start, ReqOK, LocalsType, StageKind, TokenOK, CandOK, LegsOK, UsedOK, ImagesOK,
     Tracked, NotLent, OwnsTok, LentOrBlocked, NoRecovery, WSStages, TrackedStages, SharedStages
<1>4. pc[r] # "refunded" /\ cooling' = cooling
  OBVIOUS
<1>5. UNCHANGED <<managerVars, kind, cand, tok, own, leg, winner>>
  OBVIOUS
<1>6. ManagerTypeOK' /\ tokens' = tokens /\ Counted(r) /\ Billed(r) /\ Blamed(r)
  BY <1>4, <1>5, MoveStep
<1> QED
  BY <1>1, <1>2, <1>3, <1>6 DEF StepOK

(* A post that may fail silently: a move.                                  *)
LEMMA CreateEditPostStep ==
  ASSUME NEW r \in Reqs, Start(r), CreateEditPost(r)
  PROVE  StepOK(r)
<1> USE DEF CreateEditPost, Set, Goto, Heard
<1>a. pc' \in [Reqs -> Labels]
  BY DEF Start, LocalsType, Labels
<1>b. err' \in [Reqs -> Errors]
  BY DEF Start, LocalsType, Errors, CallErrors, WSErrors
<1>c. level' \in [Reqs -> PoolLevels] /\ rejected' \in [Reqs -> SUBSET Tokens]
  BY DEF Start, LocalsType, PoolLevels
<1>d. images' \in [Reqs -> 0..N]
  BY DEF Start, LocalsType, ReqOK, ImagesOK
<1>e. used' \in [Reqs -> SUBSET Tokens]
  BY DEF Start, LocalsType, ReqOK, TokenOK, OwnsTok
<1>f. blocked' = blocked
  BY DEF CallErrors, WSErrors
<1>1. LocalsType'
  BY <1>a, <1>b, <1>c, <1>d, <1>e, <1>f DEF Start, LocalsType
<1>2. OthersStay(r) /\ blocked \subseteq blocked'
  BY DEF OthersStay, Start, LocalsType
<1>3. ReqOK(r)'
  BY DEF Start, ReqOK, LocalsType, StageKind, TokenOK, CandOK, LegsOK, UsedOK, ImagesOK,
     Tracked, NotLent, OwnsTok, LentOrBlocked, NoRecovery, WSStages, TrackedStages, SharedStages
<1>4. pc[r] # "refunded" /\ cooling' = cooling
  OBVIOUS
<1>5. UNCHANGED <<managerVars, kind, cand, tok, own, leg, winner>>
  OBVIOUS
<1>6. ManagerTypeOK' /\ tokens' = tokens /\ Counted(r) /\ Billed(r) /\ Blamed(r)
  BY <1>4, <1>5, MoveStep
<1> QED
  BY <1>1, <1>2, <1>3, <1>6 DEF StepOK

(* The upscale: a move, to a report or to the credit.                      *)
LEMMA UpscaleVideoStep ==
  ASSUME NEW r \in Reqs, Start(r), UpscaleVideo(r)
  PROVE  StepOK(r)
<1> USE DEF UpscaleVideo, Set, Goto, Heard
<1>a. pc' \in [Reqs -> Labels]
  BY DEF Start, LocalsType, Labels
<1>b. err' \in [Reqs -> Errors]
  BY DEF Start, LocalsType, Errors, CallErrors, WSErrors
<1>c. level' \in [Reqs -> PoolLevels] /\ rejected' \in [Reqs -> SUBSET Tokens]
  BY DEF Start, LocalsType, PoolLevels
<1>d. images' \in [Reqs -> 0..N]
  BY DEF Start, LocalsType, ReqOK, ImagesOK
<1>e. used' \in [Reqs -> SUBSET Tokens]
  BY DEF Start, LocalsType, ReqOK, TokenOK, OwnsTok
<1>f. blocked' = blocked
  BY DEF CallErrors, WSErrors
<1>1. LocalsType'
  BY <1>a, <1>b, <1>c, <1>d, <1>e, <1>f DEF Start, LocalsType
<1>2. OthersStay(r) /\ blocked \subseteq blocked'
  BY DEF OthersStay, Start, LocalsType
<1>3. ReqOK(r)'
  BY DEF Start, ReqOK, LocalsType, StageKind, TokenOK, CandOK, LegsOK, UsedOK, ImagesOK,
     Tracked, NotLent, OwnsTok, LentOrBlocked, NoRecovery, WSStages, TrackedStages, SharedStages
<1>4. pc[r] # "refunded" /\ cooling' = cooling
  OBVIOUS
<1>5. UNCHANGED <<managerVars, kind, cand, tok, own, leg, winner>>
  OBVIOUS
<1>6. ManagerTypeOK' /\ tokens' = tokens /\ Counted(r) /\ Billed(r) /\ Blamed(r)
  BY <1>4, <1>5, MoveStep
<1> QED
  BY <1>1, <1>2, <1>3, <1>6 DEF StepOK

(* A download that fails: a move.                                          *)
LEMMA OutputFailsStep ==
  ASSUME NEW r \in Reqs, Start(r), OutputFails(r)
  PROVE  StepOK(r)
<1> USE DEF OutputFails, Set, Goto, Heard
<1>a. pc' \in [Reqs -> Labels]
  BY DEF Start, LocalsType, Labels
<1>b. err' \in [Reqs -> Errors]
  BY DEF Start, LocalsType, Errors, CallErrors, WSErrors
<1>c. level' \in [Reqs -> PoolLevels] /\ rejected' \in [Reqs -> SUBSET Tokens]
  BY DEF Start, LocalsType, PoolLevels
<1>d. images' \in [Reqs -> 0..N]
  BY DEF Start, LocalsType, ReqOK, ImagesOK
<1>e. used' \in [Reqs -> SUBSET Tokens]
  BY DEF Start, LocalsType, ReqOK, TokenOK, OwnsTok
<1>f. blocked' = blocked
  BY DEF CallErrors, WSErrors
<1>1. LocalsType'
  BY <1>a, <1>b, <1>c, <1>d, <1>e, <1>f DEF Start, LocalsType
<1>2. OthersStay(r) /\ blocked \subseteq blocked'
  BY DEF OthersStay, Start, LocalsType
<1>3. ReqOK(r)'
  BY DEF Start, ReqOK, LocalsType, StageKind, TokenOK, CandOK, LegsOK, UsedOK, ImagesOK,
     Tracked, NotLent, OwnsTok, LentOrBlocked, NoRecovery, WSStages, TrackedStages, SharedStages
<1>4. pc[r] # "refunded" /\ cooling' = cooling
  OBVIOUS
<1>5. UNCHANGED <<managerVars, kind, cand, tok, own, leg, winner>>
  OBVIOUS
<1>6. ManagerTypeOK' /\ tokens' = tokens /\ Counted(r) /\ Billed(r) /\ Blamed(r)
  BY <1>4, <1>5, MoveStep
<1> QED
  BY <1>1, <1>2, <1>3, <1>6 DEF StepOK

(* Images are added up to the number asked for, and never beyond it.       *)
LEMMA OutputReadyStep ==
  ASSUME NEW r \in Reqs, Start(r), OutputReady(r)
  PROVE  StepOK(r)
<1> USE DEF OutputReady, Set, Goto, Heard
<1>a. pc' \in [Reqs -> Labels]
  BY DEF Start, LocalsType, Labels
<1>b. err' \in [Reqs -> Errors]
  BY DEF Start, LocalsType, Errors, CallErrors, WSErrors
<1>c. level' \in [Reqs -> PoolLevels] /\ rejected' \in [Reqs -> SUBSET Tokens]
  BY DEF Start, LocalsType, PoolLevels
<1>d. images' \in [Reqs -> 0..N]
  BY DEF Start, LocalsType, ReqOK, ImagesOK
<1>e. used' \in [Reqs -> SUBSET Tokens]
  BY DEF Start, LocalsType, ReqOK, TokenOK, OwnsTok
<1>f. blocked' = blocked
  BY DEF CallErrors, WSErrors
<1>1. LocalsType'
  BY <1>a, <1>b, <1>c, <1>d, <1>e, <1>f DEF Start, LocalsType
<1>2. OthersStay(r) /\ blocked \subseteq blocked'
  BY DEF OthersStay, Start, LocalsType
<1>g. pc[r] = "output" /\ Tracked(r) /\ OwnsTok(r)
  BY DEF Start, ReqOK, TokenOK, Tracked
<1>h. /\ pc'[r] \in {"credit", "chat", "fail"}
      /\ pc'[r] # "credit" => images'[r] < N
      /\ kind' = kind /\ tok' = tok /\ own' = own /\ cand' = cand /\ leg' = leg
      /\ winner' = winner /\ used' = used /\ blocked' = blocked
  <2>1. PICK got \in 0..N :
          /\ got <= (IF kind[r] = "lite" THEN 1 ELSE N - images[r])
          /\ images' = Set(images, r, images[r] + got)
          /\ \/ images[r] + got = N /\ pc' = [pc EXCEPT ![r] = "credit"]
             \/ /\ images[r] + got # N
                /\ \E label \in {"chat", "credit", "fail"} : pc' = [pc EXCEPT ![r] = label]
    OBVIOUS
  <2>2. images[r] \in Nat /\ images[r] < N /\ N \in Nat
    BY <1>g DEF Start, LocalsType, ReqOK, ImagesOK
  <2>3. images[r] + got <= N
    BY <2>1, <2>2
  <2>4. images'[r] = images[r] + got
    BY <2>1 DEF Start, LocalsType
  <2>5. pc'[r] \in {"credit", "chat", "fail"} /\ (pc'[r] # "credit" => images[r] + got # N)
    BY <2>1 DEF Start, LocalsType
  <2>6. pc'[r] # "credit" => images'[r] < N
    BY <2>1, <2>2, <2>3, <2>4, <2>5
  <2> QED
    BY <2>5, <2>6
<1>3. ReqOK(r)'
  <2>1. cand[r] = NoToken /\ NoRecovery(r) /\ used[r] = {} /\ kind[r] # "ws"
    BY <1>g DEF Start, ReqOK, CandOK, LegsOK, UsedOK, Tracked
  <2> QED
    BY <1>g, <1>h, <2>1 DEF ReqOK, StageKind, TokenOK, CandOK, LegsOK, UsedOK, ImagesOK,
       Tracked, NotLent, OwnsTok, LentOrBlocked, NoRecovery, WSStages, TrackedStages, SharedStages
<1>4. pc[r] # "refunded" /\ cooling' = cooling
  OBVIOUS
<1>5. UNCHANGED <<managerVars, kind, cand, tok, own, leg, winner>>
  OBVIOUS
<1>6. ManagerTypeOK' /\ tokens' = tokens /\ Counted(r) /\ Billed(r) /\ Blamed(r)
  BY <1>4, <1>5, MoveStep
<1> QED
  BY <1>1, <1>2, <1>3, <1>6 DEF StepOK

(* The cache: a move.                                                      *)
LEMMA VideoCachedStep ==
  ASSUME NEW r \in Reqs, Start(r), VideoCached(r)
  PROVE  StepOK(r)
<1> USE DEF VideoCached, Set, Goto, Heard
<1>a. pc' \in [Reqs -> Labels]
  BY DEF Start, LocalsType, Labels
<1>b. err' \in [Reqs -> Errors]
  BY DEF Start, LocalsType, Errors, CallErrors, WSErrors
<1>c. level' \in [Reqs -> PoolLevels] /\ rejected' \in [Reqs -> SUBSET Tokens]
  BY DEF Start, LocalsType, PoolLevels
<1>d. images' \in [Reqs -> 0..N]
  BY DEF Start, LocalsType, ReqOK, ImagesOK
<1>e. used' \in [Reqs -> SUBSET Tokens]
  BY DEF Start, LocalsType, ReqOK, TokenOK, OwnsTok
<1>f. blocked' = blocked
  BY DEF CallErrors, WSErrors
<1>1. LocalsType'
  BY <1>a, <1>b, <1>c, <1>d, <1>e, <1>f DEF Start, LocalsType
<1>2. OthersStay(r) /\ blocked \subseteq blocked'
  BY DEF OthersStay, Start, LocalsType
<1>3. ReqOK(r)'
  BY DEF Start, ReqOK, LocalsType, StageKind, TokenOK, CandOK, LegsOK, UsedOK, ImagesOK,
     Tracked, NotLent, OwnsTok, LentOrBlocked, NoRecovery, WSStages, TrackedStages, SharedStages
<1>4. pc[r] # "refunded" /\ cooling' = cooling
  OBVIOUS
<1>5. UNCHANGED <<managerVars, kind, cand, tok, own, leg, winner>>
  OBVIOUS
<1>6. ManagerTypeOK' /\ tokens' = tokens /\ Counted(r) /\ Billed(r) /\ Blamed(r)
  BY <1>4, <1>5, MoveStep
<1> QED
  BY <1>1, <1>2, <1>3, <1>6 DEF StepOK

(* An image of the token in hand puts that token among the used ones.      *)
LEMMA WSOutputStep ==
  ASSUME NEW r \in Reqs, Start(r), NEW ok \in BOOLEAN, WSOutput(r, ok)
  PROVE  StepOK(r)
<1> USE DEF WSOutput, Set, Goto
<1>0. /\ pc[r] = "output" /\ kind[r] = "ws" /\ OwnsTok(r)
      /\ tok[r] \in Tokens /\ images[r] \in Nat /\ images[r] < N
      /\ cand[r] = NoToken /\ NoRecovery(r)
  BY DEF Start, LocalsType, ReqOK, TokenOK, OwnsTok, ImagesOK, CandOK, LegsOK
<1>1. LocalsType' /\ ReqOK(r)'
  <2>1. CASE ok
    <3>1. /\ images' = [images EXCEPT ![r] = images[r] + 1]
          /\ used' = [used EXCEPT ![r] = used[r] \cup {tok[r]}]
          /\ pc' = [pc EXCEPT ![r] = IF images[r] + 1 = N THEN "credit" ELSE "gen"]
          /\ UNCHANGED <<kind, level, rejected, cand, tok, own, leg, winner, err, cooling, blocked>>
      BY <2>1
    <3>2. images[r] + 1 \in 0..N /\ (images[r] + 1 # N => images[r] + 1 < N)
      BY <1>0 DEF Start
    <3>3. pc' \in [Reqs -> Labels]
      BY <3>1 DEF Start, LocalsType, Labels
    <3>4. images' \in [Reqs -> 0..N]
      BY <3>1, <3>2 DEF Start, LocalsType
    <3>5. used' \in [Reqs -> SUBSET Tokens]
      BY <1>0, <3>1 DEF Start, LocalsType
    <3>6. LocalsType'
      BY <3>1, <3>3, <3>4, <3>5 DEF Start, LocalsType
    <3>7. /\ pc'[r] = IF images'[r] = N THEN "credit" ELSE "gen"
          /\ images'[r] # N => images'[r] < N
          /\ used'[r] = used[r] \cup {tok[r]}
      BY <3>1, <3>2 DEF Start, LocalsType
    <3>8. ReqOK(r)'
      BY <1>0, <3>1, <3>7 DEF Start, ReqOK, StageKind, TokenOK, CandOK, LegsOK, UsedOK,
         ImagesOK, Tracked, NotLent, OwnsTok, LentOrBlocked, NoRecovery, WSStages,
         TrackedStages, SharedStages
    <3> QED
      BY <3>6, <3>8
  <2>2. CASE ~ok
    <3>1. /\ err' = [err EXCEPT ![r] = "other"]
          /\ pc' = [pc EXCEPT ![r] = "fail"]
          /\ UNCHANGED <<kind, level, rejected, cand, tok, own, leg, winner, images, used,
                         cooling, blocked>>
      BY <2>2
    <3>2. pc' \in [Reqs -> Labels] /\ err' \in [Reqs -> Errors] /\ pc'[r] = "fail"
      BY <3>1 DEF Start, LocalsType, Labels, Errors, CallErrors
    <3>3. LocalsType'
      BY <3>1, <3>2 DEF Start, LocalsType
    <3>4. ReqOK(r)'
      BY <1>0, <3>1, <3>2 DEF Start, ReqOK, StageKind, TokenOK, CandOK, LegsOK, UsedOK,
         ImagesOK, Tracked, NotLent, OwnsTok, LentOrBlocked, NoRecovery, WSStages,
         TrackedStages, SharedStages
    <3> QED
      BY <3>3, <3>4
  <2> QED
    BY <2>1, <2>2
<1>2. OthersStay(r) /\ blocked \subseteq blocked'
  BY DEF OthersStay, Start, LocalsType
<1>3. ManagerTypeOK' /\ tokens' = tokens /\ Counted(r) /\ Billed(r) /\ Blamed(r)
  BY <1>0, MoveStep
<1> QED
  BY <1>1, <1>2, <1>3 DEF StepOK

-----------------------------------------------------------------------------
(* The manager's side of an action: whose count moves. *)

(* No counter moves, and no loan does.                                     *)
LEMMA QuietMoves ==
  ASSUME NEW r \in Reqs, inflight' = inflight, \A t \in Tokens : SameLoans(r, t)
  PROVE  Counted(r)
BY DEF Counted

(* The release of the token a request lets go of.                          *)
LEMMA ReleaseCounted ==
  ASSUME NEW r \in Reqs, Start(r), NEW u \in Tokens, ReleaseInflight(u),
         \A t \in Tokens \ {u} : SameLoans(r, t),
         \/ Borrows(r, u) /\ ~Borrows(r, u)'
         \/ SameLoans(r, u) /\ u \in blocked'
  PROVE  Counted(r)
<1>1. inflight \in [Tokens -> Nat]
  BY DEF Start, ManagerTypeOK
<1>2. \A t \in Tokens : inflight'[t] = IF t = u /\ inflight[t] > 0 THEN inflight[t] - 1 ELSE inflight[t]
  BY <1>1 DEF ReleaseInflight
<1> QED
  BY <1>1, <1>2 DEF Counted

(* The pick of a token a request starts to have.                           *)
LEMMA PickCounted ==
  ASSUME NEW r \in Reqs, Start(r), NEW u \in Tokens, inflight' = [inflight EXCEPT ![u] = @ + 1],
         \A t \in Tokens \ {u} : SameLoans(r, t), ~Borrows(r, u), Borrows(r, u)'
  PROVE  Counted(r)
<1>1. inflight \in [Tokens -> Nat]
  BY DEF Start, ManagerTypeOK
<1> QED
  BY <1>1 DEF Counted

(* The methods that end a loan, by what they leave alone. *)
LEMMA ReleasingMethods ==
  ASSUME ManagerTypeOK, tokens = Tokens, NEW t \in Tokens,
         \/ MarkExpired(t) \/ MarkSuccess(t) \/ MarkFailed(t) \/ ReleaseInflightOnly(t)
  PROVE  /\ ManagerTypeOK' /\ ReleaseInflight(t)
         /\ UNCHANGED <<tokens, quota, limit>>
         /\ \A u \in Tokens : status'[u] = "expired" /\ status[u] # "expired" => MarkExpired(t) /\ u = t
<1>1. ManagerTypeOK'
  BY MarkExpiredType, MarkSuccessType, MarkFailedType, ReleaseOnlyType
<1>2. ReleaseInflight(t) /\ UNCHANGED <<tokens, quota, limit>>
  BY DEF MarkExpired, MarkSuccess, MarkFailed, ReleaseInflightOnly
<1>3. ASSUME NEW u \in Tokens, status'[u] = "expired", status[u] # "expired"
      PROVE  MarkExpired(t) /\ u = t
  BY <1>3 DEF MarkExpired, MarkSuccess, MarkFailed, ReleaseInflightOnly, CountFailure,
              ManagerTypeOK
<1> QED
  BY <1>1, <1>2, <1>3

(* Return leaves nothing behind. *)
LEMMA ReturnStep ==
  ASSUME NEW r \in Reqs, Start(r), Return(r), blocked' = blocked, cooling' \in SUBSET Tokens,
         pc[r] \in {"credit", "fail", "cooled", "refunded", "cleared"}
  PROVE  /\ LocalsType' /\ OthersStay(r) /\ ReqOK(r)'
         /\ \A t \in Tokens : ~Borrows(r, t)'
         /\ \A t \in Tokens : Borrows(r, t) <=> own[r] /\ tok[r] = t
         /\ \A t \in Tokens : ~Charged(r, t)'
<1> USE DEF Return, Set, Goto
<1>1. cand[r] = NoToken /\ NoRecovery(r)
  BY DEF Start, ReqOK, CandOK, LegsOK
<1>2. /\ pc' \in [Reqs -> Labels] /\ tok' \in [Reqs -> Tokens \cup {NoToken}]
      /\ own' \in [Reqs -> BOOLEAN] /\ err' \in [Reqs -> Errors]
      /\ level' \in [Reqs -> PoolLevels] /\ kind' \in [Reqs -> Kinds]
      /\ images' \in [Reqs -> 0..N] /\ used' \in [Reqs -> SUBSET Tokens]
  BY DEF Start, LocalsType, Labels, Errors, Kinds
<1>3. LocalsType'
  BY <1>2 DEF Start, LocalsType
<1>4. OthersStay(r)
  BY DEF OthersStay, Start, LocalsType
<1>5. /\ pc'[r] = "done" /\ tok'[r] = NoToken /\ own'[r] = FALSE /\ kind'[r] = "none"
      /\ images'[r] = 0 /\ used'[r] = {} /\ cand'[r] = NoToken
      /\ leg' = leg /\ winner' = winner
  BY <1>1 DEF Start, LocalsType
<1>6. ReqOK(r)'
  BY <1>1, <1>5 DEF Start, ReqOK, StageKind, TokenOK, CandOK, LegsOK, UsedOK,
     ImagesOK, Tracked, NotLent, OwnsTok, LentOrBlocked, NoRecovery, WSStages,
     TrackedStages, SharedStages
<1>7. \A t \in Tokens : ~Borrows(r, t)' /\ ~Charged(r, t)'
  BY <1>1, <1>5 DEF Borrows, Charged, NoRecovery, Start
<1>8. \A t \in Tokens : Borrows(r, t) <=> own[r] /\ tok[r] = t
  BY <1>1 DEF Borrows, NoRecovery, Start
<1> QED
  BY <1>3, <1>4, <1>6, <1>7, <1>8

(* A request returns and gives its token back, if it still had it. *)
LEMMA ReturnReleasing ==
  ASSUME NEW r \in Reqs, Start(r), Return(r), blocked' = blocked, cooling' = cooling,
         pc[r] \in {"credit", "fail", "cooled", "refunded"},
         tok[r] # NoToken, own[r] \/ tok[r] \in blocked,
         \/ MarkExpired(tok[r]) /\ err[r] = "invalid"
         \/ MarkSuccess(tok[r]) \/ MarkFailed(tok[r]) \/ ReleaseInflightOnly(tok[r])
  PROVE  StepOK(r)
<1>1. /\ LocalsType' /\ OthersStay(r) /\ ReqOK(r)'
      /\ \A t \in Tokens : ~Borrows(r, t)'
      /\ \A t \in Tokens : Borrows(r, t) <=> own[r] /\ tok[r] = t
      /\ \A t \in Tokens : ~Charged(r, t)'
  BY ReturnStep DEF Start, LocalsType
<1>2. tok[r] \in Tokens /\ ManagerTypeOK /\ tokens = Tokens
  BY DEF Start, LocalsType
<1>3. /\ ManagerTypeOK' /\ ReleaseInflight(tok[r])
      /\ UNCHANGED <<tokens, quota, limit>>
      /\ \A u \in Tokens : status'[u] = "expired" /\ status[u] # "expired" =>
           MarkExpired(tok[r]) /\ u = tok[r]
  BY <1>2, ReleasingMethods
<1>4. Counted(r)
  <2>0. PICK u \in Tokens : u = tok[r]
    BY <1>2
  <2>1. \A t \in Tokens \ {u} : SameLoans(r, t)
    BY <1>1, <2>0 DEF SameLoans
  <2>2. \/ Borrows(r, u) /\ ~Borrows(r, u)'
        \/ SameLoans(r, u) /\ u \in blocked'
    BY <1>1, <2>0 DEF SameLoans
  <2> QED
    BY <1>3, <2>0, <2>1, <2>2, ReleaseCounted
<1>5. Billed(r)
  BY <1>1, <1>3 DEF Billed, ManagerTypeOK, Start
<1>6. Blamed(r)
  <2>1. ASSUME NEW t \in Tokens \ blocked, status[t] # "expired", status'[t] = "expired"
        PROVE  Blames(r, t, "invalid")
    <3>1. t = tok[r] /\ own[r]
      BY <1>3, <2>1
    <3>2. err[r] = "invalid"
      BY <1>2, <2>1, <3>1 DEF MarkSuccess, MarkFailed, ReleaseInflightOnly, CountFailure,
                              ManagerTypeOK
    <3> QED
      BY <3>1, <3>2 DEF Blames
  <2> QED
    BY <2>1 DEF Blamed
<1> QED
  BY <1>1, <1>3, <1>4, <1>5, <1>6 DEF StepOK

(* The credit of a request that keeps one token.                           *)
LEMMA TrackedCreditStep ==
  ASSUME NEW r \in Reqs, Start(r), TrackedCredit(r)
  PROVE  StepOK(r)
<1>1. own[r] /\ tok[r] # NoToken
  BY DEF TrackedCredit, Start, ReqOK, TokenOK, OwnsTok
<1> QED
  BY <1>1, ReturnReleasing DEF TrackedCredit

(* The reports that are one section.                                       *)
LEMMA TrackedFailStep ==
  ASSUME NEW r \in Reqs, Start(r), TrackedFail(r)
  PROVE  StepOK(r)
<1>1. own[r] /\ tok[r] # NoToken
  BY DEF TrackedFail, Start, ReqOK, TokenOK, OwnsTok
<1>2. \/ MarkExpired(tok[r]) /\ err[r] = "invalid"
      \/ MarkFailed(tok[r]) \/ ReleaseInflightOnly(tok[r])
  BY DEF TrackedFail
<1> QED
  BY <1>1, <1>2, ReturnReleasing DEF TrackedFail

(* The release that follows a cooldown.                                    *)
LEMMA WSFailCooledStep ==
  ASSUME NEW r \in Reqs, Start(r), WSFailCooled(r)
  PROVE  StepOK(r)
<1>1. tok[r] # NoToken /\ (own[r] \/ tok[r] \in blocked)
  BY DEF WSFailCooled, Start, ReqOK, TokenOK, LentOrBlocked, StageKind, WSStages
<1> QED
  BY <1>1, ReturnReleasing DEF WSFailCooled

(* The report of a ws request, whether or not its token was given back.    *)
LEMMA WSFailStep ==
  ASSUME NEW r \in Reqs, Start(r), WSFail(r)
  PROVE  StepOK(r)
<1>0. tok[r] \in Tokens /\ tok[r] # NoToken /\ (own[r] \/ tok[r] \in blocked)
  BY DEF WSFail, Start, ReqOK, TokenOK, LentOrBlocked, LocalsType
<1>1. CASE err[r] # "rate"
  BY <1>0, <1>1, ReturnReleasing DEF WSFail
<1>2. CASE err[r] = "rate"
  <2> USE DEF WSFail, Set, Goto
  <2>1. /\ pc' = [pc EXCEPT ![r] = "cooled"]
        /\ cooling' = IF Cooldown THEN cooling \cup {tok[r]} ELSE cooling
        /\ UNCHANGED <<managerVars, kind, level, rejected, cand, tok, own, leg, winner,
                       err, images, used, blocked>>
        /\ pc[r] = "fail" /\ kind[r] = "ws"
    BY <1>2
  <2>2. pc' \in [Reqs -> Labels] /\ pc'[r] = "cooled"
    BY <2>1 DEF Start, LocalsType, Labels
  <2>3. LocalsType'
    BY <1>0, <2>1, <2>2 DEF Start, LocalsType
  <2>4. OthersStay(r)
    BY <2>1 DEF OthersStay, Start, LocalsType
  <2>5. ReqOK(r)'
    BY <2>1, <2>2 DEF Start, ReqOK, StageKind, TokenOK, CandOK, LegsOK, UsedOK,
     ImagesOK, Tracked, NotLent, OwnsTok, LentOrBlocked, NoRecovery, WSStages,
     TrackedStages, SharedStages
  <2>6. ManagerTypeOK' /\ UNCHANGED <<tokens, status, inflight, quota, limit>>
    BY <2>1, StutterType DEF Start, managerVars
  <2>7. Counted(r)
    BY <2>1, <2>6, QuietMoves DEF SameLoans, Borrows
  <2>8. Billed(r)
    BY <2>1, <2>2, <2>6 DEF Billed, Charged, Tracked, Start, ManagerTypeOK
  <2>9. Blamed(r)
    BY <1>0, <1>2, <2>1, <2>6 DEF Blamed, Blames
  <2> QED
    BY <2>1, <2>3, <2>4, <2>5, <2>6, <2>7, <2>8, <2>9 DEF StepOK
<1> QED
  BY <1>1, <1>2

(* The second section: the failure is counted after the refund, the        *)
(* timestamp cleared after the quota, and neither gives back what the      *)
(* first section did.                                                      *)
LEMMA TrackedFailSecondStep ==
  ASSUME NEW r \in Reqs, Start(r), TrackedFailSecond(r)
  PROVE  StepOK(r)
<1>1. CASE pc[r] = "refunded" /\ MarkFailed(tok[r])
  <2>1. own[r] /\ tok[r] # NoToken
    BY <1>1 DEF Start, ReqOK, TokenOK, OwnsTok, StageKind, TrackedStages
  <2> QED
    BY <1>1, <2>1, ReturnReleasing DEF TrackedFailSecond
<1>2. CASE pc[r] = "cleared" /\ ClearResumeAt(tok[r], Mode)
  <2>1. ~own[r] /\ tok[r] \in Tokens
    BY <1>2 DEF Start, ReqOK, TokenOK, StageKind, TrackedStages, LocalsType
  <2>2. /\ LocalsType' /\ OthersStay(r) /\ ReqOK(r)'
        /\ \A t \in Tokens : ~Borrows(r, t)'
        /\ \A t \in Tokens : Borrows(r, t) <=> own[r] /\ tok[r] = t
        /\ \A t \in Tokens : ~Charged(r, t)'
    BY <1>2, ReturnStep DEF TrackedFailSecond, Start, LocalsType
  <2>3. ManagerTypeOK'
    <3>1. SetResumeAt(tok[r], Mode, 0) /\ 0 \in Nat
      BY <1>2 DEF ClearResumeAt
    <3> QED
      BY <2>1, <3>1, SetResumeType DEF Start
  <2>4. UNCHANGED <<tokens, status, inflight, quota, limit>>
    BY <1>2 DEF ClearResumeAt, SetResumeAt, managerVars
  <2>5. Counted(r)
    BY <2>1, <2>2, <2>4, QuietMoves DEF SameLoans
  <2>6. Billed(r)
    BY <2>2, <2>4 DEF Billed, ManagerTypeOK, Start
  <2>7. Blamed(r)
    BY <2>4 DEF Blamed, TrackedFailSecond
  <2> QED
    BY <2>2, <2>3, <2>4, <2>5, <2>6, <2>7 DEF StepOK, TrackedFailSecond
<1> QED
  BY <1>1, <1>2 DEF TrackedFailSecond

(* The first section: a refund of the unit the request owes, or a quota    *)
(* set to zero.                                                            *)
LEMMA TrackedFailFirstStep ==
  ASSUME NEW r \in Reqs, Start(r), TrackedFailFirst(r)
  PROVE  StepOK(r)
<1> USE DEF TrackedFailFirst, Set, Goto
<1>0. /\ tok[r] \in Tokens /\ own[r] /\ cand[r] = NoToken /\ NoRecovery(r)
      /\ pc[r] = "fail" /\ Tracked(r) /\ used[r] = {} /\ tokens = Tokens
  BY DEF Start, ReqOK, TokenOK, OwnsTok, LocalsType, CandOK, LegsOK, UsedOK, Tracked
<1>1. /\ pc' = [pc EXCEPT ![r] = IF err[r] = "transport" THEN "refunded" ELSE "cleared"]
      /\ own' = [own EXCEPT ![r] = (err[r] = "transport")]
      /\ UNCHANGED <<kind, level, rejected, cand, tok, leg, winner, err, images, used,
                     cooling, blocked>>
  OBVIOUS
<1>2. /\ pc' \in [Reqs -> Labels] /\ own' \in [Reqs -> BOOLEAN]
      /\ own'[r] = (err[r] = "transport")
      /\ pc'[r] = IF err[r] = "transport" THEN "refunded" ELSE "cleared"
  BY <1>1 DEF Start, LocalsType, Labels
<1>3. LocalsType'
  BY <1>1, <1>2 DEF Start, LocalsType
<1>4. OthersStay(r)
  BY <1>1 DEF OthersStay, Start, LocalsType
<1>5. ReqOK(r)'
  <2>1. /\ kind[r] # "ws" /\ kind[r] # "none" /\ pc'[r] \in {"refunded", "cleared"}
        /\ ReqOK(r)
    BY <1>0, <1>1, <1>2 DEF Start, Tracked
  <2>2. StageKind(r)' /\ TokenOK(r)'
    <3>1. kind'[r] = kind[r] /\ tok'[r] = tok[r] /\ tok[r] # NoToken
          /\ (Tracked(r)' <=> Tracked(r))
          /\ own'[r] = (pc'[r] = "refunded")
      BY <1>0, <1>1, <1>2 DEF Start, LocalsType, Tracked
    <3>2. StageKind(r)'
      BY <1>0, <2>1, <3>1 DEF StageKind, WSStages, TrackedStages, SharedStages
    <3>3. TokenOK(r)'
      BY <1>0, <2>1, <3>1 DEF TokenOK, NotLent, OwnsTok, TrackedStages
    <3> QED
      BY <3>2, <3>3
  <2>3. CandOK(r)' /\ LegsOK(r)'
    BY <1>0, <1>1, <1>2, <2>1 DEF CandOK, LegsOK, NoRecovery
  <2>4. UsedOK(r)' /\ ImagesOK(r)'
    BY <1>0, <1>1, <1>2, <2>1 DEF ReqOK, UsedOK, ImagesOK
  <2> QED
    BY <2>2, <2>3, <2>4 DEF ReqOK
<1>6. /\ quota \in [Tokens -> [Modes -> Nat]] /\ limit \in [Tokens -> [Modes -> Nat]]
      /\ ManagerTypeOK /\ Mode \in Modes
  BY DEF Start, ManagerTypeOK
<1>7. CASE err[r] = "transport"
  <2>1. RefundQuota(tok[r], Mode)
    BY <1>7
  <2>2. ManagerTypeOK'
    BY <1>0, <1>6, <2>1, RefundType
  <2>3. /\ UNCHANGED <<tokens, status, inflight, limit>>
        /\ quota' = [quota EXCEPT ![tok[r]][Mode] = Refunded(quota[tok[r]][Mode], limit[tok[r]][Mode])]
    BY <1>0, <2>1 DEF RefundQuota
  <2>4. Counted(r)
    BY <1>0, <1>1, <1>2, <1>7, <2>3, QuietMoves DEF SameLoans, Borrows
  <2>5. Billed(r)
    <3>1. quota'[tok[r]][Mode] <= quota[tok[r]][Mode] + 1
      <4>1. quota'[tok[r]][Mode] = Refunded(quota[tok[r]][Mode], limit[tok[r]][Mode])
        BY <1>0, <1>6, <2>3
      <4>2. quota[tok[r]][Mode] \in Nat /\ limit[tok[r]][Mode] \in Nat
        BY <1>0, <1>6
      <4> QED
        BY <4>1, <4>2, RefundedBound
    <3>2. Charged(r, tok[r]) /\ ~Charged(r, tok[r])'
      BY <1>0, <1>1, <1>2, <1>7 DEF Charged
    <3>3. \A t \in Tokens \ {tok[r]} : ~Charged(r, t)' /\ quota'[t][Mode] = quota[t][Mode]
      BY <1>0, <1>1, <1>6, <2>3 DEF Charged
    <3> QED
      BY <1>6, <2>3, <3>1, <3>2, <3>3 DEF Billed
  <2>6. Blamed(r)
    BY <1>1, <2>3 DEF Blamed
  <2> QED
    BY <1>1, <1>3, <1>4, <1>5, <2>2, <2>3, <2>4, <2>5, <2>6 DEF StepOK
<1>8. CASE err[r] # "transport"
  <2>1. ClearModeQuota(tok[r], Mode)
    BY <1>8
  <2>2. ManagerTypeOK'
    BY <1>0, <1>6, <2>1, ClearModeType
  <2>3. /\ UNCHANGED <<tokens, status, limit>> /\ ReleaseInflight(tok[r])
        /\ quota' = [quota EXCEPT ![tok[r]][Mode] = 0]
    BY <1>0, <2>1 DEF ClearModeQuota
  <2>a. ~own'[r]
    BY <1>2, <1>8
  <2>4. Counted(r)
    <3>0. PICK u \in Tokens : u = tok[r]
      BY <1>0
    <3>1. \A t \in Tokens : ~Borrows(r, t)'
      BY <1>0, <1>1, <2>a DEF Borrows, NoRecovery, Start
    <3>2. \A t \in Tokens : Borrows(r, t) <=> t = u
      BY <1>0, <3>0 DEF Borrows, NoRecovery, Start
    <3> QED
      BY <2>3, <3>0, <3>1, <3>2, ReleaseCounted DEF SameLoans
  <2>5. Billed(r)
    <3>1. \A t \in Tokens : ~Charged(r, t)' /\ quota'[t][Mode] <= quota[t][Mode]
      BY <1>0, <1>1, <2>a, <1>6, <2>3 DEF Charged
    <3> QED
      BY <2>3, <3>1 DEF Billed
  <2>6. Blamed(r)
    BY <1>1, <2>3 DEF Blamed
  <2> QED
    BY <1>1, <1>3, <1>4, <1>5, <2>2, <2>3, <2>4, <2>5, <2>6 DEF StepOK
<1> QED
  BY <1>7, <1>8

(* A success is reported for each used token; those not in hand were       *)
(* blocked later.                                                          *)
LEMMA WSCreditStep ==
  ASSUME NEW r \in Reqs, Start(r), WSCredit(r)
  PROVE  StepOK(r)
<1>0. /\ pc[r] = "credit" /\ kind[r] = "ws" /\ tok[r] \in Tokens
      /\ cand[r] = NoToken /\ NoRecovery(r)
      /\ used[r] \subseteq Tokens /\ blocked' = blocked /\ cooling' = cooling
      /\ \A t \in used[r] : t \in blocked \/ (own[r] /\ t = tok[r])
      /\ own[r] => tok[r] \in used[r]
  BY DEF WSCredit, Start, ReqOK, TokenOK, LocalsType, CandOK, LegsOK, UsedOK
<1>1. CASE used[r] = {}
  <2>1. Return(r) /\ UNCHANGED managerVars
    BY <1>1 DEF WSCredit
  <2>2. /\ LocalsType' /\ OthersStay(r) /\ ReqOK(r)'
        /\ \A t \in Tokens : ~Borrows(r, t)'
        /\ \A t \in Tokens : Borrows(r, t) <=> own[r] /\ tok[r] = t
        /\ \A t \in Tokens : ~Charged(r, t)'
    BY <1>0, <2>1, ReturnStep DEF Start, LocalsType
  <2>3. ManagerTypeOK' /\ UNCHANGED <<tokens, status, inflight, quota, limit>>
    BY <2>1, StutterType DEF Start, managerVars
  <2>4. Counted(r)
    BY <1>0, <1>1, <2>2, <2>3, QuietMoves DEF SameLoans
  <2>5. Billed(r)
    BY <2>2, <2>3 DEF Billed, ManagerTypeOK, Start
  <2>6. Blamed(r)
    BY <1>0, <2>3 DEF Blamed
  <2> QED
    BY <1>0, <2>2, <2>3, <2>4, <2>5, <2>6 DEF StepOK
<1>2. CASE used[r] # {}
  <2>1. PICK t \in used[r] :
          /\ MarkSuccess(t)
          /\ used' = [used EXCEPT ![r] = used[r] \ {t}]
          /\ own' = IF t = tok[r] THEN [own EXCEPT ![r] = FALSE] ELSE own
          /\ UNCHANGED <<pc, kind, level, rejected, cand, tok, leg, winner, err, images>>
    BY <1>2 DEF WSCredit, Set
  <2>2. t \in Tokens /\ ManagerTypeOK /\ tokens = Tokens
    BY <1>0 DEF Start
  <2>3. /\ used'[r] = used[r] \ {t} /\ own'[r] = (own[r] /\ t # tok[r])
        /\ used' \in [Reqs -> SUBSET Tokens] /\ own' \in [Reqs -> BOOLEAN]
    BY <2>1, <1>0 DEF Start, LocalsType
  <2>4. LocalsType'
    BY <1>0, <2>1, <2>3 DEF Start, LocalsType
  <2>5. OthersStay(r)
    BY <2>1 DEF OthersStay, Start, LocalsType
  <2>6. ReqOK(r)'
    BY <1>0, <2>1, <2>3 DEF Start, ReqOK, StageKind, TokenOK, CandOK, LegsOK, UsedOK,
     ImagesOK, Tracked, NotLent, OwnsTok, LentOrBlocked, NoRecovery, WSStages,
     TrackedStages, SharedStages
  <2>7. /\ ManagerTypeOK' /\ ReleaseInflight(t)
        /\ UNCHANGED <<tokens, quota, limit>>
        /\ \A u \in Tokens : status'[u] = "expired" /\ status[u] # "expired" =>
             MarkExpired(t) /\ u = t
    BY <2>1, <2>2, ReleasingMethods
  <2>8. Counted(r)
    <3>1. /\ \A u \in Tokens : Borrows(r, u) <=> own[r] /\ tok[r] = u
          /\ \A u \in Tokens : Borrows(r, u)' <=> own'[r] /\ tok[r] = u
      BY <1>0, <2>1 DEF Borrows, NoRecovery, Start
    <3>2. \A u \in Tokens \ {t} : SameLoans(r, u)
      BY <2>3, <3>1 DEF SameLoans
    <3>3. \/ Borrows(r, t) /\ ~Borrows(r, t)'
          \/ SameLoans(r, t) /\ t \in blocked'
      BY <1>0, <2>2, <2>3, <3>1 DEF SameLoans
    <3> QED
      BY <2>2, <2>7, <3>2, <3>3, ReleaseCounted
  <2>9. Billed(r)
    <3>1. \A u \in Tokens : ~Charged(r, u)'
      BY <1>0, <2>1 DEF Charged, Tracked
    <3> QED
      BY <2>7, <3>1 DEF Billed, ManagerTypeOK, Start
  <2>10. Blamed(r)
    <3>1. \A u \in Tokens : status'[u] = "expired" => status[u] = "expired"
      BY <2>1, <2>2 DEF MarkSuccess, ManagerTypeOK
    <3> QED
      BY <1>0, <3>1 DEF Blamed
  <2> QED
    BY <1>0, <2>4, <2>5, <2>6, <2>7, <2>8, <2>9, <2>10 DEF StepOK
<1> QED
  BY <1>1, <1>2

-----------------------------------------------------------------------------
(* The picks. *)

(* What SelectAnyExcluding may return is a token that was not excluded. *)
LEMMA SelectableAnyFacts ==
  ASSUME NEW p, NEW ex, NEW t \in SelectableAny(p, ex)
  PROVE  t \in tokens /\ t \notin ex
<1> DEFINE usable(e) == {u \in tokens \ e : PoolLevel[u] = p /\ status[u] = "active"}
           fresh == usable(ex \cup Saturated \cup Penalised)
           any   == usable(ex \cup Saturated)
           S     == IF fresh # {} THEN fresh ELSE any
<1>1. t \in TopTier(S)
  BY DEF SelectableAny
<1>2. S \subseteq tokens \ ex
  OBVIOUS
<1> HIDE DEF S
<1> QED
  BY <1>1, <1>2 DEF TopTier

(* PickAny lends the token whose cooldown is checked next.                 *)
LEMMA WSPickStep ==
  ASSUME NEW r \in Reqs, Start(r), WSPick(r)
  PROVE  StepOK(r)
<1>0. /\ pc[r] = "pick" /\ kind[r] = "ws" /\ cand[r] = NoToken /\ winner[r] = NoToken /\ ~own[r]
      /\ tokens = Tokens /\ ManagerTypeOK /\ NoToken \notin Tokens
  BY DEF WSPick, Start, ReqOK, CandOK, LegsOK, TokenOK, NotLent
<1>1. PICK t \in SelectableAny(level[r], Excluded(r)) :
        PickAny(t) /\ cand' = [cand EXCEPT ![r] = t]
  BY DEF WSPick, Set
<1>2. t \in Tokens /\ t # tok[r] /\ leg[r][t] = "none"
  BY <1>0, <1>1, SelectableAnyFacts DEF Excluded, Selected
<1>3. /\ pc' = [pc EXCEPT ![r] = "check"]
      /\ UNCHANGED <<kind, level, rejected, tok, own, leg, winner, err, images, used,
                     cooling, blocked>>
  BY DEF WSPick, Goto, Set
<1>4. /\ pc' \in [Reqs -> Labels] /\ cand' \in [Reqs -> Tokens \cup {NoToken}]
      /\ pc'[r] = "check" /\ cand'[r] = t
  BY <1>1, <1>2, <1>3 DEF Start, LocalsType, Labels
<1>5. LocalsType'
  BY <1>3, <1>4 DEF Start, LocalsType
<1>6. OthersStay(r)
  BY <1>1, <1>3 DEF OthersStay, Start, LocalsType
<1>7. ReqOK(r)'
  BY <1>0, <1>2, <1>3, <1>4 DEF Start, ReqOK, StageKind, TokenOK, CandOK, LegsOK, UsedOK,
     ImagesOK, Tracked, NotLent, OwnsTok, LentOrBlocked, NoRecovery, WSStages,
     TrackedStages, SharedStages
<1>8. /\ ManagerTypeOK'
      /\ UNCHANGED <<tokens, status, quota, limit>>
      /\ inflight' = [inflight EXCEPT ![t] = @ + 1]
  BY <1>0, <1>1, <1>2 DEF PickAny, ManagerTypeOK, MarkDirty
<1>9. Counted(r)
  <2>1. \A u \in Tokens \ {t} : SameLoans(r, u)
    BY <1>0, <1>3, <1>4 DEF SameLoans, Borrows
  <2>2. ~Borrows(r, t) /\ Borrows(r, t)'
    BY <1>0, <1>2, <1>4 DEF Borrows
  <2> QED
    BY <1>2, <1>8, <2>1, <2>2, PickCounted
<1>10. Billed(r)
  BY <1>0, <1>3, <1>8 DEF Billed, Charged, Start, ManagerTypeOK
<1>11. Blamed(r)
  BY <1>3, <1>8 DEF Blamed
<1> QED
  BY <1>3, <1>5, <1>6, <1>7, <1>8, <1>9, <1>10, <1>11 DEF StepOK

(* A cooling token is given back.                                          *)
LEMMA WSRejectStep ==
  ASSUME NEW r \in Reqs, Start(r), WSReject(r)
  PROVE  StepOK(r)
<1>0. PICK t \in Tokens : t = cand[r]
  BY DEF WSReject, Start, ReqOK, CandOK, LocalsType
<1>1. /\ pc[r] = "reject" /\ kind[r] = "ws" /\ t # tok[r] /\ leg[r][t] = "none"
      /\ winner[r] = NoToken /\ ~own[r] /\ NoToken \notin Tokens
      /\ tokens = Tokens /\ ManagerTypeOK
  BY <1>0 DEF WSReject, Start, ReqOK, CandOK, LegsOK, TokenOK, NotLent, StageKind, WSStages
<1>2. /\ ReleaseInflightOnly(t)
      /\ pc' = [pc EXCEPT ![r] = "pick"]
      /\ cand' = [cand EXCEPT ![r] = NoToken]
      /\ rejected' = [rejected EXCEPT ![r] = rejected[r] \cup {t}]
      /\ UNCHANGED <<kind, level, tok, own, leg, winner, err, images, used, cooling, blocked>>
  BY <1>0 DEF WSReject, Set, Goto
<1>3. /\ pc' \in [Reqs -> Labels] /\ cand' \in [Reqs -> Tokens \cup {NoToken}]
      /\ rejected' \in [Reqs -> SUBSET Tokens]
      /\ pc'[r] = "pick" /\ cand'[r] = NoToken
  BY <1>2 DEF Start, LocalsType, Labels
<1>4. LocalsType'
  BY <1>2, <1>3 DEF Start, LocalsType
<1>5. OthersStay(r)
  BY <1>2 DEF OthersStay, Start, LocalsType
<1>6. ReqOK(r)'
  BY <1>1, <1>2, <1>3 DEF Start, ReqOK, StageKind, TokenOK, CandOK, LegsOK, UsedOK,
     ImagesOK, Tracked, NotLent, OwnsTok, LentOrBlocked, NoRecovery, WSStages,
     TrackedStages, SharedStages
<1>7. /\ ManagerTypeOK' /\ ReleaseInflight(t)
      /\ UNCHANGED <<tokens, status, quota, limit>>
  BY <1>1, <1>2, ReleaseOnlyType DEF ReleaseInflightOnly
<1>8. Counted(r)
  <2>1. \A u \in Tokens \ {t} : SameLoans(r, u)
    BY <1>0, <1>1, <1>2, <1>3 DEF SameLoans, Borrows
  <2>2. Borrows(r, t) /\ ~Borrows(r, t)'
    BY <1>0, <1>1, <1>2, <1>3 DEF Borrows
  <2> QED
    BY <1>7, <2>1, <2>2, ReleaseCounted
<1>9. Billed(r)
  BY <1>1, <1>2, <1>7 DEF Billed, Charged, Start, ManagerTypeOK
<1>10. Blamed(r)
  BY <1>2, <1>7 DEF Blamed
<1> QED
  BY <1>2, <1>4, <1>5, <1>6, <1>7, <1>8, <1>9, <1>10 DEF StepOK

(* The attempts begin: the tokens found so far, and only those. *)
LEMMA LegsBegin ==
  ASSUME NEW f \in [Tokens -> {"none", "picked"}], NEW g,
         g = [t \in Tokens |-> IF f[t] = "picked" THEN "running" ELSE "none"]
  PROVE  /\ g \in [Tokens -> LegStates]
         /\ \A t \in Tokens : g[t] \notin {"none", "done"} <=> f[t] \notin {"none", "done"}
BY DEF LegStates, WSErrors

(* A token that is not cooling becomes the token of the request or one of  *)
(* its attempts.                                                           *)
LEMMA WSCheckStep ==
  ASSUME NEW r \in Reqs, Start(r), WSCheck(r)
  PROVE  StepOK(r)
<1>0. PICK t \in Tokens : t = cand[r]
  BY DEF WSCheck, Start, ReqOK, CandOK, LocalsType
<1>1. /\ pc[r] = "check" /\ kind[r] = "ws" /\ t # tok[r] /\ leg[r][t] = "none"
      /\ winner[r] = NoToken /\ ~own[r] /\ NoToken \notin Tokens
      /\ leg[r] \in [Tokens -> {"none", "picked"}]
      /\ tok[r] # NoToken => tok[r] \in blocked
      /\ tok[r] = NoToken => NoRecovery(r)
      /\ \A u \in used[r] : u \in blocked
      /\ images[r] < N
  BY <1>0 DEF WSCheck, Start, ReqOK, CandOK, LegsOK, TokenOK, NotLent, StageKind, WSStages,
              UsedOK, ImagesOK, LocalsType
<1>2. /\ UNCHANGED <<managerVars, kind, winner, err, images, used, cooling, blocked>>
      /\ \E label \in {"reject", "gen", "collect", "pick"} : pc' = [pc EXCEPT ![r] = label]
  BY DEF WSCheck, Set, Goto
<1>3. ManagerTypeOK' /\ UNCHANGED <<tokens, status, inflight, quota, limit>>
  BY <1>2, StutterType DEF Start, managerVars
<1>4. Blamed(r)
  BY <1>2, <1>3 DEF Blamed
<1>5. pc' \in [Reqs -> Labels]
  BY <1>2 DEF Start, LocalsType, Labels
<1>6. CASE cand[r] \in cooling
  <2>1. pc' = [pc EXCEPT ![r] = "reject"] /\ UNCHANGED <<level, rejected, cand, tok, own, leg>>
    BY <1>6 DEF WSCheck, Set, Goto
  <2>2. LocalsType'
    BY <1>2, <1>5, <2>1 DEF Start, LocalsType
  <2>3. OthersStay(r)
    BY <1>2, <2>1 DEF OthersStay, Start, LocalsType
  <2>4. pc'[r] = "reject"
    BY <2>1 DEF Start, LocalsType
  <2>5. ReqOK(r)'
    BY <1>1, <1>2, <2>1, <2>4 DEF Start, ReqOK, StageKind, TokenOK, CandOK, LegsOK, UsedOK,
     ImagesOK, Tracked, NotLent, OwnsTok, LentOrBlocked, NoRecovery, WSStages,
     TrackedStages, SharedStages
  <2>6. Counted(r)
    BY <1>2, <1>3, <2>1, QuietMoves DEF SameLoans, Borrows
  <2>7. Billed(r)
    BY <1>1, <1>3, <2>1 DEF Billed, Charged, Start, ManagerTypeOK
  <2> QED
    BY <1>2, <1>3, <1>4, <2>2, <2>3, <2>5, <2>6, <2>7 DEF StepOK
<1>7. CASE cand[r] \notin cooling
  <2>1. /\ level' = [level EXCEPT ![r] = Floor]
        /\ rejected' = [rejected EXCEPT ![r] = {}]
        /\ cand' = [cand EXCEPT ![r] = NoToken]
    BY <1>7 DEF WSCheck, Set
  <2>2. /\ level' \in [Reqs -> PoolLevels] /\ rejected' \in [Reqs -> SUBSET Tokens]
        /\ cand' \in [Reqs -> Tokens \cup {NoToken}] /\ cand'[r] = NoToken
    BY <2>1 DEF Start, LocalsType
  <2>3. CASE tok[r] = NoToken
    <3>1. /\ pc' = [pc EXCEPT ![r] = "gen"] /\ tok' = [tok EXCEPT ![r] = t]
          /\ own' = [own EXCEPT ![r] = TRUE] /\ leg' = leg
      BY <1>0, <1>7, <2>3 DEF WSCheck, Set, Goto
    <3>2. /\ tok' \in [Reqs -> Tokens \cup {NoToken}] /\ own' \in [Reqs -> BOOLEAN]
          /\ tok'[r] = t /\ own'[r] = TRUE /\ pc'[r] = "gen"
      BY <3>1 DEF Start, LocalsType
    <3>3. LocalsType'
      BY <1>2, <1>5, <2>2, <3>1, <3>2 DEF Start, LocalsType
    <3>4. OthersStay(r)
      BY <1>2, <2>1, <3>1 DEF OthersStay, Start, LocalsType
    <3>5. ReqOK(r)'
      BY <1>1, <1>2, <2>2, <2>3, <3>1, <3>2 DEF Start, ReqOK, StageKind, TokenOK, CandOK, LegsOK,
       UsedOK, ImagesOK, Tracked, NotLent, OwnsTok, LentOrBlocked, NoRecovery, WSStages,
       TrackedStages, SharedStages
    <3>6. \A u \in Tokens : SameLoans(r, u)
      BY <1>0, <1>1, <1>2, <2>2, <2>3, <3>1, <3>2 DEF SameLoans, Borrows, NoRecovery
    <3>7. Counted(r)
      BY <1>3, <3>6, QuietMoves
    <3>8. Billed(r)
      BY <1>1, <1>2, <1>3 DEF Billed, Charged, Tracked, Start, ManagerTypeOK
    <3> QED
      BY <1>2, <1>3, <1>4, <3>3, <3>4, <3>5, <3>7, <3>8 DEF StepOK
  <2>4. CASE tok[r] # NoToken
    <3> DEFINE enough == Cardinality(Selected(r)) + 1 = MaxLegs
               legs == [leg[r] EXCEPT ![t] = "picked"]
               begun == [u \in Tokens |-> IF legs[u] = "picked" THEN "running" ELSE "none"]
               new == IF enough THEN begun ELSE legs
    <3>1. /\ pc' = [pc EXCEPT ![r] = IF enough THEN "collect" ELSE "pick"]
          /\ leg' = [leg EXCEPT ![r] = new]
          /\ tok' = tok /\ own' = own
      BY <1>0, <1>7, <2>4 DEF WSCheck, Set, Goto
    <3>2. /\ legs \in [Tokens -> {"none", "picked"}]
          /\ \A u \in Tokens : legs[u] \notin {"none", "done"} <=>
                                 leg[r][u] \notin {"none", "done"} \/ u = t
      BY <1>1
    <3>3. /\ begun \in [Tokens -> LegStates]
          /\ \A u \in Tokens : begun[u] \notin {"none", "done"} <=> legs[u] \notin {"none", "done"}
      <4> HIDE DEF legs
      <4> QED
        BY <3>2, LegsBegin
    <3>4. legs \in [Tokens -> LegStates]
      BY <3>2 DEF LegStates, WSErrors
    <3> HIDE DEF legs, begun, enough
    <3>5. /\ leg' \in [Reqs -> [Tokens -> LegStates]] /\ leg'[r] = new
          /\ pc'[r] = IF enough THEN "collect" ELSE "pick"
      BY <3>1, <3>3, <3>4 DEF Start, LocalsType
    <3>6. LocalsType'
      BY <1>2, <1>5, <2>2, <3>1, <3>5 DEF Start, LocalsType
    <3>7. OthersStay(r)
      BY <1>2, <2>1, <3>1 DEF OthersStay, Start, LocalsType
    <3>8. ReqOK(r)'
      BY <1>1, <1>2, <2>2, <2>4, <3>1, <3>2, <3>5 DEF Start, ReqOK, StageKind, TokenOK, CandOK,
       LegsOK, UsedOK, ImagesOK, Tracked, NotLent, OwnsTok, LentOrBlocked, NoRecovery, WSStages,
       TrackedStages, SharedStages
    <3>9. \A u \in Tokens : leg'[r][u] \notin {"none", "done"} <=>
                              leg[r][u] \notin {"none", "done"} \/ u = t
      BY <3>2, <3>3, <3>5
    <3>10. \A u \in Tokens : SameLoans(r, u)
      BY <1>0, <1>1, <1>2, <2>2, <3>1, <3>9 DEF SameLoans, Borrows
    <3>11. Counted(r)
      BY <1>3, <3>10, QuietMoves
    <3>12. Billed(r)
      BY <1>1, <1>2, <1>3 DEF Billed, Charged, Tracked, Start, ManagerTypeOK
    <3> QED
      BY <1>2, <1>3, <1>4, <3>6, <3>7, <3>8, <3>11, <3>12 DEF StepOK
  <2> QED
    BY <2>3, <2>4
<1> QED
  BY <1>6, <1>7

(* No pool has a token: the request ends, fails, or recovers with what it  *)
(* has.                                                                    *)
LEMMA WSNoTokenStep ==
  ASSUME NEW r \in Reqs, Start(r), WSNoToken(r)
  PROVE  StepOK(r)
<1>1. /\ pc[r] = "pick" /\ kind[r] = "ws" /\ cand[r] = NoToken
      /\ winner[r] = NoToken /\ ~own[r] /\ NoToken \notin Tokens
      /\ leg[r] \in [Tokens -> {"none", "picked"}]
      /\ tok[r] # NoToken => tok[r] \in blocked
      /\ tok[r] = NoToken => NoRecovery(r)
      /\ \A u \in used[r] : u \in blocked
      /\ images[r] < N
  BY DEF WSNoToken, Start, ReqOK, CandOK, LegsOK, TokenOK, NotLent, StageKind, WSStages,
         UsedOK, ImagesOK, LocalsType
<1>2. /\ UNCHANGED <<managerVars, kind, cand, tok, own, winner, images, used, cooling, blocked>>
      /\ level' = [level EXCEPT ![r] = Floor]
      /\ rejected' = [rejected EXCEPT ![r] = {}]
  BY DEF WSNoToken, Set
<1>3. ManagerTypeOK' /\ UNCHANGED <<tokens, status, inflight, quota, limit>>
  BY <1>2, StutterType DEF Start, managerVars
<1>4. Blamed(r)
  BY <1>2, <1>3 DEF Blamed
<1>5. level' \in [Reqs -> PoolLevels] /\ rejected' \in [Reqs -> SUBSET Tokens]
  BY <1>2 DEF Start, LocalsType
<1>6. Billed(r)
  BY <1>1, <1>2, <1>3 DEF Billed, Charged, Tracked, Start, ManagerTypeOK
<1>7. CASE tok[r] = NoToken \/ Selected(r) = {}
  <2>1. \A t \in Tokens : leg[r][t] = "none"
    BY <1>1, <1>7 DEF Selected, NoRecovery
  <2>2. /\ leg' = leg
        /\ \/ tok[r] = NoToken /\ pc' = [pc EXCEPT ![r] = "done"] /\ err' = err
           \/ /\ tok[r] # NoToken /\ pc' = [pc EXCEPT ![r] = "fail"]
              /\ err' = [err EXCEPT ![r] = "blocked"]
    BY <1>7 DEF WSNoToken, Set, Goto
  <2>3. pc' \in [Reqs -> Labels] /\ err' \in [Reqs -> Errors]
    BY <2>2 DEF Start, LocalsType, Labels, Errors
  <2>4. pc'[r] = IF tok[r] = NoToken THEN "done" ELSE "fail"
    BY <2>2 DEF Start, LocalsType
  <2>5. LocalsType'
    BY <1>2, <1>5, <2>2, <2>3 DEF Start, LocalsType
  <2>6. OthersStay(r)
    BY <1>2, <2>2 DEF OthersStay, Start, LocalsType
  <2>7. ReqOK(r)'
    BY <1>1, <1>2, <2>1, <2>2, <2>4 DEF Start, ReqOK, StageKind, TokenOK, CandOK, LegsOK,
     UsedOK, ImagesOK, Tracked, NotLent, OwnsTok, LentOrBlocked, NoRecovery, WSStages,
     TrackedStages, SharedStages
  <2>8. Counted(r)
    BY <1>2, <1>3, <2>2, QuietMoves DEF SameLoans, Borrows
  <2> QED
    BY <1>2, <1>3, <1>4, <1>6, <2>5, <2>6, <2>7, <2>8 DEF StepOK
<1>8. CASE tok[r] # NoToken /\ Selected(r) # {}
  <2> DEFINE begun == [t \in Tokens |-> IF leg[r][t] = "picked" THEN "running" ELSE "none"]
  <2>1. pc' = [pc EXCEPT ![r] = "collect"] /\ leg' = [leg EXCEPT ![r] = begun] /\ err' = err
    BY <1>8 DEF WSNoToken, Set, Goto
  <2>2. /\ begun \in [Tokens -> LegStates]
        /\ \A t \in Tokens : begun[t] \notin {"none", "done"} <=> leg[r][t] \notin {"none", "done"}
    BY <1>1, LegsBegin
  <2> HIDE DEF begun
  <2>3. /\ pc' \in [Reqs -> Labels] /\ leg' \in [Reqs -> [Tokens -> LegStates]]
        /\ pc'[r] = "collect" /\ leg'[r] = begun
    BY <2>1, <2>2 DEF Start, LocalsType, Labels
  <2>4. LocalsType'
    BY <1>2, <1>5, <2>1, <2>3 DEF Start, LocalsType
  <2>5. OthersStay(r)
    BY <1>2, <2>1 DEF OthersStay, Start, LocalsType
  <2>6. ReqOK(r)'
    BY <1>1, <1>2, <1>8, <2>1, <2>3 DEF Start, ReqOK, StageKind, TokenOK, CandOK, LegsOK,
     UsedOK, ImagesOK, Tracked, NotLent, OwnsTok, LentOrBlocked, NoRecovery, WSStages,
     TrackedStages, SharedStages
  <2>7. \A u \in Tokens : SameLoans(r, u)
    BY <1>2, <2>2, <2>3 DEF SameLoans, Borrows
  <2>8. Counted(r)
    BY <1>3, <2>7, QuietMoves
  <2> QED
    BY <1>2, <1>3, <1>4, <1>6, <2>4, <2>5, <2>6, <2>8 DEF StepOK
<1> QED
  BY <1>7, <1>8

(* A pick with a charge: the loan and the debt start together.             *)
LEMMA TrackedPickStep ==
  ASSUME NEW r \in Reqs, Start(r), TrackedPick(r)
  PROVE  StepOK(r)
<1>0. /\ pc[r] = "pick" /\ Tracked(r) /\ kind[r] # "ws" /\ cand[r] = NoToken /\ NoRecovery(r)
      /\ NotLent(r) /\ used[r] = {} /\ NoToken \notin Tokens /\ images[r] < N
      /\ ManagerTypeOK /\ Mode \in Modes
  BY DEF TrackedPick, Start, ReqOK, CandOK, LegsOK, TokenOK, UsedOK, ImagesOK, Tracked
<1>1. PICK t \in Selectable(level[r], Mode) :
        Pick(t, Mode) /\ tok' = [tok EXCEPT ![r] = t]
  BY DEF TrackedPick, Set
<1>2. t \in Tokens /\ quota[t][Mode] > 0
  BY <1>0, <1>1, SelectableFacts
<1>3. /\ pc' = [pc EXCEPT ![r] = FirstStage(kind[r])]
      /\ own' = [own EXCEPT ![r] = TRUE]
      /\ UNCHANGED <<kind, level, rejected, cand, leg, winner, err, images, used,
                     cooling, blocked>>
  BY DEF TrackedPick, Goto, Set
<1>4. FirstStage(kind[r]) \in {"upload", "seed", "chat"}
  BY DEF FirstStage
<1>5. /\ pc' \in [Reqs -> Labels] /\ tok' \in [Reqs -> Tokens \cup {NoToken}]
      /\ own' \in [Reqs -> BOOLEAN]
      /\ pc'[r] \in {"upload", "seed", "chat"} /\ tok'[r] = t /\ own'[r] = TRUE
  BY <1>1, <1>2, <1>3, <1>4 DEF Start, LocalsType, Labels
<1>6. LocalsType'
  BY <1>3, <1>5 DEF Start, LocalsType
<1>7. OthersStay(r)
  BY <1>1, <1>3 DEF OthersStay, Start, LocalsType
<1>8. ReqOK(r)'
  BY <1>0, <1>2, <1>3, <1>5 DEF ReqOK, StageKind, TokenOK, CandOK, LegsOK, UsedOK,
     ImagesOK, Tracked, NotLent, OwnsTok, LentOrBlocked, NoRecovery, WSStages,
     TrackedStages, SharedStages
<1>9. ManagerTypeOK'
  BY <1>0, <1>1, <1>2, PickType
<1>10. /\ UNCHANGED <<tokens, status, limit>>
       /\ inflight' = [inflight EXCEPT ![t] = @ + 1]
       /\ quota' = [quota EXCEPT ![t][Mode] = @ - 1]
  BY <1>1 DEF Pick
<1>11. Counted(r)
  <2>1. \A u \in Tokens \ {t} : SameLoans(r, u)
    BY <1>0, <1>3, <1>5 DEF SameLoans, Borrows, NotLent
  <2>2. ~Borrows(r, t) /\ Borrows(r, t)'
    BY <1>0, <1>2, <1>5 DEF Borrows, NotLent, NoRecovery
  <2> QED
    BY <1>2, <1>10, <2>1, <2>2, PickCounted
<1>12. Billed(r)
  <2>1. quota'[t][Mode] = quota[t][Mode] - 1 /\ ~Charged(r, t)
    BY <1>0, <1>2, <1>10 DEF Charged, NotLent, ManagerTypeOK
  <2>2. \A u \in Tokens \ {t} : quota'[u][Mode] <= quota[u][Mode] /\ ~Charged(r, u)'
    BY <1>0, <1>5, <1>10 DEF Charged, ManagerTypeOK
  <2> QED
    BY <1>10, <2>1, <2>2 DEF Billed
<1>13. Blamed(r)
  BY <1>3, <1>10 DEF Blamed
<1> QED
  BY <1>3, <1>6, <1>7, <1>8, <1>9, <1>10, <1>11, <1>12, <1>13 DEF StepOK

-----------------------------------------------------------------------------
(* Recovery. *)

(* The first token is given back, and is a blocked one from here on.       *)
LEMMA GenerationBlockedStep ==
  ASSUME NEW r \in Reqs, Start(r), GenerationBlocked(r)
  PROVE  StepOK(r)
<1>0. PICK t \in Tokens : t = tok[r]
  BY DEF GenerationBlocked, Start, ReqOK, TokenOK, OwnsTok, LocalsType, StageKind, WSStages
<1>1. /\ pc[r] = "gen" /\ kind[r] = "ws" /\ own[r] /\ cand[r] = NoToken /\ NoRecovery(r)
      /\ NoToken \notin Tokens /\ images[r] < N
      /\ \A u \in used[r] : u \in blocked \/ u = t
      /\ tokens = Tokens /\ ManagerTypeOK
  BY <1>0 DEF GenerationBlocked, Start, ReqOK, CandOK, LegsOK, TokenOK, OwnsTok, UsedOK, ImagesOK,
              StageKind, WSStages
<1>2. /\ ReleaseInflightOnly(t)
      /\ own' = [own EXCEPT ![r] = FALSE]
      /\ blocked' = blocked \cup {t} /\ cooling' = cooling
      /\ \/ pc' = [pc EXCEPT ![r] = "pick"] /\ err' = err
         \/ pc' = [pc EXCEPT ![r] = "fail"] /\ err' = [err EXCEPT ![r] = "blocked"]
      /\ UNCHANGED <<kind, level, rejected, cand, tok, leg, winner, images, used>>
  BY <1>0 DEF GenerationBlocked, Heard, Set, Goto
<1>3. /\ pc' \in [Reqs -> Labels] /\ own' \in [Reqs -> BOOLEAN] /\ err' \in [Reqs -> Errors]
      /\ pc'[r] \in {"pick", "fail"} /\ own'[r] = FALSE
  BY <1>2 DEF Start, LocalsType, Labels, Errors
<1>4. LocalsType'
  BY <1>2, <1>3 DEF Start, LocalsType
<1>5. OthersStay(r)
  BY <1>2 DEF OthersStay, Start, LocalsType
<1>6. ReqOK(r)'
  BY <1>0, <1>1, <1>2, <1>3 DEF ReqOK, StageKind, TokenOK, CandOK, LegsOK, UsedOK,
     ImagesOK, Tracked, NotLent, OwnsTok, LentOrBlocked, NoRecovery, WSStages,
     TrackedStages, SharedStages
<1>7. /\ ManagerTypeOK' /\ ReleaseInflight(t)
      /\ UNCHANGED <<tokens, status, quota, limit>>
  BY <1>1, <1>2, ReleaseOnlyType DEF ReleaseInflightOnly
<1>8. Counted(r)
  <2>1. \A u \in Tokens \ {t} : SameLoans(r, u)
    BY <1>0, <1>2, <1>3 DEF SameLoans, Borrows
  <2>2. Borrows(r, t) /\ ~Borrows(r, t)'
    BY <1>0, <1>1, <1>2, <1>3 DEF Borrows, NoRecovery
  <2> QED
    BY <1>7, <2>1, <2>2, ReleaseCounted
<1>9. Billed(r)
  BY <1>1, <1>2, <1>3, <1>7 DEF Billed, Charged, Start, ManagerTypeOK
<1>10. Blamed(r)
  BY <1>2, <1>7 DEF Blamed
<1> QED
  BY <1>2, <1>4, <1>5, <1>6, <1>7, <1>8, <1>9, <1>10 DEF StepOK

(* An attempt on t changes its state, and the request only follows.        *)
LegTo(r, t, s) ==
  /\ leg' = [leg EXCEPT ![r][t] = s]
  /\ UNCHANGED <<pc, kind, level, rejected, cand, tok, own, images, used>>

(* What is known of a request while its attempts run. *)
LEMMA Recovering ==
  ASSUME NEW r \in Reqs, Start(r), NEW t \in Tokens, leg[r][t] \notin {"none", "picked"}
  PROVE  /\ pc[r] = "collect" /\ kind[r] = "ws" /\ cand[r] = NoToken /\ ~own[r]
         /\ tok[r] \in blocked /\ images[r] < N
         /\ \A u \in used[r] : u \in blocked
         /\ winner[r] # NoToken => leg[r][winner[r]] = "done"
         /\ NoToken \notin Tokens
BY DEF Start, ReqOK, CandOK, LegsOK, TokenOK, UsedOK, ImagesOK, NoRecovery, StageKind, WSStages

(* ... and may win.  The manager aside, this is what a step of an attempt does. *)
LegMoves(r, t, s, w) ==
  /\ leg[r][t] \notin {"none", "picked", "done"}
  /\ s \in LegStates \ {"none"} /\ LegTo(r, t, s)
  /\ w \in {winner[r], t} /\ winner' = [winner EXCEPT ![r] = w]
  /\ w = t => s = "done"
  /\ err' \in [Reqs -> Errors] /\ \A q \in Reqs \ {r} : err'[q] = err[q]
  /\ blocked \subseteq blocked' /\ blocked' \subseteq Tokens /\ cooling' \subseteq Tokens

(* A step of an attempt moves no other loan, and ends its own unless it    *)
(* wins.                                                                   *)
LEMMA LegToStep ==
  ASSUME NEW r \in Reqs, Start(r), NEW t \in Tokens, NEW s, NEW w, LegMoves(r, t, s, w)
  PROVE  /\ LocalsType' /\ OthersStay(r) /\ ReqOK(r)'
         /\ \A u \in Tokens \ {t} : SameLoans(r, u) \/ (w = t /\ winner[r] = u)
         /\ Borrows(r, t)
         /\ Borrows(r, t)' <=> s # "done" \/ w = t
         /\ \A u \in Tokens : ~Charged(r, u) /\ ~Charged(r, u)'
<1>1. /\ pc[r] = "collect" /\ kind[r] = "ws" /\ cand[r] = NoToken /\ ~own[r]
      /\ tok[r] \in blocked /\ images[r] < N
      /\ \A u \in used[r] : u \in blocked
      /\ winner[r] # NoToken => leg[r][winner[r]] = "done"
      /\ NoToken \notin Tokens
  BY Recovering DEF LegMoves
<1>2. /\ leg' = [leg EXCEPT ![r][t] = s]
      /\ UNCHANGED <<pc, kind, level, rejected, cand, tok, own, images, used>>
  BY DEF LegTo, LegMoves
<1>3. /\ leg' \in [Reqs -> [Tokens -> LegStates]]
      /\ leg'[r][t] = s /\ \A u \in Tokens \ {t} : leg'[r][u] = leg[r][u]
      /\ \A q \in Reqs \ {r} : leg'[q] = leg[q]
  BY <1>2 DEF Start, LocalsType, LegMoves
<1>4. /\ winner' \in [Reqs -> Tokens \cup {NoToken}]
      /\ winner'[r] = w
      /\ \A q \in Reqs \ {r} : winner'[q] = winner[q]
  BY DEF Start, LocalsType, LegMoves
<1>5. LocalsType'
  BY <1>2, <1>3, <1>4 DEF Start, LocalsType, LegMoves
<1>6. OthersStay(r)
  BY <1>2, <1>3, <1>4 DEF OthersStay, LegMoves
<1>7. winner[r] \in Tokens \cup {NoToken} /\ winner[r] # t
  BY <1>1 DEF Start, LocalsType, LegMoves
<1>8. ReqOK(r)'
  BY <1>1, <1>2, <1>3, <1>4, <1>7 DEF ReqOK, StageKind, TokenOK, CandOK, LegsOK, UsedOK,
     ImagesOK, Tracked, NotLent, OwnsTok, LentOrBlocked, NoRecovery, WSStages,
     TrackedStages, SharedStages, LegMoves
<1>9. \A u \in Tokens \ {t} : SameLoans(r, u) \/ (w = t /\ winner[r] = u)
  BY <1>1, <1>2, <1>3, <1>4 DEF SameLoans, Borrows, LegMoves
<1>10. Borrows(r, t) /\ (Borrows(r, t)' <=> s # "done" \/ w = t)
  BY <1>1, <1>2, <1>3, <1>4, <1>7 DEF Borrows, LegMoves
<1>11. \A u \in Tokens : ~Charged(r, u) /\ ~Charged(r, u)'
  BY <1>1, <1>2 DEF Charged
<1> QED
  BY <1>5, <1>6, <1>8, <1>9, <1>10, <1>11

(* The manager is not asked. *)
LEMMA LegQuiet ==
  ASSUME NEW r \in Reqs, Start(r), NEW t \in Tokens, NEW s, NEW w, LegMoves(r, t, s, w),
         w = t => winner[r] = NoToken, s = "done" => w = t,
         UNCHANGED managerVars, Blamed(r)
  PROVE  StepOK(r)
<1>1. /\ LocalsType' /\ OthersStay(r) /\ ReqOK(r)'
      /\ \A u \in Tokens \ {t} : SameLoans(r, u) \/ (w = t /\ winner[r] = u)
      /\ Borrows(r, t)
      /\ Borrows(r, t)' <=> s # "done" \/ w = t
      /\ \A u \in Tokens : ~Charged(r, u) /\ ~Charged(r, u)'
  BY LegToStep
<1>2. ManagerTypeOK' /\ UNCHANGED <<tokens, status, inflight, quota, limit>>
  BY StutterType DEF Start, managerVars
<1>3. Counted(r)
  <2>1. NoToken \notin Tokens
    BY DEF Start
  <2>2. \A u \in Tokens : SameLoans(r, u)
    BY <1>1, <2>1 DEF SameLoans
  <2> QED
    BY <1>2, <2>2, QuietMoves
<1>4. Billed(r)
  BY <1>1, <1>2 DEF Billed, Start, ManagerTypeOK
<1> QED
  BY <1>1, <1>2, <1>3, <1>4 DEF StepOK, LegMoves

(* The attempt is over and its token given back. *)
LEMMA LegReleased ==
  ASSUME NEW r \in Reqs, Start(r), NEW t \in Tokens, leg[r][t] \notin {"none", "picked", "done"},
         LegTo(r, t, "done"), winner' = winner,
         err' \in [Reqs -> Errors], \A q \in Reqs \ {r} : err'[q] = err[q],
         blocked' = blocked, cooling' = cooling,
         (MarkExpired(t) /\ leg[r][t] = "invalid") \/ ReleaseInflightOnly(t)
  PROVE  StepOK(r)
<1>0. NoToken \notin Tokens /\ ManagerTypeOK /\ tokens = Tokens
  BY DEF Start
<1>1. /\ LocalsType' /\ OthersStay(r) /\ ReqOK(r)'
      /\ \A u \in Tokens \ {t} : SameLoans(r, u)
      /\ Borrows(r, t) /\ ~Borrows(r, t)'
      /\ \A u \in Tokens : ~Charged(r, u) /\ ~Charged(r, u)'
  <2>1. winner' = [winner EXCEPT ![r] = winner[r]]
    BY <1>0 DEF Start, LocalsType
  <2>2. "done" \in LegStates \ {"none"} /\ winner[r] # t
    BY <1>0, Recovering DEF LegStates
  <2>3. blocked' \subseteq Tokens /\ cooling' \subseteq Tokens
    BY DEF Start, LocalsType
  <2>4. LegMoves(r, t, "done", winner[r])
    BY <2>1, <2>2, <2>3 DEF LegMoves
  <2> QED
    BY <2>2, <2>4, LegToStep
<1>2. /\ ManagerTypeOK' /\ ReleaseInflight(t)
      /\ UNCHANGED <<tokens, quota, limit>>
      /\ \A u \in Tokens : status'[u] = "expired" /\ status[u] # "expired" =>
           MarkExpired(t) /\ u = t
  BY <1>0, ReleasingMethods
<1>3. Counted(r)
  BY <1>1, <1>2, ReleaseCounted
<1>4. Billed(r)
  BY <1>1, <1>2 DEF Billed, Start, ManagerTypeOK
<1>5. Blamed(r)
  <2>1. ASSUME NEW u \in Tokens \ blocked, status[u] # "expired", status'[u] = "expired"
        PROVE  Blames(r, u, "invalid")
    <3>1. u = t
      BY <1>2, <2>1
    <3>2. leg[r][t] = "invalid"
      BY <2>1 DEF ReleaseInflightOnly
    <3> QED
      BY <3>1, <3>2 DEF Blames
  <2> QED
    BY <2>1 DEF Blamed
<1> QED
  BY <1>1, <1>2, <1>3, <1>4, <1>5 DEF StepOK

(* The result of an attempt is sent: nothing is released.                  *)
LEMMA LegEndsStep ==
  ASSUME NEW r \in Reqs, Start(r), NEW t \in Tokens, LegEnds(r, t)
  PROVE  StepOK(r)
<1>1. PICK e \in WSErrors \cup {"ok", "blocked"} :
        leg' = [leg EXCEPT ![r][t] = e] /\ Heard(t, e)
  BY DEF LegEnds
<1>2. /\ leg[r][t] = "running"
      /\ UNCHANGED <<managerVars, pc, kind, level, rejected, cand, tok, own, winner, err,
                     images, used>>
  BY DEF LegEnds
<1>3. e \in LegStates \ {"none"} /\ e # "done"
  BY DEF LegStates, WSErrors
<1>4. blocked \subseteq blocked' /\ blocked' \subseteq Tokens /\ cooling' = cooling
      /\ cooling \subseteq Tokens
  BY <1>1 DEF Heard, Start, LocalsType
<1>5. LegTo(r, t, e)
  BY <1>1, <1>2 DEF LegTo
<1>6. winner[r] # t
  BY <1>2, Recovering
<1>7. /\ err' \in [Reqs -> Errors] /\ \A q \in Reqs \ {r} : err'[q] = err[q]
      /\ winner' = [winner EXCEPT ![r] = winner[r]]
  BY <1>2 DEF Start, LocalsType
<1>8. Blamed(r)
  BY <1>2, <1>4 DEF Blamed, managerVars
<1>9. LegMoves(r, t, e, winner[r])
  BY <1>2, <1>3, <1>4, <1>5, <1>6, <1>7 DEF LegMoves
<1> QED
  BY <1>2, <1>3, <1>6, <1>8, <1>9, LegQuiet

(* The first image wins; any later one only gives its token back.          *)
LEMMA CollectImageStep ==
  ASSUME NEW r \in Reqs, Start(r), NEW t \in Tokens, CollectImage(r, t)
  PROVE  StepOK(r)
<1>1. /\ leg[r][t] = "ok"
      /\ LegTo(r, t, "done") /\ UNCHANGED <<err, cooling, blocked>>
  BY DEF CollectImage, LegDone, LegTo
<1>2. /\ err' \in [Reqs -> Errors] /\ \A q \in Reqs \ {r} : err'[q] = err[q]
      /\ blocked' \subseteq Tokens /\ cooling' \subseteq Tokens
  BY <1>1 DEF Start, LocalsType
<1>3. CASE winner[r] = NoToken
  <2>1. winner' = [winner EXCEPT ![r] = t] /\ UNCHANGED managerVars
    BY <1>3 DEF CollectImage, Set
  <2>2. Blamed(r)
    BY <1>1, <2>1 DEF Blamed, managerVars
  <2>3. "done" \in LegStates \ {"none"}
    BY DEF LegStates
  <2> QED
    <3>1. LegMoves(r, t, "done", t)
      BY <1>1, <1>2, <2>1, <2>3 DEF LegMoves
    <3> QED
      BY <1>3, <2>1, <2>2, <3>1, LegQuiet
<1>4. CASE winner[r] # NoToken
  BY <1>1, <1>2, <1>4, LegReleased DEF CollectImage
<1> QED
  BY <1>3, <1>4

(* An error of an attempt: its token is cooled or given back, after an     *)
(* invalid-token answer as expired.                                        *)
LEMMA CollectErrorStep ==
  ASSUME NEW r \in Reqs, Start(r), NEW t \in Tokens, CollectError(r, t)
  PROVE  StepOK(r)
<1> USE DEF CollectError
<1>1. leg[r][t] \in WSErrors /\ leg[r][t] \notin {"none", "picked", "done"}
  BY DEF WSErrors
<1>2. err' \in [Reqs -> Errors] /\ \A q \in Reqs \ {r} : err'[q] = err[q]
  BY <1>1 DEF FirstErr, Set, Start, LocalsType, Errors, CallErrors, WSErrors
<1>3. CASE leg[r][t] = "rate"
  <2>1. /\ LegTo(r, t, "cooled") /\ UNCHANGED managerVars
        /\ winner' = winner /\ blocked' = blocked
        /\ cooling' = IF Cooldown THEN cooling \cup {t} ELSE cooling
    BY <1>3 DEF LegTo
  <2>2. blocked' \subseteq Tokens /\ cooling' \subseteq Tokens
    BY <2>1 DEF Start, LocalsType
  <2>3. winner[r] # t
    BY <1>1, Recovering
  <2>4. "cooled" \in LegStates \ {"none"}
    BY DEF LegStates
  <2>5. Blamed(r)
    BY <1>3, <2>1 DEF Blamed, Blames, managerVars
  <2>6. winner' = [winner EXCEPT ![r] = winner[r]]
    BY <2>1 DEF Start, LocalsType
  <2>7. LegMoves(r, t, "cooled", winner[r])
    BY <1>1, <1>2, <2>1, <2>2, <2>3, <2>4, <2>6 DEF LegMoves
  <2> QED
    BY <2>1, <2>3, <2>5, <2>7, LegQuiet
<1>4. CASE leg[r][t] # "rate"
  <2>1. /\ LegTo(r, t, "done") /\ winner' = winner /\ blocked' = blocked /\ cooling' = cooling
        /\ (MarkExpired(t) /\ leg[r][t] = "invalid") \/ ReleaseInflightOnly(t)
    BY <1>4 DEF LegTo, LegDone
  <2> QED
    BY <1>1, <1>2, <2>1, LegReleased
<1> QED
  BY <1>3, <1>4

(* The token of a cooled or blocked attempt is given back.                 *)
LEMMA CollectReleaseStep ==
  ASSUME NEW r \in Reqs, Start(r), NEW t \in Tokens, CollectRelease(r, t)
  PROVE  StepOK(r)
<1>1. /\ LegTo(r, t, "done") /\ winner' = winner /\ blocked' = blocked /\ cooling' = cooling
      /\ ReleaseInflightOnly(t) /\ err' = err
      /\ leg[r][t] \notin {"none", "picked", "done"}
  BY DEF CollectRelease, LegDone, LegTo
<1>2. err' \in [Reqs -> Errors] /\ \A q \in Reqs \ {r} : err'[q] = err[q]
  BY <1>1 DEF Start, LocalsType
<1> QED
  BY <1>1, <1>2, LegReleased

(* All attempts have ended: the winner is the token in hand from here on.  *)
LEMMA CollectEndsStep ==
  ASSUME NEW r \in Reqs, Start(r), CollectEnds(r)
  PROVE  StepOK(r)
<1>1. /\ pc[r] = "collect" /\ kind[r] = "ws" /\ cand[r] = NoToken /\ ~own[r]
      /\ tok[r] \in blocked /\ tok[r] # NoToken /\ images[r] < N
      /\ \A u \in used[r] : u \in blocked
      /\ \A u \in Tokens : leg[r][u] \in {"none", "done"}
      /\ NoToken \notin Tokens /\ winner[r] \in Tokens \cup {NoToken}
  BY DEF CollectEnds, Start, ReqOK, CandOK, LegsOK, TokenOK, UsedOK, ImagesOK, StageKind,
         WSStages, LocalsType
<1>2. /\ leg' = [leg EXCEPT ![r] = NoLegs] /\ winner' = [winner EXCEPT ![r] = NoToken]
      /\ UNCHANGED <<managerVars, kind, level, rejected, cand, images, used, cooling, blocked>>
  BY DEF CollectEnds, Set
<1>3. NoLegs \in [Tokens -> LegStates] /\ \A u \in Tokens : NoLegs[u] = "none"
  BY DEF NoLegs, LegStates
<1>4. /\ leg' \in [Reqs -> [Tokens -> LegStates]] /\ winner' \in [Reqs -> Tokens \cup {NoToken}]
      /\ leg'[r] = NoLegs /\ winner'[r] = NoToken
  BY <1>2, <1>3 DEF Start, LocalsType
<1>5. ManagerTypeOK' /\ UNCHANGED <<tokens, status, inflight, quota, limit>>
  BY <1>2, StutterType DEF Start, managerVars
<1>6. Blamed(r)
  BY <1>2, <1>5 DEF Blamed
<1>7. Billed(r)
  BY <1>1, <1>2, <1>5 DEF Billed, Charged, Tracked, Start, ManagerTypeOK
<1>8. CASE winner[r] # NoToken
  <2>1. /\ tok' = [tok EXCEPT ![r] = winner[r]] /\ own' = [own EXCEPT ![r] = TRUE]
        /\ err' = [err EXCEPT ![r] = "none"] /\ pc' = [pc EXCEPT ![r] = "output"]
    BY <1>8 DEF CollectEnds, Set, Goto
  <2>2. /\ tok' \in [Reqs -> Tokens \cup {NoToken}] /\ own' \in [Reqs -> BOOLEAN]
        /\ err' \in [Reqs -> Errors] /\ pc' \in [Reqs -> Labels]
        /\ tok'[r] = winner[r] /\ own'[r] = TRUE /\ pc'[r] = "output"
    BY <2>1 DEF Start, LocalsType, Errors, Labels
  <2>3. LocalsType'
    BY <1>2, <1>4, <2>2 DEF Start, LocalsType
  <2>4. OthersStay(r)
    BY <1>2, <2>1 DEF OthersStay, Start, LocalsType
  <2>5. ReqOK(r)'
    BY <1>1, <1>2, <1>3, <1>4, <1>8, <2>2 DEF ReqOK, StageKind, TokenOK, CandOK, LegsOK, UsedOK,
     ImagesOK, Tracked, NotLent, OwnsTok, LentOrBlocked, NoRecovery, WSStages,
     TrackedStages, SharedStages
  <2>6. \A u \in Tokens : SameLoans(r, u)
    BY <1>1, <1>2, <1>3, <1>4, <2>2 DEF SameLoans, Borrows
  <2>7. Counted(r)
    BY <1>5, <2>6, QuietMoves
  <2> QED
    BY <1>2, <1>5, <1>6, <1>7, <2>3, <2>4, <2>5, <2>7 DEF StepOK
<1>9. CASE winner[r] = NoToken
  <2>1. /\ tok' = tok /\ own' = own /\ pc' = [pc EXCEPT ![r] = "fail"]
        /\ err' = [err EXCEPT ![r] = IF err[r] = "none" THEN "blocked" ELSE @]
    BY <1>9 DEF CollectEnds, FirstErr, Set, Goto, Start, LocalsType
  <2>2. err' \in [Reqs -> Errors] /\ pc' \in [Reqs -> Labels] /\ pc'[r] = "fail"
    BY <2>1 DEF Start, LocalsType, Errors, Labels
  <2>3. LocalsType'
    BY <1>2, <1>4, <2>1, <2>2 DEF Start, LocalsType
  <2>4. OthersStay(r)
    BY <1>2, <2>1 DEF OthersStay, Start, LocalsType
  <2>5. ReqOK(r)'
    BY <1>1, <1>2, <1>3, <1>4, <2>1, <2>2 DEF ReqOK, StageKind, TokenOK, CandOK, LegsOK, UsedOK,
     ImagesOK, Tracked, NotLent, OwnsTok, LentOrBlocked, NoRecovery, WSStages,
     TrackedStages, SharedStages
  <2>6. \A u \in Tokens : SameLoans(r, u)
    BY <1>1, <1>2, <1>3, <1>4, <1>9, <2>1 DEF SameLoans, Borrows
  <2>7. Counted(r)
    BY <1>5, <2>6, QuietMoves
  <2> QED
    BY <1>2, <1>5, <1>6, <1>7, <2>3, <2>4, <2>5, <2>7 DEF StepOK
<1> QED
  BY <1>8, <1>9

-----------------------------------------------------------------------------
(* The whole next-state relation. *)

(* The steps of a ws request.                                              *)
LEMMA WSStepOK ==
  ASSUME NEW r \in Reqs, Start(r), WSStep(r)
  PROVE  StepOK(r)
<1>1. CASE WSPick(r)
  BY <1>1, WSPickStep
<1>2. CASE WSNextPool(r)
  BY <1>2, WSNextPoolStep
<1>3. CASE WSNoToken(r)
  BY <1>3, WSNoTokenStep
<1>4. CASE WSCheck(r)
  BY <1>4, WSCheckStep
<1>5. CASE WSReject(r)
  BY <1>5, WSRejectStep
<1>6. CASE GenerationEnds(r)
  BY <1>6, GenerationEndsStep
<1>7. CASE GenerationBlocked(r)
  BY <1>7, GenerationBlockedStep
<1>8. CASE CollectEnds(r)
  BY <1>8, CollectEndsStep
<1>9. CASE \E t \in Tokens : CollectImage(r, t) \/ CollectError(r, t) \/ CollectRelease(r, t)
  BY <1>9, CollectImageStep, CollectErrorStep, CollectReleaseStep
<1>10. CASE \E ok \in BOOLEAN : WSOutput(r, ok)
  BY <1>10, WSOutputStep
<1>11. CASE WSCredit(r)
  BY <1>11, WSCreditStep
<1>12. CASE WSFail(r)
  BY <1>12, WSFailStep
<1>13. CASE WSFailCooled(r)
  BY <1>13, WSFailCooledStep
<1> QED
  BY <1>1, <1>2, <1>3, <1>4, <1>5, <1>6, <1>7, <1>8, <1>9, <1>10, <1>11, <1>12, <1>13 DEF WSStep

(* The steps of the other kinds.                                           *)
LEMMA TrackedStepOK ==
  ASSUME NEW r \in Reqs, Start(r), TrackedStep(r)
  PROVE  StepOK(r)
BY TrackedPickStep, TrackedNextPoolStep, UploadReferencesStep, CreateEditPostStep,
   ResolveVideoSeedPostStep, LiteChatStep, EditChatStep, VideoChatStep, UpscaleVideoStep,
   OutputReadyStep, OutputFailsStep, VideoCachedStep, TrackedCreditStep, TrackedFailStep,
   TrackedFailFirstStep, TrackedFailSecondStep DEF TrackedStep

(* Every step of a request has the form StepOK.                            *)
LEMMA RequestStepOK ==
  ASSUME MediaBase, NEW r \in Reqs, Arrive(r) \/ Step(r) \/ \E t \in Tokens : LegEnds(r, t)
  PROVE  StepOK(r)
<1>1. Start(r)
  BY MediaAssumption, TypeParts DEF MediaBase, Start
<1> QED
  BY <1>1, ArriveStep, WSStepOK, TrackedStepOK, LegEndsStep DEF Step

(* Next is a step of a request, the end of a cooldown, or a stutter.       *)
LEMMA NextCases ==
  ASSUME MediaBase, [Next]_vars
  PROVE  \/ \E r \in Reqs : StepOK(r)
         \/ /\ UNCHANGED <<managerVars, requestVars, blocked>>
            /\ cooling' \subseteq cooling
<1>1. CASE \E r \in Reqs : Arrive(r) \/ Step(r) \/ \E t \in Tokens : LegEnds(r, t)
  BY <1>1, RequestStepOK
<1>2. CASE \E t \in Tokens : CooldownEnds(t)
  BY <1>2 DEF CooldownEnds
<1>3. CASE Terminated \/ UNCHANGED vars
  BY <1>3 DEF Terminated, vars, mediaVars
<1> QED
  BY <1>1, <1>2, <1>3 DEF Next

-----------------------------------------------------------------------------
(* From what a step of a request may do to the invariant. *)

(* A step of one request keeps what is known of another.                   *)
LEMMA OthersKeep ==
  ASSUME NEW r \in Reqs, OthersStay(r), blocked \subseteq blocked', NEW q \in Reqs \ {r}, ReqOK(q)
  PROVE  ReqOK(q)'
<1> USE DEF OthersStay
<1>1. StageKind(q)' /\ CandOK(q)' /\ LegsOK(q)' /\ ImagesOK(q)'
  BY DEF ReqOK, StageKind, CandOK, LegsOK, ImagesOK, Tracked, NoRecovery
<1>2. TokenOK(q)'
  BY DEF ReqOK, TokenOK, Tracked, NotLent, OwnsTok, LentOrBlocked
<1>3. UsedOK(q)'
  BY DEF ReqOK, UsedOK
<1> QED
  BY <1>1, <1>2, <1>3 DEF ReqOK

(* A step keeps the types and what is known of every request.              *)
LEMMA StepBase ==
  ASSUME MediaBase, NEW r \in Reqs, StepOK(r)
  PROVE  MediaBase'
<1>1. ManagerTypeOK' /\ LocalsType' /\ tokens' = tokens /\ ReqOK(r)'
  BY DEF StepOK
<1>2. MediaTypeOK'
  BY <1>1, TypeParts DEF MediaTypeOK, LocalsType, Labels, Kinds, Errors
<1>3. \A q \in Reqs : ReqOK(q)'
  BY <1>1, OthersKeep DEF StepOK, MediaBase
<1> QED
  BY <1>1, <1>2, <1>3 DEF MediaBase

(* Two sets of requests that differ in one request at most, counted.       *)
LEMMA OneMember ==
  ASSUME NEW S \in SUBSET Reqs, NEW T \in SUBSET Reqs, NEW r \in Reqs,
         \A q \in Reqs \ {r} : q \in S <=> q \in T
  PROVE  /\ Cardinality(S) \in Nat /\ Cardinality(T) \in Nat
         /\ (r \in S <=> r \in T) => Cardinality(T) = Cardinality(S)
         /\ r \notin S /\ r \in T => Cardinality(T) = Cardinality(S) + 1
         /\ r \in S /\ r \notin T => Cardinality(T) = Cardinality(S) - 1
<1>1. IsFiniteSet(S) /\ IsFiniteSet(T)
  BY MediaAssumption, FS_Subset
<1>2. Cardinality(S) \in Nat /\ Cardinality(T) \in Nat
  BY <1>1, FS_CardinalityType
<1>3. (r \in S <=> r \in T) => Cardinality(T) = Cardinality(S)
  <2>1. (r \in S <=> r \in T) => S = T
    OBVIOUS
  <2> QED
    BY <2>1
<1>4. ASSUME r \notin S, r \in T PROVE Cardinality(T) = Cardinality(S) + 1
  <2>1. T = S \cup {r}
    BY <1>4
  <2> QED
    BY <1>1, <1>4, <2>1, FS_AddElement
<1>5. ASSUME r \in S, r \notin T PROVE Cardinality(T) = Cardinality(S) - 1
  <2>1. T = S \ {r}
    BY <1>5
  <2> QED
    BY <1>1, <1>5, <2>1, FS_RemoveElement
<1> QED
  BY <1>2, <1>3, <1>4, <1>5

(* The borrowers of a token, before and after a step of one request.       *)
LEMMA BorrowersMove ==
  ASSUME NEW r \in Reqs, OthersStay(r), NEW t \in Tokens
  PROVE  /\ Cardinality(Borrowers(t)) \in Nat /\ Cardinality(Borrowers(t)') \in Nat
         /\ SameLoans(r, t) => Cardinality(Borrowers(t)') = Cardinality(Borrowers(t))
         /\ ~Borrows(r, t) /\ Borrows(r, t)' =>
              Cardinality(Borrowers(t)') = Cardinality(Borrowers(t)) + 1
         /\ Borrows(r, t) /\ ~Borrows(r, t)' =>
              Cardinality(Borrowers(t)') = Cardinality(Borrowers(t)) - 1
<1>1. Borrowers(t) \in SUBSET Reqs /\ Borrowers(t)' \in SUBSET Reqs
  BY DEF Borrowers
<1>2. \A q \in Reqs \ {r} : Borrows(q, t) <=> Borrows(q, t)'
  BY DEF OthersStay, Borrows
<1>3. \A q \in Reqs : /\ q \in Borrowers(t) <=> Borrows(q, t)
                      /\ q \in Borrowers(t)' <=> Borrows(q, t)'
  BY DEF Borrowers
<1>4. \A q \in Reqs \ {r} : q \in Borrowers(t) <=> q \in Borrowers(t)'
  BY <1>2, <1>3
<1>5. SameLoans(r, t) => (r \in Borrowers(t) <=> r \in Borrowers(t)')
  BY <1>3 DEF SameLoans
<1> HIDE DEF Borrowers
<1> QED
  BY <1>1, <1>3, <1>4, <1>5, OneMember

(* A step keeps NothingStaysLent and UnblockedAreCounted.                  *)
LEMMA StepCounts ==
  ASSUME MediaBase, NothingStaysLent, UnblockedAreCounted, NEW r \in Reqs, StepOK(r)
  PROVE  NothingStaysLent' /\ UnblockedAreCounted'
<1>1. SUFFICES ASSUME NEW t \in Tokens
               PROVE  /\ inflight'[t] <= Cardinality(Borrowers(t)')
                      /\ t \notin blocked' => inflight'[t] = Cardinality(Borrowers(t)')
  BY DEF NothingStaysLent, UnblockedAreCounted, Borrowers
<1>2. inflight[t] \in Nat /\ inflight'[t] \in Nat
  BY DEF MediaBase, MediaTypeOK, StepOK, ManagerTypeOK
<1>3. /\ inflight[t] <= Cardinality(Borrowers(t))
      /\ t \notin blocked' => inflight[t] = Cardinality(Borrowers(t))
  BY DEF NothingStaysLent, UnblockedAreCounted, StepOK
<1>4. OthersStay(r) /\ Counted(r)
  BY DEF StepOK
<1>5. CASE /\ SameLoans(r, t)
           /\ inflight'[t] = inflight[t] \/ (t \in blocked' /\ inflight'[t] <= inflight[t])
  <2>1. /\ Cardinality(Borrowers(t)) \in Nat
        /\ Cardinality(Borrowers(t)') = Cardinality(Borrowers(t))
    BY <1>4, <1>5, BorrowersMove
  <2> QED
    BY <1>2, <1>3, <1>5, <2>1
<1>6. CASE ~Borrows(r, t) /\ Borrows(r, t)' /\ inflight'[t] = inflight[t] + 1
  <2>1. /\ Cardinality(Borrowers(t)) \in Nat
        /\ Cardinality(Borrowers(t)') = Cardinality(Borrowers(t)) + 1
    BY <1>4, <1>6, BorrowersMove
  <2> QED
    BY <1>2, <1>3, <1>6, <2>1
<1>7. CASE /\ Borrows(r, t) /\ ~Borrows(r, t)'
           /\ inflight'[t] = IF inflight[t] > 0 THEN inflight[t] - 1 ELSE 0
  <2>1. /\ Cardinality(Borrowers(t)) \in Nat /\ Cardinality(Borrowers(t)') \in Nat
        /\ Cardinality(Borrowers(t)') = Cardinality(Borrowers(t)) - 1
    BY <1>4, <1>7, BorrowersMove
  <2> QED
    BY <1>2, <1>3, <1>7, <2>1
<1> QED
  BY <1>4, <1>5, <1>6, <1>7 DEF Counted

(* The requests that owe a unit of t.                                      *)
ChargedTo(t) == {r \in Reqs : Charged(r, t)}

(* MediaQuotaConserved counts the requests that owe a unit.                *)
LEMMA SameCharge ==
  /\ MediaQuotaConserved <=>
       \A t \in Tokens : quota[t][Mode] + Cardinality(ChargedTo(t)) <= limit[t][Mode]
BY DEF MediaQuotaConserved, ChargedTo, Charged

(* The debtors of a token, before and after a step of one request.         *)
LEMMA ChargeMoves ==
  ASSUME NEW r \in Reqs, OthersStay(r), NEW t \in Tokens
  PROVE  /\ Cardinality(ChargedTo(t)) \in Nat /\ Cardinality(ChargedTo(t)') \in Nat
         /\ Cardinality(ChargedTo(t)') <= Cardinality(ChargedTo(t)) + 1
         /\ (Charged(r, t)' => Charged(r, t)) =>
              Cardinality(ChargedTo(t)') <= Cardinality(ChargedTo(t))
         /\ Charged(r, t) /\ ~Charged(r, t)' =>
              Cardinality(ChargedTo(t)') = Cardinality(ChargedTo(t)) - 1
<1>1. ChargedTo(t) \in SUBSET Reqs /\ ChargedTo(t)' \in SUBSET Reqs
  BY DEF ChargedTo
<1>2. \A q \in Reqs \ {r} : Charged(q, t) <=> Charged(q, t)'
  BY DEF OthersStay, Charged, Tracked
<1>3. \A q \in Reqs : /\ q \in ChargedTo(t) <=> Charged(q, t)
                      /\ q \in ChargedTo(t)' <=> Charged(q, t)'
  BY DEF ChargedTo
<1>4. \A q \in Reqs \ {r} : q \in ChargedTo(t) <=> q \in ChargedTo(t)'
  BY <1>2, <1>3
<1>5. CASE r \in ChargedTo(t) <=> r \in ChargedTo(t)'
  BY <1>1, <1>3, <1>4, <1>5, OneMember
<1>6. CASE r \notin ChargedTo(t) /\ r \in ChargedTo(t)'
  BY <1>1, <1>3, <1>4, <1>6, OneMember
<1>7. CASE r \in ChargedTo(t) /\ r \notin ChargedTo(t)'
  BY <1>1, <1>3, <1>4, <1>7, OneMember
<1> QED
  BY <1>5, <1>6, <1>7

(* A step keeps MediaQuotaConserved.                                       *)
LEMMA StepQuota ==
  ASSUME MediaBase, MediaQuotaConserved, NEW r \in Reqs, StepOK(r)
  PROVE  MediaQuotaConserved'
<1>1. SUFFICES ASSUME NEW t \in Tokens
               PROVE  quota'[t][Mode] + Cardinality(ChargedTo(t)') <= limit'[t][Mode]
  BY DEF MediaQuotaConserved, ChargedTo, Charged, Tracked
<1>2. /\ quota[t][Mode] \in Nat /\ quota'[t][Mode] \in Nat /\ limit[t][Mode] \in Nat
      /\ limit' = limit
  BY MediaAssumption DEF MediaBase, MediaTypeOK, StepOK, ManagerTypeOK, Billed
<1>3. quota[t][Mode] + Cardinality(ChargedTo(t)) <= limit[t][Mode]
  BY SameCharge
<1>4. OthersStay(r) /\ Billed(r)
  BY DEF StepOK
<1>5. CASE (Charged(r, t)' => Charged(r, t)) /\ quota'[t][Mode] <= quota[t][Mode]
  <2>1. /\ Cardinality(ChargedTo(t)) \in Nat /\ Cardinality(ChargedTo(t)') \in Nat
        /\ Cardinality(ChargedTo(t)') <= Cardinality(ChargedTo(t))
    BY <1>4, <1>5, ChargeMoves
  <2> QED
    BY <1>2, <1>3, <1>5, <2>1
<1>6. CASE ~Charged(r, t) /\ quota'[t][Mode] = quota[t][Mode] - 1
  <2>1. /\ Cardinality(ChargedTo(t)) \in Nat /\ Cardinality(ChargedTo(t)') \in Nat
        /\ Cardinality(ChargedTo(t)') <= Cardinality(ChargedTo(t)) + 1
    BY <1>4, ChargeMoves
  <2> QED
    BY <1>2, <1>3, <1>6, <2>1
<1>7. CASE Charged(r, t) /\ ~Charged(r, t)' /\ quota'[t][Mode] <= quota[t][Mode] + 1
  <2>1. /\ Cardinality(ChargedTo(t)) \in Nat /\ Cardinality(ChargedTo(t)') \in Nat
        /\ Cardinality(ChargedTo(t)') = Cardinality(ChargedTo(t)) - 1
    BY <1>4, <1>7, ChargeMoves
  <2> QED
    BY <1>2, <1>3, <1>7, <2>1
<1> QED
  BY <1>4, <1>5, <1>6, <1>7 DEF Billed

-----------------------------------------------------------------------------

(* The invariant holds at the start.                                       *)
LEMMA MediaInitially == Init => MediaIInv
<1> SUFFICES ASSUME Init PROVE MediaIInv
  OBVIOUS
<1>1. NoLegs \in [Tokens -> LegStates] /\ \A t \in Tokens : NoLegs[t] = "none"
  BY DEF NoLegs, LegStates
<1>2. /\ tokens = Tokens /\ inflight = [t \in Tokens |-> 0]
      /\ \A t \in Tokens : quota[t][Mode] = limit[t][Mode] /\ limit[t][Mode] \in Nat
  BY MediaAssumption, ManagerAssumption DEF Init, ManagerInit
<1>3. ManagerTypeOK
  BY ManagerAssumption DEF Init, ManagerInit, ManagerTypeOK, Statuses
<1>4. MediaTypeOK
  BY <1>1, <1>3, MediaAssumption DEF Init, MediaTypeOK
<1>5. \A r \in Reqs : ReqOK(r)
  BY <1>1, MediaAssumption DEF Init, ReqOK, StageKind, TokenOK, CandOK, LegsOK, UsedOK, ImagesOK,
     Tracked, NotLent, NoRecovery, WSStages, TrackedStages, SharedStages
<1>6. \A t \in Tokens : Borrowers(t) = {} /\ ChargedTo(t) = {}
  BY <1>1, MediaAssumption DEF Init, Borrowers, Borrows, ChargedTo, Charged
<1>9. \A t \in Tokens : Cardinality(Borrowers(t)) = 0 /\ Cardinality(ChargedTo(t)) = 0
  BY <1>6, FS_EmptySet
<1>7. NothingStaysLent /\ UnblockedAreCounted
  BY <1>2, <1>9 DEF NothingStaysLent, UnblockedAreCounted
<1>8. MediaQuotaConserved
  BY <1>2, <1>9, SameCharge
<1> QED
  BY <1>2, <1>4, <1>5, <1>7, <1>8 DEF MediaIInv, MediaBase

(* The invariant is inductive.                                             *)
LEMMA MediaInductive == MediaIInv /\ [Next]_vars => MediaIInv'
<1> SUFFICES ASSUME MediaIInv, [Next]_vars PROVE MediaIInv'
  OBVIOUS
<1>1. CASE \E r \in Reqs : StepOK(r)
  BY <1>1, StepBase, StepCounts, StepQuota DEF MediaIInv
<1>2. CASE UNCHANGED <<managerVars, requestVars, blocked>> /\ cooling' \subseteq cooling
  <2>1. MediaTypeOK'
    BY <1>2, StutterType DEF MediaIInv, MediaBase, MediaTypeOK, requestVars
  <2>2. tokens' = tokens /\ \A r \in Reqs : ReqOK(r)'
    BY <1>2 DEF MediaIInv, MediaBase, managerVars, requestVars, ReqOK, StageKind, TokenOK, CandOK,
       LegsOK, UsedOK, ImagesOK, Tracked, NotLent, OwnsTok, LentOrBlocked, NoRecovery
  <2>3. NothingStaysLent' /\ UnblockedAreCounted'
    BY <1>2 DEF MediaIInv, NothingStaysLent, UnblockedAreCounted, Borrowers, Borrows, managerVars,
       requestVars
  <2>4. MediaQuotaConserved'
    BY <1>2 DEF MediaIInv, MediaQuotaConserved, Tracked, managerVars, requestVars
  <2> QED
    BY <2>1, <2>2, <2>3, <2>4 DEF MediaIInv, MediaBase
<1> QED
  BY <1>1, <1>2, NextCases DEF MediaIInv

(* The types hold, and the units of quota charged and not refunded never   *)
(* exceed what is missing from the limit: a refund happens at most once    *)
(* per charge, whatever the requests do in between.                        *)
THEOREM MediaAlwaysHolds == Spec => []MediaInv
<1>1. MediaIInv => MediaInv
  BY DEF MediaIInv, MediaBase, MediaInv
<1> QED
  BY <1>1, MediaInitially, MediaInductive, PTL DEF Spec

(* However picks, recoveries and reports interleave, a token is never      *)
(* counted for more requests than have it.                                 *)
THEOREM NothingEverStaysLent == Spec => []NothingStaysLent
<1>1. MediaIInv => NothingStaysLent
  BY DEF MediaIInv
<1> QED
  BY <1>1, MediaInitially, MediaInductive, PTL DEF Spec

(* A token whose generation was never blocked is counted for exactly the   *)
(* requests that have it: no path releases it twice or not at all.         *)
THEOREM UnblockedAlwaysCounted == Spec => []UnblockedAreCounted
<1>1. MediaIInv => UnblockedAreCounted
  BY DEF MediaIInv
<1> QED
  BY <1>1, MediaInitially, MediaInductive, PTL DEF Spec

(* A request expires or cools a token only after the upstream said so      *)
(* about this token, blocked tokens aside.                                 *)
THEOREM BlameIsAlwaysOwn == Spec => BlameIsOwn
<1> DEFINE Fair ==
      \A t \in Tokens \ blocked :
        /\ status[t] # "expired" /\ status'[t] = "expired" =>
             \E r \in Reqs : Blames(r, t, "invalid")
        /\ t \in cooling' \ cooling => \E r \in Reqs : Blames(r, t, "rate")
<1>1. MediaIInv /\ [Next]_vars => [Fair]_vars
  <2> SUFFICES ASSUME MediaIInv, [Next]_vars PROVE Fair
    OBVIOUS
  <2>1. CASE \E r \in Reqs : StepOK(r)
    BY <2>1 DEF StepOK, Blamed
  <2>2. CASE UNCHANGED <<managerVars, requestVars, blocked>> /\ cooling' \subseteq cooling
    BY <2>2 DEF managerVars
  <2> QED
    BY <2>1, <2>2, NextCases DEF MediaIInv
<1> QED
  BY <1>1, MediaInitially, MediaInductive, PTL DEF Spec, BlameIsOwn
=============================================================================
