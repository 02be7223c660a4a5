---------------------------- MODULE TokenAdmin_proofs -------------------------
(***************************************************************************)
(* The administrator's operations for any number of administrators,        *)
(* tokens, flushes and requests: what memory, rows and the operations      *)
(* under way say of a token agree as long as no two operations on it, and  *)
(* no operation and flush, overlapped.                                     *)
(*                                                                         *)
(* The invariant cannot speak of finished operations only. Between two     *)
(* database calls the row, the pool and the data an administrator carries  *)
(* differ, and how is known by the stage: OpOK says it for a token under   *)
(* an operation, RestOK for the others. `torn` is where both end. The      *)
(* limit on quotas needs more than the rows too: a stale row may come from *)
(* a snapshot or from an administrator, so AllWithin holds of everything   *)
(* that may be stored. Operations, requests and flushes are each described *)
(* once (AdminMoves, UseMoves, FlushFacts), and keep the invariant by      *)
(* that.                                                                   *)
(***************************************************************************)
EXTENDS TokenAdmin, TokenManager_proofs

-----------------------------------------------------------------------------
(***************************************************************************)
(* Part one: flushes without administrators.                               *)
(* The write-back protocol loses nothing but late changes, for any number  *)
(* of tokens, modes and overlapping flushes and any configuration.         *)
(*                                                                         *)
(* OnlyLateChangesAreLost is not inductive: clearing the mark of a token   *)
(* that did not change during the flush is harmless only because the row   *)
(* holds what the flush wrote, or another flush has overwritten it with a  *)
(* snapshot it knows to be old.  Faithful and Settled say so.              *)
(***************************************************************************)


(* A snapshot of a token that has not changed since is still its content. *)
Faithful ==
  \A f \in Flushers : flushPc[f] # "idle" =>
    \A t \in DOMAIN snap[f] \ touched[f] : snap[f][t] = Content(t)

(* The tokens some flush has written and seen unchanged since. *)
Settled == {t \in Tokens : \E f \in Flushers :
              /\ flushPc[f] = "clear"
              /\ t \in DOMAIN snap[f] \ touched[f]}

SettledAreSaved == Behind \cap Settled \subseteq late \cup Overtaken

IInv == /\ PersistTypeOK
        /\ tokens = Tokens
        /\ Faithful
        /\ SettledAreSaved
        /\ OnlyLateChangesAreLost

-----------------------------------------------------------------------------
(* What GetDirtyTokens may return: snapshots of some of the tokens. *)
Snapshots == UNION {[S -> Rows] : S \in SUBSET Tokens}

(* Snapshots are functions from some tokens to rows. *)
LEMMA SnapshotFacts ==
  /\ \A s \in Snapshots : DOMAIN s \subseteq Tokens /\ \A t \in DOMAIN s : s[t] \in Rows
  /\ \A S \in SUBSET Tokens : [S -> Rows] \subseteq Snapshots
  /\ NoSnapshots \in Snapshots
<1>1. \A S \in SUBSET Tokens : [S -> Rows] \subseteq Snapshots
  BY DEF Snapshots
<1>2. NoSnapshots \in [{} -> Rows]
  BY DEF NoSnapshots
<1> QED
  BY <1>1, <1>2 DEF Snapshots

LEMMA SnapType ==
  ASSUME NEW s
  PROVE  s \in [Flushers -> Snapshots] <=>
           /\ s = [f \in Flushers |-> s[f]]
           /\ \A f \in Flushers : \E S \in SUBSET Tokens : s[f] \in [S -> Rows]
BY DEF Snapshots

(* Every change of a token is a call of one of the manager's methods. *)
LEMMA ChangeIsCall ==
  ASSUME PersistTypeOK, ChangeToken
  PROVE  \E t \in Tokens : CallOn(t)
<1> PICK t \in Tokens : Borrow(t) \/ Report(t) \/ Refresh(t)
  BY DEF ChangeToken
<1>0. ManagerTypeOK
  BY DEF PersistTypeOK
<1>1. CASE Borrow(t)
  BY <1>0, <1>1, SelectableFacts DEF Borrow, CallOn
<1>2. CASE Report(t)
  BY <1>2 DEF Report, CallOn
<1>3. CASE Refresh(t)
  <2>1. 0 \in Nat /\ ResumeTimes \subseteq Nat
    BY PersistenceAssumption
  <2>2. \A a \in RefreshAnswers : a[1] \in Nat /\ a[2] \in Nat
    BY PersistenceAssumption
  <2> QED
    BY <1>3, <2>1, <2>2 DEF Refresh, CallOn, ClearResumeAt
<1> QED
  BY <1>1, <1>2, <1>3

(* A method changes one token, and marks it if what is persisted changed. *)
LEMMA MethodsMark ==
  ASSUME ManagerTypeOK, NEW t \in Tokens, t \in tokens, CallOn(t)
  PROVE  /\ tokens' = tokens
         /\ dirty \subseteq dirty' /\ dirty' \subseteq dirty \cup {t}
         /\ \A u \in Tokens : Content(u)' # Content(u) => u \in dirty'
         /\ \A u \in Tokens \ {t} : Content(u)' = Content(u)
<1> DEFINE Same == UNCHANGED <<status, failCount, quota, limit, resumeAt>>
           Other == \A u \in Tokens \ {t} : Content(u)' = Content(u)
<1>1. tokens' = tokens
  BY DEF CallOn, MarkSuccess, MarkFailed, MarkFailedKeepInflight, MarkExpired,
         ReleaseInflightOnly, PenaltyExpires, Pick, RefundQuota, ClearModeQuota,
         SetResumeAt, UpdateModeQuota
<1>2. (Same /\ dirty' = dirty) \/ dirty' = dirty \cup {t}
  BY DEF CallOn, MarkSuccess, MarkFailed, MarkFailedKeepInflight, MarkExpired,
         ReleaseInflightOnly, PenaltyExpires, Pick, RefundQuota, ClearModeQuota,
         SetResumeAt, UpdateModeQuota, CountFailure, MarkDirty
<1>3. Other
  <2> SUFFICES ASSUME NEW u \in Tokens \ {t}
               PROVE  Content(u)' = Content(u)
    OBVIOUS
  <2>1. status'[u] = status[u]
    BY DEF CallOn, MarkSuccess, MarkFailed, MarkFailedKeepInflight, MarkExpired,
           ReleaseInflightOnly, PenaltyExpires, Pick, RefundQuota, ClearModeQuota,
           SetResumeAt, UpdateModeQuota, CountFailure, ManagerTypeOK
  <2>2. failCount'[u] = failCount[u]
    BY DEF CallOn, MarkSuccess, MarkFailed, MarkFailedKeepInflight, MarkExpired,
           ReleaseInflightOnly, PenaltyExpires, Pick, RefundQuota, ClearModeQuota,
           SetResumeAt, UpdateModeQuota, CountFailure, ManagerTypeOK
  <2>3. quota'[u] = quota[u]
    BY DEF CallOn, MarkSuccess, MarkFailed, MarkFailedKeepInflight, MarkExpired,
           ReleaseInflightOnly, PenaltyExpires, Pick, RefundQuota, ClearModeQuota,
           SetResumeAt, UpdateModeQuota, CountFailure, ManagerTypeOK
  <2>4. limit'[u] = limit[u]
    BY DEF CallOn, MarkSuccess, MarkFailed, MarkFailedKeepInflight, MarkExpired,
           ReleaseInflightOnly, PenaltyExpires, Pick, RefundQuota, ClearModeQuota,
           SetResumeAt, UpdateModeQuota, CountFailure, ManagerTypeOK
  <2>5. resumeAt'[u] = resumeAt[u]
    BY DEF CallOn, MarkSuccess, MarkFailed, MarkFailedKeepInflight, MarkExpired,
           ReleaseInflightOnly, PenaltyExpires, Pick, RefundQuota, ClearModeQuota,
           SetResumeAt, UpdateModeQuota, CountFailure, ManagerTypeOK
  <2> QED
    BY <2>1, <2>2, <2>3, <2>4, <2>5 DEF Content
<1>4. Same => \A u \in Tokens : Content(u)' = Content(u)
  BY DEF Content
<1> QED
  BY <1>1, <1>2, <1>3, <1>4

(* ... and, like every method, it keeps the manager well typed. *)
LEMMA MethodsKeepType ==
  ASSUME ManagerTypeOK, NEW t \in Tokens, CallOn(t)
  PROVE  ManagerTypeOK'
<1>1. ASSUME NEW m \in Modes, quota[t][m] > 0, Pick(t, m) PROVE ManagerTypeOK'
  BY <1>1, PickType
<1>2. ASSUME NEW m \in Modes, RefundQuota(t, m) PROVE ManagerTypeOK'
  BY <1>2, RefundType
<1>3. ASSUME NEW m \in Modes, ClearModeQuota(t, m) PROVE ManagerTypeOK'
  BY <1>3, ClearModeType
<1>4. ASSUME NEW m \in Modes, NEW at \in Nat, SetResumeAt(t, m, at) PROVE ManagerTypeOK'
  BY <1>4, SetResumeType
<1>5. ASSUME NEW m \in Modes, NEW remaining \in Nat, NEW lim \in Nat,
             UpdateModeQuota(t, m, remaining, lim)
      PROVE  ManagerTypeOK'
  BY <1>5, UpdateQuotaType
<1> QED
  BY <1>1, <1>2, <1>3, <1>4, <1>5, MarkSuccessType, MarkFailedType, MarkFailedKeepType,
     MarkExpiredType, ReleaseOnlyType, PenaltyType DEF CallOn

(* What is in memory can be written to a row. *)
LEMMA ContentIsRow ==
  ASSUME ManagerTypeOK, NEW t \in Tokens
  PROVE  Content(t) \in Rows
BY DEF ManagerTypeOK, Content, Rows

-----------------------------------------------------------------------------
(* The steps, one lemma each. *)

LEMMA InitOK == PersistInit => IInv
<1> SUFFICES ASSUME PersistInit PROVE IInv
  OBVIOUS
<1>1. ManagerTypeOK
  BY ManagerAssumption DEF PersistInit, ManagerInit, ManagerTypeOK, Statuses
<1>2. row \in [Tokens -> Rows]
  BY <1>1, ContentIsRow DEF PersistInit
<1>3. PersistTypeOK
  <2>1. snap \in [Flushers -> Snapshots]
    BY SnapshotFacts DEF PersistInit
  <2> QED
    BY <1>1, <1>2, <2>1, SnapType DEF PersistTypeOK, PersistInit, ManagerInit
<1>4. Behind = {}
  BY DEF Behind, PersistInit, ManagerInit
<1> QED
  BY <1>3, <1>4 DEF IInv, PersistInit, ManagerInit, Faithful, SettledAreSaved,
                    OnlyLateChangesAreLost

LEMMA ChangeOK ==
  ASSUME IInv, ChangeToken
  PROVE  IInv'
<1> PICK t \in Tokens : CallOn(t)
  BY ChangeIsCall DEF IInv
<1>0. ManagerTypeOK /\ t \in tokens /\ PersistTypeOK
  BY DEF IInv, PersistTypeOK
<1>1. /\ UNCHANGED <<row, flushPc, snap>>
      /\ late' = late \cap Behind'
      /\ touched' = [f \in Flushers |->
                       touched[f] \cup {u \in Tokens : Content(u)' # Content(u)}]
  BY DEF ChangeToken, flushVars
<1>2. /\ tokens' = tokens
      /\ dirty \subseteq dirty' /\ dirty' \subseteq dirty \cup {t}
      /\ \A u \in Tokens : Content(u)' # Content(u) => u \in dirty'
  BY <1>0, MethodsMark
<1>3. tokens' = Tokens
  BY <1>2 DEF IInv
<1>4. PersistTypeOK'
  <2>1. ManagerTypeOK'
    BY <1>0, MethodsKeepType
  <2>2. dirty' \subseteq tokens'
    BY <1>0, <1>2 DEF PersistTypeOK
  <2>3. touched' \in [Flushers -> SUBSET Tokens] /\ late' \subseteq Tokens
    BY <1>0, <1>1 DEF PersistTypeOK
  <2> QED
    BY <1>0, <1>1, <2>1, <2>2, <2>3 DEF PersistTypeOK
<1>5. Faithful'
  <2> SUFFICES ASSUME NEW f \in Flushers, flushPc[f] # "idle",
                      NEW u \in DOMAIN snap[f], u \notin touched'[f]
               PROVE  snap[f][u] = Content(u)'
    BY <1>1 DEF Faithful
  <2>1. u \in Tokens
    BY <1>0, SnapshotFacts DEF PersistTypeOK
  <2>2. u \notin touched[f] /\ Content(u)' = Content(u)
    BY <1>1, <2>1
  <2> QED
    BY <2>2 DEF IInv, Faithful
<1>6. Overtaken \subseteq Overtaken'
  BY <1>1 DEF Overtaken
<1>7. \A u \in Behind' : Content(u)' = Content(u) => u \in Behind
  BY <1>1, <1>2 DEF Behind
<1>8. Settled' \subseteq Settled
  BY <1>1 DEF Settled
<1>9. \A u \in Settled' : Content(u)' = Content(u)
  BY <1>1 DEF Settled
<1>10. SettledAreSaved'
  BY <1>1, <1>6, <1>7, <1>8, <1>9 DEF IInv, SettledAreSaved
<1>11. OnlyLateChangesAreLost'
  <2> SUFFICES ASSUME NEW u \in Behind'
               PROVE  u \in dirty' \cup late' \cup Overtaken'
    BY DEF OnlyLateChangesAreLost
  <2>1. u \in Tokens
    BY <1>3 DEF Behind
  <2>2. CASE Content(u)' = Content(u)
    <3>1. u \in dirty \cup late \cup Overtaken
      BY <1>7, <2>2 DEF IInv, OnlyLateChangesAreLost
    <3> QED
      BY <1>1, <1>2, <1>6, <3>1
  <2> QED
    BY <1>2, <2>1, <2>2
<1> QED
  BY <1>3, <1>4, <1>5, <1>10, <1>11 DEF IInv

LEMMA TakeOK ==
  ASSUME IInv, NEW f \in Flushers, TakeSnapshots(f)
  PROVE  IInv'
<1>0. PersistTypeOK /\ ManagerTypeOK
  BY DEF IInv, PersistTypeOK
<1>1. /\ UNCHANGED <<managerVars, row, late>>
      /\ flushPc[f] = "idle"
      /\ flushPc' = [flushPc EXCEPT ![f] = "write"]
      /\ snap' = [snap EXCEPT ![f] = [t \in dirty \cap tokens |-> Content(t)]]
      /\ touched' = [touched EXCEPT ![f] = {}]
  BY DEF TakeSnapshots
<1>2. \A t : Content(t)' = Content(t)
  BY <1>1 DEF Content, managerVars
<1>3. Behind' = Behind
  BY <1>1, <1>2 DEF Behind, managerVars
<1>4. PersistTypeOK'
  <2>1. ManagerTypeOK'
    BY <1>0, <1>1, StutterType
  <2>2. [t \in dirty \cap tokens |-> Content(t)] \in Snapshots
    <3>1. \A t \in dirty \cap tokens : Content(t) \in Rows
      BY <1>0, ContentIsRow DEF ManagerTypeOK
    <3>2. [t \in dirty \cap tokens |-> Content(t)] \in [dirty \cap tokens -> Rows]
      BY <3>1
    <3> QED
      BY <1>0, <3>2, SnapshotFacts DEF ManagerTypeOK
  <2>3. snap \in [Flushers -> Snapshots]
    BY <1>0, SnapType DEF PersistTypeOK
  <2>4. snap' \in [Flushers -> Snapshots]
    BY <1>1, <2>2, <2>3
  <2> QED
    BY <1>0, <1>1, <2>1, <2>4, SnapType DEF PersistTypeOK, managerVars
<1>5. Faithful'
  <2> SUFFICES ASSUME NEW g \in Flushers, flushPc'[g] # "idle",
                      NEW u \in DOMAIN snap'[g], u \notin touched'[g]
               PROVE  snap'[g][u] = Content(u)
    BY <1>2 DEF Faithful
  <2>1. CASE g = f
    BY <1>0, <1>1, <2>1 DEF PersistTypeOK
  <2>2. CASE g # f
    BY <1>0, <1>1, <2>2 DEF IInv, Faithful, PersistTypeOK
  <2> QED
    BY <2>1, <2>2
<1>6. Overtaken' = Overtaken
  BY <1>0, <1>1 DEF Overtaken, PersistTypeOK
<1>7. Settled' = Settled
  BY <1>0, <1>1 DEF Settled, PersistTypeOK
<1> QED
  BY <1>1, <1>3, <1>4, <1>5, <1>6, <1>7
  DEF IInv, SettledAreSaved, OnlyLateChangesAreLost, managerVars

LEMMA CommitOK ==
  ASSUME IInv, NEW f \in Flushers, Commit(f)
  PROVE  IInv'
<1>0. PersistTypeOK /\ ManagerTypeOK
  BY DEF IInv, PersistTypeOK
<1>1. /\ UNCHANGED <<managerVars, snap, touched>>
      /\ flushPc[f] = "write"
      /\ flushPc' = [flushPc EXCEPT ![f] = "clear"]
      /\ row' = [t \in Tokens |-> IF t \in DOMAIN snap[f] THEN snap[f][t] ELSE row[t]]
      /\ late' = late \cap Behind'
  BY DEF Commit
<1>2. \A t : Content(t)' = Content(t)
  BY <1>1 DEF Content, managerVars
<1>3. PersistTypeOK'
  <2>1. ManagerTypeOK'
    BY <1>0, <1>1, StutterType
  <2>2. row' \in [Tokens -> Rows]
    BY <1>0, <1>1, SnapshotFacts DEF PersistTypeOK
  <2> QED
    BY <1>0, <1>1, <2>1, <2>2 DEF PersistTypeOK, managerVars
<1>4. Faithful'
  BY <1>0, <1>1, <1>2 DEF IInv, Faithful, PersistTypeOK
<1>5. Overtaken \subseteq Overtaken'
  BY <1>0, <1>1 DEF Overtaken, PersistTypeOK
<1>6. ASSUME NEW u \in Behind', u \in DOMAIN snap[f]
      PROVE  u \in Overtaken'
  <2>1. u \in Tokens /\ row'[u] = snap[f][u]
    BY <1>0, <1>1, <1>6, SnapshotFacts DEF PersistTypeOK
  <2>2. Content(u) # snap[f][u]
    BY <1>2, <1>6, <2>1 DEF Behind
  <2>3. u \in touched[f]
    BY <1>1, <1>6, <2>2 DEF IInv, Faithful
  <2>4. flushPc'[f] = "clear"
    BY <1>0, <1>1 DEF PersistTypeOK
  <2> QED
    BY <1>1, <1>6, <2>1, <2>3, <2>4 DEF Overtaken
<1>7. ASSUME NEW u \in Behind', u \notin DOMAIN snap[f]
      PROVE  u \in Behind
  BY <1>0, <1>1, <1>2, <1>7 DEF Behind, managerVars, IInv
<1>8. ASSUME NEW u \in Settled', u \notin DOMAIN snap[f]
      PROVE  u \in Settled
  BY <1>0, <1>1, <1>8 DEF Settled, PersistTypeOK
<1>9. SettledAreSaved'
  BY <1>1, <1>5, <1>6, <1>7, <1>8 DEF IInv, SettledAreSaved
<1>10. OnlyLateChangesAreLost'
  <2>1. dirty' = dirty
    BY <1>1 DEF managerVars
  <2> QED
    BY <1>1, <1>5, <1>6, <1>7, <2>1 DEF IInv, OnlyLateChangesAreLost
<1> QED
  BY <1>1, <1>3, <1>4, <1>9, <1>10 DEF IInv, managerVars

(* The end of a flush that was not in its last step overtakes nobody. *)
LEMMA RollBackOK ==
  ASSUME IInv, NEW f \in Flushers, RollBack(f)
  PROVE  IInv'
<1>0. PersistTypeOK /\ ManagerTypeOK
  BY DEF IInv, PersistTypeOK
<1>1. /\ UNCHANGED <<managerVars, row, late>>
      /\ flushPc[f] = "write"
      /\ flushPc' = [flushPc EXCEPT ![f] = "idle"]
      /\ snap' = [snap EXCEPT ![f] = NoSnapshots]
      /\ touched' = [touched EXCEPT ![f] = {}]
  BY DEF RollBack, FlushEnds
<1>2. \A t : Content(t)' = Content(t)
  BY <1>1 DEF Content, managerVars
<1>3. Behind' = Behind
  BY <1>1, <1>2 DEF Behind, managerVars
<1>4. PersistTypeOK'
  <2>1. ManagerTypeOK'
    BY <1>0, <1>1, StutterType
  <2>2. snap \in [Flushers -> Snapshots]
    BY <1>0, SnapType DEF PersistTypeOK
  <2>3. snap' \in [Flushers -> Snapshots]
    BY <1>1, <2>2, SnapshotFacts
  <2> QED
    BY <1>0, <1>1, <2>1, <2>3, SnapType DEF PersistTypeOK, managerVars
<1>5. Faithful'
  BY <1>0, <1>1, <1>2 DEF IInv, Faithful, PersistTypeOK
<1>6. Overtaken' = Overtaken
  BY <1>0, <1>1 DEF Overtaken, PersistTypeOK
<1>7. Settled' = Settled
  BY <1>0, <1>1 DEF Settled, PersistTypeOK
<1> QED
  BY <1>1, <1>3, <1>4, <1>5, <1>6, <1>7
  DEF IInv, SettledAreSaved, OnlyLateChangesAreLost, managerVars

LEMMA ClearOK ==
  ASSUME IInv, NEW f \in Flushers, ClearDirty(f)
  PROVE  IInv'
<1>0. PersistTypeOK /\ ManagerTypeOK
  BY DEF IInv, PersistTypeOK
<1>1. /\ UNCHANGED <<tokens, status, failCount, quota, limit, resumeAt, inflight,
                     recent, row>>
      /\ flushPc[f] = "clear"
      /\ flushPc' = [flushPc EXCEPT ![f] = "idle"]
      /\ snap' = [snap EXCEPT ![f] = NoSnapshots]
      /\ touched' = [touched EXCEPT ![f] = {}]
      /\ dirty' = dirty \ DOMAIN snap[f]
      /\ late' = (late \cup (DOMAIN snap[f] \cap touched[f])) \cap Behind
  BY DEF ClearDirty, FlushEnds
<1>2. \A t : Content(t)' = Content(t)
  BY <1>1 DEF Content
<1>3. Behind' = Behind
  BY <1>1, <1>2 DEF Behind
<1>4. PersistTypeOK'
  <2>1. ManagerTypeOK'
    BY <1>0, <1>1 DEF ManagerTypeOK
  <2>2. late' \subseteq Tokens
    BY <1>0, <1>1 DEF PersistTypeOK, Behind, ManagerTypeOK
  <2>3. dirty' \subseteq tokens'
    BY <1>0, <1>1 DEF PersistTypeOK
  <2>4. snap \in [Flushers -> Snapshots]
    BY <1>0, SnapType DEF PersistTypeOK
  <2>5. snap' \in [Flushers -> Snapshots]
    BY <1>1, <2>4, SnapshotFacts
  <2> QED
    BY <1>0, <1>1, <2>1, <2>2, <2>3, <2>5, SnapType DEF PersistTypeOK
<1>5. Faithful'
  BY <1>0, <1>1, <1>2 DEF IInv, Faithful, PersistTypeOK
<1>6. Settled' \subseteq Settled
  BY <1>0, <1>1 DEF Settled, PersistTypeOK
<1>7. ASSUME NEW u \in Behind, u \in late \cup Overtaken
      PROVE  u \in late' \cup Overtaken'
  <2>1. CASE u \in late
    BY <1>1, <2>1
  <2>2. CASE u \in Overtaken
    <3> PICK g \in Flushers : flushPc[g] = "clear" /\ u \in DOMAIN snap[g] \cap touched[g]
      BY <2>2 DEF Overtaken
    <3>1. CASE g = f
      BY <1>1, <3>1
    <3>2. CASE g # f
      <4>1. /\ flushPc'[g] = "clear"
            /\ u \in DOMAIN snap'[g] \cap touched'[g]
        BY <1>0, <1>1, <3>2 DEF PersistTypeOK
      <4> QED
        BY <2>2, <4>1 DEF Overtaken
    <3> QED
      BY <3>1, <3>2
  <2> QED
    BY <1>7, <2>1, <2>2
<1>8. SettledAreSaved'
  BY <1>3, <1>6, <1>7 DEF IInv, SettledAreSaved
<1>9. OnlyLateChangesAreLost'
  <2> SUFFICES ASSUME NEW u \in Behind
               PROVE  u \in dirty' \cup late' \cup Overtaken'
    BY <1>3 DEF OnlyLateChangesAreLost
  <2>1. u \in Tokens
    BY <1>0 DEF Behind, ManagerTypeOK
  <2>2. CASE u \in DOMAIN snap[f] \ touched[f]
    <3>1. u \in Settled
      BY <1>1, <2>1, <2>2 DEF Settled
    <3> QED
      BY <1>7, <3>1 DEF IInv, SettledAreSaved
  <2>3. CASE u \in DOMAIN snap[f] \cap touched[f]
    BY <1>1, <2>3
  <2>4. CASE u \notin DOMAIN snap[f]
    BY <1>1, <1>7, <2>4 DEF IInv, OnlyLateChangesAreLost
  <2> QED
    BY <2>2, <2>3, <2>4
<1> QED
  BY <1>1, <1>4, <1>5, <1>8, <1>9 DEF IInv

(* After a load, memory and row differ only where normalisation changed    *)
(* the token, and those tokens are dirty.                                  *)
LEMMA RestartOK ==
  ASSUME IInv, Restart
  PROVE  IInv'
<1>0. PersistTypeOK /\ row \in [Tokens -> Rows]
  BY DEF IInv, PersistTypeOK
<1>1. ASSUME NEW t \in Tokens
      PROVE  /\ Normalised(t).quota \in [Modes -> Nat]
             /\ Normalised(t).resumeAt \in [Modes -> Nat]
  <2> DEFINE known == {m \in Modes : DefaultQuota[t][m] > 0}
             q == [m \in Modes |-> IF m \in known /\ row[t].quota[m] > row[t].limit[m]
                                   THEN row[t].limit[m] ELSE row[t].quota[m]]
             at == [m \in Modes |-> IF m \in known /\ q[m] = 0 /\ row[t].resumeAt[m] = 0
                                    THEN PrimedAt ELSE row[t].resumeAt[m]]
  <2>1. row[t] \in Rows
    BY <1>0
  <2>2. q \in [Modes -> Nat]
    BY <2>1 DEF Rows
  <2>3. at \in [Modes -> Nat]
    BY <2>1, PersistenceAssumption DEF Rows
  <2> HIDE DEF q, at
  <2>4. [row[t] EXCEPT !.quota = q, !.resumeAt = at].quota = q
    BY <2>1 DEF Rows
  <2>5. [row[t] EXCEPT !.quota = q, !.resumeAt = at].resumeAt = at
    BY <2>1 DEF Rows
  <2>6. Normalised(t) = [row[t] EXCEPT !.quota = q, !.resumeAt = at]
    BY DEF Normalised, q, at
  <2> QED
    BY <2>2, <2>3, <2>4, <2>5, <2>6
<1>2. /\ tokens' = Tokens
      /\ status' = [t \in Tokens |-> row[t].status]
      /\ failCount' = [t \in Tokens |-> row[t].failCount]
      /\ quota' = [t \in Tokens |-> Normalised(t).quota]
      /\ limit' = [t \in Tokens |-> row[t].limit]
      /\ resumeAt' = [t \in Tokens |-> Normalised(t).resumeAt]
      /\ inflight' = [t \in Tokens |-> 0]
      /\ recent' = {}
      /\ dirty' = {t \in Tokens : Normalised(t) # row[t]}
  BY DEF Restart
<1>3. /\ flushPc' = [f \in Flushers |-> "idle"]
      /\ snap' = [f \in Flushers |-> NoSnapshots]
      /\ touched' = [f \in Flushers |-> {}]
      /\ late' = {}
      /\ row' = row
  BY DEF Restart
<1>4. ManagerTypeOK'
  <2>1. status' \in [Tokens -> Statuses] /\ failCount' \in [Tokens -> 0..FailThreshold]
    BY <1>0, <1>2 DEF Rows
  <2>2. limit' \in [Tokens -> [Modes -> Nat]]
    BY <1>0, <1>2 DEF Rows
  <2>3. quota' \in [Tokens -> [Modes -> Nat]] /\ resumeAt' \in [Tokens -> [Modes -> Nat]]
    BY <1>1, <1>2
  <2> QED
    BY <1>2, <2>1, <2>2, <2>3 DEF ManagerTypeOK
<1>5. PersistTypeOK'
  <2>1. snap' \in [Flushers -> Snapshots]
    BY <1>3, SnapshotFacts
  <2> QED
    BY <1>0, <1>2, <1>3, <1>4, <2>1, SnapType DEF PersistTypeOK
<1>6. Behind' \subseteq dirty'
  <2> SUFFICES ASSUME NEW t \in Tokens, Normalised(t) = row[t]
               PROVE  Content(t)' = row[t]
    BY <1>2, <1>3 DEF Behind
  <2>1. row[t] \in Rows
    BY <1>0
  <2>2. Content(t)' = [status |-> row[t].status, failCount |-> row[t].failCount,
                       quota |-> row[t].quota, limit |-> row[t].limit,
                       resumeAt |-> row[t].resumeAt]
    BY <1>2 DEF Content
  <2> QED
    BY <2>1, <2>2 DEF Rows
<1>7. Faithful' /\ Settled' = {}
  BY <1>3 DEF Faithful, Settled
<1> QED
  BY <1>2, <1>5, <1>6, <1>7 DEF IInv, SettledAreSaved, OnlyLateChangesAreLost

LEMMA StutterOK ==
  ASSUME IInv, UNCHANGED persistVars
  PROVE  IInv'
<1>1. UNCHANGED <<managerVars, row, flushPc, snap, touched, late>>
  BY DEF persistVars, flushVars
<1>2. ManagerTypeOK' /\ \A t : Content(t)' = Content(t)
  BY <1>1, StutterType DEF IInv, PersistTypeOK, Content, managerVars
<1>3. Behind' = Behind
  BY <1>1, <1>2 DEF Behind, managerVars
<1>4. Overtaken' = Overtaken /\ Settled' = Settled
  BY <1>1 DEF Overtaken, Settled
<1>5. PersistTypeOK' /\ Faithful'
  BY <1>1, <1>2 DEF IInv, PersistTypeOK, Faithful, managerVars
<1> QED
  BY <1>1, <1>3, <1>4, <1>5
  DEF IInv, SettledAreSaved, OnlyLateChangesAreLost, managerVars

-----------------------------------------------------------------------------
LEMMA InvariantHolds == PersistSpec => []IInv
<1>1. IInv /\ [PersistNext]_persistVars => IInv'
  BY ChangeOK, TakeOK, CommitOK, RollBackOK, ClearOK, RestartOK, StutterOK DEF PersistNext
<1> QED
  BY <1>1, InitOK, PTL DEF PersistSpec

(* Memory, rows, snapshots and marks stay well formed through overlapping  *)
(* flushes and restarts; a mark is never left on an unknown token.         *)
THEOREM PersistenceTypeCorrect == PersistSpec => []PersistTypeOK
<1>1. IInv => PersistTypeOK
  BY DEF IInv
<1> QED
  BY <1>1, InvariantHolds, PTL

(* Whatever flushes overlap, fail or are cut short by a restart, the       *)
(* database falls behind unnoticed only through a change that was made     *)
(* between a flush's snapshot and its ClearDirty.                          *)
THEOREM NothingElseIsLost == PersistSpec => []OnlyLateChangesAreLost
<1>1. IInv => OnlyLateChangesAreLost
  BY DEF IInv
<1> QED
  BY <1>1, InvariantHolds, PTL

-----------------------------------------------------------------------------
(* Part two: administrators. *)

(* The operation is between two of its steps.                              *)
Active(a) == op[a].pc \notin {"idle", "done"}

(* The stages of an operation, and those that carry a row.                 *)
Stages == {"save", "sync", "remove", "add", "drop"}
WithData == {"save", "remove", "add"}
(* What is asked for; the operations without a request of their own ask    *)
(* for nothing.                                                            *)
Wants == Updates \cup {NoChange}
(* What op[a] may be.                                                      *)
OpStates == {NoOp, Done} \cup
            [pc : Stages, t : Tokens, want : Wants, data : Rows \cup {NoRow}]

(* An operation works on a token that has had an ID, and carries a row at  *)
(* the stages that store one.                                              *)
OpsType ==
  /\ op \in [Admins -> OpStates]
  /\ \A a \in Admins : Active(a) =>
       op[a].t \in ever /\ (op[a].pc \in WithData => op[a].data \in Rows)

(* The types, with the tokens of the pool among those that have had an ID. *)
AdminBase == AdminTypeOK /\ OpsType /\ tokens \subseteq ever

(* A quota is not over a known limit beside it.                            *)
Within(r) == \A m \in Modes : r.limit[m] > 0 => r.quota[m] <= r.limit[m]

(* ... in memory, in the rows, in the snapshots, and in the rows           *)
(* administrators carry.                                                   *)
AllWithin ==
  /\ \A t \in Tokens : Within(row[t]) /\ Within(Content(t))
  /\ \A f \in Flushers : \A t \in DOMAIN snap[f] : Within(snap[f][t])
  /\ \A a \in Admins : op[a].pc \in WithData => Within(op[a].data)

(* The limit is kept by the count, and the count covers the requests of a  *)
(* token unless it was reset.                                              *)
Counts ==
  \A t \in Tokens :
    /\ MaxInflight > 0 => inflight[t] <= MaxInflight
    /\ t \notin reset => using[t] <= inflight[t]

(* Two operations under way on one token have torn it.                     *)
OneOperation ==
  \A a, b \in Admins :
    a # b /\ Active(a) /\ Active(b) /\ op[a].t = op[b].t => op[a].t \in torn

(* So have an operation and a flush.                                       *)
NoFlushOfBusy ==
  \A a \in Admins, f \in Flushers :
    Active(a) /\ op[a].t \in DOMAIN snap[f] => op[a].t \in torn

(* What an operation on a token that is not torn knows at its stage: the   *)
(* row and the pool before and after each of its calls.                    *)
OpOK(a) ==
  LET t == op[a].t IN
  Active(a) /\ t \notin torn =>
    /\ t \in rows <=> op[a].pc # "drop"
    /\ op[a].pc \in {"save", "sync", "remove"} => t \in tokens
    /\ op[a].pc = "add" => t \notin tokens
    /\ op[a].pc \in WithData => op[a].data = row[t]
    /\ op[a].pc = "save" /\ t \notin dirty => row[t] = Content(t)
    /\ op[a].pc \in {"sync", "remove", "add"} /\ op[a].want.status # "keep" =>
         row[t].status = op[a].want.status

(* A token without an operation: in the pool if it has a row; saved if it  *)
(* is not dirty; and a flush that holds it holds what memory has, since a  *)
(* change would have torn it.                                              *)
RestOK(t) ==
  ~Busy(t) /\ t \notin torn =>
    /\ t \in tokens <=> t \in rows
    /\ t \in tokens =>
         /\ t \notin dirty => row[t] = Content(t)
         /\ \A f \in Flushers : t \in DOMAIN snap[f] =>
              /\ snap[f][t] = Content(t)
              /\ flushPc[f] = "clear" => row[t] = Content(t)

(* Tokens under an operation, tokens at rest, and the overlaps.            *)
Protocol ==
  /\ OneOperation /\ NoFlushOfBusy
  /\ \A a \in Admins : OpOK(a)
  /\ \A t \in Tokens : RestOK(t)

(* The inductive invariant.                                                *)
AdminIInv == AdminBase /\ AllWithin /\ Counts /\ Protocol

-----------------------------------------------------------------------------
(* Types. *)

(* What an operation under way is made of.                                 *)
LEMMA OpsFacts ==
  ASSUME OpsType, ever \subseteq Tokens, NEW a \in Admins, Active(a)
  PROVE  /\ op[a].pc \in Stages /\ op[a].t \in Tokens /\ op[a].t \in ever
         /\ op[a].want \in Wants
         /\ op[a].pc \in WithData => op[a].data \in Rows
         /\ op[a] \in [pc : Stages, t : Tokens, want : Wants, data : Rows \cup {NoRow}]
BY DEF OpsType, Active, OpStates, NoOp, Done

(* An operation goes on to another stage. *)
LEMMA OpGoesOn ==
  ASSUME OpsType, ever \subseteq Tokens, ever \subseteq ever', NEW a \in Admins, Active(a),
         NEW p \in Stages, NEW d \in Rows \cup {NoRow}, p \in WithData => d \in Rows,
         op' = [op EXCEPT ![a].pc = p, ![a].data = d]
  PROVE  /\ OpsType'
         /\ op'[a].pc = p /\ op'[a].t = op[a].t /\ op'[a].want = op[a].want
         /\ op'[a].data = d
         /\ \A b \in Admins \ {a} : op'[b] = op[b]
<1>1. op[a] \in [pc : Stages, t : Tokens, want : Wants, data : Rows \cup {NoRow}]
      /\ op[a].t \in ever
  BY OpsFacts
<1>2. op \in [Admins -> OpStates]
  BY DEF OpsType
<1> DEFINE o == [op[a] EXCEPT !.pc = p, !.data = d]
<1>3. op' = [op EXCEPT ![a] = o]
  BY <1>2
<1>4. /\ o \in [pc : Stages, t : Tokens, want : Wants, data : Rows \cup {NoRow}]
      /\ o.pc = p /\ o.t = op[a].t /\ o.want = op[a].want /\ o.data = d
  BY <1>1
<1> HIDE DEF o
<1>7. o \in OpStates
  BY <1>4 DEF OpStates
<1>5. op' \in [Admins -> OpStates] /\ op'[a] = o /\ \A b \in Admins \ {a} : op'[b] = op[b]
  BY <1>2, <1>3, <1>7
<1>6. OpsType'
  BY <1>1, <1>4, <1>5 DEF OpsType, Active
<1> QED
  BY <1>4, <1>5, <1>6

(* An operation ends.                                                      *)
LEMMA OpEnds ==
  ASSUME OpsType, ever \subseteq ever', NEW a \in Admins, op' = [op EXCEPT ![a] = Done]
  PROVE  /\ OpsType' /\ op'[a].pc = "done"
         /\ \A b \in Admins \ {a} : op'[b] = op[b]
<1>1. op' \in [Admins -> OpStates] /\ op'[a] = Done /\ \A b \in Admins \ {a} : op'[b] = op[b]
  BY DEF OpsType, OpStates
<1> QED
  BY <1>1 DEF OpsType, Active, Done

(* An operation begins.                                                    *)
LEMMA OpBegins ==
  ASSUME OpsType, ever \subseteq ever', NEW a \in Admins,
         NEW p \in Stages, NEW t \in Tokens, t \in ever', NEW want \in Wants,
         NEW d \in Rows \cup {NoRow}, p \in WithData => d \in Rows,
         op' = [op EXCEPT ![a] = Operation(p, t, want, d)]
  PROVE  /\ OpsType'
         /\ op'[a].pc = p /\ op'[a].t = t /\ op'[a].want = want /\ op'[a].data = d
         /\ \A b \in Admins \ {a} : op'[b] = op[b]
<1>1. Operation(p, t, want, d) \in OpStates
  BY DEF Operation, OpStates
<1>2. /\ op' \in [Admins -> OpStates]
      /\ op'[a] = Operation(p, t, want, d) /\ \A b \in Admins \ {a} : op'[b] = op[b]
  BY <1>1 DEF OpsType
<1>3. op'[a].pc = p /\ op'[a].t = t /\ op'[a].want = want /\ op'[a].data = d
  BY <1>2 DEF Operation
<1>4. OpsType'
  BY <1>2, <1>3 DEF OpsType, Active
<1> QED
  BY <1>2, <1>3, <1>4

(* A status asked for is one of the known ones, or none.                   *)
LEMMA WantFacts ==
  ASSUME NEW want \in Wants
  PROVE  want.status \in Statuses \cup {"keep"}
BY AdminAssumption DEF Wants, NoChange

(* An update that was not refused gives a row within its limits, with the  *)
(* status asked for.                                                       *)
LEMMA EditedFacts ==
  ASSUME NEW want \in Wants, NEW r \in Rows, WithinLimits(want, r)
  PROVE  /\ Edited(want, r) \in Rows
         /\ Within(r) => Within(Edited(want, r))
         /\ want.status # "keep" => Edited(want, r).status = want.status
<1> DEFINE q == [m \in Modes |-> IF m \in DOMAIN want.quotas THEN want.quotas[m] ELSE r.quota[m]]
           s == IF want.status = "keep" THEN r.status ELSE want.status
<1>1. Edited(want, r) = [r EXCEPT !.status = s, !.quota = q]
  BY DEF Edited, Rows
<1>2. s \in Statuses /\ (want.status # "keep" => s = want.status)
  BY WantFacts DEF Rows
<1>3. \A m \in Modes : r.limit[m] \in Nat /\ r.quota[m] \in Nat
  BY DEF Rows
<1>4. \A m \in Modes : /\ q[m] \in Nat
                       /\ q[m] <= r.limit[m] \/ q[m] = r.quota[m]
  BY <1>3 DEF WithinLimits
<1>5. q \in [Modes -> Nat]
  BY <1>4
<1> HIDE DEF q, s
<1>6. Edited(want, r) \in Rows /\ Edited(want, r).status = s /\ Edited(want, r).quota = q
      /\ Edited(want, r).limit = r.limit
  BY <1>1, <1>2, <1>5 DEF Rows
<1>7. Within(r) => Within(Edited(want, r))
  BY <1>3, <1>4, <1>6 DEF Within
<1> QED
  BY <1>2, <1>6, <1>7

(* AddToken makes a row the content of a token. *)
LEMMA AddedFacts ==
  ASSUME ManagerTypeOK, NEW t \in Tokens, NEW r \in Rows, AddToken(t, r)
  PROVE  /\ ManagerTypeOK' /\ tokens' = tokens \cup {t}
         /\ Content(t)' = r
         /\ \A u \in Tokens \ {t} : Content(u)' = Content(u)
         /\ dirty' = dirty /\ inflight' = inflight
<1>1. /\ r.status \in Statuses /\ r.failCount \in 0..FailThreshold
      /\ r.quota \in [Modes -> Nat] /\ r.limit \in [Modes -> Nat] /\ r.resumeAt \in [Modes -> Nat]
      /\ r = [status |-> r.status, failCount |-> r.failCount, quota |-> r.quota,
              limit |-> r.limit, resumeAt |-> r.resumeAt]
  BY DEF Rows
<1>2. /\ status' \in [Tokens -> Statuses] /\ failCount' \in [Tokens -> 0..FailThreshold]
      /\ quota' \in [Tokens -> [Modes -> Nat]] /\ limit' \in [Tokens -> [Modes -> Nat]]
      /\ resumeAt' \in [Tokens -> [Modes -> Nat]]
  BY <1>1 DEF ManagerTypeOK, AddToken
<1>3. /\ status'[t] = r.status /\ failCount'[t] = r.failCount
      /\ quota'[t] = r.quota /\ limit'[t] = r.limit /\ resumeAt'[t] = r.resumeAt
  BY DEF ManagerTypeOK, AddToken
<1>4. \A u \in Tokens \ {t} :
        /\ status'[u] = status[u] /\ failCount'[u] = failCount[u]
        /\ quota'[u] = quota[u] /\ limit'[u] = limit[u] /\ resumeAt'[u] = resumeAt[u]
  BY DEF ManagerTypeOK, AddToken
<1>5. ManagerTypeOK'
  BY <1>2 DEF ManagerTypeOK, AddToken
<1>6. Content(t)' = r
  BY <1>1, <1>3 DEF Content
<1>7. \A u \in Tokens \ {t} : Content(u)' = Content(u)
  BY <1>4 DEF Content
<1> QED
  BY <1>5, <1>6, <1>7 DEF AddToken

(* RemoveToken forgets the count and the mark. *)
LEMMA RemovedFacts ==
  ASSUME ManagerTypeOK, dirty \subseteq tokens, NEW t \in Tokens, RemoveToken(t)
  PROVE  /\ ManagerTypeOK' /\ tokens' = tokens \ {t} /\ dirty' = dirty \ {t}
         /\ \A u \in Tokens : Content(u)' = Content(u)
         /\ \A u \in Tokens \ {t} : inflight'[u] = inflight[u]
         /\ inflight'[t] <= inflight[t]
<1>1. CASE t \in tokens
  <2>1. inflight' \in [Tokens -> Nat]
    BY SMTT(30), <1>1 DEF RemoveToken, ManagerTypeOK
  <2>2. ManagerTypeOK'
    BY <1>1, <2>1 DEF RemoveToken, ManagerTypeOK
  <2>3. \A u \in Tokens : Content(u)' = Content(u)
    BY <1>1 DEF RemoveToken, Content
  <2> QED
    BY <1>1, <2>2, <2>3 DEF RemoveToken, ManagerTypeOK
<1>2. CASE t \notin tokens
  <2>1. UNCHANGED managerVars
    BY <1>2 DEF RemoveToken
  <2>2. ManagerTypeOK'
    BY <2>1, StutterType
  <2> QED
    BY <1>2, <2>1, <2>2 DEF managerVars, Content, ManagerTypeOK
<1> QED
  BY <1>1, <1>2

-----------------------------------------------------------------------------
(* The steps of the requests and of the scheduler. *)

(* The steps of requests and of the scheduler on one token.                *)
UseOf(t) ==
  \/ Finish(t)
  \/ \E m \in Modes : Take(t, m) \/ Refund(t, m)
  \/ \E m \in Modes, a \in RefreshAnswers : InstallQuota(t, m, a)

(* The database, the flush and the operations have no part in them.        *)
Unconcerned == UNCHANGED <<row, flushVars, touched, late, rows, ever, op, reset>>

(* They change one token, which is dirty after that, and tear it under a   *)
(* flush.                                                                  *)
UseMoves(t) ==
  /\ tokens' = tokens /\ Unconcerned
  /\ torn' = IF Flushing(t) THEN torn \cup {t} ELSE torn
  /\ dirty \subseteq dirty' /\ dirty' \subseteq dirty \cup ({t} \cap tokens)
  /\ Content(t)' # Content(t) => t \in dirty'
  /\ \A u \in Tokens \ {t} : Content(u)' = Content(u)

(* What Pick may return is a token the manager knows. *)
LEMMA SelectableKnown ==
  ASSUME NEW p, NEW m, NEW t \in Selectable(p, m)
  PROVE  t \in tokens
<1>1. \A S : ByAlgorithm(S, m) \subseteq S
  BY DEF ByAlgorithm
<1>2. \A S : TopTier(S) \subseteq S
  BY DEF TopTier
<1>3. \A ex : Usable(p, m, ex) \subseteq tokens
  BY DEF Usable
<1> QED
  BY <1>1, <1>2, <1>3 DEF Selectable

(* The refund of a unit to a token the manager still has.                  *)
LEMMA RefundOnce ==
  ASSUME ManagerTypeOK, NEW t \in tokens, NEW m \in Modes, Refund(t, m)
  PROVE  /\ ManagerTypeOK' /\ UseMoves(t) /\ (QuotaWithinLimit => QuotaWithinLimit')
         /\ ReleaseInflight(t)
<1>0. t \in Tokens
  BY DEF ManagerTypeOK
<1> DEFINE v == Refunded(quota[t][m], limit[t][m])
<1>1. /\ quota' = [quota EXCEPT ![t][m] = v] /\ dirty' = dirty \cup {t}
      /\ ReleaseInflight(t)
      /\ UNCHANGED <<tokens, status, failCount, limit, resumeAt, recent>>
      /\ Unconcerned /\ torn' = IF Flushing(t) THEN torn \cup {t} ELSE torn
  BY DEF Refund, MarkDirty, NoteChange, Unconcerned
<1>2. v \in Nat /\ (limit[t][m] > 0 => v <= limit[t][m])
  BY <1>0, RefundedBound DEF ManagerTypeOK
<1> HIDE DEF v
<1>3. quota' \in [Tokens -> [Modes -> Nat]]
  BY <1>0, <1>1, <1>2, CellUpdate DEF ManagerTypeOK
<1>4. inflight' \in [Tokens -> Nat]
  BY <1>0, <1>1, ReleaseType
<1>5. ManagerTypeOK'
  BY <1>0, <1>1, <1>3, <1>4 DEF ManagerTypeOK
<1>6. \A u \in Tokens \ {t} : Content(u)' = Content(u)
  BY <1>0, <1>1 DEF Content, ManagerTypeOK
<1>7. UseMoves(t)
  BY <1>1, <1>6 DEF UseMoves
<1>8. QuotaWithinLimit => QuotaWithinLimit'
  BY <1>0, <1>1, <1>2 DEF QuotaWithinLimit, ManagerTypeOK
<1> QED
  BY <1>1, <1>5, <1>7, <1>8

(* Every method of the manager a request or the scheduler calls has the    *)
(* form UseMoves and keeps quotas within limits.                           *)
LEMMA UseFacts ==
  ASSUME ManagerTypeOK, NEW t \in Tokens, UseOf(t)
  PROVE  ManagerTypeOK' /\ UseMoves(t) /\ (QuotaWithinLimit => QuotaWithinLimit')
<1>1. Unconcerned /\ torn' = IF Flushing(t) THEN torn \cup {t} ELSE torn
  BY DEF UseOf, Finish, Take, Refund, InstallQuota, NoteChange, Unconcerned
<1>2. CASE UNCHANGED managerVars
  <2>1. ManagerTypeOK'
    BY <1>2, StutterType
  <2> QED
    BY <1>1, <1>2, <2>1 DEF UseMoves, managerVars, Content, QuotaWithinLimit
<1>3. CASE t \in tokens /\ CallOn(t)
  <2>1. ManagerTypeOK'
    BY <1>3, MethodsKeepType
  <2>2. /\ tokens' = tokens
        /\ dirty \subseteq dirty' /\ dirty' \subseteq dirty \cup {t}
        /\ \A u \in Tokens : Content(u)' # Content(u) => u \in dirty'
        /\ \A u \in Tokens \ {t} : Content(u)' = Content(u)
    BY <1>3, MethodsMark
  <2>3. QuotaWithinLimit => QuotaWithinLimit'
    BY <1>3, MethodsKeepLimit DEF MethodCall
  <2> QED
    BY <1>1, <1>3, <2>1, <2>2, <2>3 DEF UseMoves
<1>4. CASE Finish(t)
  <2>1. (t \in tokens /\ CallOn(t)) \/ UNCHANGED managerVars
    BY <1>4 DEF Finish, CallOn, MarkSuccess, MarkExpired, ClearModeQuota
  <2> QED
    BY <1>2, <1>3, <2>1
<1>5. ASSUME NEW m \in Modes, Take(t, m)
      PROVE  ManagerTypeOK' /\ UseMoves(t) /\ (QuotaWithinLimit => QuotaWithinLimit')
  <2>1. t \in tokens /\ quota[t][m] > 0
    BY <1>5, SelectableFacts, SelectableKnown DEF Take
  <2> QED
    BY <1>3, <1>5, <2>1 DEF Take, CallOn
<1>6. ASSUME NEW m \in Modes, Refund(t, m)
      PROVE  ManagerTypeOK' /\ UseMoves(t) /\ (QuotaWithinLimit => QuotaWithinLimit')
  BY <1>2, <1>6, RefundOnce DEF Refund
<1>7. ASSUME NEW m \in Modes, NEW a \in RefreshAnswers, InstallQuota(t, m, a)
      PROVE  ManagerTypeOK' /\ UseMoves(t) /\ (QuotaWithinLimit => QuotaWithinLimit')
  <2>1. a[1] \in Nat /\ a[2] \in Nat
    BY PersistenceAssumption
  <2> QED
    BY <1>3, <1>7, <2>1 DEF InstallQuota, CallOn
<1> QED
  BY <1>4, <1>5, <1>6, <1>7 DEF UseOf

(* A pick counts a request, an ending request is taken off the count at    *)
(* most once: the count covers what is in use.                             *)
LEMMA UseCounts ==
  ASSUME ManagerTypeOK, using \in [Tokens -> 0..MaxUse], Counts, NEW t \in Tokens, UseOf(t)
  PROVE  using' \in [Tokens -> 0..MaxUse] /\ Counts'
<1>0. reset' = reset /\ inflight \in [Tokens -> Nat] /\ MaxUse \in Nat /\ MaxInflight \in Nat
  BY AdminAssumption, ManagerAssumption DEF UseOf, Finish, Take, Refund, InstallQuota, ManagerTypeOK
<1>1. CASE /\ using' = [using EXCEPT ![t] = @ - 1] /\ using[t] > 0
           /\ ReleaseInflight(t) \/ inflight' = inflight
  BY <1>0, <1>1 DEF Counts, ReleaseInflight
<1>2. CASE Finish(t)
  BY <1>1, <1>2 DEF Finish, MarkSuccess, MarkExpired, ClearModeQuota, managerVars
<1>3. ASSUME NEW m \in Modes, Take(t, m) PROVE using' \in [Tokens -> 0..MaxUse] /\ Counts'
  <2>1. MaxInflight > 0 => inflight[t] < MaxInflight
    BY <1>3, SelectableFacts DEF Take
  <2>2. /\ using' = [using EXCEPT ![t] = @ + 1] /\ using[t] < MaxUse
        /\ inflight' = [inflight EXCEPT ![t] = @ + 1]
    BY <1>3 DEF Take, Pick
  <2> QED
    BY <1>0, <2>1, <2>2 DEF Counts
<1>4. ASSUME NEW m \in Modes, Refund(t, m) PROVE using' \in [Tokens -> 0..MaxUse] /\ Counts'
  BY <1>1, <1>4 DEF Refund, managerVars
<1>5. ASSUME NEW m \in Modes, NEW a \in RefreshAnswers, InstallQuota(t, m, a)
      PROVE  using' \in [Tokens -> 0..MaxUse] /\ Counts'
  BY <1>0, <1>5 DEF InstallQuota, UpdateModeQuota, Counts
<1> QED
  BY <1>2, <1>3, <1>4, <1>5 DEF UseOf

(* Requests keep the types.                                                *)
LEMMA UseBase ==
  ASSUME AdminBase, Counts, NEW t \in Tokens, UseOf(t)
  PROVE  AdminBase'
<1>1. ManagerTypeOK' /\ UseMoves(t)
  BY UseFacts DEF AdminBase, AdminTypeOK, PersistTypeOK
<1>2. using' \in [Tokens -> 0..MaxUse]
  BY UseCounts DEF AdminBase, AdminTypeOK, PersistTypeOK
<1>3. PersistTypeOK'
  BY <1>1 DEF AdminBase, AdminTypeOK, PersistTypeOK, UseMoves, Unconcerned, flushVars
<1>4. AdminTypeOK'
  BY <1>1, <1>2, <1>3 DEF AdminBase, AdminTypeOK, UseMoves, Unconcerned
<1>5. OpsType'
  BY <1>1 DEF AdminBase, OpsType, Active, UseMoves, Unconcerned
<1> QED
  BY <1>1, <1>4, <1>5 DEF AdminBase, UseMoves, Unconcerned

(* The manager's invariant on limits is the one on contents.               *)
LEMMA LimitForm ==
  QuotaWithinLimit <=> \A t \in Tokens : Within(Content(t))
BY DEF QuotaWithinLimit, Within, Content

(* Requests keep quotas within limits.                                     *)
LEMMA UseWithin ==
  ASSUME AdminBase, AllWithin, NEW t \in Tokens, UseOf(t)
  PROVE  AllWithin'
<1>1. UseMoves(t) /\ (QuotaWithinLimit => QuotaWithinLimit')
  BY UseFacts DEF AdminBase, AdminTypeOK, PersistTypeOK
<1>2. QuotaWithinLimit'
  BY <1>1, LimitForm DEF AllWithin
<1>3. \A u \in Tokens : Within(Content(u))'
  BY <1>2 DEF QuotaWithinLimit, Within, Content
<1>4. UNCHANGED <<row, snap, op>>
  BY <1>1 DEF UseMoves, Unconcerned, flushVars
<1> QED
  BY <1>3, <1>4 DEF AllWithin, Within

(* A request may change a token under an operation or at rest: it marks    *)
(* it, and a flush that holds it makes it torn.                            *)
LEMMA UseProtocol ==
  ASSUME AdminBase, Protocol, NEW t \in Tokens, UseOf(t)
  PROVE  Protocol'
<1>1. UseMoves(t)
  BY UseFacts DEF AdminBase, AdminTypeOK, PersistTypeOK
<1>2. /\ UNCHANGED <<row, flushPc, snap, rows, op, tokens>>
      /\ torn \subseteq torn' /\ torn' \subseteq torn \cup {t}
      /\ t \notin torn' => ~Flushing(t)
      /\ dirty \subseteq dirty' /\ dirty' \subseteq dirty \cup {t}
      /\ Content(t)' # Content(t) => t \in dirty'
      /\ \A u \in Tokens \ {t} : Content(u)' = Content(u)
  BY <1>1 DEF UseMoves, Unconcerned, flushVars
<1>3. OneOperation' /\ NoFlushOfBusy'
  BY <1>2 DEF Protocol, OneOperation, NoFlushOfBusy, Active
<1>4. ASSUME NEW a \in Admins PROVE OpOK(a)'
  <2>1. OpOK(a) /\ (Active(a) => op[a].t \in Tokens)
    BY OpsFacts DEF Protocol, AdminBase, AdminTypeOK
  <2> QED
    BY <1>2, <2>1 DEF OpOK, Active
<1>5. ASSUME NEW u \in Tokens PROVE RestOK(u)'
  <2>1. RestOK(u)
    BY DEF Protocol
  <2>2. CASE u = t
    BY <1>2, <2>1, <2>2 DEF RestOK, Busy, Flushing
  <2>3. CASE u # t
    BY <1>2, <2>1, <2>3 DEF RestOK, Busy
  <2> QED
    BY <2>2, <2>3
<1> QED
  BY <1>3, <1>4, <1>5 DEF Protocol

-----------------------------------------------------------------------------
(* The flushes. *)

(* The steps of one flush.                                                 *)
FlushOf(f) ==
  \/ FlushSnapshots(f)
  \/ FlushCommits(f)
  \/ (RollBack(f) \/ ClearDirty(f)) /\ UNCHANGED adminVars

(* What a flush leaves alone. *)
LEMMA FlushFacts ==
  ASSUME ManagerTypeOK, NEW f \in Flushers, FlushOf(f)
  PROVE  /\ UNCHANGED <<tokens, status, failCount, quota, limit, resumeAt, inflight, recent>>
         /\ UNCHANGED <<rows, ever, op, using, reset>>
         /\ dirty' \subseteq dirty /\ ManagerTypeOK'
         /\ \A t \in Tokens : Content(t)' = Content(t)
<1>1. /\ UNCHANGED <<tokens, status, failCount, quota, limit, resumeAt, inflight, recent>>
      /\ UNCHANGED <<rows, ever, op, using, reset>>
      /\ dirty' \subseteq dirty
  BY DEF FlushOf, FlushSnapshots, FlushCommits, TakeSnapshots, RollBack, ClearDirty, managerVars,
         adminVars
<1>2. ManagerTypeOK'
  BY <1>1 DEF ManagerTypeOK
<1> QED
  BY <1>1, <1>2 DEF Content

(* One snapshot is replaced.                                               *)
LEMMA SnapStep ==
  ASSUME PersistTypeOK, NEW f \in Flushers, NEW s \in Snapshots, snap' = [snap EXCEPT ![f] = s]
  PROVE  /\ snap' \in [Flushers -> Snapshots]
         /\ snap'[f] = s /\ \A g \in Flushers \ {f} : snap'[g] = snap[g]
<1>1. snap \in [Flushers -> Snapshots]
  BY SnapType DEF PersistTypeOK
<1> QED
  BY <1>1

(* A flush keeps the types: it stores what it has in its snapshot, and     *)
(* clears marks of known tokens.                                           *)
LEMMA FlushBase ==
  ASSUME AdminBase, NEW f \in Flushers, FlushOf(f)
  PROVE  AdminBase'
<1>1. PersistTypeOK /\ ManagerTypeOK
  BY DEF AdminBase, AdminTypeOK, PersistTypeOK
<1>2. /\ ManagerTypeOK' /\ dirty' \subseteq tokens'
      /\ UNCHANGED <<rows, ever, op, using, reset, tokens>>
  BY <1>1, FlushFacts DEF PersistTypeOK
<1>3. snap' \in [Flushers -> Snapshots]
  <2>1. CASE TakeSnapshots(f)
    <3> DEFINE s == [t \in dirty \cap tokens |-> Content(t)]
    <3>1. dirty \cap tokens \subseteq Tokens
      BY <1>1 DEF ManagerTypeOK
    <3>2. s \in [dirty \cap tokens -> Rows]
      BY <1>1, <3>1, ContentIsRow
    <3>3. s \in Snapshots
      BY <3>1, <3>2, SnapshotFacts
    <3>4. snap' = [snap EXCEPT ![f] = s]
      BY <2>1 DEF TakeSnapshots
    <3> HIDE DEF s
    <3> QED
      BY <1>1, <3>3, <3>4, SnapStep
  <2>2. CASE FlushEnds(f)
    BY <1>1, <2>2, SnapshotFacts, SnapStep DEF FlushEnds
  <2>3. CASE snap' = snap
    BY <1>1, <2>3, SnapType DEF PersistTypeOK
  <2> QED
    BY <2>1, <2>2, <2>3 DEF FlushOf, FlushSnapshots, FlushCommits, RollBack, ClearDirty
<1>4. row' \in [Tokens -> Rows]
  <2>1. CASE row' = row
    BY <1>1, <2>1 DEF PersistTypeOK
  <2>2. CASE FlushCommits(f)
    <3>0. snap \in [Flushers -> Snapshots]
      BY <1>1, SnapType DEF PersistTypeOK
    <3>1. snap[f] \in Snapshots
      BY <3>0
    <3>2. \A t \in DOMAIN snap[f] : snap[f][t] \in Rows
      BY <3>1, SnapshotFacts
    <3>3. row' = [t \in Tokens |-> IF t \in DOMAIN snap[f] \cap rows THEN snap[f][t] ELSE row[t]]
      BY <2>2 DEF FlushCommits
    <3> QED
      BY <1>1, <3>2, <3>3 DEF PersistTypeOK
  <2> QED
    BY <2>1, <2>2 DEF FlushOf, FlushSnapshots, TakeSnapshots, RollBack, ClearDirty
<1>5. flushPc' \in [Flushers -> {"idle", "write", "clear"}] /\ touched' \in [Flushers -> SUBSET Tokens]
  BY <1>1 DEF PersistTypeOK, FlushOf, FlushSnapshots, FlushCommits, TakeSnapshots, RollBack,
              ClearDirty, FlushEnds
<1>6. late' \subseteq Tokens
  BY <1>1 DEF PersistTypeOK, FlushOf, FlushSnapshots, FlushCommits, TakeSnapshots, RollBack,
              ClearDirty, Behind, ManagerTypeOK
<1>7. PersistTypeOK'
  BY <1>2, <1>3, <1>4, <1>5, <1>6, SnapType DEF PersistTypeOK
<1>8. torn' \subseteq Tokens
  BY <1>1 DEF AdminBase, AdminTypeOK, FlushOf, FlushSnapshots, FlushCommits, adminVars, ManagerTypeOK
<1>9. AdminTypeOK'
  BY <1>2, <1>7, <1>8 DEF AdminBase, AdminTypeOK
<1>10. OpsType'
  BY <1>2 DEF AdminBase, OpsType, Active
<1> QED
  BY <1>2, <1>9, <1>10 DEF AdminBase

(* A flush keeps quotas within limits: it stores rows that are.            *)
LEMMA FlushWithin ==
  ASSUME AdminBase, AllWithin, NEW f \in Flushers, FlushOf(f)
  PROVE  AllWithin'
<1>1. PersistTypeOK /\ ManagerTypeOK
  BY DEF AdminBase, AdminTypeOK, PersistTypeOK
<1>2. op' = op /\ \A t \in Tokens : Content(t)' = Content(t)
  BY <1>1, FlushFacts
<1>3. \A t \in Tokens : Within(Content(t))'
  BY <1>2 DEF AllWithin, Within
<1>4. \A t \in Tokens : Within(row[t])'
  <2>1. \A t \in Tokens : row'[t] = row[t] \/ (t \in DOMAIN snap[f] /\ row'[t] = snap[f][t])
    BY DEF FlushOf, FlushSnapshots, FlushCommits, TakeSnapshots, RollBack, ClearDirty
  <2> QED
    BY <2>1 DEF AllWithin, Within
<1>5. ASSUME NEW g \in Flushers, NEW t \in DOMAIN snap'[g] PROVE Within(snap'[g][t])
  <2>1. CASE TakeSnapshots(f) /\ g = f
    <3>1. snap'[g] = [u \in dirty \cap tokens |-> Content(u)]
      BY <1>1, <2>1 DEF TakeSnapshots, PersistTypeOK
    <3>2. snap'[g][t] = Content(t) /\ t \in Tokens
      BY <1>1, <1>5, <3>1 DEF ManagerTypeOK
    <3> QED
      BY <3>2 DEF AllWithin
  <2>2. CASE FlushEnds(f) /\ g = f
    <3>1. snap'[g] = NoSnapshots
      BY <1>1, <2>2 DEF FlushEnds, PersistTypeOK
    <3> QED
      BY <1>5, <3>1 DEF NoSnapshots
  <2>3. CASE snap'[g] = snap[g]
    BY <1>5, <2>3 DEF AllWithin
  <2> QED
    BY <1>1, <2>1, <2>2, <2>3 DEF FlushOf, FlushSnapshots, FlushCommits, RollBack, ClearDirty,
       TakeSnapshots, FlushEnds, PersistTypeOK
<1> QED
  BY <1>2, <1>3, <1>4, <1>5 DEF AllWithin, Within

(* A flush of a token that is not torn stores what memory has, and clears  *)
(* the mark afterwards.                                                    *)
LEMMA FlushProtocol ==
  ASSUME AdminBase, Protocol, NEW f \in Flushers, FlushOf(f)
  PROVE  Protocol'
<1>1. PersistTypeOK /\ ManagerTypeOK
  BY DEF AdminBase, AdminTypeOK, PersistTypeOK
<1>2. /\ UNCHANGED <<rows, op, tokens>> /\ dirty' \subseteq dirty
      /\ \A t \in Tokens : Content(t)' = Content(t)
  BY <1>1, FlushFacts
<1>3. torn \subseteq torn'
  BY DEF FlushOf, FlushSnapshots, FlushCommits, adminVars
<1>4. OneOperation'
  BY <1>2, <1>3 DEF Protocol, OneOperation, Active
<1>5. flushPc \in [Flushers -> {"idle", "write", "clear"}]
      /\ snap \in [Flushers -> Snapshots]
  BY <1>1, SnapType DEF PersistTypeOK
<1>6. \A a \in Admins : Active(a) => op[a].t \in Tokens
  BY OpsFacts DEF AdminBase, AdminTypeOK
<1>7. CASE FlushSnapshots(f)
  <2>1. /\ flushPc' = [flushPc EXCEPT ![f] = "write"]
        /\ snap' = [snap EXCEPT ![f] = [t \in dirty \cap tokens |-> Content(t)]]
        /\ dirty' = dirty /\ row' = row
        /\ torn' = torn \cup {t \in dirty : Busy(t)}
    BY <1>7 DEF FlushSnapshots, TakeSnapshots, managerVars
  <2>2. /\ snap'[f] = [t \in dirty \cap tokens |-> Content(t)]
        /\ \A g \in Flushers \ {f} : snap'[g] = snap[g]
        /\ flushPc'[f] = "write" /\ \A g \in Flushers \ {f} : flushPc'[g] = flushPc[g]
    BY <1>5, <2>1
  <2>3. /\ DOMAIN snap'[f] = dirty \cap tokens
        /\ \A t \in DOMAIN snap'[f] : snap'[f][t] = Content(t)
    BY <2>2
  <2>4. NoFlushOfBusy'
    BY <1>2, <2>1, <2>2, <2>3 DEF Protocol, NoFlushOfBusy, Active, Busy
  <2>5. \A a \in Admins : OpOK(a)'
    BY <1>2, <1>6, <2>1 DEF Protocol, OpOK, Active
  <2>6. \A t \in Tokens : RestOK(t)'
    BY <1>2, <2>1, <2>2, <2>3 DEF Protocol, RestOK, Busy
  <2> QED
    BY <1>4, <2>4, <2>5, <2>6 DEF Protocol
<1>8. CASE FlushCommits(f)
  <2>1. /\ flushPc[f] = "write" /\ flushPc' = [flushPc EXCEPT ![f] = "clear"]
        /\ row' = [t \in Tokens |-> IF t \in DOMAIN snap[f] \cap rows THEN snap[f][t] ELSE row[t]]
        /\ UNCHANGED <<snap, dirty, torn>>
    BY <1>8 DEF FlushCommits, managerVars, adminVars
  <2>2. NoFlushOfBusy'
    BY <1>2, <2>1 DEF Protocol, NoFlushOfBusy, Active
  <2>3. ASSUME NEW a \in Admins PROVE OpOK(a)'
    <3>1. Active(a) /\ op[a].t \notin torn => row'[op[a].t] = row[op[a].t]
      BY <1>6, <2>1 DEF Protocol, NoFlushOfBusy
    <3>2. OpOK(a)
      BY DEF Protocol
    <3> QED
      BY <1>2, <1>6, <2>1, <3>1, <3>2 DEF OpOK, Active
  <2>4. ASSUME NEW t \in Tokens PROVE RestOK(t)'
    <3>1. RestOK(t)
      BY DEF Protocol
    <3>2. ~Busy(t) /\ t \notin torn /\ t \in tokens =>
            row'[t] = row[t] \/ row'[t] = Content(t)
      BY <2>1, <3>1 DEF RestOK
    <3>3. t \in DOMAIN snap[f] /\ ~Busy(t) /\ t \notin torn /\ t \in tokens =>
            row'[t] = Content(t)
      BY <2>1, <3>1 DEF RestOK
    <3>4. \A g \in Flushers \ {f} : flushPc'[g] = flushPc[g]
      BY <1>5, <2>1
    <3> QED
      BY <1>2, <2>1, <3>1, <3>2, <3>3, <3>4 DEF RestOK, Busy
  <2> QED
    BY <1>4, <2>2, <2>3, <2>4 DEF Protocol
<1>9. CASE (RollBack(f) \/ ClearDirty(f)) /\ UNCHANGED adminVars
  <2>1. /\ snap' = [snap EXCEPT ![f] = NoSnapshots]
        /\ flushPc' = [flushPc EXCEPT ![f] = "idle"]
        /\ row' = row /\ torn' = torn
        /\ \/ dirty' = dirty
           \/ flushPc[f] = "clear" /\ dirty' = dirty \ DOMAIN snap[f]
    BY <1>9 DEF RollBack, ClearDirty, FlushEnds, adminVars, managerVars
  <2>2. /\ DOMAIN snap'[f] = {} /\ \A g \in Flushers \ {f} : snap'[g] = snap[g]
        /\ \A g \in Flushers \ {f} : flushPc'[g] = flushPc[g]
    BY <1>5, <2>1 DEF NoSnapshots
  <2>3. NoFlushOfBusy'
    BY <1>2, <2>1, <2>2 DEF Protocol, NoFlushOfBusy, Active
  <2>4. \A a \in Admins : OpOK(a)'
    BY <1>2, <1>6, <2>1 DEF Protocol, OpOK, NoFlushOfBusy, Active
  <2>5. \A t \in Tokens : RestOK(t)'
    BY <1>2, <2>1, <2>2 DEF Protocol, RestOK, Busy
  <2> QED
    BY <1>4, <2>3, <2>4, <2>5 DEF Protocol
<1> QED
  BY <1>7, <1>8, <1>9 DEF FlushOf

-----------------------------------------------------------------------------
(* The steps of the administrators. *)

(* The steps of one operation on one token.                                *)
StepOf(a, t) ==
  \/ \E want \in Updates : UpdateReads(a, t, want) \/ BatchUpdates(a, t, want)
  \/ DeleteRow(a, t) \/ BatchEnablesNsfw(a, t)
  \/ \E st \in {"active", "disabled"} : ImportRow(a, t, st)
  \/ Administer(a) /\ op[a].t = t

(* The form they have in common: only t changes, and the overlaps with     *)
(* other operations and with flushes are noted at the beginning.           *)
AdminMoves(a, t) ==
  /\ \A b \in Admins \ {a} : op'[b] = op[b]
  /\ \A u \in Tokens \ {t} :
       /\ row'[u] = row[u] /\ Content(u)' = Content(u)
       /\ u \in rows' <=> u \in rows
       /\ u \in tokens' <=> u \in tokens
       /\ u \in dirty' <=> u \in dirty
       /\ u \in torn' <=> u \in torn
  /\ torn \subseteq torn'
  /\ UNCHANGED <<flushPc, snap>>
  /\ Active(a)' => op'[a].t = t
  /\ Active(a) => op[a].t = t
  /\ ~Active(a) /\ (Busy(t) \/ Flushing(t)) => t \in torn'
  /\ t \notin torn' => IF Active(a)' THEN OpOK(a)' ELSE RestOK(t)'

(* A step of this form keeps the agreement of all tokens: the others are   *)
(* untouched, and t is torn or as its stage says.                          *)
LEMMA AdminProtocol ==
  ASSUME AdminBase, Protocol, NEW a \in Admins, NEW t \in Tokens, AdminMoves(a, t)
  PROVE  Protocol'
<1>0. \A b \in Admins : Active(b) => op[b].t \in Tokens
  BY OpsFacts DEF AdminBase, AdminTypeOK
<1>1. \A b \in Admins \ {a} : op'[b] = op[b] /\ (Active(b)' <=> Active(b))
  BY DEF AdminMoves, Active
<1>2. \A b \in Admins \ {a} : Active(b) /\ op[b].t = t => t \in torn'
  <2> SUFFICES ASSUME NEW b \in Admins \ {a}, Active(b), op[b].t = t
               PROVE  t \in torn'
    OBVIOUS
  <2>1. CASE Active(a)
    BY <2>1 DEF Protocol, OneOperation, AdminMoves
  <2>2. CASE ~Active(a)
    BY <2>2 DEF AdminMoves, Busy, Active
  <2> QED
    BY <2>1, <2>2
<1>3. OneOperation'
  <2> SUFFICES ASSUME NEW b \in Admins, NEW c \in Admins, b # c, Active(b)', Active(c)',
                      op'[b].t = op'[c].t
               PROVE  op'[b].t \in torn'
    BY DEF OneOperation, Active
  <2>1. CASE b = a \/ c = a
    BY <1>1, <1>2, <2>1 DEF AdminMoves
  <2>2. CASE b # a /\ c # a
    BY <1>1, <2>2 DEF AdminMoves, Protocol, OneOperation
  <2> QED
    BY <2>1, <2>2
<1>4. NoFlushOfBusy'
  <2> SUFFICES ASSUME NEW b \in Admins, NEW f \in Flushers, Active(b)', op'[b].t \in DOMAIN snap[f]
               PROVE  op'[b].t \in torn'
    BY DEF NoFlushOfBusy, Active, AdminMoves
  <2>1. CASE b # a
    BY <1>1, <2>1 DEF AdminMoves, Protocol, NoFlushOfBusy
  <2>2. CASE b = a
    <3>1. op'[b].t = t
      BY <2>2 DEF AdminMoves
    <3>2. CASE Active(a)
      BY <3>1, <3>2 DEF AdminMoves, Protocol, NoFlushOfBusy
    <3>3. CASE ~Active(a)
      BY <3>1, <3>3 DEF AdminMoves, Flushing
    <3> QED
      BY <3>2, <3>3
  <2> QED
    BY <2>1, <2>2
<1>5. ASSUME NEW b \in Admins PROVE OpOK(b)'
  <2>1. CASE b = a
    <3>1. Active(a)' => op'[a].t = t
      BY DEF AdminMoves
    <3>2. CASE ~Active(a)' \/ t \in torn'
      BY <2>1, <3>1, <3>2 DEF OpOK, Active
    <3>3. CASE Active(a)' /\ t \notin torn'
      BY <2>1, <3>3 DEF AdminMoves
    <3> QED
      BY <3>2, <3>3
  <2>2. CASE b # a /\ ~Active(b)
    BY <1>1, <2>2 DEF OpOK, Active
  <2>3. CASE b # a /\ Active(b) /\ op[b].t = t
    BY <1>1, <1>2, <2>3 DEF OpOK
  <2>4. CASE b # a /\ Active(b) /\ op[b].t # t
    <3>1. op'[b] = op[b] /\ Active(b) /\ Active(b)'
      BY <1>1, <2>4
    <3>2. PICK u \in Tokens \ {t} : u = op[b].t
      BY <1>0, <2>4
    <3>3. /\ row'[u] = row[u] /\ Content(u)' = Content(u)
          /\ u \in rows' <=> u \in rows
          /\ u \in tokens' <=> u \in tokens
          /\ u \in dirty' <=> u \in dirty
          /\ u \in torn' <=> u \in torn
      BY DEF AdminMoves
    <3>4. OpOK(b)
      BY DEF Protocol
    <3> QED
      BY <3>1, <3>2, <3>3, <3>4 DEF OpOK
  <2> QED
    BY <2>1, <2>2, <2>3, <2>4
<1>6. ASSUME NEW u \in Tokens PROVE RestOK(u)'
  <2>1. CASE u # t
    <3>1. /\ row'[u] = row[u] /\ Content(u)' = Content(u)
          /\ u \in rows' <=> u \in rows
          /\ u \in tokens' <=> u \in tokens
          /\ u \in dirty' <=> u \in dirty
          /\ u \in torn' <=> u \in torn
          /\ UNCHANGED <<flushPc, snap>>
      BY <2>1 DEF AdminMoves
    <3>2. Busy(u) => Busy(u)'
      <4>1. ASSUME NEW b \in Admins, Active(b), op[b].t = u PROVE Active(b)' /\ op'[b].t = u
        BY <1>1, <2>1, <4>1 DEF AdminMoves
      <4> QED
        BY <4>1 DEF Busy, Active
    <3>3. RestOK(u)
      BY DEF Protocol
    <3> QED
      BY <3>1, <3>2, <3>3 DEF RestOK
  <2>2. CASE u = t
    <3>1. CASE t \in torn'
      BY <2>2, <3>1 DEF RestOK
    <3>2. CASE Active(a)' /\ t \notin torn'
      <4>1. Busy(t)'
        BY <3>2 DEF AdminMoves, Busy, Active
      <4> QED
        BY <2>2, <4>1 DEF RestOK
    <3>3. CASE ~Active(a)' /\ t \notin torn'
      BY <2>2, <3>3 DEF AdminMoves
    <3> QED
      BY <3>1, <3>2, <3>3
  <2> QED
    BY <2>1, <2>2
<1> QED
  BY <1>3, <1>4, <1>5, <1>6 DEF Protocol

(* The state an operation starts from, if it overlaps with nothing. *)
LEMMA FreshStart ==
  ASSUME Protocol, NEW t \in Tokens, ~Busy(t), ~Flushing(t), t \notin torn
  PROVE  /\ t \in tokens <=> t \in rows
         /\ t \in tokens /\ t \notin dirty => row[t] = Content(t)
BY DEF Protocol, RestOK

(* ... and the state it leaves. *)
LEMMA CleanEnd ==
  ASSUME Protocol, NEW a \in Admins, NEW t \in Tokens, Active(a), op[a].t = t,
         UNCHANGED <<flushPc, snap>>, t \notin torn,
         t \in tokens' <=> t \in rows',
         t \in tokens' /\ t \notin dirty' => row'[t] = Content(t)'
  PROVE  RestOK(t)'
<1>1. \A f \in Flushers : t \notin DOMAIN snap[f]
  BY DEF Protocol, NoFlushOfBusy
<1> QED
  BY <1>1 DEF RestOK

(* The steps that only change the database. *)
LEMMA DatabaseStep ==
  ASSUME AdminIInv, NEW a \in Admins, NEW t \in Tokens,
         UNCHANGED <<managerVars, flushVars, touched, late, using, reset>>,
         row' \in [Tokens -> Rows], \A u \in Tokens \ {t} : row'[u] = row[u], Within(row'[t]),
         rows' \subseteq ever', ever \subseteq ever', ever' \subseteq Tokens, torn' \subseteq Tokens,
         OpsType', \A b \in Admins \ {a} : op'[b] = op[b],
         op'[a].pc \in WithData => Within(op'[a].data)
  PROVE  /\ AdminBase' /\ AllWithin' /\ Counts'
         /\ UNCHANGED <<tokens, dirty, flushPc, snap>>
         /\ \A u \in Tokens : Content(u)' = Content(u)
<1>1. /\ UNCHANGED <<tokens, dirty, inflight, flushPc, snap, touched, late, using, reset>>
      /\ \A u \in Tokens : Content(u)' = Content(u)
  BY DEF managerVars, flushVars, Content
<1>2. ManagerTypeOK'
  BY StutterType DEF AdminIInv, AdminBase, AdminTypeOK, PersistTypeOK
<1>3. PersistTypeOK'
  BY <1>1, <1>2 DEF AdminIInv, AdminBase, AdminTypeOK, PersistTypeOK
<1>4. \A b \in Admins : op'[b].pc \in {"idle", "done", "save", "sync", "remove", "add", "drop"}
  BY DEF OpsType, OpStates, NoOp, Done, Stages
<1>5. AdminTypeOK'
  BY <1>1, <1>3, <1>4 DEF AdminIInv, AdminBase, AdminTypeOK
<1>6. AdminBase'
  BY <1>1, <1>5 DEF AdminIInv, AdminBase
<1>7. \A u \in Tokens : Within(row'[u]) /\ Within(Content(u))'
  BY <1>1 DEF AdminIInv, AllWithin, Within
<1>8. \A b \in Admins : op'[b].pc \in WithData => Within(op'[b].data)
  BY DEF AdminIInv, AllWithin
<1>9. AllWithin'
  BY <1>1, <1>7, <1>8 DEF AdminIInv, AllWithin, Within
<1>10. Counts'
  BY <1>1 DEF AdminIInv, Counts
<1> QED
  BY <1>1, <1>6, <1>9, <1>10

(* What is shown of each step of an operation.                             *)
AdminOK == AdminBase' /\ AllWithin' /\ Counts' /\ Protocol'

(* What a proof about a step starts from. *)
LEMMA AdminParts ==
  ASSUME AdminIInv
  PROVE  /\ ManagerTypeOK /\ PersistTypeOK /\ row \in [Tokens -> Rows] /\ dirty \subseteq tokens
         /\ OpsType /\ Protocol /\ tokens \subseteq ever
         /\ rows \subseteq ever /\ ever \subseteq Tokens /\ torn \subseteq Tokens
         /\ \A u \in Tokens : Within(row[u])
         /\ \A a \in Admins : op[a].pc \in WithData => Within(op[a].data)
BY DEF AdminIInv, AdminBase, AdminTypeOK, PersistTypeOK, AllWithin

(* The status column of one row. *)
LEMMA StatusColumn ==
  ASSUME row \in [Tokens -> Rows], NEW t \in Tokens, NEW s \in Statuses,
         row' = [row EXCEPT ![t].status = s]
  PROVE  /\ row' \in [Tokens -> Rows] /\ \A u \in Tokens \ {t} : row'[u] = row[u]
         /\ row'[t].status = s
         /\ Within(row[t]) => Within(row'[t])
<1> DEFINE n == [row[t] EXCEPT !.status = s]
<1>1. row' = [row EXCEPT ![t] = n]
  OBVIOUS
<1>2. n \in Rows /\ n.status = s /\ n.limit = row[t].limit /\ n.quota = row[t].quota
  BY DEF Rows
<1> HIDE DEF n
<1>3. /\ row' \in [Tokens -> Rows] /\ \A u \in Tokens \ {t} : row'[u] = row[u]
      /\ row'[t] = n
  BY <1>1, <1>2
<1> QED
  BY <1>2, <1>3 DEF Within

(* A beginning notes every overlap. *)
LEMMA BeginFacts ==
  ASSUME NEW a, NEW t, NEW o, Begin(a, t, o)
  PROVE  /\ ~Active(a) /\ op' = [op EXCEPT ![a] = o]
         /\ torn \subseteq torn' /\ torn' \subseteq torn \cup {t}
         /\ t \notin torn' => ~Busy(t) /\ ~Flushing(t) /\ t \notin torn
         /\ Busy(t) \/ Flushing(t) => t \in torn'
BY DEF Begin, Active

(* An update starts with the row it reads.                                 *)
LEMMA UpdateReadsStep ==
  ASSUME AdminIInv, NEW a \in Admins, NEW t \in Tokens, NEW want \in Updates,
         UpdateReads(a, t, want)
  PROVE  AdminOK
<1>0. AdminIInv /\ want \in Wants /\ "save" \in Stages /\ row[t] \in Rows
  BY AdminParts DEF Wants, Stages
<1>1. /\ t \in rows /\ Begin(a, t, Operation("save", t, want, row[t]))
      /\ UNCHANGED <<persistVars, rows, ever, using, reset>>
  BY DEF UpdateReads
<1>2. /\ OpsType'
      /\ op'[a].pc = "save" /\ op'[a].t = t /\ op'[a].want = want /\ op'[a].data = row[t]
      /\ \A b \in Admins \ {a} : op'[b] = op[b]
  BY <1>0, <1>1, AdminParts, BeginFacts, OpBegins
<1>3. /\ UNCHANGED <<row, managerVars, flushVars, touched, late, using, reset, rows, ever>>
      /\ torn' \subseteq Tokens
  BY <1>1, BeginFacts, AdminParts DEF persistVars
<1>4. /\ AdminBase' /\ AllWithin' /\ Counts'
      /\ UNCHANGED <<tokens, dirty, flushPc, snap>>
      /\ \A u \in Tokens : Content(u)' = Content(u)
  BY <1>2, <1>3, AdminParts, DatabaseStep
<1>5. t \notin torn' => OpOK(a)'
  BY <1>1, <1>2, <1>3, <1>4, AdminParts, BeginFacts, FreshStart DEF OpOK, WithData
<1>6. AdminMoves(a, t)
  BY <1>1, <1>2, <1>3, <1>4, <1>5, BeginFacts DEF AdminMoves, Active
<1> QED
  BY <1>4, <1>6, AdminParts, AdminProtocol DEF AdminOK, AdminIInv

(* The status column is changed: the row has the status asked for from     *)
(* here on.                                                                *)
LEMMA BatchUpdatesStep ==
  ASSUME AdminIInv, NEW a \in Admins, NEW t \in Tokens, NEW want \in Wants,
         BatchUpdates(a, t, want)
  PROVE  AdminOK
<1> DEFINE s == IF want.status = "keep" THEN row[t].status ELSE want.status
<1>0. "sync" \in Stages /\ row[t] \in Rows /\ s \in Statuses
  BY AdminParts, WantFacts DEF Stages, Rows
<1>1. /\ t \in rows /\ Begin(a, t, Operation("sync", t, want, NoRow))
      /\ row' = [row EXCEPT ![t].status = s]
      /\ UNCHANGED <<managerVars, flushVars, touched, late, rows, ever, using, reset>>
  BY AdminParts DEF BatchUpdates
<1>2. /\ OpsType'
      /\ op'[a].pc = "sync" /\ op'[a].t = t /\ op'[a].want = want
      /\ \A b \in Admins \ {a} : op'[b] = op[b]
  BY <1>0, <1>1, AdminParts, BeginFacts, OpBegins DEF WithData
<1>3. /\ row' \in [Tokens -> Rows] /\ \A u \in Tokens \ {t} : row'[u] = row[u]
      /\ row'[t].status = s /\ Within(row'[t])
      /\ torn' \subseteq Tokens
  <2> HIDE DEF s
  <2>1. row \in [Tokens -> Rows] /\ Within(row[t]) /\ row' = [row EXCEPT ![t].status = s]
    BY <1>1, AdminParts
  <2>2. torn' \subseteq Tokens
    BY <1>1, AdminParts, BeginFacts
  <2> QED
    BY <1>0, <2>1, <2>2, StatusColumn
<1>4. /\ AdminBase' /\ AllWithin' /\ Counts'
      /\ UNCHANGED <<tokens, dirty, flushPc, snap>>
      /\ \A u \in Tokens : Content(u)' = Content(u)
  BY <1>1, <1>2, <1>3, AdminParts, DatabaseStep DEF WithData
<1>5. t \notin torn' => OpOK(a)'
  BY <1>1, <1>2, <1>3, <1>4, AdminParts, BeginFacts, FreshStart DEF OpOK, WithData
<1>6. AdminMoves(a, t)
  BY <1>1, <1>2, <1>3, <1>4, <1>5, BeginFacts DEF AdminMoves, Active
<1> QED
  BY <1>4, <1>6, AdminParts, AdminProtocol DEF AdminOK, AdminIInv

(* The row goes first: the pool has the token without a row.               *)
LEMMA DeleteRowStep ==
  ASSUME AdminIInv, NEW a \in Admins, NEW t \in Tokens, DeleteRow(a, t)
  PROVE  AdminOK
<1>0. "drop" \in Stages /\ NoChange \in Wants
  BY DEF Stages, Wants
<1>1. /\ t \in rows /\ rows' = rows \ {t} /\ Begin(a, t, Operation("drop", t, NoChange, NoRow))
      /\ UNCHANGED <<managerVars, row, flushVars, touched, late, ever, using, reset>>
  BY DEF DeleteRow, persistVars
<1>2. /\ OpsType'
      /\ op'[a].pc = "drop" /\ op'[a].t = t
      /\ \A b \in Admins \ {a} : op'[b] = op[b]
  BY <1>0, <1>1, AdminParts, BeginFacts, OpBegins DEF WithData
<1>3. torn' \subseteq Tokens
  BY <1>1, BeginFacts, AdminParts
<1>4. /\ AdminBase' /\ AllWithin' /\ Counts'
      /\ UNCHANGED <<tokens, dirty, flushPc, snap>>
      /\ \A u \in Tokens : Content(u)' = Content(u)
  BY <1>1, <1>2, <1>3, AdminParts, DatabaseStep DEF WithData
<1>5. t \notin torn' => OpOK(a)'
  BY <1>1, <1>2 DEF OpOK, WithData
<1>6. AdminMoves(a, t)
  BY <1>1, <1>2, <1>3, <1>4, <1>5, BeginFacts DEF AdminMoves, Active
<1> QED
  BY <1>4, <1>6, AdminParts, AdminProtocol DEF AdminOK, AdminIInv

(* A new ID: no row, no snapshot and no operation was about it.            *)
LEMMA ImportRowStep ==
  ASSUME AdminIInv, NEW a \in Admins, NEW t \in Tokens, NEW s \in {"active", "disabled"},
         ImportRow(a, t, s)
  PROVE  AdminOK
<1>0. "add" \in Stages /\ NoChange \in Wants /\ s \in Statuses /\ NoChange.status = "keep"
  BY DEF Stages, Wants, NoChange, Statuses
<1>1. /\ t \notin ever /\ ever' = ever \cup {t} /\ rows' = rows \cup {t}
      /\ row' = [row EXCEPT ![t].status = s]
      /\ Begin(a, t, Operation("add", t, NoChange, row'[t]))
      /\ UNCHANGED <<managerVars, flushVars, touched, late, using, reset>>
  BY DEF ImportRow
<1>2. /\ row' \in [Tokens -> Rows] /\ \A u \in Tokens \ {t} : row'[u] = row[u]
      /\ Within(row'[t]) /\ torn' \subseteq Tokens
  <2>1. row \in [Tokens -> Rows] /\ Within(row[t]) /\ row' = [row EXCEPT ![t].status = s]
    BY <1>1, AdminParts
  <2>2. torn' \subseteq Tokens
    BY <1>1, AdminParts, BeginFacts
  <2> QED
    BY <1>0, <2>1, <2>2, StatusColumn
<1>3. /\ OpsType'
      /\ op'[a].pc = "add" /\ op'[a].t = t /\ op'[a].want = NoChange /\ op'[a].data = row'[t]
      /\ \A b \in Admins \ {a} : op'[b] = op[b]
  <2>1. row'[t] \in Rows /\ op' = [op EXCEPT ![a] = Operation("add", t, NoChange, row'[t])]
    BY <1>1, <1>2, BeginFacts
  <2> QED
    BY <1>0, <1>1, <2>1, AdminParts, OpBegins
<1>4. /\ AdminBase' /\ AllWithin' /\ Counts'
      /\ UNCHANGED <<tokens, dirty, flushPc, snap>>
      /\ \A u \in Tokens : Content(u)' = Content(u)
  BY <1>1, <1>2, <1>3, AdminParts, DatabaseStep
<1>5. t \notin torn' => OpOK(a)'
  BY <1>0, <1>1, <1>2, <1>3, <1>4, AdminParts DEF OpOK, WithData
<1>6. AdminMoves(a, t)
  BY <1>1, <1>2, <1>3, <1>4, <1>5, BeginFacts DEF AdminMoves, Active
<1> QED
  BY <1>4, <1>6, AdminParts, AdminProtocol DEF AdminOK, AdminIInv

(* What an operation under way relies on. *)
LEMMA Underway ==
  ASSUME AdminIInv, NEW a \in Admins, NEW p \in Stages, op[a].pc = p
  PROVE  /\ Active(a) /\ op[a].t \in Tokens /\ op[a].t \in ever /\ op[a].want \in Wants
         /\ p \in WithData => op[a].data \in Rows /\ Within(op[a].data)
         /\ OpOK(a)
BY OpsFacts, AdminParts DEF Active, Stages, Protocol

(* A refused update has changed nothing.                                   *)
LEMMA UpdateRefusedStep ==
  ASSUME AdminIInv, NEW a \in Admins, NEW t \in Tokens, op[a].t = t, UpdateRefused(a)
  PROVE  AdminOK
<1>0. op[a].pc = "save" /\ "save" \in Stages
  BY DEF UpdateRefused, Stages
<1>1. Active(a) /\ OpOK(a)
  BY <1>0, Underway
<1>2. /\ op' = [op EXCEPT ![a] = Done]
      /\ UNCHANGED <<managerVars, row, flushVars, touched, late, rows, ever, using, torn, reset>>
  BY DEF UpdateRefused, End, persistVars
<1>3. OpsType' /\ op'[a].pc = "done" /\ \A b \in Admins \ {a} : op'[b] = op[b]
  BY <1>2, AdminParts, OpEnds
<1>4. /\ AdminBase' /\ AllWithin' /\ Counts'
      /\ UNCHANGED <<tokens, dirty, flushPc, snap>>
      /\ \A u \in Tokens : Content(u)' = Content(u)
  BY <1>2, <1>3, AdminParts, DatabaseStep DEF WithData
<1>5. t \notin torn => RestOK(t)'
  BY <1>0, <1>1, <1>2, <1>4, AdminParts, CleanEnd DEF OpOK
<1>6. AdminMoves(a, t)
  BY <1>1, <1>2, <1>3, <1>4, <1>5 DEF AdminMoves, Active
<1> QED
  BY <1>4, <1>6, AdminParts, AdminProtocol DEF AdminOK, AdminIInv

(* The edited row is stored; whatever was dirty is overwritten in the row  *)
(* and read back next.                                                     *)
LEMMA UpdateSavesStep ==
  ASSUME AdminIInv, NEW a \in Admins, NEW t \in Tokens, op[a].t = t, UpdateSaves(a)
  PROVE  AdminOK
<1>0. op[a].pc = "save" /\ "save" \in Stages /\ "sync" \in Stages /\ "save" \in WithData
  BY DEF UpdateSaves, Stages, WithData
<1>1. /\ Active(a) /\ OpOK(a) /\ t \in ever /\ op[a].want \in Wants
      /\ op[a].data \in Rows /\ Within(op[a].data)
  BY <1>0, Underway
<1> DEFINE new == Edited(op[a].want, op[a].data)
<1>2. /\ row' = [row EXCEPT ![t] = new]
      /\ rows' = rows \cup {t} /\ op' = [op EXCEPT ![a].pc = "sync", ![a].data = NoRow]
      /\ UNCHANGED <<managerVars, flushVars, touched, late, ever, using, torn, reset>>
  BY DEF UpdateSaves, Step
<1>3. /\ new \in Rows /\ Within(new)
      /\ op[a].want.status # "keep" => new.status = op[a].want.status
  BY <1>1, EditedFacts DEF UpdateSaves
<1> HIDE DEF new
<1>4. /\ row' \in [Tokens -> Rows] /\ \A u \in Tokens \ {t} : row'[u] = row[u]
      /\ row'[t] = new
  BY <1>2, <1>3, AdminParts
<1>5. /\ OpsType' /\ op'[a].pc = "sync" /\ op'[a].t = t /\ op'[a].want = op[a].want
      /\ \A b \in Admins \ {a} : op'[b] = op[b]
  <2>1. "sync" \notin WithData /\ NoRow \in Rows \cup {NoRow}
    BY DEF WithData
  <2>2. OpsType /\ ever \subseteq Tokens /\ ever \subseteq ever'
        /\ op' = [op EXCEPT ![a].pc = "sync", ![a].data = NoRow]
    BY <1>2, AdminParts
  <2> QED
    BY <1>0, <1>1, <2>1, <2>2, OpGoesOn
<1>6. /\ AdminBase' /\ AllWithin' /\ Counts'
      /\ UNCHANGED <<tokens, dirty, flushPc, snap>>
      /\ \A u \in Tokens : Content(u)' = Content(u)
  <2>1. op'[a].pc \notin WithData /\ rows' \subseteq ever' /\ ever' = ever /\ ever' \subseteq Tokens
        /\ torn' \subseteq Tokens
    BY <1>1, <1>2, <1>5, AdminParts DEF WithData
  <2> QED
    BY <1>2, <1>3, <1>4, <1>5, <2>1, DatabaseStep
<1>7. t \notin torn => OpOK(a)'
  BY <1>0, <1>1, <1>2, <1>3, <1>4, <1>5, <1>6 DEF OpOK, WithData
<1>8. AdminMoves(a, t)
  BY <1>1, <1>2, <1>4, <1>5, <1>6, <1>7 DEF AdminMoves, Active
<1> QED
  BY <1>6, <1>8, AdminParts, AdminProtocol DEF AdminOK, AdminIInv

(* The row is read: it is the stored one until the token is back.          *)
LEMMA SyncReadsStep ==
  ASSUME AdminIInv, NEW a \in Admins, NEW t \in Tokens, op[a].t = t, SyncReads(a)
  PROVE  AdminOK
<1>0. op[a].pc = "sync" /\ "sync" \in Stages /\ "remove" \in Stages
  BY DEF SyncReads, Stages
<1>1. Active(a) /\ OpOK(a) /\ row[t] \in Rows
  BY <1>0, Underway, AdminParts
<1>2. /\ op' = [op EXCEPT ![a].pc = "remove", ![a].data = row[t]] /\ t \in rows
      /\ UNCHANGED <<managerVars, row, flushVars, touched, late, rows, ever, using, torn, reset>>
  BY DEF SyncReads, persistVars
<1>3. /\ OpsType' /\ op'[a].pc = "remove" /\ op'[a].t = t /\ op'[a].want = op[a].want
      /\ op'[a].data = row[t]
      /\ \A b \in Admins \ {a} : op'[b] = op[b]
  <2> PICK d \in Rows : d = row[t]
    BY <1>1
  <2>1. d \in Rows \cup {NoRow} /\ ("remove" \in WithData => d \in Rows)
    OBVIOUS
  <2>2. OpsType /\ ever \subseteq Tokens /\ ever \subseteq ever'
        /\ op' = [op EXCEPT ![a].pc = "remove", ![a].data = d]
    BY <1>2, AdminParts
  <2>3. /\ OpsType' /\ op'[a].pc = "remove" /\ op'[a].t = op[a].t /\ op'[a].want = op[a].want
        /\ op'[a].data = d
        /\ \A b \in Admins \ {a} : op'[b] = op[b]
    BY <1>0, <1>1, <2>1, <2>2, OpGoesOn
  <2> QED
    BY <2>3
<1>4. /\ AdminBase' /\ AllWithin' /\ Counts'
      /\ UNCHANGED <<tokens, dirty, flushPc, snap>>
      /\ \A u \in Tokens : Content(u)' = Content(u)
  BY <1>2, <1>3, AdminParts, DatabaseStep
<1>5. t \notin torn => OpOK(a)'
  BY <1>0, <1>1, <1>2, <1>3, <1>4 DEF OpOK, WithData
<1>6. AdminMoves(a, t)
  BY <1>1, <1>2, <1>3, <1>4, <1>5 DEF AdminMoves, Active
<1> QED
  BY <1>4, <1>6, AdminParts, AdminProtocol DEF AdminOK, AdminIInv

(* The operation is cut short: the token is torn.                          *)
LEMMA SyncFailsStep ==
  ASSUME AdminIInv, NEW a \in Admins, NEW t \in Tokens, op[a].t = t, SyncFails(a)
  PROVE  AdminOK
<1>0. op[a].pc = "sync" /\ "sync" \in Stages
  BY DEF SyncFails, Stages
<1>1. Active(a)
  BY <1>0, Underway
<1>2. /\ op' = [op EXCEPT ![a] = Done] /\ torn' = torn \cup {t}
      /\ UNCHANGED <<managerVars, row, flushVars, touched, late, rows, ever, using, reset>>
  BY DEF SyncFails, End, persistVars
<1>3. OpsType' /\ op'[a].pc = "done" /\ \A b \in Admins \ {a} : op'[b] = op[b]
  BY <1>2, AdminParts, OpEnds
<1>4. /\ AdminBase' /\ AllWithin' /\ Counts'
      /\ UNCHANGED <<tokens, dirty, flushPc, snap>>
      /\ \A u \in Tokens : Content(u)' = Content(u)
  <2>1. torn' \subseteq Tokens /\ op'[a].pc \notin WithData
    BY <1>2, <1>3, AdminParts DEF WithData
  <2> QED
    BY <1>2, <1>3, <2>1, AdminParts, DatabaseStep
<1>5. AdminMoves(a, t)
  BY <1>1, <1>2, <1>3, <1>4 DEF AdminMoves, Active
<1> QED
  BY <1>4, <1>5, AdminParts, AdminProtocol DEF AdminOK, AdminIInv

(* The steps that only change the manager. *)
LEMMA ManagerStep ==
  ASSUME AdminIInv, NEW a \in Admins, NEW t \in Tokens,
         ManagerTypeOK', dirty' \subseteq tokens', tokens' \subseteq ever,
         UNCHANGED <<row, flushVars, touched, late, rows, ever, using, torn>>,
         reset' = reset \/ (reset' = reset \cup {t}),
         OpsType', \A b \in Admins \ {a} : op'[b] = op[b],
         op'[a].pc \in WithData => Within(op'[a].data),
         \A u \in Tokens : Within(Content(u)'),
         \A u \in Tokens : inflight'[u] <= inflight[u],
         \A u \in Tokens \ {t} : inflight'[u] = inflight[u],
         inflight'[t] = inflight[t] \/ using[t] = 0 \/ t \in reset'
  PROVE  /\ AdminBase' /\ AllWithin' /\ Counts'
         /\ UNCHANGED <<row, rows, torn, flushPc, snap>>
<1>1. /\ UNCHANGED <<row, flushPc, snap, touched, late, rows, ever, using, torn>>
      /\ reset' \subseteq Tokens
  BY DEF flushVars, AdminIInv, AdminBase, AdminTypeOK
<1>2. PersistTypeOK'
  BY <1>1 DEF AdminIInv, AdminBase, AdminTypeOK, PersistTypeOK
<1>3. \A b \in Admins : op'[b].pc \in {"idle", "done", "save", "sync", "remove", "add", "drop"}
  BY DEF OpsType, OpStates, NoOp, Done, Stages
<1>4. AdminTypeOK'
  BY <1>1, <1>2, <1>3 DEF AdminIInv, AdminBase, AdminTypeOK
<1>5. AdminBase'
  BY <1>1, <1>4 DEF AdminBase
<1>6. \A b \in Admins : op'[b].pc \in WithData => Within(op'[b].data)
  BY DEF AdminIInv, AllWithin
<1>7. AllWithin'
  BY <1>1, <1>6 DEF AdminIInv, AllWithin, Within
<1>8. Counts'
  <2> SUFFICES ASSUME NEW u \in Tokens
               PROVE  /\ MaxInflight > 0 => inflight'[u] <= MaxInflight
                      /\ u \notin reset' => using'[u] <= inflight'[u]
    BY DEF Counts
  <2>1. inflight[u] \in Nat /\ inflight'[u] \in Nat /\ using[u] \in Nat /\ MaxInflight \in Nat
    BY ManagerAssumption, AdminAssumption
    DEF AdminIInv, AdminBase, AdminTypeOK, PersistTypeOK, ManagerTypeOK
  <2>2. /\ MaxInflight > 0 => inflight[u] <= MaxInflight
        /\ u \notin reset => using[u] <= inflight[u]
    BY DEF AdminIInv, Counts
  <2> QED
    BY <1>1, <2>1, <2>2
<1> QED
  BY <1>1, <1>5, <1>7, <1>8

(* Removing a token from the pool, for SyncToken and for RemoveFromPool. *)
LEMMA RemovingStep ==
  ASSUME AdminIInv, NEW a \in Admins, NEW t \in Tokens, RemoveToken(t), NoteReset(t),
         UNCHANGED <<row, flushVars, touched, late, rows, ever, using, torn>>,
         OpsType', \A b \in Admins \ {a} : op'[b] = op[b],
         op'[a].pc \in WithData => Within(op'[a].data)
  PROVE  /\ AdminBase' /\ AllWithin' /\ Counts'
         /\ UNCHANGED <<row, rows, torn, flushPc, snap>>
         /\ tokens' = tokens \ {t} /\ dirty' = dirty \ {t}
         /\ \A u \in Tokens : Content(u)' = Content(u)
<1>1. /\ ManagerTypeOK' /\ tokens' = tokens \ {t} /\ dirty' = dirty \ {t}
      /\ \A u \in Tokens : Content(u)' = Content(u)
      /\ \A u \in Tokens \ {t} : inflight'[u] = inflight[u]
      /\ inflight'[t] <= inflight[t]
  BY AdminParts, RemovedFacts
<1>2. /\ dirty' \subseteq tokens' /\ tokens' \subseteq ever
      /\ \A u \in Tokens : Within(Content(u)')
  BY <1>1, AdminParts DEF AdminIInv, AllWithin
<1>3. \A u \in Tokens : inflight'[u] <= inflight[u]
  <2> SUFFICES ASSUME NEW u \in Tokens PROVE inflight'[u] <= inflight[u]
    OBVIOUS
  <2>1. ManagerTypeOK
    BY AdminParts
  <2>2. inflight[u] \in Nat
    BY <2>1, ManagerAssumption DEF ManagerTypeOK
  <2>3. CASE u = t
    BY <1>1, <2>3
  <2>4. CASE u # t
    BY <1>1, <2>2, <2>4
  <2> QED
    BY <2>3, <2>4
<1>4. /\ reset' = reset \/ reset' = reset \cup {t}
      /\ using[t] = 0 \/ t \in reset'
  BY AdminAssumption DEF NoteReset, AdminIInv, AdminBase, AdminTypeOK
<1> QED
  BY <1>1, <1>2, <1>3, <1>4, ManagerStep

(* The token leaves the pool and its count is forgotten.                   *)
LEMMA SyncRemovesStep ==
  ASSUME AdminIInv, NEW a \in Admins, NEW t \in Tokens, op[a].t = t, SyncRemoves(a)
  PROVE  AdminOK
<1>0. op[a].pc = "remove" /\ "remove" \in Stages /\ "add" \in Stages /\ "remove" \in WithData
  BY DEF SyncRemoves, Stages, WithData
<1>1. Active(a) /\ OpOK(a) /\ op[a].data \in Rows /\ Within(op[a].data)
  BY <1>0, Underway
<1>2. /\ RemoveToken(t) /\ NoteReset(t) /\ op' = [op EXCEPT ![a].pc = "add"]
      /\ UNCHANGED <<row, flushVars, touched, late, rows, ever, using, torn>>
  BY DEF SyncRemoves
<1>3. /\ OpsType' /\ op'[a].pc = "add" /\ op'[a].t = t /\ op'[a].want = op[a].want
      /\ op'[a].data = op[a].data
      /\ \A b \in Admins \ {a} : op'[b] = op[b]
  <2>1. op[a] \in [pc : Stages, t : Tokens, want : Wants, data : Rows \cup {NoRow}]
    BY <1>1, AdminParts, OpsFacts
  <2>2. op' = [op EXCEPT ![a].pc = "add", ![a].data = op[a].data]
    <3>1. [op[a] EXCEPT !.pc = "add"] = [op[a] EXCEPT !.pc = "add", !.data = op[a].data]
      BY <2>1
    <3>2. op' = [op EXCEPT ![a] = [op[a] EXCEPT !.pc = "add"]]
      BY <1>2
    <3>3. op' = [op EXCEPT ![a] = [op[a] EXCEPT !.pc = "add", !.data = op[a].data]]
      BY <3>1, <3>2
    <3> QED
      BY <3>3, AdminParts DEF OpsType
  <2> PICK d \in Rows : d = op[a].data
    BY <1>1
  <2>3. /\ Active(a) /\ "add" \in Stages
        /\ d \in Rows \cup {NoRow} /\ ("add" \in WithData => d \in Rows)
    BY <1>0, <1>1
  <2>4. OpsType /\ ever \subseteq Tokens /\ ever \subseteq ever'
        /\ op' = [op EXCEPT ![a].pc = "add", ![a].data = d]
    BY <1>2, <2>2, AdminParts
  <2>5. /\ OpsType' /\ op'[a].pc = "add" /\ op'[a].t = op[a].t /\ op'[a].want = op[a].want
        /\ op'[a].data = d
        /\ \A b \in Admins \ {a} : op'[b] = op[b]
    BY <2>3, <2>4, OpGoesOn
  <2> QED
    BY <2>5
<1>4. /\ AdminBase' /\ AllWithin' /\ Counts'
      /\ UNCHANGED <<row, rows, torn, flushPc, snap>>
      /\ tokens' = tokens \ {t} /\ dirty' = dirty \ {t}
      /\ \A u \in Tokens : Content(u)' = Content(u)
  BY <1>1, <1>2, <1>3, RemovingStep
<1>5. t \notin torn => OpOK(a)'
  BY <1>0, <1>1, <1>3, <1>4 DEF OpOK, WithData
<1>6. AdminMoves(a, t)
  BY <1>1, <1>3, <1>4, <1>5 DEF AdminMoves, Active
<1> QED
  BY <1>4, <1>6, AdminParts, AdminProtocol DEF AdminOK, AdminIInv

(* The token follows its row.                                              *)
LEMMA DropFromPoolStep ==
  ASSUME AdminIInv, NEW a \in Admins, NEW t \in Tokens, op[a].t = t, DropFromPool(a)
  PROVE  AdminOK
<1>0. op[a].pc = "drop" /\ "drop" \in Stages
  BY DEF DropFromPool, Stages
<1>1. Active(a) /\ OpOK(a)
  BY <1>0, Underway
<1>2. /\ RemoveToken(t) /\ NoteReset(t) /\ op' = [op EXCEPT ![a] = Done]
      /\ UNCHANGED <<row, flushVars, touched, late, rows, ever, using, torn>>
  BY DEF DropFromPool, End
<1>3. OpsType' /\ op'[a].pc = "done" /\ \A b \in Admins \ {a} : op'[b] = op[b]
  BY <1>2, AdminParts, OpEnds
<1>4. /\ AdminBase' /\ AllWithin' /\ Counts'
      /\ UNCHANGED <<row, rows, torn, flushPc, snap>>
      /\ tokens' = tokens \ {t} /\ dirty' = dirty \ {t}
      /\ \A u \in Tokens : Content(u)' = Content(u)
  BY <1>2, <1>3, RemovingStep DEF WithData
<1>5. t \notin torn => RestOK(t)'
  BY <1>0, <1>1, <1>4 DEF OpOK, RestOK
<1>6. AdminMoves(a, t)
  BY <1>1, <1>3, <1>4, <1>5 DEF AdminMoves, Active
<1> QED
  BY <1>4, <1>6, AdminParts, AdminProtocol DEF AdminOK, AdminIInv

(* The token is back with the content of its row, and clean.               *)
LEMMA SyncAddsStep ==
  ASSUME AdminIInv, NEW a \in Admins, NEW t \in Tokens, op[a].t = t, SyncAdds(a)
  PROVE  AdminOK
<1>0. op[a].pc = "add" /\ "add" \in Stages /\ "add" \in WithData
  BY DEF SyncAdds, Stages, WithData
<1>1. Active(a) /\ OpOK(a) /\ op[a].data \in Rows /\ Within(op[a].data) /\ t \in ever
  BY <1>0, Underway
<1>2. /\ AddToken(t, op[a].data) /\ op' = [op EXCEPT ![a] = Done]
      /\ UNCHANGED <<row, flushVars, touched, late, rows, ever, using, torn, reset>>
  BY DEF SyncAdds, End
<1>3. OpsType' /\ op'[a].pc = "done" /\ \A b \in Admins \ {a} : op'[b] = op[b]
  BY <1>2, AdminParts, OpEnds
<1>4. /\ ManagerTypeOK' /\ tokens' = tokens \cup {t}
      /\ Content(t)' = op[a].data
      /\ \A u \in Tokens \ {t} : Content(u)' = Content(u)
      /\ dirty' = dirty /\ inflight' = inflight
  BY <1>1, <1>2, AdminParts, AddedFacts
<1>5. /\ AdminBase' /\ AllWithin' /\ Counts'
      /\ UNCHANGED <<row, rows, torn, flushPc, snap>>
  <2>1. \A u \in Tokens : Within(Content(u)')
    BY <1>1, <1>4 DEF AdminIInv, AllWithin
  <2>2. dirty' \subseteq tokens' /\ tokens' \subseteq ever
    BY <1>1, <1>4, AdminParts
  <2>3. \A u \in Tokens : inflight'[u] <= inflight[u] /\ inflight'[u] = inflight[u]
    BY <1>4 DEF ManagerTypeOK, AdminIInv, AdminBase, AdminTypeOK, PersistTypeOK
  <2> QED
    BY <1>2, <1>3, <1>4, <2>1, <2>2, <2>3, ManagerStep DEF WithData
<1>6. t \notin torn => RestOK(t)'
  <2>1. t \notin torn => t \in rows' /\ t \in tokens' /\ row'[t] = Content(t)'
    BY <1>0, <1>1, <1>4, <1>5 DEF OpOK
  <2> QED
    BY <1>1, <1>5, <2>1, AdminParts, CleanEnd
<1>7. AdminMoves(a, t)
  BY <1>1, <1>3, <1>4, <1>5, <1>6 DEF AdminMoves, Active
<1> QED
  BY <1>5, <1>7, AdminParts, AdminProtocol DEF AdminOK, AdminIInv

(* The loaded database is the pool, and nothing is under way.              *)
LEMMA AdminInitially == Init => AdminIInv
<1> SUFFICES ASSUME Init PROVE AdminIInv
  OBVIOUS
<1>1. ManagerTypeOK
  BY ManagerAssumption, AdminAssumption DEF Init, Loaded, ManagerTypeOK, Statuses
<1>2. row \in [Tokens -> Rows] /\ \A t \in Tokens : row[t] = Content(t)
  BY <1>1, ContentIsRow DEF Init, Loaded
<1>3. snap \in [Flushers -> Snapshots] /\ \A f \in Flushers : DOMAIN snap[f] = {}
  BY SnapshotFacts DEF Init, Loaded, NoSnapshots
<1>4. PersistTypeOK
  BY <1>1, <1>2, <1>3, SnapType DEF PersistTypeOK, Init, Loaded
<1>5. \A a \in Admins : op[a] = NoOp /\ op[a].pc = "idle" /\ ~Active(a)
  BY DEF Init, NoOp, Active
<1>6. AdminTypeOK
  BY <1>4, <1>5, AdminAssumption DEF AdminTypeOK, Init
<1>7. OpsType
  BY <1>5 DEF OpsType, OpStates, Init
<1>8. AdminBase
  BY <1>6, <1>7 DEF AdminBase, Init, Loaded
<1>9. AllWithin
  <2>1. \A t \in Tokens : Within(Content(t))
    <3>1. quota = limit
      BY DEF Init, Loaded
    <3>2. \A t \in Tokens, m \in Modes : quota[t][m] <= quota[t][m]
      BY <1>1 DEF ManagerTypeOK
    <3> QED
      BY <3>1, <3>2 DEF Content, Within
  <2>2. \A a \in Admins : op[a].pc \notin WithData
    BY <1>5 DEF WithData
  <2> QED
    BY <1>2, <1>3, <2>1, <2>2 DEF AllWithin
<1>10. Counts
  BY ManagerAssumption DEF Counts, Init, Loaded
<1>11. \A a \in Admins : OpOK(a)
  BY <1>5 DEF OpOK
<1>12. \A t \in Tokens : RestOK(t)
  BY <1>2, <1>3 DEF RestOK, Init, Loaded
<1>13. Protocol
  BY <1>5, <1>11, <1>12 DEF Protocol, OneOperation, NoFlushOfBusy
<1> QED
  BY <1>8, <1>9, <1>10, <1>13 DEF AdminIInv

(* Every step of an operation.                                             *)
LEMMA StepKeepsAdmin ==
  ASSUME AdminIInv, NEW a \in Admins, NEW t \in Tokens, StepOf(a, t)
  PROVE  AdminOK
<1>1. NoChange \in Wants /\ Updates \subseteq Wants
  BY DEF Wants
<1>2. ASSUME NEW want \in Updates, UpdateReads(a, t, want) PROVE AdminOK
  BY <1>1, <1>2, UpdateReadsStep
<1>3. ASSUME NEW want \in Wants, BatchUpdates(a, t, want) PROVE AdminOK
  BY <1>3, BatchUpdatesStep
<1>4. CASE DeleteRow(a, t)
  BY <1>4, DeleteRowStep
<1>5. CASE BatchEnablesNsfw(a, t)
  BY <1>1, <1>3, <1>5 DEF BatchEnablesNsfw
<1>6. ASSUME NEW st \in {"active", "disabled"}, ImportRow(a, t, st) PROVE AdminOK
  BY <1>6, ImportRowStep
<1>7. CASE Administer(a) /\ op[a].t = t
  BY <1>7, UpdateRefusedStep, UpdateSavesStep, SyncReadsStep, SyncFailsStep, SyncRemovesStep,
     SyncAddsStep, DropFromPoolStep
  DEF Administer
<1> QED
  BY <1>1, <1>2, <1>3, <1>4, <1>5, <1>6, <1>7 DEF StepOf

(* Every step is one of an operation, of a request or the scheduler, or of *)
(* a flush.                                                                *)
LEMMA WhoseStep ==
  ASSUME AdminIInv, Next
  PROVE  \/ \E a \in Admins, t \in Tokens : StepOf(a, t)
         \/ \E t \in Tokens : UseOf(t)
         \/ \E f \in Flushers : FlushOf(f)
<1>1. ASSUME NEW a \in Admins, Administer(a) PROVE \E t \in Tokens : StepOf(a, t)
  <2>1. Active(a)
    BY <1>1 DEF Administer, UpdateRefused, UpdateSaves, SyncReads, SyncFails, SyncRemoves,
                SyncAdds, DropFromPool, Active
  <2>2. op[a].t \in Tokens
    BY <2>1, AdminParts, OpsFacts
  <2> QED
    BY <1>1, <2>2 DEF StepOf
<1> QED
  BY <1>1 DEF Next, StepOf, UseOf, FlushOf, Flush

(* Every step keeps the invariant.                                         *)
LEMMA AdminInductive == AdminIInv /\ [Next]_vars => AdminIInv'
<1> SUFFICES ASSUME AdminIInv, [Next]_vars PROVE AdminIInv'
  OBVIOUS
<1>1. AdminBase /\ AllWithin /\ Counts /\ Protocol
  BY DEF AdminIInv
<1>2. ASSUME NEW a \in Admins, NEW t \in Tokens, StepOf(a, t) PROVE AdminIInv'
  BY <1>2, StepKeepsAdmin DEF AdminOK, AdminIInv
<1>3. ASSUME NEW t \in Tokens, UseOf(t) PROVE AdminIInv'
  <2>1. Counts'
    BY <1>1, <1>3, UseCounts DEF AdminBase, AdminTypeOK, PersistTypeOK
  <2> QED
    BY <1>1, <1>3, <2>1, UseBase, UseWithin, UseProtocol DEF AdminIInv
<1>4. ASSUME NEW f \in Flushers, FlushOf(f) PROVE AdminIInv'
  <2>1. ManagerTypeOK
    BY <1>1 DEF AdminBase, AdminTypeOK, PersistTypeOK
  <2>2. UNCHANGED <<inflight, using, reset>>
    BY <1>4, <2>1, FlushFacts
  <2>3. Counts'
    BY <1>1, <2>2 DEF Counts
  <2> QED
    BY <1>1, <1>4, <2>3, FlushBase, FlushWithin, FlushProtocol DEF AdminIInv
<1>5. CASE UNCHANGED vars
  <2>1. /\ UNCHANGED <<tokens, status, failCount, quota, limit, resumeAt, inflight, recent, dirty>>
        /\ UNCHANGED <<row, flushPc, snap, touched, late, rows, ever, op, using, torn, reset>>
    BY <1>5 DEF vars, persistVars, managerVars, flushVars, adminVars
  <2>2. ManagerTypeOK' /\ PersistTypeOK'
    BY <1>1, <2>1 DEF AdminBase, AdminTypeOK, PersistTypeOK, ManagerTypeOK
  <2>3. AdminTypeOK'
    BY <1>1, <2>1, <2>2 DEF AdminBase, AdminTypeOK
  <2>4. OpsType'
    BY <1>1, <2>1 DEF AdminBase, OpsType, Active
  <2>5. \A t \in Tokens : Content(t)' = Content(t)
    BY <2>1 DEF Content
  <2>6. AllWithin' /\ Counts'
    BY <1>1, <2>1, <2>5 DEF AllWithin, Counts, Within
  <2>7. OneOperation' /\ NoFlushOfBusy'
    BY <1>1, <2>1 DEF Protocol, OneOperation, NoFlushOfBusy, Active
  <2>8. \A a \in Admins : OpOK(a)'
    <3>1. \A a \in Admins : Active(a) => op[a].t \in Tokens
      BY <1>1, OpsFacts DEF AdminBase, AdminTypeOK
    <3> QED
      BY <1>1, <2>1, <2>5, <3>1 DEF Protocol, OpOK, Active
  <2>9. \A t \in Tokens : RestOK(t)'
    BY <1>1, <2>1, <2>5 DEF Protocol, RestOK, Busy
  <2> QED
    BY <1>1, <2>1, <2>3, <2>4, <2>6, <2>7, <2>8, <2>9 DEF AdminIInv, AdminBase, Protocol
<1> QED
  BY <1>2, <1>3, <1>4, <1>5, WhoseStep

(* The inductive invariant holds.                                          *)
THEOREM AdminInvariant == Spec => []AdminIInv
<1> QED
  BY AdminInitially, AdminInductive, PTL DEF Spec

(* Types, and no stored quota is over the known limit stored beside it,    *)
(* whatever the age of the data that updates, refreshes, refunds and       *)
(* flushes store.                                                          *)
THEOREM AdminAlwaysHolds == Spec => []AdminInv
<1>1. AdminIInv => AdminInv
  <2> SUFFICES ASSUME AdminIInv PROVE RowsWithinLimit
    BY DEF AdminInv, AdminIInv, AdminBase
  <2> QED
    BY DEF AdminIInv, AllWithin, Within, RowsWithinLimit
<1> QED
  BY <1>1, AdminInvariant, PTL

(* A token that is under no operation is in the pool exactly if its row is *)
(* in the database, unless two operations on it, or one and a flush,       *)
(* overlapped or one was cut short.                                        *)
THEOREM PoolAlwaysMatches == Spec => []PoolMatchesRows
<1>1. AdminIInv => PoolMatchesRows
  BY DEF AdminIInv, Protocol, RestOK, PoolMatchesRows
<1> QED
  BY <1>1, AdminInvariant, PTL

(* A clean token at rest has its row in the database, under the same       *)
(* exception.                                                              *)
THEOREM CleanAlwaysMatches == Spec => []CleanMatchesRow
<1>1. AdminIInv => CleanMatchesRow
  <2> SUFFICES ASSUME AdminIInv, NEW t \in (tokens \cap rows) \ (torn \cup dirty), AtRest(t)
               PROVE  Content(t) = row[t]
    BY DEF CleanMatchesRow
  <2>1. t \in Tokens
    BY AdminParts
  <2>2. RestOK(t) /\ ~Busy(t)
    BY <2>1 DEF AdminIInv, Protocol, AtRest
  <2> QED
    BY <2>2 DEF RestOK
<1> QED
  BY <1>1, AdminInvariant, PTL

(* More requests than MaxInflight have a token only after a removal forgot *)
(* its count.                                                              *)
THEOREM OvercommitNeedsRemoval == Spec => []OnlyRemovalOvercommits
<1>1. AdminIInv => OnlyRemovalOvercommits
  <2> SUFFICES ASSUME AdminIInv, NEW t \in Tokens \ reset, MaxInflight > 0
               PROVE  using[t] <= MaxInflight
    BY DEF OnlyRemovalOvercommits
  <2>1. using[t] \in Nat /\ inflight[t] \in Nat /\ MaxInflight \in Nat
    BY ManagerAssumption, AdminAssumption
    DEF AdminIInv, AdminBase, AdminTypeOK, PersistTypeOK, ManagerTypeOK
  <2>2. inflight[t] <= MaxInflight /\ using[t] <= inflight[t]
    BY DEF AdminIInv, Counts
  <2> QED
    BY <2>1, <2>2
<1> QED
  BY <1>1, AdminInvariant, PTL

(* Only AddToken ends an operation that is about to add.                   *)
LEMMA OnlySyncAddsEnds ==
  ASSUME AdminIInv, [Next]_vars, NEW a \in Admins, op[a].pc = "add", op'[a].pc = "done"
  PROVE  SyncAdds(a)
<1>1. op \in [Admins -> OpStates]
  BY AdminParts DEF OpsType
<1>2. ASSUME NEW b \in Admins, NEW t \in Tokens, StepOf(b, t) PROVE SyncAdds(a)
  <2>1. \E p : op' = [op EXCEPT ![b] = p]
    BY <1>2 DEF StepOf, UpdateReads, BatchUpdates, DeleteRow, BatchEnablesNsfw, ImportRow, Begin,
                Administer, UpdateRefused, UpdateSaves, SyncReads, SyncFails, SyncRemoves,
                SyncAdds, DropFromPool, Step, End
  <2>2. b = a
    BY <1>1, <2>1
  <2>3. ~(op[b].pc = "idle")
    BY <2>2
  <2>4. Administer(a)
    BY <1>2, <2>2, <2>3 DEF StepOf, UpdateReads, BatchUpdates, DeleteRow, BatchEnablesNsfw,
                            ImportRow, Begin
  <2> QED
    BY <2>4 DEF Administer, UpdateRefused, UpdateSaves, SyncReads, SyncFails, SyncRemoves,
                DropFromPool
<1>3. ASSUME op' = op PROVE FALSE
  BY <1>3
<1>4. ASSUME NEW t \in Tokens, UseOf(t) PROVE FALSE
  BY <1>3, <1>4 DEF UseOf, Finish, Take, Refund, InstallQuota
<1>5. ASSUME NEW f \in Flushers, FlushOf(f) PROVE FALSE
  BY <1>3, <1>5 DEF FlushOf, FlushSnapshots, FlushCommits, adminVars
<1>6. CASE UNCHANGED vars
  BY <1>3, <1>6 DEF vars, adminVars
<1> QED
  BY <1>2, <1>4, <1>5, <1>6, WhoseStep

(* When SyncToken has put a token back it has the status the administrator *)
(* asked for, unless the token is torn.                                    *)
THEOREM ChangesAlwaysTake == Spec => AdminChangeHolds
<1>1. AdminIInv /\ [Next]_vars =>
        [\A a \in Admins :
           /\ op[a].pc = "add" /\ op'[a].pc = "done"
           /\ op[a].t \notin torn
           /\ op[a].want.status # "keep"
           => status'[op[a].t] = op[a].want.status]_vars
  <2> SUFFICES ASSUME AdminIInv, [Next]_vars, NEW a \in Admins,
                      op[a].pc = "add", op'[a].pc = "done", op[a].t \notin torn,
                      op[a].want.status # "keep"
               PROVE  status'[op[a].t] = op[a].want.status
    OBVIOUS
  <2>1. "add" \in Stages /\ "add" \in WithData
    BY DEF Stages, WithData
  <2>2. Active(a) /\ OpOK(a) /\ op[a].t \in ever
    BY <2>1, AdminParts, OpsFacts DEF Active, Protocol
  <2>3. op[a].data = row[op[a].t] /\ row[op[a].t].status = op[a].want.status
    BY <2>2 DEF OpOK, WithData
  <2>4. status' = [status EXCEPT ![op[a].t] = op[a].data.status]
    BY OnlySyncAddsEnds DEF SyncAdds, AddToken
  <2>5. status \in [Tokens -> Statuses] /\ op[a].t \in Tokens
    BY <2>2, AdminParts DEF ManagerTypeOK
  <2> QED
    BY <2>3, <2>4, <2>5
<1> QED
  BY <1>1, AdminInvariant, PTL DEF Spec, AdminChangeHolds
=============================================================================
