-------------------------- MODULE TokenPersistence --------------------------
(***************************************************************************)
(* How the state of the TokenManager reaches the database: the dirty set,  *)
(* the flushes of the Persister (periodic and final) and of TokenService   *)
(* (after an administrator's refresh, and at shutdown), and a restart that *)
(* loads what the rows hold.                                               *)
(*                                                                         *)
(* A flush is three steps with the manager unlocked in between: snapshot   *)
(* the dirty tokens, write them in one transaction, clear their dirty      *)
(* marks.  Both FlushDirty functions follow this protocol, and nothing     *)
(* keeps two of them from overlapping.                                     *)
(*                                                                         *)
(* The manager's methods are called here by any request, scheduler or      *)
(* administrator; ChatFlow says in which order a request calls them.  All  *)
(* that is kept of a caller is that it reports on a token only while the   *)
(* token is counted as in use.  last_used and status_reason are left out   *)
(* of the rows.                                                            *)
(***************************************************************************)
EXTENDS TokenManager

CONSTANTS
  Flushers,         \* the goroutines that may be in FlushDirty
  RefreshAnswers,   \* the <<remaining, limit>> the scheduler may install
  ResumeTimes,      \* the timestamps it may record for an exhausted mode
  PrimedAt          \* the timestamp a load records for an exhausted mode

ASSUME PersistenceAssumption ==
  /\ RefreshAnswers \subseteq {a \in Nat \X Nat : a[1] <= a[2]}
  /\ ResumeTimes \subseteq Nat
  /\ PrimedAt \in Nat \ {0}

VARIABLES
  row,      \* row[t]: the token's row in the database
  flushPc,  \* where each flush stands
  snap,     \* snap[f]: the snapshots flush f took, by token
  touched,  \* history: the tokens that changed since f took its snapshots
  late      \* history: tokens behind in the database, cleared by a flush
            \* during which they had changed

flushVars == <<flushPc, snap>>
persistVars == <<managerVars, row, flushVars, touched, late>>

Rows == [status: Statuses, failCount: 0..FailThreshold, quota: [Modes -> Nat],
         limit: [Modes -> Nat], resumeAt: [Modes -> Nat]]

(* snapshotToken: the persisted fields of the token in memory. *)
Content(t) == [status |-> status[t], failCount |-> failCount[t], quota |-> quota[t],
               limit |-> limit[t], resumeAt |-> resumeAt[t]]

Behind == {t \in tokens : Content(t) # row[t]}

NoSnapshots == [t \in {} |-> row[t]]

PersistTypeOK ==
  /\ ManagerTypeOK
  /\ dirty \subseteq tokens
  /\ row \in [Tokens -> Rows]
  /\ flushPc \in [Flushers -> {"idle", "write", "clear"}]
  /\ snap = [f \in Flushers |-> snap[f]]
  /\ \A f \in Flushers : \E S \in SUBSET Tokens : snap[f] \in [S -> Rows]
  /\ touched \in [Flushers -> SUBSET Tokens]
  /\ late \subseteq Tokens

PersistInit ==
  /\ ManagerInit
  /\ row = [t \in Tokens |-> Content(t)]
  /\ flushPc = [f \in Flushers |-> "idle"]
  /\ snap = [f \in Flushers |-> NoSnapshots]
  /\ touched = [f \in Flushers |-> {}]
  /\ late = {}

-----------------------------------------------------------------------------
(* The methods that change a token. *)

Borrow(t) == \E m \in Modes : t \in Selectable(PoolLevel[t], m) /\ Pick(t, m)

Report(t) ==
  /\ inflight[t] > 0
  /\ \/ ReleaseInflightOnly(t)
     \/ MarkSuccess(t)
     \/ MarkFailed(t)
     \/ MarkFailedKeepInflight(t)
     \/ MarkExpired(t)
     \/ \E m \in Modes : RefundQuota(t, m) \/ ClearModeQuota(t, m)

Refresh(t) ==
  \E m \in Modes : \/ \E a \in RefreshAnswers : UpdateModeQuota(t, m, a[1], a[2])
                   \/ \E at \in ResumeTimes : SetResumeAt(t, m, at)
                   \/ ClearResumeAt(t, m)

ChangeToken ==
  /\ \E t \in Tokens : Borrow(t) \/ Report(t) \/ Refresh(t)
  /\ touched' = [f \in Flushers |->
                   touched[f] \cup {t \in Tokens : Content(t)' # Content(t)}]
  /\ UNCHANGED <<row, flushVars>>
  /\ late' = late \cap Behind'

-----------------------------------------------------------------------------
(* One flush. *)

(* GetDirtyTokens; with nothing dirty the flush ends here. *)
TakeSnapshots(f) ==
  /\ flushPc[f] = "idle"
  /\ dirty \cap tokens # {}
  /\ flushPc' = [flushPc EXCEPT ![f] = "write"]
  /\ snap' = [snap EXCEPT ![f] = [t \in dirty \cap tokens |-> Content(t)]]
  /\ touched' = [touched EXCEPT ![f] = {}]
  /\ UNCHANGED <<managerVars, row, late>>

(* The transaction commits: every snapshot is written. *)
Commit(f) ==
  /\ flushPc[f] = "write"
  /\ row' = [t \in Tokens |-> IF t \in DOMAIN snap[f] THEN snap[f][t] ELSE row[t]]
  /\ flushPc' = [flushPc EXCEPT ![f] = "clear"]
  /\ UNCHANGED <<managerVars, snap, touched>>
  /\ late' = late \cap Behind'

FlushEnds(f) ==
  /\ flushPc' = [flushPc EXCEPT ![f] = "idle"]
  /\ snap' = [snap EXCEPT ![f] = NoSnapshots]
  /\ touched' = [touched EXCEPT ![f] = {}]

(* Mutant: the marks are cleared although the transaction failed. *)
RollBackClearing(f) ==
  /\ flushPc[f] = "write"
  /\ dirty' = dirty \ DOMAIN snap[f]
  /\ FlushEnds(f)
  /\ UNCHANGED <<tokens, status, failCount, quota, limit, resumeAt, inflight, recent,
                 row, late>>

(* The transaction fails or its context is cancelled: nothing is written   *)
(* and the tokens stay dirty.                                              *)
RollBack(f) ==
  /\ flushPc[f] = "write"
  /\ FlushEnds(f)
  /\ UNCHANGED <<managerVars, row, late>>

ClearDirty(f) ==
  /\ flushPc[f] = "clear"
  /\ dirty' = dirty \ DOMAIN snap[f]
  /\ late' = (late \cup (DOMAIN snap[f] \cap touched[f])) \cap Behind
  /\ FlushEnds(f)
  /\ UNCHANGED <<tokens, status, failCount, quota, limit, resumeAt, inflight, recent, row>>

-----------------------------------------------------------------------------
(* The process ends, orderly or not, and starts again. *)

(* normalizeTokenQuotas, then primeZeroModeResumeAts.  A stored limit of   *)
(* zero is a limit here, not an unknown one.                               *)
Normalised(t) ==
  LET known == {m \in Modes : DefaultQuota[t][m] > 0}
      q == [m \in Modes |-> IF m \in known /\ row[t].quota[m] > row[t].limit[m]
                            THEN row[t].limit[m] ELSE row[t].quota[m]]
      at == [m \in Modes |-> IF m \in known /\ q[m] = 0 /\ row[t].resumeAt[m] = 0
                             THEN PrimedAt ELSE row[t].resumeAt[m]]
  IN  [row[t] EXCEPT !.quota = q, !.resumeAt = at]

(* LoadTokens: a token its load changed is dirty. *)
Restart ==
  /\ tokens' = Tokens
  /\ status' = [t \in Tokens |-> row[t].status]
  /\ failCount' = [t \in Tokens |-> row[t].failCount]
  /\ quota' = [t \in Tokens |-> Normalised(t).quota]
  /\ limit' = [t \in Tokens |-> row[t].limit]
  /\ resumeAt' = [t \in Tokens |-> Normalised(t).resumeAt]
  /\ inflight' = [t \in Tokens |-> 0]
  /\ recent' = {}
  /\ dirty' = {t \in Tokens : Normalised(t) # row[t]}
  /\ flushPc' = [f \in Flushers |-> "idle"]
  /\ snap' = [f \in Flushers |-> NoSnapshots]
  /\ touched' = [f \in Flushers |-> {}]
  /\ late' = {}
  /\ UNCHANGED row

PersistNext ==
  \/ ChangeToken
  \/ \E f \in Flushers : TakeSnapshots(f) \/ Commit(f) \/ RollBack(f) \/ ClearDirty(f)
  \/ Restart

PersistSpec == PersistInit /\ [][PersistNext]_persistVars

-----------------------------------------------------------------------------
(* Properties.                                                             *)

(* Tokens whose dirty mark a flush is about to clear although they have    *)
(* changed since it read them.                                             *)
Overtaken == {t \in Tokens : \E f \in Flushers :
                /\ flushPc[f] = "clear"
                /\ t \in DOMAIN snap[f] \cap touched[f]}

(* The only way for the database to fall behind unnoticed is a change      *)
(* between a flush's snapshot and its ClearDirty.  Every method marks the  *)
(* token, a failed transaction keeps the marks, a load that normalises a   *)
(* row marks it, and overlapping flushes that write their snapshots in the *)
(* wrong order lose nothing else.                                          *)
OnlyLateChangesAreLost == Behind \subseteq dirty \cup late \cup Overtaken

(* persist.go:106: "Clear dirty set only after successful persistence".    *)
(* Once no flush is running, a token that is not dirty would be persisted. *)
CleanIsPersisted ==
  (\A f \in Flushers : flushPc[f] = "idle") => Behind \subseteq dirty

=============================================================================
