----------------------------- MODULE TokenAdmin -----------------------------
(***************************************************************************)
(* The administrator's token operations (httpapi/admin_token*.go): update, *)
(* batch enable/disable, delete and import, each a sequence of database    *)
(* calls and of calls of the TokenManager, with other administrators,      *)
(* requests and flushes (TokenPersistence) running in between.  A row has  *)
(* an ID for life: a deleted one is only marked deleted.                   *)
(*                                                                         *)
(* TokenPersistence gives the flush its steps; its history variables are   *)
(* not used here and stay empty.  Priority, remark and the NSFW flag are   *)
(* left out: a batch enable_nsfw is a batch update that keeps the status.  *)
(***************************************************************************)
EXTENDS TokenPersistence

CONSTANTS
  Admins,       \* the administrators' requests, one operation each
  Stored,       \* the tokens in the database at the start
  Updates,      \* what an update asks for: [status, quotas], "keep" or a status
  MaxUse        \* bound on the requests that use a token

ASSUME AdminAssumption ==
  /\ Stored \subseteq Tokens
  /\ \A want \in Updates : want.status \in Statuses \cup {"keep"}
  /\ MaxUse \in Nat

VARIABLES
  rows,    \* the IDs with a row that is not deleted
  ever,    \* the IDs given out so far
  op,      \* op[a]: where administrator a's operation stands
  using,   \* using[t]: the requests that hold t, whatever inflight[t] says
  torn,    \* history: tokens an operation on which overlapped another one or
           \* a flush, was cut short, or that changed under a flush
  reset    \* history: tokens whose inflight count restarted below `using`

adminVars == <<rows, ever, op, using, torn, reset>>
vars == <<persistVars, adminVars>>

NoOp == [pc |-> "idle"]
Done == [pc |-> "done"]
NoRow == [status |-> "none"]
NoChange == [status |-> "keep", quotas |-> [m \in {} |-> 0]]

(* LoadTokens of the stored tokens. *)
Loaded ==
  /\ tokens = Stored
  /\ status = [t \in Tokens |-> "active"]
  /\ failCount = [t \in Tokens |-> 0]
  /\ quota = DefaultQuota
  /\ limit = DefaultQuota
  /\ resumeAt = [t \in Tokens |-> [m \in Modes |-> 0]]
  /\ inflight = [t \in Tokens |-> 0]
  /\ recent = {}
  /\ dirty = {}
  /\ row = [t \in Tokens |-> Content(t)]
  /\ flushPc = [f \in Flushers |-> "idle"]
  /\ snap = [f \in Flushers |-> NoSnapshots]
  /\ touched = [f \in Flushers |-> {}]
  /\ late = {}

Init ==
  /\ Loaded
  /\ rows = Stored
  /\ ever = Stored
  /\ op = [a \in Admins |-> NoOp]
  /\ using = [t \in Tokens |-> 0]
  /\ torn = {}
  /\ reset = {}

Busy(t) == \E a \in Admins : op[a].pc \notin {"idle", "done"} /\ op[a].t = t
Flushing(t) == \E f \in Flushers : t \in DOMAIN snap[f]

-----------------------------------------------------------------------------
(* The manager's part of an operation. *)

(* Mutant: the count of a removed token survives. *)
RemoveTokenKeepingDirty(t) ==
  /\ tokens' = tokens \ {t}
  /\ inflight' = [inflight EXCEPT ![t] = 0]
  /\ recent' = recent \ {t}
  /\ UNCHANGED <<status, failCount, quota, limit, resumeAt, dirty>>

RemoveToken(t) ==
  IF t \in tokens
  THEN /\ tokens' = tokens \ {t}
       /\ dirty' = dirty \ {t}
       /\ inflight' = [inflight EXCEPT ![t] = 0]
       /\ recent' = recent \ {t}
       /\ UNCHANGED <<status, failCount, quota, limit, resumeAt>>
  ELSE UNCHANGED managerVars

(* AddToken stores a copy of the row; it is not dirty. *)
AddToken(t, r) ==
  /\ tokens' = tokens \cup {t}
  /\ status' = [status EXCEPT ![t] = r.status]
  /\ failCount' = [failCount EXCEPT ![t] = r.failCount]
  /\ quota' = [quota EXCEPT ![t] = r.quota]
  /\ limit' = [limit EXCEPT ![t] = r.limit]
  /\ resumeAt' = [resumeAt EXCEPT ![t] = r.resumeAt]
  /\ UNCHANGED <<inflight, recent, dirty>>

-----------------------------------------------------------------------------
(* Operations.  Begin notes the overlaps of the whole operation. *)

Begin(a, t, o) ==
  /\ op[a].pc = "idle"
  /\ op' = [op EXCEPT ![a] = o]
  /\ torn' = IF Busy(t) \/ Flushing(t) THEN torn \cup {t} ELSE torn

(* What was read earlier is not used again. *)
Step(a, pc) == op' = [op EXCEPT ![a].pc = pc, ![a].data = NoRow]
End(a) == op' = [op EXCEPT ![a] = Done]

Operation(pc, t, want, data) ==
  [pc |-> pc, t |-> t, want |-> want, data |-> data]

(* handleUpdateToken reads the row; 404 when there is none. *)
UpdateReads(a, t, want) ==
  /\ t \in rows
  /\ Begin(a, t, Operation("save", t, want, row[t]))
  /\ UNCHANGED <<persistVars, rows, ever, using, reset>>

(* The quotas asked for have to be known modes and within their limits. *)
WithinLimits(want, r) ==
  \A m \in DOMAIN want.quotas : m \in Modes /\ want.quotas[m] \in 0..r.limit[m]

Edited(want, r) ==
  [r EXCEPT !.status = IF want.status = "keep" THEN @ ELSE want.status,
            !.quota = [m \in Modes |-> IF m \in DOMAIN want.quotas THEN want.quotas[m]
                                                                   ELSE @[m]]]

UpdateRefused(a) ==
  /\ op[a].pc = "save"
  /\ ~WithinLimits(op[a].want, op[a].data)
  /\ End(a)
  /\ UNCHANGED <<persistVars, rows, ever, using, torn, reset>>

(* UpdateToken saves every column of the row it read; gorm's Save inserts  *)
(* the row when its update finds none, so a row deleted meanwhile is back. *)
UpdateSaves(a) ==
  LET t == op[a].t IN
  /\ op[a].pc = "save"
  /\ WithinLimits(op[a].want, op[a].data)
  /\ row' = [row EXCEPT ![t] = Edited(op[a].want, op[a].data)]
  /\ rows' = rows \cup {t}
  /\ Step(a, "sync")
  /\ UNCHANGED <<managerVars, flushVars, touched, late, using, torn, reset, ever>>

(* handleBatchUpdate: the status column only, then SyncToken. *)
BatchUpdates(a, t, want) ==
  /\ t \in rows
  /\ row' = [row EXCEPT ![t].status = IF want.status = "keep" THEN @ ELSE want.status]
  /\ Begin(a, t, Operation("sync", t, want, NoRow))
  /\ UNCHANGED <<managerVars, flushVars, touched, late, rows, ever, using, reset>>

(* handleBatchEnableNsfw: a flag that is not modelled, then SyncToken.  The *)
(* upstream calls that follow it change no state here.                     *)
BatchEnablesNsfw(a, t) == BatchUpdates(a, t, NoChange)

(* SyncToken: read the row, RemoveToken, AddToken. *)
SyncReads(a) ==
  /\ op[a].pc = "sync" /\ op[a].t \in rows
  /\ op' = [op EXCEPT ![a].pc = "remove", ![a].data = row[op[a].t]]
  /\ UNCHANGED <<persistVars, rows, ever, using, torn, reset>>

(* The row is gone, or the administrator's client is: only a log line. *)
SyncFails(a) ==
  /\ op[a].pc = "sync"
  /\ End(a)
  /\ torn' = torn \cup {op[a].t}
  /\ UNCHANGED <<persistVars, rows, ever, using, reset>>

NoteReset(t) == reset' = IF using[t] > 0 THEN reset \cup {t} ELSE reset

SyncRemoves(a) ==
  LET t == op[a].t IN
  /\ op[a].pc = "remove"
  /\ RemoveToken(t)
  /\ NoteReset(t)
  /\ op' = [op EXCEPT ![a].pc = "add"]
  /\ UNCHANGED <<row, flushVars, touched, late, rows, ever, using, torn>>

(* Mutant: what SyncToken puts back is the token as it was in memory. *)
SyncAddsOld(a) ==
  /\ op[a].pc = "add"
  /\ tokens' = tokens \cup {op[a].t}
  /\ End(a)
  /\ UNCHANGED <<status, failCount, quota, limit, resumeAt, inflight, recent, dirty>>
  /\ UNCHANGED <<row, flushVars, touched, late, rows, ever, using, torn, reset>>

SyncAdds(a) ==
  /\ op[a].pc = "add"
  /\ AddToken(op[a].t, op[a].data)
  /\ End(a)
  /\ UNCHANGED <<row, flushVars, touched, late, rows, ever, using, torn, reset>>

(* handleDeleteToken and handleBatchDelete. *)
DeleteRow(a, t) ==
  /\ t \in rows
  /\ rows' = rows \ {t}
  /\ Begin(a, t, Operation("drop", t, NoChange, NoRow))
  /\ UNCHANGED <<persistVars, using, reset, ever>>

(* Mutant: RemoveFromPool is forgotten. *)
DropNothing(a) ==
  /\ op[a].pc = "drop"
  /\ End(a)
  /\ UNCHANGED <<persistVars, rows, ever, using, torn, reset>>

DropFromPool(a) ==
  /\ op[a].pc = "drop"
  /\ RemoveToken(op[a].t)
  /\ NoteReset(op[a].t)
  /\ End(a)
  /\ UNCHANGED <<row, flushVars, touched, late, rows, ever, using, torn>>

(* handleBatchImport creates a row and adds it to the pool. *)
ImportRow(a, t, st) ==
  /\ t \notin ever
  /\ ever' = ever \cup {t}
  /\ rows' = rows \cup {t}
  /\ row' = [row EXCEPT ![t].status = st]
  /\ Begin(a, t, Operation("add", t, NoChange, row'[t]))
  /\ UNCHANGED <<managerVars, flushVars, touched, late, using, reset>>

-----------------------------------------------------------------------------
(* Requests and the flush. *)

(* A change under a flush that holds an older snapshot, see late there. *)
NoteChange(t) == torn' = IF Flushing(t) THEN torn \cup {t} ELSE torn

Take(t, m) ==
  /\ t \in Selectable(PoolLevel[t], m) /\ using[t] < MaxUse
  /\ Pick(t, m)
  /\ using' = [using EXCEPT ![t] = @ + 1]
  /\ NoteChange(t)
  /\ UNCHANGED <<row, flushVars, touched, late, rows, ever, op, reset>>

Finish(t) ==
  /\ using[t] > 0
  /\ using' = [using EXCEPT ![t] = @ - 1]
  /\ MarkSuccess(t) \/ MarkExpired(t) \/ \E m \in Modes : ClearModeQuota(t, m)
  /\ NoteChange(t)
  /\ UNCHANGED <<row, flushVars, touched, late, rows, ever, op, reset>>

(* A request that never reached the upstream gives its unit back. *)
Refund(t, m) ==
  /\ using[t] > 0
  /\ using' = [using EXCEPT ![t] = @ - 1]
  /\ IF t \in tokens
     THEN /\ quota' = [quota EXCEPT ![t][m] = Refunded(quota[t][m], limit[t][m])]
          /\ MarkDirty(t)
          /\ ReleaseInflight(t)
          /\ UNCHANGED <<tokens, status, failCount, limit, resumeAt, recent>>
     ELSE UNCHANGED managerVars
  /\ NoteChange(t)
  /\ UNCHANGED <<row, flushVars, touched, late, rows, ever, op, reset>>

(* The scheduler installs what the upstream reports. *)
InstallQuota(t, m, a) ==
  /\ t \in tokens
  /\ UpdateModeQuota(t, m, a[1], a[2])
  /\ NoteChange(t)
  /\ UNCHANGED <<row, flushVars, touched, late, rows, ever, op, using, reset>>

(* One flush, with the rows a soft delete hides left alone. *)
FlushCommits(f) ==
  /\ flushPc[f] = "write"
  /\ row' = [t \in Tokens |-> IF t \in DOMAIN snap[f] \cap rows THEN snap[f][t] ELSE row[t]]
  /\ flushPc' = [flushPc EXCEPT ![f] = "clear"]
  /\ UNCHANGED <<managerVars, snap, touched, late, adminVars>>

FlushSnapshots(f) ==
  /\ TakeSnapshots(f)
  /\ torn' = torn \cup {t \in dirty : Busy(t)}
  /\ UNCHANGED <<rows, ever, op, using, reset>>

Flush ==
  \E f \in Flushers :
    \/ FlushSnapshots(f)
    \/ FlushCommits(f)
    \/ (RollBack(f) \/ ClearDirty(f)) /\ UNCHANGED adminVars

Administer(a) ==
  \/ UpdateRefused(a) \/ UpdateSaves(a)
  \/ SyncReads(a) \/ SyncFails(a) \/ SyncRemoves(a) \/ SyncAdds(a)
  \/ DropFromPool(a)

Next ==
  \/ \E a \in Admins : Administer(a)
  \/ \E a \in Admins, t \in Tokens, want \in Updates :
       UpdateReads(a, t, want) \/ BatchUpdates(a, t, want)
  \/ \E a \in Admins, t \in Tokens : DeleteRow(a, t) \/ BatchEnablesNsfw(a, t)
  \/ \E a \in Admins, t \in Tokens : \E st \in {"active", "disabled"} : ImportRow(a, t, st)
  \/ \E t \in Tokens : Finish(t)
  \/ \E t \in Tokens, m \in Modes : Take(t, m) \/ Refund(t, m)
  \/ \E t \in Tokens, m \in Modes, a \in RefreshAnswers : InstallQuota(t, m, a)
  \/ Flush

Spec == Init /\ [][Next]_vars

-----------------------------------------------------------------------------
(* Properties *)

AdminTypeOK ==
  /\ PersistTypeOK
  /\ rows \subseteq ever /\ ever \subseteq Tokens
  /\ \A a \in Admins : op[a].pc \in {"idle", "done", "save", "sync", "remove", "add", "drop"}
  /\ using \in [Tokens -> 0..MaxUse]
  /\ torn \subseteq Tokens /\ reset \subseteq Tokens

AtRest(t) == ~Busy(t) /\ ~Flushing(t)

(* The pool offers the tokens the database has, unless two operations on   *)
(* one token overlapped: an update that saves after a delete brings the    *)
(* row back, a SyncToken that had read the row brings the token back.      *)
PoolMatchesRows ==
  \A t \in Tokens \ torn : ~Busy(t) => (t \in tokens <=> t \in rows)

(* A token nobody is working on and that is not dirty has its row in the   *)
(* database, operations of administrators included, unless an operation    *)
(* was cut short or ran into another one, or a flush held an old snapshot. *)
CleanMatchesRow ==
  \A t \in (tokens \cap rows) \ (torn \cup dirty) : AtRest(t) => Content(t) = row[t]

(* A removal forgets the inflight count of a token that requests hold, and *)
(* what these requests report later is taken from the new ones' count: the *)
(* limit MaxInflight is exceeded, but on no token that was not removed.    *)
OnlyRemovalOvercommits ==
  \A t \in Tokens \ reset : t \in tokens /\ MaxInflight > 0 => using[t] <= MaxInflight

(* No sequence of updates, refreshes, refunds and flushes, of whatever age *)
(* their data is, stores a quota over the known limit stored beside it.    *)
RowsWithinLimit ==
  \A t \in Tokens, m \in Modes :
    row[t].limit[m] > 0 => row[t].quota[m] <= row[t].limit[m]

(* What holds of the state and of the rows on its own. *)
AdminInv == AdminTypeOK /\ RowsWithinLimit

(* When SyncToken has put a token back it has the status asked for, unless *)
(* a flush or another operation overlapped.                                *)
AdminChangeHolds ==
  [][\A a \in Admins :
       /\ op[a].pc = "add" /\ op'[a].pc = "done"
       /\ op[a].t \notin torn
       /\ op[a].want.status # "keep"
       => status'[op[a].t] = op[a].want.status]_vars
=============================================================================
