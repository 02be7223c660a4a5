---------------------------- MODULE QuotaRefresh ----------------------------
(***************************************************************************)
(* The quota refresh scheduler (internal/token/refresh.go) on top of the   *)
(* TokenManager, with the requests that spend a mode's quota and report    *)
(* its 429s.  A refresh is a goroutine that takes the manager's lock once  *)
(* per method, so each method call of a refresh is a step of its own and   *)
(* other refreshes, picks, refunds and reports run in between.             *)
(*                                                                         *)
(* Time is relative.  The clock stands at Now and Tick moves every stored  *)
(* instant one unit into the past; an instant Now or more units ago stays  *)
(* at 1, which bounds how long a refresh is seen to have waited for a      *)
(* slot.  A unit is a minute: the debounce and the scan interval.          *)
(***************************************************************************)
EXTENDS TokenManager

CONSTANTS
  LocalModes,      \* modes with local_quota: no upstream call
  Jobs,            \* refreshes that can be alive at once
  MaxConcurrent,   \* maxConcurrentGlobal
  Window,          \* Window[m]: window_seconds of the mode
  Debounce,        \* refreshDebounce
  Answers,         \* what the upstream reports: [left, limit, wait]
  Now,             \* the instant the clock stands at
  MaxUse           \* bound on a token's requests that are being handled

ASSUME RefreshAssumption ==
  /\ LocalModes \subseteq Modes
  /\ IsFiniteSet(Jobs)
  /\ MaxConcurrent \in Nat \ {0}
  /\ Now \in Nat \ {0}
  /\ Window \in [Modes -> Nat \ {0}]
  /\ Debounce \in Nat
  /\ Answers \subseteq [left : Int, limit : Int, wait : Int]
  /\ MaxUse \in Nat

VARIABLES
  jobs,       \* the refresh goroutines
  marked,     \* marked[t][m]: what is left of the debounce after a refresh
  using,      \* using[t][m]: requests in flight on that mode
  reports,    \* ReportRateLimit calls between two of their steps
  phase       \* of the scheduler: "running", "stopping", "stopped"

vars == <<managerVars, jobs, marked, using, reports, phase>>

Idle == [pc |-> "idle"]

SchedulerInit ==
  /\ jobs = [j \in Jobs |-> Idle]
  /\ marked = [t \in Tokens |-> [m \in Modes |-> 0]]
  /\ using = [t \in Tokens |-> [m \in Modes |-> 0]]
  /\ reports = {}
  /\ phase = "running"

Init == ManagerInit /\ SchedulerInit

Alive == {j \in Jobs : jobs[j].pc # "idle"}

(* Slots of globalSem in use. *)
Slots == Cardinality({j \in Alive : jobs[j].pc \notin {"wait", "flush"}})

Supported(t) == {m \in Modes : DefaultQuota[t][m] > 0}

Goto(j, pc) == jobs' = [jobs EXCEPT ![j].pc = pc]

NewJob(t, m, force) ==
  [pc |-> "wait", t |-> t, m |-> m, force |-> force, at |-> Now, ok |-> TRUE,
   todo |-> IF force THEN Supported(t) ELSE {m}, val |-> 0, lim |-> 0, wait |-> 0,
   late |-> phase = "stopped"]

(* A refresh of one mode ends and gives its slot back; a forced one goes   *)
(* on with the next supported mode, and flushes the rows if all succeeded. *)
After(job, ok) ==
  IF ~job.force THEN Idle
  ELSE LET left == job.todo \ {job.m}
           good == job.ok /\ ok
       IN  IF left # {}
           THEN [NewJob(job.t, CHOOSE m \in left : TRUE, TRUE) EXCEPT
                   !.todo = left, !.ok = good]
           ELSE IF good THEN [NewJob(job.t, job.m, TRUE) EXCEPT !.pc = "flush"] ELSE Idle

EndMode(j, ok) == jobs' = [jobs EXCEPT ![j] = After(@, ok)]

-----------------------------------------------------------------------------
(* Starting a refresh.                                                     *)

(* modeNeedsRefresh *)
NeedsRefresh(t, m) ==
  m \in Supported(t) /\ quota[t][m] = 0 /\ resumeAt[t][m] <= Now

(* checkAndMarkLastRefresh let it pass, runRefreshAsync started it. *)
StartAuto(j, t, m) ==
  /\ j \notin Alive
  /\ marked' = [marked EXCEPT ![t][m] = Debounce]
  /\ jobs' = [jobs EXCEPT ![j] = NewJob(t, m, FALSE)]

(* The scan loop finds a due mode of an active token.  A scan under way    *)
(* when Stop is called goes on to its last token.                          *)
Scan(j, t, m) ==
  /\ phase # "stopped"
  /\ t \in tokens /\ status[t] = "active"
  /\ NeedsRefresh(t, m)
  /\ marked[t][m] = 0
  /\ StartAuto(j, t, m)
  /\ UNCHANGED <<managerVars, using, reports, phase>>

(* RequestRefresh, the last part of ReportRateLimit.  It is dropped for a  *)
(* token that is not active, an unsupported mode, and by the debounce.  It *)
(* is called by requests, which may outlive the scheduler.                 *)
RequestRefresh(r) ==
  /\ r \in reports /\ r.step = "request"
  /\ reports' = reports \ {r}
  /\ \/ /\ status[r.t] = "active" /\ r.m \in Supported(r.t) /\ marked[r.t][r.m] = 0
        /\ \E j \in Jobs : StartAuto(j, r.t, r.m)
     \/ /\ \/ status[r.t] # "active"
           \/ r.m \notin Supported(r.t)
           \/ marked[r.t][r.m] > 0
        /\ UNCHANGED <<jobs, marked>>
  /\ UNCHANGED <<managerVars, using, phase>>

(* An administrator's RefreshToken: every supported mode in turn, with no  *)
(* debounce.  A batch refresh calls it for one token after another.        *)
ForceRefresh(j, t) ==
  /\ phase = "running"
  /\ j \notin Alive /\ t \in tokens /\ Supported(t) # {}
  /\ \A i \in Alive : ~jobs[i].force
  /\ jobs' = [jobs EXCEPT ![j] =
                NewJob(t, CHOOSE m \in Supported(t) : TRUE, TRUE)]
  /\ UNCHANGED <<managerVars, marked, using, reports, phase>>

(* acquireGlobal: a slot, or an error once the scheduler is stopped.  With *)
(* both ready, select takes either.                                        *)
Acquire(j) ==
  /\ jobs[j].pc = "wait" /\ Slots < MaxConcurrent
  /\ jobs' = [jobs EXCEPT ![j].pc = IF jobs[j].m \notin LocalModes THEN "fetch"
                                    ELSE IF jobs[j].force THEN "force" ELSE "look"]
  /\ UNCHANGED <<managerVars, marked, using, reports, phase>>

AcquireFails(j) ==
  /\ jobs[j].pc = "wait"
  /\ phase # "running" \/ jobs[j].force       \* or the client went away
  /\ jobs' = [jobs EXCEPT ![j] = Idle]
  /\ UNCHANGED <<managerVars, marked, using, reports, phase>>

-----------------------------------------------------------------------------
(* A mode of the upstream: refreshModeQuota and applyRateLimits.           *)

NotNegative(n) == IF n < 0 THEN 0 ELSE n

(* clampRateLimits: what an upstream may say is any pair of integers. *)
Clamped(a) ==
  LET left == NotNegative(a.left)
      lim  == NotNegative(a.limit)
  IN  IF left > lim THEN lim ELSE left

Fetched(j, a) ==
  /\ jobs[j].pc = "fetch"
  /\ jobs' = [jobs EXCEPT ![j].pc = "install", ![j].val = Clamped(a),
                          ![j].lim = NotNegative(a.limit),
                          ![j].wait = IF a.wait > 0 THEN a.wait ELSE Window[jobs[j].m]]
  /\ UNCHANGED <<managerVars, marked, using, reports, phase>>

(* SyncModeQuota returns an error: 10 s timeout, status, a bad body, or    *)
(* the scheduler's context is cancelled.                                   *)
FetchFails(j) ==
  /\ jobs[j].pc = "fetch"
  /\ Goto(j, "backoff")
  /\ UNCHANGED <<managerVars, marked, using, reports, phase>>

Backoff(m) == IF Window[m] \div 4 > 1 THEN Window[m] \div 4 ELSE 1

SetResumeAtIfDue(t, m, at) ==
  IF quota[t][m] = 0 /\ resumeAt[t][m] <= Now THEN SetResumeAt(t, m, at)
                                              ELSE UNCHANGED managerVars

ApplyBackoff(j) ==
  /\ jobs[j].pc = "backoff"
  /\ SetResumeAtIfDue(jobs[j].t, jobs[j].m, Now + Backoff(jobs[j].m))
  /\ EndMode(j, FALSE)
  /\ UNCHANGED <<marked, using, reports, phase>>

Install(j) ==
  /\ jobs[j].pc = "install"
  /\ UpdateModeQuota(jobs[j].t, jobs[j].m, jobs[j].val, jobs[j].lim)
  /\ Goto(j, "resume")
  /\ UNCHANGED <<marked, using, reports, phase>>

(* The second half of applyRateLimits and of a local reset. *)
InstallResume(j) ==
  /\ jobs[j].pc = "resume"
  /\ IF jobs[j].val > 0 THEN ClearResumeAt(jobs[j].t, jobs[j].m)
                        ELSE SetResumeAt(jobs[j].t, jobs[j].m, Now + jobs[j].wait)
  /\ EndMode(j, TRUE)
  /\ UNCHANGED <<marked, using, reports, phase>>

-----------------------------------------------------------------------------
(* A local mode: refreshLocalQuota.                                        *)

ToReset(job) == [job EXCEPT !.pc = "install", !.val = DefaultQuota[job.t][job.m],
                            !.lim = DefaultQuota[job.t][job.m]]

ForceLocal(j) ==
  /\ jobs[j].pc = "force"
  /\ jobs' = [jobs EXCEPT ![j] = IF quota[@.t][@.m] > 0 THEN After(@, TRUE)
                                                        ELSE ToReset(@)]
  /\ UNCHANGED <<managerVars, marked, using, reports, phase>>

(* Mutant: a window that is still running is not told from none. *)
LookLocalNoWindow(j) ==
  /\ jobs[j].pc = "look"
  /\ jobs' = [jobs EXCEPT ![j].pc = "start"]
  /\ UNCHANGED <<managerVars, marked, using, reports, phase>>

(* GetResumeAt, compared with the time the refresh was scheduled at. *)
LookLocal(j) ==
  /\ jobs[j].pc = "look"
  /\ LET job == jobs[j]
         at  == resumeAt[job.t][job.m]
     IN  jobs' = [jobs EXCEPT ![j] = IF at = 0 THEN [job EXCEPT !.pc = "check"]
                                     ELSE IF job.at < at THEN Idle
                                     ELSE ToReset(job)]
  /\ UNCHANGED <<managerVars, marked, using, reports, phase>>

(* No window yet: GetModeQuota, then SetResumeAt in sections of their own. *)
CheckExhausted(j) ==
  /\ jobs[j].pc = "check"
  /\ jobs' = [jobs EXCEPT ![j] = IF quota[@.t][@.m] > 0 THEN Idle
                                 ELSE [@ EXCEPT !.pc = "start"]]
  /\ UNCHANGED <<managerVars, marked, using, reports, phase>>

StartWindow(j) ==
  /\ jobs[j].pc = "start"
  /\ SetResumeAt(jobs[j].t, jobs[j].m, jobs[j].at + Window[jobs[j].m])
  /\ EndMode(j, TRUE)
  /\ UNCHANGED <<marked, using, reports, phase>>

(* The flush at the end of a forced refresh that met no error. *)
FlushForced(j) ==
  /\ jobs[j].pc = "flush"
  /\ dirty' = {}
  /\ jobs' = [jobs EXCEPT ![j] = Idle]
  /\ UNCHANGED <<tokens, status, failCount, quota, limit, resumeAt, inflight, recent>>
  /\ UNCHANGED <<marked, using, reports, phase>>

-----------------------------------------------------------------------------
(* The requests.                                                           *)

PickMode(t, m) ==
  /\ phase = "running"      \* the listener is closed before Stop
  /\ t \in Selectable(PoolLevel[t], m)
  /\ inflight[t] + Cardinality(reports) < MaxUse
  /\ Pick(t, m)
  /\ using' = [using EXCEPT ![t][m] = @ + 1]
  /\ UNCHANGED <<jobs, marked, reports, phase>>

Leave(t, m) == using[t][m] > 0 /\ using' = [using EXCEPT ![t][m] = @ - 1]

Succeed(t, m) ==
  /\ Leave(t, m) /\ MarkSuccess(t)
  /\ UNCHANGED <<jobs, marked, reports, phase>>

(* A request that failed to reach the upstream gives its unit back. *)
RefundAndLeave(t, m) ==
  /\ Leave(t, m) /\ t \in tokens
  /\ quota' = [quota EXCEPT ![t][m] = Refunded(quota[t][m], limit[t][m])]
  /\ MarkDirty(t)
  /\ ReleaseInflight(t)
  /\ UNCHANGED <<tokens, status, failCount, limit, resumeAt, recent>>
  /\ UNCHANGED <<jobs, marked, reports, phase>>

Expire(t, m) ==
  /\ Leave(t, m) /\ MarkExpired(t)
  /\ UNCHANGED <<jobs, marked, reports, phase>>

(* ReportRateLimit: ClearModeQuota, ClearResumeAt, RequestRefresh. *)
ReportRateLimit(t, m) ==
  /\ Leave(t, m) /\ ClearModeQuota(t, m)
  /\ reports' = reports \cup {[t |-> t, m |-> m, step |-> "resume"]}
  /\ UNCHANGED <<jobs, marked, phase>>

ReportClearsResume(r) ==
  /\ r \in reports /\ r.step = "resume"
  /\ ClearResumeAt(r.t, r.m)
  /\ reports' = (reports \ {r}) \cup {[r EXCEPT !.step = "request"]}
  /\ UNCHANGED <<jobs, marked, using, phase>>

-----------------------------------------------------------------------------
(* Time and the end of the process.                                        *)

Earlier(at) == IF at > 1 THEN at - 1 ELSE at     \* 0 stays "absent"

(* Only an automatic refresh of a local mode uses the time it started at. *)
Aged(job) ==
  IF job.force \/ job.m \notin LocalModes THEN job ELSE [job EXCEPT !.at = Earlier(@)]

Tick ==
  /\ resumeAt' = [t \in Tokens |-> [m \in Modes |-> Earlier(resumeAt[t][m])]]
  /\ marked' = [t \in Tokens |-> [m \in Modes |->
                  IF marked[t][m] > 0 THEN marked[t][m] - 1 ELSE 0]]
  /\ jobs' = [j \in Jobs |-> IF j \in Alive THEN Aged(jobs[j]) ELSE Idle]
  /\ recent' = IF RecentUsePenalty THEN {} ELSE recent
  /\ UNCHANGED <<tokens, status, failCount, quota, limit, inflight, dirty>>
  /\ UNCHANGED <<using, reports, phase>>

(* Stop closes s.stopped and waits for the scan loop and the refreshes. *)
Stop ==
  /\ phase = "running"
  /\ phase' = "stopping"
  /\ UNCHANGED <<managerVars, jobs, marked, using, reports>>

(* Mutant: Stop does not wait for the refreshes. *)
StopReturnsAtOnce ==
  /\ phase = "stopping"
  /\ phase' = "stopped"
  /\ UNCHANGED <<managerVars, jobs, marked, using, reports>>

StopReturns ==
  /\ phase = "stopping"
  /\ \A j \in Alive : jobs[j].force           \* not in s.wg
  /\ phase' = "stopped"
  /\ UNCHANGED <<managerVars, jobs, marked, using, reports>>

-----------------------------------------------------------------------------
JobStep(j) ==
  \/ Acquire(j) \/ AcquireFails(j)
  \/ \E a \in Answers : Fetched(j, a)
  \/ FetchFails(j) \/ ApplyBackoff(j) \/ Install(j) \/ InstallResume(j)
  \/ ForceLocal(j) \/ LookLocal(j) \/ CheckExhausted(j) \/ StartWindow(j)
  \/ FlushForced(j)

Request(t, m) ==
  \/ PickMode(t, m) \/ Succeed(t, m) \/ RefundAndLeave(t, m)
  \/ Expire(t, m) \/ ReportRateLimit(t, m)

Report == \E r \in reports : ReportClearsResume(r) \/ RequestRefresh(r)

Next ==
  \/ \E j \in Jobs : JobStep(j)
  \/ \E j \in Jobs, t \in Tokens : ForceRefresh(j, t)
  \/ \E j \in Jobs, t \in Tokens, m \in Modes : Scan(j, t, m)
  \/ \E t \in Tokens, m \in Modes : Request(t, m)
  \/ Report
  \/ Tick \/ Stop \/ StopReturns

(* The scan loop and the goroutines keep running, requests end, and an     *)
(* upstream that is asked again and again some day has quota to report.    *)
Progress(j) ==
  \/ Acquire(j) \/ FetchFails(j) \/ ApplyBackoff(j) \/ Install(j) \/ InstallResume(j)
  \/ ForceLocal(j) \/ LookLocal(j) \/ CheckExhausted(j) \/ StartWindow(j) \/ FlushForced(j)

Good(a) == Clamped(a) > 0

Fairness ==
  /\ \A j \in Jobs : /\ WF_vars(Progress(j))
                     /\ SF_vars(\E a \in Answers : Good(a) /\ Fetched(j, a))
  /\ \A t \in Tokens : \A m \in Supported(t) : SF_vars(\E j \in Jobs : Scan(j, t, m))
  /\ WF_vars(Report)
  /\ WF_vars(Tick)

Spec == Init /\ [][Next]_vars /\ Fairness

-----------------------------------------------------------------------------
(* Properties *)

Steps == {"idle", "wait", "fetch", "backoff", "install", "resume", "force",
          "look", "check", "start", "flush"}

(* Every refresh is at a known step, no more of them hold a slot than the  *)
(* semaphore has, and the manager's maps keep their types: what the code   *)
(* of refresh.go assumes about its own state.                              *)
RefreshTypeOK ==
  /\ ManagerTypeOK
  /\ \A j \in Jobs : jobs[j].pc \in Steps
  /\ Slots <= MaxConcurrent
  /\ marked \in [Tokens -> [Modes -> 0..Debounce]]
  /\ using \in [Tokens -> [Modes -> 0..MaxUse]]
  /\ phase \in {"running", "stopping", "stopped"}

(* Once Stop has returned, the automatic refreshes still alive are those   *)
(* that a late 429 asked for after it: none of them was cut in two.        *)
StopWaits ==
  phase = "stopped" => \A j \in Alive : jobs[j].force \/ jobs[j].late

(* What holds of the state and of a stop. *)
RefreshInv == RefreshTypeOK /\ StopWaits

(* Whatever the debounce drops, the refreshes overwrite and the 429s clear *)
(* meanwhile, an exhausted mode of an active token gets quota again while  *)
(* the scheduler runs.                                                     *)
ExhaustedModeReturns ==
  \A t \in Tokens : \A m \in Supported(t) :
    t \in tokens /\ status[t] = "active" /\ quota[t][m] = 0
      ~> quota[t][m] > 0 \/ status[t] # "active" \/ phase # "running"
=============================================================================
