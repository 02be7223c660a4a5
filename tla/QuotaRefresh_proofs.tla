------------------------- MODULE QuotaRefresh_proofs ------------------------
(***************************************************************************)
(* The refresh scheduler for any set of tokens, modes and refreshes: no    *)
(* more refreshes than slots, a Stop that waits, and request counts that   *)
(* match the requests.                                                     *)
(*                                                                         *)
(* A step of a refresh moves one job: JobMoves is that form, with one      *)
(* lemma per action; the steps of the requests are compared with the       *)
(* manager's counter through Units, which holds one element per request in *)
(* flight.                                                                 *)
(***************************************************************************)
EXTENDS QuotaRefresh, TokenManager_proofs, FiniteSetTheorems

LiveSteps == Steps \ {"idle"}

(* What a refresh under way remembers between two steps.                   *)
LiveJob ==
  [pc : LiveSteps, t : Tokens, m : Modes, force : BOOLEAN, at : Nat, ok : BOOLEAN,
   todo : SUBSET Modes, val : Nat, lim : Nat, wait : Nat, late : BOOLEAN]

AnyJob == LiveJob \cup {Idle}

(* The steps at which a refresh has taken a slot of globalSem.             *)
HoldsSlot(job) == job.pc \notin {"idle", "wait", "flush"}

(* The requests in flight of a token, one element each. *)
Units(u) == {x \in Modes \X (1..MaxUse) : x[2] <= u[x[1]]}

(* The in-flight counter of a token is the number of requests that are     *)
(* using it, over all modes: this bounds it, and so the requests of one    *)
(* mode.                                                                   *)
RequestsCounted ==
  \A t \in Tokens :
    /\ IsFiniteSet(Units(using[t]))
    /\ inflight[t] = Cardinality(Units(using[t]))
    /\ inflight[t] <= MaxUse

(* Only tokens the manager knows are in use, so that every release reaches *)
(* the counter.                                                            *)
KnownUsers == \A t \in Tokens \ tokens : \A m \in Modes : using[t][m] = 0

(* The reports of a 429 that are between two of their steps.               *)
ReportsOK ==
  /\ reports \subseteq [t : Tokens, m : Modes, step : {"resume", "request"}]
  /\ IsFiniteSet(reports)

MarksOK == marked \in [Tokens -> [Modes -> 0..Debounce]]

UsingOK == using \in [Tokens -> [Modes -> 0..MaxUse]]

PhaseOK == phase \in {"running", "stopping", "stopped"}

JobsOK == jobs \in [Jobs -> AnyJob]

(* The inductive invariant. RefreshInv alone is not: the types of the next *)
(* step need those of what a refresh remembers, the bound on the requests  *)
(* of a mode needs the count of all of them.                               *)
RefreshIInv ==
  /\ ManagerTypeOK
  /\ JobsOK
  /\ Slots <= MaxConcurrent
  /\ StopWaits
  /\ MarksOK
  /\ UsingOK
  /\ RequestsCounted
  /\ KnownUsers
  /\ ReportsOK
  /\ PhaseOK

-----------------------------------------------------------------------------
(* Jobs *)

(* A refresh is idle or a record.                                          *)
LEMMA JobShape ==
  ASSUME NEW job \in AnyJob
  PROVE  /\ job.pc \in Steps
         /\ job.pc # "idle" => job \in LiveJob
BY DEF AnyJob, LiveJob, LiveSteps, Idle, Steps

(* A refresh starts waiting for a slot, and remembers whether Stop had     *)
(* begun.                                                                  *)
LEMMA NewJobType ==
  ASSUME NEW t \in Tokens, NEW m \in Modes, NEW force \in BOOLEAN
  PROVE  /\ NewJob(t, m, force) \in LiveJob
         /\ NewJob(t, m, force).pc = "wait"
         /\ NewJob(t, m, force).force = force
         /\ NewJob(t, m, force).late = (phase = "stopped")
<1> DEFINE todo == IF force THEN Supported(t) ELSE {m}
           late == phase = "stopped"
<1>1. todo \in SUBSET Modes
  BY DEF Supported
<1>2. late \in BOOLEAN
  OBVIOUS
<1>3. Now \in Nat
  BY RefreshAssumption
<1>4. "wait" \in LiveSteps
  BY DEF LiveSteps, Steps
<1>5. NewJob(t, m, force) =
        [pc |-> "wait", t |-> t, m |-> m, force |-> force, at |-> Now, ok |-> TRUE,
         todo |-> todo, val |-> 0, lim |-> 0, wait |-> 0, late |-> late]
  BY DEF NewJob
<1> HIDE DEF todo, late
<1>6. NewJob(t, m, force) \in LiveJob
  BY <1>1, <1>2, <1>3, <1>4, <1>5 DEF LiveJob
<1>7. /\ NewJob(t, m, force).pc = "wait"
      /\ NewJob(t, m, force).force = force
      /\ NewJob(t, m, force).late = (phase = "stopped")
  BY DEF NewJob
<1> QED
  BY <1>6, <1>7

(* What is left of a refresh after a mode waits for a slot or to flush. *)
LEMMA AfterType ==
  ASSUME NEW job \in LiveJob, NEW ok \in BOOLEAN
  PROVE  /\ After(job, ok) \in AnyJob
         /\ After(job, ok).pc \in {"idle", "wait", "flush"}
         /\ After(job, ok).pc # "idle" => After(job, ok).force
<1> DEFINE left == job.todo \ {job.m}
           good == job.ok /\ ok
           next == NewJob(job.t, CHOOSE m \in left : TRUE, TRUE)
           last == NewJob(job.t, job.m, TRUE)
<1>1. job.t \in Tokens /\ job.m \in Modes /\ job.force \in BOOLEAN /\ left \in SUBSET Modes
  BY DEF LiveJob
<1>2. good \in BOOLEAN
  BY DEF LiveJob
<1>3. CASE ~job.force
  BY <1>3 DEF After, AnyJob, Idle
<1>4. CASE job.force /\ left # {}
  <2>1. (CHOOSE m \in left : TRUE) \in Modes
    BY <1>1, <1>4
  <2>2. next \in LiveJob /\ next.pc = "wait" /\ next.force = TRUE
    BY <1>1, <2>1, NewJobType
  <2>3. After(job, ok) = [next EXCEPT !.todo = left, !.ok = good]
    BY <1>4 DEF After
  <2> HIDE DEF next, left, good
  <2>4. [next EXCEPT !.todo = left] \in LiveJob
    BY <1>1, <2>2 DEF LiveJob
  <2>5. [[next EXCEPT !.todo = left] EXCEPT !.ok = good] \in LiveJob
    BY <1>2, <2>4 DEF LiveJob
  <2>6. After(job, ok) = [[next EXCEPT !.todo = left] EXCEPT !.ok = good]
    BY <2>3
  <2>7. After(job, ok).pc = "wait" /\ After(job, ok).force = TRUE
    BY <2>2, <2>3 DEF LiveJob
  <2> QED
    BY <2>5, <2>6, <2>7 DEF AnyJob
<1>5. CASE job.force /\ left = {}
  <2>1. last \in LiveJob /\ last.force = TRUE
    BY <1>1, NewJobType
  <2>2. After(job, ok) = IF good THEN [last EXCEPT !.pc = "flush"] ELSE Idle
    BY <1>5 DEF After
  <2>3. "flush" \in LiveSteps
    BY DEF LiveSteps, Steps
  <2> HIDE DEF last, good
  <2>4. [last EXCEPT !.pc = "flush"] \in LiveJob
    BY <2>1, <2>3 DEF LiveJob
  <2>5. [last EXCEPT !.pc = "flush"].pc = "flush" /\ [last EXCEPT !.pc = "flush"].force = TRUE
    BY <2>1 DEF LiveJob
  <2>6. CASE good
    BY <2>2, <2>4, <2>5, <2>6 DEF AnyJob
  <2>7. CASE ~good
    BY <2>2, <2>7 DEF AnyJob, Idle
  <2> QED
    BY <2>6, <2>7
<1> QED
  BY <1>1, <1>3, <1>4, <1>5

-----------------------------------------------------------------------------
(* Slots *)

(* The refreshes that hold a slot, in any assignment of refreshes.         *)
HoldersOf(js) == {j \in Jobs : HoldsSlot(js[j])}

(* Slots counts them in a state.                                           *)
LEMMA SlotsAreHolders ==
  Slots = Cardinality(HoldersOf(jobs))
<1>1. {j \in Alive : jobs[j].pc \notin {"wait", "flush"}} = HoldersOf(jobs)
  BY DEF Alive, HoldersOf, HoldsSlot
<1> QED
  BY <1>1 DEF Slots

(* Slots counts them in the next state.                                    *)
LEMMA SlotsAreHoldersNext ==
  Slots' = Cardinality(HoldersOf(jobs'))
<1>1. {j \in Alive : jobs[j].pc \notin {"wait", "flush"}}' = HoldersOf(jobs')
  BY DEF Alive, HoldersOf, HoldsSlot
<1> QED
  BY <1>1 DEF Slots

(* When no refresh takes a slot, the count does not grow.                  *)
LEMMA FewerHolders ==
  ASSUME NEW js, NEW ks, HoldersOf(ks) \subseteq HoldersOf(js)
  PROVE  /\ Cardinality(HoldersOf(ks)) \in Nat
         /\ Cardinality(HoldersOf(js)) \in Nat
         /\ Cardinality(HoldersOf(ks)) <= Cardinality(HoldersOf(js))
<1>1. HoldersOf(js) \in SUBSET Jobs /\ HoldersOf(ks) \in SUBSET HoldersOf(js)
  BY DEF HoldersOf
<1>2. IsFiniteSet(HoldersOf(js))
  BY <1>1, RefreshAssumption, FS_Subset
<1> QED
  BY <1>1, <1>2, FS_Subset, FS_CardinalityType

(* When one refresh takes a slot, the count grows by one at most.          *)
LEMMA OneMoreHolder ==
  ASSUME NEW js, NEW ks, NEW j, HoldersOf(ks) \subseteq HoldersOf(js) \cup {j}
  PROVE  /\ Cardinality(HoldersOf(ks)) \in Nat
         /\ Cardinality(HoldersOf(js)) \in Nat
         /\ Cardinality(HoldersOf(ks)) <= Cardinality(HoldersOf(js)) + 1
<1>1. HoldersOf(js) \in SUBSET Jobs /\ HoldersOf(ks) \in SUBSET (HoldersOf(js) \cup {j})
  BY DEF HoldersOf
<1>2. IsFiniteSet(HoldersOf(js))
  BY <1>1, RefreshAssumption, FS_Subset
<1>3. /\ IsFiniteSet(HoldersOf(js) \cup {j})
      /\ Cardinality(HoldersOf(js) \cup {j}) <= Cardinality(HoldersOf(js)) + 1
  <2>1. Cardinality(HoldersOf(js)) \in Nat
    BY <1>2, FS_CardinalityType
  <2>2. IsFiniteSet(HoldersOf(js) \cup {j})
    BY <1>2, FS_AddElement
  <2>3. Cardinality(HoldersOf(js) \cup {j}) =
          IF j \in HoldersOf(js) THEN Cardinality(HoldersOf(js))
                                 ELSE Cardinality(HoldersOf(js)) + 1
    BY <1>2, FS_AddElement
  <2> QED
    BY <2>1, <2>2, <2>3
<1>4. /\ IsFiniteSet(HoldersOf(ks))
      /\ Cardinality(HoldersOf(ks)) <= Cardinality(HoldersOf(js) \cup {j})
  BY <1>1, <1>3, FS_Subset
<1> QED
  BY <1>2, <1>3, <1>4, FS_CardinalityType

-----------------------------------------------------------------------------
(* A refresh moves on: normal form. *)

Moved(j, f) == jobs' = [jobs EXCEPT ![j] = f]

(* A job that goes on keeps what StopWaits asks of it. *)
KeepsKind(job, f) ==
  f.pc # "idle" => /\ job.pc # "idle"
                   /\ job.force \/ job.late => f.force \/ f.late

(* One refresh moves, the others stay.                                     *)
LEMMA MovedJobs ==
  ASSUME JobsOK, NEW j \in Jobs, NEW f \in AnyJob, Moved(j, f)
  PROVE  /\ JobsOK'
         /\ jobs'[j] = f
         /\ \A i \in Jobs : i # j => jobs'[i] = jobs[i]
BY DEF JobsOK, Moved

(* StopWaits after one refresh moved: it went on with what it was, or it   *)
(* was just started.                                                       *)
LEMMA MovedStop ==
  ASSUME JobsOK, StopWaits, NEW j \in Jobs, NEW f \in AnyJob, Moved(j, f), phase' = phase,
         \/ KeepsKind(jobs[j], f)
         \/ f.pc # "idle" => f.late = (phase = "stopped")
  PROVE  StopWaits'
<1> SUFFICES ASSUME phase' = "stopped", NEW i \in Alive'
             PROVE  jobs'[i].force \/ jobs'[i].late
  BY DEF StopWaits
<1>1. i \in Jobs /\ jobs'[i].pc # "idle"
  BY DEF Alive
<1>2. CASE i # j
  BY <1>1, <1>2, MovedJobs DEF StopWaits, Alive
<1>3. CASE i = j
  BY <1>1, <1>3, MovedJobs DEF StopWaits, Alive, KeepsKind
<1> QED
  BY <1>2, <1>3

(* The semaphore after one refresh moved: a slot is taken only while one   *)
(* is free.                                                                *)
LEMMA MovedSlots ==
  ASSUME JobsOK, Slots <= MaxConcurrent, NEW j \in Jobs, NEW f \in AnyJob, Moved(j, f),
         HoldsSlot(f) => HoldsSlot(jobs[j]) \/ Slots < MaxConcurrent
  PROVE  Slots' <= MaxConcurrent
<1>0. MaxConcurrent \in Nat
  BY RefreshAssumption
<1>1. CASE HoldsSlot(f) => HoldsSlot(jobs[j])
  <2>1. HoldersOf(jobs') \subseteq HoldersOf(jobs)
    BY <1>1, MovedJobs DEF HoldersOf
  <2> QED
    BY <1>0, <2>1, FewerHolders, SlotsAreHolders, SlotsAreHoldersNext
<1>2. CASE Slots < MaxConcurrent
  <2>1. HoldersOf(jobs') \subseteq HoldersOf(jobs) \cup {j}
    BY MovedJobs DEF HoldersOf
  <2>2. /\ Slots \in Nat
        /\ Slots' \in Nat
        /\ Slots' <= Slots + 1
    BY <2>1, OneMoreHolder, SlotsAreHolders, SlotsAreHoldersNext
  <2> QED
    BY <1>0, <1>2, <2>2
<1> QED
  BY <1>1, <1>2

-----------------------------------------------------------------------------
(* The steps of a refresh, one lemma each: where it goes, and that the     *)
(* manager stays well typed.                                               *)

RestStays == UNCHANGED <<tokens, inflight, marked, using, reports, phase>>

MayMove(j, f) ==
  /\ Moved(j, f)
  /\ KeepsKind(jobs[j], f)
  /\ HoldsSlot(f) => HoldsSlot(jobs[j]) \/ Slots < MaxConcurrent

(* What every step of a refresh does.                                      *)
JobMoves(j) ==
  /\ \E f \in AnyJob : MayMove(j, f)
  /\ ManagerTypeOK'
  /\ RestStays

(* A refresh that goes to its next step keeps everything else it           *)
(* remembers.                                                              *)
LEMMA GotoStep ==
  ASSUME NEW job \in LiveJob, NEW pc \in LiveSteps
  PROVE  /\ [job EXCEPT !.pc = pc] \in AnyJob
         /\ [job EXCEPT !.pc = pc].pc = pc
         /\ KeepsKind(job, [job EXCEPT !.pc = pc])
<1>1. job.pc # "idle"
  BY DEF LiveJob, LiveSteps
<1>2. [job EXCEPT !.pc = pc] \in LiveJob
  BY DEF LiveJob
<1>3. /\ [job EXCEPT !.pc = pc].force = job.force
      /\ [job EXCEPT !.pc = pc].late = job.late
      /\ [job EXCEPT !.pc = pc].pc = pc
  BY DEF LiveJob
<1> QED
  BY <1>1, <1>2, <1>3 DEF KeepsKind, AnyJob

(* The end of a mode gives the slot back.                                  *)
LEMMA EndStep ==
  ASSUME JobsOK, NEW j \in Jobs, jobs[j] \in LiveJob, NEW ok \in BOOLEAN, EndMode(j, ok)
  PROVE  \E f \in AnyJob : MayMove(j, f)
<1> DEFINE f == After(jobs[j], ok)
<1>1. Moved(j, f)
  BY DEF EndMode, Moved, JobsOK
<1>2. /\ f \in AnyJob
      /\ f.pc \in {"idle", "wait", "flush"}
      /\ f.pc # "idle" => f.force
  BY AfterType
<1>3. jobs[j].pc # "idle"
  BY DEF LiveJob, LiveSteps
<1> HIDE DEF f
<1> QED
  BY <1>1, <1>2, <1>3 DEF MayMove, KeepsKind, HoldsSlot

(* The end of a refresh gives the slot back.                               *)
LEMMA IdleStep ==
  ASSUME JobsOK, NEW j \in Jobs, Moved(j, Idle)
  PROVE  \E f \in AnyJob : MayMove(j, f)
BY DEF MayMove, KeepsKind, HoldsSlot, Idle, AnyJob

(* A job at a step that is not "idle" is a record. *)
LEMMA AtStep ==
  ASSUME JobsOK, NEW j \in Jobs, jobs[j].pc # "idle"
  PROVE  /\ jobs[j] \in LiveJob
         /\ jobs[j].t \in Tokens
         /\ jobs[j].m \in Modes
         /\ jobs[j].at \in Nat
         /\ jobs[j].val \in Nat
         /\ jobs[j].lim \in Nat
         /\ jobs[j].wait \in Nat
         /\ Window[jobs[j].m] \in Nat
BY RefreshAssumption, JobShape DEF JobsOK, LiveJob

(* Going on to a step with a slot: it had one, or one is free.             *)
LEMMA HoldingGoto ==
  ASSUME JobsOK, NEW j \in Jobs, jobs[j].pc # "idle", NEW pc \in LiveSteps,
         HoldsSlot(jobs[j]) \/ Slots < MaxConcurrent, Goto(j, pc)
  PROVE  \E f \in AnyJob : MayMove(j, f)
<1> DEFINE f == [jobs[j] EXCEPT !.pc = pc]
<1>1. jobs[j] \in LiveJob
  BY AtStep
<1>2. Moved(j, f)
  BY DEF Goto, Moved, JobsOK
<1>3. f \in AnyJob /\ KeepsKind(jobs[j], f)
  BY <1>1, GotoStep
<1> QED
  BY <1>2, <1>3 DEF MayMove

(* acquireGlobal takes a slot only while one is free.                      *)
LEMMA AcquireMoves ==
  ASSUME RefreshIInv, NEW j \in Jobs, Acquire(j)
  PROVE  JobMoves(j)
<1> DEFINE pc == IF jobs[j].m \notin LocalModes THEN "fetch"
                 ELSE IF jobs[j].force THEN "force" ELSE "look"
<1>1. pc \in LiveSteps
  BY DEF LiveSteps, Steps
<1>2. Goto(j, pc)
  BY DEF Acquire, Goto
<1>3. jobs[j].pc # "idle" /\ Slots < MaxConcurrent
  BY DEF Acquire
<1> HIDE DEF pc
<1>4. \E f \in AnyJob : MayMove(j, f)
  BY <1>1, <1>2, <1>3, HoldingGoto DEF RefreshIInv
<1> QED
  BY <1>4, StutterType DEF JobMoves, RestStays, Acquire, managerVars, RefreshIInv

(* A refresh whose acquireGlobal fails never held a slot.                  *)
LEMMA AcquireFailsMoves ==
  ASSUME RefreshIInv, NEW j \in Jobs, AcquireFails(j)
  PROVE  JobMoves(j)
<1>1. Moved(j, Idle)
  BY DEF AcquireFails, Moved
<1>2. \E f \in AnyJob : MayMove(j, f)
  BY <1>1, IdleStep DEF RefreshIInv
<1> QED
  BY <1>2, StutterType DEF JobMoves, RestStays, AcquireFails, managerVars, RefreshIInv

(* clampRateLimits returns natural numbers whatever the upstream says. *)
LEMMA ClampedType ==
  ASSUME NEW a \in Answers
  PROVE  /\ Clamped(a) \in Nat
         /\ NotNegative(a.limit) \in Nat
         /\ Clamped(a) <= NotNegative(a.limit)
         /\ a.wait \in Int
<1>1. a.left \in Int /\ a.limit \in Int /\ a.wait \in Int
  BY RefreshAssumption
<1> QED
  BY <1>1 DEF Clamped, NotNegative

(* What the upstream reports reaches the refresh as natural numbers.       *)
LEMMA FetchedMoves ==
  ASSUME RefreshIInv, NEW j \in Jobs, NEW a \in Answers, Fetched(j, a)
  PROVE  JobMoves(j)
<1> DEFINE job == jobs[j]
           w == IF a.wait > 0 THEN a.wait ELSE Window[job.m]
           f1 == [job EXCEPT !.pc = "install"]
           f2 == [f1 EXCEPT !.val = Clamped(a)]
           f3 == [f2 EXCEPT !.lim = NotNegative(a.limit)]
           f  == [f3 EXCEPT !.wait = w]
<1>0. JobsOK /\ job.pc # "idle" /\ HoldsSlot(job)
  BY DEF Fetched, RefreshIInv, HoldsSlot
<1>1. job \in LiveJob /\ job.pc # "idle" /\ Window[job.m] \in Nat
  BY <1>0, AtStep
<1>2. w \in Nat
  BY <1>1, ClampedType
<1>3. Clamped(a) \in Nat /\ NotNegative(a.limit) \in Nat
  BY ClampedType
<1>4. "install" \in LiveSteps
  BY DEF LiveSteps, Steps
<1>5. Moved(j, f)
  BY <1>0 DEF Fetched, Moved, JobsOK
<1> HIDE DEF w, job
<1>6. f1 \in LiveJob /\ f1.force = job.force /\ f1.late = job.late
  BY <1>1, <1>4 DEF LiveJob
<1> HIDE DEF f1
<1>7. f2 \in LiveJob /\ f2.force = job.force /\ f2.late = job.late
  BY <1>3, <1>6 DEF LiveJob
<1> HIDE DEF f2
<1>8. f3 \in LiveJob /\ f3.force = job.force /\ f3.late = job.late
  BY <1>3, <1>7 DEF LiveJob
<1> HIDE DEF f3
<1>9. f \in LiveJob /\ f.force = job.force /\ f.late = job.late
  BY <1>2, <1>8 DEF LiveJob
<1> HIDE DEF f
<1>10. KeepsKind(job, f) /\ f \in AnyJob
  BY <1>1, <1>9 DEF KeepsKind, AnyJob
<1>11. \E g \in AnyJob : MayMove(j, g)
  BY <1>0, <1>5, <1>10 DEF MayMove, job
<1> QED
  BY <1>11, StutterType DEF JobMoves, RestStays, Fetched, managerVars, RefreshIInv

(* A failing call keeps the slot until the backoff is written.             *)
LEMMA FetchFailsMoves ==
  ASSUME RefreshIInv, NEW j \in Jobs, FetchFails(j)
  PROVE  JobMoves(j)
<1>1. /\ JobsOK /\ jobs[j].pc # "idle" /\ HoldsSlot(jobs[j])
      /\ "backoff" \in LiveSteps
      /\ Goto(j, "backoff")
  BY DEF FetchFails, RefreshIInv, HoldsSlot, LiveSteps, Steps
<1>2. \E f \in AnyJob : MayMove(j, f)
  BY <1>1, HoldingGoto
<1> QED
  BY <1>2, StutterType DEF JobMoves, RestStays, FetchFails, managerVars, RefreshIInv

(* The backoff is a natural number of units.                               *)
LEMMA BackoffType ==
  ASSUME NEW m \in Modes
  PROVE  Backoff(m) \in Nat
<1>1. Window[m] \in Nat
  BY RefreshAssumption
<1>2. Window[m] \div 4 \in Nat
  BY <1>1
<1> QED
  BY <1>2 DEF Backoff

(* SetResumeAt leaves the pools and the request counts alone. *)
LEMMA SetResumeKeeps ==
  ASSUME NEW t, NEW m, NEW at, SetResumeAt(t, m, at)
  PROVE  tokens' = tokens /\ inflight' = inflight
BY DEF SetResumeAt, managerVars

(* The backoff leaves the manager well typed and ends the mode.            *)
LEMMA ApplyBackoffMoves ==
  ASSUME RefreshIInv, NEW j \in Jobs, ApplyBackoff(j)
  PROVE  JobMoves(j)
<1> DEFINE at == Now + Backoff(jobs[j].m)
<1>0. JobsOK /\ ManagerTypeOK /\ jobs[j].pc # "idle"
  BY DEF ApplyBackoff, RefreshIInv
<1>1. jobs[j] \in LiveJob /\ jobs[j].t \in Tokens /\ jobs[j].m \in Modes
  BY <1>0, AtStep
<1>2. at \in Nat
  BY <1>1, BackoffType, RefreshAssumption
<1>3. \E f \in AnyJob : MayMove(j, f)
  BY <1>0, <1>1, EndStep DEF ApplyBackoff
<1>4. SetResumeAt(jobs[j].t, jobs[j].m, at) \/ UNCHANGED managerVars
  BY DEF ApplyBackoff, SetResumeAtIfDue
<1> HIDE DEF at
<1>5. ManagerTypeOK'
  BY <1>0, <1>1, <1>2, <1>4, SetResumeType, StutterType
<1>6. tokens' = tokens /\ inflight' = inflight
  BY <1>4, SetResumeKeeps DEF managerVars
<1> QED
  BY <1>3, <1>5, <1>6 DEF JobMoves, RestStays, ApplyBackoff

(* UpdateModeQuota between two steps of a refresh.                         *)
LEMMA InstallMoves ==
  ASSUME RefreshIInv, NEW j \in Jobs, Install(j)
  PROVE  JobMoves(j)
<1>1. /\ JobsOK /\ ManagerTypeOK /\ jobs[j].pc # "idle" /\ HoldsSlot(jobs[j])
      /\ "resume" \in LiveSteps
      /\ Goto(j, "resume")
  BY DEF Install, RefreshIInv, HoldsSlot, LiveSteps, Steps
<1>2. \E f \in AnyJob : MayMove(j, f)
  BY <1>1, HoldingGoto
<1>3. /\ jobs[j].t \in Tokens /\ jobs[j].m \in Modes
      /\ jobs[j].val \in Nat /\ jobs[j].lim \in Nat
  BY <1>1, AtStep
<1>4. UpdateModeQuota(jobs[j].t, jobs[j].m, jobs[j].val, jobs[j].lim)
  BY DEF Install
<1>5. ManagerTypeOK'
  BY <1>1, <1>3, <1>4, UpdateQuotaType
<1>6. tokens' = tokens /\ inflight' = inflight
  BY <1>4 DEF UpdateModeQuota, managerVars
<1> QED
  BY <1>2, <1>5, <1>6 DEF JobMoves, RestStays, Install

(* The resume time follows the quota and ends the mode.                    *)
LEMMA InstallResumeMoves ==
  ASSUME RefreshIInv, NEW j \in Jobs, InstallResume(j)
  PROVE  JobMoves(j)
<1>1. JobsOK /\ ManagerTypeOK /\ jobs[j].pc # "idle"
  BY DEF InstallResume, RefreshIInv
<1>2. /\ jobs[j] \in LiveJob
      /\ jobs[j].t \in Tokens /\ jobs[j].m \in Modes
      /\ jobs[j].wait \in Nat
  BY <1>1, AtStep
<1>3. \E f \in AnyJob : MayMove(j, f)
  BY <1>1, <1>2, EndStep DEF InstallResume
<1>4. PICK at \in Nat : SetResumeAt(jobs[j].t, jobs[j].m, at)
  <2>1. 0 \in Nat /\ Now + jobs[j].wait \in Nat
    BY <1>2, RefreshAssumption
  <2> QED
    BY <2>1 DEF InstallResume, ClearResumeAt
<1>5. ManagerTypeOK'
  BY <1>1, <1>2, <1>4, SetResumeType
<1>6. tokens' = tokens /\ inflight' = inflight
  BY <1>4, SetResumeKeeps
<1> QED
  BY <1>3, <1>5, <1>6 DEF JobMoves, RestStays, InstallResume

(* A local reset installs the catalogue quota.                             *)
LEMMA ToResetType ==
  ASSUME NEW job \in LiveJob
  PROVE  ToReset(job) \in AnyJob /\ KeepsKind(job, ToReset(job))
<1> DEFINE q  == DefaultQuota[job.t][job.m]
           f1 == [job EXCEPT !.pc = "install"]
           f2 == [f1 EXCEPT !.val = q]
           f  == [f2 EXCEPT !.lim = q]
<1>1. q \in Nat
  <2>1. job.t \in Tokens /\ job.m \in Modes
    BY DEF LiveJob
  <2> QED
    BY <2>1, ManagerAssumption
<1>2. ToReset(job) = f
  BY DEF ToReset
<1>3. job.pc # "idle" /\ "install" \in LiveSteps
  BY DEF LiveJob, LiveSteps, Steps
<1> HIDE DEF q
<1>4. f1 \in LiveJob /\ f1.force = job.force /\ f1.late = job.late
  BY <1>3 DEF LiveJob
<1> HIDE DEF f1
<1>5. f2 \in LiveJob /\ f2.force = job.force /\ f2.late = job.late
  BY <1>1, <1>4 DEF LiveJob
<1> HIDE DEF f2
<1>6. f \in LiveJob /\ f.force = job.force /\ f.late = job.late
  BY <1>1, <1>5 DEF LiveJob
<1> HIDE DEF f
<1> QED
  BY <1>2, <1>3, <1>6 DEF KeepsKind, AnyJob

(* A forced refresh of a local mode resets it or leaves it.                *)
LEMMA ForceLocalMoves ==
  ASSUME RefreshIInv, NEW j \in Jobs, ForceLocal(j)
  PROVE  JobMoves(j)
<1>1. JobsOK /\ ManagerTypeOK /\ jobs[j].pc # "idle" /\ HoldsSlot(jobs[j])
  BY DEF ForceLocal, RefreshIInv, HoldsSlot
<1>2. jobs[j] \in LiveJob
  BY <1>1, AtStep
<1>3. \E f \in AnyJob : MayMove(j, f)
  <2>1. CASE quota[jobs[j].t][jobs[j].m] > 0
    <3>1. EndMode(j, TRUE)
      BY <1>1, <2>1 DEF ForceLocal, EndMode, JobsOK
    <3> QED
      BY <1>1, <1>2, <3>1, EndStep
  <2>2. CASE ~(quota[jobs[j].t][jobs[j].m] > 0)
    <3>1. Moved(j, ToReset(jobs[j]))
      BY <1>1, <2>2 DEF ForceLocal, Moved, JobsOK
    <3> QED
      BY <1>1, <1>2, <3>1, ToResetType DEF MayMove
  <2> QED
    BY <2>1, <2>2
<1> QED
  BY <1>3, StutterType DEF JobMoves, RestStays, ForceLocal, managerVars, RefreshIInv

(* A refresh of a local mode looks at the window.                          *)
LEMMA LookLocalMoves ==
  ASSUME RefreshIInv, NEW j \in Jobs, LookLocal(j)
  PROVE  JobMoves(j)
<1> DEFINE at == resumeAt[jobs[j].t][jobs[j].m]
<1>1. JobsOK /\ ManagerTypeOK /\ jobs[j].pc # "idle" /\ HoldsSlot(jobs[j])
  BY DEF LookLocal, RefreshIInv, HoldsSlot
<1>2. jobs[j] \in LiveJob
  BY <1>1, AtStep
<1>3. "check" \in LiveSteps
  BY DEF LiveSteps, Steps
<1>4. \E f \in AnyJob : MayMove(j, f)
  <2>1. CASE at = 0
    <3>1. Goto(j, "check")
      BY <2>1 DEF LookLocal, Goto
    <3> QED
      BY <1>1, <1>3, <3>1, HoldingGoto
  <2>2. CASE at # 0 /\ jobs[j].at < at
    <3>1. Moved(j, Idle)
      BY <2>2 DEF LookLocal, Moved
    <3> QED
      BY <1>1, <3>1, IdleStep
  <2>3. CASE at # 0 /\ ~(jobs[j].at < at)
    <3>1. Moved(j, ToReset(jobs[j]))
      BY <2>3 DEF LookLocal, Moved
    <3> QED
      BY <1>1, <1>2, <3>1, ToResetType DEF MayMove
  <2> QED
    BY <2>1, <2>2, <2>3
<1> QED
  BY <1>4, StutterType DEF JobMoves, RestStays, LookLocal, managerVars, RefreshIInv

(* Without a window the quota decides.                                     *)
LEMMA CheckExhaustedMoves ==
  ASSUME RefreshIInv, NEW j \in Jobs, CheckExhausted(j)
  PROVE  JobMoves(j)
<1>1. JobsOK /\ ManagerTypeOK /\ jobs[j].pc # "idle" /\ HoldsSlot(jobs[j])
  BY DEF CheckExhausted, RefreshIInv, HoldsSlot
<1>2. "start" \in LiveSteps
  BY DEF LiveSteps, Steps
<1>3. \E f \in AnyJob : MayMove(j, f)
  <2>1. CASE quota[jobs[j].t][jobs[j].m] > 0
    <3>1. Moved(j, Idle)
      BY <1>1, <2>1 DEF CheckExhausted, Moved, JobsOK
    <3> QED
      BY <1>1, <3>1, IdleStep
  <2>2. CASE ~(quota[jobs[j].t][jobs[j].m] > 0)
    <3>1. Goto(j, "start")
      BY <1>1, <2>2 DEF CheckExhausted, Goto, JobsOK
    <3> QED
      BY <1>1, <1>2, <3>1, HoldingGoto
  <2> QED
    BY <2>1, <2>2
<1> QED
  BY <1>3, StutterType DEF JobMoves, RestStays, CheckExhausted, managerVars, RefreshIInv

(* A window starts at the time the refresh was scheduled.                  *)
LEMMA StartWindowMoves ==
  ASSUME RefreshIInv, NEW j \in Jobs, StartWindow(j)
  PROVE  JobMoves(j)
<1> DEFINE at == jobs[j].at + Window[jobs[j].m]
<1>1. JobsOK /\ ManagerTypeOK /\ jobs[j].pc # "idle"
  BY DEF StartWindow, RefreshIInv
<1>2. /\ jobs[j] \in LiveJob
      /\ jobs[j].t \in Tokens /\ jobs[j].m \in Modes
      /\ jobs[j].at \in Nat /\ Window[jobs[j].m] \in Nat
  BY <1>1, AtStep
<1>3. \E f \in AnyJob : MayMove(j, f)
  BY <1>1, <1>2, EndStep DEF StartWindow
<1>4. SetResumeAt(jobs[j].t, jobs[j].m, at) /\ at \in Nat
  BY <1>2 DEF StartWindow
<1> HIDE DEF at
<1>5. ManagerTypeOK'
  BY <1>1, <1>2, <1>4, SetResumeType
<1>6. tokens' = tokens /\ inflight' = inflight
  BY <1>4, SetResumeKeeps
<1> QED
  BY <1>3, <1>5, <1>6 DEF JobMoves, RestStays, StartWindow

(* The flush after a forced refresh only clears the dirty set.             *)
LEMMA FlushForcedMoves ==
  ASSUME RefreshIInv, NEW j \in Jobs, FlushForced(j)
  PROVE  JobMoves(j)
<1>1. Moved(j, Idle)
  BY DEF FlushForced, Moved
<1>2. \E f \in AnyJob : MayMove(j, f)
  BY <1>1, IdleStep DEF RefreshIInv
<1>3. ManagerTypeOK'
  BY DEF FlushForced, RefreshIInv, ManagerTypeOK
<1> QED
  BY <1>2, <1>3 DEF JobMoves, RestStays, FlushForced

(* Every step of a refresh has that form.                                  *)
LEMMA JobStepMoves ==
  ASSUME RefreshIInv, NEW j \in Jobs, JobStep(j)
  PROVE  JobMoves(j)
BY AcquireMoves, AcquireFailsMoves, FetchedMoves, FetchFailsMoves, ApplyBackoffMoves,
   InstallMoves, InstallResumeMoves, ForceLocalMoves, LookLocalMoves,
   CheckExhaustedMoves, StartWindowMoves, FlushForcedMoves DEF JobStep

(* So every step of a refresh keeps the invariant.                         *)
LEMMA JobMovesKeep ==
  ASSUME RefreshIInv, NEW j \in Jobs, JobMoves(j)
  PROVE  RefreshIInv'
<1>1. PICK f \in AnyJob : MayMove(j, f)
  BY DEF JobMoves
<1>2. JobsOK'
  BY <1>1, MovedJobs DEF MayMove, RefreshIInv
<1>3. StopWaits'
  BY <1>1, MovedStop DEF MayMove, RefreshIInv, JobMoves, RestStays
<1>4. Slots' <= MaxConcurrent
  BY <1>1, MovedSlots DEF MayMove, RefreshIInv
<1>5. RequestsCounted'
  BY DEF RequestsCounted, JobMoves, RestStays, RefreshIInv
<1>6. MarksOK' /\ UsingOK' /\ KnownUsers' /\ ReportsOK' /\ PhaseOK'
  BY DEF MarksOK, UsingOK, KnownUsers, ReportsOK, PhaseOK, JobMoves, RestStays, RefreshIInv
<1> QED
  BY <1>2, <1>3, <1>4, <1>5, <1>6 DEF RefreshIInv, JobMoves

-----------------------------------------------------------------------------
(* Starting a refresh. *)

(* A new refresh waits for a slot and knows whether it is late.            *)
LEMMA StartKeeps ==
  ASSUME RefreshIInv, NEW j \in Jobs, NEW t \in Tokens, NEW m \in Modes,
         NEW force \in BOOLEAN, Moved(j, NewJob(t, m, force)), phase' = phase
  PROVE  JobsOK' /\ StopWaits' /\ Slots' <= MaxConcurrent
<1> DEFINE f == NewJob(t, m, force)
<1>1. f \in AnyJob /\ f.pc = "wait" /\ f.late = (phase = "stopped")
  BY NewJobType DEF AnyJob
<1> HIDE DEF f
<1>2. Moved(j, f)
  BY DEF f
<1>3. JobsOK'
  BY <1>1, <1>2, MovedJobs DEF RefreshIInv
<1>4. StopWaits'
  BY <1>1, <1>2, MovedStop DEF RefreshIInv
<1>5. Slots' <= MaxConcurrent
  BY <1>1, <1>2, MovedSlots DEF RefreshIInv, HoldsSlot
<1> QED
  BY <1>3, <1>4, <1>5

(* The debounce of one mode starts.                                        *)
LEMMA MarkUpdate ==
  ASSUME MarksOK, NEW t \in Tokens, NEW m \in Modes,
         marked' = [marked EXCEPT ![t][m] = Debounce]
  PROVE  MarksOK'
BY RefreshAssumption DEF MarksOK

(* The scan loop starts a refresh.                                         *)
LEMMA ScanKeeps ==
  ASSUME RefreshIInv, NEW j \in Jobs, NEW t \in Tokens, NEW m \in Modes, Scan(j, t, m)
  PROVE  RefreshIInv'
<1>1. Moved(j, NewJob(t, m, FALSE)) /\ phase' = phase
  BY DEF Scan, StartAuto, Moved
<1>2. JobsOK' /\ StopWaits' /\ Slots' <= MaxConcurrent
  BY <1>1, StartKeeps
<1>3. MarksOK'
  BY MarkUpdate DEF Scan, StartAuto, RefreshIInv
<1>4. ManagerTypeOK' /\ tokens' = tokens /\ inflight' = inflight
  BY StutterType DEF Scan, RefreshIInv, managerVars
<1>5. UsingOK' /\ RequestsCounted' /\ KnownUsers' /\ ReportsOK' /\ PhaseOK'
  BY <1>4 DEF Scan, RefreshIInv, UsingOK, RequestsCounted, KnownUsers, ReportsOK, PhaseOK
<1> QED
  BY <1>2, <1>3, <1>4, <1>5 DEF RefreshIInv

(* An administrator starts a refresh.                                      *)
LEMMA ForceRefreshKeeps ==
  ASSUME RefreshIInv, NEW j \in Jobs, NEW t \in Tokens, ForceRefresh(j, t)
  PROVE  RefreshIInv'
<1> DEFINE m == CHOOSE m \in Supported(t) : TRUE
<1>1. m \in Modes
  BY DEF ForceRefresh, Supported
<1>2. Moved(j, NewJob(t, m, TRUE)) /\ phase' = phase
  BY DEF ForceRefresh, Moved
<1> HIDE DEF m
<1>3. JobsOK' /\ StopWaits' /\ Slots' <= MaxConcurrent
  BY <1>1, <1>2, StartKeeps
<1>4. ManagerTypeOK' /\ tokens' = tokens /\ inflight' = inflight
  BY StutterType DEF ForceRefresh, RefreshIInv, managerVars
<1>5. MarksOK' /\ UsingOK' /\ RequestsCounted' /\ KnownUsers' /\ ReportsOK' /\ PhaseOK'
  BY <1>4 DEF ForceRefresh, RefreshIInv, MarksOK, UsingOK, RequestsCounted, KnownUsers,
              ReportsOK, PhaseOK
<1> QED
  BY <1>3, <1>4, <1>5 DEF RefreshIInv

(* Steps that leave the refreshes alone. *)
LEMMA OthersKeepJobs ==
  ASSUME RefreshIInv, jobs' = jobs, phase' = phase
  PROVE  JobsOK' /\ StopWaits' /\ Slots' <= MaxConcurrent /\ PhaseOK'
BY DEF RefreshIInv, JobsOK, StopWaits, Alive, Slots, PhaseOK

(* A report ends, with a refresh or without.                               *)
LEMMA RequestRefreshKeeps ==
  ASSUME RefreshIInv, NEW r \in reports, RequestRefresh(r)
  PROVE  RefreshIInv'
<1>1. r.t \in Tokens /\ r.m \in Modes
  BY DEF RefreshIInv, ReportsOK
<1>2. ManagerTypeOK' /\ tokens' = tokens /\ inflight' = inflight
  BY StutterType DEF RequestRefresh, RefreshIInv, managerVars
<1>3. ReportsOK'
  <2>1. IsFiniteSet(reports \ {r})
    BY FS_RemoveElement DEF RefreshIInv, ReportsOK
  <2> QED
    BY <2>1 DEF RequestRefresh, RefreshIInv, ReportsOK
<1>4. UsingOK' /\ RequestsCounted' /\ KnownUsers' /\ PhaseOK'
  BY <1>2 DEF RequestRefresh, RefreshIInv, UsingOK, RequestsCounted, KnownUsers, PhaseOK
<1>5. JobsOK' /\ StopWaits' /\ Slots' <= MaxConcurrent /\ MarksOK'
  <2>1. CASE UNCHANGED <<jobs, marked>>
    <3>1. MarksOK'
      BY <2>1 DEF RefreshIInv, MarksOK
    <3> QED
      BY <2>1, <3>1, OthersKeepJobs DEF RequestRefresh
  <2>2. CASE \E j \in Jobs : StartAuto(j, r.t, r.m)
    <3>1. PICK j \in Jobs : StartAuto(j, r.t, r.m)
      BY <2>2
    <3>2. MarksOK'
      BY <1>1, <3>1, MarkUpdate DEF StartAuto, RefreshIInv
    <3>3. Moved(j, NewJob(r.t, r.m, FALSE))
      BY <3>1 DEF StartAuto, Moved
    <3> QED
      BY <1>1, <3>2, <3>3, StartKeeps DEF RequestRefresh
  <2> QED
    BY <2>1, <2>2 DEF RequestRefresh
<1> QED
  BY <1>2, <1>3, <1>4, <1>5 DEF RefreshIInv

(* A report clears the resume time before it asks for a refresh.           *)
LEMMA ReportClearsKeeps ==
  ASSUME RefreshIInv, NEW r \in reports, ReportClearsResume(r)
  PROVE  RefreshIInv'
<1>1. r \in [t : Tokens, m : Modes, step : {"resume", "request"}]
  BY DEF RefreshIInv, ReportsOK
<1>2. SetResumeAt(r.t, r.m, 0) /\ 0 \in Nat
  BY DEF ReportClearsResume, ClearResumeAt
<1>3. ManagerTypeOK' /\ tokens' = tokens /\ inflight' = inflight
  BY <1>1, <1>2, SetResumeType, SetResumeKeeps DEF RefreshIInv
<1>4. ReportsOK'
  <2>1. [r EXCEPT !.step = "request"] \in [t : Tokens, m : Modes, step : {"resume", "request"}]
    BY <1>1
  <2>2. IsFiniteSet(reports \ {r})
    BY FS_RemoveElement DEF RefreshIInv, ReportsOK
  <2>3. IsFiniteSet((reports \ {r}) \cup {[r EXCEPT !.step = "request"]})
    BY <2>2, FS_AddElement
  <2> QED
    BY <2>1, <2>3 DEF ReportClearsResume, RefreshIInv, ReportsOK
<1>5. JobsOK' /\ StopWaits' /\ Slots' <= MaxConcurrent /\ PhaseOK'
  BY OthersKeepJobs DEF ReportClearsResume
<1>6. MarksOK' /\ UsingOK' /\ RequestsCounted' /\ KnownUsers'
  BY <1>3 DEF ReportClearsResume, RefreshIInv, MarksOK, UsingOK, RequestsCounted, KnownUsers
<1> QED
  BY <1>3, <1>4, <1>5, <1>6 DEF RefreshIInv

-----------------------------------------------------------------------------
(* The requests and the manager's count of them. *)

(* The requests of one mode are some of the requests of the token.         *)
LEMMA UnitsBound ==
  ASSUME NEW u \in [Modes -> 0..MaxUse], NEW m \in Modes, IsFiniteSet(Units(u))
  PROVE  Cardinality(Units(u)) \in Nat /\ u[m] <= Cardinality(Units(u))
<1> DEFINE f == [k \in 1..u[m] |-> <<m, k>>]
<1>0. MaxUse \in Nat /\ u[m] \in Nat /\ u[m] <= MaxUse
  BY RefreshAssumption
<1>1. \A k \in 1..u[m] : <<m, k>> \in Units(u)
  BY <1>0 DEF Units
<1>2. f \in Injection(1..u[m], Units(u))
  BY <1>1 DEF Injection, IsInjective
<1>3. Cardinality(1..u[m]) <= Cardinality(Units(u))
  BY <1>2, FS_Injection
<1>4. Cardinality(1..u[m]) = u[m]
  BY <1>0, FS_Interval
<1> QED
  BY <1>3, <1>4, FS_CardinalityType

(* One more request of a mode is one more request.                         *)
LEMMA UnitsAdd ==
  ASSUME NEW u \in [Modes -> 0..MaxUse], NEW m \in Modes, u[m] < MaxUse,
         NEW v, v = [u EXCEPT ![m] = @ + 1], IsFiniteSet(Units(u))
  PROVE  /\ v \in [Modes -> 0..MaxUse]
         /\ IsFiniteSet(Units(v))
         /\ Cardinality(Units(v)) = Cardinality(Units(u)) + 1
<1>0. MaxUse \in Nat /\ u[m] \in Nat /\ u[m] + 1 \in 1..MaxUse
  BY RefreshAssumption
<1>1. Units(v) = Units(u) \cup {<<m, u[m] + 1>>}
  BY <1>0 DEF Units
<1>2. <<m, u[m] + 1>> \notin Units(u)
  BY <1>0 DEF Units
<1>3. v \in [Modes -> 0..MaxUse]
  BY <1>0
<1> QED
  <2> DEFINE S == Units(u)
             x == <<m, u[m] + 1>>
  <2>1. IsFiniteSet(S) /\ x \notin S /\ Units(v) = S \cup {x}
    BY <1>1, <1>2
  <2> HIDE DEF S, x
  <2>2. IsFiniteSet(S \cup {x}) /\ Cardinality(S \cup {x}) = Cardinality(S) + 1
    BY <2>1, FS_AddElement
  <2> QED
    BY <1>3, <2>1, <2>2 DEF S

(* One request less of a mode is one less.                                 *)
LEMMA UnitsRemove ==
  ASSUME NEW u \in [Modes -> 0..MaxUse], NEW m \in Modes, u[m] > 0,
         NEW v, v = [u EXCEPT ![m] = @ - 1], IsFiniteSet(Units(u))
  PROVE  /\ v \in [Modes -> 0..MaxUse]
         /\ IsFiniteSet(Units(v))
         /\ Cardinality(Units(v)) = Cardinality(Units(u)) - 1
<1>0. MaxUse \in Nat /\ u[m] \in 1..MaxUse
  BY RefreshAssumption
<1>1. Units(v) = Units(u) \ {<<m, u[m]>>}
  BY <1>0 DEF Units
<1>2. <<m, u[m]>> \in Units(u)
  BY <1>0 DEF Units
<1>3. v \in [Modes -> 0..MaxUse]
  BY <1>0
<1> QED
  <2> DEFINE S == Units(u)
             x == <<m, u[m]>>
  <2>1. IsFiniteSet(S) /\ x \in S /\ Units(v) = S \ {x}
    BY <1>1, <1>2
  <2> HIDE DEF S, x
  <2>2. IsFiniteSet(S \ {x}) /\ Cardinality(S \ {x}) = Cardinality(S) - 1
    BY <2>1, FS_RemoveElement
  <2> QED
    BY <1>3, <2>1, <2>2 DEF S

(* A request comes or goes: the counter and the requests move together. *)
CountMoves(t, m) ==
  /\ tokens' = tokens
  /\ \/ /\ using[t][m] < MaxUse /\ inflight[t] < MaxUse /\ t \in tokens
        /\ using' = [using EXCEPT ![t][m] = @ + 1]
        /\ inflight' = [inflight EXCEPT ![t] = @ + 1]
     \/ Leave(t, m) /\ ReleaseInflight(t)

(* So the counter stays the number of requests.                            *)
LEMMA CountsKept ==
  ASSUME RefreshIInv, NEW t \in Tokens, NEW m \in Modes, CountMoves(t, m)
  PROVE  UsingOK' /\ RequestsCounted' /\ KnownUsers'
<1>0. /\ using \in [Tokens -> [Modes -> 0..MaxUse]]
      /\ inflight \in [Tokens -> Nat]
      /\ RequestsCounted /\ KnownUsers
      /\ MaxUse \in Nat
  BY RefreshAssumption DEF RefreshIInv, UsingOK, ManagerTypeOK
<1> DEFINE u == using[t]
<1>1. /\ u \in [Modes -> 0..MaxUse]
      /\ IsFiniteSet(Units(u))
      /\ inflight[t] = Cardinality(Units(u))
      /\ inflight[t] <= MaxUse
      /\ u[m] \in 0..MaxUse
  BY <1>0 DEF RequestsCounted
<1>2. u[m] <= inflight[t]
  BY <1>1, UnitsBound
<1>3. \E v \in [Modes -> 0..MaxUse] :
        /\ using' = [using EXCEPT ![t] = v]
        /\ IsFiniteSet(Units(v))
        /\ inflight'[t] = Cardinality(Units(v))
        /\ inflight'[t] <= MaxUse
        /\ t \notin tokens => \A n \in Modes : v[n] = 0
  <2>1. CASE /\ using[t][m] < MaxUse /\ inflight[t] < MaxUse /\ t \in tokens
             /\ using' = [using EXCEPT ![t][m] = @ + 1]
             /\ inflight' = [inflight EXCEPT ![t] = @ + 1]
    <3> DEFINE v == [u EXCEPT ![m] = @ + 1]
    <3>1. using' = [using EXCEPT ![t] = v]
      BY <1>0, <2>1
    <3>2. /\ v \in [Modes -> 0..MaxUse]
          /\ IsFiniteSet(Units(v))
          /\ Cardinality(Units(v)) = Cardinality(Units(u)) + 1
      BY <1>1, <2>1, UnitsAdd
    <3>3. inflight'[t] = inflight[t] + 1 /\ inflight[t] \in Nat
      BY <1>0, <2>1
    <3>4. inflight'[t] = Cardinality(Units(v)) /\ inflight'[t] <= MaxUse
      BY <1>0, <1>1, <2>1, <3>2, <3>3
    <3> HIDE DEF v, u
    <3> QED
      BY <2>1, <3>1, <3>2, <3>4
  <2>2. CASE Leave(t, m) /\ ReleaseInflight(t)
    <3> DEFINE v == [u EXCEPT ![m] = @ - 1]
    <3>0. u[m] > 0
      BY <2>2 DEF Leave
    <3>1. using' = [using EXCEPT ![t] = v]
      BY <1>0, <2>2 DEF Leave
    <3>2. /\ v \in [Modes -> 0..MaxUse]
          /\ IsFiniteSet(Units(v))
          /\ Cardinality(Units(v)) = Cardinality(Units(u)) - 1
      BY <1>1, <3>0, UnitsRemove
    <3>3. inflight'[t] = inflight[t] - 1 /\ inflight[t] \in Nat
      BY <1>0, <1>1, <1>2, <2>2, <3>0 DEF ReleaseInflight
    <3>4. t \in tokens
      BY <1>0, <3>0 DEF KnownUsers
    <3>5. inflight'[t] = Cardinality(Units(v)) /\ inflight'[t] <= MaxUse
      BY <1>0, <1>1, <3>2, <3>3
    <3> HIDE DEF v, u
    <3> QED
      BY <3>1, <3>2, <3>4, <3>5
  <2> QED
    BY <2>1, <2>2 DEF CountMoves
<1>4. PICK v \in [Modes -> 0..MaxUse] :
        /\ using' = [using EXCEPT ![t] = v]
        /\ IsFiniteSet(Units(v))
        /\ inflight'[t] = Cardinality(Units(v))
        /\ inflight'[t] <= MaxUse
        /\ t \notin tokens => \A n \in Modes : v[n] = 0
  BY <1>3
<1>5. UsingOK'
  BY <1>0, <1>4 DEF UsingOK
<1>6. \A s \in Tokens : s # t => using'[s] = using[s] /\ inflight'[s] = inflight[s]
  BY <1>0, <1>4 DEF CountMoves, ReleaseInflight
<1>7. using'[t] = v
  BY <1>0, <1>4
<1>8. RequestsCounted'
  BY <1>0, <1>4, <1>6, <1>7 DEF RequestsCounted
<1>9. KnownUsers'
  BY <1>0, <1>4, <1>6, <1>7 DEF KnownUsers, CountMoves
<1> QED
  BY <1>5, <1>8, <1>9

(* A request that ends used a token the manager knows.                     *)
LEMMA LeavingKnown ==
  ASSUME RefreshIInv, NEW t \in Tokens, NEW m \in Modes, Leave(t, m)
  PROVE  t \in tokens
BY DEF RefreshIInv, KnownUsers, Leave

(* A pick counts the request it hands the token to.                        *)
LEMMA PickModeKeeps ==
  ASSUME RefreshIInv, NEW t \in Tokens, NEW m \in Modes, PickMode(t, m)
  PROVE  RefreshIInv'
<1>0. ManagerTypeOK /\ MaxUse \in Nat /\ inflight[t] \in Nat /\ using[t][m] \in Nat
  BY RefreshAssumption DEF RefreshIInv, ManagerTypeOK, UsingOK
<1>1. quota[t][m] > 0
  BY <1>0, SelectableFacts DEF PickMode
<1>2. ManagerTypeOK'
  BY <1>0, <1>1, PickType DEF PickMode
<1>3. inflight[t] < MaxUse
  <2>1. Cardinality(reports) \in Nat
    BY FS_CardinalityType DEF RefreshIInv, ReportsOK
  <2> QED
    BY <1>0, <2>1 DEF PickMode
<1>4. using[t][m] <= inflight[t]
  BY UnitsBound DEF RefreshIInv, UsingOK, RequestsCounted
<1>5. t \in tokens
  BY DEF PickMode, Selectable, ByAlgorithm, TopTier, Usable
<1>6. UsingOK' /\ RequestsCounted' /\ KnownUsers'
  <2>1. CountMoves(t, m)
    BY <1>0, <1>3, <1>4, <1>5 DEF CountMoves, PickMode, Pick
  <2> QED
    BY <2>1, CountsKept
<1>7. JobsOK' /\ StopWaits' /\ Slots' <= MaxConcurrent /\ PhaseOK'
  BY OthersKeepJobs DEF PickMode
<1>8. MarksOK' /\ ReportsOK'
  BY DEF PickMode, RefreshIInv, MarksOK, ReportsOK
<1> QED
  BY <1>2, <1>6, <1>7, <1>8 DEF RefreshIInv

(* A request that ends without a 429 gives its count back.                 *)
LEMMA LeaveKeeps ==
  ASSUME RefreshIInv, NEW t \in Tokens, NEW m \in Modes,
         Succeed(t, m) \/ RefundAndLeave(t, m) \/ Expire(t, m)
  PROVE  RefreshIInv'
<1>0. ManagerTypeOK /\ t \in tokens
  BY LeavingKnown DEF RefreshIInv, Succeed, RefundAndLeave, Expire
<1>1. ManagerTypeOK'
  <2>1. CASE Succeed(t, m)
    BY <1>0, <2>1, MarkSuccessType DEF Succeed
  <2>2. CASE Expire(t, m)
    BY <1>0, <2>2, MarkExpiredType DEF Expire
  <2>3. CASE RefundAndLeave(t, m)
    <3>1. Refunded(quota[t][m], limit[t][m]) \in Nat
      BY <1>0, RefundedBound DEF ManagerTypeOK
    <3>2. quota' \in [Tokens -> [Modes -> Nat]]
      <4>1. quota' = [quota EXCEPT ![t][m] = Refunded(quota[t][m], limit[t][m])]
        BY <2>3 DEF RefundAndLeave
      <4>2. quota \in [Tokens -> [Modes -> Nat]]
        BY <1>0 DEF ManagerTypeOK
      <4> QED
        BY <3>1, <4>1, <4>2, CellUpdate
    <3>3. inflight' \in [Tokens -> Nat]
      BY <1>0, <2>3, ReleaseType DEF RefundAndLeave
    <3> QED
      BY <1>0, <2>3, <3>2, <3>3 DEF RefundAndLeave, ManagerTypeOK, MarkDirty
  <2> QED
    BY <2>1, <2>2, <2>3
<1>2. CountMoves(t, m)
  BY <1>0 DEF CountMoves, Succeed, RefundAndLeave, Expire, MarkSuccess, MarkExpired
<1>3. UsingOK' /\ RequestsCounted' /\ KnownUsers'
  BY <1>2, CountsKept
<1>4. JobsOK' /\ StopWaits' /\ Slots' <= MaxConcurrent /\ PhaseOK'
  BY OthersKeepJobs DEF Succeed, RefundAndLeave, Expire
<1>5. MarksOK' /\ ReportsOK'
  BY DEF Succeed, RefundAndLeave, Expire, RefreshIInv, MarksOK, ReportsOK
<1> QED
  BY <1>1, <1>3, <1>4, <1>5 DEF RefreshIInv

(* A 429 clears the mode, gives the count back and leaves a report.        *)
LEMMA ReportRateLimitKeeps ==
  ASSUME RefreshIInv, NEW t \in Tokens, NEW m \in Modes, ReportRateLimit(t, m)
  PROVE  RefreshIInv'
<1>0. ManagerTypeOK /\ t \in tokens
  BY LeavingKnown DEF RefreshIInv, ReportRateLimit
<1>1. ManagerTypeOK'
  BY <1>0, ClearModeType DEF ReportRateLimit
<1>2. CountMoves(t, m)
  BY <1>0 DEF CountMoves, ReportRateLimit, ClearModeQuota
<1>3. UsingOK' /\ RequestsCounted' /\ KnownUsers'
  BY <1>2, CountsKept
<1>4. JobsOK' /\ StopWaits' /\ Slots' <= MaxConcurrent /\ PhaseOK'
  BY OthersKeepJobs DEF ReportRateLimit
<1>5. MarksOK'
  BY DEF ReportRateLimit, RefreshIInv, MarksOK
<1>6. ReportsOK'
  <2> DEFINE r == [t |-> t, m |-> m, step |-> "resume"]
  <2>1. r \in [t : Tokens, m : Modes, step : {"resume", "request"}]
    OBVIOUS
  <2> HIDE DEF r
  <2>2. IsFiniteSet(reports \cup {r})
    BY FS_AddElement DEF RefreshIInv, ReportsOK
  <2>3. reports' = reports \cup {r}
    BY DEF ReportRateLimit, r
  <2> QED
    BY <2>1, <2>2, <2>3 DEF RefreshIInv, ReportsOK
<1> QED
  BY <1>1, <1>3, <1>4, <1>5, <1>6 DEF RefreshIInv

-----------------------------------------------------------------------------
(* Time and stop. *)

(* Time moves the start of a refresh only.                                 *)
LEMMA AgedType ==
  ASSUME NEW job \in LiveJob
  PROVE  /\ Aged(job) \in LiveJob
         /\ Aged(job).pc = job.pc
         /\ Aged(job).force = job.force
         /\ Aged(job).late = job.late
<1>1. Earlier(job.at) \in Nat
  BY DEF Earlier, LiveJob
<1>2. [job EXCEPT !.at = Earlier(job.at)] \in LiveJob
  BY <1>1 DEF LiveJob
<1>3. /\ [job EXCEPT !.at = Earlier(job.at)].pc = job.pc
      /\ [job EXCEPT !.at = Earlier(job.at)].force = job.force
      /\ [job EXCEPT !.at = Earlier(job.at)].late = job.late
  BY DEF LiveJob
<1> QED
  BY <1>2, <1>3 DEF Aged

(* The clock moves every stored instant.                                   *)
LEMMA TickKeeps ==
  ASSUME RefreshIInv, Tick
  PROVE  RefreshIInv'
<1>1. \A j \in Jobs :
        /\ jobs'[j] \in AnyJob
        /\ jobs'[j].pc = jobs[j].pc
        /\ jobs[j].pc # "idle" =>
             jobs'[j].force = jobs[j].force /\ jobs'[j].late = jobs[j].late
  <2> TAKE j \in Jobs
  <2>1. CASE j \in Alive
    <3>1. jobs[j] \in LiveJob
      BY <2>1, AtStep DEF RefreshIInv, Alive
    <3>2. jobs'[j] = Aged(jobs[j])
      BY <2>1 DEF Tick
    <3> QED
      BY <3>1, <3>2, AgedType DEF AnyJob
  <2>2. CASE j \notin Alive
    BY <2>2 DEF Tick, Alive, AnyJob, Idle
  <2> QED
    BY <2>1, <2>2
<1>2. JobsOK'
  <2>1. jobs' = [j \in Jobs |-> jobs'[j]]
    BY DEF Tick
  <2> QED
    BY <1>1, <2>1 DEF JobsOK
<1>3. StopWaits'
  BY <1>1 DEF StopWaits, Alive, Tick, RefreshIInv
<1>4. Slots' <= MaxConcurrent
  <2>1. HoldersOf(jobs') = HoldersOf(jobs)
    BY <1>1 DEF HoldersOf, HoldsSlot
  <2> QED
    BY <2>1, SlotsAreHolders, SlotsAreHoldersNext DEF RefreshIInv
<1>5. resumeAt' \in [Tokens -> [Modes -> Nat]]
  BY DEF Tick, RefreshIInv, ManagerTypeOK, Earlier
<1>6. ManagerTypeOK'
  BY <1>5 DEF Tick, RefreshIInv, ManagerTypeOK
<1>7. MarksOK'
  BY RefreshAssumption DEF Tick, RefreshIInv, MarksOK
<1>8. UsingOK' /\ RequestsCounted' /\ KnownUsers' /\ ReportsOK' /\ PhaseOK'
  BY DEF Tick, RefreshIInv, UsingOK, RequestsCounted, KnownUsers, ReportsOK, PhaseOK
<1> QED
  BY <1>2, <1>3, <1>4, <1>6, <1>7, <1>8 DEF RefreshIInv

(* Stop, and its return when no automatic refresh is left.                 *)
LEMMA StopKeeps ==
  ASSUME RefreshIInv, Stop \/ StopReturns
  PROVE  RefreshIInv'
<1>1. StopWaits'
  BY DEF Stop, StopReturns, StopWaits, Alive, RefreshIInv
<1>2. JobsOK' /\ Slots' <= MaxConcurrent
  BY DEF Stop, StopReturns, JobsOK, Slots, Alive, RefreshIInv
<1>3. ManagerTypeOK' /\ tokens' = tokens /\ inflight' = inflight
  BY StutterType DEF Stop, StopReturns, RefreshIInv, managerVars
<1>4. MarksOK' /\ UsingOK' /\ RequestsCounted' /\ KnownUsers' /\ ReportsOK' /\ PhaseOK'
  BY <1>3 DEF Stop, StopReturns, RefreshIInv, MarksOK, UsingOK, RequestsCounted, KnownUsers,
              ReportsOK, PhaseOK
<1> QED
  BY <1>1, <1>2, <1>3, <1>4 DEF RefreshIInv

-----------------------------------------------------------------------------
(* The scheduler starts on a freshly loaded manager.                       *)
LEMMA RefreshIInvInit ==
  Init => RefreshIInv
<1> SUFFICES ASSUME Init PROVE RefreshIInv
  OBVIOUS
<1> USE DEF Init, SchedulerInit
<1>1. ManagerTypeOK
  BY ManagerAssumption DEF ManagerInit, ManagerTypeOK, Statuses
<1>2. JobsOK
  BY DEF JobsOK, AnyJob
<1>3. HoldersOf(jobs) = {}
  BY DEF HoldersOf, HoldsSlot, Idle
<1>4. Slots <= MaxConcurrent
  BY <1>3, SlotsAreHolders, FS_EmptySet, RefreshAssumption
<1>5. StopWaits /\ PhaseOK
  BY DEF StopWaits, PhaseOK
<1>6. MarksOK /\ UsingOK
  BY RefreshAssumption DEF MarksOK, UsingOK
<1>7. RequestsCounted
  <2>1. \A t \in Tokens : Units(using[t]) = {}
    BY RefreshAssumption DEF Units
  <2>2. \A t \in Tokens : inflight[t] = 0
    BY DEF ManagerInit
  <2> QED
    BY <2>1, <2>2, FS_EmptySet, RefreshAssumption DEF RequestsCounted
<1>8. KnownUsers
  BY DEF ManagerInit, KnownUsers
<1>9. ReportsOK
  BY FS_EmptySet DEF ReportsOK
<1> QED
  BY <1>1, <1>2, <1>4, <1>5, <1>6, <1>7, <1>8, <1>9 DEF RefreshIInv

(* Every step keeps the invariant.                                         *)
LEMMA RefreshIInvNext ==
  RefreshIInv /\ [Next]_vars => RefreshIInv'
<1> SUFFICES ASSUME RefreshIInv, [Next]_vars PROVE RefreshIInv'
  OBVIOUS
<1>1. CASE \E j \in Jobs : JobStep(j)
  BY <1>1, JobStepMoves, JobMovesKeep
<1>2. CASE \E j \in Jobs, t \in Tokens : ForceRefresh(j, t)
  BY <1>2, ForceRefreshKeeps
<1>3. CASE \E j \in Jobs, t \in Tokens, m \in Modes : Scan(j, t, m)
  BY <1>3, ScanKeeps
<1>4. CASE \E t \in Tokens, m \in Modes : Request(t, m)
  BY <1>4, PickModeKeeps, LeaveKeeps, ReportRateLimitKeeps DEF Request
<1>5. CASE Report
  BY <1>5, ReportClearsKeeps, RequestRefreshKeeps DEF Report
<1>6. CASE Tick
  BY <1>6, TickKeeps
<1>7. CASE Stop \/ StopReturns
  BY <1>7, StopKeeps
<1>8. CASE UNCHANGED vars
  <2>1. ManagerTypeOK'
    BY <1>8, StutterType DEF vars, RefreshIInv, managerVars
  <2>2. JobsOK' /\ StopWaits' /\ Slots' <= MaxConcurrent /\ PhaseOK'
    BY <1>8, OthersKeepJobs DEF vars
  <2>3. MarksOK' /\ UsingOK' /\ RequestsCounted' /\ KnownUsers' /\ ReportsOK'
    BY <1>8 DEF vars, managerVars, RefreshIInv, MarksOK, UsingOK, RequestsCounted,
                KnownUsers, ReportsOK
  <2> QED
    BY <2>1, <2>2, <2>3 DEF RefreshIInv
<1> QED
  BY <1>1, <1>2, <1>3, <1>4, <1>5, <1>6, <1>7, <1>8 DEF Next

(* The inductive invariant holds in every state.                           *)
LEMMA RefreshIInvAlways ==
  Spec => []RefreshIInv
BY RefreshIInvInit, RefreshIInvNext, PTL DEF Spec

(* It contains what the run checks.                                        *)
LEMMA RefreshIInvEnough ==
  RefreshIInv => RefreshInv
BY JobShape DEF RefreshIInv, RefreshInv, RefreshTypeOK, JobsOK, MarksOK, UsingOK, PhaseOK

(* For any modes, tokens, upstream answers and number of refreshes: the    *)
(* semaphore is never overdrawn, the maps keep their types, and no         *)
(* automatic refresh survives a Stop that returned unless a later 429      *)
(* asked for it (acquireGlobal, Stop of refresh.go).                       *)
THEOREM RefreshAlwaysHolds ==
  Spec => []RefreshInv
BY RefreshIInvAlways, RefreshIInvEnough, PTL

(* The in-flight counter of a token is exactly the number of requests      *)
(* using it, whatever the refreshes do meanwhile (pick, releaseInflight of *)
(* manager.go).                                                            *)
THEOREM InflightCountsRequests ==
  Spec => []RequestsCounted
<1>1. RefreshIInv => RequestsCounted
  BY DEF RefreshIInv
<1> QED
  BY <1>1, RefreshIInvAlways, PTL

=============================================================================
