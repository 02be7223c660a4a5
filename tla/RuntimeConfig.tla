----------------------------- MODULE RuntimeConfig -----------------------------
(***************************************************************************)
(* The live configuration (config.Runtime), the rows it is persisted in    *)
(* (ConfigStore), and their two writers: the administrator's PUT, which    *)
(* changes a snapshot, saves what it changed and then stores the whole     *)
(* snapshot, and the Cloudflare refresh, which changes the configuration   *)
(* under the Runtime's lock and saves afterwards.  Around them the         *)
(* process: its start from the file and the rows, its shutdown, a crash.   *)
(*                                                                         *)
(* Five settings stand for all: the administrator's key, one the start     *)
(* validates and PUT does not (the window of the address limit), one the   *)
(* token manager gets a copy of, the clearance cookies, and the switch of  *)
(* the Cloudflare refresh.                                                 *)
(***************************************************************************)
EXTENDS Integers

CONSTANTS
  Admins,      \* PUT requests in progress at a time, used again and again
  Generated,   \* the random keys a start may draw
  MaxPuts      \* bound: the PUTs ever begun

ASSUME RuntimeConfigAssumption ==
  MaxPuts \in Nat /\ Generated \cap {"none", "own"} = {}

Keys == {"app_key", "window", "threshold", "cookies", "enabled"}

(* What a PUT may set each to; window 0 is accepted, an empty app_key and  *)
(* the mask of a secret are not taken over.                                *)
Settable ==
  [app_key |-> {"own"}, window |-> {0, 1}, threshold |-> {1, 2},
   cookies |-> {"put"}, enabled |-> BOOLEAN]

Configs == [app_key : {"none", "own"} \cup Generated, window : {0, 1}, threshold : {1, 2},
            cookies : {"none", "put", "solved"}, enabled : BOOLEAN]

(* The configuration file: no administrator's key is set.                  *)
File == [app_key |-> "none", window |-> 1, threshold |-> 1, cookies |-> "none", enabled |-> TRUE]

NoPut == [pc |-> "idle"]

VARIABLES
  phase,       \* of the process: running, stopping, down, or refusing to start
  runtime,     \* Runtime.current
  managed,     \* the threshold the token manager works with
  bootKey,     \* the key drawn at the last start, for want of a configured one
  kvs,         \* the rows of config_entries, a function on the keys saved
  put,         \* each PUT: its snapshot with the change, and the change
  cf,          \* the scheduler's goroutine
  trigger,     \* triggerCh holds a trigger
  recent,      \* the last refresh is within the cooldown
  puts,        \* bound: PUTs begun
  diverged     \* history of this process: a save failed, rows were not read,
               \* one writer wrote while another was between its steps, or
               \* the process ended between two steps of one

processVars == <<phase, runtime, managed, bootKey, kvs>>
cfVars      == <<cf, trigger, recent>>
configVars  == <<processVars, put, cfVars, puts, diverged>>

ConfigTypeOK ==
  /\ phase \in {"running", "stopping", "down", "failed"}
  /\ runtime \in Configs /\ managed \in {1, 2} /\ bootKey \in {"none"} \cup Generated
  /\ DOMAIN kvs \subseteq Keys
  /\ \A a \in Admins : put[a].pc \in {"idle", "taken", "saved", "stored"}
  /\ cf \in {"select", "solving", "solved", "updated", "done"}
  /\ trigger \in BOOLEAN /\ recent \in BOOLEAN /\ diverged \in BOOLEAN

Alive == phase \in {"running", "stopping"}

(* ApplyDBOverrides: the row before the file, the file before the default; *)
(* it refuses values that PUT accepts.                                     *)
Value(k, config) == IF k \in DOMAIN kvs THEN kvs[k] ELSE config[k]
Overridden(config) == [k \in Keys |-> Value(k, config)]
Valid == "window" \in DOMAIN kvs => kvs["window"] > 0

(* EnsureAdminAppKey: where none is configured, the key drawn by this      *)
(* start stands in.                                                        *)
WithAdminKey(config, key) == [config EXCEPT !.app_key = IF @ = "none" THEN key ELSE @]

(* What the rows say, with the key this process has drawn.                 *)
Loaded == WithAdminKey(Overridden(File), bootKey)

(* Writers between their first and their last step.                        *)
Writing == {a \in Admins : put[a].pc # "idle"}
Busy(others) == others # {} \/ cf \in {"solved", "updated"}

(* A writer has written one of configuration, rows and copy, not the rest. *)
Halfway == (\E a \in Writing : put[a].pc # "taken") \/ cf = "updated"

(* The process comes up with this configuration.                           *)
Up(config) ==
  /\ phase' = "running"
  /\ runtime' = config /\ managed' = config.threshold
  /\ put' = [a \in Admins |-> NoPut]
  /\ cf' = IF config.enabled THEN "solving" ELSE "select"
  /\ trigger' = FALSE /\ recent' = FALSE

(* The process has not been started yet. *)
ConfigInit ==
  /\ phase = "down"
  /\ kvs = << >> /\ bootKey = "none"
  /\ runtime = File /\ managed = File.threshold
  /\ put = [a \in Admins |-> NoPut]
  /\ cf = "done" /\ trigger = FALSE /\ recent = FALSE
  /\ puts = 0 /\ diverged = FALSE

(* The change of one setting.                                              *)
Entry(k, v) == [key \in {k} |-> v]

(* Upserts, in one transaction.                                            *)
SetMany(update) ==
  kvs' = [k \in DOMAIN update \cup DOMAIN kvs |->
            IF k \in DOMAIN update THEN update[k] ELSE kvs[k]]

-----------------------------------------------------------------------------
(* PUT /config (handlePutConfigRuntime).                                   *)

(* Snapshot, the checks, and the change of the copy.                       *)
PutTake(a, k, v) ==
  /\ Alive /\ put[a] = NoPut /\ puts < MaxPuts
  /\ put' = [put EXCEPT ![a] = [pc |-> "taken", snapshot |-> [runtime EXCEPT ![k] = v],
                                update |-> Entry(k, v)]]
  /\ puts' = puts + 1
  /\ diverged' = (diverged \/ Busy(Writing))
  /\ UNCHANGED <<processVars, cfVars>>

(* Mutant: the whole snapshot is saved. *)
PutSaveAll(a) ==
  /\ Alive /\ put[a].pc = "taken"
  /\ kvs' = put[a].snapshot
  /\ put' = [put EXCEPT ![a].pc = "saved"]
  /\ UNCHANGED <<phase, runtime, managed, bootKey, cfVars, puts, diverged>>

(* Only what the request named is saved.                                   *)
PutSave(a) ==
  /\ Alive /\ put[a].pc = "taken"
  /\ SetMany(put[a].update)
  /\ put' = [put EXCEPT ![a].pc = "saved"]
  /\ UNCHANGED <<phase, runtime, managed, bootKey, cfVars, puts, diverged>>

(* Its failure is answered with 500 and nothing is changed. *)
PutSaveFails(a) ==
  /\ Alive /\ put[a].pc = "taken"
  /\ put' = [put EXCEPT ![a] = NoPut]
  /\ UNCHANGED <<processVars, cfVars, puts, diverged>>

(* Runtime.Store: the whole snapshot, without the lock. *)
PutStore(a) ==
  /\ Alive /\ put[a].pc = "saved"
  /\ runtime' = put[a].snapshot
  /\ put' = [put EXCEPT ![a].pc = "stored"]
  /\ UNCHANGED <<phase, managed, bootKey, kvs, cfVars, puts, diverged>>

(* onSuccess: the token settings go to the manager. *)
PutSync(a) ==
  /\ Alive /\ put[a].pc = "stored"
  /\ managed' = put[a].snapshot.threshold
  /\ put' = [put EXCEPT ![a] = NoPut]
  /\ UNCHANGED <<phase, runtime, bootKey, kvs, cfVars, puts, diverged>>

-----------------------------------------------------------------------------
(* The Cloudflare refresh (cfrefresh.Scheduler).                           *)

(* A 403 in a flow; debounced, and one trigger waits at most. *)
TriggerRefresh ==
  /\ Alive /\ runtime.enabled /\ ~recent /\ ~trigger
  /\ trigger' = TRUE
  /\ UNCHANGED <<processVars, put, cf, recent, puts, diverged>>

CooldownEnds ==
  /\ Alive /\ recent
  /\ recent' = FALSE
  /\ UNCHANGED <<processVars, put, cf, trigger, puts, diverged>>

RefreshIfEnabled == cf' = IF runtime.enabled THEN "solving" ELSE "select"

TakeTrigger ==
  /\ Alive /\ cf = "select" /\ trigger
  /\ trigger' = FALSE
  /\ RefreshIfEnabled
  /\ UNCHANGED <<processVars, put, recent, puts, diverged>>

IntervalEnds ==
  /\ Alive /\ cf = "select" /\ runtime.enabled
  /\ RefreshIfEnabled
  /\ UNCHANGED <<processVars, put, trigger, recent, puts, diverged>>

(* FlareSolverr answers with cookies; ... *)
SolveCFChallenge ==
  /\ Alive /\ cf = "solving"
  /\ cf' = "solved"
  /\ diverged' = (diverged \/ Busy(Writing))
  /\ UNCHANGED <<processVars, put, trigger, recent, puts>>

(* ... or it fails, or not in time: the configuration stays. *)
SolveFails ==
  /\ Alive /\ cf = "solving"
  /\ cf' = "select"
  /\ UNCHANGED <<processVars, put, trigger, recent, puts, diverged>>

(* Runtime.Update and lastRefresh. *)
UpdateCookies ==
  /\ Alive /\ cf = "solved"
  /\ runtime' = [runtime EXCEPT !.cookies = "solved"]
  /\ recent' = TRUE
  /\ cf' = "updated"
  /\ UNCHANGED <<phase, managed, bootKey, kvs, put, trigger, puts, diverged>>

(* Mutant: the cookies are not saved. *)
SaveCookiesNot ==
  /\ Alive /\ cf = "updated"
  /\ cf' = "select"
  /\ UNCHANGED <<processVars, put, trigger, recent, puts, diverged>>

(* SetMany; its failure is only logged. *)
SaveCookies ==
  /\ Alive /\ cf = "updated"
  /\ \/ SetMany(Entry("cookies", "solved")) /\ UNCHANGED diverged
     \/ UNCHANGED kvs /\ diverged' = TRUE
  /\ cf' = "select"
  /\ UNCHANGED <<phase, runtime, managed, bootKey, put, trigger, recent, puts>>

(* Mutant: only the timer ends the wait. *)
SchedulerDeaf ==
  /\ phase = "stopping" /\ cf = "select" /\ ~runtime.enabled
  /\ cf' = "done"
  /\ UNCHANGED <<processVars, put, trigger, recent, puts, diverged>>

(* The select finds stopped closed. *)
SchedulerStops ==
  /\ phase = "stopping" /\ cf = "select"
  /\ cf' = "done"
  /\ UNCHANGED <<processVars, put, trigger, recent, puts, diverged>>

-----------------------------------------------------------------------------
(* The process (main.run).                                                 *)

(* A signal; the PUTs that are not done when the shutdown gives up on them *)
(* go on until the process ends.                                           *)
Shutdown ==
  /\ phase = "running"
  /\ phase' = "stopping"
  /\ UNCHANGED <<runtime, managed, bootKey, kvs, put, cfVars, puts, diverged>>

Down ==
  /\ phase' = "down"
  /\ put' = [a \in Admins |-> NoPut]
  /\ cf' = "done" /\ trigger' = FALSE /\ recent' = FALSE
  /\ diverged' = (diverged \/ Halfway)
  /\ UNCHANGED <<runtime, managed, bootKey, kvs, puts>>

(* Scheduler.Stop has returned. *)
Exit == phase = "stopping" /\ cf = "done" /\ Down

Crash == Alive /\ Down

Start ==
  /\ phase = "down" /\ Valid
  /\ \E key \in Generated \ {bootKey} :
       bootKey' = key /\ Up(WithAdminKey(Overridden(File), key))
  /\ diverged' = FALSE
  /\ UNCHANGED <<kvs, puts>>

(* GetAll fails: the process starts with the file's settings. *)
StartWithoutRows ==
  /\ phase = "down"
  /\ \E key \in Generated \ {bootKey} : bootKey' = key /\ Up(WithAdminKey(File, key))
  /\ diverged' = TRUE
  /\ UNCHANGED <<kvs, puts>>

(* A row that ApplyDBOverrides refuses: the process does not start. *)
StartFails ==
  /\ phase = "down" /\ ~Valid
  /\ phase' = "failed"
  /\ UNCHANGED <<runtime, managed, bootKey, kvs, put, cfVars, puts, diverged>>

ConfigNext ==
  \/ \E a \in Admins :
       \/ \E k \in Keys : \E v \in Settable[k] : PutTake(a, k, v)
       \/ PutSave(a) \/ PutSaveFails(a) \/ PutStore(a) \/ PutSync(a)
  \/ TriggerRefresh \/ CooldownEnds \/ TakeTrigger \/ IntervalEnds
  \/ SolveCFChallenge \/ SolveFails \/ UpdateCookies \/ SaveCookies \/ SchedulerStops
  \/ Shutdown \/ Exit \/ Crash \/ Start \/ StartWithoutRows \/ StartFails

(* The select prefers none of its cases; FlareSolverr's client has a       *)
(* timeout; the goroutine goes on.                                         *)
ConfigFairness ==
  /\ WF_configVars(SolveCFChallenge \/ SolveFails) /\ WF_configVars(UpdateCookies) /\ WF_configVars(SaveCookies)
  /\ SF_configVars(TakeTrigger) /\ SF_configVars(SchedulerStops)
  /\ WF_configVars(Exit)

-----------------------------------------------------------------------------
(* Properties.                                                             *)

(* admin_bootstrap.go:15: the generated key "must not be persisted by      *)
(* callers", although every PUT's snapshot holds it.                       *)
BootstrapStaysInMemory == "app_key" \in DOMAIN kvs => kvs["app_key"] \notin Generated

(* The configured administrator's key is kept; a drawn one gives way to    *)
(* another, which ends the sessions signed with it.                        *)
KeyAfterRestart(old, new) ==
  /\ old = "own" => new = "own"
  /\ old \in Generated => new \in Generated \ {old}

(* The process comes up again with the settings that were in use when it   *)
(* ended, by a stop or a crash, down to the token manager's copy, and not  *)
(* with the administrator's key it had drawn; it refuses to if the window  *)
(* in use is the 0 a PUT accepts and ApplyDBOverrides does not.  Nothing   *)
(* is claimed where a save failed, the rows cannot be read, two writers    *)
(* overlapped or the process ended in the middle of one.                   *)
RestartKeepsSettings ==
  [][phase = "down" /\ phase' # "down" /\ ~diverged /\ ~diverged' =>
       IF runtime.window = 0
       THEN phase' = "failed"
       ELSE /\ phase' = "running" /\ managed' = managed
            /\ \A k \in Keys \ {"app_key"} : runtime'[k] = runtime[k]
            /\ KeyAfterRestart(runtime.app_key, runtime'.app_key)]_configVars

(* A trigger is taken up, however timers and stops compete with it.        *)
TriggerIsServed == trigger ~> ~trigger

(* Scheduler.Stop returns, also from a refresh in progress.                *)
ShutdownEnds == (phase = "stopping") ~> (phase # "stopping")

=============================================================================
