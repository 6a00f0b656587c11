-------------------------- MODULE SupervisorState ---------------------------
(***************************************************************************)
(* The state of the supervisor process (supervisor.py) and the vocabulary  *)
(* in which Supervisor describes its steps.                                *)
(*                                                                         *)
(* `pc' is where the main thread is.  A step of the main thread is the     *)
(* code between two points at which another thread, a signal handler, a    *)
(* helper or the game could tell the difference.                           *)
(***************************************************************************)
EXTENDS DataLock, FiniteSets

CONSTANTS
  Settings,           \* names of the boolean settings that are on
  MaxCrashRestarts,   \* settings.max_crash_restarts
  Clients,            \* control connections (one thread each)
  Faults              \* the failures the environment may inject

AllSettings == {"update_on_container_start", "prepare_on_container_start",
                "start_server_on_container_start", "update_on_wake",
                "start_on_update_failure", "update_interval", "wake_arm_delay",
                "wake_on_port", "auto_sleep", "allow_log_only_idle",
                "restart_on_crash", "crash_restart_reset"}
AllFaults == {"prepare", "update", "spawn", "status", "stop", "crash", "kill"}

ASSUME SettingsAssumption == Settings \subseteq AllSettings
ASSUME CrashAssumption    == MaxCrashRestarts \in Nat
ASSUME FaultsAssumption   == Faults \subseteq AllFaults

On(s) == s \in Settings

VARIABLES
  pc,                                 \* the main thread
  call,                               \* who called the shared methods, with what
  state,                              \* state.snapshot()["state"]
  wake, sleep, shutdown,              \* the three threading.Events
  starting, waiting,                  \* _start_in_progress, _waiting_for_wake
  server,                             \* self.server is not None
  proc,                               \* the Wine/game process tree
  listener,                           \* WakeListener has its sockets bound
  prepared,                           \* self.prepared
  crashes,                            \* self.crash_restarts
  startNow,                           \* run()'s start_now
  lastStop,                           \* last_stop_monotonic is not 0.0
  idle,                               \* monitor_server: idle_since is not None
  exe, marker, stamp,                 \* executable, incomplete_update_file, update_stamp
  ctl                                 \* what each control thread is about to do

events == <<wake, sleep, shutdown>>
flags  == <<starting, waiting>>
game   == <<server, proc, listener>>
disk   == <<exe, marker, stamp>>
local  == <<prepared, crashes, startNow, lastStop, idle>>
rest   == <<flags, game, local, disk, ctl>>
vars   == <<pc, call, state, events, rest, lock>>

PrepBody   == {"prep", "prep_rest"}                      \* inside prepare()'s hold
PrepLabels == PrepBody \cup {"prep_loop", "prep_lock", "prep_delay"}
UpdateBody == {"update", "steamcmd", "update_stamped"}   \* inside perform_update
StartBody  == {"start_gate", "start_clear", "start_gate2", "start_update", "backoff",
               "start_gate3", "starting", "spawn", "publish_pid", "started",
               "start_return", "start_raise"}            \* inside start_server()'s hold
WaitBody   == {"arm", "arm_wait", "wait_check", "open", "sleep_loop", "listen"}
MonitorBody == {"monitor", "poll", "query"}
StopBody   == {"stop", "stop_kill", "stop_release"}
RunLabels  == {"run", "loop", "wait", "start", "start_lock", "crashed", "crash_delay",
               "recover", "recovery", "exit_loop", "cancelled", "failing", "finally",
               "finished", "exited"}
Labels == PrepLabels \cup UpdateBody \cup StartBody \cup WaitBody \cup MonitorBody
            \cup StopBody \cup RunLabels
States == {"INITIALIZING", "PREPARING", "UPDATING", "SLEEPING", "STARTING", "RUNNING",
           "IDLE", "STOPPING", "STOPPED", "ERROR"}
Phases == {"idle", "wake", "wake set", "sleep", "sleep asleep", "sleep set"}

\* prepare_initial is called by run() and _start_server, with `want' as update;
\* perform_update by _prepare (with `required'), _start_server and the sleep loop;
\* stop by stop_server's callers and by the crash path.
Calls == [prepare : {"run", "start"}, want : BOOLEAN,
          update : {"prepare", "start", "sleep"}, required : BOOLEAN,
          stop : {"sleep", "shutdown", "crash", "failed start", "exit"}]

ControlTypeOK == pc \in Labels /\ state \in States /\ call \in Calls
FlagsTypeOK == /\ wake \in BOOLEAN /\ sleep \in BOOLEAN /\ shutdown \in BOOLEAN
               /\ starting \in BOOLEAN /\ waiting \in BOOLEAN
GameTypeOK  == /\ server \in BOOLEAN /\ listener \in BOOLEAN
               /\ proc \in {"none", "running", "exited"}
LocalTypeOK == /\ prepared \in BOOLEAN /\ startNow \in BOOLEAN
               /\ lastStop \in BOOLEAN /\ idle \in BOOLEAN
               /\ crashes \in 0 .. MaxCrashRestarts + 1
DiskTypeOK  == exe \in BOOLEAN /\ marker \in BOOLEAN /\ stamp \in BOOLEAN
CtlTypeOK   == ctl \in [Clients -> Phases]
TypeOK == /\ LockTypeOK /\ ControlTypeOK /\ FlagsTypeOK /\ GameTypeOK /\ LocalTypeOK
          /\ DiskTypeOK /\ CtlTypeOK

-----------------------------------------------------------------------------
NewCall == [prepare |-> "run", want |-> FALSE, update |-> "prepare", required |-> FALSE,
            stop |-> "exit"]
NewCtl  == [c \in Clients |-> "idle"]

\* A new Supervisor object: what a container (re)start begins with.
Volatile ==
  /\ call = NewCall /\ state = "INITIALIZING"
  /\ wake = FALSE /\ sleep = FALSE /\ shutdown = FALSE
  /\ starting = FALSE /\ waiting = FALSE
  /\ server = FALSE /\ proc = "none" /\ listener = FALSE
  /\ prepared = FALSE /\ crashes = 0 /\ startNow = FALSE /\ lastStop = FALSE /\ idle = FALSE
  /\ ctl = NewCtl

\* An empty volume, or one on which an earlier update has succeeded.
Init ==
  /\ pc = "run" /\ Volatile /\ LockInit
  /\ exe \in BOOLEAN /\ stamp = exe /\ marker = FALSE

\* The data-lock scopes (`with hold', or try_acquire/release in a try) that the
\* main thread is inside, the one the live server owns not counted.
InStart ==
  \/ pc \in StartBody
  \/ pc \in PrepLabels /\ call.prepare = "start"
  \/ pc \in UpdateBody /\ call.update = "prepare" /\ call.prepare = "start"
  \/ pc \in UpdateBody /\ call.update = "start"
  \/ pc \in StopBody /\ call.stop = "failed start"
InPrepare == pc \in PrepBody \/ (pc \in UpdateBody /\ call.update = "prepare")
InSleepUpdate == pc \in UpdateBody /\ call.update = "sleep"
Scopes == (IF InStart THEN 1 ELSE 0) + (IF InPrepare THEN 1 ELSE 0)
            + (IF InSleepUpdate THEN 1 ELSE 0)

Goto(l) == pc' = l
Stop(why, l) == call' = [call EXCEPT !.stop = why] /\ Goto(l)

\* Steps that only move on, or that only publish a state.
Jump(at, l) == pc = at /\ Goto(l) /\ UNCHANGED <<call, state, events, rest, lock>>
Publish(at, s, l) == /\ pc = at /\ Goto(l) /\ state' = s
                     /\ UNCHANGED <<call, events, rest, lock>>

\* An exception leaves every `with' and `finally' between here and run().
Raise(l) ==
  /\ Goto(l) /\ Release(Scopes)
  /\ starting' = FALSE /\ waiting' = FALSE /\ listener' = FALSE
  /\ UNCHANGED <<call, state, events, server, proc, local, disk, ctl>>
=============================================================================
