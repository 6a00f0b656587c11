----------------------------- MODULE Supervisor -----------------------------
(***************************************************************************)
(* The supervisor process: supervisor.py with the updater (steamcmd.py),   *)
(* the game process (server_process.py), the wake listener (wake.py) and   *)
(* the control threads (control.py) at the grain at which they interact.   *)
(***************************************************************************)
EXTENDS SupervisorState

-----------------------------------------------------------------------------
(* run(): boot and the main loop *)

\* control.start() has run; decide whether to prepare before the loop.
Run ==
  /\ pc = "run"
  /\ LET update == On("update_on_container_start") \/ ~exe
     IN /\ call' = [call EXCEPT !.prepare = "run", !.want = update]
        /\ Goto(IF On("prepare_on_container_start") \/ update THEN "prep_loop" ELSE "loop")
  /\ startNow' = On("start_server_on_container_start")
  /\ UNCHANGED <<state, events, flags, game, disk, prepared, crashes, lastStop, idle, ctl, lock>>

Loop == Jump("loop", IF shutdown THEN "exit_loop" ELSE IF startNow THEN "start" ELSE "wait")

-----------------------------------------------------------------------------
(* prepare_initial(), prepare(), _prepare() *)

\* DataLock.hold: poll until the lock is ours; a shutdown seen while waiting or
\* right after the acquisition raises OperationCancelled instead.
Hold(at, body) ==
  /\ pc = at /\ ~shutdown
  /\ TryAcquire /\ Goto(body)
  /\ UNCHANGED <<call, state, events, rest>>

\* Mutant of HoldCancelled: DataLock.hold does not look at the cancel event.
HoldNotCancelled == FALSE

HoldCancelled == pc \in {"prep_lock", "start_lock"} /\ shutdown /\ Raise("cancelled")

PrepareLoop == ~shutdown /\ Jump("prep_loop", "prep_lock")

PrepareHold == Hold("prep_lock", "prep")

\* Mutant of UpdateNeedsRepair: the marker of an incomplete update is ignored.
RepairNeverNeeded == FALSE

UpdateNeedsRepair == marker /\ ~On("start_on_update_failure")

PrepareBegin ==
  /\ pc = "prep"
  /\ state' = "PREPARING"
  /\ IF call.want \/ ~exe \/ UpdateNeedsRepair
       THEN call' = [call EXCEPT !.required = ~exe, !.update = "prepare"] /\ Goto("update")
       ELSE UNCHANGED call /\ Goto("prep_rest")
  /\ UNCHANGED <<events, rest, lock>>

\* ensure_saved_link, prepare_wine_prefix, apply_configuration, release.
PrepareEnd ==
  /\ pc = "prep_rest"
  /\ prepared' = TRUE
  /\ Release(1) /\ Goto(IF call.prepare = "run" THEN "loop" ELSE "start_gate2")
  /\ UNCHANGED <<call, state, events, flags, game, crashes, startNow, lastStop, idle, disk, ctl>>

\* prepare_wine_prefix answers a shutdown with OperationCancelled.
PrepareCancelled == pc = "prep_rest" /\ shutdown /\ Raise("cancelled")

\* The except clause of prepare_initial, after prepare's hold has been left.
RetryLater ==
  /\ Release(1) /\ state' = "ERROR" /\ Goto("prep_delay")
  /\ UNCHANGED <<call, events, rest>>

PrepareFails ==
  /\ "prepare" \in Faults
  /\ \/ InPrepare /\ pc # "steamcmd" /\ RetryLater
     \/ Publish("prep_lock", "ERROR", "prep_delay")

PrepareDelayOver == ~shutdown /\ Jump("prep_delay", "prep_loop")

\* prepare_initial returns False, only ever because of a shutdown.
PrepareAbandoned ==
  /\ pc \in {"prep_loop", "prep_delay"} /\ shutdown
  /\ Jump(pc, IF call.prepare = "run" THEN "exit_loop" ELSE "start_return")

-----------------------------------------------------------------------------
(* perform_update() and _update_server() *)

\* The marker is on disk before SteamCMD touches the first server file.
UpdateBegin ==
  /\ pc = "update" /\ ~shutdown
  /\ state' = "UPDATING" /\ marker' = TRUE
  /\ Goto("steamcmd")
  /\ UNCHANGED <<call, events, flags, game, local, exe, stamp, ctl, lock>>

\* Somewhere during a first installation the executable appears.
SteamcmdInstalls ==
  /\ pc = "steamcmd" /\ ~exe
  /\ exe' = TRUE
  /\ UNCHANGED <<pc, call, state, events, flags, game, local, marker, stamp, ctl, lock>>

UpdateStamped ==
  /\ pc = "steamcmd" /\ exe
  /\ stamp' = TRUE /\ Goto("update_stamped")
  /\ UNCHANGED <<call, state, events, flags, game, local, exe, marker, ctl, lock>>

\* perform_update returns, the server files updated or the failure tolerated.
UpdateReturns ==
  /\ \/ call.update = "prepare" /\ Goto("prep_rest") /\ UNCHANGED <<state, lock>>
     \/ call.update = "start" /\ Goto("start_gate3") /\ UNCHANGED <<state, lock>>
     \/ call.update = "sleep" /\ Goto("listen") /\ state' = "SLEEPING" /\ Release(1)
  /\ UNCHANGED <<call, events, flags, game, local, exe, stamp, ctl>>

UpdateSucceeds == pc = "update_stamped" /\ marker' = FALSE /\ UpdateReturns

\* UpdateError reaches the caller: prepare_initial retries, _start_server backs
\* off with the start no longer in progress, the sleep loop goes on sleeping.
UpdateRaises ==
  \/ call.update = "prepare" /\ RetryLater
  \/ /\ call.update = "start"
     /\ starting' = FALSE /\ state' = "ERROR" /\ Goto("backoff")
     /\ UNCHANGED <<call, events, waiting, game, local, disk, ctl, lock>>
  \/ call.update = "sleep" /\ UpdateReturns /\ UNCHANGED marker

UpdateFails ==
  /\ pc \in UpdateBody /\ "update" \in Faults
  /\ IF (call.update = "prepare" /\ call.required) \/ ~On("start_on_update_failure")
       THEN UpdateRaises
       ELSE UpdateReturns /\ UNCHANGED marker

\* check_cancelled in _update_server, _run_steamcmd and wait_process.
UpdateCancelled == pc \in {"update", "steamcmd"} /\ shutdown /\ Raise("cancelled")

-----------------------------------------------------------------------------
(* wait_for_wake() *)

\* Mutant of WaitEnter: a sleep request outlives the wait for the next wake.
WaitKeepsSleep ==
  /\ pc = "wait"
  /\ waiting' = TRUE
  /\ Goto(IF On("wake_arm_delay") /\ lastStop THEN "arm" ELSE "wait_check")
  /\ UNCHANGED <<call, state, events, starting, game, local, disk, ctl, lock>>

\* _waiting_for_wake = True; sleep_event.clear().  No thread can tell the two
\* apart: a sleep request between them is answered or cleared all the same.
WaitEnter ==
  /\ pc = "wait"
  /\ waiting' = TRUE /\ sleep' = FALSE
  /\ Goto(IF On("wake_arm_delay") /\ lastStop THEN "arm" ELSE "wait_check")
  /\ UNCHANGED <<call, state, wake, shutdown, starting, game, local, disk, ctl, lock>>

\* Mutant of WaitReturns: the wake sockets stay open when the wait is over.
WaitReturnsListening(l) ==
  /\ Goto(l) /\ waiting' = FALSE
  /\ UNCHANGED <<call, state, sleep, shutdown, starting, game, local, disk, ctl, lock>>

\* Leaving wait_for_wake: the listener is closed, then the flag dropped.
WaitReturns(l) ==
  /\ Goto(l) /\ waiting' = FALSE /\ listener' = FALSE
  /\ UNCHANGED <<call, state, sleep, shutdown, starting, server, proc, local, disk, ctl, lock>>

WaitShutdown == shutdown /\ WaitReturns("exit_loop") /\ UNCHANGED wake
ManualWake   == wake /\ ~shutdown /\ wake' = FALSE /\ WaitReturns("start")
Undisturbed  == ~wake /\ ~shutdown

\* The arm delay: nobody listens, only an explicit wake ends it early.
ArmSleeps == ~shutdown /\ Publish("arm", "SLEEPING", "arm_wait")
ArmOver   == \/ shutdown /\ Jump("arm", "wait_check")
             \/ ~wake /\ Jump("arm_wait", "wait_check")
ArmWoken  == pc = "arm_wait" /\ (WaitShutdown \/ ManualWake)

WaitCheck == \/ pc = "wait_check" /\ (WaitShutdown \/ ManualWake)
             \/ Undisturbed /\ Publish("wait_check", "SLEEPING", "open")

\* WakeListener.open binds the game's ports; with none configured it binds none.
ListenerOpens ==
  /\ pc = "open"
  /\ listener' = On("wake_on_port") /\ Goto("sleep_loop")
  /\ UNCHANGED <<call, state, events, flags, server, proc, local, disk, ctl, lock>>

\* Mutant of PeriodicUpdate: a lock that is busy does not defer the update.
UpdateRegardless ==
  /\ pc = "sleep_loop" /\ ~shutdown /\ On("update_interval")
  /\ call' = [call EXCEPT !.update = "sleep"] /\ Goto("update")
  /\ UNCHANGED <<state, events, rest, lock>>

\* A due periodic update runs if the lock is free, and is deferred otherwise.
PeriodicUpdate ==
  /\ pc = "sleep_loop" /\ ~shutdown /\ On("update_interval")
  /\ TryAcquire
  /\ call' = [call EXCEPT !.update = "sleep"] /\ Goto("update")
  /\ UNCHANGED <<state, events, rest>>

SleepLoop == \/ pc = "sleep_loop" /\ WaitShutdown
             \/ ~shutdown /\ Jump("sleep_loop", "listen")

\* listener.wait returns: an event was set, a packet was accepted, or 5 s passed.
Listen == \/ pc = "listen" /\ (WaitShutdown \/ ManualWake)
          \/ pc = "listen" /\ Undisturbed /\ listener /\ WaitReturns("start") /\ UNCHANGED wake
          \/ Undisturbed /\ Jump("listen", "sleep_loop")

-----------------------------------------------------------------------------
(* start_server() *)

StartEnter ==
  /\ pc = "start"
  /\ starting' = TRUE /\ Goto("start_lock")
  /\ UNCHANGED <<call, state, events, waiting, game, local, disk, ctl, lock>>

StartHold == Hold("start_lock", "start_gate")

\* Mutant of Gate: a start that is cancelled drops a wake queued after it as well.
GateDropsWake(at, next) ==
  /\ pc = at
  /\ IF sleep \/ shutdown
       THEN sleep' = FALSE /\ wake' = FALSE /\ state' = "SLEEPING" /\ Goto("start_return")
       ELSE Goto(next) /\ UNCHANGED <<sleep, wake, state>>
  /\ UNCHANGED <<call, shutdown, rest, lock>>

\* _cancel_start_if_sleep_requested, asked at three places on the way.
Gate(at, next) ==
  /\ pc = at
  /\ IF sleep \/ shutdown
       THEN sleep' = FALSE /\ state' = "SLEEPING" /\ Goto("start_return")
       ELSE Goto(next) /\ UNCHANGED <<sleep, state>>
  /\ UNCHANGED <<call, wake, shutdown, rest, lock>>

StartGate == \/ Gate("start_gate", "start_clear")
             \/ Gate("start_gate2", "start_update")
             \/ Gate("start_gate3", "starting")

\* _start_server clears a wake that is still set and prepares once per boot.
StartClear ==
  /\ pc = "start_clear"
  /\ wake' = FALSE
  /\ IF prepared
       THEN UNCHANGED call /\ Goto("start_gate2")
       ELSE call' = [call EXCEPT !.prepare = "start", !.want = ~exe] /\ Goto("prep_loop")
  /\ UNCHANGED <<state, sleep, shutdown, rest, lock>>

StartUpdate ==
  /\ pc = "start_update"
  /\ IF On("update_on_wake") \/ UpdateNeedsRepair
       THEN call' = [call EXCEPT !.update = "start"] /\ Goto("update")
       ELSE UNCHANGED call /\ Goto("start_gate3")
  /\ UNCHANGED <<state, events, rest, lock>>

\* shutdown_event.wait(delay) after a failed update, the data lock still held.
BackoffOver == Jump("backoff", "start_return")

\* Mutant of Starting: nothing is published before the game is spawned.
StartingQuietly ==
  /\ pc = "starting"
  /\ wake' = FALSE /\ Goto("spawn")
  /\ UNCHANGED <<call, state, sleep, shutdown, rest, lock>>

\* Mutant of Starting: both requests are reset, not only the wake.
StartingClearsSleep ==
  /\ pc = "starting"
  /\ wake' = FALSE /\ sleep' = FALSE /\ state' = "STARTING" /\ Goto("spawn")
  /\ UNCHANGED <<call, shutdown, rest, lock>>

Starting ==
  /\ pc = "starting"
  /\ wake' = FALSE /\ state' = "STARTING" /\ Goto("spawn")
  /\ UNCHANGED <<call, sleep, shutdown, rest, lock>>

\* A lock scope for the server's lifetime and the reference come first, so that
\* a failure after the fork leaves a server that can still be stopped.
Spawn ==
  /\ pc = "spawn"
  /\ TryAcquire /\ server' = TRUE
  /\ \/ exe /\ proc' = "running" /\ Goto("publish_pid") /\ UNCHANGED call
     \/ (~exe \/ "spawn" \in Faults) /\ Stop("failed start", "stop_kill") /\ UNCHANGED proc
  /\ UNCHANGED <<state, events, flags, listener, local, disk, ctl>>

PublishPid ==
  /\ pc = "publish_pid"
  /\ \/ Goto("started") /\ UNCHANGED call
     \/ "status" \in Faults /\ Stop("failed start", "stop_kill")
  /\ UNCHANGED <<state, events, rest, lock>>

\* start_server returns True; monitor_server begins with its locals reset.
Started ==
  /\ pc = "started"
  /\ Release(1) /\ starting' = FALSE /\ idle' = FALSE /\ Goto("monitor")
  /\ UNCHANGED <<call, state, events, waiting, game, prepared, crashes, startNow, lastStop,
                 disk, ctl>>

\* start_server returns False.
StartReturns ==
  /\ pc = "start_return"
  /\ Release(1) /\ starting' = FALSE /\ startNow' = FALSE /\ Goto("loop")
  /\ UNCHANGED <<call, state, events, waiting, game, prepared, crashes, lastStop, idle, disk, ctl>>

\* The failed start has been cleaned up: its exception goes on to run().
StartRaises == pc = "start_raise" /\ Raise("failing")

-----------------------------------------------------------------------------
(* monitor_server() *)

MonitorLoop ==
  /\ pc = "monitor"
  /\ \/ shutdown /\ Stop("shutdown", "stop") /\ UNCHANGED sleep
     \/ ~shutdown /\ sleep /\ sleep' = FALSE /\ Stop("sleep", "stop")
     \/ ~shutdown /\ ~sleep /\ Goto("poll") /\ UNCHANGED <<call, sleep>>
  /\ UNCHANGED <<state, wake, shutdown, rest, lock>>

PollExited ==
  /\ pc = "poll" /\ proc = "exited"
  /\ Stop("crash", "stop_kill")
  /\ UNCHANGED <<state, events, rest, lock>>

\* A long enough uptime forgives earlier crashes; RUNNING is published once the
\* game is ready (or its deadline passed) and nobody has been found idle.
PollAlive ==
  /\ pc = "poll" /\ proc = "running"
  /\ crashes' \in {crashes} \cup (IF On("crash_restart_reset") THEN {0} ELSE {})
  /\ UNCHANGED state \/ (~idle /\ state' = "RUNNING")
  /\ Goto("query")
  /\ UNCHANGED <<call, events, flags, game, prepared, startNow, lastStop, idle, disk, ctl, lock>>

\* One A2S query and what it does to the idle timer; a timer that has run long
\* enough stops the game.
Query ==
  /\ pc = "query"
  /\ \/ proc = "running" /\ idle' = FALSE /\ state' = "RUNNING"
     \/ proc = "running" /\ idle' = TRUE /\ state' = "IDLE"
     \/ idle' = FALSE /\ UNCHANGED state
     \/ On("allow_log_only_idle") /\ idle' = TRUE /\ UNCHANGED state
  /\ \/ Goto("monitor") /\ UNCHANGED call
     \/ idle' /\ On("auto_sleep") /\ Stop("sleep", "stop")
  /\ UNCHANGED <<events, flags, game, prepared, crashes, startNow, lastStop, disk, ctl, lock>>

QueryNotDue == Jump("query", "monitor")

-----------------------------------------------------------------------------
(* stop_server() and the crash path of monitor_server() *)

StopPublish == Publish("stop", "STOPPING", "stop_kill")

\* ServerProcess.stop: SIGINT, SIGTERM, wineserver -k, SIGKILL, wineserver -w.
StopKills ==
  /\ pc = "stop_kill"
  /\ proc' = "none" /\ Goto("stop_release")
  /\ UNCHANGED <<call, state, events, flags, server, listener, local, disk, ctl, lock>>

\* Mutant of StopFails: a failed stop releases the lock as a successful one does.
StopFailsReleasing ==
  /\ pc = "stop_kill" /\ "stop" \in Faults /\ proc # "none"
  /\ \/ call.stop = "failed start" /\ Goto("start_raise") /\ UNCHANGED state
     \/ call.stop = "exit" /\ Goto("finished") /\ state' = "ERROR"
     \/ call.stop \in {"sleep", "shutdown", "crash"} /\ Goto("failing") /\ UNCHANGED state
  /\ Release(1)
  /\ UNCHANGED <<call, events, rest>>

\* Mutant of StopFails: a failed stop forgets the server.
StopFailsForgetting ==
  /\ pc = "stop_kill" /\ "stop" \in Faults /\ proc # "none"
  /\ \/ call.stop = "failed start" /\ Goto("start_raise") /\ UNCHANGED state
     \/ call.stop = "exit" /\ Goto("finished") /\ state' = "ERROR"
     \/ call.stop \in {"sleep", "shutdown", "crash"} /\ Goto("failing") /\ UNCHANGED state
  /\ server' = FALSE
  /\ UNCHANGED <<call, events, flags, proc, listener, local, disk, ctl, lock>>

\* stop raises: the reference and its lock scope are kept for another attempt.
StopFails ==
  /\ pc = "stop_kill" /\ "stop" \in Faults /\ proc # "none"
  /\ \/ call.stop = "failed start" /\ Goto("start_raise") /\ UNCHANGED state
     \/ call.stop = "exit" /\ Goto("finished") /\ state' = "ERROR"
     \/ call.stop \in {"sleep", "shutdown", "crash"} /\ Goto("failing") /\ UNCHANGED state
  /\ UNCHANGED <<call, events, rest, lock>>

\* The lock scope goes only now; the last status update may still fail.
StopReleases ==
  /\ pc = "stop_release"
  /\ server' = FALSE /\ Release(1)
  /\ lastStop' = (lastStop \/ call.stop # "crash")
  /\ \/ call.stop = "sleep" /\ Goto("loop") /\ crashes' = 0 /\ startNow' = FALSE
     \/ /\ \/ call.stop = "shutdown" /\ Goto("exit_loop")
           \/ call.stop = "crash" /\ Goto("crashed")
           \/ call.stop = "failed start" /\ Goto("start_raise")
           \/ call.stop = "exit" /\ Goto("finished")
           \/ "status" \in Faults /\ call.stop \in {"sleep", "shutdown", "crash"} /\ Goto("failing")
        /\ UNCHANGED <<crashes, startNow>>
  /\ UNCHANGED <<call, state, events, flags, proc, listener, prepared, idle, disk, ctl>>

\* Mutant of Crashed: the count from before this crash is compared.
CrashedOffByOne ==
  /\ pc = "crashed"
  /\ crashes' = crashes + 1
  /\ Goto(IF ~On("restart_on_crash") \/ crashes > MaxCrashRestarts
            THEN "recover" ELSE "crash_delay")
  /\ UNCHANGED <<call, state, events, flags, game, prepared, startNow, lastStop, idle, disk,
                 ctl, lock>>

Crashed ==
  /\ pc = "crashed"
  /\ crashes' = crashes + 1
  /\ Goto(IF ~On("restart_on_crash") \/ crashes' > MaxCrashRestarts
            THEN "recover" ELSE "crash_delay")
  /\ UNCHANGED <<call, state, events, flags, game, prepared, startNow, lastStop, idle, disk,
                 ctl, lock>>

CrashDelayOver ==
  /\ pc = "crash_delay"
  /\ startNow' = TRUE /\ Goto("loop")
  /\ UNCHANGED <<call, state, events, flags, game, prepared, crashes, lastStop, idle, disk,
                 ctl, lock>>

\* _wait_for_crash_recovery: only an explicit wake leads on, with a new budget.
Recover ==
  /\ pc = "recover"
  /\ wake' = FALSE /\ state' = "ERROR" /\ Goto("recovery")
  /\ UNCHANGED <<call, sleep, shutdown, rest, lock>>

RecoveryWoken ==
  /\ pc = "recovery" /\ wake /\ ~shutdown
  /\ wake' = FALSE /\ crashes' = 0 /\ startNow' = TRUE /\ Goto("loop")
  /\ UNCHANGED <<call, state, sleep, shutdown, flags, game, prepared, lastStop, idle, disk,
                 ctl, lock>>

RecoveryAbandoned == shutdown /\ Jump("recovery", "exit_loop")

-----------------------------------------------------------------------------
(* The end of run(), and of the process *)

\* A status or configuration file that cannot be written ends run() with an ERROR,
\* except inside prepare_initial, which retries (PrepareFails), and while stopping;
\* so does, there too, a configuration that apply_configuration rejects.
FatalError ==
  /\ "status" \in Faults
  /\ \/ pc \in WaitBody \cup MonitorBody \cup {"prep_rest", "prep_delay", "start_lock", "start_gate",
               "start_gate2", "start_gate3", "starting", "recover", "recovery", "exit_loop"}
     \/ pc = "update" /\ call.update # "prepare"
  /\ Raise("failing")

RunEnds == \/ Publish("exit_loop", "STOPPED", "finally")
           \/ Publish("cancelled", "STOPPED", "finally")
           \/ Publish("failing", "ERROR", "finally")

Finally ==
  /\ pc = "finally"
  /\ IF server THEN Stop("exit", IF state = "ERROR" THEN "stop_kill" ELSE "stop")
               ELSE Goto("finished") /\ UNCHANGED call
  /\ UNCHANGED <<state, events, rest, lock>>

\* The supervisor process is gone, and with it the container's process tree.
Halt ==
  /\ Goto("exited") /\ LockDies
  /\ call' = NewCall /\ state' = "INITIALIZING"
  /\ wake' = FALSE /\ sleep' = FALSE /\ shutdown' = FALSE
  /\ starting' = FALSE /\ waiting' = FALSE
  /\ server' = FALSE /\ proc' = "none" /\ listener' = FALSE
  /\ prepared' = FALSE /\ crashes' = 0 /\ startNow' = FALSE /\ lastStop' = FALSE /\ idle' = FALSE
  /\ ctl' = NewCtl
  /\ UNCHANGED disk

Exit == pc = "finished" /\ Halt
Kill == pc # "exited" /\ "kill" \in Faults /\ Halt

\* The container is started again on the same volume.
Boot == Jump("exited", "run")

-----------------------------------------------------------------------------
(* Control threads and signal handlers *)

Alive  == pc # "exited"
Active == {"STARTING", "RUNNING", "IDLE"}

ctlRest == <<pc, call, state, flags, game, local, disk, lock>>

\* _request_wake in a control thread: snapshot the state, look at
\* _start_in_progress, set the event.  A thread that answers "server already
\* active" changes nothing and is idle again.
WakeSnapshot(c) ==
  /\ Alive /\ ctl[c] = "idle" /\ state \notin Active
  /\ ctl' = [ctl EXCEPT ![c] = "wake"]
  /\ UNCHANGED <<ctlRest, events>>

WakeDecides(c) ==
  /\ ctl[c] = "wake"
  /\ ctl' = [ctl EXCEPT ![c] = IF starting THEN "idle" ELSE "wake set"]
  /\ UNCHANGED <<ctlRest, events>>

WakeSets(c) ==
  /\ ctl[c] = "wake set"
  /\ wake' = TRUE
  /\ ctl' = [ctl EXCEPT ![c] = "idle"]
  /\ UNCHANGED <<ctlRest, sleep, shutdown>>

\* _request_sleep, likewise; "sleep asleep" remembers a SLEEPING snapshot.
SleepSnapshot(c) ==
  /\ Alive /\ ctl[c] = "idle" /\ state # "STOPPING"
  /\ ctl' = [ctl EXCEPT ![c] = IF state = "SLEEPING" THEN "sleep asleep" ELSE "sleep"]
  /\ UNCHANGED <<ctlRest, events>>

SleepDecides(c) ==
  /\ ctl[c] \in {"sleep", "sleep asleep"}
  /\ ctl' = [ctl EXCEPT ![c] =
               IF waiting \/ (ctl[c] = "sleep asleep" /\ ~starting) THEN "idle" ELSE "sleep set"]
  /\ UNCHANGED <<ctlRest, events>>

SleepSets(c) ==
  /\ ctl[c] = "sleep set"
  /\ sleep' = TRUE
  /\ ctl' = [ctl EXCEPT ![c] = "idle"]
  /\ UNCHANGED <<ctlRest, wake, shutdown>>

\* Mutant of SignalWake: _request_wake looks at _start_in_progress only.
WakeWhileActive ==
  /\ pc # "exited" /\ ~starting
  /\ wake' = TRUE
  /\ UNCHANGED <<pc, call, state, rest, lock, sleep, shutdown>>

\* The handlers of SIGUSR1, SIGUSR2, SIGTERM and SIGINT run in the main thread.
SignalWake ==
  /\ Alive /\ ~starting /\ state \notin Active
  /\ wake' = TRUE
  /\ UNCHANGED <<ctlRest, ctl, sleep, shutdown>>

SignalSleep ==
  /\ Alive /\ ~waiting /\ state # "STOPPING" /\ (state = "SLEEPING" => starting)
  /\ sleep' = TRUE
  /\ UNCHANGED <<ctlRest, ctl, wake, shutdown>>

SignalTerm ==
  /\ Alive
  /\ shutdown' = TRUE /\ wake' = TRUE /\ sleep' = TRUE
  /\ UNCHANGED <<ctlRest, ctl>>

-----------------------------------------------------------------------------
(* The surroundings *)

GameExits ==
  /\ proc = "running" /\ "crash" \in Faults
  /\ proc' = "exited"
  /\ UNCHANGED <<pc, call, state, events, flags, server, listener, local, disk, ctl, lock>>

HelperSteps ==
  /\ \E h \in Helpers : HelperEnters(h) \/ HelperLeaves(h)
  /\ UNCHANGED <<pc, call, state, events, flags, game, local, disk, ctl>>

Prepare == \/ PrepareLoop \/ PrepareHold \/ PrepareBegin \/ PrepareEnd \/ PrepareCancelled
           \/ PrepareFails \/ PrepareDelayOver \/ PrepareAbandoned
Update  == \/ UpdateBegin \/ SteamcmdInstalls \/ UpdateStamped \/ UpdateSucceeds
           \/ UpdateFails \/ UpdateCancelled
Wait    == \/ WaitEnter \/ ArmSleeps \/ ArmOver \/ ArmWoken \/ WaitCheck \/ ListenerOpens
           \/ PeriodicUpdate \/ SleepLoop \/ Listen
Start   == \/ StartEnter \/ StartHold \/ StartGate \/ StartClear \/ StartUpdate
           \/ BackoffOver \/ Starting \/ Spawn \/ PublishPid \/ Started
           \/ StartReturns \/ StartRaises
Monitor == MonitorLoop \/ PollExited \/ PollAlive \/ Query \/ QueryNotDue
Stopping == StopPublish \/ StopKills \/ StopFails \/ StopReleases
Recovery == Crashed \/ CrashDelayOver \/ Recover \/ RecoveryWoken \/ RecoveryAbandoned
Ending  == HoldCancelled \/ FatalError \/ RunEnds \/ Finally

Main == Run \/ Loop \/ Prepare \/ Update \/ Wait \/ Start \/ Monitor \/ Stopping \/ Recovery
          \/ Ending \/ Exit

WakeRequest  == SignalWake \/ (\E c \in Clients : WakeSets(c))
SleepRequest == SignalSleep \/ (\E c \in Clients : SleepSets(c))
Threads == \E c \in Clients : \/ WakeSnapshot(c) \/ WakeDecides(c)
                             \/ SleepSnapshot(c) \/ SleepDecides(c)
Environment == SignalTerm \/ GameExits \/ HelperSteps \/ Boot

Next == Main \/ Threads \/ WakeRequest \/ SleepRequest \/ Environment \/ Kill

Spec == Init /\ [][Next]_vars

\* The main thread is scheduled and each of its waits has a timeout.  Nothing has
\* to fail for it to go on, and a helper need not ever leave.
Failures == PrepareFails \/ UpdateFails \/ StopFails \/ FatalError
Progress == Main /\ ~Failures

FairSpec == Spec /\ WF_vars(Progress)

-----------------------------------------------------------------------------
(* Safety *)

\* maintenance.py, backup.sh, restore.sh: while the game, SteamCMD or a
\* preparation works on the data volume, no helper is inside its lock.
FilesBusy == pc \in {"prep_rest", "steamcmd", "update_stamped"}
MaintenanceExcluded == (proc # "none" \/ FilesBusy) => flock \notin Helpers

\* maintenance.py, start_server and stop_server: the re-entrant depth counts
\* exactly the open scopes plus the server that has not been stopped, whatever
\* failed on the way, so the lock is never leaked and never dropped early.
DepthMatches ==
  /\ depth = Scopes + (IF server THEN 1 ELSE 0)
  /\ flock = Self <=> depth > 0

\* ARCHITECTURE.md, "Port ownership invariant": the wake listener and the game
\* never hold the published UDP ports together.
OnePortOwner == ~(listener /\ proc = "running")

\* start_server/stop_server: a game process that may be alive is always owned, so
\* a later cleanup finds it, and a new one is only started when there is none.
GameOwned == /\ proc # "none" => server
             /\ pc = "spawn" => ~server

\* state.py as read by nosctl and the health check: no state that says the game
\* is down is published while the game runs.
StatusTruthful ==
  state \in {"INITIALIZING", "PREPARING", "UPDATING", "SLEEPING", "STOPPED"} => proc # "running"

\* run(): a game is never (re)started with the crash budget overdrawn.
CrashBudget == proc = "running" => crashes <= MaxCrashRestarts

GameStarts == proc = "none" /\ proc' = "running"

\* WAKE-AND-SLEEP.md, "Update interaction": after an interrupted or failed update
\* a repair must succeed before the game starts, container restarts included.
NeverStartsHalfUpdated ==
  [][GameStarts => ~marker \/ On("start_on_update_failure")]_vars

\* CONFIGURATION.md: "A first installation still fails closed", whatever
\* START_ON_UPDATE_FAILURE says: the game starts only on files that some update
\* has completed.
FirstInstallFailsClosed == [][GameStarts => stamp]_vars

\* CONFIGURATION.md: a wake request to an active server is not queued for a later
\* restart, so nothing but a shutdown has wake_event set while the game is watched.
NoQueuedWake == pc \in MonitorBody /\ wake => shutdown

\* WAKE-AND-SLEEP.md: "Updates, preparation and the entire game lifetime share a
\* data lock with nos-backup and nos-restore": the abstract mutual exclusion, with
\* the Wine processes, the updater and preparation, and the helpers as its users.
Users == (IF proc # "none" THEN {"game"} ELSE {}) \cup (IF FilesBusy THEN {"files"} ELSE {})
           \cup {h \in Helpers : flock = h}
Guard == INSTANCE DataGuard WITH users <- Users
ImplementsGuard == Guard!Spec

(* Liveness *)

\* install_signal_handlers: whatever fails, whatever a helper does and wherever
\* the main thread is, a shutdown request ends the supervisor.
ShutdownTerminates == shutdown ~> pc = "exited"
=============================================================================
