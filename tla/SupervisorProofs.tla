-------------------------- MODULE SupervisorProofs ---------------------------
(***************************************************************************)
(* Supervisor's safety properties for every setting, crash budget, number  *)
(* of clients and helpers, and every set of faults.                        *)
(*                                                                         *)
(* First IInv, the inductive invariant, and the proof that every step      *)
(* keeps it, one lemma per conjunct.  The properties alone are not         *)
(* inductive: that the lock is held while the game runs rests on the depth *)
(* being the sum of the open scopes and the server's, which rests on where *)
(* the main thread can be while it owns a server, and so on.  Then what    *)
(* RequestOrder says of accepted requests, from the same invariant.        *)
(***************************************************************************)
EXTENDS RequestOrder, TLAPS

\* Where the main thread can be while it owns a server, and with what published.
ServerPlaces == MonitorBody \cup StopBody
                  \cup {"publish_pid", "started", "start_raise"}
                  \cup {"failing", "finally", "finished"}
ServerInv == /\ proc # "none" => server
             /\ server => pc \in ServerPlaces
             /\ pc \in MonitorBody \cup StopBody \cup {"publish_pid", "started"} => server
             /\ pc = "stop_release" => proc = "none"

ListenerInv == listener => \/ pc \in {"sleep_loop", "listen"}
                           \/ pc \in UpdateBody /\ call.update = "sleep"

\* The budget is overdrawn only between the crash and the explicit retry.
CrashInv == crashes > MaxCrashRestarts =>
              /\ ~server
              /\ pc \in {"recover", "recovery", "exit_loop", "failing", "finally", "finished"}

StatusInv == /\ server => state \in {"STARTING", "RUNNING", "IDLE", "STOPPING", "ERROR"}
             /\ pc = "spawn" => state = "STARTING"

\* Past the repair check of a start the files are whole, or need not be.
RepairInv == pc \in {"start_gate3", "starting", "spawn"} => ~UpdateNeedsRepair

IInv == /\ TypeOK /\ DepthMatches /\ ServerInv /\ ListenerInv /\ CrashInv /\ StatusInv
        /\ RepairInv

\* The end of the process, and a new container: everything but the disk starts over.
LEMMA HaltTypes == ASSUME IInv, Halt PROVE TypeOK'
<1>1. LockTypeOK'
  BY DEF IInv, TypeOK, LockTypeOK, Halt, LockDies
<1>2. ControlTypeOK'
  BY DEF ControlTypeOK, Halt, Goto, NewCall, Labels, RunLabels, States, Calls
<1>3. FlagsTypeOK' /\ GameTypeOK'
  BY DEF FlagsTypeOK, GameTypeOK, Halt
<1>4. LocalTypeOK'
  <2>1. crashes' \in 0 .. MaxCrashRestarts + 1
    BY CrashAssumption DEF Halt
  <2> QED BY <2>1 DEF LocalTypeOK, Halt
<1>5. DiskTypeOK'
  BY DEF IInv, TypeOK, DiskTypeOK, Halt, disk
<1>6. CtlTypeOK'
  BY DEF CtlTypeOK, Halt, NewCtl, Phases
<1> QED BY <1>1, <1>2, <1>3, <1>4, <1>5, <1>6 DEF TypeOK

\* So a container can stop at any point, killed or not.
LEMMA HaltInv == ASSUME IInv, Halt PROVE IInv'
<1>1. TypeOK'
  BY HaltTypes
<1>2. DepthMatches'
  <2>1. Scopes' = 0
    BY DEF Scopes, InStart, InPrepare, InSleepUpdate, PrepLabels, PrepBody, UpdateBody,
           StartBody,
       StopBody, Halt, Goto
  <2>2. depth' = 0 /\ server' = FALSE /\ flock' # Self
    BY DEF Halt, LockDies, Nobody, Self
  <2> QED BY <2>1, <2>2 DEF DepthMatches
<1>3. ServerInv' /\ ListenerInv' /\ StatusInv' /\ RepairInv'
  BY DEF ServerInv, ListenerInv, StatusInv, RepairInv, Halt, Goto, StopBody,
         MonitorBody
<1>4. CrashInv'
  BY CrashAssumption DEF CrashInv, Halt
<1> QED BY <1>1, <1>2, <1>3, <1>4 DEF IInv, TypeOK

\* A request touches the events and the thread that makes it, nothing else.
LEMMA RequestFrame ==
  ASSUME WakeRequest \/ SleepRequest \/ Threads
  PROVE  UNCHANGED ctlRest
BY DEF WakeRequest, SleepRequest, Threads, SignalWake, SignalSleep, WakeSnapshot, WakeDecides,
       WakeSets, SleepSnapshot, SleepDecides, SleepSets

\* DataLock.try_acquire and release, counted.
LEMMA Acquired ==
  ASSUME LockTypeOK, DepthMatches, TryAcquire
  PROVE  depth' = depth + 1 /\ flock' = Self /\ LockTypeOK'
BY DEF LockTypeOK, DepthMatches, TryAcquire, Scopes

\* The same for a step that leaves n scopes at once.
LEMMA Released ==
  ASSUME LockTypeOK, DepthMatches, NEW n \in Nat, n <= depth, Release(n)
  PROVE  /\ depth' = depth - n
         /\ flock' = Self <=> depth' > 0
         /\ LockTypeOK'
BY HelpersAssumption DEF LockTypeOK, DepthMatches, Release, Nobody, Self

\* The scopes are counted in natural numbers.
LEMMA ScopesNat == Scopes \in Nat
BY DEF Scopes

\* The steps that leave the scopes, the server's scope and the lock as they are.
LEMMA ScopesUnchanged ==
  ASSUME ControlTypeOK, ServerInv,
         Run \/ Loop \/ PrepareLoop \/ PrepareBegin \/ PrepareDelayOver \/ PrepareAbandoned
         \/ UpdateBegin \/ SteamcmdInstalls \/ UpdateStamped \/ WaitEnter \/ ArmSleeps \/ ArmOver
         \/ ArmWoken \/ WaitCheck \/ ListenerOpens \/ SleepLoop \/ Listen \/ StartEnter
         \/ StartClear \/ StartUpdate \/ BackoffOver \/ Starting \/ PublishPid \/ StartGate
         \/ MonitorLoop \/ PollExited \/ PollAlive \/ Query \/ QueryNotDue \/ StopPublish
         \/ StopKills \/ StopFails \/ Crashed \/ CrashDelayOver \/ Recover \/ RecoveryWoken
         \/ RecoveryAbandoned \/ RunEnds \/ Finally \/ SignalTerm \/ GameExits \/ Boot
  PROVE  Scopes' = Scopes /\ UNCHANGED <<server, lock>>
<1> USE DEF events, flags, game, disk, local, rest, lock, Goto, Jump, Publish, Stop,
            ctlRest, ServerInv, MonitorBody, WaitBody, Scopes, InStart, InPrepare,
            InSleepUpdate, PrepLabels, PrepBody, UpdateBody, StartBody, StopBody,
            ControlTypeOK, Calls
<1>1. CASE Run \/ Loop \/ PrepareLoop \/ PrepareBegin \/ PrepareDelayOver \/ PrepareAbandoned
  BY <1>1 DEF Run, Loop, PrepareLoop, PrepareBegin, PrepareDelayOver, PrepareAbandoned
<1>2. CASE UpdateBegin \/ SteamcmdInstalls \/ UpdateStamped
  BY <1>2 DEF UpdateBegin, SteamcmdInstalls, UpdateStamped
<1>3. CASE WaitEnter \/ ArmSleeps \/ ArmOver \/ ArmWoken
  BY <1>3 DEF WaitEnter, ArmSleeps, ArmOver, ArmWoken, WaitShutdown, ManualWake, WaitReturns
<1>4. CASE WaitCheck \/ ListenerOpens \/ SleepLoop
  BY <1>4 DEF WaitCheck, WaitShutdown, ManualWake, Undisturbed, WaitReturns, ListenerOpens,
              SleepLoop
<1>5. CASE Listen
  BY <1>5 DEF Listen, WaitShutdown, ManualWake, Undisturbed, WaitReturns
<1>6. CASE StartEnter \/ StartClear \/ StartUpdate \/ BackoffOver \/ Starting \/ PublishPid
  BY <1>6 DEF StartEnter, StartClear, StartUpdate, BackoffOver, Starting, PublishPid
<1>7. CASE StartGate
  BY <1>7 DEF StartGate, Gate
<1>8. CASE MonitorLoop \/ PollExited \/ PollAlive
  BY <1>8 DEF MonitorLoop, PollExited, PollAlive
<1>9. CASE Query \/ QueryNotDue
  BY <1>9 DEF Query, QueryNotDue
<1>10. CASE StopPublish \/ StopKills \/ StopFails
  BY <1>10 DEF StopPublish, StopKills, StopFails
<1>11. CASE Crashed \/ CrashDelayOver \/ Recover \/ RecoveryWoken \/ RecoveryAbandoned
  BY <1>11 DEF Crashed, CrashDelayOver, Recover, RecoveryWoken, RecoveryAbandoned
<1>12. CASE RunEnds \/ Finally
  BY <1>12 DEF RunEnds, Finally
<1>13. CASE SignalTerm \/ GameExits \/ Boot
  BY <1>13, ZenonT(60) DEF SignalTerm, Alive, GameExits, Boot
<1> QED BY <1>1, <1>2, <1>3, <1>4, <1>5, <1>6, <1>7, <1>8, <1>9, <1>10, <1>11, <1>12, <1>13

\* try_acquire and release: one scope more, one scope less, or the scope of the
\* server opened or closed between two others.
LEMMA OneMore ==
  ASSUME LockTypeOK, DepthMatches, TryAcquire,
         \/ Scopes' = Scopes + 1 /\ UNCHANGED server
         \/ Scopes' = Scopes /\ ~server /\ server'
  PROVE  LockTypeOK' /\ DepthMatches'
BY Acquired, ScopesNat DEF DepthMatches

\* A release closes one scope, or the server's.
LEMMA OneLess ==
  ASSUME LockTypeOK, DepthMatches, Release(1),
         \/ Scopes' = Scopes - 1 /\ UNCHANGED server /\ Scopes' \in Nat
         \/ Scopes' = Scopes /\ server /\ ~server'
  PROVE  LockTypeOK' /\ DepthMatches'
<1>1. 1 <= depth
  BY ScopesNat DEF DepthMatches
<1> QED BY <1>1, Released, ScopesNat DEF DepthMatches

\* The scopes of `with' and `finally' are left all at once by an exception.
LEMMA RaiseStep ==
  ASSUME LockTypeOK, DepthMatches, NEW l \in {"cancelled", "failing"}, Raise(l)
  PROVE  LockTypeOK' /\ DepthMatches'
<1>1. Scopes <= depth
  BY ScopesNat DEF DepthMatches
<1>2. /\ depth' = depth - Scopes
      /\ flock' = Self <=> depth' > 0
      /\ LockTypeOK'
  BY <1>1, ScopesNat, Released DEF Raise
<1>3. server' = server /\ pc' \in {"cancelled", "failing"}
  BY DEF Raise, Goto
<1>4. ~InStart' /\ ~InPrepare' /\ ~InSleepUpdate'
  BY <1>3 DEF InStart, InPrepare, InSleepUpdate, PrepLabels, PrepBody, UpdateBody, StartBody,
              StopBody
<1>5. Scopes' = 0
  BY <1>4 DEF Scopes
<1> QED BY <1>2, <1>3, <1>5, ScopesNat DEF DepthMatches

\* An update that returns to the sleep loop leaves the one scope it has.
LEMMA UpdateReturnsStep ==
  ASSUME LockTypeOK, ControlTypeOK, DepthMatches, pc \in UpdateBody, UpdateReturns
  PROVE  LockTypeOK' /\ DepthMatches'
<1> USE DEF Goto, InStart, InPrepare, InSleepUpdate, PrepLabels, PrepBody, UpdateBody,
       StartBody,
            StopBody
<1>1. CASE call.update = "sleep"
  <2>1. InSleepUpdate /\ ~InStart /\ ~InPrepare /\ ~InSleepUpdate' /\ ~InStart' /\ ~InPrepare'
    BY <1>1 DEF UpdateReturns
  <2>2. Release(1) /\ UNCHANGED server
    BY <1>1 DEF UpdateReturns, game
  <2>3. Scopes' = Scopes - 1 /\ Scopes' \in Nat
    <3> HIDE DEF InStart, InPrepare, InSleepUpdate
    <3> QED BY <2>1 DEF Scopes
  <2> QED BY <2>2, <2>3, OneLess
<1>2. CASE call.update \in {"prepare", "start"}
  <2>1. /\ (InStart' <=> InStart) /\ (InPrepare' <=> InPrepare)
        /\ ~InSleepUpdate' /\ ~InSleepUpdate
    BY <1>2 DEF UpdateReturns, ControlTypeOK, Calls
  <2>2. UNCHANGED <<lock, server>>
    BY <1>2 DEF UpdateReturns, game
  <2> QED BY <2>1, <2>2 DEF Scopes, DepthMatches, LockTypeOK, lock
<1> QED BY <1>1, <1>2 DEF ControlTypeOK, Calls

\* An UpdateError or another failure sends prepare_initial into its delay.
LEMMA RetryLaterStep ==
  ASSUME LockTypeOK, ControlTypeOK, DepthMatches, InPrepare, RetryLater
  PROVE  LockTypeOK' /\ DepthMatches'
<1>1. /\ InPrepare /\ ~InPrepare' /\ ~InSleepUpdate /\ ~InSleepUpdate'
      /\ InStart' <=> InStart
  BY DEF RetryLater, Goto, InStart, InPrepare, InSleepUpdate, PrepLabels, PrepBody,
         UpdateBody,
         StartBody, StopBody, ControlTypeOK, Calls
<1>2. Release(1) /\ UNCHANGED server
  BY DEF RetryLater, rest, game
<1> QED BY <1>1, <1>2, OneLess DEF Scopes

\* maintenance.py: the depth is what the open scopes and the server add up to.
LEMMA LockStep == ASSUME IInv, [Next]_vars PROVE LockTypeOK' /\ DepthMatches'
<1>0. LockTypeOK /\ ControlTypeOK /\ DepthMatches /\ ServerInv
  BY DEF IInv, TypeOK
<1> DEFINE Same == Scopes' = Scopes /\ UNCHANGED <<server, lock>>
<1>s. ASSUME Same PROVE LockTypeOK' /\ DepthMatches'
  BY <1>0, <1>s DEF LockTypeOK, DepthMatches, lock
<1> HIDE DEF Same
<1> USE DEF Goto, Stop, InStart, InPrepare, InSleepUpdate, PrepLabels, PrepBody, UpdateBody,
            StartBody, StopBody
<1>1. CASE PrepareHold \/ StartHold
  <2>1. (InStart' <=> InStart \/ StartHold) /\ (InPrepare' <=> InPrepare \/ PrepareHold)
    BY <1>1, <1>0 DEF PrepareHold, StartHold, Hold, ControlTypeOK, Calls
  <2>2. /\ PrepareHold => pc = "prep_lock" /\ ~InPrepare
        /\ StartHold => pc = "start_lock" /\ ~InStart
        /\ ~InSleepUpdate /\ ~InSleepUpdate'
    BY <1>1 DEF PrepareHold, StartHold, Hold
  <2>3. TryAcquire /\ UNCHANGED server
    BY <1>1 DEF PrepareHold, StartHold, Hold, rest, game
  <2>4. Scopes' = Scopes + 1
    <3> HIDE DEF InStart, InPrepare, InSleepUpdate
    <3> QED BY <1>1, <2>1, <2>2 DEF Scopes
  <2> QED BY <1>0, <2>3, <2>4, OneMore
<1>2. CASE PeriodicUpdate
  <2>1. ~InStart /\ ~InStart' /\ ~InPrepare /\ ~InPrepare' /\ ~InSleepUpdate /\ InSleepUpdate'
    BY <1>0, <1>2 DEF PeriodicUpdate, ControlTypeOK, Calls
  <2>2. TryAcquire /\ UNCHANGED server
    BY <1>2 DEF PeriodicUpdate, rest, game
  <2>3. Scopes' = Scopes + 1
    <3> HIDE DEF InStart, InPrepare, InSleepUpdate
    <3> QED BY <2>1 DEF Scopes
  <2> QED BY <1>0, <2>2, <2>3, OneMore
<1>3. CASE Spawn
  <2>1. InStart /\ ~InPrepare /\ ~InSleepUpdate
    BY <1>3 DEF Spawn
  <2>2. pc' = "publish_pid" \/ (pc' = "stop_kill" /\ call'.stop = "failed start")
    BY <1>0, <1>3 DEF Spawn, ControlTypeOK, Calls
  <2>3. InStart' /\ ~InPrepare' /\ ~InSleepUpdate'
    BY <2>2
  <2>4. TryAcquire /\ ~server /\ server'
    BY <1>0, <1>3 DEF Spawn, ServerInv, ServerPlaces, MonitorBody
  <2> QED BY <1>0, <2>1, <2>3, <2>4, OneMore DEF Scopes
<1>4. CASE PrepareEnd
  <2>1. InPrepare /\ ~InPrepare' /\ ~InSleepUpdate /\ ~InSleepUpdate' /\ (InStart' <=> InStart)
    BY <1>0, <1>4 DEF PrepareEnd, ControlTypeOK, Calls
  <2>2. Release(1) /\ UNCHANGED server
    BY <1>4 DEF PrepareEnd, game
  <2>3. Scopes' = Scopes - 1 /\ Scopes' \in Nat
    <3> HIDE DEF InStart, InPrepare, InSleepUpdate
    <3> QED BY <2>1 DEF Scopes
  <2> QED BY <1>0, <2>2, <2>3, OneLess
<1>5. CASE Started \/ StartReturns
  <2>1. InStart /\ ~InStart' /\ ~InPrepare /\ ~InPrepare' /\ ~InSleepUpdate /\ ~InSleepUpdate'
    BY <1>5 DEF Started, StartReturns
  <2>2. Release(1) /\ UNCHANGED server
    BY <1>5 DEF Started, StartReturns, game
  <2>3. Scopes' = Scopes - 1 /\ Scopes' \in Nat
    <3> HIDE DEF InStart, InPrepare, InSleepUpdate
    <3> QED BY <2>1 DEF Scopes
  <2> QED BY <1>0, <2>2, <2>3, OneLess
<1>6. CASE StopReleases
  <2>1. ~InPrepare /\ ~InPrepare' /\ ~InSleepUpdate /\ ~InSleepUpdate' /\ (InStart' <=> InStart)
    BY <1>0, <1>6 DEF StopReleases, ControlTypeOK, Calls
  <2>2. Release(1) /\ server /\ ~server'
    BY <1>0, <1>6 DEF StopReleases, ServerInv
  <2> QED BY <1>0, <2>1, <2>2, OneLess DEF Scopes
<1>7. CASE UpdateSucceeds \/ UpdateFails \/ PrepareFails
  <2>1. CASE UpdateReturns /\ pc \in UpdateBody
    BY <1>0, <2>1, UpdateReturnsStep
  <2>2. CASE RetryLater /\ InPrepare
    BY <1>0, <2>2, RetryLaterStep
  <2>3. CASE UpdateFails /\ call.update = "start" /\ ~UpdateReturns
    <3>1. /\ InStart /\ InStart' /\ ~InPrepare /\ ~InPrepare'
          /\ ~InSleepUpdate /\ ~InSleepUpdate'
          /\ UNCHANGED <<server, lock>>
      BY <2>3 DEF UpdateFails, UpdateRaises, game
    <3> QED BY <3>1, <1>s DEF Scopes, Same
  <2>4. CASE Publish("prep_lock", "ERROR", "prep_delay")
    <3>1. /\ (InStart' <=> InStart) /\ ~InPrepare /\ ~InPrepare'
          /\ ~InSleepUpdate /\ ~InSleepUpdate'
          /\ UNCHANGED <<server, lock>>
      BY <2>4 DEF Publish, rest, game
    <3> QED BY <3>1, <1>s DEF Scopes, Same
  <2> QED
    BY <1>0, <1>7, <2>1, <2>2, <2>3, <2>4
       DEF UpdateSucceeds, UpdateFails, UpdateRaises, PrepareFails, ControlTypeOK, Calls
<1>8. CASE PrepareCancelled \/ UpdateCancelled \/ StartRaises \/ HoldCancelled \/ FatalError
  BY <1>0, <1>8, RaiseStep
     DEF PrepareCancelled, UpdateCancelled, StartRaises, HoldCancelled, FatalError
<1>9. CASE WakeRequest \/ SleepRequest \/ Threads
  <2>1. UNCHANGED <<pc, call, server, lock>>
    BY <1>9, RequestFrame DEF ctlRest, game
  <2> QED BY <2>1, <1>s DEF Same, Scopes
<1>10. CASE HelperSteps
  <2>1. UNCHANGED <<pc, call, server>>
    BY <1>10 DEF HelperSteps, game
  <2>2. PICK h \in Helpers : HelperEnters(h) \/ HelperLeaves(h)
    BY <1>10 DEF HelperSteps
  <2>3. UNCHANGED depth /\ flock # Self /\ flock' # Self /\ flock' \in {Nobody} \cup Helpers
    BY <2>2, HelpersAssumption DEF HelperEnters, HelperLeaves, Nobody, Self
  <2>4. Scopes' = Scopes
    BY <2>1 DEF Scopes
  <2> QED BY <1>0, <2>1, <2>3, <2>4 DEF DepthMatches, LockTypeOK
<1>11. CASE Exit \/ Kill
  BY <1>11, HaltInv DEF Exit, Kill, IInv, TypeOK
<1>12. CASE UNCHANGED vars
  <2>1. Same
    BY <1>12 DEF Same, Scopes, vars, rest, game
  <2> QED BY <2>1, <1>s
<1>13. CASE Run \/ Loop \/ PrepareLoop \/ PrepareBegin \/ PrepareDelayOver \/ PrepareAbandoned
             \/ UpdateBegin \/ SteamcmdInstalls \/ UpdateStamped \/ WaitEnter \/ ArmSleeps \/ ArmOver
             \/ ArmWoken \/ WaitCheck \/ ListenerOpens \/ SleepLoop \/ Listen \/ StartEnter
             \/ StartClear \/ StartUpdate \/ BackoffOver \/ Starting \/ PublishPid \/ StartGate
             \/ MonitorLoop \/ PollExited \/ PollAlive \/ Query \/ QueryNotDue \/ StopPublish
             \/ StopKills \/ StopFails \/ Crashed \/ CrashDelayOver \/ Recover \/ RecoveryWoken
             \/ RecoveryAbandoned \/ RunEnds \/ Finally \/ SignalTerm \/ GameExits \/ Boot
  BY <1>0, <1>13, <1>s, ScopesUnchanged DEF Same
<1> QED
  <2> HIDE DEF Goto, Stop, InStart, InPrepare, InSleepUpdate, PrepLabels, PrepBody, UpdateBody,
               StartBody, StopBody
  <2> QED
    BY <1>1, <1>2, <1>3, <1>4, <1>5, <1>6, <1>7, <1>8, <1>9, <1>10, <1>11, <1>12, <1>13
       DEF Next, Main, Prepare, Update, Wait, Start, Monitor, Stopping, Recovery, Ending,
           Environment

\* Where the main thread is, what it publishes and whom it returns to.
LEMMA ControlTyping == ASSUME IInv, [Next]_vars PROVE ControlTypeOK'
<1> USE DEF events, flags, game, disk, local, rest, lock, Goto, Jump, Publish, Stop,
            ctlRest, Labels, PrepLabels, UpdateBody, StartBody, WaitBody, MonitorBody,
            StopBody, RunLabels, PrepBody, States, Calls, ControlTypeOK, IInv, TypeOK
<1>1. CASE Run \/ Loop
  BY <1>1 DEF Run, Loop
<1>2. CASE Prepare
  <2>1. CASE PrepareLoop
    BY <2>1, ZenonT(60) DEF PrepareLoop
  <2>2. CASE PrepareHold
    BY <2>2, ZenonT(60) DEF PrepareHold, Hold
  <2>3. CASE PrepareBegin
    <3>1. call' \in Calls
      BY <2>3, ZenonT(60) DEF PrepareBegin, DiskTypeOK
    <3> QED BY <2>3, <3>1 DEF PrepareBegin, ControlTypeOK, Labels, PrepLabels, PrepBody,
           UpdateBody,
                            States
  <2>4. CASE PrepareEnd
    BY <2>4, ZenonT(60) DEF PrepareEnd
  <2>5. CASE PrepareCancelled
    BY <2>5, ZenonT(60) DEF PrepareCancelled, Raise, InPrepare
  <2>6. CASE PrepareFails
    BY <2>6 DEF PrepareFails, InPrepare, RetryLater
  <2>7. CASE PrepareDelayOver
    BY <2>7, ZenonT(60) DEF PrepareDelayOver
  <2>8. CASE PrepareAbandoned
    BY <2>8, ZenonT(60) DEF PrepareAbandoned
  <2> QED BY <1>2, <2>1, <2>2, <2>3, <2>4, <2>5, <2>6, <2>7, <2>8 DEF Prepare
<1>3. CASE Update
  BY <1>3, ZenonT(60) DEF Update, UpdateBegin, SteamcmdInstalls, UpdateStamped, UpdateSucceeds,
              UpdateFails, UpdateCancelled, UpdateReturns, UpdateRaises, Raise, RetryLater,
              InPrepare
<1>4. CASE Wait
  BY <1>4, ZenonT(60) DEF Wait, WaitEnter, ArmSleeps, ArmOver, ArmWoken, WaitCheck, ListenerOpens,
              PeriodicUpdate, SleepLoop, Listen, WaitShutdown, ManualWake, Undisturbed,
              WaitReturns
<1>5. CASE Start
  <2>1. CASE StartEnter
    BY <2>1, ZenonT(60) DEF StartEnter
  <2>2. CASE StartHold
    BY <2>2, ZenonT(60) DEF StartHold, Hold
  <2>3. CASE StartGate
    BY <2>3 DEF StartGate, Gate
  <2>4. CASE StartClear
    BY <2>4, ZenonT(60) DEF StartClear
  <2>5. CASE StartUpdate
    BY <2>5, ZenonT(60) DEF StartUpdate
  <2>6. CASE BackoffOver
    BY <2>6, ZenonT(60) DEF BackoffOver
  <2>7. CASE Starting
    BY <2>7 DEF Starting
  <2>8. CASE Spawn
    BY <2>8 DEF Spawn
  <2>9. CASE PublishPid
    BY <2>9 DEF PublishPid
  <2>10. CASE Started
    BY <2>10, ZenonT(60) DEF Started
  <2>11. CASE StartReturns
    BY <2>11, ZenonT(60) DEF StartReturns
  <2>12. CASE StartRaises
    BY <2>12, ZenonT(60) DEF StartRaises, Raise, InPrepare
  <2> QED BY <1>5, <2>1, <2>2, <2>3, <2>4, <2>5, <2>6, <2>7, <2>8, <2>9, <2>10, <2>11, <2>12
        DEF Start
<1>6. CASE Monitor
  BY <1>6, ZenonT(60) DEF Monitor, MonitorLoop, PollExited, PollAlive, Query, QueryNotDue
<1>7. CASE Stopping
  BY <1>7 DEF Stopping, StopPublish, StopKills, StopFails, StopReleases
<1>8. CASE Recovery
  BY <1>8 DEF Recovery, Crashed, CrashDelayOver, Recover, RecoveryWoken, RecoveryAbandoned
<1>9. CASE Ending
  <2>1. CASE HoldCancelled
    BY <2>1, ZenonT(60) DEF HoldCancelled, Raise, InPrepare
  <2>2. CASE FatalError
    BY <2>2, ZenonT(60) DEF FatalError, Raise, InPrepare
  <2>3. CASE RunEnds
    BY <2>3 DEF RunEnds
  <2>4. CASE Finally
    BY <2>4, ZenonT(60) DEF Finally
  <2> QED BY <1>9, <2>1, <2>2, <2>3, <2>4 DEF Ending
<1>10. CASE WakeRequest \/ SleepRequest \/ Threads
  <2>1. UNCHANGED ctlRest
    BY <1>10, RequestFrame
  <2> HIDE DEF Labels, States, Calls
  <2> QED BY <2>1
<1>11. CASE Environment
  BY <1>11 DEF Environment, SignalTerm, GameExits, HelperSteps, Boot, Alive
<1>12. CASE Exit \/ Kill
  BY <1>12, HaltInv DEF Exit, Kill
<1>13. CASE UNCHANGED vars
  <2> HIDE DEF Labels, States, Calls
  <2> QED BY <1>13 DEF vars
<1> QED BY <1>1, <1>2, <1>3, <1>4, <1>5, <1>6, <1>7, <1>8, <1>9, <1>10, <1>11, <1>12, <1>13
      DEF Next, Main

\* The events and the two flags.
LEMMA FlagsTyping == ASSUME IInv, [Next]_vars PROVE FlagsTypeOK'
<1> USE DEF events, flags, game, disk, local, rest, lock, Goto, Jump, Publish, Stop,
            ctlRest, FlagsTypeOK, IInv, TypeOK
<1>1. CASE Run \/ Loop
  BY <1>1 DEF Run, On, Loop
<1>2. CASE Prepare
  BY <1>2 DEF Prepare, PrepareLoop, PrepareHold, PrepareBegin, PrepareEnd, PrepareCancelled,
              PrepareFails, PrepareDelayOver, PrepareAbandoned, Hold, Raise, RetryLater, On
<1>3. CASE Update
  BY <1>3 DEF Update, UpdateBegin, SteamcmdInstalls, UpdateStamped, UpdateSucceeds,
              UpdateFails, UpdateCancelled, UpdateReturns, On, UpdateRaises, Raise,
              RetryLater
<1>4. CASE Wait
  BY <1>4 DEF Wait, WaitEnter, ArmSleeps, ArmOver, ArmWoken, WaitCheck, ListenerOpens,
              PeriodicUpdate, SleepLoop, Listen, On, WaitShutdown, ManualWake, Undisturbed,
              WaitReturns
<1>5. CASE Start
  BY <1>5 DEF Start, StartEnter, StartHold, StartGate, StartClear, StartUpdate, BackoffOver,
              Starting, Spawn, PublishPid, Started, StartReturns, StartRaises, Hold, Gate,
              On, Raise
<1>6. CASE Monitor
  BY <1>6 DEF Monitor, MonitorLoop, PollExited, PollAlive, Query, QueryNotDue, On
<1>7. CASE Stopping
  BY <1>7 DEF Stopping, StopPublish, StopKills, StopFails, StopReleases
<1>8. CASE Recovery
  BY <1>8 DEF Recovery, Crashed, CrashDelayOver, Recover, RecoveryWoken, RecoveryAbandoned,
              On
<1>9. CASE Ending
  BY <1>9 DEF Ending, HoldCancelled, FatalError, RunEnds, Finally, Raise
<1>10. CASE WakeRequest \/ SleepRequest \/ Threads
  BY <1>10, ZenonT(60) DEF WakeRequest, SignalWake, WakeSets, SleepRequest, SignalSleep, SleepSets,
               Threads, WakeSnapshot, WakeDecides, SleepSnapshot, SleepDecides
<1>11. CASE Environment
  BY <1>11 DEF Environment, SignalTerm, GameExits, HelperSteps, Boot
<1>12. CASE Exit \/ Kill
  BY <1>12, HaltInv DEF Exit, Kill
<1>13. CASE UNCHANGED vars
  BY <1>13 DEF vars
<1> QED BY <1>1, <1>2, <1>3, <1>4, <1>5, <1>6, <1>7, <1>8, <1>9, <1>10, <1>11, <1>12, <1>13
      DEF Next, Main

\* The server reference, the process and the wake sockets.
LEMMA GameTyping == ASSUME IInv, [Next]_vars PROVE GameTypeOK'
<1> USE DEF events, flags, game, disk, local, rest, lock, Goto, Jump, Publish, Stop,
            ctlRest, GameTypeOK, IInv, TypeOK
<1>1. CASE Run \/ Loop
  BY <1>1 DEF Run, On, Loop
<1>2. CASE Prepare
  BY <1>2 DEF Prepare, PrepareLoop, PrepareHold, PrepareBegin, PrepareEnd, PrepareCancelled,
              PrepareFails, PrepareDelayOver, PrepareAbandoned, Hold, Raise, RetryLater, On
<1>3. CASE Update
  BY <1>3 DEF Update, UpdateBegin, SteamcmdInstalls, UpdateStamped, UpdateSucceeds,
              UpdateFails, UpdateCancelled, UpdateReturns, On, UpdateRaises, Raise,
              RetryLater
<1>4. CASE Wait
  <2>1. CASE WaitEnter
    BY <2>1 DEF WaitEnter, On
  <2>2. CASE ArmSleeps
    BY <2>2 DEF ArmSleeps
  <2>3. CASE ArmOver
    BY <2>3 DEF ArmOver
  <2>4. CASE ArmWoken
    BY <2>4 DEF ArmWoken, WaitShutdown, ManualWake, WaitReturns
  <2>5. CASE WaitCheck
    BY <2>5 DEF WaitCheck, WaitShutdown, ManualWake, Undisturbed, WaitReturns
  <2>6. CASE ListenerOpens
    BY <2>6 DEF ListenerOpens, On
  <2>7. CASE PeriodicUpdate
    BY <2>7 DEF PeriodicUpdate, On
  <2>8. CASE SleepLoop
    BY <2>8 DEF SleepLoop, WaitShutdown, WaitReturns
  <2>9. CASE Listen
    BY <2>9 DEF Listen, WaitShutdown, ManualWake, Undisturbed, WaitReturns
  <2> QED BY <1>4, <2>1, <2>2, <2>3, <2>4, <2>5, <2>6, <2>7, <2>8, <2>9 DEF Wait
<1>5. CASE Start
  BY <1>5 DEF Start, StartEnter, StartHold, StartGate, StartClear, StartUpdate, BackoffOver,
              Starting, Spawn, PublishPid, Started, StartReturns, StartRaises, Hold, Gate,
              On, Raise
<1>6. CASE Monitor
  BY <1>6 DEF Monitor, MonitorLoop, PollExited, PollAlive, Query, QueryNotDue, On
<1>7. CASE Stopping
  BY <1>7 DEF Stopping, StopPublish, StopKills, StopFails, StopReleases
<1>8. CASE Recovery
  BY <1>8 DEF Recovery, Crashed, CrashDelayOver, Recover, RecoveryWoken, RecoveryAbandoned,
              On
<1>9. CASE Ending
  BY <1>9 DEF Ending, HoldCancelled, FatalError, RunEnds, Finally, Raise
<1>10. CASE WakeRequest \/ SleepRequest \/ Threads
  <2>1. UNCHANGED ctlRest
    BY <1>10, RequestFrame
  <2> QED BY <2>1 DEF ctlRest, IInv, GameTypeOK, TypeOK
<1>11. CASE Environment
  BY <1>11 DEF Environment, SignalTerm, GameExits, HelperSteps, Boot
<1>12. CASE Exit \/ Kill
  BY <1>12, HaltInv DEF Exit, Kill
<1>13. CASE UNCHANGED vars
  BY <1>13 DEF vars
<1> QED BY <1>1, <1>2, <1>3, <1>4, <1>5, <1>6, <1>7, <1>8, <1>9, <1>10, <1>11, <1>12, <1>13
      DEF Next, Main

\* run()'s bookkeeping; a crash is only ever counted within the budget.
LEMMA LocalTyping == ASSUME IInv, [Next]_vars PROVE LocalTypeOK'
<1> USE DEF events, flags, game, disk, local, rest, lock, Goto, Jump, Publish, Stop,
            ctlRest, LocalTypeOK, IInv, TypeOK
<1>1. CASE Run \/ Loop
  <2>1. CASE Run
    BY <2>1, CrashAssumption DEF Run, On
  <2>2. CASE Loop
    BY <2>2, CrashAssumption DEF Loop
  <2> QED BY <1>1, <2>1, <2>2
<1>2. CASE Prepare
  BY <1>2, CrashAssumption DEF Prepare, PrepareLoop, PrepareHold, PrepareBegin, PrepareEnd,
      PrepareCancelled, PrepareFails, PrepareDelayOver, PrepareAbandoned, Hold, Raise,
      RetryLater, On
<1>3. CASE Update
  BY <1>3, CrashAssumption DEF Update, UpdateBegin, SteamcmdInstalls, UpdateStamped,
      UpdateSucceeds, UpdateFails, UpdateCancelled, UpdateReturns, On, UpdateRaises, Raise,
      RetryLater
<1>4. CASE Wait
  BY <1>4, CrashAssumption DEF Wait, WaitEnter, ArmSleeps, ArmOver, ArmWoken, WaitCheck,
      ListenerOpens, PeriodicUpdate, SleepLoop, Listen, On, WaitShutdown, ManualWake,
      Undisturbed, WaitReturns
<1>5. CASE Start
  BY <1>5, CrashAssumption DEF Start, StartEnter, StartHold, StartGate, StartClear,
      StartUpdate, BackoffOver, Starting, Spawn, PublishPid, Started, StartReturns,
      StartRaises, Hold, Gate, On, Raise
<1>6. CASE Monitor
  <2>1. CASE MonitorLoop
    BY <2>1, CrashAssumption DEF MonitorLoop
  <2>2. CASE PollExited
    BY <2>2, CrashAssumption DEF PollExited
  <2>3. CASE PollAlive
    BY <2>3, CrashAssumption DEF PollAlive, On
  <2>4. CASE Query
    <3>1. idle' \in BOOLEAN
      BY <2>4 DEF Query
    <3> QED BY <2>4, <3>1 DEF Query, LocalTypeOK, IInv, TypeOK
  <2>5. CASE QueryNotDue
    BY <2>5, CrashAssumption DEF QueryNotDue
  <2> QED BY <1>6, <2>1, <2>2, <2>3, <2>4, <2>5 DEF Monitor
<1>7. CASE Stopping
  <2>1. CASE StopPublish
    BY <2>1, CrashAssumption DEF StopPublish
  <2>2. CASE StopKills
    BY <2>2, CrashAssumption DEF StopKills
  <2>3. CASE StopFails
    BY <2>3, CrashAssumption DEF StopFails
  <2>4. CASE StopReleases
    <3>1. /\ prepared' = prepared /\ idle' = idle
          /\ lastStop' \in BOOLEAN /\ crashes' \in {crashes, 0}
      BY <2>4 DEF StopReleases
    <3>2. startNow' \in BOOLEAN
      BY <2>4 DEF StopReleases
    <3> QED BY <3>1, <3>2, CrashAssumption DEF LocalTypeOK, IInv, TypeOK
  <2> QED BY <1>7, <2>1, <2>2, <2>3, <2>4 DEF Stopping
<1>8. CASE Recovery
  <2>1. CASE Crashed
    <3>1. crashes' \in 0 .. MaxCrashRestarts + 1
      BY <2>1, CrashAssumption DEF Crashed, CrashInv
    <3> QED BY <2>1, <3>1 DEF Crashed, LocalTypeOK, IInv, TypeOK
  <2>2. CASE CrashDelayOver
    BY <2>2, CrashAssumption DEF CrashDelayOver
  <2>3. CASE Recover
    BY <2>3, CrashAssumption DEF Recover
  <2>4. CASE RecoveryWoken
    BY <2>4, CrashAssumption DEF RecoveryWoken
  <2>5. CASE RecoveryAbandoned
    BY <2>5, CrashAssumption DEF RecoveryAbandoned
  <2> QED BY <1>8, <2>1, <2>2, <2>3, <2>4, <2>5 DEF Recovery
<1>9. CASE Ending
  BY <1>9, CrashAssumption DEF Ending, HoldCancelled, FatalError, RunEnds, Finally, Raise
<1>10. CASE WakeRequest \/ SleepRequest \/ Threads
  <2>1. UNCHANGED ctlRest
    BY <1>10, RequestFrame
  <2> QED BY <2>1 DEF ctlRest, IInv, LocalTypeOK, TypeOK
<1>11. CASE Environment
  BY <1>11, CrashAssumption DEF Environment, SignalTerm, GameExits, HelperSteps, Boot
<1>12. CASE Exit \/ Kill
  BY <1>12, HaltInv DEF Exit, Kill
<1>13. CASE UNCHANGED vars
  BY <1>13 DEF vars
<1> QED BY <1>1, <1>2, <1>3, <1>4, <1>5, <1>6, <1>7, <1>8, <1>9, <1>10, <1>11, <1>12, <1>13
      DEF Next, Main

\* The volume.
LEMMA DiskTyping == ASSUME IInv, [Next]_vars PROVE DiskTypeOK'
<1> USE DEF events, flags, game, disk, local, rest, lock, Goto, Jump, Publish, Stop,
            ctlRest, DiskTypeOK, IInv, TypeOK
<1>1. CASE Run \/ Loop
  BY <1>1 DEF Run, Loop
<1>2. CASE Prepare
  BY <1>2 DEF Prepare, PrepareLoop, PrepareHold, PrepareBegin, PrepareEnd, PrepareCancelled,
              PrepareFails, PrepareDelayOver, PrepareAbandoned, Hold, Raise, RetryLater
<1>3. CASE Update
  BY <1>3 DEF Update, UpdateBegin, SteamcmdInstalls, UpdateStamped, UpdateSucceeds,
              UpdateFails, UpdateCancelled, UpdateReturns, UpdateRaises, Raise, RetryLater
<1>4. CASE Wait
  BY <1>4 DEF Wait, WaitEnter, ArmSleeps, ArmOver, ArmWoken, WaitCheck, ListenerOpens,
              PeriodicUpdate, SleepLoop, Listen, WaitShutdown, ManualWake, Undisturbed,
              WaitReturns
<1>5. CASE Start
  BY <1>5 DEF Start, StartEnter, StartHold, StartGate, StartClear, StartUpdate, BackoffOver,
              Starting, Spawn, PublishPid, Started, StartReturns, StartRaises, Hold, Gate,
              Raise
<1>6. CASE Monitor
  BY <1>6 DEF Monitor, MonitorLoop, PollExited, PollAlive, Query, QueryNotDue
<1>7. CASE Stopping
  BY <1>7 DEF Stopping, StopPublish, StopKills, StopFails, StopReleases
<1>8. CASE Recovery
  BY <1>8 DEF Recovery, Crashed, CrashDelayOver, Recover, RecoveryWoken, RecoveryAbandoned
<1>9. CASE Ending
  BY <1>9 DEF Ending, HoldCancelled, FatalError, RunEnds, Finally, Raise
<1>10. CASE WakeRequest \/ SleepRequest \/ Threads
  <2>1. UNCHANGED ctlRest
    BY <1>10, RequestFrame
  <2> QED BY <2>1 DEF ctlRest, IInv, DiskTypeOK, TypeOK
<1>11. CASE Environment
  BY <1>11 DEF Environment, SignalTerm, GameExits, HelperSteps, Boot
<1>12. CASE Exit \/ Kill
  BY <1>12, HaltInv DEF Exit, Kill
<1>13. CASE UNCHANGED vars
  BY <1>13 DEF vars
<1> QED BY <1>1, <1>2, <1>3, <1>4, <1>5, <1>6, <1>7, <1>8, <1>9, <1>10, <1>11, <1>12, <1>13
      DEF Next, Main

\* The control threads.
LEMMA CtlTyping == ASSUME IInv, [Next]_vars PROVE CtlTypeOK'
<1> USE DEF events, flags, game, disk, local, rest, lock, Goto, Jump, Publish, Stop,
            ctlRest, CtlTypeOK, IInv, TypeOK
<1>1. CASE Run \/ Loop
  BY <1>1 DEF Run, Loop
<1>2. CASE Prepare
  BY <1>2 DEF Prepare, PrepareLoop, PrepareHold, PrepareBegin, PrepareEnd, PrepareCancelled,
              PrepareFails, PrepareDelayOver, PrepareAbandoned, Hold, Raise, RetryLater
<1>3. CASE Update
  BY <1>3 DEF Update, UpdateBegin, SteamcmdInstalls, UpdateStamped, UpdateSucceeds,
              UpdateFails, UpdateCancelled, UpdateReturns, UpdateRaises, Raise, RetryLater
<1>4. CASE Wait
  BY <1>4 DEF Wait, WaitEnter, ArmSleeps, ArmOver, ArmWoken, WaitCheck, ListenerOpens,
              PeriodicUpdate, SleepLoop, Listen, WaitShutdown, ManualWake, Undisturbed,
              WaitReturns
<1>5. CASE Start
  BY <1>5 DEF Start, StartEnter, StartHold, StartGate, StartClear, StartUpdate, BackoffOver,
              Starting, Spawn, PublishPid, Started, StartReturns, StartRaises, Hold, Gate,
              Raise
<1>6. CASE Monitor
  BY <1>6 DEF Monitor, MonitorLoop, PollExited, PollAlive, Query, QueryNotDue
<1>7. CASE Stopping
  BY <1>7 DEF Stopping, StopPublish, StopKills, StopFails, StopReleases
<1>8. CASE Recovery
  BY <1>8 DEF Recovery, Crashed, CrashDelayOver, Recover, RecoveryWoken, RecoveryAbandoned
<1>9. CASE Ending
  BY <1>9 DEF Ending, HoldCancelled, FatalError, RunEnds, Finally, Raise
<1>10. CASE WakeRequest \/ SleepRequest \/ Threads
  BY <1>10 DEF WakeRequest, SignalWake, WakeSets, SleepRequest, SignalSleep, SleepSets,
               Threads, WakeSnapshot, WakeDecides, SleepSnapshot, SleepDecides, Phases
<1>11. CASE Environment
  BY <1>11 DEF Environment, SignalTerm, GameExits, HelperSteps, Boot
<1>12. CASE Exit \/ Kill
  BY <1>12, HaltInv DEF Exit, Kill
<1>13. CASE UNCHANGED vars
  BY <1>13 DEF vars
<1> QED BY <1>1, <1>2, <1>3, <1>4, <1>5, <1>6, <1>7, <1>8, <1>9, <1>10, <1>11, <1>12, <1>13
      DEF Next, Main

\* A server is owned exactly between the spawn and the end of its stop.
LEMMA ServerStep == ASSUME IInv, [Next]_vars PROVE ServerInv'
<1> USE DEF events, flags, game, disk, local, rest, lock, Goto, Jump, Publish, Stop,
            ctlRest, ServerInv, ServerPlaces, MonitorBody, StopBody, IInv, TypeOK,
            ControlTypeOK, GameTypeOK
<1>1. CASE Run \/ Loop
  BY <1>1 DEF Run, Loop
<1>2. CASE Prepare
  <2>1. CASE PrepareLoop
    BY <2>1 DEF PrepareLoop
  <2>2. CASE PrepareHold
    BY <2>2 DEF PrepareHold, Hold
  <2>3. CASE PrepareBegin
    BY <2>3 DEF PrepareBegin, UpdateNeedsRepair
  <2>4. CASE PrepareEnd
    BY <2>4 DEF PrepareEnd
  <2>5. CASE PrepareCancelled
    BY <2>5 DEF PrepareCancelled, Raise, InPrepare, StartBody, PrepLabels, UpdateBody,
                PrepBody
  <2>6. CASE PrepareFails
    BY <2>6 DEF PrepareFails, InPrepare, RetryLater, PrepBody, UpdateBody
  <2>7. CASE PrepareDelayOver
    BY <2>7 DEF PrepareDelayOver
  <2>8. CASE PrepareAbandoned
    BY <2>8 DEF PrepareAbandoned
  <2> QED BY <1>2, <2>1, <2>2, <2>3, <2>4, <2>5, <2>6, <2>7, <2>8 DEF Prepare
<1>3. CASE Update
  <2>1. CASE UpdateBegin
    BY <2>1 DEF UpdateBegin
  <2>2. CASE SteamcmdInstalls
    BY <2>2 DEF SteamcmdInstalls
  <2>3. CASE UpdateStamped
    BY <2>3 DEF UpdateStamped
  <2>4. CASE UpdateSucceeds
    BY <2>4 DEF UpdateSucceeds, UpdateReturns
  <2>5. CASE UpdateFails
    BY <2>5 DEF UpdateFails, UpdateBody, UpdateRaises, UpdateReturns, RetryLater
  <2>6. CASE UpdateCancelled
    BY <2>6 DEF UpdateCancelled, Raise, InPrepare, StartBody, PrepLabels, UpdateBody,
                PrepBody
  <2> QED BY <1>3, <2>1, <2>2, <2>3, <2>4, <2>5, <2>6 DEF Update
<1>4. CASE Wait
  BY <1>4 DEF Wait, WaitEnter, ArmSleeps, ArmOver, ArmWoken, WaitCheck, ListenerOpens,
              PeriodicUpdate, SleepLoop, Listen, WaitShutdown, ManualWake, Undisturbed,
              WaitReturns
<1>5. CASE Start
  <2>1. CASE StartEnter
    BY <2>1 DEF StartEnter
  <2>2. CASE StartHold
    BY <2>2 DEF StartHold, Hold
  <2>3. CASE StartGate
    BY <2>3 DEF StartGate, Gate
  <2>4. CASE StartClear
    BY <2>4 DEF StartClear
  <2>5. CASE StartUpdate
    BY <2>5 DEF StartUpdate, UpdateNeedsRepair
  <2>6. CASE BackoffOver
    BY <2>6 DEF BackoffOver
  <2>7. CASE Starting
    BY <2>7 DEF Starting
  <2>8. CASE Spawn
    BY <2>8 DEF Spawn
  <2>9. CASE PublishPid
    BY <2>9 DEF PublishPid
  <2>10. CASE Started
    BY <2>10 DEF Started
  <2>11. CASE StartReturns
    BY <2>11 DEF StartReturns
  <2>12. CASE StartRaises
    BY <2>12 DEF StartRaises, Raise, InPrepare, StartBody, PrepLabels, UpdateBody, PrepBody
  <2> QED BY <1>5, <2>1, <2>2, <2>3, <2>4, <2>5, <2>6, <2>7, <2>8, <2>9, <2>10, <2>11, <2>12
        DEF Start
<1>6. CASE Monitor
  <2>1. CASE MonitorLoop
    BY <2>1 DEF MonitorLoop
  <2>2. CASE PollExited
    BY <2>2 DEF PollExited
  <2>3. CASE PollAlive
    BY <2>3 DEF PollAlive
  <2>4. CASE Query
    BY <2>4 DEF Query
  <2>5. CASE QueryNotDue
    BY <2>5 DEF QueryNotDue
  <2> QED BY <1>6, <2>1, <2>2, <2>3, <2>4, <2>5 DEF Monitor
<1>7. CASE Stopping
  <2>1. CASE StopPublish
    BY <2>1 DEF StopPublish
  <2>2. CASE StopKills
    BY <2>2 DEF StopKills
  <2>3. CASE StopFails
    BY <2>3 DEF StopFails
  <2>4. CASE StopReleases
    BY <2>4 DEF StopReleases
  <2> QED BY <1>7, <2>1, <2>2, <2>3, <2>4 DEF Stopping
<1>8. CASE Recovery
  BY <1>8 DEF Recovery, Crashed, CrashDelayOver, Recover, RecoveryWoken, RecoveryAbandoned
<1>9. CASE Ending
  <2>1. CASE HoldCancelled
    BY <2>1 DEF HoldCancelled, Raise, InPrepare, StartBody, PrepLabels, UpdateBody, PrepBody
  <2>2. CASE FatalError
    BY <2>2 DEF FatalError, WaitBody, Raise, InPrepare, StartBody, PrepLabels, UpdateBody,
                PrepBody
  <2>3. CASE RunEnds
    BY <2>3 DEF RunEnds
  <2>4. CASE Finally
    BY <2>4 DEF Finally
  <2> QED BY <1>9, <2>1, <2>2, <2>3, <2>4 DEF Ending
<1>10. CASE WakeRequest \/ SleepRequest \/ Threads
  <2>1. UNCHANGED ctlRest
    BY <1>10, RequestFrame
  <2> QED BY <2>1 DEF ctlRest, IInv, ServerInv, ServerPlaces, MonitorBody, StopBody
<1>11. CASE Environment
  BY <1>11 DEF Environment, SignalTerm, GameExits, HelperSteps, Boot, Alive
<1>12. CASE Exit \/ Kill
  BY <1>12, HaltInv DEF Exit, Kill
<1>13. CASE UNCHANGED vars
  BY <1>13 DEF vars
<1> QED BY <1>1, <1>2, <1>3, <1>4, <1>5, <1>6, <1>7, <1>8, <1>9, <1>10, <1>11, <1>12, <1>13
      DEF Next, Main

\* The sockets are open only while the sleep loop runs.
LEMMA ListenerStep == ASSUME IInv, [Next]_vars PROVE ListenerInv'
<1> USE DEF events, flags, game, disk, local, rest, lock, Goto, Jump, Publish, Stop,
            ctlRest, ListenerInv, UpdateBody, IInv, TypeOK, ControlTypeOK, GameTypeOK, Calls
<1>1. CASE Run \/ Loop
  BY <1>1 DEF Run, Loop
<1>2. CASE Prepare
  BY <1>2 DEF Prepare, PrepareLoop, PrepareHold, PrepareBegin, PrepareEnd, PrepareCancelled,
              PrepareFails, PrepareDelayOver, PrepareAbandoned, Hold, UpdateNeedsRepair,
              Raise, InPrepare, RetryLater, PrepBody, StartBody, PrepLabels, StopBody
<1>3. CASE Update
  BY <1>3 DEF Update, UpdateBegin, SteamcmdInstalls, UpdateStamped, UpdateSucceeds,
              UpdateFails, UpdateCancelled, UpdateReturns, UpdateRaises, Raise, RetryLater,
              InPrepare, StartBody, PrepLabels, StopBody, PrepBody
<1>4. CASE Wait
  BY <1>4 DEF Wait, WaitEnter, ArmSleeps, ArmOver, ArmWoken, WaitCheck, ListenerOpens,
              PeriodicUpdate, SleepLoop, Listen, WaitShutdown, ManualWake, Undisturbed,
              WaitReturns
<1>5. CASE Start
  BY <1>5 DEF Start, StartEnter, StartHold, StartGate, StartClear, StartUpdate, BackoffOver,
              Starting, Spawn, PublishPid, Started, StartReturns, StartRaises, Hold, Gate,
              UpdateNeedsRepair, Raise, InPrepare, StartBody, PrepLabels, StopBody, PrepBody
<1>6. CASE Monitor
  BY <1>6 DEF Monitor, MonitorLoop, PollExited, PollAlive, Query, QueryNotDue
<1>7. CASE Stopping
  BY <1>7 DEF Stopping, StopPublish, StopKills, StopFails, StopReleases
<1>8. CASE Recovery
  BY <1>8 DEF Recovery, Crashed, CrashDelayOver, Recover, RecoveryWoken, RecoveryAbandoned
<1>9. CASE Ending
  BY <1>9 DEF Ending, HoldCancelled, FatalError, RunEnds, Finally, Raise, WaitBody,
              MonitorBody, InPrepare, StartBody, PrepLabels, StopBody, PrepBody
<1>10. CASE WakeRequest \/ SleepRequest \/ Threads
  <2>1. UNCHANGED ctlRest
    BY <1>10, RequestFrame
  <2> QED BY <2>1 DEF ctlRest, IInv, ListenerInv, UpdateBody
<1>11. CASE Environment
  BY <1>11 DEF Environment, SignalTerm, GameExits, HelperSteps, Boot, Alive
<1>12. CASE Exit \/ Kill
  BY <1>12, HaltInv DEF Exit, Kill
<1>13. CASE UNCHANGED vars
  BY <1>13 DEF vars
<1> QED BY <1>1, <1>2, <1>3, <1>4, <1>5, <1>6, <1>7, <1>8, <1>9, <1>10, <1>11, <1>12, <1>13
      DEF Next, Main

\* An overdrawn budget ends in recovery, which a new budget ends.
LEMMA CrashStep == ASSUME IInv, [Next]_vars PROVE CrashInv'
<1> USE DEF events, flags, game, disk, local, rest, lock, Goto, Jump, Publish, Stop,
            ctlRest, CrashInv, IInv, TypeOK, LocalTypeOK, ServerInv, ServerPlaces,
            MonitorBody, StopBody
<1>1. CASE Run \/ Loop
  BY <1>1, CrashAssumption DEF Run, Loop
<1>2. CASE Prepare
  BY <1>2, CrashAssumption DEF Prepare, PrepareLoop, PrepareHold, PrepareBegin, PrepareEnd,
      PrepareCancelled, PrepareFails, PrepareDelayOver, PrepareAbandoned, Hold,
      UpdateNeedsRepair, Raise, InPrepare, RetryLater, PrepBody, UpdateBody, StartBody,
      PrepLabels
<1>3. CASE Update
  BY <1>3, CrashAssumption DEF Update, UpdateBegin, SteamcmdInstalls, UpdateStamped,
      UpdateSucceeds, UpdateFails, UpdateCancelled, UpdateReturns, UpdateBody, UpdateRaises,
      Raise, RetryLater, InPrepare, StartBody, PrepLabels, PrepBody
<1>4. CASE Wait
  BY <1>4, CrashAssumption DEF Wait, WaitEnter, ArmSleeps, ArmOver, ArmWoken, WaitCheck,
      ListenerOpens, PeriodicUpdate, SleepLoop, Listen, WaitShutdown, ManualWake,
      Undisturbed, WaitReturns
<1>5. CASE Start
  BY <1>5, CrashAssumption DEF Start, StartEnter, StartHold, StartGate, StartClear,
      StartUpdate, BackoffOver, Starting, Spawn, PublishPid, Started, StartReturns,
      StartRaises, Hold, Gate, UpdateNeedsRepair, Raise, InPrepare, StartBody, PrepLabels,
      UpdateBody, PrepBody
<1>6. CASE Monitor
  <2>1. CASE MonitorLoop
    BY <2>1, CrashAssumption DEF MonitorLoop
  <2>2. CASE PollExited
    BY <2>2, CrashAssumption DEF PollExited
  <2>3. CASE PollAlive
    BY <2>3, CrashAssumption DEF PollAlive
  <2>4. CASE Query
    BY <2>4, CrashAssumption DEF Query
  <2>5. CASE QueryNotDue
    BY <2>5, CrashAssumption DEF QueryNotDue
  <2> QED BY <1>6, <2>1, <2>2, <2>3, <2>4, <2>5 DEF Monitor
<1>7. CASE Stopping
  <2>1. CASE StopPublish
    BY <2>1, CrashAssumption DEF StopPublish
  <2>2. CASE StopKills
    BY <2>2, CrashAssumption DEF StopKills
  <2>3. CASE StopFails
    BY <2>3, CrashAssumption DEF StopFails
  <2>4. CASE StopReleases
    <3>1. server
      BY <2>4 DEF StopReleases
    <3>2. crashes \in Nat /\ crashes <= MaxCrashRestarts
      BY <3>1, CrashAssumption
    <3>3. crashes' \in {crashes, 0}
      BY <2>4 DEF StopReleases
    <3> QED BY <3>2, <3>3, CrashAssumption DEF CrashInv
  <2> QED BY <1>7, <2>1, <2>2, <2>3, <2>4 DEF Stopping
<1>8. CASE Recovery
  BY <1>8, CrashAssumption DEF Recovery, Crashed, CrashDelayOver, Recover, RecoveryWoken,
      RecoveryAbandoned
<1>9. CASE Ending
  <2>1. CASE HoldCancelled
    BY <2>1, CrashAssumption DEF HoldCancelled, Raise, InPrepare, StartBody, PrepLabels,
        UpdateBody, PrepBody
  <2>2. CASE FatalError
    BY <2>2, CrashAssumption DEF FatalError, WaitBody, Raise, InPrepare, StartBody,
        PrepLabels, UpdateBody, PrepBody
  <2>3. CASE RunEnds
    BY <2>3, CrashAssumption DEF RunEnds
  <2>4. CASE Finally
    BY <2>4, CrashAssumption DEF Finally
  <2> QED BY <1>9, <2>1, <2>2, <2>3, <2>4 DEF Ending
<1>10. CASE WakeRequest \/ SleepRequest \/ Threads
  <2>1. UNCHANGED ctlRest
    BY <1>10, RequestFrame
  <2> QED BY <2>1 DEF ctlRest, IInv, CrashInv
<1>11. CASE Environment
  BY <1>11, CrashAssumption DEF Environment, SignalTerm, GameExits, HelperSteps, Boot, Alive
<1>12. CASE Exit \/ Kill
  BY <1>12, HaltInv DEF Exit, Kill
<1>13. CASE UNCHANGED vars
  BY <1>13 DEF vars
<1> QED BY <1>1, <1>2, <1>3, <1>4, <1>5, <1>6, <1>7, <1>8, <1>9, <1>10, <1>11, <1>12, <1>13
      DEF Next, Main

\* STARTING is published before the game can run.
LEMMA StatusStep == ASSUME IInv, [Next]_vars PROVE StatusInv'
<1> USE DEF events, flags, game, disk, local, rest, lock, Goto, Jump, Publish, Stop,
            ctlRest, StatusInv, IInv, TypeOK, ServerInv, ServerPlaces, MonitorBody, StopBody
<1>1. CASE Run \/ Loop
  BY <1>1 DEF Run, Loop
<1>2. CASE Prepare
  <2>1. CASE PrepareLoop
    BY <2>1 DEF PrepareLoop
  <2>2. CASE PrepareHold
    BY <2>2 DEF PrepareHold, Hold
  <2>3. CASE PrepareBegin
    BY <2>3 DEF PrepareBegin, UpdateNeedsRepair
  <2>4. CASE PrepareEnd
    BY <2>4 DEF PrepareEnd
  <2>5. CASE PrepareCancelled
    BY <2>5 DEF PrepareCancelled, Raise, InPrepare, StartBody, PrepLabels, UpdateBody,
                PrepBody
  <2>6. CASE PrepareFails
    BY <2>6 DEF PrepareFails, InPrepare, RetryLater, PrepBody, UpdateBody
  <2>7. CASE PrepareDelayOver
    BY <2>7 DEF PrepareDelayOver
  <2>8. CASE PrepareAbandoned
    BY <2>8 DEF PrepareAbandoned
  <2> QED BY <1>2, <2>1, <2>2, <2>3, <2>4, <2>5, <2>6, <2>7, <2>8 DEF Prepare
<1>3. CASE Update
  <2>1. CASE UpdateBegin
    BY <2>1 DEF UpdateBegin
  <2>2. CASE SteamcmdInstalls
    BY <2>2 DEF SteamcmdInstalls
  <2>3. CASE UpdateStamped
    BY <2>3 DEF UpdateStamped
  <2>4. CASE UpdateSucceeds
    BY <2>4 DEF UpdateSucceeds, UpdateReturns
  <2>5. CASE UpdateFails
    BY <2>5 DEF UpdateFails, UpdateBody, UpdateRaises, UpdateReturns, RetryLater
  <2>6. CASE UpdateCancelled
    BY <2>6 DEF UpdateCancelled, Raise, InPrepare, StartBody, PrepLabels, UpdateBody,
                PrepBody
  <2> QED BY <1>3, <2>1, <2>2, <2>3, <2>4, <2>5, <2>6 DEF Update
<1>4. CASE Wait
  BY <1>4 DEF Wait, WaitEnter, ArmSleeps, ArmOver, ArmWoken, WaitCheck, ListenerOpens,
              PeriodicUpdate, SleepLoop, Listen, WaitShutdown, ManualWake, Undisturbed,
              WaitReturns
<1>5. CASE Start
  <2>1. CASE StartEnter
    BY <2>1 DEF StartEnter
  <2>2. CASE StartHold
    BY <2>2 DEF StartHold, Hold
  <2>3. CASE StartGate
    BY <2>3 DEF StartGate, Gate
  <2>4. CASE StartClear
    BY <2>4 DEF StartClear
  <2>5. CASE StartUpdate
    BY <2>5 DEF StartUpdate, UpdateNeedsRepair
  <2>6. CASE BackoffOver
    BY <2>6 DEF BackoffOver
  <2>7. CASE Starting
    BY <2>7 DEF Starting
  <2>8. CASE Spawn
    BY <2>8 DEF Spawn
  <2>9. CASE PublishPid
    BY <2>9 DEF PublishPid
  <2>10. CASE Started
    BY <2>10 DEF Started
  <2>11. CASE StartReturns
    BY <2>11 DEF StartReturns
  <2>12. CASE StartRaises
    BY <2>12 DEF StartRaises, Raise, InPrepare, StartBody, PrepLabels, UpdateBody, PrepBody
  <2> QED BY <1>5, <2>1, <2>2, <2>3, <2>4, <2>5, <2>6, <2>7, <2>8, <2>9, <2>10, <2>11, <2>12
        DEF Start
<1>6. CASE Monitor
  <2>1. CASE MonitorLoop
    BY <2>1 DEF MonitorLoop
  <2>2. CASE PollExited
    BY <2>2 DEF PollExited
  <2>3. CASE PollAlive
    BY <2>3 DEF PollAlive
  <2>4. CASE Query
    BY <2>4 DEF Query
  <2>5. CASE QueryNotDue
    BY <2>5 DEF QueryNotDue
  <2> QED BY <1>6, <2>1, <2>2, <2>3, <2>4, <2>5 DEF Monitor
<1>7. CASE Stopping
  BY <1>7 DEF Stopping, StopPublish, StopKills, StopFails, StopReleases
<1>8. CASE Recovery
  BY <1>8 DEF Recovery, Crashed, CrashDelayOver, Recover, RecoveryWoken, RecoveryAbandoned
<1>9. CASE Ending
  <2>1. CASE HoldCancelled
    BY <2>1 DEF HoldCancelled, Raise, InPrepare, StartBody, PrepLabels, UpdateBody, PrepBody
  <2>2. CASE FatalError
    BY <2>2 DEF FatalError, WaitBody, Raise, InPrepare, StartBody, PrepLabels, UpdateBody,
                PrepBody
  <2>3. CASE RunEnds
    BY <2>3 DEF RunEnds
  <2>4. CASE Finally
    BY <2>4 DEF Finally
  <2> QED BY <1>9, <2>1, <2>2, <2>3, <2>4 DEF Ending
<1>10. CASE WakeRequest \/ SleepRequest \/ Threads
  <2>1. UNCHANGED ctlRest
    BY <1>10, RequestFrame
  <2> QED BY <2>1 DEF ctlRest, IInv, StatusInv
<1>11. CASE Environment
  BY <1>11 DEF Environment, SignalTerm, GameExits, HelperSteps, Boot, Alive
<1>12. CASE Exit \/ Kill
  BY <1>12, HaltInv DEF Exit, Kill
<1>13. CASE UNCHANGED vars
  BY <1>13 DEF vars
<1> QED BY <1>1, <1>2, <1>3, <1>4, <1>5, <1>6, <1>7, <1>8, <1>9, <1>10, <1>11, <1>12, <1>13
      DEF Next, Main

\* A start gets past its update only with the marker gone.
LEMMA RepairStep == ASSUME IInv, [Next]_vars PROVE RepairInv'
<1> USE DEF events, flags, game, disk, local, rest, lock, Goto, Jump, Publish, Stop,
            ctlRest, On, RepairInv, UpdateNeedsRepair, IInv, TypeOK, ControlTypeOK,
            DiskTypeOK
<1>1. CASE Run \/ Loop
  BY <1>1 DEF Run, Loop
<1>2. CASE Prepare
  BY <1>2 DEF Prepare, PrepareLoop, PrepareHold, PrepareBegin, PrepareEnd, PrepareCancelled,
              PrepareFails, PrepareDelayOver, PrepareAbandoned, Hold, Raise, InPrepare,
              RetryLater, PrepBody, UpdateBody, StartBody, PrepLabels, StopBody
<1>3. CASE Update
  BY <1>3 DEF Update, UpdateBegin, SteamcmdInstalls, UpdateStamped, UpdateSucceeds,
              UpdateFails, UpdateCancelled, UpdateReturns, UpdateBody, UpdateRaises, Raise,
              RetryLater, InPrepare, StartBody, PrepLabels, StopBody, PrepBody
<1>4. CASE Wait
  BY <1>4 DEF Wait, WaitEnter, ArmSleeps, ArmOver, ArmWoken, WaitCheck, ListenerOpens,
              PeriodicUpdate, SleepLoop, Listen, WaitShutdown, ManualWake, Undisturbed,
              WaitReturns
<1>5. CASE Start
  BY <1>5 DEF Start, StartEnter, StartHold, StartGate, StartClear, StartUpdate, BackoffOver,
              Starting, Spawn, PublishPid, Started, StartReturns, StartRaises, Hold, Gate,
              Raise, InPrepare, StartBody, PrepLabels, UpdateBody, StopBody, PrepBody
<1>6. CASE Monitor
  BY <1>6 DEF Monitor, MonitorLoop, PollExited, PollAlive, Query, QueryNotDue
<1>7. CASE Stopping
  BY <1>7 DEF Stopping, StopPublish, StopKills, StopFails, StopReleases
<1>8. CASE Recovery
  BY <1>8 DEF Recovery, Crashed, CrashDelayOver, Recover, RecoveryWoken, RecoveryAbandoned
<1>9. CASE Ending
  BY <1>9 DEF Ending, HoldCancelled, FatalError, RunEnds, Finally, Raise, WaitBody,
              MonitorBody, InPrepare, StartBody, PrepLabels, UpdateBody, StopBody, PrepBody
<1>10. CASE WakeRequest \/ SleepRequest \/ Threads
  <2>1. UNCHANGED ctlRest
    BY <1>10, RequestFrame
  <2> QED BY <2>1 DEF ctlRest, IInv, RepairInv, UpdateNeedsRepair
<1>11. CASE Environment
  BY <1>11 DEF Environment, SignalTerm, GameExits, HelperSteps, Boot, Alive
<1>12. CASE Exit \/ Kill
  BY <1>12, HaltInv DEF Exit, Kill
<1>13. CASE UNCHANGED vars
  BY <1>13 DEF vars
<1> QED BY <1>1, <1>2, <1>3, <1>4, <1>5, <1>6, <1>7, <1>8, <1>9, <1>10, <1>11, <1>12, <1>13
      DEF Next, Main

\* The invariant is inductive ...
LEMMA InvStep == ASSUME IInv, [Next]_vars PROVE IInv'
BY LockStep, ControlTyping, FlagsTyping, GameTyping, LocalTyping, DiskTyping, CtlTyping,
   ServerStep, ListenerStep, CrashStep, StatusStep, RepairStep
   DEF IInv, TypeOK

\* ... and holds when a container is first started.
LEMMA InvInit == ASSUME Init PROVE IInv
<1> USE DEF Init, Volatile
<1>1. LockTypeOK
  BY DEF LockTypeOK, LockInit
<1>2. ControlTypeOK
  BY DEF ControlTypeOK, NewCall, Labels, RunLabels, States, Calls
<1>3. FlagsTypeOK /\ GameTypeOK
  BY DEF FlagsTypeOK, GameTypeOK
<1>4. LocalTypeOK
  <2>1. crashes \in 0 .. MaxCrashRestarts + 1
    BY CrashAssumption
  <2> QED BY <2>1 DEF LocalTypeOK
<1>5. DiskTypeOK
  BY DEF DiskTypeOK
<1>6. CtlTypeOK
  BY DEF CtlTypeOK, NewCtl, Phases
<1>7. DepthMatches
  <2>1. ~InStart /\ ~InPrepare /\ ~InSleepUpdate
    BY DEF InStart, InPrepare, InSleepUpdate, PrepLabels, PrepBody, UpdateBody, StartBody,
           StopBody
  <2>2. Scopes = 0
    BY <2>1 DEF Scopes
  <2> QED BY <2>2 DEF DepthMatches, LockInit, Nobody, Self
<1>8. ServerInv /\ ListenerInv /\ StatusInv /\ RepairInv
  BY DEF ServerInv, ListenerInv, StatusInv, RepairInv, StopBody, MonitorBody
<1>9. CrashInv
  BY CrashAssumption DEF CrashInv
<1> QED BY <1>1, <1>2, <1>3, <1>4, <1>5, <1>6, <1>7, <1>8, <1>9 DEF IInv, TypeOK
-----------------------------------------------------------------------------
(* The properties *)

\* The inductive invariant holds in every reachable state.
THEOREM Invariance == Spec => []IInv
BY InvInit, InvStep, PTL DEF Spec

\* Type correctness: in particular the crash counter stays within one of the budget
\* and the lock is held by nobody, the supervisor or a helper.
THEOREM TypeCorrect == Spec => []TypeOK
<1>1. IInv => TypeOK
  BY DEF IInv
<1> QED BY <1>1, Invariance, PTL

\* maintenance.py: no failure, cancellation or request leaks the lock or drops it early.
THEOREM LockCounted == Spec => []DepthMatches
<1>1. IInv => DepthMatches
  BY DEF IInv
<1> QED BY <1>1, Invariance, PTL

\* While a game process or someone of the supervisor is at the files, the lock is ours.
LEMMA OursWhileBusy ==
  ASSUME IInv, proc # "none" \/ FilesBusy
  PROVE  flock = Self
<1>1. CASE proc # "none"
  BY <1>1, ScopesNat DEF IInv, ServerInv, DepthMatches
<1>2. CASE FilesBusy
  <2>1. InStart \/ InPrepare \/ InSleepUpdate
    BY <1>2 DEF FilesBusy, IInv, TypeOK, ControlTypeOK, Calls, InStart, InPrepare, InSleepUpdate,
                PrepLabels, PrepBody, UpdateBody
  <2>2. Scopes > 0
    BY <2>1 DEF Scopes
  <2> QED BY <2>2, ScopesNat DEF IInv, DepthMatches
<1> QED BY <1>1, <1>2

\* maintenance.py, backup.sh, restore.sh: the data volume is never shared between a
\* helper and the game, an update or a preparation.
THEOREM MaintenanceSafe == Spec => []MaintenanceExcluded
<1>1. IInv => MaintenanceExcluded
  BY OursWhileBusy, HelpersAssumption DEF MaintenanceExcluded
<1> QED BY <1>1, Invariance, PTL

\* ARCHITECTURE.md, "Port ownership invariant".
THEOREM PortsSafe == Spec => []OnePortOwner
<1>1. IInv => OnePortOwner
  BY DEF IInv, OnePortOwner, ListenerInv, ServerInv, ServerPlaces, MonitorBody, StopBody, UpdateBody
<1> QED BY <1>1, Invariance, PTL

\* start_server/stop_server: a game that may be alive is owned.
THEOREM GameAlwaysOwned == Spec => []GameOwned
<1>1. IInv => GameOwned
  BY DEF IInv, GameOwned, ServerInv, ServerPlaces, MonitorBody, StopBody
<1> QED BY <1>1, Invariance, PTL

\* state.py: what the status file says never hides a running game.
THEOREM StatusNeverHidesGame == Spec => []StatusTruthful
<1>1. IInv => StatusTruthful
  BY DEF IInv, StatusTruthful, ServerInv, StatusInv
<1> QED BY <1>1, Invariance, PTL

\* run(): a game never runs on an overdrawn crash budget.
THEOREM CrashesBounded == Spec => []CrashBudget
<1>1. IInv => CrashBudget
  BY CrashAssumption DEF IInv, CrashBudget, CrashInv, ServerInv, TypeOK, LocalTypeOK
<1> QED BY <1>1, Invariance, PTL

-----------------------------------------------------------------------------
(* Properties of steps *)

\* Only ServerProcess.start makes a game run, and what ran before is gone first.
LEMMA OnlySpawnStarts == ASSUME [Next]_vars, proc' # "none" PROVE proc # "none" \/ Spawn
<1> USE DEF Jump, Publish, rest, game
<1>1. CASE Main
  <2>1. CASE Prepare \/ Update \/ Run \/ Loop
    BY <2>1 DEF Run, Loop, Prepare, PrepareLoop, PrepareHold, Hold, PrepareBegin, PrepareEnd,
                PrepareCancelled, PrepareFails, RetryLater, PrepareDelayOver, PrepareAbandoned,
                Raise, Update, UpdateBegin, SteamcmdInstalls, UpdateStamped, UpdateSucceeds,
                UpdateReturns, UpdateFails, UpdateRaises, UpdateCancelled
  <2>2. CASE Wait \/ Start
    BY <2>2 DEF Wait, WaitEnter, ArmSleeps, ArmOver, ArmWoken, WaitShutdown, ManualWake,
                WaitReturns, WaitCheck, ListenerOpens, PeriodicUpdate, SleepLoop, Listen, Start,
                StartEnter, StartHold, Hold, StartGate, Gate, StartClear, StartUpdate,
                BackoffOver, Starting, PublishPid, Started, StartReturns, StartRaises, Raise
  <2>3. CASE Monitor \/ Stopping \/ Recovery \/ Ending \/ Exit
    BY <2>3 DEF Monitor, MonitorLoop, PollExited, PollAlive, Query, QueryNotDue, Stopping,
                StopPublish, StopKills, StopFails, StopReleases, Recovery, Crashed,
                CrashDelayOver, Recover, RecoveryWoken, RecoveryAbandoned, Ending, HoldCancelled,
                FatalError, RunEnds, Finally, Raise, Exit, Halt
  <2> QED BY <1>1, <2>1, <2>2, <2>3 DEF Main
<1>2. CASE WakeRequest \/ SleepRequest \/ Threads
  BY <1>2, RequestFrame DEF ctlRest
<1>3. CASE Environment \/ Kill
  BY <1>3 DEF Environment, SignalTerm, ctlRest, GameExits, HelperSteps, Kill, Halt, Boot
<1>4. CASE UNCHANGED vars
  BY <1>4 DEF vars
<1> QED BY <1>1, <1>2, <1>3, <1>4 DEF Next

\* WAKE-AND-SLEEP.md, "Update interaction": a repair precedes the start, restarts of the
\* container included.
THEOREM RepairFirst == Spec => NeverStartsHalfUpdated
<1>1. ASSUME IInv, [Next]_vars
      PROVE  [GameStarts => ~marker \/ On("start_on_update_failure")]_vars
  <2>1. ASSUME GameStarts PROVE Spawn
    BY <1>1, <2>1, OnlySpawnStarts DEF GameStarts
  <2>2. ASSUME Spawn PROVE ~marker \/ On("start_on_update_failure")
    BY <1>1, <2>2 DEF Spawn, IInv, RepairInv, UpdateNeedsRepair
  <2> QED BY <2>1, <2>2
<1> QED BY <1>1, Invariance, PTL DEF Spec, NeverStartsHalfUpdated

\* The lock changes hands only through being free.
LEMMA NoHandover ==
  ASSUME IInv, [Next]_vars
  PROVE  flock' = flock \/ flock = Nobody \/ flock' = Nobody
<1> USE DEF lock, rest, Jump, Publish, TryAcquire, Release
<1>0. flock # Nobody => depth > 0 \/ (flock # Self /\ depth = 0)
  BY DEF IInv, TypeOK, LockTypeOK, DepthMatches
<1>1. CASE Prepare \/ Update \/ Run \/ Loop
  BY <1>1, <1>0 DEF Run, Loop, Prepare, PrepareLoop, PrepareHold, Hold, PrepareBegin, PrepareEnd,
                PrepareCancelled, PrepareFails, RetryLater, PrepareDelayOver, PrepareAbandoned,
                Raise, Update, UpdateBegin, SteamcmdInstalls, UpdateStamped, UpdateSucceeds,
                UpdateReturns, UpdateFails, UpdateRaises, UpdateCancelled
<1>2. CASE Wait \/ Start
  <2>1. CASE Wait
    BY <2>1, <1>0 DEF Wait, WaitEnter, ArmSleeps, ArmOver, ArmWoken, WaitShutdown, ManualWake,
                WaitReturns, WaitCheck, ListenerOpens, PeriodicUpdate, SleepLoop, Listen
  <2>2. CASE StartHold \/ Spawn
    <3>1. TryAcquire
      BY <2>2 DEF StartHold, Hold, Spawn
    <3> QED BY <3>1
  <2>4. CASE Started \/ StartReturns \/ StartRaises
    BY <2>4 DEF Started, StartReturns, StartRaises, Raise
  <2>3. CASE StartEnter \/ StartGate \/ StartClear \/ StartUpdate \/ BackoffOver \/ Starting
               \/ PublishPid
    BY <2>3 DEF StartEnter, StartGate, Gate, StartClear, StartUpdate, BackoffOver, Starting,
                PublishPid
  <2> QED BY <1>2, <2>1, <2>2, <2>3, <2>4 DEF Start
<1>3. CASE Monitor \/ Stopping \/ Recovery \/ Ending
  BY <1>3, <1>0 DEF Monitor, MonitorLoop, PollExited, PollAlive, Query, QueryNotDue, Stopping,
                StopPublish, StopKills, StopFails, StopReleases, Recovery, Crashed,
                CrashDelayOver, Recover, RecoveryWoken, RecoveryAbandoned, Ending, HoldCancelled,
                FatalError, RunEnds, Finally, Raise
<1>4. CASE WakeRequest \/ SleepRequest \/ Threads
  BY <1>4, RequestFrame DEF ctlRest
<1>5. CASE Environment
  BY <1>5 DEF Environment, SignalTerm, ctlRest, GameExits, HelperSteps, HelperEnters, HelperLeaves,
              Boot
<1>6. CASE Exit \/ Kill
  BY <1>6 DEF Exit, Kill, Halt, LockDies
<1>7. CASE UNCHANGED vars
  BY <1>7 DEF vars
<1> QED BY <1>1, <1>2, <1>3, <1>4, <1>5, <1>6, <1>7 DEF Next, Main

\* Files are worked on only by a preparation or an update that is under way already.
LEMMA FilesFromInside ==
  ASSUME [Next]_vars, FilesBusy' PROVE pc \in PrepBody \cup UpdateBody
<1> USE DEF FilesBusy, Goto, Jump, Publish, Stop, PrepBody, UpdateBody
<1>1. CASE Prepare \/ Update \/ Run \/ Loop
  BY <1>1 DEF Run, Loop, Prepare, PrepareLoop, PrepareHold, Hold, PrepareBegin, PrepareEnd,
              PrepareCancelled, PrepareFails, RetryLater, PrepareDelayOver, PrepareAbandoned,
              Raise, Update, UpdateBegin, SteamcmdInstalls, UpdateStamped, UpdateSucceeds,
              UpdateReturns, UpdateFails, UpdateRaises, UpdateCancelled
<1>2. CASE Wait
  BY <1>2 DEF Wait, WaitEnter, ArmSleeps, ArmOver, ArmWoken, WaitShutdown, ManualWake,
              WaitReturns, WaitCheck, ListenerOpens, PeriodicUpdate, SleepLoop, Listen
<1>3. CASE Start
  BY <1>3 DEF Start, StartEnter, StartHold, Hold, StartGate, Gate, StartClear, StartUpdate,
              BackoffOver, Starting, Spawn, PublishPid, Started, StartReturns, StartRaises, Raise
<1>4. CASE Monitor \/ Stopping \/ Recovery \/ Ending
  BY <1>4 DEF Monitor, MonitorLoop, PollExited, PollAlive, Query, QueryNotDue, Stopping,
              StopPublish, StopKills, StopFails, StopReleases, Recovery, Crashed,
              CrashDelayOver, Recover, RecoveryWoken, RecoveryAbandoned, Ending, HoldCancelled,
              FatalError, RunEnds, Finally, Raise
<1>5. CASE WakeRequest \/ SleepRequest \/ Threads
  BY <1>5, RequestFrame DEF ctlRest
<1>6. CASE Environment
  BY <1>6 DEF Environment, SignalTerm, ctlRest, GameExits, HelperSteps, Boot
<1>7. CASE Exit \/ Kill
  BY <1>7 DEF Exit, Kill, Halt
<1>8. CASE UNCHANGED vars
  BY <1>8 DEF vars
<1> QED BY <1>1, <1>2, <1>3, <1>4, <1>5, <1>6, <1>7, <1>8 DEF Next, Main

\* The owner of the lock decides who can be on the volume.
UsersInv == /\ flock = Nobody => Users = {}
            /\ flock \in Helpers => Users = {flock}
            /\ flock = Self => Users \in {{}, {"game"}, {"files"}}

\* At most one user is on the volume, the one that holds the lock.
LEMMA UsersByOwner == IInv => UsersInv
<1> SUFFICES ASSUME IInv PROVE UsersInv
  OBVIOUS
<1> USE DEF UsersInv
<1>1. proc # "none" \/ FilesBusy => flock = Self
  BY OursWhileBusy
<1>2. ~(proc # "none" /\ FilesBusy)
  BY DEF IInv, ServerInv, ServerPlaces, MonitorBody, StopBody, FilesBusy
<1>3. CASE flock = Nobody
  BY <1>1, <1>3, HelpersAssumption DEF Users, Nobody, Self
<1>4. CASE flock \in Helpers
  <2>1. proc = "none" /\ ~FilesBusy
    BY <1>1, <1>4, HelpersAssumption
  <2> QED BY <1>4, <2>1, HelpersAssumption DEF Users, Nobody, Self
<1>5. CASE flock = Self
  <2>1. {h \in Helpers : flock = h} = {}
    BY <1>5, HelpersAssumption
  <2> QED BY <1>2, <1>5, <2>1, HelpersAssumption DEF Users, Nobody, Self
<1> QED BY <1>3, <1>4, <1>5 DEF IInv, TypeOK, LockTypeOK

\* Every step of the supervisor is a step of the guard, or leaves its users alone.
LEMMA GuardStep == ASSUME IInv, IInv', [Next]_vars PROVE [Guard!Next]_Users
<1>0. UsersInv /\ UsersInv'
  BY UsersByOwner, PTL
<1>1. flock \in {Nobody, Self} \cup Helpers /\ flock' \in {Nobody, Self} \cup Helpers
  BY DEF IInv, TypeOK, LockTypeOK
<1>2. CASE flock = Nobody
  BY <1>0, <1>1, <1>2 DEF UsersInv, Guard!Next, Guard!Enter
<1>3. CASE flock' = Nobody
  BY <1>0, <1>3 DEF UsersInv, Guard!Next, Guard!Leave
<1>4. CASE flock' = flock /\ flock \in Helpers
  BY <1>0, <1>4 DEF UsersInv
<1>5. CASE flock' = flock /\ flock = Self
  <2>1. ~(proc # "none" /\ FilesBusy')
    BY FilesFromInside DEF IInv, ServerInv, ServerPlaces, MonitorBody, StopBody, PrepBody, UpdateBody
  <2>2. ~(FilesBusy /\ proc' # "none")
    BY OnlySpawnStarts DEF FilesBusy, Spawn, IInv, ServerInv, ServerPlaces, MonitorBody, StopBody
  <2>3. Users = {"game"} => proc # "none"
    BY <1>5, HelpersAssumption DEF Users
  <2>4. Users = {"files"} => FilesBusy
    BY <1>5, HelpersAssumption DEF Users
  <2>5. Users' = {"game"} => proc' # "none"
    BY <1>5, HelpersAssumption DEF Users
  <2>6. Users' = {"files"} => FilesBusy'
    BY <1>5, HelpersAssumption DEF Users
  <2> QED
    BY <1>0, <1>5, <2>1, <2>2, <2>3, <2>4, <2>5, <2>6
       DEF UsersInv, Guard!Next, Guard!Enter, Guard!Leave
<1> QED BY <1>1, <1>2, <1>3, <1>4, <1>5, NoHandover

\* WAKE-AND-SLEEP.md: updates, preparation, the game's lifetime, backups and restores have
\* the data volume one at a time.
THEOREM GuardImplemented == Spec => ImplementsGuard
<1>1. Init => Guard!Init
  BY InvInit, UsersByOwner DEF UsersInv, Init, LockInit, Guard!Init
<1> QED BY <1>1, GuardStep, Invariance, PTL DEF Spec, ImplementsGuard, Guard!Spec

-----------------------------------------------------------------------------
(* Without control threads *)

\* From the reset of wake_event on, STARTING, RUNNING or IDLE is published, and
\* a signal handler that sees one of these leaves the event alone.
WatchedInv ==
  pc \in {"spawn", "publish_pid", "started"} \cup MonitorBody => state \in Active /\ (wake => shutdown)

LEMMA WatchedStep == ASSUME IInv, WatchedInv, Clients = {}, [Next]_vars PROVE WatchedInv'
<1> USE DEF WatchedInv, MonitorBody, Active, events, rest, Goto, Jump, Publish, Stop
<1>1. CASE Run \/ Loop
  BY <1>1 DEF Run, Loop
<1>2. CASE Prepare
  BY <1>2 DEF Prepare, PrepareLoop, PrepareHold, PrepareBegin, PrepareEnd, PrepareCancelled,
              PrepareFails, PrepareDelayOver, PrepareAbandoned, Hold, Raise, RetryLater
<1>3. CASE Update
  BY <1>3 DEF Update, UpdateBegin, SteamcmdInstalls, UpdateStamped, UpdateSucceeds,
              UpdateFails, UpdateCancelled, UpdateReturns, UpdateBody, UpdateRaises, Raise,
              RetryLater
<1>4. CASE Wait
  BY <1>4 DEF Wait, WaitEnter, ArmSleeps, ArmOver, ArmWoken, WaitCheck, ListenerOpens,
              PeriodicUpdate, SleepLoop, Listen, WaitShutdown, ManualWake, Undisturbed,
              WaitReturns
<1>5. CASE Start
  <2>1. CASE StartEnter \/ StartHold \/ StartGate \/ StartClear \/ StartUpdate \/ BackoffOver
    BY <2>1 DEF StartEnter, StartHold, StartGate, StartClear, StartUpdate, BackoffOver, Hold, Gate
  <2>2. CASE Starting \/ Spawn \/ PublishPid \/ Started \/ StartReturns \/ StartRaises
    BY <2>2 DEF Starting, Spawn, PublishPid, Started, StartReturns, StartRaises, Raise
  <2> QED BY <1>5, <2>1, <2>2 DEF Start
<1>6. CASE Monitor
  BY <1>6 DEF Monitor, MonitorLoop, PollExited, PollAlive, Query, QueryNotDue
<1>7. CASE Stopping \/ Recovery
  BY <1>7 DEF Stopping, StopPublish, StopKills, StopFails, StopReleases, Recovery, Crashed,
              CrashDelayOver, Recover, RecoveryWoken, RecoveryAbandoned
<1>8. CASE Ending
  BY <1>8 DEF Ending, HoldCancelled, FatalError, RunEnds, Finally, Raise
<1>9. CASE WakeRequest \/ SleepRequest \/ Threads
  <2>1. SignalWake \/ SignalSleep
    BY <1>9 DEF WakeRequest, SleepRequest, Threads
  <2> QED BY <2>1 DEF SignalWake, SignalSleep, ctlRest
<1>10. CASE Environment
  BY <1>10 DEF Environment, SignalTerm, ctlRest, GameExits, HelperSteps, Boot
<1>11. CASE Exit \/ Kill
  BY <1>11 DEF Exit, Kill, Halt
<1>12. CASE UNCHANGED vars
  BY <1>12 DEF vars
<1> QED BY <1>1, <1>2, <1>3, <1>4, <1>5, <1>6, <1>7, <1>8, <1>9, <1>10, <1>11, <1>12
        DEF Next, Main

\* CONFIGURATION.md: a wake request to an active server is not queued for a later
\* restart.  This holds of the requests that the signal handlers make, whatever
\* else fails; a control thread's decision may be older than the start it meets.
THEOREM SignalsNotQueued == ASSUME Clients = {} PROVE Spec => []NoQueuedWake
<1>1. Init => WatchedInv
  BY DEF Init, WatchedInv, MonitorBody
<1>2. IInv /\ WatchedInv /\ [Next]_vars => WatchedInv'
  BY WatchedStep
<1>3. WatchedInv => NoQueuedWake
  BY DEF WatchedInv, NoQueuedWake
<1> QED BY Invariance, <1>1, <1>2, <1>3, PTL DEF Spec

-----------------------------------------------------------------------------
(* What becomes of an accepted request *)

\* The wait is a place in the program, and from its first publication on SLEEPING is
\* what it shows between two updates.
WaitInv == waiting <=> pc \in WaitBody \/ (pc \in UpdateBody /\ call.update = "sleep")
AsleepInv == pc \in {"arm_wait", "open", "sleep_loop", "listen"} => state = "SLEEPING"

\* The history variable watches: it changes nothing of the supervisor.
LEMMA RequestStep == ASSUME [RequestNext]_requestVars PROVE [Next]_vars
BY DEF RequestNext, requestVars, Next, Environment

\* wait_for_wake sets _waiting_for_wake on its way in and drops it on each way out.
LEMMA WaitStep == ASSUME IInv, WaitInv, AsleepInv, [Next]_vars PROVE WaitInv' /\ AsleepInv'
<1> USE DEF WaitInv, AsleepInv, flags, rest, Goto, Jump, Publish, Stop, WaitBody, UpdateBody
<1>0. ControlTypeOK /\ FlagsTypeOK
  BY DEF IInv, TypeOK
<1>1. CASE Run \/ Loop
  BY <1>1 DEF Run, Loop
<1>2. CASE Prepare
  <2>1. CASE PrepareBegin
    BY <1>0, <2>1 DEF PrepareBegin, ControlTypeOK, Calls
  <2>2. CASE PrepareLoop \/ PrepareHold \/ PrepareEnd \/ PrepareCancelled \/ PrepareFails
               \/ PrepareDelayOver \/ PrepareAbandoned
    BY <1>0, <2>2 DEF PrepareLoop, PrepareHold, Hold, PrepareEnd, PrepareCancelled, PrepareFails,
                PrepareDelayOver, PrepareAbandoned, Raise, RetryLater, InPrepare, PrepBody
  <2> QED BY <1>2, <2>1, <2>2 DEF Prepare
<1>3. CASE Update
  BY <1>0, <1>3 DEF Update, UpdateBegin, SteamcmdInstalls, UpdateStamped, UpdateSucceeds,
              UpdateFails, UpdateCancelled, UpdateReturns, UpdateRaises, Raise,
              RetryLater
<1>4. CASE Wait
  <2>1. CASE WaitEnter \/ ArmSleeps \/ ArmOver \/ ArmWoken \/ WaitCheck
    BY <2>1 DEF WaitEnter, ArmSleeps, ArmOver, ArmWoken, WaitCheck, WaitShutdown, ManualWake,
                Undisturbed, WaitReturns
  <2>2. CASE ListenerOpens \/ PeriodicUpdate \/ SleepLoop \/ Listen
    BY <1>0, <2>2 DEF ListenerOpens, PeriodicUpdate, SleepLoop, Listen, WaitShutdown, ManualWake,
                Undisturbed, WaitReturns, ControlTypeOK, Calls
  <2> QED BY <1>4, <2>1, <2>2 DEF Wait
<1>5. CASE Start
  <2>1. CASE StartUpdate
    BY <1>0, <2>1 DEF StartUpdate, ControlTypeOK, Calls
  <2>2. CASE StartEnter \/ StartHold \/ StartGate \/ StartClear \/ BackoffOver
    BY <2>2 DEF StartEnter, StartHold, StartGate, StartClear, BackoffOver, Hold, Gate
  <2>3. CASE Starting \/ Spawn \/ PublishPid \/ Started \/ StartReturns \/ StartRaises
    BY <2>3 DEF Starting, Spawn, PublishPid, Started, StartReturns, StartRaises, Raise
  <2> QED BY <1>5, <2>1, <2>2, <2>3 DEF Start
<1>6. CASE Monitor
  BY <1>6 DEF Monitor, MonitorLoop, PollExited, PollAlive, Query, QueryNotDue
<1>7. CASE Stopping \/ Recovery
  BY <1>7 DEF Stopping, StopPublish, StopKills, StopFails, StopReleases, Recovery, Crashed,
              CrashDelayOver, Recover, RecoveryWoken, RecoveryAbandoned
<1>8. CASE Ending
  BY <1>8 DEF Ending, HoldCancelled, FatalError, RunEnds, Finally, Raise
<1>9. CASE WakeRequest \/ SleepRequest \/ Threads
  BY <1>9, RequestFrame DEF ctlRest
<1>10. CASE Environment
  BY <1>10 DEF Environment, SignalTerm, ctlRest, GameExits, HelperSteps, Boot
<1>11. CASE Exit \/ Kill
  BY <1>11 DEF Exit, Kill, Halt
<1>12. CASE UNCHANGED vars
  BY <1>12 DEF vars
<1> QED BY <1>1, <1>2, <1>3, <1>4, <1>5, <1>6, <1>7, <1>8, <1>9, <1>10, <1>11, <1>12
        DEF Next, Main

\* While it is not settled and no shutdown comes, no step of the main thread drops an
\* accepted sleep: it clears the event only where it acts on it.
SleepKept == Leaving \/ (~wake /\ (sleep \/ SleepTaken))

LEMMA SleepKeptByMain ==
  ASSUME IInv, WaitInv, AsleepInv, SleepKept, ~shutdown, Main,
         pc' # "exited", ~(waiting' /\ state' = "SLEEPING")
  PROVE  SleepKept'
<1> USE DEF SleepKept, Leaving, SleepTaken, WaitInv, AsleepInv, events, flags, rest, Goto, Jump,
            Publish, Stop, StopBody
<1>0. call \in Calls
  BY DEF IInv, TypeOK, ControlTypeOK
<1>1. CASE Run \/ Loop
  BY <1>1 DEF Run, Loop
<1>2. CASE Prepare
  <2>1. CASE PrepareBegin
    BY <2>1 DEF PrepareBegin
  <2>2. CASE PrepareLoop \/ PrepareHold \/ PrepareEnd \/ PrepareCancelled
    BY <2>2 DEF PrepareLoop, PrepareHold, Hold, PrepareEnd, PrepareCancelled, Raise
  <2>3. CASE PrepareFails \/ PrepareDelayOver \/ PrepareAbandoned
    BY <2>3 DEF PrepareFails, PrepareDelayOver, PrepareAbandoned, RetryLater, InPrepare,
                PrepBody, UpdateBody
  <2> QED BY <1>2, <2>1, <2>2, <2>3 DEF Prepare
<1>3. CASE Update
  <2>1. CASE UpdateBegin \/ SteamcmdInstalls \/ UpdateStamped \/ UpdateCancelled
    BY <2>1 DEF UpdateBegin, SteamcmdInstalls, UpdateStamped, UpdateCancelled, Raise
  <2>2. CASE UpdateSucceeds
    BY <2>2 DEF UpdateSucceeds, UpdateReturns
  <2>3. CASE UpdateFails
    BY <2>3 DEF UpdateFails, UpdateBody, UpdateReturns, UpdateRaises, RetryLater
  <2> QED BY <1>3, <2>1, <2>2, <2>3 DEF Update
<1>4. CASE Wait
  <2>1. CASE WaitEnter \/ ArmSleeps \/ ArmOver \/ ArmWoken \/ WaitCheck
    BY <2>1 DEF WaitEnter, ArmSleeps, ArmOver, ArmWoken, WaitCheck, WaitShutdown, ManualWake,
                Undisturbed, WaitReturns, WaitBody
  <2>2. CASE ListenerOpens \/ PeriodicUpdate \/ SleepLoop \/ Listen
    BY <2>2 DEF ListenerOpens, PeriodicUpdate, SleepLoop, Listen, WaitShutdown,
                ManualWake, Undisturbed, WaitReturns
  <2> QED BY <1>4, <2>1, <2>2 DEF Wait
<1>5. CASE Start
  <2>1. CASE StartEnter \/ StartHold \/ StartGate \/ StartClear \/ StartUpdate \/ BackoffOver
    BY <2>1 DEF StartEnter, StartHold, StartGate, StartClear, StartUpdate, BackoffOver, Hold, Gate
  <2>2. CASE Starting \/ Spawn \/ PublishPid \/ Started \/ StartReturns \/ StartRaises
    BY <2>2 DEF Starting, Spawn, PublishPid, Started, StartReturns, StartRaises, Raise
  <2> QED BY <1>5, <2>1, <2>2 DEF Start
<1>6. CASE Monitor
  <2>1. CASE MonitorLoop
    BY <1>0, <2>1 DEF MonitorLoop, Calls
  <2>2. CASE PollExited \/ PollAlive \/ Query \/ QueryNotDue
    BY <2>2 DEF PollExited, PollAlive, Query, QueryNotDue
  <2> QED BY <1>6, <2>1, <2>2 DEF Monitor
<1>7. CASE Stopping
  BY <1>0, <1>7 DEF Stopping, StopPublish, StopKills, StopFails, StopReleases
<1>8. CASE Recovery
  BY <1>8 DEF Recovery, Crashed, CrashDelayOver, Recover, RecoveryWoken, RecoveryAbandoned
<1>9. CASE Ending
  <2>1. CASE HoldCancelled \/ FatalError \/ RunEnds
    BY <2>1 DEF HoldCancelled, FatalError, RunEnds, Raise
  <2>2. CASE Finally
    BY <1>0, <2>2 DEF Finally, Calls
  <2> QED BY <1>9, <2>1, <2>2 DEF Ending
<1>10. CASE Exit
  BY <1>10 DEF Exit, Halt
<1> QED BY <1>1, <1>2, <1>3, <1>4, <1>5, <1>6, <1>7, <1>8, <1>9, <1>10 DEF Main

\* Only SIGTERM and SIGINT set the shutdown event, and only the end of the process undoes it.
LEMMA ShutdownStands == ASSUME Main, pc' # "exited" PROVE shutdown' = shutdown
<1> USE DEF events, rest, Jump, Publish, Goto
<1>1. CASE Run \/ Loop \/ Prepare \/ Update
  BY <1>1 DEF Run, Loop, Prepare, PrepareLoop, PrepareHold, Hold, PrepareBegin, PrepareEnd,
              PrepareCancelled, PrepareFails, RetryLater, PrepareDelayOver, PrepareAbandoned,
              Raise, Update, UpdateBegin, SteamcmdInstalls, UpdateStamped, UpdateSucceeds,
              UpdateReturns, UpdateFails, UpdateRaises, UpdateCancelled
<1>2. CASE Wait
  BY <1>2 DEF Wait, WaitEnter, ArmSleeps, ArmOver, ArmWoken, WaitShutdown, ManualWake,
              WaitReturns, WaitCheck, ListenerOpens, PeriodicUpdate, SleepLoop, Listen
<1>3. CASE Start
  BY <1>3 DEF Start, StartEnter, StartHold, Hold, StartGate, Gate, StartClear, StartUpdate,
              BackoffOver, Starting, Spawn, PublishPid, Started, StartReturns, StartRaises, Raise
<1>4. CASE Monitor \/ Stopping \/ Recovery \/ Ending \/ Exit
  BY <1>4 DEF Monitor, MonitorLoop, PollExited, PollAlive, Query, QueryNotDue, Stopping,
              StopPublish, StopKills, StopFails, StopReleases, Recovery, Crashed,
              CrashDelayOver, Recover, RecoveryWoken, RecoveryAbandoned, Ending, HoldCancelled,
              FatalError, RunEnds, Finally, Raise, Exit, Halt
<1> QED BY <1>1, <1>2, <1>3, <1>4 DEF Main

\* So does every other step: a later request takes its place, the rest leaves it alone.
LEMMA SleepStep ==
  ASSUME IInv, WaitInv, AsleepInv, SleepHeld, [RequestNext]_requestVars
  PROVE  SleepHeld'
<1> SUFFICES ASSUME pending' = "sleep", ~shutdown' PROVE SleepKept'
  BY DEF SleepHeld, SleepKept
<1>1. CASE Main /\ Settle
  <2>1. pc' # "exited" /\ ~(waiting' /\ state' = "SLEEPING") /\ pending = "sleep"
    BY <1>1 DEF Settle
  <2>2. ~shutdown
    BY <1>1, <2>1, ShutdownStands
  <2>3. SleepKept
    BY <2>1, <2>2 DEF SleepHeld, SleepKept
  <2> QED BY <1>1, <2>1, <2>2, <2>3, SleepKeptByMain
<1>2. CASE (Threads \/ GameExits \/ HelperSteps \/ Boot) /\ Settle
  <2>1. pending = "sleep"
    BY <1>2 DEF Settle
  <2>2. UNCHANGED <<call, state, wake, sleep, shutdown, startNow>>
    BY <1>2, RequestFrame DEF Threads, WakeSnapshot, WakeDecides, SleepSnapshot, SleepDecides,
             ctlRest, GameExits, HelperSteps, Boot, Jump, events, local, rest
  <2>3. pc' = pc \/ (pc = "exited" /\ pc' = "run")
    BY <1>2, RequestFrame DEF ctlRest, GameExits, HelperSteps, Boot, Jump, Goto
  <2> QED BY <2>1, <2>2, <2>3 DEF SleepHeld, SleepKept, Leaving, SleepTaken, StopBody
<1>3. CASE Kill /\ Settle
  BY <1>3 DEF Kill, Halt, Goto, Settle
<1>4. CASE SleepRequest /\ pending' = (IF wake \/ shutdown THEN "sleep after wake" ELSE "sleep")
  <2>1. ~wake
    BY <1>4
  <2>2. sleep' = TRUE /\ wake' = wake
    BY <1>4 DEF SleepRequest, SignalSleep, SleepSets
  <2> QED BY <2>1, <2>2 DEF SleepKept
<1>5. CASE UNCHANGED requestVars
  BY <1>5 DEF requestVars, vars, events, rest, local, SleepHeld, SleepKept, Leaving, SleepTaken
<1>6. CASE (WakeRequest /\ pending' = "wake") \/ (SignalTerm /\ pending' = "none")
  BY <1>6
<1> QED BY <1>1, <1>2, <1>3, <1>4, <1>5, <1>6 DEF RequestNext

\* _request_sleep: for every setting, fault and number of control threads, no accepted
\* sleep is lost: while no later request comes, it is set, taken up or left behind by
\* a supervisor that ends.
THEOREM SleepsHeld == RequestSafety => []SleepHeld
<1> DEFINE Inv == IInv /\ WaitInv /\ AsleepInv /\ SleepHeld
<1>1. RequestInit => Inv
  BY InvInit DEF RequestInit, Init, Volatile, WaitInv, AsleepInv, WaitBody, UpdateBody, SleepHeld
<1>2. Inv /\ [RequestNext]_requestVars => Inv'
  BY RequestStep, InvStep, WaitStep, SleepStep
<1>3. Inv => SleepHeld
  OBVIOUS
<1> QED BY <1>1, <1>2, <1>3, PTL DEF RequestSafety

\* Without failed updates and crashes a start is in progress exactly from its begin to
\* its return, and the ways that follow a failure are never taken.
StartInv == starting <=> InStart \/ pc = "start_lock"
UnfailingInv == /\ pc \notin {"backoff", "crashed", "crash_delay", "recover", "recovery"}
                /\ proc # "exited"
                /\ pc \in StopBody => call.stop # "crash"

\* No recovery without a crash, no back-off without a failed update.
LEMMA UnfailingStep ==
  ASSUME IInv, UnfailingInv, "update" \notin Faults, "crash" \notin Faults, [Next]_vars
  PROVE  UnfailingInv'
<1> USE DEF UnfailingInv, StopBody, game, rest, Goto, Jump, Publish, Stop
<1>0. call \in Calls
  BY DEF IInv, TypeOK, ControlTypeOK
<1>1. CASE Run \/ Loop
  BY <1>1 DEF Run, Loop
<1>2. CASE Prepare
  BY <1>2 DEF Prepare, PrepareLoop, PrepareHold, PrepareBegin, PrepareEnd, PrepareCancelled,
              PrepareFails, PrepareDelayOver, PrepareAbandoned, Hold, Raise, RetryLater
<1>3. CASE Update
  BY <1>3 DEF Update, UpdateBegin, SteamcmdInstalls, UpdateStamped, UpdateSucceeds,
              UpdateFails, UpdateCancelled, UpdateReturns, Raise
<1>4. CASE Wait
  BY <1>4 DEF Wait, WaitEnter, ArmSleeps, ArmOver, ArmWoken, WaitCheck, ListenerOpens,
              PeriodicUpdate, SleepLoop, Listen, WaitShutdown, ManualWake, Undisturbed,
              WaitReturns
<1>5. CASE Start
  <2>1. CASE StartEnter \/ StartHold \/ StartGate \/ StartClear \/ StartUpdate \/ BackoffOver
    BY <2>1 DEF StartEnter, StartHold, StartGate, StartClear, StartUpdate, BackoffOver, Hold, Gate
  <2>2. CASE Starting \/ Spawn \/ PublishPid \/ Started \/ StartReturns \/ StartRaises
    BY <1>0, <2>2 DEF Starting, Spawn, PublishPid, Started, StartReturns, StartRaises, Raise, Calls
  <2> QED BY <1>5, <2>1, <2>2 DEF Start
<1>6. CASE Monitor
  <2>1. CASE MonitorLoop
    BY <1>0, <2>1 DEF MonitorLoop, Calls
  <2>2. CASE PollExited \/ PollAlive \/ QueryNotDue
    BY <2>2 DEF PollExited, PollAlive, QueryNotDue
  <2>3. CASE Query
    BY <1>0, <2>3 DEF Query, Calls
  <2> QED BY <1>6, <2>1, <2>2, <2>3 DEF Monitor
<1>7. CASE Stopping \/ Recovery
  BY <1>7 DEF Stopping, StopPublish, StopKills, StopFails, StopReleases, Recovery, Crashed,
              CrashDelayOver, Recover, RecoveryWoken, RecoveryAbandoned
<1>8. CASE Ending
  BY <1>0, <1>8 DEF Ending, HoldCancelled, FatalError, RunEnds, Finally, Raise, Calls
<1>9. CASE WakeRequest \/ SleepRequest \/ Threads
  BY <1>9, RequestFrame DEF ctlRest
<1>10. CASE Environment
  BY <1>10 DEF Environment, SignalTerm, ctlRest, GameExits, HelperSteps, Boot
<1>11. CASE Exit \/ Kill
  BY <1>11 DEF Exit, Kill, Halt
<1>12. CASE UNCHANGED vars
  BY <1>12 DEF vars
<1> QED BY <1>1, <1>2, <1>3, <1>4, <1>5, <1>6, <1>7, <1>8, <1>9, <1>10, <1>11, <1>12
        DEF Next, Main

\* start_server sets the flag before its hold and drops it behind it, whatever it raises.
LEMMA StartStep ==
  ASSUME IInv, StartInv, UnfailingInv, "update" \notin Faults, [Next]_vars
  PROVE  StartInv'
<1> USE DEF StartInv, InStart, StartBody, PrepLabels, PrepBody, UpdateBody, StopBody, flags, rest,
            Goto, Jump, Publish, Stop
<1>0. call \in Calls
  BY DEF IInv, TypeOK, ControlTypeOK
<1>1. CASE Run \/ Loop
  BY <1>0, <1>1 DEF Run, Loop, Calls
<1>2. CASE Prepare
  <2>1. CASE PrepareBegin
    BY <1>0, <2>1 DEF PrepareBegin, Calls
  <2>2. CASE PrepareLoop \/ PrepareHold \/ PrepareEnd \/ PrepareCancelled
    BY <1>0, <2>2 DEF PrepareLoop, PrepareHold, Hold, PrepareEnd, PrepareCancelled, Raise, Calls
  <2>3. CASE PrepareFails \/ PrepareDelayOver \/ PrepareAbandoned
    BY <1>0, <2>3 DEF PrepareFails, PrepareDelayOver, PrepareAbandoned, RetryLater, InPrepare, Calls
  <2> QED BY <1>2, <2>1, <2>2, <2>3 DEF Prepare
<1>3. CASE Update
  BY <1>0, <1>3 DEF Update, UpdateBegin, SteamcmdInstalls, UpdateStamped, UpdateSucceeds,
              UpdateFails, UpdateCancelled, UpdateReturns, Raise, Calls
<1>4. CASE Wait
  <2>1. CASE WaitEnter \/ ArmSleeps \/ ArmOver \/ ArmWoken \/ WaitCheck
    BY <2>1 DEF WaitEnter, ArmSleeps, ArmOver, ArmWoken, WaitCheck, WaitShutdown, ManualWake,
                Undisturbed, WaitReturns
  <2>2. CASE ListenerOpens \/ SleepLoop \/ Listen
    BY <2>2 DEF ListenerOpens, SleepLoop, Listen, WaitShutdown, ManualWake, Undisturbed, WaitReturns
  <2>3. CASE PeriodicUpdate
    BY <1>0, <2>3 DEF PeriodicUpdate, Calls
  <2> QED BY <1>4, <2>1, <2>2, <2>3 DEF Wait
<1>5. CASE Start
  <2>1. CASE StartEnter \/ StartHold \/ StartGate \/ BackoffOver
    BY <2>1 DEF StartEnter, StartHold, StartGate, BackoffOver, Hold, Gate, UnfailingInv
  <2>2. CASE StartClear
    BY <1>0, <2>2 DEF StartClear, Calls
  <2>3. CASE StartUpdate
    BY <1>0, <2>3 DEF StartUpdate, Calls
  <2>4. CASE Spawn
    BY <1>0, <2>4 DEF Spawn, Calls
  <2>5. CASE PublishPid
    BY <1>0, <2>5 DEF PublishPid, Calls
  <2>6. CASE Starting \/ Started \/ StartReturns \/ StartRaises
    BY <2>6 DEF Starting, Started, StartReturns, StartRaises, Raise
  <2> QED BY <1>5, <2>1, <2>2, <2>3, <2>4, <2>5, <2>6 DEF Start
<1>6. CASE Monitor
  <2>1. CASE MonitorLoop
    BY <1>0, <2>1 DEF MonitorLoop, Calls
  <2>2. CASE PollExited
    BY <2>2 DEF PollExited, UnfailingInv
  <2>3. CASE PollAlive \/ QueryNotDue
    BY <2>3 DEF PollAlive, QueryNotDue
  <2>4. CASE Query
    BY <1>0, <2>4 DEF Query, Calls
  <2> QED BY <1>6, <2>1, <2>2, <2>3, <2>4 DEF Monitor
<1>7. CASE Stopping
  BY <1>7 DEF Stopping, StopPublish, StopKills, StopFails, StopReleases
<1>8. CASE Recovery
  BY <1>8 DEF Recovery, Crashed, CrashDelayOver, Recover, RecoveryWoken, RecoveryAbandoned,
              UnfailingInv
<1>9. CASE Ending
  <2>1. CASE HoldCancelled \/ FatalError \/ RunEnds
    BY <2>1 DEF HoldCancelled, FatalError, RunEnds, Raise
  <2>2. CASE Finally
    BY <1>0, <2>2 DEF Finally, Calls
  <2> QED BY <1>9, <2>1, <2>2 DEF Ending
<1>10. CASE WakeRequest \/ SleepRequest \/ Threads
  BY <1>10, RequestFrame DEF ctlRest
<1>11. CASE Environment
  BY <1>11 DEF Environment, SignalTerm, ctlRest, GameExits, HelperSteps, Boot
<1>12. CASE Exit \/ Kill
  BY <1>12 DEF Exit, Kill, Halt
<1>13. CASE UNCHANGED vars
  BY <1>13 DEF vars
<1> QED BY <1>1, <1>2, <1>3, <1>4, <1>5, <1>6, <1>7, <1>8, <1>9, <1>10, <1>11, <1>12, <1>13
        DEF Next, Main

\* Without control threads nobody sets the sleep event of a supervisor that waits.
QuietInv == waiting /\ ~shutdown => ~sleep

\* wait_for_wake clears the event when it says that it waits; handlers then leave it alone.
LEMMA QuietStep == ASSUME IInv, QuietInv, Clients = {}, [Next]_vars PROVE QuietInv'
<1> USE DEF QuietInv, events, flags, rest, Goto, Jump, Publish, Stop
<1>1. CASE Run \/ Loop
  BY <1>1 DEF Run, Loop
<1>2. CASE Prepare
  BY <1>2 DEF Prepare, PrepareLoop, PrepareHold, PrepareBegin, PrepareEnd, PrepareCancelled,
              PrepareFails, PrepareDelayOver, PrepareAbandoned, Hold, Raise, RetryLater
<1>3. CASE Update
  BY <1>3 DEF Update, UpdateBegin, SteamcmdInstalls, UpdateStamped, UpdateSucceeds,
              UpdateFails, UpdateCancelled, UpdateReturns, UpdateRaises, Raise, RetryLater
<1>4. CASE Wait
  BY <1>4 DEF Wait, WaitEnter, ArmSleeps, ArmOver, ArmWoken, WaitCheck, ListenerOpens,
              PeriodicUpdate, SleepLoop, Listen, WaitShutdown, ManualWake, Undisturbed,
              WaitReturns
<1>5. CASE Start
  <2>1. CASE StartEnter \/ StartHold \/ StartGate \/ StartClear \/ StartUpdate \/ BackoffOver
    BY <2>1 DEF StartEnter, StartHold, StartGate, StartClear, StartUpdate, BackoffOver, Hold, Gate
  <2>2. CASE Starting \/ Spawn \/ PublishPid \/ Started \/ StartReturns \/ StartRaises
    BY <2>2 DEF Starting, Spawn, PublishPid, Started, StartReturns, StartRaises, Raise
  <2> QED BY <1>5, <2>1, <2>2 DEF Start
<1>6. CASE Monitor
  BY <1>6 DEF Monitor, MonitorLoop, PollExited, PollAlive, Query, QueryNotDue
<1>7. CASE Stopping \/ Recovery
  BY <1>7 DEF Stopping, StopPublish, StopKills, StopFails, StopReleases, Recovery, Crashed,
              CrashDelayOver, Recover, RecoveryWoken, RecoveryAbandoned
<1>8. CASE Ending
  BY <1>8 DEF Ending, HoldCancelled, FatalError, RunEnds, Finally, Raise
<1>9. CASE WakeRequest \/ SleepRequest \/ Threads
  <2>1. SignalWake \/ SignalSleep
    BY <1>9 DEF WakeRequest, SleepRequest, Threads
  <2> QED BY <2>1 DEF SignalWake, SignalSleep, ctlRest
<1>10. CASE Environment
  BY <1>10 DEF Environment, SignalTerm, ctlRest, GameExits, HelperSteps, Boot
<1>11. CASE Exit \/ Kill
  BY <1>11 DEF Exit, Kill, Halt
<1>12. CASE UNCHANGED vars
  BY <1>12 DEF vars
<1> QED BY <1>1, <1>2, <1>3, <1>4, <1>5, <1>6, <1>7, <1>8, <1>9, <1>10, <1>11, <1>12
        DEF Next, Main

\* An accepted wake that nothing supersedes, on its way: the gate before wake_event is
\* cleared has seen no sleep, and past the publication of STARTING it is served.
WakeKept == /\ Leaving \/ wake \/ WakeTaken
            /\ pc = "start_clear" => ~sleep
            /\ pc \notin {"spawn", "publish_pid", "started"}
WakeInv == pending = "wake" /\ ~shutdown => WakeKept

LEMMA WakeKeptByMain ==
  ASSUME IInv, WaitInv, StartInv, UnfailingInv, QuietInv, WakeKept, ~shutdown, Main,
         "update" \notin Faults, pc' # "exited", state' \notin Active
  PROVE  WakeKept'
<1> USE DEF WakeKept, Leaving, WakeTaken, StopBody, events, flags, rest, Goto, Jump, Publish, Stop
<1>0. call \in Calls
  BY DEF IInv, TypeOK, ControlTypeOK
<1>1. CASE Run \/ Loop
  BY <1>1 DEF Run, Loop
<1>2. CASE Prepare
  <2>1. CASE PrepareBegin
    BY <2>1 DEF PrepareBegin
  <2>2. CASE PrepareLoop \/ PrepareHold \/ PrepareEnd \/ PrepareCancelled
    BY <2>2 DEF PrepareLoop, PrepareHold, Hold, PrepareEnd, PrepareCancelled, Raise
  <2>3. CASE PrepareFails \/ PrepareDelayOver \/ PrepareAbandoned
    BY <2>3 DEF PrepareFails, PrepareDelayOver, PrepareAbandoned, RetryLater, InPrepare,
                PrepBody, UpdateBody
  <2> QED BY <1>2, <2>1, <2>2, <2>3 DEF Prepare
<1>3. CASE Update
  BY <1>3 DEF Update, UpdateBegin, SteamcmdInstalls, UpdateStamped, UpdateCancelled, Raise,
              UpdateSucceeds, UpdateReturns, UpdateFails
<1>4. CASE Wait
  <2>1. pc \in WaitBody \cup {"wait"} => ~starting
    BY DEF StartInv, InStart, StartBody, PrepLabels, PrepBody, UpdateBody, WaitBody
  <2>2. CASE WaitEnter \/ ArmSleeps \/ ArmOver \/ ArmWoken \/ WaitCheck
    BY <2>1, <2>2 DEF WaitEnter, ArmSleeps, ArmOver, ArmWoken, WaitCheck, WaitShutdown, ManualWake,
                Undisturbed, WaitReturns, WaitBody, QuietInv, WaitInv
  <2>3. CASE ListenerOpens \/ PeriodicUpdate \/ SleepLoop \/ Listen
    BY <2>1, <2>3 DEF ListenerOpens, PeriodicUpdate, SleepLoop, Listen, WaitShutdown,
                ManualWake, Undisturbed, WaitReturns, WaitBody, QuietInv, WaitInv
  <2> QED BY <1>4, <2>2, <2>3 DEF Wait
<1>5. CASE Start
  <2>1. CASE StartEnter \/ StartHold
    BY <2>1 DEF StartEnter, StartHold, Hold
  <2>2. CASE StartGate
    BY <2>2 DEF StartGate, Gate
  <2>3. CASE StartClear
    <3>1. starting
      BY <2>3 DEF StartClear, StartInv, InStart, StartBody
    <3> QED BY <2>3, <3>1 DEF StartClear
  <2>4. CASE StartUpdate \/ BackoffOver
    BY <2>4 DEF StartUpdate, BackoffOver, UnfailingInv
  <2>5. CASE Starting
    BY <2>5 DEF Starting, Active
  <2>6. CASE Spawn \/ PublishPid \/ Started
    BY <2>6 DEF Spawn, PublishPid, Started
  <2>7. CASE StartReturns \/ StartRaises
    BY <2>7 DEF StartReturns, StartRaises, Raise
  <2> QED BY <1>5, <2>1, <2>2, <2>3, <2>4, <2>5, <2>6, <2>7 DEF Start
<1>6. CASE Monitor
  <2>1. pc \in MonitorBody => ~starting
    BY DEF StartInv, InStart, StartBody, PrepLabels, PrepBody, UpdateBody, MonitorBody
  <2>2. CASE MonitorLoop
    BY <2>1, <2>2 DEF MonitorLoop, MonitorBody
  <2>3. CASE PollExited \/ PollAlive \/ Query \/ QueryNotDue
    BY <2>1, <2>3 DEF PollExited, PollAlive, Query, QueryNotDue, MonitorBody
  <2> QED BY <1>6, <2>2, <2>3 DEF Monitor
<1>7. CASE Stopping
  <2>1. CASE StopPublish \/ StopKills
    BY <2>1 DEF StopPublish, StopKills
  <2>2. CASE StopFails
    BY <2>2 DEF StopFails
  <2>3. CASE StopReleases
    BY <2>3 DEF StopReleases
  <2> QED BY <1>7, <2>1, <2>2, <2>3 DEF Stopping
<1>8. CASE Recovery
  BY <1>8 DEF Recovery, Crashed, CrashDelayOver, Recover, RecoveryWoken, RecoveryAbandoned,
              UnfailingInv
<1>9. CASE Ending
  <2>1. CASE HoldCancelled \/ FatalError \/ RunEnds
    BY <2>1 DEF HoldCancelled, FatalError, RunEnds, Raise
  <2>2. CASE Finally
    BY <1>0, <2>2 DEF Finally, Calls
  <2> QED BY <1>9, <2>1, <2>2 DEF Ending
<1>10. CASE Exit
  BY <1>10 DEF Exit, Halt
<1> QED BY <1>1, <1>2, <1>3, <1>4, <1>5, <1>6, <1>7, <1>8, <1>9, <1>10 DEF Main

\* A handler sets the event only while no start is in progress, so the gates come after it.
LEMMA WakeStep ==
  ASSUME IInv, WaitInv, StartInv, UnfailingInv, QuietInv, WakeInv,
         Clients = {}, "update" \notin Faults, "crash" \notin Faults, [RequestNext]_requestVars
  PROVE  WakeInv'
<1> SUFFICES ASSUME pending' = "wake", ~shutdown' PROVE WakeKept'
  BY DEF WakeInv
<1>1. CASE Main /\ Settle
  <2>1. pc' # "exited" /\ state' \notin Active /\ pending = "wake"
    BY <1>1 DEF Settle
  <2>2. ~shutdown
    BY <1>1, <2>1, ShutdownStands
  <2>3. WakeKept
    BY <2>1, <2>2 DEF WakeInv
  <2> QED BY <1>1, <2>1, <2>2, <2>3, WakeKeptByMain
<1>2. CASE (Threads \/ GameExits \/ HelperSteps \/ Boot) /\ Settle
  <2>1. pending = "wake"
    BY <1>2 DEF Settle
  <2>2. UNCHANGED <<call, wake, sleep, shutdown, starting>>
    BY <1>2 DEF Threads, GameExits, HelperSteps, Boot, Jump, events, flags, rest
  <2>3. pc' = pc \/ (pc = "exited" /\ pc' = "run")
    BY <1>2 DEF Threads, GameExits, HelperSteps, Boot, Jump, Goto
  <2> QED BY <2>1, <2>2, <2>3 DEF WakeInv, WakeKept, Leaving, WakeTaken, StopBody
<1>3. CASE Kill /\ Settle
  BY <1>3 DEF Kill, Halt, Goto, Settle
<1>4. CASE WakeRequest /\ pending' = "wake"
  <2>1. SignalWake
    BY <1>4 DEF WakeRequest
  <2>2. wake' = TRUE /\ pc' = pc /\ ~starting
    BY <2>1 DEF SignalWake, ctlRest
  <2>3. pc \notin {"start_clear", "spawn", "publish_pid", "started"}
    BY <2>2 DEF StartInv, InStart, StartBody
  <2> QED BY <2>2, <2>3 DEF WakeKept
<1>5. CASE UNCHANGED requestVars
  BY <1>5 DEF requestVars, vars, events, flags, rest, WakeInv, WakeKept, Leaving, WakeTaken, StopBody
<1>6. CASE \/ SleepRequest /\ pending' = IF wake \/ shutdown THEN "sleep after wake" ELSE "sleep"
           \/ SignalTerm /\ pending' = "none"
  BY <1>6
<1> QED BY <1>1, <1>2, <1>3, <1>4, <1>5, <1>6 DEF RequestNext

\* As long as no update fails and no game exits by itself, an accepted wake of a signal
\* handler is not lost either.  Each hypothesis is needed: a thread's wake may meet a
\* sleep that was set after the start had looked for one, a failed update gives up the
\* start, and the recovery clears the event before it waits for it.
THEOREM RequestsAreHeld ==
  ASSUME Clients = {}, "update" \notin Faults, "crash" \notin Faults
  PROVE  RequestSafety => []RequestsHeld
<1> DEFINE Inv == IInv /\ WaitInv /\ AsleepInv /\ StartInv /\ UnfailingInv /\ QuietInv /\ WakeInv
<1>1. RequestInit => Inv
  <2> SUFFICES ASSUME RequestInit PROVE Inv
    OBVIOUS
  <2>1. IInv
    BY InvInit DEF RequestInit
  <2>2. WaitInv /\ AsleepInv /\ QuietInv /\ WakeInv
    BY DEF RequestInit, Init, Volatile, WaitInv, AsleepInv, WaitBody, UpdateBody, QuietInv, WakeInv
  <2>3. StartInv /\ UnfailingInv
    BY DEF RequestInit, Init, Volatile, StartInv, UnfailingInv, InStart, StartBody, PrepLabels,
           PrepBody, UpdateBody, StopBody
  <2> QED BY <2>1, <2>2, <2>3
<1>2. Inv /\ [RequestNext]_requestVars => Inv'
  BY RequestStep, InvStep, WaitStep, StartStep, UnfailingStep, QuietStep, WakeStep
<1>3. Inv => WakeHeld
  BY DEF WakeInv, WakeKept, WakeHeld
<1>4. SleepHeld /\ WakeHeld => RequestsHeld
  BY DEF RequestsHeld
<1> QED BY <1>1, <1>2, <1>3, <1>4, SleepsHeld, PTL DEF RequestSafety
==============================================================================
