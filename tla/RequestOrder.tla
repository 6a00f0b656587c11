---------------------------- MODULE RequestOrder ----------------------------
(***************************************************************************)
(* What becomes of an accepted wake or sleep request.  `pending' is a      *)
(* history variable over Supervisor: the request answered "wake requested" *)
(* or "sleep requested" last and not yet served.  "sleep after wake" is a  *)
(* sleep accepted while an earlier wake was still queued.                  *)
(***************************************************************************)
EXTENDS Supervisor

VARIABLE pending

Requests == {"none", "wake", "sleep", "sleep after wake"}
requestVars == <<vars, pending>>

\* A wake is served by an active server, a sleep by a supervisor that waits.
Settle ==
  pending' = IF \/ pc' = "exited"
                \/ pending = "wake" /\ state' \in Active
                \/ pending \in {"sleep", "sleep after wake"} /\ waiting' /\ state' = "SLEEPING"
             THEN "none" ELSE pending

RequestInit == Init /\ pending = "none"

RequestNext ==
  \/ WakeRequest  /\ pending' = "wake"
  \/ SleepRequest /\ pending' = IF wake \/ shutdown THEN "sleep after wake" ELSE "sleep"
  \/ SignalTerm   /\ pending' = "none"
  \/ (Main \/ Threads \/ GameExits \/ HelperSteps \/ Kill \/ Boot) /\ Settle

RequestSafety == RequestInit /\ [][RequestNext]_requestVars

\* The main thread runs and a helper's archive comes to an end.  DataLock.hold
\* polls four times a second for a lock that helpers, each started by an
\* operator, cannot always hold at that moment: strong fairness.
RequestSpec ==
  /\ RequestSafety
  /\ WF_requestVars(Progress /\ Settle)
  /\ SF_requestVars((PrepareHold \/ StartHold) /\ Settle)
  /\ \A h \in Helpers : WF_requestVars(HelperLeaves(h) /\ HelperSteps /\ Settle)

-----------------------------------------------------------------------------
(* Safety *)

\* run() is on its way out, by a shutdown or by a failure that ends it.
Leaving == \/ pc \in {"exit_loop", "cancelled", "failing", "finally", "finished"}
           \/ pc \in StopBody /\ call.stop = "exit"

\* The sleep request has been consumed, by a stop, by a gate of the start or by the
\* wait, and only the publication of SLEEPING is still to come.
SleepTaken == \/ pc \in StopBody /\ call.stop = "sleep"
              \/ pc = "loop" /\ ~startNow
              \/ pc \in {"start_return", "wait"}
              \/ pc \in {"arm", "wait_check"} /\ state # "SLEEPING"

SleepHeld ==
  pending = "sleep" /\ ~shutdown => Leaving \/ (~wake /\ (sleep \/ SleepTaken))

\* The wake request has been consumed by the wait or by the start, and no sleep is
\* set that could cancel the start.
WakeTaken == ~sleep /\ (pc = "start" \/ (starting /\ pc # "start_return"))

WakeHeld == pending = "wake" /\ ~shutdown => Leaving \/ wake \/ WakeTaken

\* _request_sleep and _request_wake: the places that clear the two events (the wait,
\* _start_server twice, the gates of a start, the monitor) never drop a request that
\* was answered "requested" while no later one supersedes it: it is still set, has
\* been taken up for good, or the supervisor is leaving.
RequestsHeld == SleepHeld /\ WakeHeld

-----------------------------------------------------------------------------
(* Liveness *)

\* _request_wake: a wake answered "wake requested" leads to an active server
\* unless a sleep or a shutdown is asked for afterwards.
WakeServed == pending = "wake" ~> (pending # "wake" \/ shutdown)

\* _request_sleep: a sleep answered "sleep requested" while no wake is queued
\* leads to a sleeping supervisor, unless a wake or a shutdown comes after it.
SleepServed == pending = "sleep" ~> (pending # "sleep" \/ shutdown)

\* WAKE-AND-SLEEP.md: "`nosctl sleep` is an administrative forced sleep request",
\* so it is served just as well when a wake was queued before it.
SleepOverridesWake == pending = "sleep after wake" ~> (pending # "sleep after wake" \/ shutdown)

\* WAKE-AND-SLEEP.md: in ERROR after the last crash restart, "`nosctl wake` or
\* `SIGUSR1` explicitly retries": the wake leads to a start unless a sleep or a
\* shutdown is asked for after it.
ExplicitRetry ==
  (pc = "recovery" /\ pending = "wake") ~> (proc = "running" \/ pending # "wake" \/ shutdown)
=============================================================================
