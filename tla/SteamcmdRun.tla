------------------------------ MODULE SteamcmdRun ------------------------------
(***************************************************************************)
(* update_server (steamcmd.py) with the processes it starts: one run of    *)
(* SteamCMD, a second one after a delay if Steam had no configuration yet, *)
(* each with an output reader, a timeout, a heartbeat that may raise and a *)
(* cancellation, and the end of its whole process group in these cases.    *)
(*                                                                         *)
(* The leader (steamcmd.sh) outlives its children unless it is signalled.  *)
(* SIGKILL always works.  A kill of the supervisor between two steps is    *)
(* the subject of Supervisor, the stamps are those of UpdateSchedule.      *)
(***************************************************************************)
EXTENDS Naturals

CONSTANTS
  MaxCalls,     \* bound: calls of update_server
  MaxErrors     \* bound: operations that raise

VARIABLES
  pc, run,            \* where the call is; which of the two runs
  leader, child,      \* "none", "running", "zombie", "reaped"; others of its group are alive
  status,             \* what the last run exited with, 0 or 1
  reader,             \* the output reader's thread: "none", "unstarted", "running", "ended"
  said, seen,         \* the missing configuration was printed; the reader has seen that
  missing,            \* missing_configuration as _run_steamcmd returned it
  executable, marker, \* WRSHServer.exe; update-incomplete
  cancel,             \* the shutdown event
  raised,             \* what is on its way out: "no", "cancelled", "failed"
  calls, errors

group == <<leader, child, status>>
told  == <<reader, said, seen>>
disk  == <<executable, marker>>
vars  == <<pc, run, group, told, missing, disk, cancel, raised, calls, errors>>

Outcomes == {"ok", "failed", "cancelled"}

TypeOK ==
  /\ pc \in {"none", "check", "mark", "start", "thread", "wait", "term", "reap", "kill", "last", "join",
             "link", "judge", "delay", "stamp", "unmark"} \cup Outcomes
  /\ run \in 1 .. 2 /\ leader \in {"none", "running", "zombie", "reaped"} /\ child \in BOOLEAN
  /\ status \in 0 .. 1 /\ reader \in {"none", "unstarted", "running", "ended"}
  /\ said \in BOOLEAN /\ seen \in BOOLEAN /\ missing \in BOOLEAN /\ (seen => said)
  /\ executable \in BOOLEAN /\ marker \in BOOLEAN /\ cancel \in BOOLEAN
  /\ raised \in {"no", "cancelled", "failed"}
  /\ calls \in 0 .. MaxCalls /\ errors \in 0 .. MaxErrors

Init ==
  /\ pc = "none" /\ run = 1 /\ leader = "none" /\ child = FALSE /\ status = 1
  /\ reader = "none" /\ said = FALSE /\ seen = FALSE /\ missing = FALSE
  /\ executable \in BOOLEAN /\ marker \in BOOLEAN /\ cancel = FALSE /\ raised = "no"
  /\ calls = 0 /\ errors = 0

-----------------------------------------------------------------------------
(* SteamCMD, its output, and the shutdown *)

Installs ==
  /\ child /\ executable' = TRUE
  /\ UNCHANGED <<pc, run, group, told, missing, marker, cancel, raised, calls, errors>>

Says ==
  /\ child /\ said' = TRUE
  /\ UNCHANGED <<pc, run, group, reader, seen, missing, disk, cancel, raised, calls, errors>>

ChildExits ==
  /\ child /\ child' = FALSE
  /\ UNCHANGED <<pc, run, leader, status, told, missing, disk, cancel, raised, calls, errors>>

\* By itself, after its children; or on SIGTERM, before them.
LeaderExits ==
  /\ leader = "running" /\ leader' = "zombie"
  /\ \/ ~child /\ status' \in 0 .. 1
     \/ pc = "reap" /\ UNCHANGED status
  /\ UNCHANGED <<pc, run, child, told, missing, disk, cancel, raised, calls, errors>>

ReaderReads ==
  /\ reader = "running" /\ said /\ ~seen /\ seen' = TRUE
  /\ UNCHANGED <<pc, run, group, reader, said, missing, disk, cancel, raised, calls, errors>>

\* The output ends with the last process that has it.
ReaderEnds ==
  /\ reader = "running" /\ leader # "running" /\ ~child /\ said = seen
  /\ reader' = "ended"
  /\ UNCHANGED <<pc, run, group, said, seen, missing, disk, cancel, raised, calls, errors>>

Shutdown ==
  /\ ~cancel /\ cancel' = TRUE
  /\ UNCHANGED <<pc, run, group, told, missing, disk, raised, calls, errors>>

-----------------------------------------------------------------------------
(* _update_server *)

Step(from, to) == pc = from /\ pc' = to /\ UNCHANGED calls
Fault == errors < MaxErrors /\ errors' = errors + 1

Begin ==
  /\ pc \in Outcomes \cup {"none"} /\ calls < MaxCalls /\ calls' = calls + 1
  /\ pc' = "check" /\ run' = 1 /\ raised' = "no"
  /\ UNCHANGED <<group, told, missing, disk, cancel, errors>>

Check ==
  /\ ~cancel /\ Step("check", "mark")
  /\ UNCHANGED <<run, group, told, missing, disk, cancel, raised, errors>>

Mark ==
  /\ Step("mark", "start") /\ marker' = TRUE
  /\ UNCHANGED <<run, group, told, missing, executable, cancel, raised, errors>>

\* SteamCMD is not there, an OSError of a file operation or of Popen, or a migration that fails.
Fails(at) ==
  /\ Fault /\ at \in {"check", "mark", "start", "link", "stamp", "unmark"} /\ Step(at, "failed")
  /\ UNCHANGED <<run, group, told, missing, disk, cancel, raised>>

Cancelled(at) ==
  /\ cancel /\ at \in {"check", "start", "delay"} /\ Step(at, "cancelled")
  /\ UNCHANGED <<run, group, told, missing, disk, cancel, raised, errors>>

Linked ==
  /\ Step("link", "judge")
  /\ UNCHANGED <<run, group, told, missing, disk, cancel, raised, errors>>

\* A second run only for a missing configuration, and only if nothing is there.
Again == run = 1 /\ missing /\ ~executable

\* Mutant of Installed: an executable is enough.
InstalledAnyhow == executable

Installed == status = 0 /\ executable

Judge ==
  /\ Step("judge", IF Again THEN "delay" ELSE IF Installed THEN "stamp" ELSE "failed")
  /\ UNCHANGED <<run, group, told, missing, disk, cancel, raised, errors>>

Delayed ==
  /\ ~cancel /\ Step("delay", "start") /\ run' = 2
  /\ UNCHANGED <<group, told, missing, disk, cancel, raised, errors>>

Stamp ==
  /\ Step("stamp", "unmark")
  /\ UNCHANGED <<run, group, told, missing, disk, cancel, raised, errors>>

Unmark ==
  /\ Step("unmark", "ok") /\ marker' = FALSE
  /\ UNCHANGED <<run, group, told, missing, executable, cancel, raised, errors>>

-----------------------------------------------------------------------------
(* _run_steamcmd, wait_process, _terminate_process_group *)

Spawn ==
  /\ ~cancel /\ Step("start", "thread")
  /\ leader' = "running" /\ child' = TRUE /\ status' = 1
  /\ reader' = "unstarted" /\ said' = FALSE /\ seen' = FALSE
  /\ UNCHANGED <<run, missing, disk, cancel, raised, errors>>

ReaderStarts ==
  /\ Step("thread", "wait") /\ reader' = "running"
  /\ UNCHANGED <<run, group, said, seen, missing, disk, cancel, raised, errors>>

\* The thread does not start, a heartbeat raises, or the time is up.
Interrupted ==
  /\ pc \in {"thread", "wait"} /\ Step(pc, "term") /\ raised' = "failed"
  /\ UNCHANGED <<run, group, told, missing, disk, cancel, errors>>

WaitCancelled ==
  /\ cancel /\ Step("wait", "term") /\ raised' = "cancelled"
  /\ UNCHANGED <<run, group, told, missing, disk, cancel, errors>>

WaitReturns ==
  /\ leader = "zombie" /\ leader' = "reaped" /\ Step("wait", "join")
  /\ UNCHANGED <<run, child, status, told, missing, disk, cancel, raised, errors>>

\* SIGTERM: the exits above are the reactions.
Terminate ==
  /\ Step("term", "reap")
  /\ UNCHANGED <<run, group, told, missing, disk, cancel, raised, errors>>

\* Mutant of Reap: with the leader the group is taken to be gone.
ReapLeader ==
  /\ \/ leader = "zombie" /\ leader' = "reaped" /\ Step("reap", "join")
     \/ leader = "running" /\ UNCHANGED leader /\ Step("reap", "kill")
  /\ UNCHANGED <<run, child, status, told, missing, disk, cancel, raised, errors>>

\* The leader has exited, or has not in ten seconds.
Reap ==
  /\ Step("reap", "kill")
  /\ leader' = IF leader = "zombie" THEN "reaped" ELSE leader
  /\ UNCHANGED <<run, child, status, told, missing, disk, cancel, raised, errors>>

Kill ==
  /\ Step("kill", "last") /\ child' = FALSE
  /\ leader' = IF leader = "running" THEN "zombie" ELSE leader
  /\ UNCHANGED <<run, status, told, missing, disk, cancel, raised, errors>>

ReapAtLast ==
  /\ Step("last", "join") /\ leader' = "reaped"
  /\ UNCHANGED <<run, child, status, told, missing, disk, cancel, raised, errors>>

\* The join of the reader ends with it or after five seconds; what it has seen
\* by then is what the run reports.
Join ==
  /\ Step("join", IF raised = "no" THEN "link" ELSE raised)
  /\ missing' = IF raised = "no" /\ run = 1 THEN seen ELSE missing
  /\ UNCHANGED <<run, group, told, disk, cancel, raised, errors>>

-----------------------------------------------------------------------------
Code ==
  \/ Check \/ Mark \/ Linked \/ Judge \/ Delayed \/ Stamp \/ Unmark
  \/ Spawn \/ ReaderStarts \/ Interrupted \/ WaitCancelled \/ WaitReturns
  \/ Terminate \/ Reap \/ Kill \/ ReapAtLast \/ Join
  \/ \E at \in {"check", "start", "delay"} : Cancelled(at)

Next ==
  \/ Begin \/ Code \/ \E at \in {"check", "mark", "start", "link", "stamp", "unmark"} : Fails(at)
  \/ Installs \/ Says \/ ChildExits \/ LeaderExits \/ ReaderReads \/ ReaderEnds \/ Shutdown

\* Every wait of the call has a timeout.
Spec == Init /\ [][Next]_vars /\ WF_vars(Code)

-----------------------------------------------------------------------------
(* Properties *)

\* update_server implements the contract: it ends, nothing of SteamCMD is alive
\* when it has, however it was interrupted and whoever of the process group
\* outlived the shell, and only a good run clears the marker (steamcmd.py:91-233).
Update == INSTANCE UpdateContract WITH
  call <- CASE pc = "none" -> "none" [] pc \in Outcomes -> pc [] OTHER -> "running",
  writing <- leader = "running" \/ child,
  good <- status = 0
ImplementsUpdate == Update!Spec
=============================================================================
