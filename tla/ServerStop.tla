------------------------------ MODULE ServerStop ------------------------------
(***************************************************************************)
(* ServerProcess.stop (server_process.py): the escalation from SIGINT to   *)
(* SIGKILL against the process group of the game, the two rounds with      *)
(* wineserver, and close(), which both parts run on their way out.         *)
(*                                                                         *)
(* The leader (Wine, or xvfb-run) is this process's child.  Wine clients   *)
(* may outlive it, inside its process group and outside; the wineserver    *)
(* lives as long as any client does.                                       *)
(***************************************************************************)
EXTENDS Naturals

CONSTANTS
  Faults,       \* "unkillable": SIGKILL does not end the leader in time;
                \* "wine": a wineserver command fails; "reader": the output
                \* reader's thread was never started, or outlasts its join
  MaxCalls      \* bound: calls of stop

VARIABLES
  leader,       \* "running", "zombie" until wait or poll reaps it, "reaped"
  group,        \* Wine clients in the leader's process group are alive
  wine,         \* the wineserver is alive
  pc, failed,   \* where stop is; an exception is on its way out
  checked,      \* history: this call has run wineserver -w
  reader, open, \* the reader's thread; stdout is open
  calls

processes == <<leader, group, wine>>
output    == <<reader, open>>
vars      == <<processes, pc, failed, checked, output, calls>>

Ended   == {"returned", "raised"}
Process == {"poll", "sigint", "wait_int", "sigterm", "wait_term", "wine_k", "sigkill", "wait_kill"}
Wine    == {"wine_w", "wine_k2", "wine_w2"}

TypeOK ==
  /\ leader \in {"running", "zombie", "reaped"} /\ group \in BOOLEAN /\ wine \in BOOLEAN
  /\ pc \in {"none", "close1", "close2"} \cup Process \cup Wine \cup Ended
  /\ failed \in BOOLEAN /\ checked \in BOOLEAN
  /\ reader \in {"unstarted", "running", "ended"} /\ open \in BOOLEAN
  /\ calls \in 0 .. MaxCalls
  /\ group => wine
  /\ failed => pc \in {"close1", "close2", "raised"}

Init ==
  /\ leader = "running" /\ group \in BOOLEAN /\ wine \in {w \in BOOLEAN : group => w}
  /\ pc = "none" /\ failed = FALSE /\ checked = FALSE
  /\ reader \in (IF "reader" \in Faults THEN {"unstarted", "running"} ELSE {"running"})
  /\ open = TRUE /\ calls = 0

-----------------------------------------------------------------------------
(* What processes do on their own, on a signal, or because a parent is gone *)

LeaderExits ==
  /\ leader = "running" /\ leader' = "zombie"
  /\ UNCHANGED <<group, wine, pc, failed, checked, output, calls>>

GroupExits ==
  /\ group /\ group' = FALSE
  /\ UNCHANGED <<leader, wine, pc, failed, checked, output, calls>>

\* Without clients the wineserver goes too, in its own time.
WineExits ==
  /\ wine /\ ~group /\ leader # "running"
  /\ wine' = FALSE
  /\ UNCHANGED <<leader, group, pc, failed, checked, output, calls>>

\* The reader sees the end of the output, or the request to stop.
ReaderEnds ==
  /\ reader = "running" /\ reader' = "ended"
  /\ UNCHANGED <<processes, pc, failed, checked, open, calls>>

-----------------------------------------------------------------------------
(* _stop_process *)

Step(from, to) == pc = from /\ pc' = to /\ UNCHANGED <<output, calls>>

Stop ==
  /\ pc \in {"none", "raised"} /\ calls < MaxCalls
  /\ pc' = "poll" /\ calls' = calls + 1 /\ failed' = FALSE /\ checked' = FALSE
  /\ UNCHANGED <<processes, output>>

\* Mutant of Gone: what is left of the group is signalled once more.
GoneOn(from) ==
  /\ leader # "running" /\ leader' = "reaped"
  /\ Step(from, IF from = "poll" THEN "sigint" ELSE "close1") /\ UNCHANGED <<group, wine, failed, checked>>

\* poll and wait reap the leader as soon as it has exited.
Gone(from) ==
  /\ leader # "running" /\ leader' = "reaped"
  /\ Step(from, "close1") /\ UNCHANGED <<group, wine, failed, checked>>

Poll == \/ Gone("poll")
        \/ leader = "running" /\ Step("poll", "sigint") /\ UNCHANGED <<processes, failed, checked>>

\* killpg: whoever is left in the group may react; if nobody is, the
\* ProcessLookupError is passed over.  The reactions are the exits above.
Signal(from, to) == Step(from, to) /\ UNCHANGED <<processes, failed, checked>>

WaitTimesOut(from, to) ==
  /\ leader = "running"
  /\ Step(from, to) /\ UNCHANGED <<processes, failed, checked>>

\* wineserver -k ends all clients, or fails, which is not looked at here.
WineKilled == group' = FALSE /\ wine' = FALSE /\ UNCHANGED leader

KillWine ==
  /\ \/ WineKilled
     \/ "wine" \in Faults /\ UNCHANGED processes
  /\ Step("wine_k", "sigkill") /\ UNCHANGED <<failed, checked>>

Kill ==
  /\ \/ group' = FALSE /\ leader' = (IF leader = "running" THEN "zombie" ELSE leader)
     \/ "unkillable" \in Faults /\ UNCHANGED <<leader, group>>
  /\ Step("sigkill", "wait_kill") /\ UNCHANGED <<wine, failed, checked>>

\* RuntimeError: the process part fails and the Wine part is skipped.
KillTimesOut ==
  /\ leader = "running" /\ failed' = TRUE
  /\ Step("wait_kill", "close1") /\ UNCHANGED <<processes, checked>>

-----------------------------------------------------------------------------
(* _wait_for_wine_exit and close *)

\* Mutant of WineWait: when the wait times out the wineserver is left alone.
WineWaitOnce(from, late) ==
  /\ checked' = TRUE
  /\ Step(from, "close2") /\ UNCHANGED <<processes, failed>>

\* wineserver -w: it is gone, or it is not yet when the time is up.
WineWait(from, late) ==
  /\ checked' = TRUE
  /\ \/ ~wine /\ Step(from, "close2") /\ UNCHANGED failed
     \/ wine /\ Step(from, late) /\ failed' = (late = "close2")
  /\ UNCHANGED processes

\* check=True: a command that cannot run, or says so, raises.
WineFails(at) ==
  /\ "wine" \in Faults /\ at \in Wine
  /\ failed' = TRUE /\ checked' = (checked \/ at # "wine_k2")
  /\ Step(at, "close2") /\ UNCHANGED processes

WineKillAgain ==
  WineKilled /\ Step("wine_k2", "wine_w2") /\ UNCHANGED <<failed, checked>>

\* Mutant of Close: a thread that was never started is joined.
CloseJoining(from, to) ==
  /\ pc = from
  /\ IF reader = "unstarted"
       THEN pc' = "raised" /\ failed' = TRUE /\ UNCHANGED open
       ELSE pc' = to /\ open' = (open /\ reader = "running") /\ UNCHANGED failed
  /\ UNCHANGED <<processes, checked, reader, calls>>

\* close: the join ends with the reader, or after a second without it, and then
\* stdout stays open for it.  A thread that was never started is not joined.
Close(from, to) ==
  /\ pc = from /\ pc' = to
  /\ reader = "running" => "reader" \in Faults
  /\ open' = (open /\ reader = "running")
  /\ UNCHANGED <<processes, failed, checked, reader, calls>>

CloseProcess == Close("close1", IF failed THEN "close2" ELSE "wine_w")
CloseAll     == Close("close2", IF failed THEN "raised" ELSE "returned")

-----------------------------------------------------------------------------
Code ==
  \/ Poll \/ Signal("sigint", "wait_int") \/ Gone("wait_int")
  \/ WaitTimesOut("wait_int", "sigterm")
  \/ Signal("sigterm", "wait_term") \/ Gone("wait_term") \/ WaitTimesOut("wait_term", "wine_k")
  \/ KillWine \/ Kill \/ Gone("wait_kill") \/ KillTimesOut
  \/ CloseProcess
  \/ WineWait("wine_w", "wine_k2") \/ WineKillAgain \/ WineWait("wine_w2", "close2")
  \/ \E at \in Wine : WineFails(at)
  \/ CloseAll

Next == Stop \/ Code \/ LeaderExits \/ GroupExits \/ WineExits \/ ReaderEnds

\* Every wait of stop has a timeout, and the reader looks at its event four
\* times a second.
Spec == Init /\ [][Next]_vars /\ WF_vars(Code) /\ WF_vars(ReaderEnds)

-----------------------------------------------------------------------------
(* Properties *)

\* stop implements the contract: it ends, and a return leaves no leader, no
\* client and no wineserver, whatever failed before (server_process.py:161-219).
Contract == INSTANCE StopContract WITH
  game <- leader = "running" \/ group \/ wine,
  call <- CASE pc \in {"none"} \cup Ended -> pc [] OTHER -> "stopping"
ImplementsContract == Contract!Spec

\* A signal to the group is sent only while its leader is unreaped, so that the
\* group's number cannot be another's, retries of stop included.
SignalsOwnGroup == pc \in {"sigint", "sigterm", "sigkill"} => leader # "reaped"

\* Once the leader is gone the Wine checks run before stop ends, however the
\* output reader behaves (docs/WAKE-AND-SLEEP.md: a failed output-thread start
\* does not skip the subsequent Wine shutdown checks).
WineChecked == pc \in Ended /\ leader = "reaped" => checked

=============================================================================
