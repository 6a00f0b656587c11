----------------------------- MODULE IdleMonitor -----------------------------
(***************************************************************************)
(* The idle decision of monitor_server (supervisor.py) with what feeds it: *)
(* A2S queries that answer or fail, and, if they never answer, the players *)
(* that the server's output reader (server_process.py) finds in the log.   *)
(* Servers follow each other; the reader of an old one may outlive it.     *)
(*                                                                         *)
(* Time is a coarse monotonic clock.  Reading the output of the present    *)
(* server takes none of it, a query may take up to QueryTime.              *)
(***************************************************************************)
EXTENDS Integers, Sequences, FiniteSets

CONSTANTS
  Players,
  Policies,             \* settings, with what may happen under them: see Policy
  MaxServers, MaxLines  \* bounds: server starts, unread lines of a server

None == -1                              \* no time, no count, no server

VARIABLES
  policy,                               \* never changes
  now, pc, server, started, nextQuery,  \* monitor_server; server: the ServerProcess in use
  idle, zeros, ever,                    \* idle_since, successful_zero_queries, a2s_ever_succeeded
  ready, status,                        \* server.ready.is_set(), the published state
  source, count, shown,                 \* _log_source, last_log_player_count, published log_players
  online, since,                        \* who plays, and since when
  output, seen, report, reader,         \* of each server: unread lines, log_players, a count
                                        \* about to be reported, whether the reader lives
  answers                               \* history: this server's queries: asked when, answered
                                        \* or not, and whether what monitor_server got to
                                        \* know, the answer or the log, is that nobody plays

monitor == <<server, started, nextQuery, idle, zeros, ever>>
log     == <<output, seen, report, reader>>
vars    == <<policy, now, pc, monitor, ready, status, source, count, shown, online, since, log, answers>>

-----------------------------------------------------------------------------
(* The settings, as settings.py bounds them, and the rest of a policy *)

AutoSleep    == policy.autoSleep        \* auto_sleep_enabled
LogOnly      == policy.logOnly          \* allow_log_only_idle
Interval     == policy.interval         \* idle_check_interval_seconds
MinUptime    == policy.minUptime        \* min_uptime_seconds
IdleTimeout  == policy.idleTimeout      \* idle_timeout_seconds
MinZeros     == policy.minZeros         \* idle_min_successful_queries
ReadyTimeout == policy.readyTimeout     \* server_ready_timeout_seconds
QueryTime    == policy.queryTime        \* longest duration of query_info
Faults       == policy.faults           \* {} or {"status"}: a publication may fail
Horizon      == policy.maxTime          \* bound of the clock

Policy ==
  [autoSleep : BOOLEAN, logOnly : BOOLEAN, interval : Nat, minUptime : Nat, idleTimeout : Nat,
   minZeros : Nat, readyTimeout : Nat, queryTime : Nat, faults : SUBSET {"status"},
   maxTime : Nat, servers : Nat]

-----------------------------------------------------------------------------
Time    == 0 .. Horizon
Servers == 1 .. MaxServers
Counts  == 0 .. Cardinality(Players)
Lines   == {<<"ready">>} \cup ({"join", "leave"} \X Players)
Answer  == [at : Time, ok : BOOLEAN, empty : BOOLEAN]
Watched == pc \in {"loop", "query"}
Alive   == Watched \/ pc \in {"stop", "sleep"}

ControlType ==
  /\ policy \in Policies
  /\ now \in Time /\ nextQuery \in Nat /\ started \in Time
  /\ pc \in {"off", "asleep", "loop", "query", "stop", "sleep"}
  /\ server \in 0 .. MaxServers /\ source \in {None} \cup Servers
  /\ idle \in {None} \cup Time /\ zeros \in Nat /\ ever \in BOOLEAN
  /\ ready \in BOOLEAN /\ status \in {"SLEEPING", "STARTING", "RUNNING", "IDLE"}
  /\ answers \in Seq(Answer)

LogType ==
  /\ count \in Counts /\ shown \in Counts
  /\ output \in [Servers -> Seq(Lines)] /\ \A s \in Servers : Len(output[s]) <= MaxLines
  /\ seen \in [Servers -> SUBSET Players]
  /\ report \in [Servers -> {None} \cup Counts]
  /\ reader \in [Servers -> BOOLEAN]

PlayerType == online \subseteq Players /\ since \in [Players -> Time]

TypeOK == ControlType /\ LogType /\ PlayerType

Init ==
  /\ policy \in Policies
  /\ now = 0 /\ pc = "off" /\ server = 0 /\ started = 0 /\ nextQuery = 0
  /\ idle = None /\ zeros = 0 /\ ever = FALSE /\ ready = FALSE /\ status = "SLEEPING"
  /\ source = None /\ count = 0 /\ shown = 0
  /\ online = {} /\ since = [p \in Players |-> 0]
  /\ output = [s \in Servers |-> <<>>] /\ seen = [s \in Servers |-> {}]
  /\ report = [s \in Servers |-> None] /\ reader = [s \in Servers |-> FALSE]
  /\ answers = <<>>

-----------------------------------------------------------------------------
(* Starting and stopping *)

\* _start_server from its publication of STARTING, then the head of monitor_server.
StartServer ==
  /\ pc \in {"off", "asleep"} /\ server < MaxServers /\ server < policy.servers
  /\ server' = server + 1 /\ pc' = "loop"
  /\ started' = now /\ nextQuery' = now /\ idle' = None /\ zeros' = 0 /\ ever' = FALSE
  /\ ready' = FALSE /\ status' = "STARTING" /\ answers' = <<>>
  /\ source' = server' /\ count' = 0 /\ shown' = 0
  /\ reader' = [reader EXCEPT ![server'] = TRUE]
  /\ UNCHANGED <<now, online, since, output, seen, report>>

\* _deactivate_log_source: only of the server that is the source.
Deactivate ==
  IF source = server THEN source' = None /\ count' = 0 ELSE UNCHANGED <<source, count>>

\* A sleep request, a shutdown, or an exit of the game: the log source goes first.
StopBegins ==
  /\ pc = "loop" /\ pc' = "stop"
  /\ Deactivate
  /\ UNCHANGED <<now, monitor, ready, status, shown, online, since, log, answers>>

\* server.stop() and close(): the game is gone, its reader perhaps not.
Stopped ==
  /\ pc \in {"stop", "sleep"}
  /\ pc' = IF pc = "stop" THEN "off" ELSE "asleep"
  /\ shown' = 0 /\ status' = "SLEEPING" /\ online' = {}
  /\ UNCHANGED <<now, monitor, ready, source, count, since, log, answers>>

-----------------------------------------------------------------------------
(* The game and its output reader *)

Writes(line) ==
  /\ Len(output[server]) < MaxLines
  /\ output' = [output EXCEPT ![server] = Append(@, line)]

Ready ==
  /\ Watched /\ ~ready /\ Writes(<<"ready">>)
  /\ UNCHANGED <<now, pc, monitor, ready, status, source, count, shown, online, since,
                 seen, report, reader, answers>>

Join(p) ==
  /\ Watched /\ p \notin online
  /\ online' = online \cup {p} /\ since' = [since EXCEPT ![p] = now]
  /\ Writes(<<"join", p>>)
  /\ UNCHANGED <<now, pc, monitor, ready, status, source, count, shown, seen, report, reader,
                 answers>>

Leave(p) ==
  /\ Alive /\ p \in online
  /\ online' = online \ {p}
  /\ Writes(<<"leave", p>>)
  /\ UNCHANGED <<now, pc, monitor, ready, status, source, count, shown, since, seen, report,
                 reader, answers>>

\* _handle_output_line up to the call of on_log_activity.
ReadLine(s) ==
  /\ reader[s] /\ report[s] = None /\ output[s] # <<>>
  /\ output' = [output EXCEPT ![s] = Tail(@)]
  /\ LET line == Head(output[s]) IN
     IF line = <<"ready">>
       THEN ready' = (ready \/ s = server) /\ UNCHANGED <<seen, report>>
       ELSE /\ seen' = [seen EXCEPT ![s] = IF line[1] = "join" THEN @ \cup {line[2]}
                                                               ELSE @ \ {line[2]}]
            /\ report' = [report EXCEPT ![s] = Cardinality(seen'[s])]
            /\ UNCHANGED ready
  /\ UNCHANGED <<now, pc, monitor, status, source, count, shown, online, since, reader, answers>>

\* Mutant of Counted: a report counts whichever server it comes from.
CountedAnyway(s) == count' = report[s] /\ shown' = report[s]

\* _log_activity, under its lock: only the registered source counts.
Counted(s) ==
  IF s = source THEN count' = report[s] /\ shown' = report[s] ELSE UNCHANGED <<count, shown>>

Report(s) ==
  /\ report[s] # None
  /\ Counted(s)
  /\ report' = [report EXCEPT ![s] = None]
  /\ UNCHANGED <<now, pc, monitor, ready, status, source, online, since, output, seen, reader,
                 answers>>

\* state.update raises inside _log_activity: nobody catches it in the reader
\* thread, and nothing ever reads the server's output again.
ReportFails(s) ==
  /\ "status" \in Faults /\ report[s] # None /\ s = source
  /\ Counted(s)
  /\ report' = [report EXCEPT ![s] = None] /\ reader' = [reader EXCEPT ![s] = FALSE]
  /\ UNCHANGED <<now, pc, monitor, ready, status, source, online, since, output, seen, answers>>

\* The present server's reader keeps up with the clock as long as it lives.
Prompt == reader[server] => output[server] = <<>> /\ report[server] = None

-----------------------------------------------------------------------------
(* A pass of monitor_server *)

Tick == now < Horizon /\ now' = now + 1

\* Readiness, or its deadline, shows RUNNING unless an idle timer runs.
ShowReady ==
  status' = IF (ready \/ now >= started + ReadyTimeout) /\ idle = None THEN "RUNNING" ELSE status

\* time.sleep(1) after a pass that has no query to make.
Pass ==
  /\ pc = "loop" /\ now < nextQuery
  /\ Prompt /\ Tick /\ ShowReady
  /\ UNCHANGED <<pc, monitor, ready, source, count, shown, online, since, log, answers>>

Query ==
  /\ pc = "loop" /\ now >= nextQuery
  /\ pc' = "query" /\ nextQuery' = now + Interval
  /\ ShowReady
  /\ UNCHANGED <<now, server, started, idle, zeros, ever, ready, source, count, shown, online,
                 since, log, answers>>

\* `now' of the pass: read before the query, used after it.
Asked == nextQuery - Interval

QueryLasts ==
  /\ pc = "query" /\ now < Asked + QueryTime
  /\ Prompt /\ Tick
  /\ UNCHANGED <<pc, monitor, ready, status, source, count, shown, online, since, log, answers>>

\* Mutant of Success: a server that is empty again keeps the timer of before.
SuccessKeepingTimer ==
  /\ ever' = TRUE
  /\ IF online # {}
       THEN idle' = idle /\ zeros' = 0 /\ status' = "RUNNING"
       ELSE idle' = (IF idle = None THEN Asked ELSE idle) /\ zeros' = zeros + 1 /\ status' = "IDLE"

\* Mutant of Success: the timer starts again at every answer.
SuccessRestarting ==
  /\ ever' = TRUE
  /\ IF online # {}
       THEN idle' = None /\ zeros' = 0 /\ status' = "RUNNING"
       ELSE idle' = Asked /\ zeros' = zeros + 1 /\ status' = "IDLE"

Success ==
  /\ ever' = TRUE
  /\ IF online # {}
       THEN idle' = None /\ zeros' = 0 /\ status' = "RUNNING"
       ELSE idle' = (IF idle = None THEN Asked ELSE idle) /\ zeros' = zeros + 1 /\ status' = "IDLE"

\* Mutant of Failure: the log is trusted only to start the timer.
FailureKeepingTimer ==
  /\ zeros' = 0 /\ UNCHANGED <<ever, status>>
  /\ idle' = IF LogOnly /\ ~ever THEN (IF count = 0 /\ idle = None THEN Asked ELSE idle) ELSE None

\* A timeout, an OSError or an A2SError of query_info.
Failure ==
  /\ zeros' = 0 /\ UNCHANGED <<ever, status>>
  /\ idle' = IF ~LogOnly \/ ever \/ count > 0 THEN None
             ELSE IF idle = None THEN Asked ELSE idle

\* A publication of the answer raises an OSError, and is handled as a query that
\* failed; but that one was answered is not forgotten.
Unpublished ==
  /\ "status" \in Faults /\ ever' = TRUE /\ zeros' = 0 /\ idle' = None
  /\ status' \in {status, IF online # {} THEN "RUNNING" ELSE "IDLE"}

GoesToSleep ==
  /\ AutoSleep /\ idle' # None
  /\ Asked - started >= MinUptime /\ Asked - idle' >= IdleTimeout
  /\ zeros' >= MinZeros \/ (LogOnly /\ ~ever')

Notes(ok, empty) == answers' = Append(answers, [at |-> Asked, ok |-> ok, empty |-> empty])

QueryEnds(ok) ==
  /\ pc = "query"
  /\ \/ ok /\ Success /\ Notes(ok, online = {})
     \/ ok /\ Unpublished /\ Notes(ok, FALSE)
     \/ ~ok /\ Failure /\ Notes(ok, count = 0)
  /\ IF GoesToSleep THEN pc' = "sleep" /\ Deactivate ELSE pc' = "loop" /\ UNCHANGED <<source, count>>
  /\ UNCHANGED <<now, server, started, nextQuery, ready, shown, online, since, log>>

Next ==
  /\ UNCHANGED policy
  /\ \/ StartServer \/ StopBegins \/ Stopped \/ Ready
     \/ \E p \in Players : Join(p) \/ Leave(p)
     \/ \E s \in Servers : ReadLine(s) \/ Report(s) \/ ReportFails(s)
     \/ Pass \/ Query \/ QueryLasts
     \/ \E ok \in BOOLEAN : QueryEnds(ok)

Spec == Init /\ [][Next]_vars

-----------------------------------------------------------------------------
(* Properties *)

\* An answer that speaks for an idle server: zero players, or, if the log may
\* stand in for queries none of which has ever been answered, nobody in the log.
Quiet(i) ==
  /\ answers[i].empty
  /\ answers[i].ok \/ (LogOnly /\ \A j \in 1 .. i : ~answers[j].ok)

QuietFrom(i) == \A j \in i .. Len(answers) : Quiet(j)

\* What the answers of the present server justify (docs/WAKE-AND-SLEEP.md, Idle
\* decision): uninterrupted quiet for the timeout, and enough answers in a row.
Justified ==
  LET n == Len(answers) IN
  /\ AutoSleep /\ n > 0
  /\ answers[n].at - started >= MinUptime
  /\ \E i \in 1 .. n : QuietFrom(i) /\ answers[n].at - answers[i].at >= IdleTimeout
  /\ \/ n >= MinZeros /\ \A j \in n - MinZeros + 1 .. n : answers[j].ok /\ answers[j].empty
     \/ LogOnly /\ \A j \in 1 .. n : ~answers[j].ok

\* The counters and the timer of monitor_server, reset on four different paths,
\* never put a server to sleep that the whole series of its answers does not.
SleepJustified == pc \in {"sleep", "asleep"} => Justified

\* Nor do they forget: a series that justifies the sleep is answered by it at once.
\* An answer that could not be published speaks for nothing.
IdleNotOverlooked == Justified => pc \in {"sleep", "asleep"}

\* Nobody is disconnected who was playing before the present second: neither the
\* answers nor, without any, the log may miss a player (supervisor.py:372-428).
\* The exception is a reader that died of a publication (supervisor.py:204).
PlayersKept == pc = "sleep" /\ reader[server] => \A p \in online : since[p] = now

\* The log count a failing query relies on is the present server's: what an old
\* server's reader still reports after its stop never enters it, and with the
\* reader idle it is the number of players the output has shown.
LogCountCurrent ==
  /\ source # None =>
       /\ source = server /\ shown = count
       /\ report[server] = None => count = Cardinality(seen[server])
  /\ source = None => count = 0

=============================================================================
