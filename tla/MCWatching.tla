----------------------------- MODULE MCWatching -----------------------------
(***************************************************************************)
(* What the supervisor's loops decide with clocks, counters and packets,   *)
(* in one instance for TLC: the idle decision under three policies, the    *)
(* query of the server, the update schedule, and the published state with  *)
(* the health check.  They share no state, so a behaviour runs the one     *)
(* that `part' names; the others stay where they began.                    *)
(***************************************************************************)
EXTENDS StateStore, Sequences, FiniteSets, TLC

CONSTANTS
  Players, Policies, MaxServers, MaxLines,  \* of IdleMonitor
  Packets, Sent,                            \* of A2SInfo
  UpdateInterval, UpdateRetry, NoStamp,     \* of UpdateSchedule
  ScheduleTime, ScheduleSet, MaxKills

ASSUME ScheduleAssumption ==
  /\ UpdateInterval \in Nat /\ UpdateRetry \in Nat /\ NoStamp \notin Int
  /\ ScheduleTime \in Nat /\ ScheduleSet \in Nat /\ MaxKills \in Nat

VARIABLES
  part,
  policy, idleNow, pc, server, started, nextQuery, idle, zeros, ever, ready, status, source, count, shown,
  online, since, output, seen, report, reader, answers,
  queryPc, packet, offset, flags, players, gameId,
  updateNow, updateWall, updateBack, updateForth, updatePc, periodic, success, attempt, kills,
  succeededAt, triedAt

monitor  == <<policy, idleNow, pc, server, started, nextQuery, idle, zeros, ever, ready, status, source, count,
              shown, online, since, output, seen, report, reader, answers>>
query    == <<queryPc, packet, offset, flags, players, gameId>>
schedule == <<updateNow, updateWall, updateBack, updateForth, updatePc, periodic, success, attempt,
              kills, succeededAt, triedAt>>

-----------------------------------------------------------------------------
(* Idle decision: the default policy; with the log allowed to stand in, and  *)
(* a reader that may die; two servers in a row, without any minimum.         *)

DefaultPolicy ==
  [autoSleep |-> TRUE, logOnly |-> FALSE, interval |-> 1, minUptime |-> 2, idleTimeout |-> 2,
   minZeros |-> 2, readyTimeout |-> 2, queryTime |-> 1, faults |-> {}, maxTime |-> 5, servers |-> 1]
LogOnlyPolicy == [DefaultPolicy EXCEPT !.logOnly = TRUE, !.faults = {"status"}, !.maxTime = 4]
RestartPolicy == [LogOnlyPolicy EXCEPT !.minUptime = 0, !.idleTimeout = 1, !.queryTime = 0,
                                       !.maxTime = 2, !.servers = 2]

ThreePolicies == {DefaultPolicy, LogOnlyPolicy, RestartPolicy}

I == INSTANCE IdleMonitor WITH now <- idleNow

ASSUME IdleAssumption ==
  /\ Policies \subseteq I!Policy /\ IsFiniteSet(Players)
  /\ MaxServers \in Nat /\ MaxLines \in Nat

-----------------------------------------------------------------------------
(* The query: answers with names of none or two letters, no players or       *)
(* three, and any extras, whole and cut off anywhere.                        *)

Seven(n) == [i \in 1 .. n |-> 7]

ShortAnswer(n, p, edf) ==
  [protocol |-> 17, name |-> Seven(n), map |-> Seven(1), folder |-> <<>>, game |-> Seven(1),
   appid |-> <<7, 0>>, players |-> p, limits |-> <<8, 0>>, kinds |-> Seven(4), version |-> Seven(n),
   edf |-> edf, port |-> Seven(2), steamid |-> Seven(8), tv |-> <<0, 7>>, tvname |-> Seven(n),
   keywords |-> Seven(1), gameid |-> <<1, 2, 3, 0, 0, 0, 0, 1>>]

Edfs == {128 * a + 64 * b + 32 * c + 16 * d + e : a, b, c, d, e \in 0 .. 1}
ShortAnswers == {ShortAnswer(n, p, edf) : n \in {0, 2}, p \in {0, 3}, edf \in Edfs}

A == INSTANCE A2SAnswer

Cut == UNION {{SubSeq(A!Whole(i), 1, k) : k \in 0 .. Len(A!Whole(i))} : i \in ShortAnswers}
Challenges == {<<65>> \o Seven(k) : k \in 3 .. 5}

SentPackets ==
  [header : {"single"}, payload : Cut \cup Challenges]
    \cup [header : {"split", "other"}, payload : {<<>>, <<73, 17, 0>>}]

Q == INSTANCE A2SInfo WITH pc <- queryPc

ASSUME PacketsAssumption == Packets \subseteq Q!Packet /\ Sent \subseteq Q!Answer

-----------------------------------------------------------------------------
U == INSTANCE UpdateSchedule WITH
       now <- updateNow, wall <- updateWall, back <- updateBack, forth <- updateForth, pc <- updatePc,
       Interval <- UpdateInterval, Retry <- UpdateRetry,
       None <- NoStamp, MaxTime <- ScheduleTime, MaxSet <- ScheduleSet

-----------------------------------------------------------------------------
MCInit ==
  /\ part \in {"idle", "query", "schedule", "store"}
  /\ I!Init /\ Q!Init /\ U!Init /\ Init
  /\ part # "idle" => policy = CHOOSE p \in Policies : TRUE
  /\ part # "store" => memory = [state |-> "SLEEPING", data |-> 0]

MCNext ==
  /\ UNCHANGED part
  /\ \/ part = "idle" /\ I!Next /\ UNCHANGED <<query, schedule, vars>>
     \/ part = "query" /\ Q!Next /\ UNCHANGED <<monitor, schedule, vars>>
     \/ part = "schedule" /\ U!Next /\ UNCHANGED <<monitor, query, vars>>
     \/ part = "store" /\ Next /\ UNCHANGED <<monitor, query, schedule>>

MCSpec == MCInit /\ [][MCNext]_<<part, monitor, query, schedule, vars>>

-----------------------------------------------------------------------------
\* No server is put to sleep whose answers do not justify it.
SleepJustified == I!SleepJustified

\* No series of answers that justifies the sleep is passed over.
IdleNotOverlooked == I!IdleNotOverlooked

\* Nobody who was playing is disconnected.
PlayersKept == I!PlayersKept

\* The log count is the present server's.
LogCountCurrent == I!LogCountCurrent

\* No datagram ends the supervisor by an exception.
OnlyCaught == Q!OnlyCaught

\* A whole answer is accepted, and of no answer the wrong bytes are read.
ReadTruly == Q!ReadTruly

\* An update is not put off for longer than its periods and the clock explain.
NotTooLate == U!NotTooLate

\* A periodic update comes no sooner than an interval after a success, nor than
\* the retry delay after a failure.
NotTooSoon == U!NotTooSoon
=============================================================================
