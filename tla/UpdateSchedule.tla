---------------------------- MODULE UpdateSchedule ----------------------------
(***************************************************************************)
(* When a sleeping supervisor updates the server: update_due and the two   *)
(* stamp files of steamcmd.py, written from a wall clock that somebody may *)
(* set, by a process that may be killed between truncating a stamp and     *)
(* filling it.                                                             *)
(*                                                                         *)
(* Updates that a wake or a boot makes without asking update_due leave the *)
(* same stamps.                                                            *)
(***************************************************************************)
EXTENDS Integers

CONSTANTS
  Interval, Retry,      \* update_interval_seconds (> 0), update_retry_delay_seconds
  None,                 \* no stamp, or one that cannot be read; no time
  MaxTime, MaxSet,      \* bounds: true time, and by how much the clock is set in all
  MaxKills

VARIABLES
  now,                  \* true time
  wall,                 \* time.time()
  back, forth,          \* history: by how much the wall clock was set back and forth
  pc,                   \* where update_server is
  periodic,             \* the update was started by the sleep loop
  success, attempt,     \* last-update, last-update-attempt
  kills,
  succeededAt, triedAt  \* history: when the events those stamps record happened

files == <<success, attempt, succeededAt, triedAt>>
vars  == <<now, wall, back, forth, pc, periodic, kills, files>>

Stamped(t) == t # None

TypeOK ==
  /\ now \in 0 .. MaxTime /\ wall \in -MaxSet .. MaxTime + MaxSet
  /\ back \in 0 .. MaxSet /\ forth \in 0 .. MaxSet /\ kills \in 0 .. MaxKills
  /\ pc \in {"asleep", "down", "begin", "steamcmd", "succeed", "fail"}
  /\ periodic \in BOOLEAN
  /\ success \in {None} \cup Int /\ attempt \in {None} \cup Int
  /\ succeededAt \in {None} \cup (0 .. MaxTime) /\ triedAt \in {None} \cup (0 .. MaxTime)
  /\ (success = None) = (succeededAt = None) /\ (attempt = None) = (triedAt = None)
  /\ pc \in {"steamcmd", "succeed"} => attempt # None

Init ==
  /\ now = 0 /\ wall = 0 /\ back = 0 /\ forth = 0 /\ pc = "asleep" /\ periodic = FALSE
  /\ success = None /\ attempt = None /\ kills = 0
  /\ succeededAt = None /\ triedAt = None

-----------------------------------------------------------------------------
\* Mutant of Due: the age of a stamp is taken whatever its sign.
DueByDistance ==
  /\ success # None => wall - success >= Interval \/ success - wall >= Interval
  /\ attempt # None => (success # None /\ attempt <= success) \/ wall - attempt >= Retry

\* Mutant of Due: every attempt delays the next one by the whole interval.
DueByAttempt ==
  /\ success # None => wall - success >= Interval
  /\ attempt # None => wall - attempt >= Interval

\* update_due.
Due ==
  /\ success # None => wall - success >= Interval
  /\ attempt # None => (success # None /\ attempt <= success) \/ wall - attempt >= Retry

\* Time passes, during updates, waits for the data lock and a running server too.
Tick ==
  /\ now < MaxTime
  /\ now' = now + 1 /\ wall' = wall + 1
  /\ UNCHANGED <<back, forth, pc, periodic, kills, files>>

\* Somebody sets the clock.
SetClock(d) ==
  /\ wall' = wall + d
  /\ IF d < 0 THEN back' = back - d /\ UNCHANGED forth ELSE forth' = forth + d /\ UNCHANGED back
  /\ back' + forth' <= MaxSet
  /\ UNCHANGED <<now, pc, periodic, kills, files>>

\* _write_timestamp opens the file, which empties it ...
Empty(stamp) ==
  IF stamp = "attempt"
    THEN attempt' = None /\ triedAt' = None /\ UNCHANGED <<success, succeededAt>>
    ELSE success' = None /\ succeededAt' = None /\ UNCHANGED <<attempt, triedAt>>

\* ... and writes it.
Fill(stamp) ==
  IF stamp = "attempt"
    THEN attempt' = wall /\ triedAt' = now /\ UNCHANGED <<success, succeededAt>>
    ELSE success' = wall /\ succeededAt' = now /\ UNCHANGED <<attempt, triedAt>>

Jump(from, to) == pc = from /\ pc' = to /\ UNCHANGED <<now, wall, back, forth, kills>>

\* The sleep loop, or a wake or a boot, which do not ask update_due.
Begin(asked) ==
  /\ asked => Due
  /\ Jump("asleep", "begin") /\ Empty("attempt") /\ periodic' = asked

BeginStamped == Jump("begin", "steamcmd") /\ Fill("attempt") /\ UNCHANGED periodic

Succeed   == Jump("steamcmd", "succeed") /\ Empty("success") /\ UNCHANGED periodic
Succeeded == Jump("succeed", "asleep") /\ Fill("success") /\ UNCHANGED periodic

\* An UpdateError, or an OSError of any step, is stamped as an attempt ...
Fail(at) ==
  /\ at \in {"begin", "steamcmd", "succeed"}
  /\ Jump(at, "fail") /\ Empty("attempt") /\ UNCHANGED periodic

\* ... and reported to the loop, which sleeps on.
Failed == Jump("fail", "asleep") /\ Fill("attempt") /\ UNCHANGED periodic

\* A kill, a shutdown that cancels SteamCMD, an OSError of the last stamp: the
\* process ends with the files as they are.
Die ==
  /\ pc # "down" /\ kills < MaxKills
  /\ pc' = "down" /\ kills' = kills + 1
  /\ UNCHANGED <<now, wall, back, forth, periodic, files>>

Boot == Jump("down", "asleep") /\ UNCHANGED <<periodic, files>>

Next ==
  \/ Tick
  \/ \E d \in -MaxSet .. MaxSet : SetClock(d)
  \/ \E asked \in BOOLEAN : Begin(asked)
  \/ BeginStamped \/ Succeed \/ Succeeded \/ Failed \/ Die \/ Boot
  \/ \E at \in {"begin", "steamcmd", "succeed"} : Fail(at)

Spec == Init /\ [][Next]_vars

-----------------------------------------------------------------------------
(* Properties, in true time, for a wall clock set by at most back and forth *)

\* A periodic update comes no sooner than an interval after the last success
\* that is recorded, nor than the retry delay after an attempt that failed, or
\* was cut short, since then (steamcmd.py:258-268).  A clock set back may hide
\* such an attempt behind the success before it; then the interval has passed
\* since the attempt too.
NotTooSoon ==
  [][Begin(TRUE) =>
       /\ Stamped(succeededAt) => now - succeededAt >= Interval - forth
       /\ Stamped(triedAt) =>
            \/ now - triedAt >= Retry - forth
            \/ Stamped(succeededAt) /\ triedAt <= succeededAt
            \/ back > 0 /\ now - triedAt >= Interval - forth]_vars

\* An update is put off only because of a success less than an interval ago or
\* an attempt less than a retry delay ago; a clock set back adds no more than
\* what it was set back by.
NotTooLate ==
  pc = "asleep" /\ ~Due =>
    \/ Stamped(succeededAt) /\ now - succeededAt < Interval + back
    \/ Stamped(triedAt) /\ now - triedAt < Retry + back
=============================================================================
