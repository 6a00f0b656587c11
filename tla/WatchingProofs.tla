---------------------------- MODULE WatchingProofs ----------------------------
(***************************************************************************)
(* Theorems about the components that MCWatching combines.                 *)
(***************************************************************************)
EXTENDS MCWatching, FiniteSetTheorems, TLAPS

-----------------------------------------------------------------------------
(* The update schedule *)

\* What a stamp tells of its event: the age it has by the wall clock differs
\* from the true one by no more than the clock was set.
Tells(stamp, at) ==
  stamp # NoStamp =>
    /\ updateNow - at - updateBack <= updateWall - stamp
    /\ updateWall - stamp <= updateNow - at + updateForth
    /\ at <= updateNow

\* Without the last conjunct NotTooSoon is not inductive: while the clock was
\* never set back, an attempt after a success is stamped later than that.
ScheduleInv ==
  /\ U!TypeOK
  /\ updateWall = updateNow + updateForth - updateBack
  /\ Tells(success, succeededAt) /\ Tells(attempt, triedAt)
  /\ success # NoStamp /\ attempt # NoStamp /\ triedAt > succeededAt
       => attempt - success >= triedAt - succeededAt - updateBack

LEMMA ScheduleInit == U!Init => ScheduleInv
<1> SUFFICES ASSUME U!Init PROVE ScheduleInv
  OBVIOUS
<1>1. periodic \in BOOLEAN
  BY DEF U!Init
<1>2. U!TypeOK
  BY <1>1, ScheduleAssumption DEF U!Init, U!TypeOK
<1> QED
  BY <1>2, ScheduleAssumption DEF U!Init, ScheduleInv, Tells

LEMMA ScheduleNext == ScheduleInv /\ [U!Next]_U!vars => ScheduleInv'
<1> SUFFICES ASSUME ScheduleInv, [U!Next]_U!vars PROVE ScheduleInv'
  OBVIOUS
<1> USE ScheduleAssumption DEF ScheduleInv, Tells, U!TypeOK, U!files
<1>1. CASE U!Tick
  BY <1>1 DEF U!Tick
<1>2. ASSUME NEW d \in -ScheduleSet .. ScheduleSet, U!SetClock(d) PROVE ScheduleInv'
  BY <1>2 DEF U!SetClock
<1>3. ASSUME NEW asked \in BOOLEAN, U!Begin(asked) PROVE ScheduleInv'
  BY <1>3 DEF U!Begin, U!Jump, U!Empty
<1>4. CASE U!BeginStamped
  BY <1>4 DEF U!BeginStamped, U!Jump, U!Fill
<1>5. CASE U!Succeed
  BY <1>5 DEF U!Succeed, U!Jump, U!Empty
<1>6. CASE U!Succeeded
  BY <1>6 DEF U!Succeeded, U!Jump, U!Fill
<1>7. CASE U!Failed
  BY <1>7 DEF U!Failed, U!Jump, U!Fill
<1>8. CASE U!Die
  BY <1>8 DEF U!Die
<1>9. CASE U!Boot
  BY <1>9 DEF U!Boot, U!Jump
<1>10. ASSUME NEW at \in {"begin", "steamcmd", "succeed"}, U!Fail(at) PROVE ScheduleInv'
  BY <1>10 DEF U!Fail, U!Jump, U!Empty
<1>11. CASE UNCHANGED U!vars
  BY <1>11 DEF U!vars
<1> QED
  BY <1>1, <1>2, <1>3, <1>4, <1>5, <1>6, <1>7, <1>8, <1>9, <1>10, <1>11 DEF U!Next

LEMMA ScheduleInvariant == U!Spec => []ScheduleInv
BY ScheduleInit, ScheduleNext, PTL DEF U!Spec

\* Whatever the interval, the delay and the bounds are: an update that is put
\* off has its reason in a stamp, whose age the clock cannot have distorted by
\* more than it was set back (steamcmd.py:258-268).
THEOREM UpdatesNotPutOff == U!Spec => []NotTooLate
<1>1. ScheduleInv => NotTooLate
  BY ScheduleAssumption DEF ScheduleInv, Tells, NotTooLate, U!NotTooLate, U!Due, U!Stamped, U!TypeOK
<1> QED BY <1>1, ScheduleInvariant, PTL

\* No periodic update starts before its time, nor, unless the clock was set
\* forth, does it follow an attempt that failed by less than the retry delay.
THEOREM UpdatesNotTooSoon == U!Spec => NotTooSoon
<1> DEFINE
  Kept ==
    /\ U!Stamped(succeededAt) => updateNow - succeededAt >= UpdateInterval - updateForth
    /\ U!Stamped(triedAt) =>
         \/ updateNow - triedAt >= UpdateRetry - updateForth
         \/ U!Stamped(succeededAt) /\ triedAt <= succeededAt
         \/ updateBack > 0 /\ updateNow - triedAt >= UpdateInterval - updateForth
<1>1. ScheduleInv /\ U!Begin(TRUE) => Kept
  BY ScheduleAssumption DEF ScheduleInv, Tells, U!Begin, U!Due, U!Stamped, U!TypeOK
<1>2. ScheduleInv /\ [U!Next]_U!vars => [U!Begin(TRUE) => Kept]_U!vars
  BY <1>1
<1> QED
  BY <1>2, ScheduleInvariant, PTL DEF U!Spec, NotTooSoon, U!NotTooSoon

-----------------------------------------------------------------------------
(* The published state and the health check *)

\* The heartbeat in memory is as old as the last attempt to write it, and never
\* older than Beat when the main thread calls the store: with that, a failed
\* write is made up for.
BeatInv ==
  /\ life \in {"looping", "waiting"} => now <= called + Gap + MaxWait
  /\ called <= now /\ written <= now /\ failedAt <= now
  /\ failing => /\ now - failedAt - back <= wall - beat
                /\ called - failedAt <= Beat + back
  /\ back + forth = 0 => beat <= now /\ called - beat <= Beat
  /\ now - written - back <= wall - file.heartbeat

StoreInv ==
  /\ TypeOK
  /\ wall = now + forth - back
  /\ BeatInv

LEMMA StoreInit == Init => StoreInv
<1> SUFFICES ASSUME Init PROVE StoreInv
  OBVIOUS
<1>1. failing \in BOOLEAN /\ ~failing
  BY DEF Init
<1>2. TypeOK
  BY <1>1, BoundAssumption DEF Init, TypeOK, Fresh, File
<1> QED
  BY <1>1, <1>2, BoundAssumption, AgeAssumption DEF Init, StoreInv, BeatInv

\* Whoever calls it: a call writes memory with a new heartbeat, fails to, or has
\* nothing new to write and a heartbeat younger than Beat.
LEMMA StoreCall ==
  ASSUME StoreInv, NEW v \in Values, NEW ok \in BOOLEAN, Store(v, ok), UNCHANGED clock
  PROVE  \/ /\ memory' = v /\ beat' = wall /\ Written
         \/ /\ memory' = v /\ beat' = wall /\ NotWritten
         \/ /\ memory = v /\ wall - beat < Beat
            /\ UNCHANGED <<memory, beat, file, written, failing, failedAt, failures>>
BY AgeAssumption DEF Store, StoreInv, TypeOK

LEMMA WriteSucceeds ==
  ASSUME Written, memory' \in Values, beat' \in Int
  PROVE  /\ file' \in File /\ file'.value = memory' /\ file'.heartbeat = beat' /\ written' = now
         /\ failing' \in BOOLEAN /\ ~failing' /\ UNCHANGED <<failedAt, failures>>
BY DEF Written, File

LEMMA StoreNext == StoreInv /\ [Next]_vars => StoreInv'
<1> SUFFICES ASSUME StoreInv, [Next]_vars PROVE StoreInv'
  OBVIOUS
<1> USE AgeAssumption, BoundAssumption DEF StoreInv, BeatInv, TypeOK, clock, Values, File
<1>1. ASSUME NEW v \in Values, NEW ok \in BOOLEAN, MainCalls(v, ok) PROVE StoreInv'
  <2>1. UNCHANGED clock /\ called' = now /\ life = "looping" /\ life' \in {"looping", "dead"}
    BY <1>1 DEF MainCalls
  <2>2. CASE memory' = v /\ beat' = wall /\ Written
    BY <2>1, <2>2, WriteSucceeds
  <2>3. CASE memory' = v /\ beat' = wall /\ NotWritten
    BY <2>1, <2>3 DEF NotWritten
  <2>4. CASE /\ memory = v /\ wall - beat < Beat
             /\ UNCHANGED <<memory, beat, file, written, failing, failedAt, failures>>
    BY <2>1, <2>4
  <2> QED BY <1>1, <2>1, <2>2, <2>3, <2>4, StoreCall DEF MainCalls
<1>2. ASSUME NEW d \in Data, NEW ok \in BOOLEAN, ReaderCalls(d, ok) PROVE StoreInv'
  <2> DEFINE v == [memory EXCEPT !.data = d]
  <2>1. UNCHANGED <<clock, life, called>> /\ v \in Values
    BY <1>2 DEF ReaderCalls
  <2> HIDE DEF v
  <2>2. CASE memory' = v /\ beat' = wall /\ Written
    BY <2>1, <2>2, WriteSucceeds
  <2>3. CASE memory' = v /\ beat' = wall /\ NotWritten
    BY <2>1, <2>3 DEF NotWritten
  <2>4. CASE UNCHANGED <<memory, beat, file, written, failing, failedAt, failures>>
    BY <2>1, <2>4
  <2> QED BY <1>2, <2>1, <2>2, <2>3, <2>4, StoreCall DEF ReaderCalls, v
<1>3. CASE Waits
  BY <1>3 DEF Waits
<1>4. CASE Resumes
  BY <1>4 DEF Resumes
<1>5. CASE Boots
  <2>1. memory' \in Values /\ beat' = wall
    BY <1>5 DEF Boots, Fresh
  <2> QED BY <1>5, <2>1, WriteSucceeds DEF Boots
<1>6. ASSUME NEW how \in {"hung", "dead"}, Stops(how) PROVE StoreInv'
  BY <1>6 DEF Stops
<1>7. CASE Tick
  BY <1>7 DEF Tick, Patience
<1>8. ASSUME NEW d \in -MaxSet .. MaxSet, SetClock(d) PROVE StoreInv'
  BY <1>8 DEF SetClock
<1>9. CASE UNCHANGED vars
  BY <1>9 DEF vars
<1> QED
  BY <1>1, <1>2, <1>3, <1>4, <1>5, <1>6, <1>7, <1>8, <1>9 DEF Next

LEMMA StoreInvariant == Spec => []StoreInv
BY StoreInit, StoreNext, PTL DEF Spec

\* A write that failed is made up for within a heartbeat and a wait.
THEOREM FailedWritesMadeUp == Spec => []FileCatchesUp
<1>1. StoreInv => FileCatchesUp
  BY AgeAssumption, BoundAssumption DEF StoreInv, BeatInv, TypeOK, FileCatchesUp, File
<1> QED BY <1>1, StoreInvariant, PTL

\* The health check is right about a supervisor that lives, unless it waits for
\* too long, and finds out one that no longer writes; for any settings, of which
\* none is taken to be longer than another.
THEOREM HealthIsTrue == Spec => []HealthTruthful
<1> SUFFICES ASSUME StoreInv PROVE HealthTruthful
  BY StoreInvariant, PTL
<1> USE AgeAssumption, BoundAssumption DEF StoreInv, BeatInv, TypeOK, File, Values
<1>1. ASSUME life \in {"looping", "waiting"}, ~failing, back + forth = 0
      PROVE  /\ Healthy => memory.state # "ERROR"
             /\ memory.state # "ERROR" /\ ~Healthy => now - called > MaxAge - Beat
  <2>1. file.value = memory /\ file.heartbeat = beat /\ wall = now /\ beat <= now /\ called - beat <= Beat
    BY <1>1
  <2> QED BY <2>1 DEF Healthy
<1>2. ASSUME now - written > MaxAge + back PROVE ~Healthy
  BY <1>2 DEF Healthy
<1> QED BY <1>1, <1>2 DEF HealthTruthful

-----------------------------------------------------------------------------
(* The idle decision *)

\* A count about to be reported is that of the players its server's output has
\* shown.
ReportInv ==
  \A s \in I!Servers : report[s] # I!None => report[s] = Cardinality(seen[s])

\* The query that is under way was asked at a time that has been, of a server.
AskedInv ==
  /\ pc = "query" => I!Asked \in 0 .. idleNow
  /\ pc # "off" => server # 0

IdleTypeInv == I!ControlType /\ I!LogType /\ I!PlayerType /\ ReportInv /\ AskedInv

LEMMA PolicyType ==
  ASSUME policy \in Policies
  PROVE  /\ I!AutoSleep \in BOOLEAN /\ I!LogOnly \in BOOLEAN
         /\ I!Interval \in Nat /\ I!MinUptime \in Nat /\ I!IdleTimeout \in Nat /\ I!MinZeros \in Nat
         /\ I!ReadyTimeout \in Nat /\ I!QueryTime \in Nat /\ I!Horizon \in Nat
BY IdleAssumption DEF I!Policy, I!AutoSleep, I!LogOnly, I!Interval, I!MinUptime, I!IdleTimeout,
     I!MinZeros, I!ReadyTimeout, I!QueryTime, I!Horizon

LEMMA PolicyKept ==
  ASSUME policy' = policy
  PROVE  /\ I!AutoSleep' = I!AutoSleep /\ I!LogOnly' = I!LogOnly /\ I!Interval' = I!Interval
         /\ I!MinUptime' = I!MinUptime /\ I!IdleTimeout' = I!IdleTimeout /\ I!MinZeros' = I!MinZeros
         /\ I!Horizon' = I!Horizon
BY DEF I!AutoSleep, I!LogOnly, I!Interval, I!MinUptime, I!IdleTimeout, I!MinZeros, I!Horizon

LEMMA SameCardinality == \A S : I!Cardinality(S) = Cardinality(S)
BY DEF I!Cardinality, Cardinality

LEMMA Counted ==
  ASSUME NEW S \in SUBSET Players
  PROVE  Cardinality(S) \in I!Counts /\ (Cardinality(S) = 0 <=> S = {})
<1>1. IsFiniteSet(S) /\ Cardinality(S) \in Nat /\ Cardinality(S) <= Cardinality(Players)
  BY IdleAssumption, FS_Subset, FS_CardinalityType
<1>2. Cardinality(Players) \in Nat
  BY IdleAssumption, FS_CardinalityType
<1>3. Cardinality(S) = 0 <=> S = {}
  BY <1>1, FS_EmptySet, Zenon
<1> QED BY <1>1, <1>2, <1>3, SameCardinality DEF I!Counts

LEMMA IdleTypeInit == I!Init => IdleTypeInv
<1> SUFFICES ASSUME I!Init PROVE IdleTypeInv
  OBVIOUS
<1>1. policy \in Policies /\ ever \in BOOLEAN /\ ready \in BOOLEAN
  BY DEF I!Init
<1>2. 0 \in I!Time /\ 0 \in I!Counts
  BY <1>1, PolicyType, Counted, FS_EmptySet DEF I!Time
<1>3. I!ControlType
  BY <1>1, <1>2, IdleAssumption DEF I!Init, I!ControlType
<1>4. I!LogType /\ ReportInv
  BY <1>2, IdleAssumption DEF I!Init, I!LogType, ReportInv
<1>5. I!PlayerType
  BY <1>2 DEF I!Init, I!PlayerType
<1>6. AskedInv
  BY DEF I!Init, AskedInv
<1> QED BY <1>3, <1>4, <1>5, <1>6 DEF IdleTypeInv

\* What does not depend on more than the policy does not change.
LEMMA PolicyRigid ==
  ASSUME policy' = policy, policy \in Policies
  PROVE  /\ I!Time' = I!Time /\ I!Answer' = I!Answer /\ I!Interval' = I!Interval
         /\ 0 \in I!Time /\ I!Time \subseteq Nat
<1>1. I!Horizon' = I!Horizon /\ I!Interval' = I!Interval /\ I!Horizon \in Nat
  BY PolicyKept, PolicyType
<1>2. I!Time' = I!Time /\ 0 \in I!Time /\ I!Time \subseteq Nat
  BY <1>1 DEF I!Time
<1>3. I!Answer' = I!Answer
  BY <1>2 DEF I!Answer
<1> QED BY <1>1, <1>2, <1>3

LEMMA QueryTypes ==
  ASSUME IdleTypeInv, NEW ok \in BOOLEAN, I!QueryEnds(ok)
  PROVE  /\ idle' \in {I!None} \cup I!Time /\ zeros' \in Nat /\ ever' \in BOOLEAN
         /\ status' \in {"SLEEPING", "STARTING", "RUNNING", "IDLE"}
         /\ I!Asked \in I!Time
<1>1. I!Asked \in I!Time
  BY PolicyType DEF IdleTypeInv, AskedInv, I!ControlType, I!QueryEnds, I!Time
<1>2. CASE I!Success
  BY <1>1, <1>2 DEF I!Success, IdleTypeInv, I!ControlType
<1>3. CASE I!Failure
  BY <1>1, <1>3 DEF I!Failure, IdleTypeInv, I!ControlType
<1>4. CASE I!Unpublished
  <2>1. status' \in {"SLEEPING", "STARTING", "RUNNING", "IDLE"}
    <3>1. status' = status \/ status' = "RUNNING" \/ status' = "IDLE"
      BY <1>4 DEF I!Unpublished
    <3> QED BY <3>1 DEF IdleTypeInv, I!ControlType
  <2> QED BY <1>1, <1>4, <2>1 DEF I!Unpublished
<1> QED BY <1>1, <1>2, <1>3, <1>4 DEF I!QueryEnds

LEMMA ControlTypeNext == IdleTypeInv /\ [I!Next]_I!vars => I!ControlType' /\ AskedInv'
<1> SUFFICES ASSUME IdleTypeInv, [I!Next]_I!vars PROVE I!ControlType' /\ AskedInv'
  OBVIOUS
<1>p. policy' = policy /\ policy \in Policies
  BY DEF I!Next, I!vars, IdleTypeInv, I!ControlType
<1>t. /\ I!Time' = I!Time /\ I!Answer' = I!Answer /\ I!Interval' = I!Interval
      /\ 0 \in I!Time /\ I!Time \subseteq Nat /\ I!Interval \in Nat
  BY <1>p, PolicyRigid, PolicyType
<1> USE IdleAssumption, <1>p, <1>t DEF IdleTypeInv, I!ControlType, AskedInv, I!Asked, I!monitor
<1>1. CASE I!StartServer
  <2>1. ever' \in BOOLEAN /\ ready' \in BOOLEAN
    BY <1>1 DEF I!StartServer
  <2>3. answers' \in Seq(I!Answer)
    BY <1>1 DEF I!StartServer
  <2>2. server' \in 0 .. MaxServers /\ source' \in I!Servers
    BY <1>1 DEF I!StartServer, I!Servers
  <2> QED BY <1>1, <2>1, <2>2, <2>3 DEF I!StartServer
<1>2. CASE I!StopBegins
  BY <1>2 DEF I!StopBegins, I!Deactivate
<1>3. CASE I!Stopped
  BY <1>3 DEF I!Stopped
<1>4. CASE I!Ready
  BY <1>4 DEF I!Ready
<1>5. ASSUME NEW p \in Players, I!Join(p) PROVE I!ControlType' /\ AskedInv'
  BY <1>5 DEF I!Join
<1>6. ASSUME NEW p \in Players, I!Leave(p) PROVE I!ControlType' /\ AskedInv'
  BY <1>6 DEF I!Leave
<1>7. ASSUME NEW s \in I!Servers, I!ReadLine(s) PROVE I!ControlType' /\ AskedInv'
  <2>1. ready' \in BOOLEAN
    BY <1>7 DEF I!ReadLine
  <2> QED BY <1>7, <2>1 DEF I!ReadLine
<1>8. ASSUME NEW s \in I!Servers, I!Report(s) PROVE I!ControlType' /\ AskedInv'
  BY <1>8 DEF I!Report
<1>9. ASSUME NEW s \in I!Servers, I!ReportFails(s) PROVE I!ControlType' /\ AskedInv'
  BY <1>9 DEF I!ReportFails
<1>10. CASE I!Pass
  <2>1. status' \in {"SLEEPING", "STARTING", "RUNNING", "IDLE"}
    BY <1>10 DEF I!Pass, I!ShowReady
  <2>2. idleNow' \in I!Time
    BY <1>10, PolicyType DEF I!Pass, I!Tick, I!Time
  <2> QED BY <1>10, <2>1, <2>2 DEF I!Pass
<1>11. CASE I!Query
  <2>1. status' \in {"SLEEPING", "STARTING", "RUNNING", "IDLE"}
    BY <1>11 DEF I!Query, I!ShowReady
  <2> QED BY <1>11, <2>1 DEF I!Query
<1>12. CASE I!QueryLasts
  <2>1. idleNow' \in I!Time /\ idleNow' = idleNow + 1
    BY <1>12, PolicyType DEF I!QueryLasts, I!Tick, I!Time
  <2> QED BY <1>12, <2>1 DEF I!QueryLasts
<1>13. ASSUME NEW ok \in BOOLEAN, I!QueryEnds(ok) PROVE I!ControlType' /\ AskedInv'
  <2>1. answers' \in Seq(I!Answer)
    <3>1. PICK a : /\ answers' = Append(answers, a)
                   /\ \E empty \in BOOLEAN : a = [at |-> I!Asked, ok |-> ok, empty |-> empty]
      BY <1>13 DEF I!QueryEnds, I!Notes
    <3>2. a \in I!Answer
      BY <1>13, <3>1, QueryTypes DEF I!Answer
    <3> QED BY <3>1, <3>2
  <2>2. source' \in {I!None} \cup I!Servers
    BY <1>13 DEF I!QueryEnds, I!Deactivate
  <2> QED BY <1>13, <2>1, <2>2, QueryTypes DEF I!QueryEnds
<1>14. CASE UNCHANGED I!vars
  BY <1>14 DEF I!vars
<1> QED
  BY <1>1, <1>2, <1>3, <1>4, <1>5, <1>6, <1>7, <1>8, <1>9, <1>10, <1>11, <1>12, <1>13, <1>14 DEF I!Next

\* What reading a line changes in what has been read.
LEMMA Reading ==
  ASSUME IdleTypeInv, NEW s \in I!Servers, I!ReadLine(s)
  PROVE  \/ UNCHANGED <<seen, report>>
         \/ \E new \in SUBSET Players :
              /\ seen' = [seen EXCEPT ![s] = new] /\ report' = [report EXCEPT ![s] = Cardinality(new)]
              /\ Cardinality(new) \in I!Counts
<1>1. CASE Head(output[s]) = <<"ready">>
  BY <1>1 DEF I!ReadLine
<1>2. CASE Head(output[s]) # <<"ready">>
  <2> DEFINE line == Head(output[s])
             new  == IF line[1] = "join" THEN seen[s] \cup {line[2]} ELSE seen[s] \ {line[2]}
  <2>1. line[2] \in Players
    BY <1>2 DEF I!ReadLine, I!Lines, IdleTypeInv, I!LogType
  <2>2. new \in SUBSET Players
    BY <2>1 DEF IdleTypeInv, I!LogType
  <2>3. seen' = [seen EXCEPT ![s] = new] /\ report' = [report EXCEPT ![s] = Cardinality(seen'[s])]
    BY <1>2, SameCardinality DEF I!ReadLine
  <2> HIDE DEF new
  <2>4. seen'[s] = new
    BY <2>3 DEF IdleTypeInv, I!LogType
  <2> QED BY <2>2, <2>3, <2>4, Counted
<1> QED BY <1>1, <1>2

LEMMA LogTypeNext == IdleTypeInv /\ [I!Next]_I!vars => I!LogType' /\ ReportInv' /\ I!PlayerType'
<1> SUFFICES ASSUME IdleTypeInv, [I!Next]_I!vars PROVE I!LogType' /\ ReportInv' /\ I!PlayerType'
  OBVIOUS
<1>p. policy' = policy /\ policy \in Policies
  BY DEF I!Next, I!vars, IdleTypeInv, I!ControlType
<1>t. I!Time' = I!Time
  BY <1>p, PolicyRigid, PolicyType
<1>c. 0 \in I!Counts
  BY Counted, FS_EmptySet
<1> USE IdleAssumption, <1>t, <1>c DEF I!log
<1>u. ASSUME UNCHANGED <<I!log, count, shown>> PROVE I!LogType' /\ ReportInv'
  BY <1>u DEF IdleTypeInv, I!LogType, ReportInv
<1>o. ASSUME UNCHANGED <<online, since>> PROVE I!PlayerType'
  BY <1>o DEF IdleTypeInv, I!PlayerType
<1>w. ASSUME NEW line \in I!Lines, I!Writes(line), server \in I!Servers,
             UNCHANGED <<count, shown, seen, report, reader>>
      PROVE  I!LogType' /\ ReportInv'
  BY <1>w DEF I!Writes, IdleTypeInv, I!LogType, ReportInv
<1>s. I!Alive => server \in I!Servers
  BY DEF I!Alive, I!Watched, IdleTypeInv, AskedInv, I!ControlType, I!Servers
<1>1. CASE I!StartServer
  <2>1. server' \in I!Servers
    BY <1>1 DEF I!StartServer, IdleTypeInv, I!ControlType, I!Servers
  <2> QED BY <1>1, <1>o, <2>1 DEF I!StartServer, IdleTypeInv, I!LogType, ReportInv
<1>2. CASE I!StopBegins
  BY <1>2, <1>o DEF I!StopBegins, I!Deactivate, IdleTypeInv, I!LogType, ReportInv
<1>3. CASE I!Stopped
  BY <1>3 DEF I!Stopped, IdleTypeInv, I!LogType, ReportInv, I!PlayerType
<1>4. CASE I!Ready
  BY <1>4, <1>o, <1>s, <1>w DEF I!Ready, I!Lines, I!Alive
<1>5. ASSUME NEW p \in Players, I!Join(p) PROVE I!LogType' /\ ReportInv' /\ I!PlayerType'
  <2>1. <<"join", p>> \in I!Lines
    BY DEF I!Lines
  <2>2. I!PlayerType'
    BY <1>5 DEF I!Join, IdleTypeInv, I!PlayerType, I!ControlType
  <2> QED BY <1>5, <1>s, <1>w, <2>1, <2>2 DEF I!Join, I!Alive
<1>6. ASSUME NEW p \in Players, I!Leave(p) PROVE I!LogType' /\ ReportInv' /\ I!PlayerType'
  <2>1. <<"leave", p>> \in I!Lines
    BY DEF I!Lines
  <2>2. I!PlayerType'
    BY <1>6 DEF I!Leave, IdleTypeInv, I!PlayerType
  <2> QED BY <1>6, <1>s, <1>w, <2>1, <2>2 DEF I!Leave
<1>7. ASSUME NEW s \in I!Servers, I!ReadLine(s) PROVE I!LogType' /\ ReportInv' /\ I!PlayerType'
  <2>1. I!PlayerType'
    BY <1>7, <1>o DEF I!ReadLine
  <2>2. output' \in [I!Servers -> Seq(I!Lines)] /\ \A t \in I!Servers : Len(output'[t]) <= MaxLines
    BY <1>7 DEF I!ReadLine, IdleTypeInv, I!LogType
  <2>3. CASE UNCHANGED <<seen, report>>
    BY <1>7, <2>1, <2>2, <2>3 DEF I!ReadLine, IdleTypeInv, I!LogType, ReportInv
  <2>4. ASSUME NEW new \in SUBSET Players, seen' = [seen EXCEPT ![s] = new],
               report' = [report EXCEPT ![s] = Cardinality(new)], Cardinality(new) \in I!Counts
        PROVE  I!LogType' /\ ReportInv'
    BY <1>7, <2>2, <2>4 DEF I!ReadLine, IdleTypeInv, I!LogType, ReportInv
  <2> QED BY <1>7, <2>1, <2>3, <2>4, Reading
<1>8. ASSUME NEW s \in I!Servers, I!Report(s) PROVE I!LogType' /\ ReportInv' /\ I!PlayerType'
  BY <1>8, <1>o DEF I!Report, I!Counted, IdleTypeInv, I!LogType, ReportInv
<1>9. ASSUME NEW s \in I!Servers, I!ReportFails(s) PROVE I!LogType' /\ ReportInv' /\ I!PlayerType'
  BY <1>9, <1>o DEF I!ReportFails, I!Counted, IdleTypeInv, I!LogType, ReportInv
<1>10. CASE I!Pass \/ I!Query \/ I!QueryLasts
  BY <1>10, <1>u, <1>o DEF I!Pass, I!Query, I!QueryLasts
<1>13. ASSUME NEW ok \in BOOLEAN, I!QueryEnds(ok) PROVE I!LogType' /\ ReportInv' /\ I!PlayerType'
  BY <1>13, <1>o DEF I!QueryEnds, I!Deactivate, IdleTypeInv, I!LogType, ReportInv
<1>14. CASE UNCHANGED I!vars
  BY <1>14, <1>u, <1>o DEF I!vars
<1> QED
  BY <1>1, <1>2, <1>3, <1>4, <1>5, <1>6, <1>7, <1>8, <1>9, <1>10, <1>13, <1>14 DEF I!Next

LEMMA IdleTypes == I!Spec => []IdleTypeInv
<1>1. IdleTypeInv /\ [I!Next]_I!vars => IdleTypeInv'
  BY ControlTypeNext, LogTypeNext DEF IdleTypeInv
<1> QED BY IdleTypeInit, <1>1, PTL DEF I!Spec

\* LogCountCurrent alone is not inductive: a server that is started must find
\* nothing that was read before, and the source must be gone before the stop.
SourceInv ==
  /\ LogCountCurrent
  /\ I!Watched <=> source # I!None
  /\ \A s \in I!Servers : s > server => seen[s] = {} /\ report[s] = I!None /\ output[s] = <<>> /\ ~reader[s]

LEMMA SourceInit == I!Init => SourceInv
BY IdleAssumption DEF I!Init, SourceInv, LogCountCurrent, I!LogCountCurrent, I!Watched, I!Servers, I!None

LEMMA SourceNext == IdleTypeInv /\ SourceInv /\ [I!Next]_I!vars => SourceInv'
<1> SUFFICES ASSUME IdleTypeInv, SourceInv, [I!Next]_I!vars PROVE SourceInv'
  OBVIOUS
<1> USE IdleAssumption DEF SourceInv, LogCountCurrent, I!LogCountCurrent, I!Watched, I!log, I!monitor
<1>t. /\ server \in 0 .. MaxServers /\ source \in {I!None} \cup I!Servers /\ I!None \notin I!Servers
      /\ seen \in [I!Servers -> SUBSET Players] /\ report \in [I!Servers -> {I!None} \cup I!Counts]
      /\ output \in [I!Servers -> Seq(I!Lines)] /\ reader \in [I!Servers -> BOOLEAN] /\ I!None \notin I!Counts
  BY DEF IdleTypeInv, I!ControlType, I!LogType, I!None, I!Servers, I!Counts
<1>1. CASE I!StartServer
  <2>1. server' = server + 1 /\ server' \in I!Servers /\ server' > server
    BY <1>1, <1>t DEF I!StartServer, I!Servers
  <2>2. I!Cardinality({}) = 0
    BY FS_EmptySet, SameCardinality
  <2>3. \A s \in I!Servers : s > server =>
           seen[s] = {} /\ report[s] = I!None /\ output[s] = <<>> /\ ~reader[s]
    OBVIOUS
  <2>4. seen[server'] = {}
    BY ONLY <2>1, <2>3
  <2>5. \A s \in I!Servers : s \in Int
    BY ONLY <1>t DEF I!Servers
  <2>6. \A s \in I!Servers : s > server' => s > server
    BY ONLY <2>1, <2>5, <1>t
  <2> QED BY <1>1, <1>t, <2>1, <2>2, <2>4, <2>6 DEF I!StartServer
<1>2. CASE I!StopBegins
  BY <1>2, <1>t DEF I!StopBegins, I!Deactivate
<1>3. CASE I!Stopped
  BY <1>3, <1>t DEF I!Stopped
<1>w. ASSUME NEW line, I!Writes(line), server \in I!Servers,
             UNCHANGED <<pc, server, source, count, shown, seen, report, reader>>
      PROVE  SourceInv'
  BY <1>w, <1>t DEF I!Writes, I!Servers
<1>4. CASE I!Ready
  BY <1>4, <1>w, <1>t DEF I!Ready, I!Servers, I!Watched
<1>5. ASSUME NEW p \in Players, I!Join(p) PROVE SourceInv'
  BY <1>5, <1>w, <1>t DEF I!Join, I!Servers, I!Watched
<1>6. ASSUME NEW p \in Players, I!Leave(p) PROVE SourceInv'
  <2>1. server \in I!Servers
    BY <1>6 DEF I!Leave, I!Alive, I!Watched, IdleTypeInv, AskedInv, I!ControlType, I!Servers
  <2> QED BY <1>6, <1>w, <2>1 DEF I!Leave
<1>7. ASSUME NEW s \in I!Servers, I!ReadLine(s) PROVE SourceInv'
  <2>1. ~(s > server)
    BY <1>7, <1>t DEF I!ReadLine
  <2>2. CASE UNCHANGED <<seen, report>>
    BY <1>7, <1>t, <2>1, <2>2 DEF I!ReadLine
  <2>3. ASSUME NEW new \in SUBSET Players, seen' = [seen EXCEPT ![s] = new],
               report' = [report EXCEPT ![s] = Cardinality(new)], Cardinality(new) \in I!Counts
        PROVE  SourceInv'
    BY <1>7, <1>t, <2>1, <2>3 DEF I!ReadLine
  <2> QED BY <1>7, <2>2, <2>3, Reading
<1>8. ASSUME NEW s \in I!Servers, I!Report(s) PROVE SourceInv'
  <2>1. report[s] = I!Cardinality(seen[s]) /\ ~(s > server)
    BY <1>8, SameCardinality DEF I!Report, IdleTypeInv, ReportInv
  <2> QED BY <1>8, <1>t, <2>1 DEF I!Report, I!Counted
<1>9. ASSUME NEW s \in I!Servers, I!ReportFails(s) PROVE SourceInv'
  <2>1. report[s] = I!Cardinality(seen[s]) /\ ~(s > server)
    BY <1>9, SameCardinality DEF I!ReportFails, IdleTypeInv, ReportInv
  <2> QED BY <1>9, <1>t, <2>1 DEF I!ReportFails, I!Counted
<1>10. CASE I!Pass \/ I!Query \/ I!QueryLasts
  BY <1>10 DEF I!Pass, I!Query, I!QueryLasts
<1>13. ASSUME NEW ok \in BOOLEAN, I!QueryEnds(ok) PROVE SourceInv'
  BY <1>13, <1>t DEF I!QueryEnds, I!Deactivate
<1>14. CASE UNCHANGED I!vars
  BY <1>14 DEF I!vars
<1> QED
  BY <1>1, <1>2, <1>3, <1>4, <1>5, <1>6, <1>7, <1>8, <1>9, <1>10, <1>13, <1>14 DEF I!Next

\* The log count is that of the present server, whatever readers of old ones
\* still report (supervisor.py:193-204).
THEOREM LogCountIsCurrent == I!Spec => []LogCountCurrent
<1>1. I!Spec => []SourceInv
  BY IdleTypes, SourceInit, SourceNext, PTL DEF I!Spec
<1> QED BY <1>1, PTL DEF SourceInv

-----------------------------------------------------------------------------
(* Players and the log *)

About(line, p) == line = <<"join", p>> \/ line = <<"leave", p>>
Silent(out, p, from) == \A i \in from .. Len(out) : ~About(out[i], p)

\* The lines that are not read yet, after the players known from those that
\* are, say who is in: whoever the last line about it says is, or, if there is
\* none, who is known.
Shows(out, known, in, p) ==
  /\ Silent(out, p, 1) => (p \in in <=> p \in known)
  /\ \A i \in 1 .. Len(out) :
       About(out[i], p) /\ Silent(out, p, i + 1) => (p \in in <=> out[i] = <<"join", p>>)

LEMMA ShowsAfterOther ==
  ASSUME NEW out \in Seq(I!Lines), NEW line \in I!Lines, NEW known, NEW in, NEW p \in Players,
         Shows(out, known, in, p), ~About(line, p)
  PROVE  Shows(Append(out, line), known, in, p)
<1> DEFINE new == Append(out, line)
<1>1. Len(new) = Len(out) + 1 /\ new[Len(out) + 1] = line /\ \A i \in 1 .. Len(out) : new[i] = out[i]
  OBVIOUS
<1>2. Len(out) \in Nat
  OBVIOUS
<1> HIDE DEF new
<1>3. \A k \in 1 .. Len(out) + 1 : Silent(new, p, k) => Silent(out, p, k)
  BY <1>1, <1>2 DEF Silent
<1>4. Silent(new, p, 1) => Silent(out, p, 1)
  BY <1>2, <1>3
<1>5. ASSUME NEW i \in 1 .. Len(new), About(new[i], p), Silent(new, p, i + 1)
      PROVE  p \in in <=> new[i] = <<"join", p>>
  <2>1. i # Len(out) + 1
    BY <1>1, <1>5
  <2>2. i \in 1 .. Len(out) /\ i + 1 \in 1 .. Len(out) + 1 /\ new[i] = out[i]
    BY <1>1, <1>2, <2>1
  <2>3. Silent(out, p, i + 1)
    BY <1>3, <1>5, <2>2
  <2> QED BY <1>5, <2>2, <2>3 DEF Shows
<1>6. Shows(new, known, in, p)
  BY <1>4, <1>5 DEF Shows
<1> QED BY <1>6 DEF new

LEMMA ShowsAfterOwn ==
  ASSUME NEW out \in Seq(I!Lines), NEW line \in I!Lines, NEW known, NEW in, NEW p \in Players,
         About(line, p), p \in in <=> line = <<"join", p>>
  PROVE  Shows(Append(out, line), known, in, p)
<1> DEFINE new == Append(out, line)
<1>1. Len(new) = Len(out) + 1 /\ new[Len(out) + 1] = line
  OBVIOUS
<1>2. Len(out) \in Nat
  OBVIOUS
<1> HIDE DEF new
<1>3. \A k \in 1 .. Len(out) + 1 : ~Silent(new, p, k)
  BY <1>1, <1>2 DEF Silent
<1>4. ~Silent(new, p, 1)
  BY <1>2, <1>3
<1>5. ASSUME NEW i \in 1 .. Len(new), About(new[i], p), Silent(new, p, i + 1)
      PROVE  p \in in <=> new[i] = <<"join", p>>
  <2>1. i = Len(out) + 1
    <3>1. i \notin 1 .. Len(out) \/ i + 1 \in 1 .. Len(out) + 1
      BY <1>2
    <3> QED BY <1>1, <1>2, <1>3, <1>5, <3>1
  <2> QED BY <1>1, <2>1
<1>6. Shows(new, known, in, p)
  BY <1>4, <1>5 DEF Shows
<1> QED BY <1>6 DEF new

LEMMA ShowsAfterRead ==
  ASSUME NEW out \in Seq(I!Lines), out # <<>>, NEW known, NEW now_known, NEW in, NEW p \in Players,
         Shows(out, known, in, p),
         About(Head(out), p) => (p \in now_known <=> Head(out) = <<"join", p>>),
         ~About(Head(out), p) => (p \in now_known <=> p \in known)
  PROVE  Shows(Tail(out), now_known, in, p)
<1> DEFINE new == Tail(out)
<1>1. Len(out) \in Nat /\ Len(out) >= 1 /\ Len(new) = Len(out) - 1 /\ \A i \in 1 .. Len(new) : new[i] = out[i + 1]
  OBVIOUS
<1>2. Head(out) = out[1]
  OBVIOUS
<1> HIDE DEF new
<1>3. \A k \in 1 .. Len(out) : Silent(new, p, k) => Silent(out, p, k + 1)
  <2> SUFFICES ASSUME NEW k \in 1 .. Len(out), Silent(new, p, k), NEW i \in k + 1 .. Len(out)
               PROVE  ~About(out[i], p)
    BY DEF Silent
  <2>1. i - 1 \in k .. Len(new) /\ i - 1 \in 1 .. Len(new) /\ i - 1 + 1 = i
    BY <1>1
  <2> QED BY <1>1, <2>1 DEF Silent
<1>4. ASSUME Silent(new, p, 1) PROVE p \in in <=> p \in now_known
  <2>1. Silent(out, p, 2)
    BY <1>1, <1>3, <1>4
  <2>2. CASE About(out[1], p)
    BY <1>1, <1>2, <2>1, <2>2 DEF Shows
  <2>3. CASE ~About(out[1], p)
    BY <1>1, <1>2, <2>1, <2>3 DEF Shows, Silent
  <2> QED BY <2>2, <2>3
<1>5. ASSUME NEW i \in 1 .. Len(new), About(new[i], p), Silent(new, p, i + 1)
      PROVE  p \in in <=> new[i] = <<"join", p>>
  <2>1. i + 1 \in 1 .. Len(out) /\ About(out[i + 1], p) /\ Silent(out, p, (i + 1) + 1)
    BY <1>1, <1>3, <1>5
  <2> QED BY <1>1, <2>1 DEF Shows
<1> QED BY <1>4, <1>5 DEF Shows, new

\* What the server's output says and its reader knows make up who plays.
SyncInv ==
  /\ I!Alive => \A p \in Players : Shows(output[server], seen[server], online, p)
  /\ pc \in {"off", "asleep"} => online = {}
  /\ \A p \in Players : since[p] <= idleNow

LEMMA ServerType ==
  ASSUME IdleTypeInv, I!Alive
  PROVE  /\ server \in I!Servers /\ output[server] \in Seq(I!Lines) /\ seen[server] \subseteq Players
         /\ report[server] \in {I!None} \cup I!Counts /\ reader[server] \in BOOLEAN
<1>1. server \in I!Servers
  BY IdleAssumption DEF I!Alive, I!Watched, IdleTypeInv, AskedInv, I!ControlType, I!Servers
<1> QED BY <1>1 DEF IdleTypeInv, I!LogType

LEMMA SyncInit == I!Init => SyncInv
BY DEF I!Init, SyncInv, I!Alive, I!Watched

LEMMA AboutWhom ==
  ASSUME NEW p \in Players, NEW q \in Players
  PROVE  /\ ~About(<<"ready">>, p)
         /\ About(<<"join", q>>, p) <=> p = q
         /\ About(<<"leave", q>>, p) <=> p = q
         /\ <<"join", q>> # <<"leave", p>> /\ <<"leave", q>> # <<"join", p>>
<1>1. Len(<<"ready">>) = 1 /\ Len(<<"join", p>>) = 2 /\ Len(<<"leave", p>>) = 2
  OBVIOUS
<1>2. ~About(<<"ready">>, p)
  BY <1>1 DEF About
<1>3. <<"join", q>> # <<"leave", p>> /\ <<"leave", q>> # <<"join", p>>
  OBVIOUS
<1> QED BY <1>2, <1>3 DEF About

\* A line of a player changes who plays as it says.
LEMMA ShowsAfterWriting ==
  ASSUME IdleTypeInv, SyncInv, I!Alive, server' = server, seen' = seen,
         NEW line \in I!Lines, I!Writes(line),
         \A p \in Players : IF About(line, p) THEN p \in online' <=> line = <<"join", p>>
                                              ELSE p \in online' <=> p \in online
  PROVE  \A p \in Players : Shows(output'[server'], seen'[server'], online', p)
<1> SUFFICES ASSUME NEW p \in Players PROVE Shows(output'[server], seen[server], online', p)
  OBVIOUS
<1>1. output[server] \in Seq(I!Lines) /\ output'[server] = Append(output[server], line)
  BY ServerType DEF I!Writes, IdleTypeInv, I!LogType
<1>2. Shows(output[server], seen[server], online, p)
  BY DEF SyncInv
<1>3. CASE About(line, p)
  BY <1>1, <1>3, ShowsAfterOwn
<1>4. CASE ~About(line, p)
  <2>1. Shows(output[server], seen[server], online', p)
    BY <1>2, <1>4 DEF Shows
  <2> QED BY <1>1, <1>4, <2>1, ShowsAfterOther
<1> QED BY <1>3, <1>4

LEMMA ShowsAfterReading ==
  ASSUME IdleTypeInv, SyncInv, I!Alive, I!ReadLine(server)
  PROVE  \A p \in Players : Shows(output'[server'], seen'[server'], online', p)
<1> SUFFICES ASSUME NEW p \in Players PROVE Shows(output'[server], seen'[server], online, p)
  BY DEF I!ReadLine, I!monitor
<1> DEFINE line == Head(output[server])
<1>1. /\ output[server] \in Seq(I!Lines) /\ output[server] # <<>> /\ line \in I!Lines
      /\ output'[server] = Tail(output[server]) /\ server \in I!Servers
      /\ seen \in [I!Servers -> SUBSET Players]
  BY ServerType DEF I!ReadLine, IdleTypeInv, I!LogType
<1>2. Shows(output[server], seen[server], online, p)
  BY DEF SyncInv
<1>3. ASSUME About(line, p) => (p \in seen'[server] <=> line = <<"join", p>>),
             ~About(line, p) => (p \in seen'[server] <=> p \in seen[server])
      PROVE  Shows(output'[server], seen'[server], online, p)
  BY <1>1, <1>2, <1>3, ShowsAfterRead
<1>4. CASE line = <<"ready">>
  <2>1. seen' = seen /\ ~About(line, p)
    BY <1>4, AboutWhom DEF I!ReadLine
  <2> QED BY <1>3, <2>1
<1>5. ASSUME NEW q \in Players, line = <<"join", q>>
      PROVE  Shows(output'[server], seen'[server], online, p)
  <2>1. line # <<"ready">> /\ line[1] = "join" /\ line[2] = q
    BY <1>5
  <2>2. seen'[server] = seen[server] \cup {q}
    BY <1>1, <2>1 DEF I!ReadLine
  <2> HIDE DEF line
  <2>3. About(line, p) <=> p = q
    BY <1>5, AboutWhom
  <2> QED BY <1>3, <1>5, <2>2, <2>3
<1>6. ASSUME NEW q \in Players, line = <<"leave", q>>
      PROVE  Shows(output'[server], seen'[server], online, p)
  <2>1. line # <<"ready">> /\ line[1] # "join" /\ line[2] = q
    BY <1>6
  <2>2. seen'[server] = seen[server] \ {q}
    BY <1>1, <2>1 DEF I!ReadLine
  <2> HIDE DEF line
  <2>3. (About(line, p) <=> p = q) /\ line # <<"join", p>>
    BY <1>6, AboutWhom
  <2> QED BY <1>3, <2>2, <2>3
<1> QED BY <1>1, <1>4, <1>5, <1>6 DEF I!Lines

LEMMA SyncNext == IdleTypeInv /\ SourceInv /\ SyncInv /\ [I!Next]_I!vars => SyncInv'
<1> SUFFICES ASSUME IdleTypeInv, SourceInv, SyncInv, [I!Next]_I!vars PROVE SyncInv'
  OBVIOUS
<1>n. idleNow \in Int /\ since \in [Players -> Int]
  <2>1. I!Time \subseteq Int
    BY DEF I!Time
  <2> QED BY <2>1 DEF IdleTypeInv, I!ControlType, I!PlayerType
<1>k. ASSUME UNCHANGED <<pc, server, online, since>>, UNCHANGED output[server], UNCHANGED seen[server],
             idleNow' \in Int, idleNow <= idleNow'
      PROVE  SyncInv'
  BY <1>k, <1>n DEF SyncInv, I!Alive, I!Watched
<1>c. ASSUME UNCHANGED <<server, online, since, output, seen, idleNow>>, I!Alive' => I!Alive,
             pc' \notin {"off", "asleep"}
      PROVE  SyncInv'
  BY <1>c DEF SyncInv
<1>w. ASSUME I!Alive, UNCHANGED <<pc, server, seen, idleNow>>, online' \subseteq Players,
             since' = since \/ \E p \in Players : since' = [since EXCEPT ![p] = idleNow],
             NEW line \in I!Lines, I!Writes(line),
             \A p \in Players : IF About(line, p) THEN p \in online' <=> line = <<"join", p>>
                                                  ELSE p \in online' <=> p \in online
      PROVE  SyncInv'
  <2>1. \A p \in Players : Shows(output'[server'], seen'[server'], online', p)
    BY <1>w, ShowsAfterWriting
  <2>2. \A p \in Players : since'[p] <= idleNow'
    BY <1>w, <1>n DEF SyncInv
  <2>3. pc' \notin {"off", "asleep"}
    BY <1>w DEF I!Alive, I!Watched
  <2> QED BY <2>1, <2>2, <2>3 DEF SyncInv
<1> USE DEF I!log, I!monitor
<1>1. CASE I!StartServer
  <2>1. output'[server'] = <<>> /\ seen'[server'] = {} /\ online' = {}
    BY <1>1, IdleAssumption DEF I!StartServer, SyncInv, SourceInv, IdleTypeInv, I!ControlType, I!Servers
  <2>2. \A p : Shows(<<>>, {}, {}, p)
    BY DEF Shows
  <2> QED BY <1>1, <2>1, <2>2, <1>n DEF SyncInv, I!StartServer
<1>2. CASE I!StopBegins
  BY <1>2, <1>c DEF I!StopBegins, I!Alive, I!Watched
<1>3. CASE I!Stopped
  BY <1>3, <1>n DEF I!Stopped, SyncInv, I!Alive, I!Watched
<1>4. CASE I!Ready
  <2>1. <<"ready">> \in I!Lines /\ \A p \in Players : ~About(<<"ready">>, p)
    BY AboutWhom DEF I!Lines
  <2>2. online' \subseteq Players
    BY <1>4 DEF I!Ready, IdleTypeInv, I!PlayerType
  <2> QED BY <1>4, <1>w, <2>1, <2>2 DEF I!Ready, I!Alive
<1>5. ASSUME NEW q \in Players, I!Join(q) PROVE SyncInv'
  <2>1. <<"join", q>> \in I!Lines /\ \A p \in Players : About(<<"join", q>>, p) <=> p = q
    BY AboutWhom DEF I!Lines
  <2>2. online' \subseteq Players
    BY <1>5 DEF I!Join, IdleTypeInv, I!PlayerType
  <2>3. \A p \in Players : IF About(<<"join", q>>, p) THEN p \in online' <=> <<"join", q>> = <<"join", p>>
                                                      ELSE p \in online' <=> p \in online
    BY <1>5, <2>1 DEF I!Join
  <2> QED BY <1>5, <1>w, <2>1, <2>2, <2>3 DEF I!Join, I!Alive
<1>6. ASSUME NEW q \in Players, I!Leave(q) PROVE SyncInv'
  <2>1. <<"leave", q>> \in I!Lines /\ \A p \in Players : /\ About(<<"leave", q>>, p) <=> p = q
                                                         /\ <<"leave", q>> # <<"join", p>>
    BY AboutWhom DEF I!Lines
  <2>2. online' \subseteq Players
    BY <1>6 DEF I!Leave, IdleTypeInv, I!PlayerType
  <2>3. \A p \in Players : IF About(<<"leave", q>>, p) THEN p \in online' <=> <<"leave", q>> = <<"join", p>>
                                                       ELSE p \in online' <=> p \in online
    BY <1>6, <2>1 DEF I!Leave
  <2> QED BY <1>6, <1>w, <2>1, <2>2, <2>3 DEF I!Leave
<1>7. ASSUME NEW s \in I!Servers, I!ReadLine(s) PROVE SyncInv'
  <2>1. CASE s = server /\ I!Alive
    <3>1. \A p \in Players : Shows(output'[server'], seen'[server'], online', p)
      BY <1>7, <2>1, ShowsAfterReading
    <3> QED BY <1>7, <2>1, <3>1 DEF I!ReadLine, SyncInv
  <2>2. CASE s # server /\ I!Alive
    <3>1. UNCHANGED output[server] /\ UNCHANGED seen[server]
      BY <1>7, <2>2, Reading, ServerType DEF I!ReadLine, IdleTypeInv, I!LogType
    <3> QED BY <1>7, <1>k, <1>n, <3>1 DEF I!ReadLine
  <2>3. CASE ~I!Alive
    BY <1>7, <2>3 DEF I!ReadLine, SyncInv, I!Alive, I!Watched
  <2> QED BY <2>1, <2>2, <2>3
<1>8. ASSUME NEW s \in I!Servers, I!Report(s) PROVE SyncInv'
  BY <1>8, <1>k, <1>n DEF I!Report
<1>9. ASSUME NEW s \in I!Servers, I!ReportFails(s) PROVE SyncInv'
  BY <1>9, <1>k, <1>n DEF I!ReportFails
<1>10. CASE I!Pass \/ I!QueryLasts
  BY <1>10, <1>k, <1>n DEF I!Pass, I!QueryLasts, I!Tick
<1>11. CASE I!Query
  BY <1>11, <1>c DEF I!Query, I!Alive, I!Watched
<1>13. ASSUME NEW ok \in BOOLEAN, I!QueryEnds(ok) PROVE SyncInv'
  BY <1>13, <1>c DEF I!QueryEnds, I!Alive, I!Watched
<1>14. CASE UNCHANGED I!vars
  BY <1>14, <1>k, <1>n DEF I!vars
<1> QED
  BY <1>1, <1>2, <1>3, <1>4, <1>5, <1>6, <1>7, <1>8, <1>9, <1>10, <1>11, <1>13, <1>14 DEF I!Next

\* While the reader lives, the log knows who was playing before this second.
KnownInv ==
  I!Watched /\ reader[server] =>
    \A p \in online : since[p] < idleNow =>
      p \in seen[server] /\ Silent(output[server], p, 1) /\ count > 0

\* A second that passes finds everything read and reported.
LEMMA KnownAtTick ==
  ASSUME IdleTypeInv, SourceInv, SyncInv, I!Watched, reader[server], I!Prompt
  PROVE  \A p \in online : p \in seen[server] /\ Silent(output[server], p, 1) /\ count > 0
<1> SUFFICES ASSUME NEW p \in online
             PROVE  p \in seen[server] /\ Silent(output[server], p, 1) /\ count > 0
  OBVIOUS
<1>1. I!Alive /\ p \in Players /\ seen[server] \in SUBSET Players
  BY ServerType DEF I!Alive, IdleTypeInv, I!PlayerType
<1>2. output[server] = <<>> /\ report[server] = I!None /\ source = server
  BY DEF I!Prompt, SourceInv, LogCountCurrent, I!LogCountCurrent
<1>3. Silent(output[server], p, 1)
  BY <1>2 DEF Silent
<1>4. p \in seen[server]
  BY <1>1, <1>3 DEF SyncInv, Shows
<1>5. count = Cardinality(seen[server])
  BY <1>2, SameCardinality DEF SourceInv, LogCountCurrent, I!LogCountCurrent, I!Watched
<1>6. count # 0
  BY <1>1, <1>4, <1>5, Counted
<1>7. count \in Nat
  BY Counted, <1>1, <1>5, FS_CardinalityType, IdleAssumption, SameCardinality DEF I!Counts
<1> QED BY <1>3, <1>4, <1>6, <1>7

\* A line about another player hides nothing.
LEMMA SilentAfterOther ==
  ASSUME NEW out \in Seq(I!Lines), NEW line, NEW p, Silent(out, p, 1), ~About(line, p)
  PROVE  Silent(Append(out, line), p, 1)
BY DEF Silent

LEMMA SilentAfterRead ==
  ASSUME NEW out \in Seq(I!Lines), out # <<>>, NEW p, Silent(out, p, 1)
  PROVE  ~About(Head(out), p) /\ Silent(Tail(out), p, 1)
<1> DEFINE new == Tail(out)
<1>1. Len(out) \in Nat /\ Len(out) >= 1 /\ Len(new) = Len(out) - 1 /\ \A i \in 1 .. Len(new) : new[i] = out[i + 1]
  OBVIOUS
<1>2. Head(out) = out[1]
  OBVIOUS
<1> HIDE DEF new
<1>3. Silent(new, p, 1)
  BY <1>1 DEF Silent
<1> QED BY <1>1, <1>2, <1>3 DEF Silent, new

LEMMA KnownAfterReading ==
  ASSUME IdleTypeInv, I!Watched, I!ReadLine(server), NEW p \in seen[server],
         Silent(output[server], p, 1)
  PROVE  p \in seen'[server] /\ Silent(output'[server], p, 1)
<1> DEFINE line == Head(output[server])
<1>1. /\ output[server] \in Seq(I!Lines) /\ output[server] # <<>> /\ line \in I!Lines
      /\ output'[server] = Tail(output[server]) /\ server \in I!Servers
      /\ seen \in [I!Servers -> SUBSET Players] /\ p \in Players
  BY ServerType DEF I!ReadLine, IdleTypeInv, I!LogType, I!Alive
<1>2. ~About(line, p) /\ Silent(output'[server], p, 1)
  BY <1>1, SilentAfterRead
<1>3. CASE line = <<"ready">>
  BY <1>2, <1>3 DEF I!ReadLine
<1>4. ASSUME NEW q \in Players, NEW k \in {"join", "leave"}, line = <<k, q>>
      PROVE  p \in seen'[server]
  <2>1. line # <<"ready">> /\ line[1] = k /\ line[2] = q
    BY <1>4
  <2>2. seen'[server] = IF k = "join" THEN seen[server] \cup {q} ELSE seen[server] \ {q}
    BY <1>1, <2>1 DEF I!ReadLine
  <2> HIDE DEF line
  <2>3. p # q
    BY <1>1, <1>2, <1>4, AboutWhom
  <2> QED BY <2>2, <2>3
<1> HIDE DEF line
<1> QED BY <1>1, <1>2, <1>3, <1>4 DEF I!Lines

LEMMA KnownNext ==
  IdleTypeInv /\ SourceInv /\ SyncInv /\ KnownInv /\ [I!Next]_I!vars => KnownInv'
<1> SUFFICES ASSUME IdleTypeInv, SourceInv, SyncInv, KnownInv, [I!Next]_I!vars,
                    I!Watched', reader'[server'], NEW p \in online', since'[p] < idleNow'
             PROVE  p \in seen'[server'] /\ Silent(output'[server'], p, 1) /\ count' > 0
  BY DEF KnownInv
<1>k. ASSUME UNCHANGED <<server, online, since, idleNow>>, I!Watched, UNCHANGED reader[server]
      PROVE  p \in seen[server] /\ Silent(output[server], p, 1) /\ count > 0
  BY <1>k DEF KnownInv
<1>w. ASSUME UNCHANGED <<server, seen, count, reader, idleNow>>, I!Watched, p \in online, since'[p] = since[p],
             NEW line \in I!Lines, I!Writes(line), ~About(line, p)
      PROVE  p \in seen'[server'] /\ Silent(output'[server'], p, 1) /\ count' > 0
  <2>1. p \in seen[server] /\ Silent(output[server], p, 1) /\ count > 0
    BY <1>w DEF KnownInv
  <2>2. output[server] \in Seq(I!Lines) /\ output'[server] = Append(output[server], line)
    BY <1>w, ServerType DEF I!Writes, IdleTypeInv, I!LogType, I!Alive
  <2> QED BY <1>w, <2>1, <2>2, SilentAfterOther
<1>s. I!Watched => server \in I!Servers
  BY ServerType DEF I!Alive
<1> USE DEF I!log, I!monitor
<1>1. ~I!StartServer
  BY DEF I!StartServer, SyncInv
<1>2. ~I!StopBegins /\ ~I!Stopped
  BY DEF I!StopBegins, I!Stopped, I!Watched
<1>4. CASE I!Ready
  <2>1. <<"ready">> \in I!Lines /\ ~About(<<"ready">>, p)
    BY <1>4, AboutWhom DEF I!Lines, I!Ready, IdleTypeInv, I!PlayerType
  <2> QED BY <1>4, <1>w, <2>1 DEF I!Ready
<1>5. ASSUME NEW q \in Players, I!Join(q)
      PROVE  p \in seen'[server'] /\ Silent(output'[server'], p, 1) /\ count' > 0
  <2>1. p \in Players /\ idleNow \in Int /\ since \in [Players -> I!Time]
    BY <1>5 DEF I!Join, IdleTypeInv, I!PlayerType, I!ControlType, I!Time
  <2>2. p # q
    BY <1>5, <2>1 DEF I!Join
  <2>3. <<"join", q>> \in I!Lines /\ ~About(<<"join", q>>, p)
    BY <2>1, <2>2, AboutWhom DEF I!Lines
  <2> QED BY <1>5, <1>w, <2>1, <2>2, <2>3 DEF I!Join
<1>6. ASSUME NEW q \in Players, I!Leave(q)
      PROVE  p \in seen'[server'] /\ Silent(output'[server'], p, 1) /\ count' > 0
  <2>1. p \in Players /\ p # q
    BY <1>6 DEF I!Leave, IdleTypeInv, I!PlayerType
  <2>2. <<"leave", q>> \in I!Lines /\ ~About(<<"leave", q>>, p)
    BY <2>1, AboutWhom DEF I!Lines
  <2> QED BY <1>6, <1>w, <2>1, <2>2 DEF I!Leave, I!Watched
<1>7. ASSUME NEW s \in I!Servers, I!ReadLine(s)
      PROVE  p \in seen'[server'] /\ Silent(output'[server'], p, 1) /\ count' > 0
  <2>1. p \in seen[server] /\ Silent(output[server], p, 1) /\ count > 0
    BY <1>7, <1>k DEF I!ReadLine, I!Watched
  <2>2. CASE s = server
    BY <1>7, <2>1, <2>2, KnownAfterReading DEF I!ReadLine, I!Watched
  <2>3. CASE s # server
    <3>1. UNCHANGED output[server] /\ UNCHANGED seen[server]
      BY <1>7, <1>s, <2>3, Reading DEF I!ReadLine, I!Watched, IdleTypeInv, I!LogType
    <3> QED BY <1>7, <2>1, <3>1 DEF I!ReadLine
  <2> QED BY <2>2, <2>3
<1>c. ASSUME NEW s \in I!Servers, report[s] # I!None, s = server, p \in seen[server]
      PROVE  report[s] > 0
  <2>1. seen[s] \in SUBSET Players /\ report[s] = Cardinality(seen[s])
    BY <1>c DEF IdleTypeInv, I!LogType, ReportInv
  <2> QED BY <1>c, <2>1, Counted, FS_CardinalityType, IdleAssumption, SameCardinality DEF I!Counts
<1>8. ASSUME NEW s \in I!Servers, I!Report(s) \/ I!ReportFails(s)
      PROVE  p \in seen'[server'] /\ Silent(output'[server'], p, 1) /\ count' > 0
  <2>0. source = server /\ (reader'[server] => reader[server])
    BY <1>8, <1>s DEF I!Report, I!ReportFails, SourceInv, LogCountCurrent, I!LogCountCurrent, I!Watched,
       IdleTypeInv, I!LogType
  <2>1. p \in seen[server] /\ Silent(output[server], p, 1) /\ count > 0
    BY <1>8, <2>0 DEF KnownInv, I!Report, I!ReportFails, I!Watched
  <2>2. count' > 0
    BY <1>8, <1>c, <2>0, <2>1 DEF I!Report, I!ReportFails, I!Counted
  <2> QED BY <1>8, <2>1, <2>2 DEF I!Report, I!ReportFails
<1>10. CASE I!Pass \/ I!QueryLasts
  BY <1>10, KnownAtTick DEF I!Pass, I!QueryLasts, I!Watched
<1>11. CASE I!Query
  BY <1>11, <1>k DEF I!Query, I!Watched
<1>13. ASSUME NEW ok \in BOOLEAN, I!QueryEnds(ok)
       PROVE  p \in seen'[server'] /\ Silent(output'[server'], p, 1) /\ count' > 0
  BY <1>13, <1>k DEF I!QueryEnds, I!Watched
<1>14. CASE UNCHANGED I!vars
  BY <1>14, <1>k DEF I!vars, I!Watched
<1> QED
  BY <1>1, <1>2, <1>4, <1>5, <1>6, <1>7, <1>8, <1>10, <1>11, <1>13, <1>14 DEF I!Next

\* What monitor_server knows when it decides: whoever still plays came in this
\* second.
LEMMA KeptAtDecision ==
  ASSUME IdleTypeInv, SyncInv, KnownInv, NEW ok \in BOOLEAN, I!QueryEnds(ok), pc' = "sleep"
  PROVE  PlayersKept'
<1>1. /\ idle' # I!None /\ pc = "query" /\ count \in Nat
      /\ UNCHANGED <<server, online, since, idleNow, reader, seen, output>>
  BY Counted, FS_CardinalityType, IdleAssumption, SameCardinality
  DEF I!QueryEnds, I!GoesToSleep, IdleTypeInv, I!LogType, I!Counts, I!log
<1>2. CASE I!Success
  BY <1>1, <1>2 DEF I!Success, PlayersKept, I!PlayersKept
<1>3. CASE I!Failure
  <2>1. count = 0
    BY <1>1, <1>3 DEF I!Failure
  <2>2. \A p \in online : p \in Players /\ since[p] <= idleNow /\ since[p] \in Int /\ idleNow \in Int
    BY DEF SyncInv, IdleTypeInv, I!PlayerType, I!ControlType, I!Time
  <2>3. reader[server] => \A p \in online : ~(since[p] < idleNow)
    BY <1>1, <2>1 DEF KnownInv, I!Watched
  <2> QED BY <1>1, <2>2, <2>3 DEF PlayersKept, I!PlayersKept
<1>4. ~I!Unpublished
  BY <1>1 DEF I!Unpublished
<1> QED BY <1>2, <1>3, <1>4 DEF I!QueryEnds

LEMMA KeptNext ==
  IdleTypeInv /\ SyncInv /\ KnownInv /\ PlayersKept /\ [I!Next]_I!vars => PlayersKept'
<1> SUFFICES ASSUME IdleTypeInv, SyncInv, KnownInv, PlayersKept, [I!Next]_I!vars, pc' = "sleep"
             PROVE  PlayersKept'
  BY DEF PlayersKept, I!PlayersKept
<1> USE DEF I!log, I!monitor, PlayersKept, I!PlayersKept
<1>k. ASSUME UNCHANGED <<pc, server, since, idleNow>>, online' \subseteq online,
             reader'[server] => reader[server]
      PROVE  PlayersKept'
  BY <1>k
<1>1. ~I!StartServer /\ ~I!StopBegins /\ ~I!Stopped /\ ~I!Pass /\ ~I!Query /\ ~I!QueryLasts
  BY DEF I!StartServer, I!StopBegins, I!Stopped, I!Pass, I!Query, I!QueryLasts
<1>2. CASE I!Ready \/ \E p \in Players : I!Join(p)
  BY <1>2 DEF I!Ready, I!Join, I!Watched
<1>3. ASSUME NEW q \in Players, I!Leave(q) PROVE PlayersKept'
  BY <1>3, <1>k DEF I!Leave
<1>4. ASSUME NEW s \in I!Servers, I!ReadLine(s) \/ I!Report(s) PROVE PlayersKept'
  BY <1>4, <1>k DEF I!ReadLine, I!Report
<1>5. ASSUME NEW s \in I!Servers, I!ReportFails(s) PROVE PlayersKept'
  <2>1. pc = "sleep" /\ server \in I!Servers /\ reader \in [I!Servers -> BOOLEAN]
    BY <1>5, ServerType DEF I!ReportFails, I!Alive, IdleTypeInv, I!LogType
  <2> QED BY <1>5, <1>k, <2>1 DEF I!ReportFails
<1>6. ASSUME NEW ok \in BOOLEAN, I!QueryEnds(ok) PROVE PlayersKept'
  BY <1>6, KeptAtDecision
<1>7. CASE UNCHANGED I!vars
  BY <1>7, <1>k DEF I!vars
<1> QED
  BY <1>1, <1>2, <1>3, <1>4, <1>5, <1>6, <1>7 DEF I!Next

\* Neither an answer nor, without any, the log puts a server to sleep that
\* somebody plays on who was there before the present second.
THEOREM NobodyIsSentAway == I!Spec => []PlayersKept
<1>1. I!Init => KnownInv /\ PlayersKept
  BY DEF I!Init, KnownInv, I!Watched, PlayersKept, I!PlayersKept
<1>2. I!Spec => [](IdleTypeInv /\ SourceInv)
  BY IdleTypes, SourceInit, SourceNext, PTL DEF I!Spec
<1>3. IdleTypeInv /\ SourceInv /\ SyncInv /\ KnownInv /\ PlayersKept /\ [I!Next]_I!vars
        => SyncInv' /\ KnownInv' /\ PlayersKept'
  BY SyncNext, KnownNext, KeptNext
<1> QED BY <1>1, <1>2, <1>3, SyncInit, PTL DEF I!Spec

-----------------------------------------------------------------------------
(* The answers and what monitor_server keeps of them *)

\* What the counters say of the answers of the present server.
SeriesInv ==
  LET n == Len(answers)
      Good(j) == answers[j].ok /\ answers[j].empty IN
  /\ ever <=> \E j \in 1 .. n : answers[j].ok
  /\ zeros <= n /\ \A j \in n - zeros + 1 .. n : Good(j)
  /\ zeros < n => ~Good(n - zeros)

\* They are asked one after the other.
TimesInv ==
  /\ \A j \in 1 .. Len(answers) :
       answers[j].at <= idleNow /\ (pc = "query" => answers[j].at <= I!Asked)
  /\ \A i, j \in 1 .. Len(answers) : i <= j => answers[i].at <= answers[j].at

\* The timer runs from the first answer of the quiet that lasts.
TimerInv ==
  /\ idle = I!None /\ answers # <<>> => ~I!Quiet(Len(answers))
  /\ idle # I!None => \E i \in 1 .. Len(answers) :
       I!QuietFrom(i) /\ idle = answers[i].at /\ (i = 1 \/ ~I!Quiet(i - 1))

LEMMA AnswersType ==
  IdleTypeInv =>
    /\ Len(answers) \in Nat /\ started \in Nat /\ idleNow \in Nat /\ zeros \in Nat
    /\ idle \in {I!None} \cup Nat
    /\ \A j \in 1 .. Len(answers) :
         answers[j].at \in Nat /\ answers[j].ok \in BOOLEAN /\ answers[j].empty \in BOOLEAN
<1> SUFFICES ASSUME IdleTypeInv
             PROVE  /\ Len(answers) \in Nat /\ started \in Nat /\ idleNow \in Nat /\ zeros \in Nat
                    /\ idle \in {I!None} \cup Nat
                    /\ \A j \in 1 .. Len(answers) :
                         /\ answers[j].at \in Nat
                         /\ answers[j].ok \in BOOLEAN /\ answers[j].empty \in BOOLEAN
  OBVIOUS
<1>1. I!Time \subseteq Nat /\ answers \in Seq(I!Answer)
  BY DEF I!Time, IdleTypeInv, I!ControlType
<1>2. \A j \in 1 .. Len(answers) : answers[j] \in I!Answer
  BY <1>1
<1>3. Len(answers) \in Nat
  BY <1>1
<1> QED BY <1>1, <1>2, <1>3 DEF I!Answer, IdleTypeInv, I!ControlType

\* The decision of monitor_server is the one its whole series of answers
\* justifies: what counters and timer lost of it does not matter.
LEMMA Decision ==
  IdleTypeInv /\ SeriesInv /\ TimesInv /\ TimerInv /\ answers # <<>> =>
    ( I!Justified <=>
        /\ I!AutoSleep /\ idle # I!None
        /\ answers[Len(answers)].at - started >= I!MinUptime
        /\ answers[Len(answers)].at - idle >= I!IdleTimeout
        /\ zeros >= I!MinZeros \/ (I!LogOnly /\ ~ever) )
<1> SUFFICES ASSUME IdleTypeInv, SeriesInv, TimesInv, TimerInv, answers # <<>>
             PROVE  I!Justified <=>
                      /\ I!AutoSleep /\ idle # I!None
                      /\ answers[Len(answers)].at - started >= I!MinUptime
                      /\ answers[Len(answers)].at - idle >= I!IdleTimeout
                      /\ zeros >= I!MinZeros \/ (I!LogOnly /\ ~ever)
  OBVIOUS
<1> DEFINE n == Len(answers)
           Good(j) == answers[j].ok /\ answers[j].empty
<1>t. /\ n \in Nat \ {0} /\ zeros \in Nat /\ I!IdleTimeout \in Nat /\ I!MinZeros \in Nat
      /\ \A j \in 1 .. n : answers[j].at \in Nat
      /\ idle \in {I!None} \cup Nat
  <2>1. n # 0
    BY DEF IdleTypeInv, I!ControlType
  <2> QED BY <2>1, AnswersType, PolicyType DEF IdleTypeInv, I!ControlType
<1>1. zeros >= I!MinZeros <=> n >= I!MinZeros /\ \A j \in n - I!MinZeros + 1 .. n : Good(j)
  <2>1. zeros <= n /\ (\A j \in n - zeros + 1 .. n : Good(j)) /\ (zeros < n => ~Good(n - zeros))
    BY DEF SeriesInv
  <2> HIDE DEF n, Good
  <2>2. ASSUME zeros >= I!MinZeros
        PROVE  n >= I!MinZeros /\ \A j \in n - I!MinZeros + 1 .. n : Good(j)
    BY <1>t, <2>1, <2>2
  <2>3. ASSUME n >= I!MinZeros, \A j \in n - I!MinZeros + 1 .. n : Good(j), ~(zeros >= I!MinZeros)
        PROVE  FALSE
    <3>1. n - zeros \in n - I!MinZeros + 1 .. n /\ zeros < n
      BY <1>t, <2>3
    <3> QED BY <2>1, <2>3, <3>1
  <2> QED BY <2>2, <2>3
<1>2. ~ever <=> \A j \in 1 .. n : ~answers[j].ok
  BY DEF SeriesInv
<1>3. (\E i \in 1 .. n : I!QuietFrom(i) /\ answers[n].at - answers[i].at >= I!IdleTimeout)
        <=> idle # I!None /\ answers[n].at - idle >= I!IdleTimeout
  <2>1. ASSUME idle # I!None, answers[n].at - idle >= I!IdleTimeout
        PROVE  \E i \in 1 .. n : I!QuietFrom(i) /\ answers[n].at - answers[i].at >= I!IdleTimeout
    BY <2>1 DEF TimerInv
  <2>2. ASSUME NEW i \in 1 .. n, I!QuietFrom(i), answers[n].at - answers[i].at >= I!IdleTimeout
        PROVE  idle # I!None /\ answers[n].at - idle >= I!IdleTimeout
    <3>1. \A j \in i .. n : I!Quiet(j)
      BY <2>2 DEF I!QuietFrom
    <3>2. idle # I!None
      BY <1>t, <3>1 DEF TimerInv
    <3>3. PICK k \in 1 .. n : idle = answers[k].at /\ (k = 1 \/ ~I!Quiet(k - 1))
      BY <3>2 DEF TimerInv
    <3>4. k <= i
      BY <1>t, <3>1, <3>3
    <3>5. answers[k].at <= answers[i].at
      BY <3>4 DEF TimesInv
    <3> QED BY <1>t, <2>2, <3>2, <3>3, <3>5
  <2> QED BY <2>1, <2>2
<1> QED BY <1>t, <1>1, <1>2, <1>3 DEF I!Justified

AnswerInv == SeriesInv /\ TimesInv /\ TimerInv

\* What a query adds to the series.
LEMMA Answered ==
  ASSUME IdleTypeInv, SeriesInv, NEW ok \in BOOLEAN, I!QueryEnds(ok), policy' = policy,
         NEW n \in Nat, n = Len(answers)
  PROVE  /\ Len(answers') = n + 1 /\ \A j \in 1 .. n : answers'[j] = answers[j]
         /\ answers'[n + 1].at = I!Asked /\ answers'[n + 1].ok = ok
         /\ \/ ok /\ I!Success /\ answers'[n + 1].empty = (online = {})
            \/ ok /\ I!Unpublished /\ answers'[n + 1].empty = FALSE
            \/ ~ok /\ I!Failure /\ answers'[n + 1].empty = (count = 0)
         /\ \A i \in 1 .. n : I!Quiet(i)' <=> I!Quiet(i)
         /\ I!Quiet(n + 1)' <=> answers'[n + 1].empty /\ (ok \/ (I!LogOnly /\ ~ever))
<1>1. I!LogOnly' = I!LogOnly
  BY PolicyKept
<1>2. PICK a :
        /\ answers' = Append(answers, a) /\ answers \in Seq(I!Answer)
        /\ a.at = I!Asked /\ a.ok = ok
        /\ \/ ok /\ I!Success /\ a.empty = (online = {})
           \/ ok /\ I!Unpublished /\ a.empty = FALSE
           \/ ~ok /\ I!Failure /\ a.empty = (count = 0)
  <2> DEFINE Note(empty) == [at |-> I!Asked, ok |-> ok, empty |-> empty]
  <2>t. answers \in Seq(I!Answer)
    BY DEF IdleTypeInv, I!ControlType
  <2>a. ASSUME NEW empty \in BOOLEAN
        PROVE  Note(empty).at = I!Asked /\ Note(empty).ok = ok /\ Note(empty).empty = empty
    OBVIOUS
  <2>n. ASSUME NEW empty \in BOOLEAN, I!Notes(ok, empty) PROVE answers' = Append(answers, Note(empty))
    BY <2>n DEF I!Notes
  <2> HIDE DEF Note
  <2>1. CASE ok /\ I!Success /\ I!Notes(ok, online = {})
    <3>1. (online = {}) \in BOOLEAN
      OBVIOUS
    <3>2. Note(online = {}).empty = (online = {}) /\ answers' = Append(answers, Note(online = {}))
      BY <2>1, <2>a, <2>n, <3>1, Zenon
    <3> QED BY <2>1, <2>a, <2>t, <3>1, <3>2, Zenon
  <2>2. CASE ok /\ I!Unpublished /\ I!Notes(ok, FALSE)
    <3>1. Note(FALSE).empty = FALSE /\ answers' = Append(answers, Note(FALSE))
      BY <2>2, <2>a, <2>n, Zenon
    <3> QED BY <2>2, <2>a, <2>t, <3>1, Zenon
  <2>3. CASE ~ok /\ I!Failure /\ I!Notes(ok, count = 0)
    <3>1. (count = 0) \in BOOLEAN
      OBVIOUS
    <3>2. Note(count = 0).empty = (count = 0) /\ answers' = Append(answers, Note(count = 0))
      BY <2>3, <2>a, <2>n, <3>1, Zenon
    <3> QED BY <2>3, <2>a, <2>t, <3>1, <3>2, Zenon
  <2> QED BY <2>1, <2>2, <2>3 DEF I!QueryEnds
<1>3. a.ok = ok /\ (ever <=> \E j \in 1 .. n : answers[j].ok)
  BY <1>2 DEF SeriesInv
<1>4. Len(answers') = n + 1 /\ answers'[n + 1] = a /\ \A j \in 1 .. n : answers'[j] = answers[j]
  BY <1>2
<1>5. \A i \in 1 .. n : I!Quiet(i)' <=> I!Quiet(i)
  <2> SUFFICES ASSUME NEW i \in 1 .. n PROVE I!Quiet(i)' <=> I!Quiet(i)
    OBVIOUS
  <2>1. \A j \in 1 .. i : answers'[j] = answers[j]
    BY <1>1, <1>4
  <2> QED BY <1>1, <1>4, <2>1 DEF I!Quiet
<1>6. I!Quiet(n + 1)' <=> a.empty /\ (ok \/ (I!LogOnly /\ ~ever))
  <2>1. (\A j \in 1 .. n + 1 : ~answers'[j].ok) <=> ~ever /\ ~ok
    BY <1>1, <1>3, <1>4
  <2> QED BY <1>1, <1>3, <1>4, <2>1 DEF I!Quiet
<1> QED BY <1>2, <1>4, <1>5, <1>6

LEMMA SeriesAfterQuery ==
  ASSUME IdleTypeInv, SeriesInv, NEW ok \in BOOLEAN, I!QueryEnds(ok), policy' = policy
  PROVE  SeriesInv'
<1> PICK n \in Nat : n = Len(answers)
  BY AnswersType
<1> DEFINE Good(j) == answers[j].ok /\ answers[j].empty
           NewGood(j) == answers'[j].ok /\ answers'[j].empty
<1>1. zeros \in Nat /\ Len(answers') = n + 1 /\ \A j \in 1 .. n : answers'[j] = answers[j]
  BY AnswersType, Answered
<1>2. /\ answers'[n + 1].ok = ok
      /\ \/ ok /\ I!Success /\ answers'[n + 1].empty = (online = {})
         \/ ok /\ I!Unpublished /\ answers'[n + 1].empty = FALSE
         \/ ~ok /\ I!Failure /\ answers'[n + 1].empty = (count = 0)
  BY Answered
<1>3. /\ ever <=> \E j \in 1 .. n : answers[j].ok
      /\ zeros <= n /\ (\A j \in n - zeros + 1 .. n : Good(j)) /\ (zeros < n => ~Good(n - zeros))
  BY DEF SeriesInv
<1>4. /\ ok => ever' /\ zeros' = IF NewGood(n + 1) THEN zeros + 1 ELSE 0
      /\ ~ok => ever' = ever /\ zeros' = 0
  BY <1>2 DEF I!Success, I!Failure, I!Unpublished
<1>5. ever' <=> \E j \in 1 .. n + 1 : answers'[j].ok
  <2>1. (\E j \in 1 .. n + 1 : answers'[j].ok) <=> (\E j \in 1 .. n : answers[j].ok) \/ ok
    BY <1>1, <1>2
  <2> QED BY <1>3, <1>4, <2>1
<1>6. \A j \in 1 .. n : NewGood(j) <=> Good(j)
  BY <1>1
<1>7. NewGood(n + 1) => ok
  BY <1>2
<1> HIDE DEF Good, NewGood
<1>8. zeros' <= n + 1 /\ (\A j \in (n + 1) - zeros' + 1 .. n + 1 : NewGood(j))
        /\ (zeros' < n + 1 => ~NewGood((n + 1) - zeros'))
  <2>1. CASE NewGood(n + 1)
    <3>1. zeros' = zeros + 1
      BY <1>4, <1>7, <2>1
    <3>2. (n + 1) - zeros' = n - zeros
      BY <1>1, <3>1
    <3>3. ASSUME NEW j \in n - zeros + 1 .. n + 1 PROVE NewGood(j)
      BY <1>1, <1>3, <1>6, <1>7, <2>1, <3>3
    <3>4. zeros < n => n - zeros \in 1 .. n
      BY <1>1
    <3> QED BY <1>1, <1>3, <1>6, <3>1, <3>2, <3>3, <3>4
  <2>2. CASE ~NewGood(n + 1)
    BY <1>1, <1>4, <1>7, <2>2
  <2> QED BY <2>1, <2>2
<1> QED BY <1>1, <1>5, <1>8 DEF SeriesInv, NewGood

LEMMA TimesAfterQuery ==
  ASSUME IdleTypeInv, SeriesInv, TimesInv, NEW ok \in BOOLEAN, I!QueryEnds(ok), policy' = policy
  PROVE  TimesInv'
<1> PICK n \in Nat : n = Len(answers)
  BY AnswersType
<1>1. /\ Len(answers') = n + 1 /\ \A j \in 1 .. n : answers'[j] = answers[j]
      /\ answers'[n + 1].at = I!Asked
  BY Answered
<1>2. I!Asked <= idleNow /\ I!Asked \in Nat /\ idleNow' = idleNow /\ pc = "query" /\ pc' # "query"
  BY DEF IdleTypeInv, AskedInv, I!ControlType, I!Time, I!QueryEnds
<1> QED BY <1>1, <1>2 DEF TimesInv

LEMMA TimerAfterQuery ==
  ASSUME IdleTypeInv, SeriesInv, TimerInv, NEW ok \in BOOLEAN, I!QueryEnds(ok), policy' = policy
  PROVE  TimerInv'
<1> PICK n \in Nat : n = Len(answers)
  BY AnswersType
<1>1. Len(answers') = n + 1 /\ \A j \in 1 .. n : answers'[j] = answers[j]
  BY Answered
<1>2. /\ answers'[n + 1].at = I!Asked
      /\ \/ ok /\ I!Success /\ answers'[n + 1].empty = (online = {})
         \/ ok /\ I!Unpublished /\ answers'[n + 1].empty = FALSE
         \/ ~ok /\ I!Failure /\ answers'[n + 1].empty = (count = 0)
      /\ I!Asked # I!None /\ count \in Nat
  <2>1. I!Asked # I!None
    BY QueryTypes DEF I!Time, I!None
  <2>2. count \in Nat
    BY FS_CardinalityType, SameCardinality, IdleAssumption DEF IdleTypeInv, I!LogType, I!Counts
  <2> QED BY <2>1, <2>2, Answered
<1>3. /\ \A i \in 1 .. n : I!Quiet(i)' <=> I!Quiet(i)
      /\ I!Quiet(n + 1)' <=> answers'[n + 1].empty /\ (ok \/ (I!LogOnly /\ ~ever))
  BY Answered
<1>4. idle' = IF I!Quiet(n + 1)' THEN (IF idle = I!None THEN I!Asked ELSE idle) ELSE I!None
  <2>1. CASE ok
    BY <1>2, <1>3, <2>1 DEF I!Success, I!Unpublished
  <2>2. CASE ~ok
    <3>1. count = 0 <=> ~(count > 0)
      BY <1>2
    <3>2. answers'[n + 1].empty <=> count = 0
      BY <1>2, <2>2
    <3>3. I!Quiet(n + 1)' <=> ~(~I!LogOnly \/ ever \/ count > 0)
      BY <1>3, <2>2, <3>1, <3>2
    <3>4. I!Failure
      BY <1>2, <2>2
    <3> QED BY <3>3, <3>4 DEF I!Failure
  <2> QED BY <2>1, <2>2
<1>5. /\ idle = I!None /\ n # 0 => ~I!Quiet(n)
      /\ idle # I!None => \E i \in 1 .. n :
           I!QuietFrom(i) /\ idle = answers[i].at /\ (i = 1 \/ ~I!Quiet(i - 1))
  BY DEF TimerInv, IdleTypeInv, I!ControlType
<1>6. CASE ~I!Quiet(n + 1)'
  BY <1>1, <1>4, <1>6 DEF TimerInv
<1>7. CASE I!Quiet(n + 1)' /\ idle = I!None
  <2>1. idle' = answers'[n + 1].at /\ idle' # I!None /\ n + 1 \in 1 .. n + 1
    BY <1>1, <1>2, <1>4, <1>7
  <2>2. I!QuietFrom(n + 1)'
    BY <1>1, <1>7 DEF I!QuietFrom
  <2>3. n + 1 = 1 \/ ~I!Quiet((n + 1) - 1)'
    BY <1>1, <1>3, <1>5, <1>7
  <2> QED BY <1>1, <2>1, <2>2, <2>3 DEF TimerInv
<1>8. CASE I!Quiet(n + 1)' /\ idle # I!None
  <2>1. PICK i \in 1 .. n : I!QuietFrom(i) /\ idle = answers[i].at /\ (i = 1 \/ ~I!Quiet(i - 1))
    BY <1>5, <1>8
  <2>2. idle' = idle /\ idle' = answers'[i].at /\ i \in 1 .. n + 1
    BY <1>1, <1>4, <1>8, <2>1
  <2>3. I!QuietFrom(i)'
    <3> SUFFICES ASSUME NEW j \in i .. n + 1 PROVE I!Quiet(j)'
      BY <1>1 DEF I!QuietFrom
    <3>1. CASE j = n + 1
      BY <1>8, <3>1
    <3>2. CASE j # n + 1
      <4>1. j \in i .. n /\ j \in 1 .. n
        BY <1>1, <3>2
      <4> QED BY <1>3, <2>1, <4>1 DEF I!QuietFrom
    <3> QED BY <3>1, <3>2
  <2>4. i = 1 \/ ~I!Quiet(i - 1)'
    <3>1. i = 1 \/ i - 1 \in 1 .. n
      BY <1>1
    <3> QED BY <1>3, <2>1, <3>1
  <2> QED BY <1>1, <1>8, <2>2, <2>3, <2>4 DEF TimerInv
<1> QED BY <1>6, <1>7, <1>8

\* Whoever is to be put to sleep is so at once, and nobody else: the two
\* properties of the decision together.
DecidedInv == pc \in {"sleep", "asleep"} <=> I!Justified

LEMMA DecidedAtQuery ==
  ASSUME IdleTypeInv, AnswerInv, NEW ok \in BOOLEAN, I!QueryEnds(ok), policy' = policy,
         IdleTypeInv', AnswerInv'
  PROVE  DecidedInv'
<1> PICK n \in Nat : n = Len(answers)
  BY AnswersType
<1>1. Len(answers') = n + 1 /\ answers'[n + 1].at = I!Asked
  BY Answered DEF AnswerInv
<1>2. answers' # <<>>
  <2>1. answers' \in Seq(I!Answer') /\ Len(answers') # 0
    BY <1>1 DEF IdleTypeInv, I!ControlType
  <2> QED BY <2>1
<1>3. ( I!Justified' <=>
          /\ I!AutoSleep' /\ idle' # I!None
          /\ answers'[Len(answers')].at - started' >= I!MinUptime'
          /\ answers'[Len(answers')].at - idle' >= I!IdleTimeout'
          /\ zeros' >= I!MinZeros' \/ (I!LogOnly' /\ ~ever') )
  <2>1. (IdleTypeInv /\ SeriesInv /\ TimesInv /\ TimerInv /\ answers # <<>> =>
          ( I!Justified <=>
              /\ I!AutoSleep /\ idle # I!None
              /\ answers[Len(answers)].at - started >= I!MinUptime
              /\ answers[Len(answers)].at - idle >= I!IdleTimeout
              /\ zeros >= I!MinZeros \/ (I!LogOnly /\ ~ever) ))'
    BY Decision, PTL
  <2> QED BY <1>2, <2>1 DEF AnswerInv
<1>4. started' = started /\ (pc' \in {"sleep", "asleep"} <=> I!GoesToSleep)
  BY DEF I!QueryEnds
<1> QED BY <1>1, <1>3, <1>4, PolicyKept DEF I!GoesToSleep, DecidedInv

LEMMA AnswerNext ==
  IdleTypeInv /\ AnswerInv /\ DecidedInv /\ [I!Next]_I!vars /\ IdleTypeInv' => AnswerInv' /\ DecidedInv'
<1> SUFFICES ASSUME IdleTypeInv, AnswerInv, DecidedInv, [I!Next]_I!vars, IdleTypeInv'
             PROVE  AnswerInv' /\ DecidedInv'
  OBVIOUS
<1>p. policy' = policy /\ policy \in Policies
  BY DEF I!Next, I!vars, IdleTypeInv, I!ControlType
<1>e. ASSUME UNCHANGED <<answers, started, idle, zeros, ever>>, idleNow <= idleNow',
             pc' = "query" => \/ pc = "query" /\ nextQuery' = nextQuery
                              \/ idleNow <= I!Asked',
             pc \in {"sleep", "asleep"} <=> pc' \in {"sleep", "asleep"}
      PROVE  AnswerInv' /\ DecidedInv'
  <2>1. /\ I!AutoSleep' = I!AutoSleep /\ I!LogOnly' = I!LogOnly /\ I!MinUptime' = I!MinUptime
        /\ I!IdleTimeout' = I!IdleTimeout /\ I!MinZeros' = I!MinZeros /\ I!Interval' = I!Interval
    BY <1>p, PolicyKept
  <2>2. \A i : I!Quiet(i)' <=> I!Quiet(i)
    BY <1>e, <2>1 DEF I!Quiet
  <2>3. \A i : I!QuietFrom(i)' <=> I!QuietFrom(i)
    BY <1>e, <2>2 DEF I!QuietFrom
  <2>4. I!Justified' <=> I!Justified
    BY <1>e, <2>1, <2>3 DEF I!Justified
  <2>5. SeriesInv'
    BY <1>e DEF AnswerInv, SeriesInv
  <2>6. TimerInv'
    BY <1>e, <2>2, <2>3 DEF AnswerInv, TimerInv
  <2>7. TimesInv'
    <3>1. /\ idleNow \in Int /\ idleNow' \in Int /\ nextQuery \in Int /\ nextQuery' \in Int
          /\ I!Interval \in Int
      BY <1>p, PolicyType DEF IdleTypeInv, I!ControlType, I!Time
    <3>2. \A j \in 1 .. Len(answers) : answers[j].at \in Int /\ answers[j].at <= idleNow
      BY AnswersType DEF AnswerInv, TimesInv
    <3>3. ASSUME NEW j \in 1 .. Len(answers)
          PROVE  answers[j].at <= idleNow' /\ (pc' = "query" => answers[j].at <= I!Asked')
      <4>1. answers[j].at <= idleNow'
        BY <1>e, <3>1, <3>2
      <4>2. CASE pc' = "query" /\ pc = "query" /\ nextQuery' = nextQuery
        BY <2>1, <4>1, <4>2 DEF AnswerInv, TimesInv, I!Asked
      <4>3. CASE idleNow <= I!Asked'
        BY <2>1, <3>1, <3>2, <4>1, <4>3 DEF I!Asked
      <4> QED BY <1>e, <4>1, <4>2, <4>3
    <3> QED BY <1>e, <3>3 DEF AnswerInv, TimesInv
  <2> QED BY <1>e, <2>4, <2>5, <2>6, <2>7 DEF AnswerInv, DecidedInv
<1>n. idleNow \in Int /\ idleNow <= idleNow
  BY DEF IdleTypeInv, I!ControlType, I!Time
<1> USE DEF I!log, I!monitor
<1>1. CASE I!StartServer
  <2>1. answers' = <<>> /\ zeros' = 0 /\ ever' = FALSE /\ idle' = I!None /\ pc' = "loop"
    BY <1>1 DEF I!StartServer
  <2>2. AnswerInv'
    BY <2>1 DEF AnswerInv, SeriesInv, TimesInv, TimerInv
  <2>3. ~I!Justified'
    BY <2>1 DEF I!Justified
  <2> QED BY <2>1, <2>2, <2>3 DEF DecidedInv
<1>2. CASE I!StopBegins \/ I!Stopped
  BY <1>2, <1>e, <1>n DEF I!StopBegins, I!Stopped
<1>3. CASE I!Ready \/ (\E p \in Players : I!Join(p) \/ I!Leave(p))
  BY <1>3, <1>e, <1>n DEF I!Ready, I!Join, I!Leave
<1>4. ASSUME NEW s \in I!Servers, I!ReadLine(s) \/ I!Report(s) \/ I!ReportFails(s)
      PROVE  AnswerInv' /\ DecidedInv'
  BY <1>4, <1>e, <1>n DEF I!ReadLine, I!Report, I!ReportFails
<1>5. CASE I!Pass \/ I!QueryLasts
  BY <1>5, <1>e, <1>n DEF I!Pass, I!QueryLasts, I!Tick
<1>6. CASE I!Query
  <2>1. nextQuery' = idleNow + I!Interval /\ pc = "loop" /\ pc' = "query"
    BY <1>6 DEF I!Query
  <2>2. I!Interval' = I!Interval /\ I!Interval \in Int
    BY <1>p, PolicyKept, PolicyType
  <2>3. idleNow <= I!Asked'
    BY <1>n, <2>1, <2>2 DEF I!Asked
  <2> QED BY <1>6, <1>e, <1>n, <2>1, <2>3 DEF I!Query
<1>7. ASSUME NEW ok \in BOOLEAN, I!QueryEnds(ok) PROVE AnswerInv' /\ DecidedInv'
  <2>1. AnswerInv'
    BY <1>7, <1>p, SeriesAfterQuery, TimesAfterQuery, TimerAfterQuery DEF AnswerInv
  <2> QED BY <1>7, <1>p, <2>1, DecidedAtQuery
<1>8. CASE UNCHANGED I!vars
  BY <1>8, <1>e, <1>n DEF I!vars
<1> QED
  BY <1>1, <1>2, <1>3, <1>4, <1>5, <1>6, <1>7, <1>8 DEF I!Next

LEMMA DecidedInvariant == I!Spec => []DecidedInv
<1>1. I!Init => AnswerInv /\ DecidedInv
  BY DEF I!Init, AnswerInv, SeriesInv, TimesInv, TimerInv, DecidedInv, I!Justified
<1>2. IdleTypeInv /\ AnswerInv /\ DecidedInv /\ [I!Next]_I!vars /\ IdleTypeInv' => AnswerInv' /\ DecidedInv'
  BY AnswerNext
<1> QED BY <1>1, <1>2, IdleTypes, PTL DEF I!Spec

\* The counters and the timer put no server to sleep that the whole series of
\* its answers does not, whatever the settings are (supervisor.py:372-428).
THEOREM SleepIsJustified == I!Spec => []SleepJustified
<1>1. DecidedInv => SleepJustified
  BY DEF DecidedInv, SleepJustified, I!SleepJustified
<1> QED BY <1>1, DecidedInvariant, PTL

\* And a series that justifies the sleep is answered by it at once.
THEOREM IdleIsNotOverlooked == I!Spec => []IdleNotOverlooked
<1>1. DecidedInv => IdleNotOverlooked
  BY DEF DecidedInv, IdleNotOverlooked, I!IdleNotOverlooked
<1> QED BY <1>1, DecidedInvariant, PTL

-----------------------------------------------------------------------------
\* A behaviour of the run is one of each component: what is proved of them
\* holds of it, with its parts' constants or any others.
THEOREM RunBehaves == MCSpec => Spec /\ U!Spec /\ Q!Spec /\ I!Spec
<1>1. MCInit => Init /\ U!Init /\ Q!Init /\ I!Init
  BY DEF MCInit
<1> DEFINE Step == [MCNext]_<<part, monitor, query, schedule, vars>>
<1>2. Step => [Next]_vars
  BY DEF MCNext
<1>3. Step => [U!Next]_U!vars
  BY DEF MCNext, schedule, U!vars, U!files
<1>4. Step => [Q!Next]_Q!vars
  BY DEF MCNext, query, Q!vars
<1>5. Step => [I!Next]_I!vars
  BY DEF MCNext, monitor, I!vars, I!monitor, I!log
<1> QED BY <1>1, <1>2, <1>3, <1>4, <1>5, PTL DEF MCSpec, Spec, U!Spec, Q!Spec, I!Spec
=============================================================================
