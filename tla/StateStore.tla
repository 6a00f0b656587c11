------------------------------ MODULE StateStore ------------------------------
(***************************************************************************)
(* The published state (state.py) and the health check that reads its file *)
(* (healthcheck.py): a memory and a file that differ after a failed write, *)
(* a heartbeat written at most every Beat seconds, a wall clock that may   *)
(* be set, and a supervisor that loops, waits, hangs or dies.              *)
(***************************************************************************)
EXTENDS Integers

CONSTANTS
  States, Data,         \* what may be published: the state, and the rest
  Beat,                 \* HEARTBEAT_WRITE_INTERVAL_SECONDS
  MaxAge,               \* HEALTHCHECK_MAX_HEARTBEAT_AGE
  Gap,                  \* a looping main thread calls the store at least this often
  MaxWait,              \* longest wait that does not touch the store
  MaxTime, MaxSet, MaxFailures  \* bounds

ASSUME StatesAssumption == "ERROR" \in States
\* Nothing relates them: the waits have no limit, and the age is only positive.
ASSUME AgeAssumption ==
  Beat \in Nat /\ Gap \in Nat \ {0} /\ MaxWait \in Nat /\ MaxAge \in Nat \ {0}
ASSUME BoundAssumption == MaxTime \in Nat /\ MaxSet \in Nat /\ MaxFailures \in Nat

VARIABLES
  now, wall, back, forth,   \* true time; time.time(); by how much it was set
  life,                     \* of the main thread
  called,                   \* when the main thread last called the store
  memory, beat,             \* self._data without and with its heartbeat
  file,                     \* what the state file holds
  written,                  \* when it was last replaced
  failing, failedAt,        \* history: the last write failed, and when
  failures

clock == <<now, wall, back, forth>>
vars  == <<clock, life, called, memory, beat, file, written, failing, failedAt, failures>>

Values == [state : States, data : Data]
Fresh  == {v \in Values : v.state # "ERROR"}
File   == [value : Values, heartbeat : Int]

TypeOK ==
  /\ now \in 0 .. MaxTime /\ wall \in Int /\ back \in 0 .. MaxSet /\ forth \in 0 .. MaxSet
  /\ life \in {"looping", "waiting", "hung", "dead"}
  /\ called \in 0 .. MaxTime /\ written \in 0 .. MaxTime /\ failedAt \in 0 .. MaxTime
  /\ memory \in Values /\ beat \in Int /\ file \in File
  /\ failing \in BOOLEAN /\ failures \in 0 .. MaxFailures
  /\ failing \/ (file.value = memory /\ file.heartbeat = beat)

Init ==
  /\ now = 0 /\ wall = 0 /\ back = 0 /\ forth = 0
  /\ life = "looping" /\ called = 0
  /\ memory \in Fresh /\ beat = 0
  /\ file = [value |-> memory, heartbeat |-> beat] /\ written = 0
  /\ failing = FALSE /\ failedAt = 0 /\ failures = 0

-----------------------------------------------------------------------------
(* state.py *)

\* _write_locked publishes all of memory by one os.replace.
Written ==
  /\ file' = [value |-> memory', heartbeat |-> beat'] /\ written' = now
  /\ failing' = FALSE /\ UNCHANGED <<failedAt, failures>>

\* It raises, and leaves the file as it was.
NotWritten ==
  /\ failures < MaxFailures /\ failures' = failures + 1
  /\ failing' = TRUE /\ failedAt' = now
  /\ UNCHANGED <<file, written>>

\* Mutant of Store: only changes are written.
StoreChanges(v, ok) ==
  IF memory # v
    THEN memory' = v /\ beat' = wall /\ IF ok THEN Written ELSE NotWritten
    ELSE ok /\ UNCHANGED <<memory, beat, file, written, failing, failedAt, failures>>

\* set_state, update and, with the value of memory, touch: memory and its
\* heartbeat are changed before the write, and stay changed if it fails.
Store(v, ok) ==
  IF memory # v \/ wall - beat >= Beat
    THEN memory' = v /\ beat' = wall /\ IF ok THEN Written ELSE NotWritten
    ELSE ok /\ UNCHANGED <<memory, beat, file, written, failing, failedAt, failures>>

-----------------------------------------------------------------------------
(* Who calls it *)

\* The main thread.  A failed write is swallowed where it counts as a failed
\* query or preparation, or ends in main's exit.
MainCalls(v, ok) ==
  /\ life = "looping"
  /\ Store(v, ok) /\ called' = now
  /\ IF ok THEN UNCHANGED life ELSE life' \in {"looping", "dead"}
  /\ UNCHANGED clock

\* The output reader's thread publishes a log count, whatever the main thread does.
ReaderCalls(d, ok) ==
  /\ life # "dead"
  /\ Store([memory EXCEPT !.data = d], ok)
  /\ UNCHANGED <<clock, life, called>>

\* A wait without touch: a crash restart's delay, a stop, SteamCMD's second try.
Waits   == life = "looping" /\ life' = "waiting"
          /\ UNCHANGED <<clock, called, memory, beat, file, written, failing, failedAt, failures>>
Resumes == life = "waiting" /\ life' = "looping"
          /\ UNCHANGED <<clock, called, memory, beat, file, written, failing, failedAt, failures>>

Stops(how) ==
  /\ life \in {"looping", "waiting"} /\ life' = how
  /\ UNCHANGED <<clock, called, memory, beat, file, written, failing, failedAt, failures>>

\* Supervisor.__init__ of the next process: memory and file are new.
Boots ==
  /\ life = "dead" /\ life' = "looping" /\ called' = now
  /\ memory' \in Fresh /\ beat' = wall /\ Written
  /\ UNCHANGED clock

Patience == CASE life = "looping" -> Gap [] life = "waiting" -> Gap + MaxWait [] OTHER -> MaxTime

Tick ==
  /\ now < MaxTime /\ now < called + Patience
  /\ now' = now + 1 /\ wall' = wall + 1
  /\ UNCHANGED <<back, forth, life, called, memory, beat, file, written, failing, failedAt, failures>>

SetClock(d) ==
  /\ wall' = wall + d
  /\ IF d < 0 THEN back' = back - d /\ UNCHANGED forth ELSE forth' = forth + d /\ UNCHANGED back
  /\ back' + forth' <= MaxSet
  /\ UNCHANGED <<now, life, called, memory, beat, file, written, failing, failedAt, failures>>

Next ==
  \/ \E v \in Values, ok \in BOOLEAN : MainCalls(v, ok)
  \/ \E d \in Data, ok \in BOOLEAN : ReaderCalls(d, ok)
  \/ Waits \/ Resumes \/ Boots
  \/ \E how \in {"hung", "dead"} : Stops(how)
  \/ Tick
  \/ \E d \in -MaxSet .. MaxSet : SetClock(d)

Spec == Init /\ [][Next]_vars

-----------------------------------------------------------------------------
(* healthcheck.py *)

\* Mutant of Healthy: compared with the throttle, not with the age allowed.
HealthyImpatient ==
  /\ file.value.state # "ERROR"
  /\ -MaxAge <= wall - file.heartbeat /\ wall - file.heartbeat <= Beat

Healthy ==
  /\ file.value.state # "ERROR"
  /\ -MaxAge <= wall - file.heartbeat /\ wall - file.heartbeat <= MaxAge

-----------------------------------------------------------------------------
(* Properties *)

\* A failed write is made up for: as long as the main thread lives, the file
\* differs from memory no longer than a heartbeat and a wait take, plus what the
\* clock was set back by.  (A retry with the same value would never write it.)
FileCatchesUp ==
  life \in {"looping", "waiting"} /\ file.value # memory
    => now - failedAt <= Beat + Gap + MaxWait + back

\* With the clock left alone, a supervisor that is alive and whose last write did
\* not fail is never healthy in ERROR, and is unhealthy otherwise only when its
\* main thread has not called the store for the age allowed less the throttle, in
\* a wait that is too long for the settings (state.py:51-66, healthcheck.py:33-40).
\* Once nobody has replaced the file for the age allowed, and for what the clock
\* was set back by, the container is unhealthy, however the clock was set.
HealthTruthful ==
  /\ life \in {"looping", "waiting"} /\ ~failing /\ back + forth = 0
       => /\ Healthy => memory.state # "ERROR"
          /\ memory.state # "ERROR" /\ ~Healthy => now - called > MaxAge - Beat
  /\ now - written > MaxAge + back => ~Healthy

=============================================================================
