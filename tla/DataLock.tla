------------------------------ MODULE DataLock ------------------------------
(***************************************************************************)
(* The advisory lock on <data>/.nos-maintenance.lock.  The supervisor      *)
(* takes it through maintenance.py (re-entrant: `depth' counts the nested  *)
(* acquisitions on one descriptor), the helpers backup.sh and restore.sh   *)
(* through `flock -n 9'.  `flock' is the kernel's side of the lock: the    *)
(* process whose open file description holds it.                           *)
(***************************************************************************)
EXTENDS Naturals

CONSTANT Helpers            \* the running instances of backup.sh / restore.sh

Nobody == "nobody"
Self   == "supervisor"

ASSUME HelpersAssumption == Nobody \notin Helpers /\ Self \notin Helpers

VARIABLES
  depth,                    \* DataLock._depth; 0 exactly when _fd is None
  flock                     \* the owner of the kernel lock

lock == <<depth, flock>>

LockTypeOK ==
  /\ depth \in Nat
  /\ flock \in {Nobody, Self} \cup Helpers

LockInit == depth = 0 /\ flock = Nobody

-----------------------------------------------------------------------------
\* DataLock.try_acquire returning True: nested when this process already has
\* the descriptor, otherwise flock(LOCK_EX | LOCK_NB) on a fresh one.
TryAcquire ==
  /\ depth > 0 \/ flock = Nobody
  /\ depth' = depth + 1
  /\ flock' = IF depth = 0 THEN Self ELSE flock

\* n calls of DataLock.release in a row.  A release without a descriptor does
\* nothing; the one that brings the depth to 0 closes it and frees the lock.
Release(n) ==
  /\ depth' = IF depth > n THEN depth - n ELSE 0
  /\ flock' = IF depth > 0 /\ depth <= n THEN Nobody ELSE flock

\* The process is gone: the kernel closes the descriptor.
LockDies ==
  /\ depth' = 0
  /\ flock' = IF flock = Self THEN Nobody ELSE flock

\* `flock -n 9 || exit 1': a helper enters when the lock is free.  When it is
\* not, the helper prints "data is busy" and exits without touching anything.
HelperEnters(h) == flock = Nobody /\ flock' = h /\ UNCHANGED depth

\* The helper's shell exits, finished or killed, and descriptor 9 is closed.
HelperLeaves(h) == flock = h /\ flock' = Nobody /\ UNCHANGED depth
=============================================================================
