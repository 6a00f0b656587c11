---------------------------- MODULE BackupRotation ----------------------------
(***************************************************************************)
(* backup.sh inside its lock: an archive is written under a temporary      *)
(* name, published by a hard link, and then the archives beyond the newest *)
(* KEEP_BACKUPS are removed one after the other.  The wall clock, which    *)
(* orders them, may be set; the script may fail or be killed anywhere.     *)
(***************************************************************************)
EXTENDS Integers, FiniteSets

CONSTANTS
  KeepBackups,         \* values of KEEP_BACKUPS, 0: keep all
  MaxTime,      \* bounds: the clock,
  MaxBackups,   \* calls of the script
  MaxKills      \* and kills

VARIABLES
  pc, keep,     \* where the script is; its KEEP_BACKUPS
  now, back,    \* the clock; history: it has been set back
  temporary,    \* "none", "part", "whole": the archive under its temporary name
  time,         \* the modification time of that
  archives,     \* the published ones: number, modification time, and whether it is whole
  old,          \* what is to be removed
  made,         \* history: how many were published
  started, kills

vars == <<pc, keep, now, back, temporary, time, archives, old, made, started, kills>>

TypeOK ==
  /\ pc \in {"none", "tar", "link", "unlink", "list", "prune"} /\ keep \in KeepBackups
  /\ now \in 0 .. MaxTime /\ time \in 0 .. MaxTime /\ back \in BOOLEAN
  /\ temporary \in {"none", "part", "whole"}
  /\ archives \subseteq [number : 1 .. MaxBackups, time : 0 .. MaxTime, whole : BOOLEAN]
  /\ old \subseteq archives
  /\ made \in 0 .. MaxBackups /\ started \in 0 .. MaxBackups /\ kills \in 0 .. MaxKills

Init ==
  /\ pc = "none" /\ keep \in KeepBackups /\ now = 0 /\ back = FALSE /\ temporary = "none" /\ time = 0
  /\ archives = {} /\ old = {} /\ made = 0 /\ started = 0 /\ kills = 0

-----------------------------------------------------------------------------
Step(from, to) == pc = from /\ pc' = to /\ UNCHANGED <<keep, started, kills>>

\* After the checks and the lock: mktemp.  What a kill left is not touched.
Begin ==
  /\ pc = "none" /\ started < MaxBackups
  /\ pc' = "tar" /\ started' = started + 1 /\ temporary' = "part"
  /\ UNCHANGED <<keep, now, back, time, archives, old, made, kills>>

\* tar, which takes time; no two archives have the same.
Tar ==
  /\ Step("tar", "link") /\ temporary' = "whole"
  /\ now' \in {t \in now + 1 .. MaxTime : \A a \in archives : a.time # t} /\ time' = now'
  /\ UNCHANGED <<back, archives, old, made>>

Link ==
  /\ Step("link", "unlink") /\ made' = made + 1
  /\ archives' = archives \cup {[number |-> made', time |-> time, whole |-> temporary = "whole"]}
  /\ UNCHANGED <<now, back, temporary, time, old>>

Unlink ==
  /\ Step("unlink", IF keep > 0 THEN "list" ELSE "none") /\ temporary' = "none"
  /\ UNCHANGED <<now, back, time, archives, old, made>>

Newer(a) == {b \in archives : b.time > a.time}

\* Mutant of Excess: tail begins a line too early.
ExcessOne == {a \in archives : Cardinality(Newer(a)) >= keep - 1}

\* The newest first, and the list from line keep + 1 on.
Excess == {a \in archives : Cardinality(Newer(a)) >= keep}

List ==
  /\ Step("list", "prune") /\ old' = Excess
  /\ UNCHANGED <<now, back, temporary, time, archives, made>>

Prune ==
  /\ old # {}
  /\ \E a \in old : archives' = archives \ {a} /\ old' = old \ {a}
  /\ Step("prune", "prune") /\ UNCHANGED <<now, back, temporary, time, made>>

Pruned ==
  /\ old = {} /\ Step("prune", "none")
  /\ UNCHANGED <<now, back, temporary, time, archives, old, made>>

\* Any command fails: the trap removes the temporary file, as long as it is set.
Fails ==
  /\ pc # "none" /\ Step(pc, "none")
  /\ temporary' = "none" /\ old' = {}
  /\ UNCHANGED <<now, back, time, archives, made>>

Killed ==
  /\ pc # "none" /\ kills < MaxKills /\ kills' = kills + 1
  /\ pc' = "none" /\ old' = {}
  /\ UNCHANGED <<keep, now, back, temporary, time, archives, made, started>>

SetBack ==
  /\ now' \in 0 .. now - 1 /\ back' = TRUE
  /\ UNCHANGED <<pc, keep, temporary, time, archives, old, made, started, kills>>

Next == Begin \/ Tar \/ Link \/ Unlink \/ List \/ Prune \/ Pruned \/ Fails \/ Killed \/ SetBack

Spec == Init /\ [][Next]_vars

-----------------------------------------------------------------------------
(* Properties *)

Least(m, n) == IF m <= n THEN m ELSE n

\* Whatever fails, every published archive is whole, and there are as many as
\* are to be kept; as long as the clock was not set back, these are the newest
\* (backup.sh:37-57; docs/BACKUP-RESTORE.md: five retained archives).
ArchivesKept ==
  /\ \A a \in archives : a.whole
  /\ Cardinality(archives) >= (IF keep = 0 THEN made ELSE Least(keep, made))
  /\ ~back => \A n \in 1 .. made : keep = 0 \/ n > made - keep => \E a \in archives : a.number = n
=============================================================================
