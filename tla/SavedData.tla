----------------------------- MODULE SavedData -----------------------------
(***************************************************************************)
(* The saved games on the data volume: ensure_saved_link (steamcmd.py)     *)
(* replaces the server's own Saved directory by a link to the persistent   *)
(* one, and restore.sh swaps the persistent one for an archive.  Both hold *)
(* the data lock, so one of them runs at a time, but either may fail or be *)
(* killed between any two file operations.                                 *)
(*                                                                         *)
(* A world is a saved game of several files; a directory is the set of the *)
(* files in it.  Renames are atomic, copies and removals are not.          *)
(***************************************************************************)
EXTENDS Naturals

CONSTANTS
  Parts,          \* the files a world consists of
  Shipped,        \* worlds that SteamCMD or the operator puts into the server's directory
  Played,         \* worlds the game creates
  Archived,       \* worlds in the archives that restore.sh is given
  MaxFailures     \* bound: failures and kills in a behaviour

Worlds == Shipped \cup Played \cup Archived
Whole(w) == {w} \X Parts
Files == Worlds \X Parts
WorldsIn(d) == {w \in Worlds : Whole(w) \subseteq d}
Archives == {{}} \cup {Whole(w) : w \in Archived}

ASSUME PartsAssumption    == Parts # {}
ASSUME FailuresAssumption == MaxFailures \in Nat

VARIABLES
  pc, staged, orphan,     \* ensure_saved_link, and the copy it is making
  target, inTarget,       \* what server_saved_path is, and its files when a directory
  exists, saved,          \* saved_dir: is it there, and its files
  orphans,                \* what the orphaned-server-saved-* directories hold
  restore, archive,       \* restore.sh, and the files in its argument
  stage,                  \* .restore-stage.*/saved
  moved,                  \* `previous' of this call: no or one directory
  previous,               \* what the *.before-restore.* of earlier calls hold
  made,                   \* history: the worlds that have been in a Saved directory
  emptied,                \* history: a restore left saved_dir missing or empty
  failures                \* failures and kills so far

call == <<pc, staged, orphan>>
server == <<target, inTarget>>
persistent == <<exists, saved>>
helper == <<restore, archive, stage, moved, previous>>
history == <<made, emptied, failures>>
vars == <<call, server, persistent, orphans, helper, history>>

CallType ==
  /\ pc \in {"idle", "check", "copy", "orphan", "rmtree", "link"}
  /\ staged \subseteq Files /\ orphan \subseteq Files /\ orphans \subseteq SUBSET Files
ServerType ==
  /\ target \in {"none", "link", "other", "dir"}
  /\ inTarget \subseteq Files /\ (target # "dir" => inTarget = {})
SavedType ==
  exists \in BOOLEAN /\ saved \subseteq Files /\ (~exists => saved = {})
RestoreType ==
  /\ restore \in {"none", "extract", "swap"}
  /\ archive \in Archives /\ stage \subseteq archive /\ (restore = "none" => archive = {})
  /\ moved \subseteq SUBSET Files /\ \A d, e \in moved : d = e
  /\ previous \subseteq SUBSET Files
HistoryType ==
  made \subseteq Worlds /\ emptied \in BOOLEAN /\ failures \in 0 .. MaxFailures
TypeOK == CallType /\ ServerType /\ SavedType /\ RestoreType /\ HistoryType

\* A new volume, one that has been played on, or one whose server directory is
\* older than this image.
Init ==
  /\ pc = "idle" /\ staged = {} /\ orphan = {} /\ orphans = {}
  /\ \/ target \in {"none", "other", "link"} /\ inTarget = {}
     \/ target = "dir" /\ \E w \in Shipped : inTarget = Whole(w)
  /\ exists \in BOOLEAN
  /\ saved = {} \/ (exists /\ \E w \in Played : saved = Whole(w))
  /\ restore = "none" /\ archive = {} /\ stage = {} /\ moved = {} /\ previous = {}
  /\ made = WorldsIn(inTarget) \cup WorldsIn(saved)
  /\ emptied = FALSE /\ failures = 0

-----------------------------------------------------------------------------
(* ensure_saved_link, under the supervisor's lock *)

Unlocked == pc = "idle" /\ restore = "none"

\* The two mkdir calls with exist_ok.
EnsureBegins ==
  /\ Unlocked
  /\ exists' = TRUE /\ pc' = "check"
  /\ UNCHANGED <<staged, orphan, server, saved, orphans, helper, history>>

\* A correct link needs nothing; any other link or file is unlinked; a directory
\* goes through Directory, which says where its copy is made.
Examine(Directory) ==
  /\ pc = "check"
  /\ \/ target = "link" /\ pc' = "idle" /\ UNCHANGED target
     \/ target \in {"none", "other"} /\ pc' = "link" /\ target' = "none"
     \/ target = "dir" /\ pc' = Directory /\ UNCHANGED target
  /\ UNCHANGED <<staged, orphan, inTarget, persistent, orphans, helper, history>>

\* Mutant of Check: the directory is migrated whatever is saved already.
CheckIgnoringSaved == Examine("copy")
\* Mutant of Check: with something saved already the directory stays where it is.
CheckWithoutOrphan == Examine(IF saved = {} THEN "copy" ELSE "idle")

\* A directory is migrated when nothing is saved yet, and set aside otherwise.
Check == Examine(IF saved = {} THEN "copy" ELSE "orphan")

\* Mutant of CopyFile: the files are copied straight into saved_dir.
CopyInPlace ==
  /\ pc = "copy"
  /\ \E f \in inTarget \ staged : staged' = staged \cup {f} /\ saved' = saved \cup {f}
  /\ UNCHANGED <<pc, orphan, server, exists, orphans, helper, history>>

\* _copy_contents into the temporary directory.
CopyFile ==
  /\ pc = "copy"
  /\ \E f \in inTarget \ staged : staged' = staged \cup {f}
  /\ UNCHANGED <<pc, orphan, server, persistent, orphans, helper, history>>

\* staged.replace(saved_dir): a rename over the empty directory.
Publish ==
  /\ pc = "copy" /\ staged = inTarget
  /\ saved' = staged /\ staged' = {} /\ pc' = "rmtree"
  /\ UNCHANGED <<orphan, server, exists, orphans, helper, history>>

\* shutil.copytree into a new orphaned-server-saved-* directory.
OrphanFile ==
  /\ pc = "orphan"
  /\ \E f \in inTarget \ orphan : orphan' = orphan \cup {f}
  /\ UNCHANGED <<pc, staged, server, persistent, orphans, helper, history>>

OrphanComplete ==
  /\ pc = "orphan" /\ orphan = inTarget
  /\ orphans' = orphans \cup {orphan} /\ orphan' = {} /\ pc' = "rmtree"
  /\ UNCHANGED <<staged, server, persistent, helper, history>>

\* shutil.rmtree of the server's directory, file by file and then itself.
RemoveFile ==
  /\ pc = "rmtree"
  /\ \E f \in inTarget : inTarget' = inTarget \ {f}
  /\ UNCHANGED <<call, target, persistent, orphans, helper, history>>

\* Mutant of RemoveDirectory: the call returns instead of going on to the link.
RemoveWithoutLink ==
  /\ pc = "rmtree" /\ inTarget = {}
  /\ target' = "none" /\ pc' = "idle"
  /\ UNCHANGED <<staged, orphan, inTarget, persistent, orphans, helper, history>>

RemoveDirectory ==
  /\ pc = "rmtree" /\ inTarget = {}
  /\ target' = "none" /\ pc' = "link"
  /\ UNCHANGED <<staged, orphan, inTarget, persistent, orphans, helper, history>>

Link ==
  /\ pc = "link"
  /\ target' = "link" /\ pc' = "idle"
  /\ UNCHANGED <<staged, orphan, inTarget, persistent, orphans, helper, history>>

\* An OSError, or the container is killed.  The temporary directory is removed
\* or never read again; an incomplete orphan is removed unless that fails too.
EnsureStops ==
  /\ pc # "idle" /\ failures < MaxFailures
  /\ pc' = "idle" /\ staged' = {} /\ orphan' = {}
  /\ \/ UNCHANGED orphans
     \/ pc = "orphan" /\ orphans' = orphans \cup {orphan}
  /\ failures' = failures + 1
  /\ UNCHANGED <<server, persistent, helper, made, emptied>>

-----------------------------------------------------------------------------
(* restore.sh, under its own lock *)

RestoreBegins ==
  /\ Unlocked
  /\ \E a \in Archives : archive' = a
  /\ restore' = "extract"
  /\ UNCHANGED <<call, server, persistent, orphans, stage, moved, previous, history>>

ExtractFile ==
  /\ restore = "extract"
  /\ \E f \in archive \ stage : stage' = stage \cup {f}
  /\ UNCHANGED <<call, server, persistent, orphans, restore, archive, moved, previous, history>>

\* The script exits, and its staging directory is removed or never read again.
RestoreEnds == restore' = "none" /\ archive' = {} /\ stage' = {} /\ moved' = {}

\* The archive is refused, tar or the first rename fails, or the script is
\* killed: set -e leaves saved_dir alone.
RestoreFails ==
  /\ restore = "extract" /\ failures < MaxFailures
  /\ RestoreEnds
  /\ failures' = failures + 1
  /\ UNCHANGED <<call, server, persistent, orphans, previous, made, emptied>>

\* The saved directory, if there is one, is renamed.
Aside ==
  /\ restore = "extract" /\ stage = archive
  /\ moved' = IF exists THEN {saved} ELSE {}
  /\ exists' = FALSE /\ saved' = {} /\ restore' = "swap"
  /\ UNCHANGED <<call, server, orphans, archive, stage, previous, history>>

Swap ==
  /\ restore = "swap"
  /\ exists' = TRUE /\ saved' = stage
  /\ previous' = previous \cup moved
  /\ RestoreEnds
  /\ made' = made \cup WorldsIn(stage)
  /\ emptied' = (emptied \/ stage = {})
  /\ UNCHANGED <<call, server, orphans, failures>>

\* The second rename fails and the first is undone.
SwapUndone ==
  /\ restore = "swap" /\ failures < MaxFailures
  /\ exists' = TRUE /\ saved' \in moved
  /\ RestoreEnds
  /\ failures' = failures + 1
  /\ UNCHANGED <<call, server, orphans, previous, made, emptied>>

\* It cannot be undone, or the script is killed between the renames.
SwapTorn ==
  /\ restore = "swap" /\ failures < MaxFailures
  /\ previous' = previous \cup moved
  /\ RestoreEnds
  /\ emptied' = TRUE
  /\ failures' = failures + 1
  /\ UNCHANGED <<call, server, persistent, orphans, made>>

-----------------------------------------------------------------------------
(* The others who write to the volume, the supervisor not being in the call *)

\* SteamCMD installs, or an operator copies, a Saved directory.
SavedAppears ==
  /\ Unlocked /\ target # "other"
  /\ \E w \in Shipped : inTarget' = inTarget \cup Whole(w) /\ made' = made \cup {w}
  /\ target' = "dir"
  /\ UNCHANGED <<call, persistent, orphans, helper, emptied, failures>>

\* The game saves a world through the link.
Play ==
  /\ Unlocked /\ target = "link" /\ exists
  /\ \E w \in Played : saved' = saved \cup Whole(w) /\ made' = made \cup {w}
  /\ UNCHANGED <<call, server, exists, orphans, helper, emptied, failures>>

EnsureSteps == \/ Check \/ CopyFile \/ Publish \/ OrphanFile \/ OrphanComplete
               \/ RemoveFile \/ RemoveDirectory \/ Link
RestoreSteps == ExtractFile \/ Aside \/ Swap

Next == \/ EnsureBegins \/ EnsureSteps \/ EnsureStops
        \/ RestoreBegins \/ RestoreSteps \/ RestoreFails \/ SwapUndone \/ SwapTorn
        \/ SavedAppears \/ Play

Spec == Init /\ [][Next]_vars

\* A started copy or swap goes on, and the supervisor, which makes the call at
\* every preparation and after every update, gets the lock between restores.
FairSpec == Spec /\ WF_vars(EnsureSteps) /\ WF_vars(RestoreSteps) /\ SF_vars(EnsureBegins)

-----------------------------------------------------------------------------
(* Properties *)

Retained == {saved} \cup orphans \cup moved \cup previous

\* Whatever fails or is killed in a migration or a restore (steamcmd.py:50-72,
\* restore.sh:66-75), every world that has been in a Saved directory is in one
\* piece in some directory that neither of them will remove.
NothingLost == \A w \in made : \E d \in Retained \cup {inTarget} : Whole(w) \subseteq d

Complete(d) == \A f \in d : Whole(f[1]) \subseteq d

\* "Publish only a complete copy" (steamcmd.py:51-52): the persistent directory
\* never shows a part of a world, even when the directory migrated is one that
\* an earlier rmtree has half removed; unless a restore has taken the saves away.
PublishedWhole == emptied \/ Complete(saved)

\* When ensure_saved_link returns, the game writes to the persistent directory
\* (steamcmd.py:46-47, 75); after an exception it may not.
ReturnsLinked ==
  [][pc # "idle" /\ pc' = "idle" /\ failures' = failures => target' = "link" /\ exists']_vars

\* However often the migration is cut short, its retries finish it: a Saved
\* directory of the server becomes the link in the end (steamcmd.py:51-52).
MigrationCompletes == target = "dir" ~> target = "link"
=============================================================================
