------------------------------ MODULE WinePrefix ------------------------------
(***************************************************************************)
(* prepare_wine_prefix (wine.py): the prefix is recreated when asked for,  *)
(* when its creation was interrupted, or when Wine has changed; what was   *)
(* made is known from system.reg, the version file and the marker of an    *)
(* incomplete creation.  Any step may fail, and the container may be       *)
(* killed between any two and come back with another image and settings.   *)
(***************************************************************************)
EXTENDS Naturals

CONSTANTS
  Versions,     \* the versions of Wine in the images, positive
  MaxLives,     \* bound: starts of the container
  MaxFaults     \* bound: failing steps and kills

VARIABLES
  image, reset, onChange, xvfb,  \* Wine in the image; the three settings
  dir, reg, made,  \* the prefix exists; so does its system.reg; the version
                   \* whose wineboot completed it, 0 if none did
  torn,            \* history: "half": a removal has begun, and no wineboot has
                   \* completed what it left; "forgotten": and since it began the
                   \* image or a setting that asks for removals changed
  adopted,         \* history: the version file took a new image's version for
                   \* this prefix while changes of version were not looked at
  stamp, marker,   \* the version file, 0 if unreadable; wine-incomplete
  wineboot,        \* "none", "running", "done": exited 0, but its registry is
                   \* in the wineserver's memory still
  pc, lives, faults

setting == <<image, reset, onChange, xvfb>>
prefix  == <<dir, reg, made, torn, adopted>>
record  == <<stamp, marker>>
vars    == <<setting, prefix, record, wineboot, pc, lives, faults>>

TypeOK ==
  /\ image \in Versions /\ reset \in BOOLEAN /\ onChange \in BOOLEAN /\ xvfb \in BOOLEAN
  /\ dir \in BOOLEAN /\ reg \in BOOLEAN /\ made \in Versions \cup {0}
  /\ (reg => dir) /\ (made # 0 => reg) /\ torn \in {"no", "half", "forgotten"}
  /\ adopted \in BOOLEAN
  /\ stamp \in Versions \cup {0} /\ marker \in BOOLEAN
  /\ wineboot \in {"none", "running", "done"} /\ (wineboot # "none" => marker)
  /\ pc \in {"down", "enter", "remove", "create", "boot", "settle", "cleanup", "stamp", "fill", "unmark",
             "ready", "failed"}
  /\ lives \in 0 .. MaxLives /\ faults \in 0 .. MaxFaults

\* A new volume.
Init ==
  /\ image \in Versions /\ reset \in BOOLEAN /\ onChange \in BOOLEAN /\ xvfb \in BOOLEAN
  /\ dir = FALSE /\ reg = FALSE /\ made = 0 /\ torn = "no" /\ adopted = FALSE /\ stamp = 0 /\ marker = FALSE
  /\ wineboot = "none" /\ pc = "down" /\ lives = 0 /\ faults = 0

-----------------------------------------------------------------------------
(* The container *)

\* With it die wineboot and the wineserver.
Down == pc' = "down" /\ wineboot' = "none" /\ UNCHANGED <<setting, prefix, record, lives>>
Killed   == pc # "down" /\ faults < MaxFaults /\ faults' = faults + 1 /\ Down
Recreate == pc = "ready" /\ lives < MaxLives /\ UNCHANGED faults /\ Down

Boot ==
  /\ pc = "down" /\ pc' = "enter"
  /\ image' \in Versions /\ reset' \in BOOLEAN /\ onChange' \in BOOLEAN /\ xvfb' \in BOOLEAN
  /\ (lives >= MaxLives => UNCHANGED setting)
  /\ lives' = (IF lives < MaxLives THEN lives + 1 ELSE lives)
  /\ torn' = IF torn = "no" \/ UNCHANGED <<image, reset, onChange>> THEN torn ELSE "forgotten"
  /\ UNCHANGED <<dir, reg, made, adopted, record, wineboot, faults>>

-----------------------------------------------------------------------------
(* prepare_wine_prefix *)

Step(from, to) == pc = from /\ pc' = to /\ UNCHANGED <<setting, lives>>

Fault == faults < MaxFaults /\ faults' = faults + 1

Outdated == onChange /\ reg /\ stamp # image

\* Mutant of Resets: the marker is not looked at.
ResetsUnmarked == reset \/ Outdated

Resets == reset \/ marker \/ Outdated

Enter ==
  /\ Step("enter", IF Resets /\ dir THEN "remove" ELSE "create")
  /\ UNCHANGED <<prefix, record, wineboot, faults>>

\* rmtree, entry by entry in an order of its own; system.reg is one of them.
RemoveSome ==
  /\ dir /\ (made # 0 \/ reg)
  /\ made' = 0 /\ reg' \in {reg, FALSE} /\ torn' = "half" /\ Step("remove", "remove")
  /\ UNCHANGED <<dir, adopted, record, wineboot, faults>>

Removed ==
  /\ dir' = FALSE /\ reg' = FALSE /\ made' = 0 /\ torn' = "no" /\ adopted' = FALSE
  /\ Step("remove", "create")
  /\ UNCHANGED <<record, wineboot, faults>>

\* A system.reg is taken for a whole prefix; without it, the marker comes first.
Create ==
  /\ Step("create", IF reg THEN "stamp" ELSE "boot")
  /\ IF reg THEN UNCHANGED <<marker, wineboot>> ELSE marker' = TRUE /\ wineboot' = "running"
  /\ UNCHANGED <<prefix, stamp, faults>>

\* What wineboot writes early may include a system.reg.
WinebootWrites ==
  /\ wineboot = "running"
  /\ dir' = TRUE /\ reg' = TRUE
  /\ UNCHANGED <<setting, made, torn, adopted, record, wineboot, pc, lives, faults>>

\* A wineboot has completed the prefix, and its registry is on disk.
Completed ==
  /\ dir' = TRUE /\ reg' = TRUE /\ made' = image /\ torn' = "no" /\ adopted' = FALSE
  /\ wineboot' = "none"

\* The wineserver saves the registry when it ends, with or without -k.
WineserverEnds ==
  /\ wineboot = "done" /\ Completed
  /\ UNCHANGED <<setting, record, pc, lives, faults>>

\* Without xvfb prepare has to wait for the wineserver; with it the script has.
WinebootSucceeds ==
  /\ wineboot = "running"
  /\ IF xvfb THEN Completed ELSE wineboot' = "done" /\ UNCHANGED prefix
  /\ Step("boot", IF xvfb THEN "stamp" ELSE "settle") /\ UNCHANGED <<record, faults>>

\* _stop_wineserver: -k, and -w, which returns when it has gone.
Settle ==
  /\ wineboot = "none" /\ Step("settle", "stamp")
  /\ UNCHANGED <<prefix, record, wineboot, faults>>

\* wineboot fails or takes too long, a heartbeat raises, the preparation is
\* cancelled, or the wineserver does not stop in time.
WinebootFails ==
  /\ Fault /\ pc \in {"boot", "settle"} /\ Step(pc, "cleanup")
  /\ UNCHANGED <<prefix, record, wineboot>>

\* Mutant of Cleanup: it waits for the processes but does not end them.
CleanupWaiting ==
  /\ Step("cleanup", "failed") /\ wineboot = "none"
  /\ UNCHANGED <<prefix, record, wineboot, faults>>

\* _terminate_process_group and _stop_wineserver, on the way out.
Cleanup ==
  /\ Step("cleanup", "failed") /\ wineboot' = "none"
  /\ UNCHANGED <<prefix, record, faults>>

\* write_text truncates the version file before it writes it.
Truncate == Step("stamp", "fill") /\ stamp' = 0 /\ UNCHANGED <<prefix, marker, wineboot, faults>>
Fill ==
  /\ Step("fill", "unmark") /\ stamp' = image
  /\ adopted' = (adopted \/ (~onChange /\ made # image))
  /\ UNCHANGED <<dir, reg, made, torn, marker, wineboot, faults>>
Unmark == Step("unmark", "ready") /\ marker' = FALSE /\ UNCHANGED <<prefix, stamp, wineboot, faults>>

\* An OSError of any file operation, or of `wine --version'.
FileFails ==
  /\ Fault /\ pc \in {"enter", "remove", "create", "stamp", "fill", "unmark"} /\ Step(pc, "failed")
  /\ UNCHANGED <<prefix, record, wineboot>>

\* prepare_initial tries again after its delay.
Retry == Step("failed", "enter") /\ UNCHANGED <<prefix, record, wineboot, faults>>

-----------------------------------------------------------------------------
Proceeds ==
  \/ Boot \/ Enter \/ RemoveSome \/ Removed \/ Create \/ WinebootSucceeds \/ Settle
  \/ Cleanup \/ Truncate \/ Fill \/ Unmark \/ Retry \/ WineserverEnds

Next == Proceeds \/ WinebootWrites \/ WinebootFails \/ FileFails \/ Killed \/ Recreate

\* Docker restarts the container, retries have a delay, and wineboot and
\* wineserver have timeouts; their running into those counts as a fault.
Spec == Init /\ [][Next]_vars /\ WF_vars(Proceeds)

-----------------------------------------------------------------------------
(* Properties *)

\* The game is started only on a prefix that a wineboot has completed and whose
\* registry is on disk, made by the image's own Wine if that is asked for,
\* whatever was interrupted in this life or before (wine.py:114-136, 187).  There
\* are two exceptions.  Of a removal that was interrupted nothing tells but the
\* image and the settings that asked for it (wine.py:125-131), and these have
\* changed; and a prefix of another version has the image's in the version file
\* since a preparation that was not asked to look at changes (wine.py:118-123, 186).
PrefixSound ==
  pc = "ready" /\ torn # "forgotten" => made # 0 /\ (onChange => made = image \/ adopted)

\* A volume is never stuck: whatever was left behind, the preparation succeeds
\* once the faults are over (supervisor.py:155-186).
PreparedAtLast == pc = "enter" ~> pc = "ready"
=============================================================================
