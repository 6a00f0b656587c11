-------------------------- MODULE SavedDataProofs --------------------------
(***************************************************************************)
(* Theorems about SavedData, for any worlds, any files and any number of   *)
(* failures: nothing is lost, and nothing incomplete is published.         *)
(***************************************************************************)
EXTENDS SavedData, TLAPS

\* What is known at each point of ensure_saved_link.
CallInv ==
  /\ pc # "idle" => exists /\ restore = "none"
  /\ pc \in {"copy", "orphan", "rmtree"} => target = "dir"
  /\ pc = "copy" => saved = {}
  /\ pc = "orphan" => saved # {}
  /\ pc = "link" => target = "none"

\* NothingLost is not inductive: rmtree may begin only when the other copies suffice.
RemovalInv ==
  pc = "rmtree" => \A w \in made : \E d \in Retained : Whole(w) \subseteq d

\* Between the two renames the saved directory is away and the archive unpacked.
SwapInv ==
  /\ restore # "swap" => moved = {}
  /\ restore = "swap" => ~exists /\ stage = archive

\* PublishedWhole is not inductive either: a half removed directory of the
\* server must not find saved_dir empty at the next attempt.
PartialInv ==
  ~emptied =>
    /\ \A d \in {saved} \cup moved : Complete(d)
    /\ ~Complete(inTarget) \/ (pc = "rmtree" /\ inTarget # {})
         => \E d \in {saved} \cup moved : d # {}

IInv == TypeOK /\ NothingLost /\ CallInv /\ RemovalInv /\ SwapInv /\ PartialInv

-----------------------------------------------------------------------------

\* A world has files, and they are files of no other world.
LEMMA WorldFiles ==
  ASSUME NEW w
  PROVE  Whole(w) # {} /\ (\A f \in Whole(w) : f[1] = w) /\ (w \in Worlds => Whole(w) \subseteq Files)
<1>1. PICK p \in Parts : TRUE  BY PartsAssumption
<1>2. <<w, p>> \in Whole(w)  BY <1>1 DEF Whole
<1>3. \A f \in Whole(w) : f[1] = w  BY DEF Whole
<1>4. w \in Worlds => Whole(w) \subseteq Files  BY DEF Whole, Files
<1> QED BY <1>2, <1>3, <1>4

\* Archives hold files, and only whole worlds.
LEMMA ArchiveFiles == \A a \in Archives : a \subseteq Files /\ Complete(a)
  BY WorldFiles DEF Archives, Worlds, Complete

\* Worlds added to a directory leave it complete if it was.
LEMMA CompleteWorld ==
  ASSUME NEW d, NEW w, Complete(d)
  PROVE  Complete(d \cup Whole(w))
<1> SUFFICES ASSUME NEW f \in d \cup Whole(w) PROVE Whole(f[1]) \subseteq d \cup Whole(w)
  BY DEF Complete
<1>1. CASE f \in d  BY <1>1 DEF Complete
<1>2. CASE f \in Whole(w)  BY <1>2, WorldFiles
<1> QED BY <1>1, <1>2

\* The invariant holds at the start.
LEMMA InvInit == Init => IInv
<1> SUFFICES ASSUME Init PROVE IInv OBVIOUS
<1>1. \A w \in Shipped \cup Played : Whole(w) \subseteq Files
  BY WorldFiles DEF Worlds
<1>2. /\ inTarget \subseteq Files /\ (target # "dir" => inTarget = {}) /\ Complete(inTarget)
      /\ target \in {"none", "link", "other", "dir"}
  <2>1. CASE target \in {"none", "other", "link"} /\ inTarget = {}
    BY <2>1 DEF Complete
  <2>2. CASE target = "dir" /\ \E w \in Shipped : inTarget = Whole(w)
    BY <2>2, <1>1, WorldFiles DEF Complete
  <2> QED BY <2>1, <2>2 DEF Init
<1>3. saved \subseteq Files /\ (~exists => saved = {}) /\ Complete(saved)
  <2>1. CASE saved = {}
    BY <2>1 DEF Complete
  <2>2. CASE exists /\ \E w \in Played : saved = Whole(w)
    BY <2>2, <1>1, WorldFiles DEF Complete
  <2> QED BY <2>1, <2>2 DEF Init
<1>4. TypeOK
  <2>1. made \subseteq Worlds
    BY DEF Init, WorldsIn
  <2>2. archive \in Archives /\ stage \subseteq archive
    BY DEF Init, Archives
  <2>3. failures \in 0 .. MaxFailures
    BY FailuresAssumption DEF Init
  <2>4. orphans = {} /\ moved = {} /\ previous = {} /\ staged = {} /\ orphan = {}
    BY DEF Init
  <2> QED BY <1>2, <1>3, <2>1, <2>2, <2>3, <2>4 DEF Init, TypeOK, CallType, ServerType,
         SavedType, RestoreType, HistoryType
<1>5. NothingLost
  BY DEF NothingLost, Retained, Init, WorldsIn
<1>6. CallInv /\ RemovalInv /\ SwapInv
  BY DEF Init, CallInv, RemovalInv, SwapInv
<1>7. PartialInv
  BY <1>2, <1>3 DEF Init, PartialInv
<1> QED BY <1>4, <1>5, <1>6, <1>7 DEF IInv

\* The types of ensure_saved_link's variables are preserved.
LEMMA CallTypeStep == IInv /\ [Next]_vars => CallType'
<1> SUFFICES ASSUME IInv, [Next]_vars PROVE CallType'  OBVIOUS
<1> USE DEF IInv, TypeOK, CallType, ServerType
<1>1. CASE EnsureBegins
  BY <1>1 DEF EnsureBegins, server, helper, history, Unlocked
<1>2. CASE Check
  BY <1>2 DEF Check, Examine, persistent, helper, history
<1>3. CASE CopyFile
  BY <1>3 DEF CopyFile, server, persistent, helper, history
<1>4. CASE Publish
  BY <1>4 DEF Publish, server, helper, history
<1>5. CASE OrphanFile
  BY <1>5 DEF OrphanFile, server, persistent, helper, history
<1>6. CASE OrphanComplete
  BY <1>6 DEF OrphanComplete, server, persistent, helper, history
<1>7. CASE RemoveFile
  BY <1>7 DEF RemoveFile, call, persistent, helper, history
<1>8. CASE RemoveDirectory
  BY <1>8 DEF RemoveDirectory, persistent, helper, history
<1>9. CASE Link
  BY <1>9 DEF Link, persistent, helper, history
<1>10. CASE EnsureStops
  BY <1>10 DEF EnsureStops, server, persistent, helper
<1>11. CASE RestoreBegins
  BY <1>11 DEF RestoreBegins, call, server, persistent, history, Unlocked
<1>12. CASE ExtractFile
  BY <1>12 DEF ExtractFile, call, server, persistent, history
<1>13. CASE RestoreFails
  BY <1>13 DEF RestoreFails, call, server, persistent, RestoreEnds
<1>14. CASE Aside
  BY <1>14 DEF Aside, call, server, history
<1>15. CASE Swap
  BY <1>15 DEF Swap, call, server, RestoreEnds
<1>16. CASE SwapUndone
  BY <1>16 DEF SwapUndone, call, server, RestoreEnds
<1>17. CASE SwapTorn
  BY <1>17 DEF SwapTorn, call, server, persistent, RestoreEnds
<1>18. CASE SavedAppears
  BY <1>18 DEF SavedAppears, call, persistent, helper, Unlocked
<1>19. CASE Play
  BY <1>19 DEF Play, call, server, helper, Unlocked
<1>20. CASE UNCHANGED vars
  BY <1>20 DEF vars, call, server, persistent, helper, history
<1> QED BY <1>1, <1>2, <1>3, <1>4, <1>5, <1>6, <1>7, <1>8, <1>9, <1>10, <1>11, <1>12, <1>13, <1>14, <1>15, <1>16, <1>17, <1>18, <1>19, <1>20 DEF Next, EnsureSteps, RestoreSteps

\* The server's directory: only a directory holds files.
LEMMA ServerTypeStep == IInv /\ [Next]_vars => ServerType'
<1> SUFFICES ASSUME IInv, [Next]_vars PROVE ServerType'  OBVIOUS
<1> USE DEF IInv, TypeOK, ServerType, CallInv
<1>1. CASE EnsureBegins
  BY <1>1 DEF EnsureBegins, server, helper, history, Unlocked
<1>2. CASE Check
  BY <1>2 DEF Check, Examine, persistent, helper, history
<1>3. CASE CopyFile
  BY <1>3 DEF CopyFile, server, persistent, helper, history
<1>4. CASE Publish
  BY <1>4 DEF Publish, server, helper, history
<1>5. CASE OrphanFile
  BY <1>5 DEF OrphanFile, server, persistent, helper, history
<1>6. CASE OrphanComplete
  BY <1>6 DEF OrphanComplete, server, persistent, helper, history
<1>7. CASE RemoveFile
  BY <1>7 DEF RemoveFile, call, persistent, helper, history
<1>8. CASE RemoveDirectory
  BY <1>8 DEF RemoveDirectory, persistent, helper, history
<1>9. CASE Link
  BY <1>9 DEF Link, persistent, helper, history
<1>10. CASE EnsureStops
  BY <1>10 DEF EnsureStops, server, persistent, helper
<1>11. CASE RestoreBegins
  BY <1>11 DEF RestoreBegins, call, server, persistent, history, Unlocked
<1>12. CASE ExtractFile
  BY <1>12 DEF ExtractFile, call, server, persistent, history
<1>13. CASE RestoreFails
  BY <1>13 DEF RestoreFails, call, server, persistent, RestoreEnds
<1>14. CASE Aside
  BY <1>14 DEF Aside, call, server, history
<1>15. CASE Swap
  BY <1>15 DEF Swap, call, server, RestoreEnds
<1>16. CASE SwapUndone
  BY <1>16 DEF SwapUndone, call, server, RestoreEnds
<1>17. CASE SwapTorn
  BY <1>17 DEF SwapTorn, call, server, persistent, RestoreEnds
<1>18. CASE SavedAppears
  BY <1>18, WorldFiles DEF SavedAppears, call, persistent, helper, Unlocked, Worlds
<1>19. CASE Play
  BY <1>19 DEF Play, call, server, helper, Unlocked
<1>20. CASE UNCHANGED vars
  BY <1>20 DEF vars, call, server, persistent, helper, history
<1> QED BY <1>1, <1>2, <1>3, <1>4, <1>5, <1>6, <1>7, <1>8, <1>9, <1>10, <1>11, <1>12, <1>13, <1>14, <1>15, <1>16, <1>17, <1>18, <1>19, <1>20 DEF Next, EnsureSteps, RestoreSteps

\* The persistent directory: only an existing one holds files.
LEMMA SavedTypeStep == IInv /\ [Next]_vars => SavedType'
<1> SUFFICES ASSUME IInv, [Next]_vars PROVE SavedType'  OBVIOUS
<1> USE DEF IInv, TypeOK, SavedType, CallInv
<1>1. CASE EnsureBegins
  BY <1>1 DEF EnsureBegins, server, helper, history, Unlocked
<1>2. CASE Check
  BY <1>2 DEF Check, Examine, persistent, helper, history
<1>3. CASE CopyFile
  BY <1>3 DEF CopyFile, server, persistent, helper, history
<1>4. CASE Publish
  BY <1>4 DEF Publish, server, helper, history, ServerType
<1>5. CASE OrphanFile
  BY <1>5 DEF OrphanFile, server, persistent, helper, history
<1>6. CASE OrphanComplete
  BY <1>6 DEF OrphanComplete, server, persistent, helper, history
<1>7. CASE RemoveFile
  BY <1>7 DEF RemoveFile, call, persistent, helper, history
<1>8. CASE RemoveDirectory
  BY <1>8 DEF RemoveDirectory, persistent, helper, history
<1>9. CASE Link
  BY <1>9 DEF Link, persistent, helper, history
<1>10. CASE EnsureStops
  BY <1>10 DEF EnsureStops, server, persistent, helper
<1>11. CASE RestoreBegins
  BY <1>11 DEF RestoreBegins, call, server, persistent, history, Unlocked
<1>12. CASE ExtractFile
  BY <1>12 DEF ExtractFile, call, server, persistent, history
<1>13. CASE RestoreFails
  BY <1>13 DEF RestoreFails, call, server, persistent, RestoreEnds
<1>14. CASE Aside
  BY <1>14 DEF Aside, call, server, history
<1>15. CASE Swap
  BY <1>15, ArchiveFiles DEF Swap, call, server, RestoreEnds, RestoreType
<1>16. CASE SwapUndone
  BY <1>16 DEF SwapUndone, call, server, RestoreEnds, RestoreType
<1>17. CASE SwapTorn
  BY <1>17 DEF SwapTorn, call, server, persistent, RestoreEnds
<1>18. CASE SavedAppears
  BY <1>18 DEF SavedAppears, call, persistent, helper, Unlocked
<1>19. CASE Play
  BY <1>19, WorldFiles DEF Play, call, server, helper, Unlocked, Worlds
<1>20. CASE UNCHANGED vars
  BY <1>20 DEF vars, call, server, persistent, helper, history
<1> QED BY <1>1, <1>2, <1>3, <1>4, <1>5, <1>6, <1>7, <1>8, <1>9, <1>10, <1>11, <1>12, <1>13, <1>14, <1>15, <1>16, <1>17, <1>18, <1>19, <1>20 DEF Next, EnsureSteps, RestoreSteps

\* restore.sh stages files of its archive and moves at most one directory.
LEMMA RestoreTypeStep == IInv /\ [Next]_vars => RestoreType'
<1> SUFFICES ASSUME IInv, [Next]_vars PROVE RestoreType'  OBVIOUS
<1> USE DEF IInv, TypeOK, RestoreType
<1>1. CASE EnsureBegins
  BY <1>1 DEF EnsureBegins, server, helper, history, Unlocked
<1>2. CASE Check
  BY <1>2 DEF Check, Examine, persistent, helper, history
<1>3. CASE CopyFile
  BY <1>3 DEF CopyFile, server, persistent, helper, history
<1>4. CASE Publish
  BY <1>4 DEF Publish, server, helper, history
<1>5. CASE OrphanFile
  BY <1>5 DEF OrphanFile, server, persistent, helper, history
<1>6. CASE OrphanComplete
  BY <1>6 DEF OrphanComplete, server, persistent, helper, history
<1>7. CASE RemoveFile
  BY <1>7 DEF RemoveFile, call, persistent, helper, history
<1>8. CASE RemoveDirectory
  BY <1>8 DEF RemoveDirectory, persistent, helper, history
<1>9. CASE Link
  BY <1>9 DEF Link, persistent, helper, history
<1>10. CASE EnsureStops
  BY <1>10 DEF EnsureStops, server, persistent, helper
<1>11. CASE RestoreBegins
  BY <1>11 DEF RestoreBegins, call, server, persistent, history, Unlocked
<1>12. CASE ExtractFile
  BY <1>12 DEF ExtractFile, call, server, persistent, history
<1>13. CASE RestoreFails
  BY <1>13 DEF RestoreFails, call, server, persistent, RestoreEnds, Archives
<1>14. CASE Aside
  BY <1>14 DEF Aside, call, server, history, SavedType
<1>15. CASE Swap
  BY <1>15 DEF Swap, call, server, RestoreEnds, Archives
<1>16. CASE SwapUndone
  BY <1>16 DEF SwapUndone, call, server, RestoreEnds, Archives
<1>17. CASE SwapTorn
  BY <1>17 DEF SwapTorn, call, server, persistent, RestoreEnds, Archives
<1>18. CASE SavedAppears
  BY <1>18 DEF SavedAppears, call, persistent, helper, Unlocked
<1>19. CASE Play
  BY <1>19 DEF Play, call, server, helper, Unlocked
<1>20. CASE UNCHANGED vars
  BY <1>20 DEF vars, call, server, persistent, helper, history
<1> QED BY <1>1, <1>2, <1>3, <1>4, <1>5, <1>6, <1>7, <1>8, <1>9, <1>10, <1>11, <1>12, <1>13, <1>14, <1>15, <1>16, <1>17, <1>18, <1>19, <1>20 DEF Next, EnsureSteps, RestoreSteps

\* The histories.
LEMMA HistoryTypeStep == IInv /\ [Next]_vars => HistoryType'
<1> SUFFICES ASSUME IInv, [Next]_vars PROVE HistoryType'  OBVIOUS
<1> USE DEF IInv, TypeOK, HistoryType
<1>1. CASE EnsureBegins
  BY <1>1 DEF EnsureBegins, server, helper, history, Unlocked
<1>2. CASE Check
  BY <1>2 DEF Check, Examine, persistent, helper, history
<1>3. CASE CopyFile
  BY <1>3 DEF CopyFile, server, persistent, helper, history
<1>4. CASE Publish
  BY <1>4 DEF Publish, server, helper, history
<1>5. CASE OrphanFile
  BY <1>5 DEF OrphanFile, server, persistent, helper, history
<1>6. CASE OrphanComplete
  BY <1>6 DEF OrphanComplete, server, persistent, helper, history
<1>7. CASE RemoveFile
  BY <1>7 DEF RemoveFile, call, persistent, helper, history
<1>8. CASE RemoveDirectory
  BY <1>8 DEF RemoveDirectory, persistent, helper, history
<1>9. CASE Link
  BY <1>9 DEF Link, persistent, helper, history
<1>10. CASE EnsureStops
  BY <1>10, FailuresAssumption DEF EnsureStops, server, persistent, helper
<1>11. CASE RestoreBegins
  BY <1>11 DEF RestoreBegins, call, server, persistent, history, Unlocked
<1>12. CASE ExtractFile
  BY <1>12 DEF ExtractFile, call, server, persistent, history
<1>13. CASE RestoreFails
  BY <1>13, FailuresAssumption DEF RestoreFails, call, server, persistent, RestoreEnds
<1>14. CASE Aside
  BY <1>14 DEF Aside, call, server, history
<1>15. CASE Swap
  BY <1>15 DEF Swap, call, server, RestoreEnds, WorldsIn
<1>16. CASE SwapUndone
  BY <1>16, FailuresAssumption DEF SwapUndone, call, server, RestoreEnds
<1>17. CASE SwapTorn
  BY <1>17, FailuresAssumption DEF SwapTorn, call, server, persistent, RestoreEnds
<1>18. CASE SavedAppears
  BY <1>18 DEF SavedAppears, call, persistent, helper, Unlocked, Worlds
<1>19. CASE Play
  BY <1>19 DEF Play, call, server, helper, Unlocked, Worlds
<1>20. CASE UNCHANGED vars
  BY <1>20 DEF vars, call, server, persistent, helper, history
<1> QED BY <1>1, <1>2, <1>3, <1>4, <1>5, <1>6, <1>7, <1>8, <1>9, <1>10, <1>11, <1>12, <1>13, <1>14, <1>15, <1>16, <1>17, <1>18, <1>19, <1>20 DEF Next, EnsureSteps, RestoreSteps

\* saved_dir is away exactly between the renames.
LEMMA SwapStep == IInv /\ [Next]_vars => SwapInv'
<1> SUFFICES ASSUME IInv, [Next]_vars PROVE SwapInv'  OBVIOUS
<1> USE DEF IInv, TypeOK, SwapInv, CallInv
<1>1. CASE EnsureBegins
  BY <1>1 DEF EnsureBegins, server, helper, history, Unlocked
<1>2. CASE Check
  BY <1>2 DEF Check, Examine, persistent, helper, history
<1>3. CASE CopyFile
  BY <1>3 DEF CopyFile, server, persistent, helper, history
<1>4. CASE Publish
  BY <1>4 DEF Publish, server, helper, history
<1>5. CASE OrphanFile
  BY <1>5 DEF OrphanFile, server, persistent, helper, history
<1>6. CASE OrphanComplete
  BY <1>6 DEF OrphanComplete, server, persistent, helper, history
<1>7. CASE RemoveFile
  BY <1>7 DEF RemoveFile, call, persistent, helper, history
<1>8. CASE RemoveDirectory
  BY <1>8 DEF RemoveDirectory, persistent, helper, history
<1>9. CASE Link
  BY <1>9 DEF Link, persistent, helper, history
<1>10. CASE EnsureStops
  BY <1>10 DEF EnsureStops, server, persistent, helper
<1>11. CASE RestoreBegins
  BY <1>11 DEF RestoreBegins, call, server, persistent, history, Unlocked
<1>12. CASE ExtractFile
  BY <1>12 DEF ExtractFile, call, server, persistent, history
<1>13. CASE RestoreFails
  BY <1>13 DEF RestoreFails, call, server, persistent, RestoreEnds
<1>14. CASE Aside
  BY <1>14 DEF Aside, call, server, history
<1>15. CASE Swap
  BY <1>15 DEF Swap, call, server, RestoreEnds
<1>16. CASE SwapUndone
  BY <1>16 DEF SwapUndone, call, server, RestoreEnds
<1>17. CASE SwapTorn
  BY <1>17 DEF SwapTorn, call, server, persistent, RestoreEnds
<1>18. CASE SavedAppears
  BY <1>18 DEF SavedAppears, call, persistent, helper, Unlocked
<1>19. CASE Play
  BY <1>19 DEF Play, call, server, helper, Unlocked
<1>20. CASE UNCHANGED vars
  BY <1>20 DEF vars, call, server, persistent, helper, history
<1> QED BY <1>1, <1>2, <1>3, <1>4, <1>5, <1>6, <1>7, <1>8, <1>9, <1>10, <1>11, <1>12, <1>13, <1>14, <1>15, <1>16, <1>17, <1>18, <1>19, <1>20 DEF Next, EnsureSteps, RestoreSteps

\* Each point of ensure_saved_link is reached as CallInv says.
LEMMA CallStep == IInv /\ [Next]_vars => CallInv'
<1> SUFFICES ASSUME IInv, [Next]_vars PROVE CallInv'  OBVIOUS
<1> USE DEF IInv, TypeOK, CallInv, SwapInv
<1>1. CASE EnsureBegins
  BY <1>1 DEF EnsureBegins, server, helper, history, Unlocked
<1>2. CASE Check
  BY <1>2 DEF Check, Examine, persistent, helper, history
<1>3. CASE CopyFile
  BY <1>3 DEF CopyFile, server, persistent, helper, history
<1>4. CASE Publish
  BY <1>4 DEF Publish, server, helper, history
<1>5. CASE OrphanFile
  BY <1>5 DEF OrphanFile, server, persistent, helper, history
<1>6. CASE OrphanComplete
  BY <1>6 DEF OrphanComplete, server, persistent, helper, history
<1>7. CASE RemoveFile
  BY <1>7 DEF RemoveFile, call, persistent, helper, history
<1>8. CASE RemoveDirectory
  BY <1>8 DEF RemoveDirectory, persistent, helper, history
<1>9. CASE Link
  BY <1>9 DEF Link, persistent, helper, history
<1>10. CASE EnsureStops
  BY <1>10 DEF EnsureStops, server, persistent, helper
<1>11. CASE RestoreBegins
  BY <1>11 DEF RestoreBegins, call, server, persistent, history, Unlocked
<1>12. CASE ExtractFile
  BY <1>12 DEF ExtractFile, call, server, persistent, history
<1>13. CASE RestoreFails
  BY <1>13 DEF RestoreFails, call, server, persistent, RestoreEnds
<1>14. CASE Aside
  BY <1>14 DEF Aside, call, server, history
<1>15. CASE Swap
  BY <1>15 DEF Swap, call, server, RestoreEnds
<1>16. CASE SwapUndone
  BY <1>16 DEF SwapUndone, call, server, RestoreEnds
<1>17. CASE SwapTorn
  BY <1>17 DEF SwapTorn, call, server, persistent, RestoreEnds
<1>18. CASE SavedAppears
  BY <1>18 DEF SavedAppears, call, persistent, helper, Unlocked
<1>19. CASE Play
  BY <1>19 DEF Play, call, server, helper, Unlocked
<1>20. CASE UNCHANGED vars
  BY <1>20 DEF vars, call, server, persistent, helper, history
<1> QED BY <1>1, <1>2, <1>3, <1>4, <1>5, <1>6, <1>7, <1>8, <1>9, <1>10, <1>11, <1>12, <1>13, <1>14, <1>15, <1>16, <1>17, <1>18, <1>19, <1>20 DEF Next, EnsureSteps, RestoreSteps

\* rmtree begins when a copy is complete in its place, and nothing else goes meanwhile.
LEMMA RemovalStep == IInv /\ [Next]_vars => RemovalInv'
<1> SUFFICES ASSUME IInv, [Next]_vars PROVE RemovalInv'  OBVIOUS
<1> USE DEF IInv, TypeOK, CallInv, RemovalInv
<1>1. CASE EnsureBegins
  BY <1>1 DEF EnsureBegins, server, helper, history, Unlocked, Retained
<1>2. CASE Check
  BY <1>2 DEF Check, Examine, persistent, helper, history, Retained
<1>3. CASE CopyFile
  BY <1>3 DEF CopyFile, server, persistent, helper, history, Retained
<1>4. CASE Publish
  <2> SUFFICES ASSUME NEW w \in made' PROVE \E d \in Retained' : Whole(w) \subseteq d
    BY <1>4 DEF RemovalInv
  <2>1. PICK d \in Retained \cup {inTarget} : Whole(w) \subseteq d
    BY <1>4 DEF Publish, history, NothingLost
  <2>2. d # saved
    BY <1>4, <2>1, WorldFiles DEF Publish, CallInv
  <2> QED BY <1>4, <2>1, <2>2 DEF Publish, helper, Retained
<1>5. CASE OrphanFile
  BY <1>5 DEF OrphanFile, server, persistent, helper, history, Retained
<1>6. CASE OrphanComplete
  BY <1>6 DEF OrphanComplete, server, persistent, helper, history, NothingLost, Retained
<1>7. CASE RemoveFile
  BY <1>7 DEF RemoveFile, call, persistent, helper, history, Retained
<1>8. CASE RemoveDirectory
  BY <1>8 DEF RemoveDirectory, persistent, helper, history, Retained
<1>9. CASE Link
  BY <1>9 DEF Link, persistent, helper, history, Retained
<1>10. CASE EnsureStops
  BY <1>10 DEF EnsureStops, server, persistent, helper, Retained
<1>11. CASE RestoreBegins
  BY <1>11 DEF RestoreBegins, call, server, persistent, history, Unlocked, Retained
<1>12. CASE ExtractFile
  BY <1>12 DEF ExtractFile, call, server, persistent, history, Retained
<1>13. CASE RestoreFails
  BY <1>13 DEF RestoreFails, call, server, persistent, RestoreEnds, Retained
<1>14. CASE Aside
  BY <1>14 DEF Aside, call, server, history, Retained
<1>15. CASE Swap
  BY <1>15 DEF Swap, call, server, RestoreEnds, Retained
<1>16. CASE SwapUndone
  BY <1>16 DEF SwapUndone, call, server, RestoreEnds, Retained
<1>17. CASE SwapTorn
  BY <1>17 DEF SwapTorn, call, server, persistent, RestoreEnds, Retained
<1>18. CASE SavedAppears
  BY <1>18 DEF SavedAppears, call, persistent, helper, Unlocked, Retained
<1>19. CASE Play
  BY <1>19 DEF Play, call, server, helper, Unlocked, Retained
<1>20. CASE UNCHANGED vars
  BY <1>20 DEF vars, call, server, persistent, helper, history, Retained
<1> QED BY <1>1, <1>2, <1>3, <1>4, <1>5, <1>6, <1>7, <1>8, <1>9, <1>10, <1>11, <1>12, <1>13, <1>14, <1>15, <1>16, <1>17, <1>18, <1>19, <1>20 DEF Next, EnsureSteps, RestoreSteps

\* No step loses the last whole copy of a world.
LEMMA LostStep == IInv /\ [Next]_vars => NothingLost'
<1> SUFFICES ASSUME IInv, [Next]_vars PROVE NothingLost'  OBVIOUS
<1> USE DEF IInv, TypeOK
<1>1. CASE EnsureBegins
  BY <1>1 DEF NothingLost, EnsureBegins, server, helper, history, Unlocked, Retained
<1>2. CASE Check
  BY <1>2 DEF NothingLost, Check, Examine, persistent, helper, history, Retained
<1>3. CASE CopyFile
  BY <1>3 DEF NothingLost, CopyFile, server, persistent, helper, history, Retained
<1>4. CASE Publish
  <2> SUFFICES ASSUME NEW w \in made'
               PROVE  \E d \in Retained' \cup {inTarget'} : Whole(w) \subseteq d
    BY DEF NothingLost
  <2>1. PICK d \in Retained \cup {inTarget} : Whole(w) \subseteq d
    BY <1>4 DEF Publish, NothingLost, history
  <2>2. d # {}
    BY <2>1, WorldFiles
  <2> QED BY <1>4, <2>1, <2>2 DEF Publish, server, helper, history, Retained, CallInv
<1>5. CASE OrphanFile
  BY <1>5 DEF NothingLost, OrphanFile, server, persistent, helper, history, Retained
<1>6. CASE OrphanComplete
  BY <1>6 DEF NothingLost, OrphanComplete, server, persistent, helper, history, Retained
<1>7. CASE RemoveFile
  BY <1>7 DEF NothingLost, RemoveFile, call, persistent, helper, history, RemovalInv, Retained
<1>8. CASE RemoveDirectory
  BY <1>8 DEF NothingLost, RemoveDirectory, persistent, helper, history, Retained
<1>9. CASE Link
  BY <1>9 DEF NothingLost, Link, persistent, helper, history, Retained
<1>10. CASE EnsureStops
  BY <1>10 DEF NothingLost, EnsureStops, server, persistent, helper, Retained
<1>11. CASE RestoreBegins
  BY <1>11 DEF NothingLost, RestoreBegins, call, server, persistent, history, Unlocked, Retained
<1>12. CASE ExtractFile
  BY <1>12 DEF NothingLost, ExtractFile, call, server, persistent, history, Retained
<1>13. CASE RestoreFails
  BY <1>13 DEF NothingLost, RestoreFails, call, server, persistent, RestoreEnds, SwapInv, Retained
<1>14. CASE Aside
  <2> SUFFICES ASSUME NEW w \in made'
               PROVE  \E d \in Retained' \cup {inTarget'} : Whole(w) \subseteq d
    BY DEF NothingLost
  <2>1. PICK d \in Retained \cup {inTarget} : Whole(w) \subseteq d
    BY <1>14 DEF Aside, NothingLost, history
  <2>2. d # {}
    BY <2>1, WorldFiles
  <2> QED BY <1>14, <2>1, <2>2 DEF Aside, call, server, history, Retained, SavedType, SwapInv
<1>15. CASE Swap
  <2> SUFFICES ASSUME NEW w \in made'
               PROVE  \E d \in Retained' \cup {inTarget'} : Whole(w) \subseteq d
    BY DEF NothingLost
  <2>1. CASE w \notin made
    BY <1>15, <2>1 DEF Swap, Retained, WorldsIn
  <2>2. CASE w \in made
    <3>1. PICK d \in Retained \cup {inTarget} : Whole(w) \subseteq d
      BY <2>2 DEF NothingLost
    <3>2. d # {}
      BY <3>1, WorldFiles
    <3> QED BY <1>15, <3>1, <3>2 DEF Swap, call, server, RestoreEnds, Retained, SavedType, SwapInv
  <2> QED BY <2>1, <2>2
<1>16. CASE SwapUndone
  <2> SUFFICES ASSUME NEW w \in made'
               PROVE  \E d \in Retained' \cup {inTarget'} : Whole(w) \subseteq d
    BY DEF NothingLost
  <2>1. PICK d \in Retained \cup {inTarget} : Whole(w) \subseteq d
    BY <1>16 DEF SwapUndone, NothingLost
  <2>2. d # {}
    BY <2>1, WorldFiles
  <2> QED BY <1>16, <2>1, <2>2 DEF SwapUndone, call, server, RestoreEnds, Retained, SavedType, RestoreType, SwapInv
<1>17. CASE SwapTorn
  <2> SUFFICES ASSUME NEW w \in made'
               PROVE  \E d \in Retained' \cup {inTarget'} : Whole(w) \subseteq d
    BY DEF NothingLost
  <2>1. PICK d \in Retained \cup {inTarget} : Whole(w) \subseteq d
    BY <1>17 DEF SwapTorn, NothingLost
  <2>2. d # {}
    BY <2>1, WorldFiles
  <2> QED BY <1>17, <2>1, <2>2 DEF SwapTorn, call, server, persistent, RestoreEnds, Retained, SavedType, SwapInv
<1>18. CASE SavedAppears
  <2> SUFFICES ASSUME NEW w \in made'
               PROVE  \E d \in Retained' \cup {inTarget'} : Whole(w) \subseteq d
    BY DEF NothingLost
  <2>1. CASE w \notin made
    BY <1>18, <2>1 DEF SavedAppears, Retained
  <2>2. CASE w \in made
    <3>1. PICK d \in Retained \cup {inTarget} : Whole(w) \subseteq d
      BY <2>2 DEF NothingLost
    <3>2. d # {}
      BY <3>1, WorldFiles
    <3> QED BY <1>18, <3>1, <3>2 DEF SavedAppears, call, persistent, helper, Unlocked, Retained
  <2> QED BY <2>1, <2>2
<1>19. CASE Play
  <2> SUFFICES ASSUME NEW w \in made'
               PROVE  \E d \in Retained' \cup {inTarget'} : Whole(w) \subseteq d
    BY DEF NothingLost
  <2>1. CASE w \notin made
    BY <1>19, <2>1 DEF Play, Retained
  <2>2. CASE w \in made
    <3>1. PICK d \in Retained \cup {inTarget} : Whole(w) \subseteq d
      BY <2>2 DEF NothingLost
    <3>2. d # {}
      BY <3>1, WorldFiles
    <3> QED BY <1>19, <3>1, <3>2 DEF Play, call, server, helper, Unlocked, Retained
  <2> QED BY <2>1, <2>2
<1>20. CASE UNCHANGED vars
  BY <1>20 DEF NothingLost, vars, call, server, persistent, helper, history, Retained
<1> QED BY <1>1, <1>2, <1>3, <1>4, <1>5, <1>6, <1>7, <1>8, <1>9, <1>10, <1>11, <1>12, <1>13, <1>14, <1>15, <1>16, <1>17, <1>18, <1>19, <1>20 DEF Next, EnsureSteps, RestoreSteps

\* What is published stays complete.
LEMMA PartialStep == IInv /\ [Next]_vars => PartialInv'
<1> SUFFICES ASSUME IInv, [Next]_vars PROVE PartialInv'  OBVIOUS
<1> USE DEF IInv, TypeOK, PartialInv
<1>1. CASE EnsureBegins
  BY <1>1 DEF EnsureBegins, server, helper, history, Unlocked
<1>2. CASE Check
  BY <1>2 DEF Check, Examine, persistent, helper, history
<1>3. CASE CopyFile
  BY <1>3 DEF CopyFile, server, persistent, helper, history
<1>4. CASE Publish
  <2>1. staged = inTarget /\ saved = {} /\ moved = {} /\ saved' = inTarget
        /\ UNCHANGED <<moved, inTarget, emptied>>
    BY <1>4 DEF Publish, CallInv, SwapInv, server, helper, history
  <2>2. ~emptied => Complete(inTarget)
    BY <2>1
  <2> QED BY <2>1, <2>2
<1>5. CASE OrphanFile
  BY <1>5 DEF OrphanFile, server, persistent, helper, history
<1>6. CASE OrphanComplete
  BY <1>6 DEF OrphanComplete, server, persistent, helper, history, CallInv
<1>7. CASE RemoveFile
  BY <1>7 DEF RemoveFile, call, persistent, helper, history
<1>8. CASE RemoveDirectory
  BY <1>8 DEF RemoveDirectory, persistent, helper, history, Complete
<1>9. CASE Link
  BY <1>9 DEF Link, persistent, helper, history
<1>10. CASE EnsureStops
  BY <1>10 DEF EnsureStops, server, persistent, helper
<1>11. CASE RestoreBegins
  BY <1>11 DEF RestoreBegins, call, server, persistent, history, Unlocked
<1>12. CASE ExtractFile
  BY <1>12 DEF ExtractFile, call, server, persistent, history
<1>13. CASE RestoreFails
  BY <1>13 DEF RestoreFails, call, server, persistent, RestoreEnds, SwapInv
<1>14. CASE Aside
  BY <1>14 DEF Aside, call, server, history, SwapInv, SavedType, Complete
<1>15. CASE Swap
  <2>1. Complete(stage) /\ moved' = {} /\ saved' = stage /\ (~emptied' => stage # {})
    BY <1>15, ArchiveFiles DEF Swap, RestoreEnds, SwapInv, RestoreType
  <2> QED BY <2>1
<1>16. CASE SwapUndone
  <2>1. saved' \in moved /\ moved' = {} /\ UNCHANGED <<pc, inTarget, emptied>>
    BY <1>16 DEF SwapUndone, RestoreEnds, call, server
  <2>2. saved = {} /\ \A d \in moved : d = saved'
    BY <1>16, <2>1 DEF SwapUndone, SwapInv, SavedType, RestoreType
  <2> QED BY <2>1, <2>2
<1>17. CASE SwapTorn
  BY <1>17 DEF SwapTorn, call, server, persistent, RestoreEnds
<1>18. CASE SavedAppears
  <2>1. PICK w \in Shipped : inTarget' = inTarget \cup Whole(w)
    BY <1>18 DEF SavedAppears
  <2>2. Complete(inTarget) => Complete(inTarget')
    BY <2>1, CompleteWorld
  <2> QED BY <1>18, <2>2 DEF SavedAppears, Unlocked, call, persistent, helper
<1>19. CASE Play
  <2>1. PICK w \in Played : saved' = saved \cup Whole(w)
    BY <1>19 DEF Play
  <2>2. Complete(saved) => Complete(saved')
    BY <2>1, CompleteWorld
  <2>3. saved # {} => saved' # {}
    BY <2>1
  <2> QED BY <1>19, <2>2, <2>3 DEF Play, call, server, helper
<1>20. CASE UNCHANGED vars
  BY <1>20 DEF vars, call, server, persistent, helper, history
<1> QED BY <1>1, <1>2, <1>3, <1>4, <1>5, <1>6, <1>7, <1>8, <1>9, <1>10, <1>11, <1>12, <1>13, <1>14, <1>15, <1>16, <1>17, <1>18, <1>19, <1>20 DEF Next, EnsureSteps, RestoreSteps

\* Every step preserves the invariant.
LEMMA InvStep == IInv /\ [Next]_vars => IInv'
  BY CallTypeStep, ServerTypeStep, SavedTypeStep, RestoreTypeStep, HistoryTypeStep,
     CallStep, RemovalStep, SwapStep, LostStep, PartialStep
  DEF IInv, TypeOK

LEMMA Invariance == Spec => []IInv
  BY InvInit, InvStep, PTL DEF Spec

-----------------------------------------------------------------------------
(* The theorems *)

\* Every variable keeps its type; in particular only an existing saved_dir and
\* only a real directory of the server hold files (steamcmd.py:42-75).
THEOREM TypeCorrect == Spec => []TypeOK
  BY Invariance, PTL DEF IInv

\* No failure and no kill in a migration or a restore loses a world
\* (steamcmd.py:50-72, restore.sh:66-75).
THEOREM WorldsKept == Spec => []NothingLost
  BY Invariance, PTL DEF IInv

\* Only complete copies are published (steamcmd.py:51-58), in every state in
\* which no restore has taken the saves away.
THEOREM OnlyWholeWorlds == Spec => []PublishedWhole
<1>1. IInv => PublishedWhole
  BY DEF IInv, PartialInv, PublishedWhole
<1> QED BY <1>1, Invariance, PTL

\* ensure_saved_link returns with the link in place (steamcmd.py:46-47, 75).
THEOREM LinkedAtReturn == Spec => ReturnsLinked
<1>1. ASSUME IInv, [Next]_vars
      PROVE  [pc # "idle" /\ pc' = "idle" /\ failures' = failures => target' = "link" /\ exists']_vars
  <2> SUFFICES ASSUME Next, pc # "idle", pc' = "idle", failures' = failures
               PROVE  target' = "link" /\ exists'
    BY <1>1
  <2>1. exists /\ restore = "none"
    BY <1>1 DEF IInv, CallInv
  <2>2. CASE Check
    BY <2>1, <2>2 DEF Check, Examine, persistent
  <2>3. CASE Link
    BY <2>1, <2>3 DEF Link, persistent
  <2>4. CASE EnsureStops
    BY <1>1, <2>4 DEF EnsureStops, IInv, TypeOK, HistoryType
  <2>5. CASE CopyFile \/ Publish \/ OrphanFile \/ OrphanComplete \/ RemoveFile \/ RemoveDirectory
    BY <2>5 DEF CopyFile, Publish, OrphanFile, OrphanComplete, RemoveFile, RemoveDirectory, call
  <2>6. CASE EnsureBegins \/ RestoreBegins \/ SavedAppears \/ Play
    BY <2>6 DEF EnsureBegins, RestoreBegins, SavedAppears, Play, Unlocked
  <2>7. CASE RestoreSteps \/ RestoreFails \/ SwapUndone \/ SwapTorn
    BY <2>1, <2>7 DEF RestoreSteps, ExtractFile, Aside, Swap, RestoreFails, SwapUndone, SwapTorn
  <2> QED BY <2>2, <2>3, <2>4, <2>5, <2>6, <2>7 DEF Next, EnsureSteps
<1> QED BY <1>1, Invariance, PTL DEF Spec, ReturnsLinked

=============================================================================
