--------------------------- MODULE ProceduresProofs ---------------------------
(***************************************************************************)
(* Theorems about the components that MCProcedures combines.               *)
(***************************************************************************)
EXTENDS MCProcedures, FiniteSetTheorems, TLAPS

-----------------------------------------------------------------------------
(* The Wine prefix *)

\* A reason to remove the prefix that a removal does not take away with it.
Wanted == reset \/ marker \/ (onChange /\ stamp # image)

\* What is known where of the prefix.  Where a system.reg is taken for a whole
\* prefix, neither the marker nor a removal in the middle may have been there
\* before (wine.py:114-136); and the stamp of a finished prefix names its maker, if
\* it was not put on the prefix of another.
WineInv ==
  /\ W!TypeOK
  /\ winePc = "boot" => wineboot = "running"
  /\ wineboot = "running" => winePc \in {"boot", "cleanup"}
  /\ wineboot = "done" => winePc \in {"settle", "cleanup"}
  /\ winePc = "settle" /\ wineboot = "none" => made = image /\ torn = "no"
  /\ winePc = "remove" => Wanted
  /\ torn = "half" => Wanted \/ ~reg
  /\ torn = "no" /\ reg /\ ~marker => made # 0 /\ (stamp # 0 => made = stamp \/ adopted)
  /\ (winePc = "create" /\ reg) \/ winePc \in {"stamp", "fill", "unmark", "ready"} =>
       /\ torn # "half"
       /\ torn # "forgotten" => made # 0 /\ (onChange => made = image \/ adopted)
  /\ winePc = "unmark" => stamp = image /\ (torn # "forgotten" => made = image \/ adopted)

LEMMA WineInit == W!Init => WineInv
<1> SUFFICES ASSUME W!Init PROVE WineInv
  OBVIOUS
<1>1. /\ reset \in BOOLEAN /\ onChange \in BOOLEAN /\ xvfb \in BOOLEAN
      /\ adopted \in BOOLEAN /\ dir \in BOOLEAN /\ ~dir /\ reg \in BOOLEAN /\ ~reg /\ marker \in BOOLEAN /\ ~marker
  BY DEF W!Init
<1>2. W!TypeOK
  BY <1>1, ProceduresAssumption DEF W!Init, W!TypeOK
<1> QED BY <1>1, <1>2 DEF W!Init, WineInv

LEMMA WineNext == WineInv /\ [W!Next]_W!vars => WineInv'
<1> SUFFICES ASSUME WineInv, [W!Next]_W!vars PROVE WineInv'
  OBVIOUS
<1>v. 0 \notin Versions
  BY ProceduresAssumption
<1> USE <1>v, ProceduresAssumption
    DEF WineInv, W!TypeOK, Wanted, W!setting, W!prefix, W!record, W!Step
<1>1. CASE W!Boot
  <2>1. lives' \in 0 .. MaxLives
    BY <1>1 DEF W!Boot
  <2>2. W!TypeOK'
    BY <1>1, <2>1 DEF W!Boot
  <2>3. torn' = "half" => torn = "half" /\ image' = image /\ reset' = reset /\ onChange' = onChange
    BY <1>1 DEF W!Boot
  <2> QED BY <1>1, <2>2, <2>3 DEF W!Boot
<1>2. CASE W!Enter
  BY <1>2 DEF W!Enter, W!Resets, W!Outdated
<1>3. CASE W!RemoveSome
  BY <1>3 DEF W!RemoveSome
<1>4. CASE W!Removed
  BY <1>4 DEF W!Removed
<1>5. CASE W!Create
  BY <1>5 DEF W!Create
<1>6. CASE W!WinebootSucceeds
  BY <1>6 DEF W!WinebootSucceeds, W!Completed
<1>7. CASE W!Settle
  BY <1>7 DEF W!Settle
<1>8. CASE W!Cleanup
  BY <1>8 DEF W!Cleanup
<1>9. CASE W!Truncate
  BY <1>9 DEF W!Truncate
<1>10. CASE W!Fill
  BY <1>10 DEF W!Fill
<1>11. CASE W!Unmark
  BY <1>11 DEF W!Unmark
<1>12. CASE W!Retry
  BY <1>12 DEF W!Retry
<1>13. CASE W!WineserverEnds
  BY <1>13 DEF W!WineserverEnds, W!Completed
<1>14. CASE W!WinebootWrites
  BY <1>14 DEF W!WinebootWrites
<1>15. CASE W!WinebootFails
  BY <1>15 DEF W!WinebootFails, W!Fault
<1>16. CASE W!FileFails
  BY <1>16 DEF W!FileFails, W!Fault
<1>17. CASE W!Killed \/ W!Recreate
  BY <1>17 DEF W!Killed, W!Recreate, W!Down
<1>18. CASE UNCHANGED W!vars
  BY <1>18 DEF W!vars
<1> QED
  BY <1>1, <1>2, <1>3, <1>4, <1>5, <1>6, <1>7, <1>8, <1>9, <1>10, <1>11, <1>12, <1>13, <1>14, <1>15,
     <1>16, <1>17, <1>18 DEF W!Next, W!Proceeds

\* The game gets a prefix that a wineboot has completed, of the image's Wine if
\* that is asked for, whatever failed or was killed and however the image and the
\* settings change from container to container; but for the two exceptions that
\* PrefixSound names (wine.py:114-136, 187).
THEOREM PrefixIsSound == W!Spec => []PrefixSound
<1>1. WineInv => PrefixSound
  BY DEF WineInv, PrefixSound, W!PrefixSound
<1> QED BY <1>1, WineInit, WineNext, PTL DEF W!Spec

-----------------------------------------------------------------------------
(* The rotation of backups *)

\* Without the middle conjuncts ArchivesKept is not inductive: what is to be
\* removed must leave enough behind, number and time must agree as long as the
\* clock does, and a published archive may not take the time of another.
BackupInv ==
  /\ B!TypeOK
  /\ IsFiniteSet(archives)
  /\ backupPc # "prune" => old = {}
  /\ backupPc \in {"list", "prune"} => keep > 0
  /\ published <= started /\ (backupPc \in {"tar", "link"} => published < started)
  /\ backupPc = "link" => /\ temporary = "whole" /\ (~back => time <= now)
                          /\ \A a \in archives : a.time # time /\ (~back => a.time < time)
  /\ \A a \in archives : a.whole /\ a.number <= published
  /\ \A a, b \in archives : a.time = b.time \/ a.number = b.number => a = b
  /\ ~back => /\ \A a \in archives : a.time <= now
              /\ \A a, b \in archives : a.number < b.number => a.time < b.time

\* What outlives the removals that are planned.
KeptInv ==
  /\ Cardinality(archives \ old) >= IF keep = 0 THEN published ELSE B!Least(keep, published)
  /\ ~back => \A n \in 1 .. published : keep = 0 \/ n > published - keep =>
                \E a \in archives \ old : a.number = n

LEMMA BSameCardinality == \A set : B!Cardinality(set) = Cardinality(set)
BY DEF B!Cardinality, Cardinality

LEMMA ArchiveTypes ==
  ASSUME BackupInv
  PROVE  /\ keep \in Nat /\ published \in Nat /\ started \in Nat /\ now \in Nat /\ time \in Nat
         /\ back \in BOOLEAN
         /\ \A a \in archives : /\ a.number \in Nat /\ a.number >= 1 /\ a.time \in Nat
                                /\ a = [number |-> a.number, time |-> a.time, whole |-> a.whole]
BY ProceduresAssumption DEF BackupInv, B!TypeOK

\* Of the archives with too many newer ones, one has all its newer ones kept;
\* these are enough, then.
LEMMA EnoughKept ==
  ASSUME BackupInv, keep > 0
  PROVE  /\ IsFiniteSet(archives \ B!Excess) /\ Cardinality(archives \ B!Excess) \in Nat
         /\ Cardinality(archives \ B!Excess) >= B!Least(keep, Cardinality(archives))
<1> DEFINE K == archives \ B!Excess
           Later == {B!Newer(a) : a \in B!Excess}
<1>1. /\ IsFiniteSet(archives) /\ IsFiniteSet(K)
      /\ Cardinality(archives) \in Nat /\ Cardinality(K) \in Nat /\ keep \in Nat
  BY FS_Subset, FS_CardinalityType, ArchiveTypes DEF BackupInv
<1>2. CASE B!Excess = {}
  BY <1>1, <1>2 DEF B!Least
<1>3. CASE B!Excess # {}
  <2>1. Later # {} /\ Later \subseteq FiniteSubsetsOf(archives)
    <3>1. \A a \in B!Excess : B!Newer(a) \in SUBSET archives
      BY DEF B!Newer
    <3>2. \A a \in B!Excess : IsFiniteSet(B!Newer(a))
      BY <1>1, <3>1, FS_Subset
    <3> QED BY <1>3, <3>1, <3>2 DEF FiniteSubsetsOf
  <2>2. PICK L \in Later : \A M \in Later : <<M, L>> \notin StrictSubsetOrdering(archives)
    BY <2>1, FS_StrictSubsetOrderingWellFounded, WFMin
  <2>3. PICK a \in B!Excess : L = B!Newer(a)
    OBVIOUS
  <2>4. a \in archives /\ Cardinality(L) >= keep
    BY <2>3, BSameCardinality DEF B!Excess
  <2>5. L \subseteq K
    <3> SUFFICES ASSUME NEW b \in L, b \in B!Excess PROVE FALSE
      BY <2>3 DEF B!Newer
    <3>1. b \in archives /\ b.time > a.time
      BY <2>3 DEF B!Newer
    <3>2. B!Newer(b) \subseteq L /\ b \notin B!Newer(b)
      BY <2>3, <2>4, <3>1, ArchiveTypes DEF B!Newer
    <3>3. B!Newer(b) \in SUBSET archives /\ L \in SUBSET archives
      BY <2>3 DEF B!Newer
    <3>4. <<B!Newer(b), L>> \in StrictSubsetOrdering(archives)
      BY <3>2, <3>3 DEF StrictSubsetOrdering
    <3> QED BY <2>2, <3>4
  <2>6. Cardinality(L) <= Cardinality(K) /\ Cardinality(L) \in Nat
    BY <1>1, <2>5, FS_Subset, FS_CardinalityType
  <2> QED BY <1>1, <2>4, <2>6 DEF B!Least
<1> QED BY <1>2, <1>3

\* As long as the clock was not set back, an archive with many newer ones has an
\* old number.
LEMMA ExcessIsOld ==
  ASSUME BackupInv, ~back, NEW a \in B!Excess
  PROVE  a.number <= published - keep
<1> DEFINE N == B!Newer(a)
           I == a.number + 1 .. published
           f == [b \in N |-> b.number]
<1>1. a \in archives /\ a.number \in Nat /\ published \in Nat /\ keep \in Nat /\ a.number <= published
  BY ArchiveTypes DEF B!Excess, BackupInv
<1>2. \A b \in N : b \in archives /\ b.number \in I
  <2> SUFFICES ASSUME NEW b \in N PROVE b \in archives /\ b.number \in I
    OBVIOUS
  <2>1. b \in archives /\ b.time > a.time /\ b.number \in Nat /\ b.number <= published
    BY ArchiveTypes DEF B!Newer, BackupInv
  <2>2. ~(b.number < a.number) /\ b.number # a.number
    BY <1>1, <2>1, ArchiveTypes DEF BackupInv
  <2> QED BY <1>1, <2>1, <2>2
<1>3. \A b, c \in N : b.number = c.number => b = c
  BY <1>2 DEF BackupInv
<1>4. IsFiniteSet(I) /\ Cardinality(I) = published - a.number
  <2>1. a.number + 1 \in Int /\ published \in Int /\ a.number + 1 <= published + 1
    BY <1>1
  <2>2. Cardinality(I) = IF a.number + 1 > published THEN 0 ELSE published - (a.number + 1) + 1
    BY <2>1, FS_Interval
  <2>3. IsFiniteSet(I)
    BY <2>1, FS_Interval
  <2> HIDE DEF I
  <2> QED BY <1>1, <2>1, <2>2, <2>3
<1> HIDE DEF N, I
<1>5. f \in Injection(N, I)
  BY <1>2, <1>3 DEF Injection, IsInjective
<1>6. Cardinality(N) <= published - a.number
  BY <1>4, <1>5, FS_Injection
<1>7. Cardinality(N) >= keep
  BY BSameCardinality DEF B!Excess, N
<1>8. IsFiniteSet(N) /\ Cardinality(N) \in Nat
  BY <1>4, <1>5, FS_Injection, FS_CardinalityType
<1> QED BY <1>1, <1>6, <1>7, <1>8

LEMMA BackupInit == B!Init => BackupInv /\ KeptInv
<1> SUFFICES ASSUME B!Init PROVE BackupInv /\ KeptInv
  OBVIOUS
<1>1. back \in BOOLEAN /\ keep \in Nat
  BY ProceduresAssumption DEF B!Init
<1>2. B!TypeOK
  BY <1>1, ProceduresAssumption DEF B!Init, B!TypeOK
<1>3. BackupInv
  BY <1>1, <1>2, FS_EmptySet DEF B!Init, BackupInv
<1>4. archives \ old = {}
  BY DEF B!Init
<1> QED BY <1>1, <1>3, <1>4, FS_EmptySet DEF B!Init, KeptInv, B!Least

\* A new archive has the highest number and, unless the clock was set back, the
\* latest time.
LEMMA BackupLink ==
  ASSUME BackupInv, KeptInv, B!Link
  PROVE  BackupInv' /\ KeptInv'
<1> DEFINE new == [number |-> published + 1, time |-> time, whole |-> temporary = "whole"]
<1>1. /\ backupPc = "link" /\ backupPc' = "unlink" /\ published' = published + 1
      /\ archives' = archives \cup {new}
      /\ UNCHANGED <<keep, started, kills, now, back, temporary, time, old>>
  BY DEF B!Link, B!Step
<1>2. /\ temporary = "whole" /\ old = {} /\ published < started
      /\ (~back => time <= now) /\ \A a \in archives : a.time # time /\ (~back => a.time < time)
  BY <1>1 DEF BackupInv
<1>3. /\ new.number = published + 1 /\ new.time = time /\ new.whole
      /\ new \in [number : 1 .. MaxBackups, time : 0 .. MaxTime, whole : BOOLEAN]
  <2>1. published + 1 \in 1 .. MaxBackups /\ time \in 0 .. MaxTime
    BY <1>2, ArchiveTypes, ProceduresAssumption DEF BackupInv, B!TypeOK
  <2> QED BY <1>2, <2>1
<1> HIDE DEF new
<1>4. /\ \A a \in archives : a.number \in Nat /\ a.time \in Nat /\ a.number <= published /\ a.whole
      /\ published \in Nat /\ time \in Nat /\ started \in Nat /\ keep \in Nat /\ back \in BOOLEAN
  BY ArchiveTypes DEF BackupInv
<1>5. B!TypeOK'
  BY <1>1, <1>2, <1>3, <1>4, ProceduresAssumption DEF BackupInv, B!TypeOK
<1>6. IsFiniteSet(archives') /\ Cardinality(archives') = Cardinality(archives) + 1
  <2>1. new \notin archives
    BY <1>3, <1>4
  <2> QED BY <1>1, <2>1, FS_AddElement DEF BackupInv
<1>7. \A a, b \in archives' : a.time = b.time \/ a.number = b.number => a = b
  BY <1>1, <1>2, <1>3, <1>4 DEF BackupInv
<1>8. ~back => /\ \A a \in archives' : a.time <= now
               /\ \A a, b \in archives' : a.number < b.number => a.time < b.time
  BY <1>1, <1>2, <1>3, <1>4 DEF BackupInv
<1>9. BackupInv'
  BY <1>1, <1>2, <1>3, <1>4, <1>5, <1>6, <1>7, <1>8 DEF BackupInv
<1>10. KeptInv'
  <2>1. archives \ old = archives /\ archives' \ old' = archives'
    BY <1>1, <1>2
  <2>2. Cardinality(archives) \in Nat /\ Cardinality(archives') = Cardinality(archives) + 1
    BY <1>6, FS_CardinalityType DEF BackupInv
  <2>3. Cardinality(archives') >= IF keep = 0 THEN published + 1 ELSE B!Least(keep, published + 1)
    <3>1. Cardinality(archives) >= IF keep = 0 THEN published ELSE B!Least(keep, published)
      BY <2>1 DEF KeptInv
    <3> QED BY <1>4, <2>2, <3>1 DEF B!Least
  <2>4. ASSUME ~back, NEW n \in 1 .. published + 1, keep = 0 \/ n > published + 1 - keep
        PROVE  \E a \in archives' : a.number = n
    <3>1. CASE n = published + 1
      BY <1>1, <1>3, <3>1
    <3>2. CASE n # published + 1
      <4>1. n \in 1 .. published /\ (keep = 0 \/ n > published - keep)
        BY <1>4, <2>4, <3>2
      <4>2. PICK a \in archives : a.number = n
        BY <2>1, <2>4, <4>1 DEF KeptInv
      <4> QED BY <1>1, <4>2
    <3> QED BY <3>1, <3>2
  <2>5. Cardinality(archives' \ old') >= IF keep' = 0 THEN published' ELSE B!Least(keep', published')
    BY <1>1, <2>1, <2>3 DEF B!Least
  <2>6. ASSUME ~back', NEW n \in 1 .. published', keep' = 0 \/ n > published' - keep'
        PROVE  \E a \in archives' \ old' : a.number = n
    <3>1. ~back /\ n \in 1 .. published + 1 /\ (keep = 0 \/ n > published + 1 - keep)
      <4>1. back' = back /\ keep' = keep /\ published' = published + 1
        BY <1>1
      <4>2. ~back
        BY <2>6, <4>1
      <4> QED BY <1>4, <2>6, <4>1, <4>2
    <3>2. \E a \in archives' : a.number = n
      BY <2>4, <3>1
    <3> QED BY <2>1, <3>2
  <2> QED BY <2>5, <2>6 DEF KeptInv
<1> QED BY <1>9, <1>10

LEMMA BackupList ==
  ASSUME BackupInv, KeptInv, B!List
  PROVE  BackupInv' /\ KeptInv'
<1>1. /\ backupPc = "list" /\ backupPc' = "prune" /\ old' = B!Excess /\ keep > 0 /\ old = {}
      /\ UNCHANGED <<keep, started, kills, now, back, temporary, time, archives, published>>
  BY DEF B!List, B!Step, BackupInv
<1>2. BackupInv'
  BY <1>1 DEF BackupInv, B!TypeOK, B!Excess
<1>3. /\ Cardinality(archives \ B!Excess) \in Nat
      /\ Cardinality(archives \ B!Excess) >= B!Least(keep, Cardinality(archives))
  BY <1>1, EnoughKept
<1>4. /\ keep \in Nat /\ published \in Nat /\ Cardinality(archives) \in Nat
      /\ Cardinality(archives) >= B!Least(keep, published)
  <2>1. archives \ old = archives
    BY <1>1
  <2> QED BY <1>1, <2>1, ArchiveTypes, FS_CardinalityType DEF KeptInv, BackupInv
<1>5. Cardinality(archives' \ old') >= IF keep' = 0 THEN published' ELSE B!Least(keep', published')
  BY <1>1, <1>3, <1>4 DEF B!Least
<1>6. ASSUME ~back, NEW n \in 1 .. published, n > published - keep
      PROVE  \E a \in archives \ B!Excess : a.number = n
  <2>1. PICK a \in archives : a.number = n
    BY <1>6 DEF KeptInv
  <2>2. a \notin B!Excess
    BY <1>4, <1>6, <2>1, ExcessIsOld
  <2> QED BY <2>1, <2>2
<1>7. KeptInv'
  BY <1>1, <1>5, <1>6 DEF KeptInv
<1> QED BY <1>2, <1>7

LEMMA BackupPrune ==
  ASSUME BackupInv, KeptInv, B!Prune
  PROVE  BackupInv' /\ KeptInv'
<1>1. PICK a \in old : archives' = archives \ {a} /\ old' = old \ {a}
  BY DEF B!Prune
<1>2. /\ backupPc = "prune" /\ backupPc' = "prune"
      /\ UNCHANGED <<keep, started, kills, now, back, temporary, time, published>>
  BY DEF B!Prune, B!Step
<1>3. archives' \ old' = archives \ old
  BY <1>1
<1>4. KeptInv'
  BY <1>2, <1>3 DEF KeptInv
<1>5. IsFiniteSet(archives')
  BY <1>1, FS_RemoveElement DEF BackupInv
<1>6. B!TypeOK'
  BY <1>1, <1>2 DEF BackupInv, B!TypeOK
<1> QED BY <1>1, <1>2, <1>4, <1>5, <1>6 DEF BackupInv

LEMMA BackupNext == BackupInv /\ KeptInv /\ [B!Next]_B!vars => BackupInv' /\ KeptInv'
<1> SUFFICES ASSUME BackupInv, KeptInv, [B!Next]_B!vars PROVE BackupInv' /\ KeptInv'
  OBVIOUS
<1>k. ASSUME UNCHANGED <<archives, old, keep, published, back>> \/ (UNCHANGED <<archives, keep, published, back>> /\ old' = {})
      PROVE  KeptInv'
  <2>1. CASE UNCHANGED <<archives, old, keep, published, back>>
    BY <2>1 DEF KeptInv
  <2>2. CASE UNCHANGED <<archives, keep, published, back>> /\ old' = {}
    <3>1. /\ IsFiniteSet(archives) /\ Cardinality(archives) \in Nat /\ archives \ old \in SUBSET archives
          /\ archives' \ old' = archives
      BY <2>2, FS_CardinalityType DEF BackupInv
    <3>2. Cardinality(archives \ old) \in Nat /\ Cardinality(archives) >= Cardinality(archives \ old)
      BY <3>1, FS_Subset, FS_CardinalityType
    <3> QED BY <2>2, <3>1, <3>2, ArchiveTypes DEF KeptInv, B!Least
  <2> QED BY <1>k, <2>1, <2>2
<1>t. /\ keep \in Nat /\ published \in Nat /\ started \in Nat /\ now \in Nat /\ time \in Nat /\ back \in BOOLEAN
      /\ \A a \in archives : a.time \in Nat
  BY ArchiveTypes
<1> USE ProceduresAssumption DEF B!Step
<1>1. CASE B!Begin
  BY <1>1, <1>k, <1>t DEF B!Begin, BackupInv, B!TypeOK
<1>2. CASE B!Tar
  <2>1. /\ now' \in now + 1 .. MaxTime /\ time' = now' /\ \A a \in archives : a.time # now'
        /\ backupPc = "tar" /\ backupPc' = "link" /\ temporary' = "whole"
        /\ UNCHANGED <<keep, started, kills, back, archives, old, published>>
    BY <1>2 DEF B!Tar
  <2>2. now' \in 0 .. MaxTime /\ now' \in Nat /\ now < now' /\ time' = now'
    BY <1>t, <2>1
  <2>3. \A a \in archives : a.time # time' /\ (~back => a.time < time' /\ a.time <= now')
    BY <1>t, <2>1, <2>2 DEF BackupInv
  <2>4. B!TypeOK'
    BY <2>1, <2>2 DEF BackupInv, B!TypeOK
  <2> QED BY <1>k, <2>1, <2>2, <2>3, <2>4 DEF BackupInv
<1>3. CASE B!Link
  BY <1>3, BackupLink
<1>4. CASE B!Unlink
  BY <1>4, <1>k, <1>t DEF B!Unlink, BackupInv, B!TypeOK
<1>5. CASE B!List
  BY <1>5, BackupList
<1>6. CASE B!Prune
  BY <1>6, BackupPrune
<1>7. CASE B!Pruned
  BY <1>7, <1>k DEF B!Pruned, BackupInv, B!TypeOK
<1>8. CASE B!Fails
  BY <1>8, <1>k DEF B!Fails, BackupInv, B!TypeOK
<1>9. CASE B!Killed
  BY <1>9, <1>k, <1>t DEF B!Killed, BackupInv, B!TypeOK
<1>10. CASE B!SetBack
  <2>1. /\ now' \in 0 .. now - 1 /\ back' /\ back' \in BOOLEAN
        /\ UNCHANGED <<backupPc, keep, temporary, time, archives, old, published, started, kills>>
    BY <1>10 DEF B!SetBack
  <2>2. now' \in 0 .. MaxTime
    BY <1>t, <2>1 DEF BackupInv, B!TypeOK
  <2>3. B!TypeOK'
    BY <2>1, <2>2 DEF BackupInv, B!TypeOK
  <2>4. BackupInv'
    BY <2>1, <2>3 DEF BackupInv
  <2> QED BY <2>1, <2>4 DEF KeptInv
<1>11. CASE UNCHANGED B!vars
  BY <1>11, <1>k DEF B!vars, BackupInv, B!TypeOK
<1> QED
  BY <1>1, <1>2, <1>3, <1>4, <1>5, <1>6, <1>7, <1>8, <1>9, <1>10, <1>11 DEF B!Next

\* However often backups are taken, fail and are killed, and whatever happens to
\* the clock: what is to be kept is kept (backup.sh:37-57).
THEOREM ArchivesAreKept == B!Spec => []ArchivesKept
<1> SUFFICES ASSUME BackupInv, KeptInv PROVE ArchivesKept
  BY BackupInit, BackupNext, PTL DEF B!Spec
<1>1. \A a \in archives : a.whole
  BY DEF BackupInv
<1>2. /\ IsFiniteSet(archives) /\ Cardinality(archives) \in Nat /\ archives \ old \in SUBSET archives
      /\ keep \in Nat /\ published \in Nat
  BY FS_CardinalityType, ArchiveTypes DEF BackupInv
<1>3. Cardinality(archives \ old) \in Nat /\ Cardinality(archives) >= Cardinality(archives \ old)
  BY <1>2, FS_Subset, FS_CardinalityType
<1>4. Cardinality(archives) >= (IF keep = 0 THEN published ELSE B!Least(keep, published))
  BY <1>2, <1>3 DEF KeptInv, B!Least
<1>5. ~back => \A n \in 1 .. published : keep = 0 \/ n > published - keep => \E a \in archives : a.number = n
  BY DEF KeptInv
<1> QED BY <1>1, <1>4, <1>5, BSameCardinality DEF ArchivesKept, B!ArchivesKept

-----------------------------------------------------------------------------
(* A run of SteamCMD *)

Idle    == U!Outcomes \cup {"none", "check", "mark"}
Apart   == {"start", "link", "judge", "delay", "stamp", "unmark"}
Writing == shell = "running" \/ child
Phase   == CASE updatePc = "none" -> "none"
             [] updatePc \in U!Outcomes -> updatePc
             [] OTHER -> "running"
Contracted == <<Phase, incomplete, executable, Writing, status = 0>>

\* Nothing of SteamCMD is alive where no run is under way; a shell that ended by
\* itself took its children with it, and one that ended on SIGTERM is followed by
\* the kill of its group, so both leave the wait with nothing alive.  The marker
\* is there from the first run on, and what the stamp follows is a good run.
RunInv ==
  /\ updatePc \in Idle \cup Apart \cup {"last", "join"} => ~Writing
  /\ updatePc \in {"thread", "wait", "term"} /\ shell # "running" => ~child
  /\ updatePc \notin Idle => incomplete
  /\ updatePc \in {"stamp", "unmark"} => status = 0 /\ executable
  /\ raised \in {"no", "cancelled", "failed"}

RunEnds == \/ \E at \in {"check", "start", "delay"} : U!Cancelled(at)
           \/ \E at \in {"check", "mark", "start", "link", "stamp", "unmark"} : U!Fails(at)

LEMMA RunInit == U!Init => RunInv /\ U!Update!Init
BY DEF U!Init, U!Update!Init, U!Outcomes, RunInv, Idle, Apart, Writing

LEMMA RunNext == RunInv /\ [U!Next]_U!vars => RunInv'
<1> SUFFICES ASSUME RunInv, [U!Next]_U!vars PROVE RunInv'
  OBVIOUS
<1> USE DEF RunInv, Idle, Apart, Writing, U!Outcomes, U!Step, U!group, U!told, U!disk
<1>1. CASE U!Begin \/ U!Check \/ U!Mark \/ U!Linked \/ U!Delayed \/ U!Stamp \/ U!Unmark
  BY <1>1 DEF U!Begin, U!Check, U!Mark, U!Linked, U!Delayed, U!Stamp, U!Unmark
<1>2. CASE U!Judge
  BY <1>2 DEF U!Judge, U!Again, U!Installed
<1>3. CASE U!Spawn \/ U!ReaderStarts \/ U!Interrupted \/ U!WaitCancelled \/ U!WaitReturns
  BY <1>3 DEF U!Spawn, U!ReaderStarts, U!Interrupted, U!WaitCancelled, U!WaitReturns
<1>4. CASE U!Terminate \/ U!Reap \/ U!Kill \/ U!ReapAtLast \/ U!Join
  BY <1>4 DEF U!Terminate, U!Reap, U!Kill, U!ReapAtLast, U!Join
<1>5. CASE RunEnds
  BY <1>5 DEF RunEnds, U!Cancelled, U!Fails
<1>6. CASE U!Installs \/ U!Says \/ U!ChildExits \/ U!ReaderReads \/ U!ReaderEnds \/ U!Shutdown
  BY <1>6 DEF U!Installs, U!Says, U!ChildExits, U!ReaderReads, U!ReaderEnds, U!Shutdown
<1>7. CASE U!LeaderExits
  <2>1. /\ shell = "running" /\ shell' = "zombie" /\ (~child \/ updatePc = "reap")
        /\ UNCHANGED <<updatePc, child, executable, incomplete, raised>>
    BY <1>7 DEF U!LeaderExits
  <2>2. updatePc \notin Idle \cup Apart \cup {"last", "join"}
    BY <2>1
  <2> QED BY <2>1, <2>2
<1>8. CASE UNCHANGED U!vars
  BY <1>8 DEF U!vars
<1> QED BY <1>1, <1>2, <1>3, <1>4, <1>5, <1>6, <1>7, <1>8 DEF U!Next, U!Code, RunEnds

\* A step of the call or of SteamCMD is a step of the contract, or nothing to it.
LEMMA RunStep == ASSUME RunInv, [U!Next]_U!vars PROVE [U!Update!Next]_Contracted
<1> DEFINE Outside == U!Outcomes \cup {"none"}
<1> USE DEF Idle, Apart, U!Outcomes, U!Step, U!group, U!told, U!disk
<1>1. updatePc \notin Outside => Phase = "running"
  BY DEF Phase
<1>2. updatePc' \notin Outside => Phase' = "running"
  BY DEF Phase
<1>3. /\ updatePc \in Outside => Phase = updatePc /\ Phase # "running"
      /\ updatePc' \in Outside => Phase' = updatePc'
  BY DEF Phase
<1>4. ASSUME updatePc \notin Outside, updatePc' \notin Outside PROVE Phase = "running" /\ UNCHANGED Phase
  BY <1>1, <1>2, <1>4
<1>5. ASSUME UNCHANGED updatePc PROVE UNCHANGED Phase
  BY <1>5 DEF Phase
<1>6. Writing \in BOOLEAN /\ Writing' \in BOOLEAN
  BY DEF Writing
<1> HIDE DEF Outside
<1>7. CASE U!Begin
  <2>1. updatePc \in Outside /\ updatePc' \notin Outside
    BY <1>7 DEF U!Begin, Outside
  <2>2. UNCHANGED <<incomplete, executable, shell, child, status>>
    BY <1>7 DEF U!Begin
  <2> QED BY <1>2, <1>3, <2>1, <2>2 DEF U!Update!Next, U!Update!Begin, Writing, Phase
<1>8. CASE U!Mark
  <2>1. Phase = "running" /\ UNCHANGED Phase
    BY <1>4, <1>8 DEF U!Mark, Outside
  <2>2. incomplete' = TRUE /\ UNCHANGED <<executable, shell, child, status>>
    BY <1>8 DEF U!Mark
  <2> QED BY <2>1, <2>2 DEF U!Update!Next, U!Update!Mark, U!Update!During, Writing, Phase
<1>9. CASE U!Spawn
  <2>1. Phase = "running" /\ UNCHANGED Phase
    BY <1>4, <1>9 DEF U!Spawn, Outside
  <2>2. incomplete /\ ~Writing /\ Writing' /\ status' = 1 /\ UNCHANGED <<incomplete, executable>>
    BY <1>9 DEF U!Spawn, RunInv, Writing
  <2> QED BY <2>1, <2>2 DEF U!Update!Next, U!Update!Start, U!Update!During, Writing, Phase
<1>10. CASE U!Unmark
  <2>1. Phase = "running" /\ Phase' = "ok"
    BY <1>1, <1>3, <1>10 DEF U!Unmark, Outside
  <2>2. ~Writing /\ status = 0 /\ executable /\ incomplete /\ incomplete' = FALSE
    BY <1>10 DEF U!Unmark, RunInv
  <2>3. UNCHANGED <<executable, shell, child, status>>
    BY <1>10 DEF U!Unmark
  <2> QED BY <2>1, <2>2, <2>3 DEF U!Update!Next, U!Update!Succeed, U!Update!Ends, Writing, Phase
<1>11. ASSUME updatePc \in {"check", "mark", "join"} \cup Apart, updatePc' \in {"failed", "cancelled"},
              UNCHANGED <<incomplete, executable, shell, child, status>>
       PROVE  U!Update!Fail
  <2>1. Phase = "running" /\ Phase' = updatePc'
    BY <1>1, <1>3, <1>11 DEF Outside
  <2>2. ~Writing
    BY <1>11 DEF RunInv
  <2> QED BY <1>11, <2>1, <2>2 DEF U!Update!Fail, U!Update!Ends, Writing, Phase
<1>12. ASSUME updatePc \notin Outside, updatePc' \notin Outside,
              UNCHANGED <<incomplete, executable, status>>, Writing' => Writing
       PROVE  [U!Update!Next]_Contracted
  <2>1. Phase = "running" /\ UNCHANGED Phase
    BY <1>4, <1>12
  <2>2. CASE Writing /\ ~Writing'
    BY <1>12, <2>1, <2>2 DEF U!Update!Next, U!Update!Stops, U!Update!During, Writing, Phase
  <2>3. CASE Writing = Writing'
    BY <1>12, <2>1, <2>3 DEF Contracted
  <2> QED BY <1>6, <1>12, <2>2, <2>3
<1>13. CASE U!Join \/ U!Judge \/ RunEnds
  <2>1. /\ updatePc \in {"check", "mark", "join"} \cup Apart
        /\ UNCHANGED <<incomplete, executable, shell, child, status>>
    BY <1>13 DEF U!Join, U!Judge, RunEnds, U!Cancelled, U!Fails
  <2>2. updatePc' \in {"failed", "cancelled", "link", "delay", "stamp"}
    BY <1>13 DEF U!Join, U!Judge, RunEnds, U!Cancelled, U!Fails, RunInv
  <2>3. CASE updatePc' \in {"link", "delay", "stamp"}
    BY <1>12, <2>1, <2>3 DEF Outside, Writing
  <2> QED BY <1>11, <2>1, <2>2, <2>3 DEF U!Update!Next
<1>14. CASE \/ U!Check \/ U!Linked \/ U!Delayed \/ U!Stamp \/ U!ReaderStarts \/ U!Interrupted
            \/ U!WaitCancelled \/ U!WaitReturns \/ U!Terminate \/ U!Reap \/ U!Kill \/ U!ReapAtLast
  <2>1. updatePc \notin Outside /\ updatePc' \notin Outside
    BY <1>14 DEF U!Check, U!Linked, U!Delayed, U!Stamp, U!ReaderStarts, U!Interrupted,
                 U!WaitCancelled, U!WaitReturns, U!Terminate, U!Reap, U!Kill, U!ReapAtLast, Outside
  <2>2. UNCHANGED <<incomplete, executable, status>>
    BY <1>14 DEF U!Check, U!Linked, U!Delayed, U!Stamp, U!ReaderStarts, U!Interrupted,
                 U!WaitCancelled, U!WaitReturns, U!Terminate, U!Reap, U!Kill, U!ReapAtLast
  <2>3. Writing' => Writing
    BY <1>14 DEF U!Check, U!Linked, U!Delayed, U!Stamp, U!ReaderStarts, U!Interrupted, Writing,
                 U!WaitCancelled, U!WaitReturns, U!Terminate, U!Reap, U!Kill, U!ReapAtLast
  <2> QED BY <1>12, <2>1, <2>2, <2>3
<1>15. CASE U!Installs
  <2>1. Phase = "running" /\ UNCHANGED Phase /\ Writing
    BY <1>1, <1>5, <1>15 DEF U!Installs, RunInv, Writing, Outside
  <2>2. executable' = TRUE /\ UNCHANGED <<incomplete, shell, child, status>>
    BY <1>15 DEF U!Installs
  <2> QED BY <2>1, <2>2 DEF U!Update!Next, U!Update!Writes, U!Update!During, Writing, Phase
<1>16. CASE U!ChildExits
  <2>1. child /\ ~child' /\ UNCHANGED <<updatePc, incomplete, executable, shell, status>>
    BY <1>16 DEF U!ChildExits
  <2> QED BY <1>12, <2>1 DEF RunInv, Writing, Outside
<1>17. CASE U!LeaderExits
  <2>1. /\ shell = "running" /\ shell' = "zombie" /\ (~child \/ UNCHANGED status)
        /\ UNCHANGED <<updatePc, child, executable, incomplete>>
    BY <1>17 DEF U!LeaderExits
  <2>2. Writing /\ updatePc \notin Outside
    BY <2>1 DEF RunInv, Writing, Outside
  <2>3. CASE child
    BY <1>12, <2>1, <2>2, <2>3 DEF Writing
  <2>4. CASE ~child
    <3>1. ~Writing' /\ Phase = "running" /\ UNCHANGED Phase
      BY <1>1, <1>5, <2>1, <2>2, <2>4 DEF Writing
    <3> QED BY <2>1, <2>2, <3>1 DEF U!Update!Next, U!Update!Stops, U!Update!During, Writing, Phase
  <2> QED BY <2>3, <2>4
<1>18. CASE U!Says \/ U!ReaderReads \/ U!ReaderEnds \/ U!Shutdown \/ UNCHANGED U!vars
  <2>1. UNCHANGED <<updatePc, incomplete, executable, shell, child, status>>
    BY <1>18 DEF U!Says, U!ReaderReads, U!ReaderEnds, U!Shutdown, U!vars
  <2> QED BY <1>5, <2>1 DEF Contracted, Writing
<1> QED BY <1>7, <1>8, <1>9, <1>10, <1>13, <1>14, <1>15, <1>16, <1>17, <1>18
           DEF U!Next, U!Code, RunEnds

\* What the supervisor relies on when it calls update_server, however it is cut
\* short: nothing writes before the marker is there or after the call, two runs
\* do not overlap, and only a good run with an executable takes the marker away
\* (steamcmd.py:91-233).
THEOREM UpdateKeepsContract == U!Spec => U!Update!Init /\ [][U!Update!Next]_Contracted
<1>1. RunInv /\ [U!Next]_U!vars => [U!Update!Next]_Contracted
  BY RunStep
<1> QED BY RunInit, RunNext, <1>1, PTL DEF U!Spec

-----------------------------------------------------------------------------
\* A behaviour of the run is one of each component, so that what is proved of
\* their steps holds of it, with these constants or any others.
THEOREM RunBehaves ==
  MCSpec => /\ W!Init /\ [][W!Next]_W!vars
            /\ Init /\ [][Next]_vars
            /\ S!Init /\ [][S!Next]_S!vars
            /\ U!Init /\ [][U!Next]_U!vars
            /\ B!Init /\ [][B!Next]_B!vars
<1>1. MCInit => W!Init /\ Init /\ S!Init /\ U!Init /\ B!Init
  BY DEF MCInit
<1> DEFINE AnyStep == [MCNext]_all
<1>2. AnyStep => [W!Next]_W!vars
  BY DEF MCNext, all, prefix, W!vars, W!setting, W!prefix, W!record
<1>3. AnyStep => [Next]_vars
  BY DEF MCNext, all
<1>4. AnyStep => [S!Next]_S!vars
  BY DEF MCNext, all, stop, S!vars, S!processes, S!output
<1>5. AnyStep => [U!Next]_U!vars
  BY DEF MCNext, all, update, U!vars, U!group, U!told, U!disk
<1>6. AnyStep => [B!Next]_B!vars
  BY DEF MCNext, all, backup, B!vars
<1> QED BY <1>1, <1>2, <1>3, <1>4, <1>5, <1>6, PTL DEF MCSpec
=============================================================================
