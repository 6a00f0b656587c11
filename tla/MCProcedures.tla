---------------------------- MODULE MCProcedures ----------------------------
(***************************************************************************)
(* Procedures of many failing steps, in one instance for TLC: the Wine     *)
(* prefix, the configuration, the stop of a server, a run of SteamCMD and  *)
(* the rotation of backups.  They share no state, so a behaviour runs the  *)
(* one that `part' names; the others stay where they began.                *)
(***************************************************************************)
EXTENDS Configuration, TLC

CONSTANTS
  Versions, MaxLives, MaxWineFaults,  \* of WinePrefix
  Faults, MaxCalls,                             \* of ServerStop
  MaxUpdates, MaxErrors,                        \* of SteamcmdRun
  KeepBackups, MaxTime, MaxBackups, MaxKills    \* of BackupRotation

VARIABLES
  part,
  image, reset, onChange, xvfb, dir, reg, made, torn, adopted, stamp, marker, wineboot, winePc, lives,
  wineFaults,
  leader, group, wine, stopPc, failed, checked, reader, open, calls,
  updatePc, run, shell, child, status, lines, said, seen, missing, executable, incomplete, cancel,
  raised, updates, errors,
  backupPc, keep, now, back, temporary, time, archives, old, published, started, kills

prefix == <<image, reset, onChange, xvfb, dir, reg, made, torn, adopted, stamp, marker, wineboot, winePc,
            lives, wineFaults>>
stop   == <<leader, group, wine, stopPc, failed, checked, reader, open, calls>>
update == <<updatePc, run, shell, child, status, lines, said, seen, missing, executable, incomplete,
            cancel, raised, updates, errors>>
backup == <<backupPc, keep, now, back, temporary, time, archives, old, published, started, kills>>
all    == <<part, prefix, vars, stop, update, backup>>

-----------------------------------------------------------------------------
(* Files and environments; with some environments what is set is read back as *)
(* something else, or with a margin                                          *)

AnyText == STRING

Main  == <<"serversetting", "ServerSetting">>
Main2    == <<"serversetting", "SERVERSETTING">>
Own   == <<"t", "T">>
X     == <<"x", "X">>
X2    == <<"x", "x">>
Admin == <<"adminpassword", "AdminPassword">>
ServerName == <<"servername", "ServerName">>
Need  == <<"needpassword", "NeedPassword">>
Note  == <<";note", ";note">>
NoKeys == {"", ";note"}

After(line, n) == [line EXCEPT !.margin = n]
Broken(e, line) == [e EXCEPT !.text = Append(@, line)]

Lines == {Section(Main2), Section(Own), Assignment(X2, "old"), Assignment(Admin, "mine"), Other, Blank}
Indentations == <<Section(Own), After(Assignment(X2, "old"), 2), After(Assignment(Note, "old"), 1), Assignment(Note, "old")>>
TwoTemplates == {Absent, <<Section(Main), Assignment(Admin, "theirs"), Other>>}
SomeFiles ==
  {Absent, <<Section(Main2), Section(Own), Section(Main2), Assignment(X2, "old"), Other>>, Indentations}
    \cup UNION {[1 .. n -> Lines] : n \in 0 .. 1}
    \cup {<<Section(n), x>> : n \in {Main2, Own}, x \in Lines}
    \cup {<<Section(Main2), x, y>> : x, y \in {Section(Own), Assignment(X2, "old"), Other}}

From(env, extra) == [env |-> env, extra |-> extra]
Margined(e, n) == [e EXCEPT !.text[1].margin = n]
Untitled(e) == [e EXCEPT !.title = <<Other, Other>>]
EightSettings ==
  {From(<<>>, <<>>),
   From(<<Entry(Main, ServerName, "n")>>, <<Margined(Entry(Own, Note, "new"), 1)>>),
   From(<<Entry(Main, ServerName, "n")>>, <<Entry(Own, X2, "new"), Entry(Main2, X, "new2"), Entry(Main2, X2, "new3")>>),
   From(<<Entry(Main, Need, "True")>>, <<>>),
   From(<<Entry(Main, Admin, "set")>>, <<Entry(Main2, <<"adminpassword", "adminpassword">>, "mine"), Entry(Own, X, "new")>>),
   From(<<Entry(Main, Admin, "set")>>, <<Entry(Own, X, "new")>>),
   From(<<>>, <<Margined(Entry(Own, X, "new"), 1)>>),
   From(<<Broken(Entry(Main, ServerName, "n"), Section(Own))>>, <<Entry(Own, Note, "new"), Untitled(Entry(X, X, "new"))>>)}

ThreeManaged == {<<Main, Admin>>, <<Main, ServerName>>, <<Main, Need>>}
ThreePasswords == <<"g1", "g2", "g3">>

-----------------------------------------------------------------------------
W == INSTANCE WinePrefix WITH pc <- winePc, faults <- wineFaults, MaxFaults <- MaxWineFaults
S == INSTANCE ServerStop WITH pc <- stopPc
U == INSTANCE SteamcmdRun WITH pc <- updatePc, leader <- shell, reader <- lines,
       marker <- incomplete, calls <- updates, MaxCalls <- MaxUpdates
B == INSTANCE BackupRotation WITH pc <- backupPc, made <- published

ASSUME ProceduresAssumption ==
  /\ Versions \subseteq Nat \ {0} /\ MaxLives \in Nat /\ MaxWineFaults \in Nat /\ MaxCalls \in Nat
  /\ KeepBackups \subseteq Nat /\ MaxTime \in Nat /\ MaxBackups \in Nat /\ MaxKills \in Nat

-----------------------------------------------------------------------------
MCInit ==
  /\ part \in {"wine", "configuration", "stop", "update", "backup"}
  /\ W!Init /\ (part # "wine" => image = 1 /\ ~reset /\ ~onChange /\ ~xvfb)
  /\ Init
  /\ game # Absent => template = Absent
  /\ part # "configuration" => game = Absent /\ template = Absent /\ settings = CHOOSE s \in Settings : TRUE
  /\ S!Init /\ (part # "stop" => group /\ reader = "unstarted")
  /\ U!Init /\ (part # "update" => executable /\ ~incomplete)
  /\ B!Init /\ (part # "backup" => keep = 0)

WineProceeds   == part = "wine" /\ W!Proceeds /\ UNCHANGED <<part, vars, stop, update, backup>>
StopProceeds   == part = "stop" /\ S!Code /\ UNCHANGED <<part, prefix, vars, update, backup>>
StopReaderEnds == part = "stop" /\ S!ReaderEnds /\ UNCHANGED <<part, prefix, vars, update, backup>>
UpdateProceeds == part = "update" /\ U!Code /\ UNCHANGED <<part, prefix, vars, stop, backup>>

MCNext ==
  \/ part = "wine" /\ W!Next /\ UNCHANGED <<part, vars, stop, update, backup>>
  \/ part = "configuration" /\ Next /\ UNCHANGED <<part, prefix, stop, update, backup>>
  \/ part = "stop" /\ S!Next /\ UNCHANGED <<part, prefix, vars, update, backup>>
  \/ part = "update" /\ U!Next /\ UNCHANGED <<part, prefix, vars, stop, backup>>
  \/ part = "backup" /\ B!Next /\ UNCHANGED <<part, prefix, vars, stop, update>>

\* The fairness that WinePrefix, ServerStop and SteamcmdRun state.
MCSpec ==
  /\ MCInit /\ [][MCNext]_all
  /\ WF_all(WineProceeds) /\ WF_all(StopProceeds) /\ WF_all(StopReaderEnds) /\ WF_all(UpdateProceeds)

-----------------------------------------------------------------------------
\* The game gets only a prefix that a wineboot has completed.
PrefixSound == W!PrefixSound

\* The preparation of the prefix is never stuck.
PreparedAtLast == W!PreparedAtLast

\* A signal goes to nothing but the server's own process group.
SignalsOwnGroup == S!SignalsOwnGroup

\* No stop returns without having asked the wineserver.
WineChecked == S!WineChecked

\* A stop ends, and if it returns nothing of the server is left.
ImplementsContract == S!ImplementsContract

\* A run of SteamCMD ends, leaves nothing of itself alive, and only a good one
\* clears the marker.
ImplementsUpdate == U!ImplementsUpdate

\* A rotation of backups that fails anywhere keeps what is to be kept.
ArchivesKept == B!ArchivesKept
=============================================================================
