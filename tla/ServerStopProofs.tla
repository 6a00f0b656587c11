-------------------------- MODULE ServerStopProofs --------------------------
(***************************************************************************)
(* Theorems about ServerStop, for every set of faults and number of calls. *)
(***************************************************************************)
EXTENDS MCProcedures, TLAPS

\* TypeOK, its Boolean parts apart.
Places ==
  /\ leader \in {"running", "zombie", "reaped"} /\ reader \in {"unstarted", "running", "ended"}
  /\ stopPc \in {"none", "close1", "close2"} \cup S!Process \cup S!Wine \cup S!Ended
  /\ calls \in 0 .. MaxCalls
Truths ==
  /\ group \in BOOLEAN /\ wine \in BOOLEAN /\ failed \in BOOLEAN /\ checked \in BOOLEAN
  /\ open \in BOOLEAN
Clients == group => wine
Failing == failed => stopPc \in {"close1", "close2", "raised"}

\* Past the poll the leader is unreaped until a wait has seen its end, and an
\* exception leaves the process part only with the leader unreaped.
LeaderInv ==
  /\ stopPc \in S!Process \ {"poll"} => leader # "reaped"
  /\ stopPc = "close1" => (failed <=> leader # "reaped")
  /\ stopPc \in S!Wine => leader = "reaped"

\* What WineChecked says of the end holds from the first wait on.
CheckedInv ==
  stopPc \in {"wine_k2", "wine_w2", "close2"} \cup S!Ended /\ leader = "reaped" => checked

IInv == S!TypeOK /\ LeaderInv /\ CheckedInv

-----------------------------------------------------------------------------
LEMMA InitInv == S!Init => IInv
<1> SUFFICES ASSUME S!Init PROVE IInv
  OBVIOUS
<1>1. Places
  <2>1. reader \in {"unstarted", "running"}
    BY DEF S!Init
  <2> QED BY <2>1, ProceduresAssumption DEF S!Init, Places
<1>t. Truths
  BY DEF S!Init, Truths
<1>2. Clients /\ Failing
  BY DEF S!Init, Clients, Failing
<1>3. LeaderInv /\ CheckedInv
  BY DEF S!Init, LeaderInv, CheckedInv, S!Process, S!Wine, S!Ended
<1> QED BY <1>1, <1>t, <1>2, <1>3 DEF IInv, S!TypeOK, Places, Truths, Clients, Failing

LEMMA NextInv == ASSUME IInv, [S!Next]_S!vars PROVE IInv'
<1> USE DEF IInv, S!TypeOK, LeaderInv, CheckedInv, Places, Truths, Clients, Failing, S!Process, S!Wine, S!Ended,
           S!output, S!processes, S!Step
<1>1. CASE S!Stop
  <2>1. Places'
    BY <1>1, ProceduresAssumption DEF S!Stop
  <2>2. Truths'
    BY <1>1 DEF S!Stop
  <2>3. Clients'
    BY <1>1 DEF S!Stop
  <2>4. Failing'
    BY <1>1 DEF S!Stop
  <2>5. LeaderInv' /\ CheckedInv'
    BY <1>1 DEF S!Stop
  <2> QED BY <2>1, <2>2, <2>3, <2>4, <2>5
<1>2. CASE S!Poll
  <2>1. Places'
    BY <1>2 DEF S!Poll, S!Gone
  <2>2. Truths'
    BY <1>2 DEF S!Poll, S!Gone
  <2>3. Clients'
    BY <1>2 DEF S!Poll, S!Gone
  <2>4. Failing'
    BY <1>2 DEF S!Poll, S!Gone
  <2>5. LeaderInv' /\ CheckedInv'
    BY <1>2 DEF S!Poll, S!Gone
  <2> QED BY <2>1, <2>2, <2>3, <2>4, <2>5
<1>3. CASE S!Signal("sigint", "wait_int") \/ S!Signal("sigterm", "wait_term")
  <2>1. Places'
    BY <1>3 DEF S!Signal
  <2>2. Truths'
    BY <1>3 DEF S!Signal
  <2>3. Clients'
    BY <1>3 DEF S!Signal
  <2>4. Failing'
    BY <1>3 DEF S!Signal
  <2>5. LeaderInv' /\ CheckedInv'
    BY <1>3 DEF S!Signal
  <2> QED BY <2>1, <2>2, <2>3, <2>4, <2>5
<1>4. CASE S!Gone("wait_int") \/ S!Gone("wait_term") \/ S!Gone("wait_kill")
  <2>1. Places'
    BY <1>4 DEF S!Gone
  <2>2. Truths'
    BY <1>4 DEF S!Gone
  <2>3. Clients'
    BY <1>4 DEF S!Gone
  <2>4. Failing'
    BY <1>4 DEF S!Gone
  <2>5. LeaderInv' /\ CheckedInv'
    BY <1>4 DEF S!Gone
  <2> QED BY <2>1, <2>2, <2>3, <2>4, <2>5
<1>5. CASE S!WaitTimesOut("wait_int", "sigterm") \/ S!WaitTimesOut("wait_term", "wine_k")
  <2>1. Places'
    BY <1>5 DEF S!WaitTimesOut
  <2>2. Truths'
    BY <1>5 DEF S!WaitTimesOut
  <2>3. Clients'
    BY <1>5 DEF S!WaitTimesOut
  <2>4. Failing'
    BY <1>5 DEF S!WaitTimesOut
  <2>5. LeaderInv' /\ CheckedInv'
    BY <1>5 DEF S!WaitTimesOut
  <2> QED BY <2>1, <2>2, <2>3, <2>4, <2>5
<1>6. CASE S!KillWine
  <2>1. Places'
    BY <1>6 DEF S!KillWine, S!WineKilled
  <2>2. Truths'
    BY <1>6 DEF S!KillWine, S!WineKilled
  <2>3. Clients'
    BY <1>6 DEF S!KillWine, S!WineKilled
  <2>4. Failing'
    BY <1>6 DEF S!KillWine, S!WineKilled
  <2>5. LeaderInv' /\ CheckedInv'
    BY <1>6 DEF S!KillWine, S!WineKilled
  <2> QED BY <2>1, <2>2, <2>3, <2>4, <2>5
<1>7. CASE S!Kill
  <2>1. Places'
    BY <1>7 DEF S!Kill
  <2>2. Truths'
    BY <1>7 DEF S!Kill
  <2>3. Clients'
    BY <1>7 DEF S!Kill
  <2>4. Failing'
    BY <1>7 DEF S!Kill
  <2>5. LeaderInv' /\ CheckedInv'
    BY <1>7 DEF S!Kill
  <2> QED BY <2>1, <2>2, <2>3, <2>4, <2>5
<1>8. CASE S!KillTimesOut
  <2>1. Places'
    BY <1>8 DEF S!KillTimesOut
  <2>2. Truths'
    BY <1>8 DEF S!KillTimesOut
  <2>3. Clients'
    BY <1>8 DEF S!KillTimesOut
  <2>4. Failing'
    BY <1>8 DEF S!KillTimesOut
  <2>5. LeaderInv' /\ CheckedInv'
    BY <1>8 DEF S!KillTimesOut
  <2> QED BY <2>1, <2>2, <2>3, <2>4, <2>5
<1>9. CASE S!CloseProcess \/ S!CloseAll
  <2>1. Places'
    BY <1>9 DEF S!CloseProcess, S!CloseAll, S!Close
  <2>2. Truths'
    BY <1>9 DEF S!CloseProcess, S!CloseAll, S!Close
  <2>3. Clients'
    BY <1>9 DEF S!CloseProcess, S!CloseAll, S!Close
  <2>4. Failing'
    BY <1>9 DEF S!CloseProcess, S!CloseAll, S!Close
  <2>5. LeaderInv' /\ CheckedInv'
    BY <1>9 DEF S!CloseProcess, S!CloseAll, S!Close
  <2> QED BY <2>1, <2>2, <2>3, <2>4, <2>5
<1>10. CASE S!WineWait("wine_w", "wine_k2") \/ S!WineWait("wine_w2", "close2")
  <2>1. Places'
    BY <1>10 DEF S!WineWait
  <2>2. Truths'
    BY <1>10 DEF S!WineWait
  <2>3. Clients'
    BY <1>10 DEF S!WineWait
  <2>4. Failing'
    BY <1>10 DEF S!WineWait
  <2>5. LeaderInv' /\ CheckedInv'
    BY <1>10 DEF S!WineWait
  <2> QED BY <2>1, <2>2, <2>3, <2>4, <2>5
<1>11. CASE S!WineKillAgain
  <2>1. Places'
    BY <1>11 DEF S!WineKillAgain, S!WineKilled
  <2>2. Truths'
    BY <1>11 DEF S!WineKillAgain, S!WineKilled
  <2>3. Clients'
    BY <1>11 DEF S!WineKillAgain, S!WineKilled
  <2>4. Failing'
    BY <1>11 DEF S!WineKillAgain, S!WineKilled
  <2>5. LeaderInv' /\ CheckedInv'
    BY <1>11 DEF S!WineKillAgain, S!WineKilled
  <2> QED BY <2>1, <2>2, <2>3, <2>4, <2>5
<1>12. CASE \E at \in S!Wine : S!WineFails(at)
  <2>1. Places'
    BY <1>12 DEF S!WineFails
  <2>2. Truths'
    BY <1>12 DEF S!WineFails
  <2>3. Clients'
    BY <1>12 DEF S!WineFails
  <2>4. Failing'
    BY <1>12 DEF S!WineFails
  <2>5. LeaderInv' /\ CheckedInv'
    BY <1>12 DEF S!WineFails
  <2> QED BY <2>1, <2>2, <2>3, <2>4, <2>5
<1>13. CASE S!LeaderExits \/ S!GroupExits \/ S!WineExits \/ S!ReaderEnds
  <2>1. Places'
    BY <1>13 DEF S!LeaderExits, S!GroupExits, S!WineExits, S!ReaderEnds
  <2>2. Truths'
    BY <1>13 DEF S!LeaderExits, S!GroupExits, S!WineExits, S!ReaderEnds
  <2>3. Clients'
    BY <1>13 DEF S!LeaderExits, S!GroupExits, S!WineExits, S!ReaderEnds
  <2>4. Failing'
    BY <1>13 DEF S!LeaderExits, S!GroupExits, S!WineExits, S!ReaderEnds
  <2>5. LeaderInv' /\ CheckedInv'
    BY <1>13 DEF S!LeaderExits, S!GroupExits, S!WineExits, S!ReaderEnds
  <2> QED BY <2>1, <2>2, <2>3, <2>4, <2>5
<1>14. CASE UNCHANGED S!vars
  <2>1. Places'
    BY <1>14 DEF S!vars
  <2>2. Truths'
    BY <1>14 DEF S!vars
  <2>3. Clients'
    BY <1>14 DEF S!vars
  <2>4. Failing'
    BY <1>14 DEF S!vars
  <2>5. LeaderInv' /\ CheckedInv'
    BY <1>14 DEF S!vars
  <2> QED BY <2>1, <2>2, <2>3, <2>4, <2>5
<1> QED BY <1>1, <1>2, <1>3, <1>4, <1>5, <1>6, <1>7, <1>8, <1>9, <1>10, <1>11, <1>12, <1>13, <1>14 DEF S!Next, S!Code

LEMMA Invariance == S!Spec => []IInv
<1>1. IInv /\ [S!Next]_S!vars => IInv'
  BY NextInv
<1> QED BY InitInv, <1>1, PTL DEF S!Spec

-----------------------------------------------------------------------------
\* Every variable of a stop keeps its type; in particular a client in the group
\* keeps the wineserver alive, and an exception only goes out through close.
THEOREM TypeCorrect == S!Spec => []S!TypeOK
BY Invariance, PTL DEF IInv

\* Whatever fails and however often stop is called again, a signal goes only to
\* a group whose leader is unreaped (server_process.py:182-214).
THEOREM SignalsGoToOwnGroup == S!Spec => []SignalsOwnGroup
<1>1. IInv => SignalsOwnGroup
  BY DEF IInv, LeaderInv, SignalsOwnGroup, S!SignalsOwnGroup, S!Process
<1> QED BY Invariance, <1>1, PTL

\* No stop ends without the Wine checks once the leader is gone, however the
\* reader and the commands of wineserver behave (server_process.py:161-177).
THEOREM WineAlwaysChecked == S!Spec => []WineChecked
<1>1. IInv => WineChecked
  BY DEF IInv, CheckedInv, WineChecked, S!WineChecked, S!Ended
<1> QED BY Invariance, <1>1, PTL

-----------------------------------------------------------------------------
(* The contract of stop, without its fairness *)

Alive     == leader = "running" \/ group \/ wine
Phase     == CASE stopPc \in {"none"} \cup S!Ended -> stopPc [] OTHER -> "stopping"
Returning == (stopPc = "close2" /\ ~failed) \/ stopPc = "returned"

\* No process comes back, so what the last wineserver -w saw holds until stop
\* returns, through the close of the output and a client that exits meanwhile.
GoneInv == Returning => leader = "reaped" /\ ~wine

LEMMA GoneStays == ASSUME IInv, GoneInv, [S!Next]_S!vars PROVE GoneInv'
<1> USE DEF IInv, S!TypeOK, LeaderInv, GoneInv, Returning, S!Process, S!Wine, S!Ended, S!output, S!processes, S!Step
<1>1. CASE S!Stop
  BY <1>1 DEF S!Stop
<1>2. CASE \/ S!Poll \/ S!KillTimesOut \/ S!Gone("wait_int") \/ S!Gone("wait_term") \/ S!Gone("wait_kill")
           \/ S!WaitTimesOut("wait_int", "sigterm") \/ S!WaitTimesOut("wait_term", "wine_k")
           \/ S!Signal("sigint", "wait_int") \/ S!Signal("sigterm", "wait_term")
  BY <1>2 DEF S!Poll, S!KillTimesOut, S!Gone, S!WaitTimesOut, S!Signal
<1>3. CASE S!KillWine \/ S!Kill \/ S!WineKillAgain
  BY <1>3 DEF S!KillWine, S!Kill, S!WineKillAgain, S!WineKilled
<1>4. CASE S!CloseProcess \/ S!CloseAll
  BY <1>4 DEF S!CloseProcess, S!CloseAll, S!Close
<1>5. CASE S!WineWait("wine_w", "wine_k2") \/ S!WineWait("wine_w2", "close2")
  BY <1>5 DEF S!WineWait
<1>6. CASE \E at \in S!Wine : S!WineFails(at)
  BY <1>6 DEF S!WineFails
<1>7. CASE S!LeaderExits \/ S!GroupExits \/ S!WineExits \/ S!ReaderEnds
  BY <1>7 DEF S!LeaderExits, S!GroupExits, S!WineExits, S!ReaderEnds
<1>8. CASE UNCHANGED S!vars
  BY <1>8 DEF S!vars
<1> QED BY <1>1, <1>2, <1>3, <1>4, <1>5, <1>6, <1>7, <1>8 DEF S!Next, S!Code

\* A step of a process or of stop is a step of the contract, or nothing to it.
LEMMA ContractStep ==
  ASSUME IInv, GoneInv, [S!Next]_S!vars PROVE [S!Contract!Next]_<<Alive, Phase>>
<1> USE DEF S!Process, S!Wine, S!Ended, S!output, S!processes, S!Step
<1>1. ASSUME UNCHANGED stopPc \/ {stopPc, stopPc'} \cap ({"none"} \cup S!Ended) = {} PROVE UNCHANGED Phase
  BY <1>1 DEF Phase
<1>2. ASSUME UNCHANGED Phase, Alive' => Alive PROVE [S!Contract!Next]_<<Alive, Phase>>
  <2>1. CASE Alive /\ ~Alive'
    BY <1>2, <2>1 DEF S!Contract!Next, S!Contract!Dies, Alive, Phase
  <2>2. CASE Alive = Alive'
    BY <1>2, <2>2
  <2>3. Alive \in BOOLEAN /\ Alive' \in BOOLEAN
    BY DEF Alive
  <2> QED BY <1>2, <2>1, <2>2, <2>3
<1>3. CASE S!Stop
  <2>1. stopPc \in {"none", "raised"} /\ stopPc' = "poll" /\ UNCHANGED S!processes
    BY <1>3 DEF S!Stop
  <2> QED BY <2>1 DEF S!Contract!Next, S!Contract!Begin
<1>4. CASE S!CloseAll
  <2>1. stopPc = "close2" /\ stopPc' = (IF failed THEN "raised" ELSE "returned") /\ UNCHANGED S!processes
    BY <1>4 DEF S!CloseAll, S!Close
  <2>2. CASE failed
    BY <2>1, <2>2 DEF S!Contract!Next, S!Contract!Raise
  <2>3. CASE ~failed
    <3>1. leader = "reaped" /\ ~wine /\ ~group
      BY <2>1, <2>3 DEF GoneInv, Returning, IInv, S!TypeOK
    <3> QED BY <2>1, <2>3, <3>1 DEF S!Contract!Next, S!Contract!Return
  <2> QED BY <2>2, <2>3
<1>5. CASE \/ S!Poll \/ S!KillTimesOut \/ S!Gone("wait_int") \/ S!Gone("wait_term") \/ S!Gone("wait_kill")
           \/ S!WaitTimesOut("wait_int", "sigterm") \/ S!WaitTimesOut("wait_term", "wine_k")
           \/ S!Signal("sigint", "wait_int") \/ S!Signal("sigterm", "wait_term")
  <2>1. UNCHANGED Phase
    BY <1>1, <1>5 DEF S!Poll, S!KillTimesOut, S!Gone, S!WaitTimesOut, S!Signal
  <2>2. Alive' => Alive
    BY <1>5 DEF S!Poll, S!KillTimesOut, S!Gone, S!WaitTimesOut, S!Signal, Alive
  <2> QED BY <1>2, <2>1, <2>2
<1>6. CASE S!KillWine \/ S!Kill \/ S!WineKillAgain
  <2>1. UNCHANGED Phase
    BY <1>1, <1>6 DEF S!KillWine, S!Kill, S!WineKillAgain
  <2>2. Alive' => Alive
    BY <1>6 DEF S!KillWine, S!Kill, S!WineKillAgain, S!WineKilled, Alive
  <2> QED BY <1>2, <2>1, <2>2
<1>7. CASE S!CloseProcess
  <2>1. UNCHANGED Phase /\ (Alive' => Alive)
    BY <1>1, <1>7 DEF S!CloseProcess, S!Close, Alive
  <2> QED BY <1>2, <2>1
<1>8. CASE S!WineWait("wine_w", "wine_k2") \/ S!WineWait("wine_w2", "close2") \/ \E at \in S!Wine : S!WineFails(at)
  <2>1. UNCHANGED Phase /\ (Alive' => Alive)
    BY <1>1, <1>8 DEF S!WineWait, S!WineFails, Alive
  <2> QED BY <1>2, <2>1
<1>9. CASE S!LeaderExits \/ S!GroupExits \/ S!WineExits \/ S!ReaderEnds
  <2>1. UNCHANGED Phase
    BY <1>1, <1>9 DEF S!LeaderExits, S!GroupExits, S!WineExits, S!ReaderEnds
  <2>2. Alive' => Alive
    BY <1>9 DEF S!LeaderExits, S!GroupExits, S!WineExits, S!ReaderEnds, Alive
  <2> QED BY <1>2, <2>1, <2>2
<1>10. CASE UNCHANGED S!vars
  BY <1>10 DEF S!vars, Alive, Phase
<1> QED BY <1>3, <1>4, <1>5, <1>6, <1>7, <1>8, <1>9, <1>10 DEF S!Next, S!Code

\* What stop_server relies on: a stop that returns has left no leader, no client
\* and no wineserver, whatever failed before and however often it was called;
\* one that leaves something raises (server_process.py:161-219).
THEOREM StopKeepsContract == S!Spec => S!Contract!Init /\ [][S!Contract!Next]_<<Alive, Phase>>
<1>1. S!Init => S!Contract!Init /\ GoneInv
  BY DEF S!Init, S!Contract!Init, GoneInv, Returning, S!Ended
<1>2. IInv /\ GoneInv /\ [S!Next]_S!vars => GoneInv'
  BY GoneStays
<1>3. IInv /\ GoneInv /\ [S!Next]_S!vars => [S!Contract!Next]_<<Alive, Phase>>
  BY ContractStep
<1> QED BY Invariance, <1>1, <1>2, <1>3, PTL DEF S!Spec
=============================================================================
