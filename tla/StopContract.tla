----------------------------- MODULE StopContract -----------------------------
(***************************************************************************)
(* What stop_server relies on: a call of ServerProcess.stop ends, and one  *)
(* that returns leaves nothing of the game behind.  One that raises may.   *)
(***************************************************************************)
VARIABLES game, call    \* something of the game is alive; where the call is

Init == game = TRUE /\ call = "none"

Begin  == call \in {"none", "raised"} /\ call' = "stopping" /\ UNCHANGED game
Dies   == game /\ game' = FALSE /\ UNCHANGED call
Return == call = "stopping" /\ ~game /\ call' = "returned" /\ UNCHANGED game
Raise  == call = "stopping" /\ call' = "raised" /\ UNCHANGED game

Next == Begin \/ Dies \/ Return \/ Raise

Spec == Init /\ [][Next]_<<game, call>> /\ WF_<<game, call>>(Return \/ Raise)
=============================================================================
