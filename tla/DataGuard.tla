----------------------------- MODULE DataGuard ------------------------------
(***************************************************************************)
(* What the data lock promises, without any lock: the game, the supervisor *)
(* working on the server's and the save's files, and each backup or        *)
(* restore are on the data volume one at a time.                           *)
(***************************************************************************)
CONSTANT Helpers
VARIABLE users

Init == users = {}

Enter(u) == users = {} /\ users' = {u}
Leave    == users # {} /\ users' = {}

Next == Leave \/ \E u \in {"game", "files"} \cup Helpers : Enter(u)

Spec == Init /\ [][Next]_users
=============================================================================
