---------------------------- MODULE UpdateContract ----------------------------
(***************************************************************************)
(* What the supervisor relies on when it calls update_server: the call     *)
(* ends; nothing of SteamCMD writes to the server's directory before the   *)
(* incomplete marker is there or after the call; runs do not overlap; and  *)
(* the marker goes only when the last run ended well with an executable.   *)
(***************************************************************************)
VARIABLES
  call,         \* "none", "running", or how it ended
  marker,       \* update-incomplete
  executable,   \* WRSHServer.exe is there
  writing,      \* something of SteamCMD is alive
  good          \* the last run ended by itself with status 0

vars == <<call, marker, executable, writing, good>>

Init ==
  /\ call = "none" /\ marker \in BOOLEAN /\ executable \in BOOLEAN
  /\ writing = FALSE /\ good = FALSE

Begin == call # "running" /\ call' = "running" /\ UNCHANGED <<marker, executable, writing, good>>

During == call = "running" /\ UNCHANGED call
Mark   == During /\ marker' = TRUE /\ UNCHANGED <<executable, writing, good>>
Start  == During /\ marker /\ ~writing /\ writing' = TRUE /\ good' = FALSE /\ UNCHANGED <<marker, executable>>
Writes == During /\ writing /\ executable' = TRUE /\ UNCHANGED <<marker, writing, good>>
Stops  == During /\ writing /\ writing' = FALSE /\ good' \in BOOLEAN /\ UNCHANGED <<marker, executable>>

Ends(how) == call = "running" /\ ~writing /\ call' = how /\ UNCHANGED <<executable, writing, good>>
Succeed   == Ends("ok") /\ good /\ executable /\ marker /\ marker' = FALSE
Fail      == (Ends("failed") \/ Ends("cancelled")) /\ UNCHANGED marker

Next == Begin \/ Mark \/ Start \/ Writes \/ Stops \/ Succeed \/ Fail

Spec == Init /\ [][Next]_vars /\ WF_vars(Stops \/ Succeed \/ Fail)
=============================================================================
