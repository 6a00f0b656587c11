---------------------------- MODULE MCSavedData ----------------------------
(* SavedData with one world of each origin, two files each. *)
EXTENDS SavedDataProofs
=============================================================================
