--------------------------- MODULE MCWakeListener ---------------------------
(* WakeListener with three allowed sources, room for two, and one denied. *)
EXTENDS WakeListener, TLC

CONSTANTS a, b, c, denied, game, query

MCAllowed == {a, b, c}
MCSources == MCAllowed \cup {denied}
MCPorts == {game, query}
MCSymmetry == Permutations(MCAllowed) \cup Permutations(MCPorts)
=============================================================================
