SPECIFICATION Spec
CONSTANTS
  a = a
  b = b
  c = c
  denied = denied
  game = game
  query = query
  Ports <- MCPorts
  Sources <- MCSources
  Allowed <- MCAllowed
  PacketCount = 2
  Window = 1
  MaxTracked = 2
  IgnoreEmpty = TRUE
  BufferSize = 2
  MaxTime = 3
  MaxPackets = 4
SYMMETRY MCSymmetry
INVARIANTS
  WakeJustified
  NoWakeMissed
  HistoryBounded
