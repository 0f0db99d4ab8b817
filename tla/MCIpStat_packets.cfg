\* The packet rates of successive commands
SPECIFICATION Spec
CONSTANTS
  p1 = p1
  p2 = p2
  p3 = p3
  Keys = {p1}
  hashv <- MCHash1
  InitialLog2 = 0
  Thresh = 2
  Sessions = {c1}
  MaxPackets = 4
  MaxShows = 2
CHECK_DEADLOCK FALSE
INVARIANTS
  PacketRateOnce
