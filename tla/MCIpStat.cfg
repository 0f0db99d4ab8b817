\* One session watches the rates while IPs are entered and packets counted
SPECIFICATION Spec
CONSTANTS
  p1 = p1
  p2 = p2
  p3 = p3
  Keys = {p1, p2, p3}
  hashv <- MCHash
  InitialLog2 = 0
  Thresh = 2
  Sessions = {c1}
  MaxPackets = 3
  MaxShows = 2
CHECK_DEADLOCK FALSE
INVARIANTS
  TypeOK
  ByteRateOnce
  EachIpOnce
  TableAgrees
