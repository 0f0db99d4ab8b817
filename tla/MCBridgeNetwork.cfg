\* Clients, server and a lossy network; one restart, one fault
SPECIFICATION FairSpec
CHECK_DEADLOCK FALSE
CONSTANTS
  c1 = c1
  c2 = c2
  a1 = a1
  a2 = a2
  a3 = a3
  m1 = m1
  m2 = m2
  none = none
  Clients = {c1, c2}
  Addrs = {a1, a2, a3}
  FirstAddr <- MCFirstAddr
  MaxLives <- MCMaxLives
  MaxFaults = 1
  Macs = {m1, m2}
  Groups = {}
  NoAddr = none
  ClientOf <- MCClientOf
  MaxFrames = 2
INVARIANTS
  EchoOnlyAfterRestart
  OnceUnlessDuplicated
PROPERTIES
  ArrivesUnlessLost
  ClientStops
