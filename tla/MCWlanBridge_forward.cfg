\* The whole forwarding plane, with a network stack that refuses datagrams
SPECIFICATION Spec
CONSTANTS
  a1 = a1
  a2 = a2
  a3 = a3
  p1 = p1
  p2 = p2
  m1 = m1
  m2 = m2
  g = g
  none = none
  Addrs = {a1, a2, a3}
  Ips = {p1, p2}
  IpOf <- MCIpOf
  Macs = {m1, m2}
  Groups = {g}
  NoAddr = none
  MaxBurst = 3
  MaxFrames = 4
  CountMod = 2
  AllocMayFail = FALSE
  SendMayFail = TRUE
SYMMETRY MCSymmetry
INVARIANTS
  TypeOK
  ListAgreesWithFdb
  ShareCount
  LocatedIsFloodable
  NoStaleFlag
  OneCopyPerClient
  NeverReflected
  FlowOrder
  RxCountsEachFrame
  TxCoversWire
