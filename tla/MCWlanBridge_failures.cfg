\* The learning switch when any allocation and any send may fail
SPECIFICATION FairSpec
CONSTANTS
  a1 = a1
  a2 = a2
  a3 = a3
  p1 = p1
  p2 = p2
  m1 = m1
  m2 = m2
  g = g
  none = none
  Addrs = {a1, a2, a3}
  Ips = {p1}
  IpOf <- MCOneIp
  Macs = {m1, m2}
  Groups = {}
  NoAddr = none
  MaxBurst = 2
  MaxFrames = 3
  CountMod = 2
  AllocMayFail = TRUE
  SendMayFail = TRUE
PROPERTIES
  RefinesService
  ImplementsService
