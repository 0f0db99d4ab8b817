\* The edge-triggered loop, when reads may fail
SPECIFICATION FairSpec
CONSTANTS
  MaxBurst = 3
  RcvBuf = 7
  RecvMayFail = TRUE
INVARIANTS
  TypeOK
  NoLostWakeup
PROPERTIES
  EveryDatagramRead
  StopsWhenQuiet
