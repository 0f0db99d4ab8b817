\* A session clears the counters while the RX thread increments them
SPECIFICATION Spec
CONSTANTS
  Sessions = {c1}
  MaxWakeups = 2
INVARIANTS
  WakeupsBounded
