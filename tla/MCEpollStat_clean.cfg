\* A clean that finds an increment under way
SPECIFICATION Spec
CONSTANTS
  Sessions = {c1}
  MaxWakeups = 2
INVARIANTS
  CleanSuccess
