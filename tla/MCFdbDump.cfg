\* One dump after another while stations are learned
SPECIFICATION FairSpec
CONSTANTS
  MaxEntries = 5
INVARIANTS
  ListWellFormed
  PrintsAllOld
  TwiceOnlyInOverlap
PROPERTIES
  DumpEnds
