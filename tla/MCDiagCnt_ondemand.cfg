CONSTANTS
  p1 = p1
  p2 = p2
  Procs = {p1}
  Ids = {1, 2, 65537}
  Empty = Empty
  Garbage = Garbage
  FlagStrings <- MCFlagStrings
  Lists <- MCLists
  Counts <- MCCounts
  Faults = {}
SPECIFICATION Spec
INVARIANTS
  OnDemandAccepted
