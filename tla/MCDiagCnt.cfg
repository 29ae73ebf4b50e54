CONSTANTS
  p1 = p1
  p2 = p2
  Procs = {p1, p2}
  Ids = {1, 2, 65537}
  Empty = Empty
  Garbage = Garbage
  FlagStrings <- MCFlagStrings
  Lists <- MCLists
  Counts <- MCCounts
  Faults = {"malloc", "ioctl", "status", "lost"}
SPECIFICATION FairSpec
INVARIANTS
  TypeOK
  TokensInBounds
  SentIsAsked
  RepliesReadInside
PROPERTIES
  ImplementsConfig
  AlwaysEnds
