CONSTANTS
  p1 = p1
  p2 = p2
  Procs = {p1, p2}
  NPds = 2
  NUmems = 2
  NMkeys = 2
  None = None
  UmemSupported = TRUE
  Faults = {"create", "destroy"}
SPECIFICATION FairSpec
INVARIANTS
  TypeOK
  DumpIsBacked
  NoAccessToFreed
  NeverRefused
  NothingLeft
PROPERTIES
  OnlyOwnerDestroys
  MemoryGivenBack
