CONSTANTS
  MaxSegs = 3
  Payloads = {0, 2}
  Records = {0, 1}
  Umems = {6, 13, 64}
  Chunks = {6}
  Stray = {0, 2, 65535}
  TempDw = 40
SPECIFICATION FairSpec
INVARIANTS
  TypeOK
  WalksTheDump
  CollectsTheWholeDump
  WholeDumpReadInside
  
  LostOnlyUnterminated
PROPERTY WalkEnds
CHECK_DEADLOCK FALSE
