CONSTANTS
  MaxLen = 18
  InlineMax = 2
  InitSize = 3
  MaxSkew = 0
SPECIFICATION FairSpec
INVARIANTS
  TypeOK
  CopyInBounds
  CollectedInOrder
  NoFalseAlarm
  LossIsReported
  LeaksOnlyWhenEmpty
PROPERTIES
  Terminates
  ImplementsStream
CHECK_DEADLOCK FALSE
