CONSTANTS
  MaxLen = 18
  InlineMax = 1
  InitSize = 2
  MaxSkew = 1
SPECIFICATION Spec
INVARIANT GapsOnlyAtWrap
CHECK_DEADLOCK FALSE
