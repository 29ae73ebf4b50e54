CONSTANTS
  f1 = f1
  f2 = f2
  f3 = f3
  Funcs = {f1, f2, f3}
  Mlx5 = {f1, f2}
  Denied = {f2}
  NSlots = 3
  None = None
  MaxPlugs = 3
  Commands = {"info", "obj"}
SPECIFICATION Spec
INVARIANTS
  TypeOK
  OpensWhatWasNamed
PROPERTY NotFoundIsTrue
CHECK_DEADLOCK FALSE
