CONSTANTS
  Numbers <- NumbersMC
  Modes <- ModesMC
  Contents <- ContentsMC
SPECIFICATION Spec
INVARIANTS TypeOK ObjectNamed RegisterReadAsAsked PrintedIsFresh PrintsWhatTheDeviceWrote DumpInside EveryCapTried
PROPERTIES AlwaysEnds
