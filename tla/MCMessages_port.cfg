CONSTANTS
  Numbers <- NumbersMC
  Modes <- ModesMC
  Contents <- ContentsMC
SPECIFICATION Spec
INVARIANT DefaultPortIsOne
