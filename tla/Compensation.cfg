SPECIFICATION Spec
CONSTANTS
  Calibrations <- MCCalibrations
  Losses <- MCLosses
  RawTemps <- MCRawTemps
  Step = 61
INVARIANTS
  DefinedWhenRead
  ZeroDivisorNeedsLostWord
  FailedReadBounded
  SiNearDatasheet
PROPERTIES
  PressureContinuous
