SPECIFICATION Spec
CONSTANTS
  CalibrationWords = 3
  MaxFaults = 0
  TempTime = 4500
  PressureTime = 15000
INVARIANTS
  PollGap
