SPECIFICATION FairSpec
CONSTANTS
  CalibrationWords = 3
  MaxFaults = 3
  TempTime = 4500
  PressureTime = 15000
INVARIANTS
  SensorTypeOK
  QuantitiesNotConfused
  RecoversInOnePass
PROPERTIES
  PollsAgain
