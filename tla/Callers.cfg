SPECIFICATION FairSpec
CONSTANTS
  Requests <- MCRequests
  Samples <- MCSamples
  Placeholder = p
  Trees <- MCTrees
  Rounds = 2
  MaxSample = 4
INVARIANTS
  CallersTypeOK
  OnlyEmptyTransfersMislead
  LedAsCommanded
  OneThermometerServed
PROPERTIES
  ToolEnds
