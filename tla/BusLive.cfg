SPECIFICATION BusFairSpec
CONSTANTS
  Requests <- StandardRequests
  Addresses <- MCAddresses
  Samples = {s1, s2}
  Placeholder = p
  CntMax = 1
  Faults = {"foreign"}
  MaxLoss = 0
INVARIANTS
  SetupNeverNaked
PROPERTIES
  TransferCompletes
