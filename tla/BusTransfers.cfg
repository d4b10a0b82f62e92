SPECIFICATION BusSpec
CONSTANTS
  Requests <- TransferRequests
  Addresses <- MCAddresses
  Samples = {s1, s2}
  Placeholder = p
  CntMax = 1
  Faults = {"abort", "foreign"}
  MaxLoss = 0
INVARIANTS
  BusTypeOK
  CompleteReply
  PlaceholderNeverServed
PROPERTIES
  ImplementsControlTransfer
