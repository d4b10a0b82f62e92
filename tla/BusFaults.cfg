SPECIFICATION BusSpec
CONSTANTS
  Requests <- FaultRequests
  Addresses <- MCAddresses
  Samples = {s1, s2}
  Placeholder = p
  CntMax = 1
  Faults = {"abort", "reset"}
  MaxLoss = 2
INVARIANTS
  AddressAgreement
  NeverOverrun
  AllOrNothing
  DoneMeansServed
