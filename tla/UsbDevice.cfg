SPECIFICATION DeviceSpec
CONSTANTS
  Requests <- MCRequests
  Addresses <- MCAddresses
  Samples = {s1, s2}
  Placeholder = p
  CntMax = 1
INVARIANTS
  DeviceTypeOK
  RequestIntact
  NoStaleReply
  ReplyCorrect
  ReadInBounds
PROPERTIES
  TxBufExclusive
  NothingDropped
