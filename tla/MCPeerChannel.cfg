\* Alice sends up to two messages to Bob, or each sends one; both may close.
CONSTANTS
  alice = alice
  bob = bob
  Sides <- BothSides
  Traffics <- BothTraffics
  OutCap = 2
  InCap = 1
  WireCap = 5
  DiePackage = DiePackage
SPECIFICATION FairSpec
CHECK_DEADLOCK FALSE
INVARIANTS
  InOrder
  KeepsFraming
  CloseFlushes
PROPERTIES
  ReceiveReturns
  DestroyEndsOrBlocks
