\* A read for a length may return one to three of its bytes.
CONSTANTS
  alice = alice
  bob = bob
  Sides <- BothSides
  Traffics <- LengthLike
  OutCap = 2
  InCap = 2
  WireCap = 8
  DiePackage = DiePackage
SPECIFICATION Spec
CHECK_DEADLOCK FALSE
INVARIANTS
  ReceivesWhatWasSent
