\* More arrives than incoming holds, and the receiving side is destroyed.
CONSTANTS
  alice = alice
  bob = bob
  Sides <- BothSides
  Traffics <- OneWay
  OutCap = 2
  InCap = 1
  WireCap = 5
  DiePackage = DiePackage
SPECIFICATION FairSpec
CHECK_DEADLOCK FALSE
PROPERTIES
  DestroyReturns
