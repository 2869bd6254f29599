\* Three programs, one of which may be killed.
CONSTANTS
  zero = zero
  one = one
  two = two
  Nodes <- Programs
  Scenarios <- AllScenarios
  MayCrash = {one}
  Cuts = {0, 1}
  Null = Null
SPECIFICATION FairSpec
CHECK_DEADLOCK FALSE
INVARIANTS
  StreamsPaired
  WaitsForClients
  PeersUsable
  ListenerAlive
PROPERTIES
  EverybodyReady
  DestroyReturns
