\* Two clients, of which listen_wait expects one.
CONSTANTS
  zero = zero
  one = one
  two = two
  Nodes <- Programs
  Scenarios <- JustTwoVerifiers
  MayCrash = {}
  Cuts = {0}
  Null = Null
SPECIFICATION Spec
CHECK_DEADLOCK FALSE
INVARIANT StopsListening
