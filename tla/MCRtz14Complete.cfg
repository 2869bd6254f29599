SPECIFICATION Spec
CONSTANTS
  Circuits <- JustOneAnd
  address_of_one = 0
  Randoms <- SomeRandoms
  Masks <- TwoMasks
  CommitBytes = 80
CHECK_DEADLOCK FALSE
INVARIANT Completeness
