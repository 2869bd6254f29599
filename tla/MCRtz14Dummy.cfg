SPECIFICATION FairSpec
CONSTANTS
  Circuits <- JustOneAnd
  address_of_one = 0
  Randoms <- SomeRandoms
  Masks <- TwoMasks
  CommitBytes = 64
CHECK_DEADLOCK FALSE
PROPERTY Terminates
