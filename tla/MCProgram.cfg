\* Circuits of up to nine gates; a queue of two between a producer and a
\* consumer; a peer and an arena that open and close twice each, whose ids
\* share a bucket when they are two apart.
CONSTANTS
  Parts = {"proof", "queue", "osal"}
  Circuits <- Mixed
  address_of_one = 0
  Randoms <- SomeRandoms
  Masks <- TwoMasks
  CommitBytes = 80
  producer = producer
  consumer = consumer
  Null = Null
  peer = peer
  arena = arena
  Users <- PeerAndArena
  Order <- AsInCarena
  Rounds = 2
  Numbers = {3, 4, 5}
  Buckets = 2
SPECIFICATION ProgramSpec
CHECK_DEADLOCK FALSE
INVARIANTS
  VerdictIsRelations
  EndsInAgreement
  EvaluationSatisfiesGates
  MajorityInFront
  XorExact
  ProvesOneOutput
  SoleConsumerSeesData
  TableMatchesSystem
  UsesItsOwn
  JoinWaits
PROPERTIES
  Terminates
  CallsReturn
  DestroyEnds
