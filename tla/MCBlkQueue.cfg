\* Two producers against two consumers on a queue of two.
CONSTANTS
  Producers = {p1, p2}
  Consumers = {c1, c2}
  Elements = {e1, e2}
  Null = Null
  Size = 2
SPECIFICATION Spec
SYMMETRY Symmetry
INVARIANTS
  TypeOK
  MutualExclusion
  PermitsBalance
  SlotsMatchIndices
  RegistersMatch
PROPERTIES
  ImplementsFifo
