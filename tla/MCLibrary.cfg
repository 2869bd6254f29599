\* Lists of up to three nodes, maps of three keys, trees of up to four items,
\* listings of two lines, messages of up to two blocks, three years, BCH codes
\* of one to six errors, one and two blocks of SHA-512, a queue of four threads.
CONSTANTS
  Nodes = {n1, n2, n3}
  Elements = {a, b}
  Values = {a, b}
  Null = Null
  NoElm = NoElm
  Indices <- UpToThree
  Keys <- ThreeKeys
  hfn <- TwoBuckets
  lbuckets = 2
  MaxEntries = 3
  Ints = {0, 66051}
  Strings <- SomeStrings
  MaxItems = 4
  MaxDepth = 3
  Long = 8
  Radix = 16
  Stray = 0
  CYCLIC_BUF_SIZ = 4
  Chunks = {1, 3, 4}
  Noise <- SomeNoise
  Numbers <- SomeNumbers
  MaxLines = 2
  Messages <- SomeMessages
  Randoms <- SomeRandoms
  BlockSize = 6
  LengthField = 2
  LengthBytes = 1
  FirstYear = 2027
  LastYear = 2029
  Instants = {0, 1, 2, 7265, 79200, 79201, 86399}
  BchParams <- SomeParams
  BchTraffic <- SomeTraffic
  Inputs <- SomeInputs
  Pushers = {p1, p2}
  Takers = {t1, t2}
  Items = {x, y}
  Empty = Empty
  Capacity = 1
  Parts = {"list", "hash map", "int key map", "der", "parser", "commitment", "clock",
           "bch", "hash", "teardown"}
SPECIFICATION Spec
INVARIANTS
  EncodingReadsBack
  ParsesListing
  OpensItsMessage
  StampIsLocalTime
  LocatesErrors
  TeardownIsSafe
  ElementsGoOneWay
PROPERTIES
  ListImplementsSequence
  MapsImplementStores
  CompressesAsStandard
CHECK_DEADLOCK FALSE
