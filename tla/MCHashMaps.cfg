\* Maps whose keys may be put more than once.
CONSTANTS
  Keys <- ThreeKeys
  hfn <- TwoBuckets
  lbuckets = 2
  Values = {a, b}
  NoElm = NoElm
  MaxEntries = 3
SPECIFICATION MapsSpec
PROPERTY RemovedIsGone
CHECK_DEADLOCK FALSE
