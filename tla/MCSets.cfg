SPECIFICATION SetsSpec
CONSTANTS
  Keys = {0, 14, 16, 23, 87}
  HashOf <- MCHash
  TOMBSTONE = TOMBSTONE
  NoKey = NoKey
  HopscotchHash <- MCHopscotchHash
  RobinHoodHash <- MCRobinHoodHash
  LinearHash <- MCLinearHash
  HashBits = 6
  HashRange = 64
  Threshold = 9
  MaxCapacity = 16
  Neighborhood = 4
  Requests = {1, 9}
  EMPTY = EMPTY
  InitialN = {1, 2}
  BucketSizes = {1, 2}
  MaxChains = 5
  TreeKeys = {1, 2, 3, 4, 5, 6, 7, 8, 9}
  BTreeKeys = {1, 2, 3, 4, 5, 6, 7, 8, 9, 10}
  Infos <- MCInfos
  RED = RED
  BLACK = BLACK
  NULL = NULL
INVARIANTS TypeOK CountersExact LookupEnds TablesSound Balanced WalksInOrder
PROPERTIES ImplementsSet OthersImplementSet
