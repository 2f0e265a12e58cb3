SPECIFICATION MCShrinkSpec
CONSTANTS
  Keys = {0}
  HashOf <- MCHash
  TOMBSTONE = TOMBSTONE
  NoKey = NoKey
  HopscotchHash <- MCShrinkHash
  RobinHoodHash <- MCRobinHoodHash
  LinearHash <- MCLinearHash
  HashBits = 12
  HashRange = 4096
  Threshold = 9
  MaxCapacity = 128
  Neighborhood = 32
  Requests = {64, 128}
  EMPTY = EMPTY
  InitialN = {1}
  BucketSizes = {1}
  MaxChains = 5
  TreeKeys = {1}
  BTreeKeys = {1}
  Infos <- MCInfos
  RED = RED
  BLACK = BLACK
  NULL = NULL
PROPERTIES ShrinkKeepsKeys
