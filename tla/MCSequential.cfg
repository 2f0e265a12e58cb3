SPECIFICATION Spec
CONSTANTS
  Kinds <- MCKinds
  JUNK = JUNK
  NPOS = 100
  Chars = {1, 2}
  UINT8_MAX = 3
  UINT16_MAX = 5
  SIZE_LIMIT = 9
  DSTRING_INITIAL_SIZE = 2
  GROWTH_FACTOR_NUMERATOR = 8
  GROWTH_FACTOR_DENOMINATOR = 5
  FmtBuf = 2
  MaxLength = 6
  Counts = {1, 2, 100}
  FillsSmall = FALSE
  Values = {0, 1, 2, 3}
  MaxArray = 4
  MaxRequest = 6
  ARRAY_INITIAL_SIZE = 2
  DBUF_INITIAL_SIZE = 3
  UINT_RANGE = 16
  MaxHeap = 6
  MaxSorted = 5
  LongInputs <- MCLongInputs
  Thresholds = {1, 4, 6}
  NintherSize = 40
  CBufCapacity = 4
  MBufCapacity = 8
  MaxMessage = 3
  COUNTER_RANGE = 16
  BITS_PER_LONG = 4
  NumBits = 6
  WordBits = 4
  UintBits = 16
  Types <- MCTypes
  Numbers <- MCNumbers
  Bases = {2, 3, 8, 10, 16, 36}
  Typed <- MCTyped
  MaxTyped = 4
INVARIANTS ContentsExact RingsExact SearchesExact NumbersExact
