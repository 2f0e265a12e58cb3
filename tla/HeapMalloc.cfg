SPECIFICATION Spec
CONSTANTS
  Pointers = {p1, p2, p3}
  Sizes = {0, 2, 3, 9}
  MapSize = 8
  Page = 4
  Buckets = 3
  Bases = {100, 200}
  NULL = NULL
  Zero = Zero
  Junk = Junk
SYMMETRY PointerSymmetry
INVARIANTS TypeOK BlocksTile FreeListsExact MemoryKept
PROPERTIES ContentsAsPromised
