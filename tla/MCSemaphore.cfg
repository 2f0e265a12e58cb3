SPECIFICATION FairSpec
CONSTANTS
  Threads = {1, 2, 3, 4}
  Initial = 0
  Waits <- MCWaits
  Posts <- MCPosts
INVARIANTS TypeOK NoLostPermit
PROPERTIES ImplementsSemaphore EverybodyServed
CHECK_DEADLOCK FALSE
