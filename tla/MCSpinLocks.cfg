SPECIFICATION FairSpec
CONSTANTS
  Threads = {1, 2, 3}
  Nobody = 0
  Rounds <- MCRounds
  Tries <- MCTries
  Order <- MCOrder
  MaxNested = 2
  NoNode = NoNode
  NoLock = NoLock
INVARIANTS TypeOK TicketsInOrder FreeNodesUnlinked
PROPERTIES ImplementsLock AllRoundsRun
