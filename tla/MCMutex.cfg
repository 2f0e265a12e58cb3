SPECIFICATION FairSpec
CONSTANTS
  Threads = {1, 2, 3}
  Nobody = 0
  Rounds <- MCRounds
INVARIANTS TypeOK MutualExclusion NoLostWakeup
PROPERTIES ImplementsLock AllRoundsRun
