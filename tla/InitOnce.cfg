CONSTANTS
  Threads = {1, 2, 3}
  Sems = {1, 2, 3}
SPECIFICATION FairSpec
INVARIANTS
  NoEarlyReturn
  InitOnlyOnce
  NoSemLeak
PROPERTY
  CallsReturn
