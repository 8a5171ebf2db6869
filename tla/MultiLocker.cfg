CONSTANTS
  Threads = {t1, t2, t3, t4}
  NoThread = noThread
  MaxNest = 2
SPECIFICATION FairSpec
INVARIANTS
  WriterIsAlone
  CountersAreTrue
  NoLostWakeUp
PROPERTIES
  WaitersGetIn
