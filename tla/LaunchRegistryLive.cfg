CONSTANTS
  Pids = {p1, p2, p3, p4}
  NoPid = noPid
  MaxApps = 2
  MaxPending = 1
  PortSize = 2
  Restarters = {t1}
  Events = {"slowServer", "newLogin", "overlap"}
SPECIFICATION FairSpec
CHECK_DEADLOCK FALSE
INVARIANTS
  SessionServerIsFound
PROPERTIES
  LaunchesAreAnswered
