CONSTANTS
  Users = {live}
  LiveUser = live
  Greeter = greeter
  NoUser = noUser
  Pids = {p1, p2}
  NoPid = noPid
  Threads = {t1}
  PortSize = 1
  MaxPasswords = 1
  Events = {"crash", "forkFails", "prepareForShutdown",
            "shutdownFinished", "sigterm"}
SPECIFICATION FairSpec
CHECK_DEADLOCK FALSE
INVARIANTS
  OneSessionWithoutOverlap
PROPERTIES
  TransitionsFinish
