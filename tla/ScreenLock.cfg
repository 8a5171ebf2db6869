CONSTANTS
  Desktops = {home, other}
  Home = home
  Lockers = {l1, l2, l3}
  NoLocker = noLocker
  Requests = {r1, r2}
  NoRequest = noRequest
  MaxDied = 2
  Events = {"crash"}
SPECIFICATION FairSpec
CHECK_DEADLOCK FALSE
INVARIANTS
  LockStatesAgree
  RepliesOnceAllHave
  GoneLockerIsReported
PROPERTIES
  IsLockService
  PromptComesBack
