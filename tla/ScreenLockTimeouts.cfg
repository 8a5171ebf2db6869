CONSTANTS
  Desktops = {home, other}
  Home = home
  Lockers = {l1, l2, l3}
  NoLocker = noLocker
  Requests = {r1, r2}
  NoRequest = noRequest
  MaxDied = 2
  Events = {"timeout", "notSent", "crash", "quickRelock", "launchFails"}
SPECIFICATION Spec
SYMMETRY Symmetry
CHECK_DEADLOCK FALSE
INVARIANTS
  SuccessTakesEffect
PROPERTIES
  IsDesktopLock
