CONSTANTS
  Users = {live, alice}
  LiveUser = live
  Greeter = greeter
  NoUser = noUser
  Pids = {p1, p2, p3}
  NoPid = noPid
  Threads = {t1, t2}
  PortSize = 1
  MaxPasswords = 1
  Events = {}
SPECIFICATION Spec
SYMMETRY Symmetry
CHECK_DEADLOCK FALSE
INVARIANTS
  OneSessionAlive
