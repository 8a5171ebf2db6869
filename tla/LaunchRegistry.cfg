CONSTANTS
  Pids = {p1, p2, p3, p4, p5, p6}
  NoPid = noPid
  MaxApps = 3
  MaxPending = 2
  PortSize = 2
  Restarters = {t1, t2}
  Events = {"slowServer", "hastyDeath", "stubborn"}
SPECIFICATION Spec
SYMMETRY Symmetry
CHECK_DEADLOCK FALSE
INVARIANTS
  ReadyServerIsFound
  NoRowShadows
