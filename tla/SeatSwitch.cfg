CONSTANTS
  Vts = {v1, v2}
  NoVt = noVt
  PortSize = 2
  Backlog = 1
  Events = {"slowSeat", "slowApp", "switchFails", "wakeFails", "sigterm", "noSeat",
            "lateSeat"}
SPECIFICATION FairSpec
CHECK_DEADLOCK FALSE
INVARIANTS
  NoDrawingOnForeignVt
PROPERTIES
  OkMeansSwitched
  SubmitEnds
  SeatIsGivenUp
  DisplayComesBack
