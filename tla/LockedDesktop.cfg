CONSTANTS
  AppWindows = {w1, w2}
  Lockers = {l1, l2}
  NoTeam = noTeam
SPECIFICATION Spec
SYMMETRY Symmetry
CHECK_DEADLOCK FALSE
INVARIANTS
  NothingShowsWhileLocked
  HeldWindowsLive
  FocusListIntact
  WindowsAsAsked
  PromptIsShown
PROPERTIES
  LockerLossReported
