CONSTANTS
  MaxSleeps = 2
  Events = {"delayExpires", "noThread", "inhibitFails", "refused"}
SPECIFICATION FairSpec
INVARIANTS
  LockDecidedBeforeSleep
  HeldForNextSleep
PROPERTIES
  ReleasedOnlyInItsCycle
  SleepGoesOn
