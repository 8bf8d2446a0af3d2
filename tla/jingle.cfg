SPECIFICATION FairSpec
CONSTANTS
  s1 = s1
  NoSource = NoSource
  NoTask = NoTask
  s2 = s2
  Source <- TwoSources
  Roles <- AllRoles
  Plans <- BothPlans
  MultiStream = TRUE
  Faults <- AllFaults
  MaxOps = 3
INVARIANTS PeerKnowsSources PeerKnowsVideoPreference ClosedIsQuiet
PROPERTIES ImplementsAsyncQueue EndedClosesPc CallersHear
CHECK_DEADLOCK FALSE
