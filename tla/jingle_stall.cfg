SPECIFICATION FairSpec
CONSTANTS
  s1 = s1
  NoSource = NoSource
  NoTask = NoTask
  s2 = s2
  Source <- TwoSources
  Roles <- OnlyJvb
  Plans <- OnlyUnified
  MultiStream = TRUE
  Faults <- NoFaults
  MaxOps = 3
PROPERTIES TaskCallsBack
CHECK_DEADLOCK FALSE
