SPECIFICATION FairSpec
CONSTANTS
  None = None
  Endpoint <- Three
  Capable <- Three
  Followed <- NoEndpoint
  Bots <- OnlyThree
  Toggles <- NoEndpoint
  MaxToggles = 0
  Faults <- NoFaults
PROPERTIES HalfCallEnds BackToP2P
CHECK_DEADLOCK FALSE
