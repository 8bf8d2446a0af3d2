SPECIFICATION Spec
CONSTANTS
  None = None
  Endpoint <- Three
  Capable <- Three
  Followed <- OnlyTwo
  Bots <- OnlyThree
  Toggles <- OnlyTwo
  MaxToggles = 1
  Faults <- AllFaults
INVARIANTS P2POnlyForTwo ActiveTracksShown MediaOnOneConnection DeferredIsCurrent PeersAgree
CHECK_DEADLOCK FALSE
