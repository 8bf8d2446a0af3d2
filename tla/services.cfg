SPECIFICATION Spec
CONSTANTS
  MaxRecordings = 2
  Address = {sip}
  Person <- Persons
  Me = "me"
  MaxActs = 4
  MaxOthers = 1
  MaxRestarts = 1
  MaxInFlight = 2
INVARIANTS RecordingShown CallHasSession ApprovalsShown
CHECK_DEADLOCK FALSE
