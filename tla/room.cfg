SPECIFICATION Spec
CONSTANTS
    Client = {a, b}
    NoClient = NoClient
    MaxJoins = 2
    MaxDrops <- Drops
    MaxUpdates <- Updates
    MaxActs = 3
    Trusted = {a}
    Others = {b}
INVARIANTS ParticipantsMatch PresenceTold LobbyAttended
CHECK_DEADLOCK FALSE
