SPECIFICATION Spec
CONSTANTS
    NoKey = NoKey
    RingSize = 2
    Window = 2
    Endpoint = {1, 2, 3}
    Encrypting = {1, 2}
    Unset = Unset
    NoSession = NoSession
    MaxCalls <- Calls
    MaxKeys = 1
    Late = {"init"}
INVARIANTS KeysAgree LeaverLockedOut SessionsAgree
CHECK_DEADLOCK FALSE
