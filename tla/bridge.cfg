SPECIFICATION Spec
CONSTANTS
    LastN <- LastNs
    Deployment <- Deployments
    Own <- OwnConstraints
    Endpoint = {a}
    Height = {180, 360}
    MaxSessions = 2
    MaxReplaces = 1
    MaxSockets = 3
    MaxTasks = 2
    MaxCalls = 2
INVARIANTS BridgeTold ChannelComesBack FailureHandled
CHECK_DEADLOCK FALSE
