SPECIFICATION Spec
CONSTANTS
    Owner = {a}
    Changes = 2
    OutTimeout = 1
    P2PTimeout = 2
    InTimeout = 3
    RestoringTimeout = 3
INVARIANTS MutedAsTold TracksKept StatusCurrent
