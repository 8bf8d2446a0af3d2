SPECIFICATION Spec
CONSTANTS
    Track = {cam, desk}
    Camera = {cam}
    NoTrack = NoTrack
    Mode <- Modes
    Layers = 3
    MaxCalls = 7
INVARIANTS PeerDescribes SameSources TrackTold TrackKnowsSsrc
CHECK_DEADLOCK FALSE
