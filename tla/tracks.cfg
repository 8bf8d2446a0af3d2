SPECIFICATION Spec
CONSTANTS
    mic = mic
    cam = cam
    Track = {mic, cam, desk}
    Audio = {mic}
    Desktop = {desk}
    NoTrack = NoTrack
    Session = {"jvb", "p2p"}
    Enhanced = {cam}
    Present <- MicAndCam
    Careful = TRUE
    MaxCalls = 3
    CalledKinds = {"video"}
    MaxStarts <- Starts
    Bridge = 1
    Peer = 1
INVARIANTS PresenceTellsTracks SessionsSend FocusMuteHolds
CHECK_DEADLOCK FALSE
