--------------------------- MODULE MCLocalTracks ---------------------------
EXTENDS LocalTracks

CONSTANTS mic, cam, Bridge, Peer   \* how often each session may start

MicAndCam == <<mic, cam>>
Starts == [s \in Session |-> IF s = "jvb" THEN Bridge ELSE Peer]
=============================================================================
