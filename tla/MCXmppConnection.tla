--------------------------- MODULE MCXmppConnection ---------------------------
(* Model checking of KeepAlive, XmppConnection with its pings, with one IQ.    *)
EXTENDS KeepAlive


===============================================================================
