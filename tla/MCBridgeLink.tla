---------------------------- MODULE MCBridgeLink ----------------------------
(* The instance of the run bridge.                                         *)
EXTENDS BridgeLink

LastNs == {-1, 0}

Deployments == {<<"websocket", "terminate">>, <<"websocket", "notify">>,
                <<"datachannel", "terminate">>}

OwnConstraints == {[lastN |-> 0, view |-> [shown |-> Endpoint, height |-> OnStage]]}

=============================================================================
