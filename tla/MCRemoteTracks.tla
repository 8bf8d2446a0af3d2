--------------------------- MODULE MCRemoteTracks ---------------------------
(* The instance of the run remote.                                         *)
EXTENDS RemoteTracks

=============================================================================
