------------------------------- MODULE MCPeerLink -------------------------------
(* An instance of PeerLink for TLC. *)
EXTENDS PeerLink

CONSTANTS p, x, t, s1, s2
=============================================================================
