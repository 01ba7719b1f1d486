---------------------------- MODULE MCPeerHandshake ----------------------------
(* Instances of PeerHandshake for TLC. *)
EXTENDS PeerHandshake, TLC

CONSTANTS a, b, x, y, z

\* Two messages of one peer that share its sessions, and one of the other.
FromBoth == (x :> a) @@ (y :> a) @@ (z :> b)

\* One message of each peer: both may begin a handshake at the same time.
FromEach == (x :> a) @@ (z :> b)

Symmetric == Permutations({x, y})
=============================================================================
