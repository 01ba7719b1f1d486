---------------------------- MODULE MCClientIdentity ----------------------------
(* Instances of ClientIdentity for TLC. *)
EXTENDS ClientIdentity, TLC

CONSTANTS t1, t2, n1, n2, n3, n4, p1

Symmetric == Permutations({t1, t2}) \cup Permutations({n1, n2, n3, n4})
=============================================================================
