----------------------------- MODULE MCCoordination -----------------------------
(* Instances of Coordination for TLC. *)
EXTENDS Coordination, TLC

CONSTANTS a, b, c, proj, inv1, inv2, s1, s2

Symmetric ==
    Permutations({a, b, c}) \cup Permutations({s1, s2}) \cup Permutations({inv1, inv2})
=============================================================================
