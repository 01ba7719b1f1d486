-------------------------------- MODULE MCFanOut --------------------------------
(* Instances of FanOut for TLC. *)
EXTENDS FanOut, TLC

CONSTANTS a, b, c

Symmetric == Permutations({a, b, c})
=============================================================================
