-------------------------- MODULE MCConversationMemory --------------------------
(* An instance of ConversationMemory for TLC.  The exchanges are numbered in order,    *)
(* the actors are alike, and so are the sessions.                                      *)
EXTENDS ConversationMemory, TLC

CONSTANTS a1, a2, s1, s2

Symmetry == Permutations(Actors) \cup Permutations(Sessions)
=============================================================================
