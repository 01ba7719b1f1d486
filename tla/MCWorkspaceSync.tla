---------------------------- MODULE MCWorkspaceSync ----------------------------
(* Instances of WorkspaceSync for TLC. *)
EXTENDS WorkspaceSync

CONSTANTS a, b, note, todo, code

\* a and b write shared files, a also code outside .shared/.
MCWriter == [c \in Changes |-> IF c = todo THEN b ELSE a]
=============================================================================
