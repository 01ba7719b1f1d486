----------------------------- MODULE MCAskDelivery -----------------------------
(* Instances of AskDelivery for TLC: the failures each run allows. *)
EXTENDS AskDelivery

CONSTANTS r1

\* A message that is lost is, for what may never happen, one that nobody takes.
SafetyFaults == FaultKinds \ {"lose_wire", "lose_batch"}

\* An entry of `responses` that expires is settled, so a liveness run does without.
LiveFaults == FaultKinds \ {"expire_response"}
=============================================================================
