------------------------------ MODULE AskLifecycle ------------------------------
(***************************************************************************)
(* What `ask` promises its caller, with no queue, retry, cache or daemon   *)
(* in sight: the reported status of a request only moves forward, and says *)
(* of the peer only what the peer has done.  A failure may still turn into *)
(* a response; a response is final.                                        *)
(***************************************************************************)
EXTENDS DeliveryStages

CONSTANT Requests

VARIABLES
    status,  \* what the sender reports of each request
    peer     \* what the peer has done with each request

vars == <<status, peer>>

Init ==
    /\ status = [r \in Requests |-> "none"]
    /\ peer = [r \in Requests |-> {}]

\* What the peer must have done for a request to have a status.
Evidence(s) ==
    CASE s = "received_by_peer_daemon" -> "received"
      [] s = "processing_failed" -> "failed"
      [] s = "processed_by_peer_runtime" -> "succeeded"

Accept(r) == status[r] = "none" /\ status'[r] = "pending_send"

\* A later stage, or the same one over the other path.
Progress(r) ==
    /\ status[r] \in Stages \ Terminal
    /\ status'[r] \in Stages
    /\ Ordinal(status'[r]) >= Ordinal(status[r])
    /\ status'[r] \in PeerReceipt => Evidence(status'[r]) \in peer[r]

Recover(r) ==
    /\ status[r] = "processing_failed"
    /\ status'[r] = "processed_by_peer_runtime"
    /\ "succeeded" \in peer[r]

\* Polled, expired, refused or lost in a restart; the request id is never used again.
Forget(r) == status[r] \in Stages /\ status'[r] = "gone"

\* The peer takes the request in before its runtime produces anything from it.
PeerStep(r) ==
    /\ peer[r] \subseteq peer'[r]
    /\ peer'[r] # {} => "received" \in peer'[r]
    /\ peer'[r] \subseteq {"received", "succeeded", "failed"}

\* One step may forget several requests, as pruning and restarts do.
Next ==
    /\ status' = [r \in Requests |-> status'[r]]
    /\ peer' = [r \in Requests |-> peer'[r]]
    /\ \A r \in Requests :
          /\ \/ status'[r] = status[r]
             \/ Accept(r) \/ Progress(r) \/ Recover(r) \/ Forget(r)
          /\ peer'[r] = peer[r] \/ PeerStep(r)

Spec == Init /\ [][Next]_vars
=============================================================================
