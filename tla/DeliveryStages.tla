----------------------------- MODULE DeliveryStages -----------------------------
(***************************************************************************)
(* The staged outcome of a request as its sender's daemon records it: the  *)
(* stages of DeliveryStage and the updates that local_api.rs applies to    *)
(* one entry of the `responses` map.  Every update runs under the map's    *)
(* lock, so each is a function from the old entry to the new one.          *)
(*                                                                         *)
(* The text of the response and of the error, and the node they came from, *)
(* are abstracted to their presence.                                       *)
(***************************************************************************)
EXTENDS Naturals

HandoffStages == {"handed_off_direct", "handed_off_mailbox"}

\* DeliveryStage::is_terminal
Terminal == {"processing_failed", "processed_by_peer_runtime"}

\* DeliveryStage::has_peer_receipt
PeerReceipt == {"received_by_peer_daemon"} \cup Terminal

Stages == {"pending_send"} \cup HandoffStages \cup PeerReceipt

\* DeliveryStage::ordinal
Ordinal(stage) ==
    CASE stage = "pending_send" -> 0
      [] stage \in HandoffStages -> 1
      [] stage = "received_by_peer_daemon" -> 2
      [] stage \in Terminal -> 3

Entries == [stage : Stages \cup {"absent"}, response : BOOLEAN, error : BOOLEAN]

\* No entry for the request in the map.
AbsentEntry == [stage |-> "absent", response |-> FALSE, error |-> FALSE]

\* The entry insert_pending creates.
NewEntry == [stage |-> "pending_send", response |-> FALSE, error |-> FALSE]

-----------------------------------------------------------------------------
\* Mutant of NoteStage: a stage that arrives late overwrites a later one.
NoteStageUnordered(entry, stage) ==
    IF entry.stage \in Terminal \cup {"absent"} THEN entry ELSE [entry EXCEPT !.stage = stage]

\* note_pending_stage: a terminal entry keeps its outcome, the others advance.
NoteStage(entry, stage) ==
    IF \/ entry.stage \in Terminal \cup {"absent"}
       \/ Ordinal(stage) < Ordinal(entry.stage)
    THEN entry
    ELSE [entry EXCEPT !.stage = stage]

\* note_pending_failure: only a stored response outlives a failure report.
NoteFailure(entry) ==
    IF entry.stage \in {"absent", "processed_by_peer_runtime"}
    THEN entry
    ELSE [entry EXCEPT !.stage = "processing_failed", !.error = TRUE]

\* store_delivery_event, for the stages a peer's daemon reports.
StoreDeliveryEvent(entry, stage) ==
    IF stage = "processing_failed" THEN NoteFailure(entry) ELSE NoteStage(entry, stage)

\* Mutant of StoreResponse: the error of an earlier failure report stays behind.
StoreResponseKeepError(entry) ==
    IF entry.stage = "absent"
    THEN entry
    ELSE [entry EXCEPT !.stage = "processed_by_peer_runtime", !.response = TRUE]

\* store_response: a response wins over whatever was recorded, a failure included.
StoreResponse(entry) ==
    IF entry.stage = "absent"
    THEN entry
    ELSE [stage |-> "processed_by_peer_runtime", response |-> TRUE, error |-> FALSE]
=============================================================================
