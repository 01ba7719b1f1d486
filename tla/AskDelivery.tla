------------------------------- MODULE AskDelivery -------------------------------
(***************************************************************************)
(* One `ask` between two daemons, end to end.                              *)
(*                                                                         *)
(* The SENDER runs handle_ask and retry_request_until_peer_receipt for     *)
(* each request, keeps the request's staged outcome in `responses`, and    *)
(* its two inbound loops store what the peer reports.  The RECEIVER runs   *)
(* two inbound loops of its own, "recv" (direct transport) and "poll"      *)
(* (mailbox), over one shared `request_cache` that keeps a retried request *)
(* from being dispatched to the runtime twice.                             *)
(*                                                                         *)
(* A message is <<place, kind, request>> and `net` counts its copies.  The *)
(* places are the direct transport ("wire", which may drop), the           *)
(* recipient's queue on the coordination server ("mailbox", durable) and   *)
(* the messages one fetch has drained ("batch", volatile).                 *)
(*                                                                         *)
(* Time is abstracted to the two expiries that depend on it: an entry of   *)
(* `responses` or of `request_cache` may at any moment become older than   *)
(* its 300 seconds; it leaves the map when the code next prunes it.        *)
(***************************************************************************)
EXTENDS DeliveryStages

CONSTANTS
    Requests,    \* the request ids the sender creates
    MaxRetries,  \* the length of handle_ask's list of retry delays (2 in the code)
    MaxAlike,    \* bound: copies of one message in one place at a time
    MaxHalfSent, \* bound: attempts of a request whose direct send may fail half way
    Faults       \* the failures that may happen in a run

FaultKinds ==
    {"lose_wire",         \* the direct transport drops a message
     "lose_batch",        \* a drained message is not decoded, or a reply not relayed
     "refuse",            \* key lookup or mailbox relay reports an error
     "caller_gone",       \* the caller's HTTP client gives up before handle_ask returns
     "expire_response",   \* an entry of `responses` outlives its 300 seconds
     "expire_cache",      \* an entry of `request_cache` outlives its 300 seconds
     "restart_sender", "restart_receiver"}

ASSUME AskAssumption == MaxRetries \in Nat /\ MaxAlike \in Nat /\ MaxHalfSent \in Nat
                        /\ Faults \subseteq FaultKinds

VARIABLES
    asker,          \* sender: where handle_ask or the retry task is, per request
    tries,          \* sender: retries made, per request
    responses,      \* sender: the map of pending responses
    aged,           \* sender: requests whose entry in `responses` is 300 s old
    net,            \* copies of each message, per place
    dropped,        \* history: what was lost of each request since its last copy left
    loop,           \* receiver: what each inbound loop is doing
    request_cache,  \* receiver: outcome per request, "none" when not cached
    stale,          \* receiver: requests whose cache entry is 300 s old
    runs,           \* history: dispatches of each request to the runtime
    forgets,        \* history: times the receiver forgot a cached request
    produced        \* history: what the receiver did with each request

network == <<net, dropped>>
senderVars == <<asker, tries, responses, aged>>
receiverVars == <<loop, request_cache, stale, runs, forgets, produced>>
vars == <<senderVars, network, receiverVars>>

Loops == {"recv", "poll"}
Outcomes == {"succeeded", "failed"}
Replies == {"received_by_peer_daemon", "processing_failed", "response"}
Losses ==
    {"wire",   \* the transport dropped a message
     "ask",    \* the receiver's daemon lost the request before it was done with it
     "reply"}  \* a daemon lost a receipt, a failure or a response
Messages == {"wire", "mailbox", "batch"} \X ({"ask"} \cup Replies) \X Requests

Idle == [pc |-> "idle"]

Init ==
    /\ asker = [r \in Requests |-> "idle"]
    /\ tries = [r \in Requests |-> 0]
    /\ responses = [r \in Requests |-> AbsentEntry]
    /\ aged = {}
    /\ net = [m \in Messages |-> 0]
    /\ dropped = [r \in Requests |-> {}]
    /\ loop = [l \in Loops |-> Idle]
    /\ request_cache = [r \in Requests |-> "none"]
    /\ stale = {}
    /\ runs = [r \in Requests |-> 0]
    /\ forgets = [r \in Requests |-> 0]
    /\ produced = [r \in Requests |-> {}]

-----------------------------------------------------------------------------
(* Messages *)

Put(m) ==
    /\ net[m] < MaxAlike
    /\ net' = [net EXCEPT ![m] = @ + 1]
    /\ UNCHANGED dropped

Take(m) ==
    /\ net[m] > 0
    /\ net' = [net EXCEPT ![m] = @ - 1]

Blame(losses) == dropped' = [r \in Requests |-> dropped[r] \cup losses[r]]

OnlyOf(r, what) == [q \in Requests |-> IF q = r THEN {what} ELSE {}]

\* One copy of the request leaves, over each of the routes it takes.
PutAsk(places, r) ==
    /\ \A place \in places : net[<<place, "ask", r>>] < MaxAlike
    /\ net' = [m \in Messages |->
                 IF m[1] \in places /\ m[2] = "ask" /\ m[3] = r THEN net[m] + 1 ELSE net[m]]
    /\ dropped' = [dropped EXCEPT ![r] = {}]

\* One encrypted message from the receiver: over the direct transport if it accepts
\* it, else through the mailbox; when the relay refuses too, it is only logged.
Transmit(kind, r) ==
    \/ \E place \in {"wire", "mailbox"} : Put(<<place, kind, r>>)
    \/ "lose_batch" \in Faults /\ UNCHANGED net /\ Blame(OnlyOf(r, "reply"))

\* fetch_mailbox by the recipient of `kinds`: the server hands over every queued
\* message and deletes it.  A poll loop fetches once its last batch is done.
Drain(kinds) ==
    /\ \E k \in kinds, r \in Requests : net[<<"mailbox", k, r>>] > 0
    /\ \A k \in kinds, r \in Requests : net[<<"batch", k, r>>] = 0
    /\ net' = [m \in Messages |->
                 IF m[2] \notin kinds \/ m[1] = "wire" THEN net[m]
                 ELSE IF m[1] = "batch" THEN net[<<"mailbox", m[2], m[3]>>] ELSE 0]
    /\ UNCHANGED dropped

\* A dying daemon takes the messages it has fetched with it.
DropBatch(kinds) ==
    net' = [m \in Messages |-> IF m[1] = "batch" /\ m[2] \in kinds THEN 0 ELSE net[m]]

Fetched(kinds, r) == \E k \in kinds : net[<<"batch", k, r>>] > 0

Lose(place, kind, r) ==
    /\ \/ place = "wire" /\ "lose_wire" \in Faults /\ Blame(OnlyOf(r, "wire"))
       \/ /\ place = "batch" /\ "lose_batch" \in Faults
          /\ Blame(OnlyOf(r, IF kind = "ask" THEN "ask" ELSE "reply"))
    /\ Take(<<place, kind, r>>)
    /\ UNCHANGED <<senderVars, receiverVars>>

-----------------------------------------------------------------------------
(* The sender *)

GoTo(r, pc) == asker' = [asker EXCEPT ![r] = pc]

\* Mutant of AfterAttempt: one delay too many.
AfterAttemptOneMore(r) == IF tries[r] <= MaxRetries THEN "wait" ELSE "done"

\* Where the asker goes once an attempt is over: the next delay, or the end.
AfterAttempt(r) == IF tries[r] < MaxRetries THEN "wait" ELSE "done"

\* handle_ask up to its first send; insert_pending also drops every expired entry.
\* (A request refused for a missing field or capability changes nothing.)
Ask(r) ==
    /\ asker[r] = "idle"
    /\ GoTo(r, "send")
    /\ responses' = [x \in Requests |->
                       IF x = r THEN NewEntry
                       ELSE IF x \in aged THEN AbsentEntry ELSE responses[x]]
    /\ aged' = {}
    /\ UNCHANGED <<tries, network, receiverVars>>

\* The direct transport may report an error although the bytes have left.
HalfSent(r) == tries[r] < MaxHalfSent

\* encrypt_and_send hands the message to the transport or, failing that, to the
\* mailbox; a transport that fails half way leaves a copy on the wire as well.  The
\* asker records the route only after it has let go of everything.
Send(r) ==
    /\ asker[r] = "send"
    /\ \/ PutAsk({"wire"}, r) /\ GoTo(r, "handed_off_direct")
       \/ PutAsk({"mailbox"}, r) /\ GoTo(r, "handed_off_mailbox")
       \/ HalfSent(r) /\ PutAsk({"wire", "mailbox"}, r) /\ GoTo(r, "handed_off_mailbox")
    /\ UNCHANGED <<tries, responses, aged, receiverVars>>

\* encrypt_and_send fails: nothing left, or the relay call failed after the server had
\* queued the message, or the transport did half way.  The first attempt then gives
\* up, a retry goes on.
SendError(r) ==
    /\ "refuse" \in Faults
    /\ asker[r] = "send"
    /\ \/ UNCHANGED network
       \/ PutAsk({"mailbox"}, r)
       \/ HalfSent(r) /\ \E also \in {{}, {"mailbox"}} : PutAsk({"wire"} \cup also, r)
    /\ GoTo(r, IF tries[r] = 0 THEN "drop" ELSE AfterAttempt(r))
    /\ UNCHANGED <<tries, responses, aged, receiverVars>>

\* handle_ask's error path: remove_pending, then HTTP 502.
Drop(r) ==
    /\ asker[r] = "drop"
    /\ GoTo(r, "refused")
    /\ responses' = [responses EXCEPT ![r] = AbsentEntry]
    /\ aged' = aged \ {r}
    /\ UNCHANGED <<tries, network, receiverVars>>

\* note_pending_stage for the handoff: by now the peer may have answered already.
NoteHandoff(r) ==
    /\ asker[r] \in HandoffStages
    /\ responses' = [responses EXCEPT ![r] = NoteStage(@, asker[r])]
    /\ GoTo(r, AfterAttempt(r))
    /\ UNCHANGED <<tries, aged, network, receiverVars>>

\* retry_request_until_peer_receipt, once a delay is over.
Retry(r) ==
    /\ asker[r] = "wait"
    /\ IF responses[r].stage \in PeerReceipt \cup {"absent"}
       THEN GoTo(r, "done") /\ UNCHANGED tries
       ELSE GoTo(r, "send") /\ tries' = [tries EXCEPT ![r] = @ + 1]
    /\ UNCHANGED <<responses, aged, network, receiverVars>>

\* The caller learns the request id when handle_ask returns, after the first handoff.
Returned(r) ==
    \/ asker[r] \in {"wait", "done"}
    \/ asker[r] \in {"send"} \cup HandoffStages /\ tries[r] > 0

\* The command's HTTP client gives up after 30 s, and the server drops handle_ask at the
\* await it has come to: the entry stays, whatever has left stays out, nobody retries.
CallerGone(r) ==
    /\ "caller_gone" \in Faults
    /\ asker[r] \in {"send", "drop"} \cup HandoffStages
    /\ tries[r] = 0
    /\ GoTo(r, "abandoned")
    /\ UNCHANGED <<tries, responses, aged, network, receiverVars>>

\* handle_poll_response on a terminal entry; on any other it changes nothing.
Poll(r) ==
    /\ Returned(r)
    /\ responses[r].stage \in Terminal
    /\ responses' = [responses EXCEPT ![r] = AbsentEntry]
    /\ aged' = aged \ {r}
    /\ UNCHANGED <<asker, tries, network, receiverVars>>

\* The inbound loops of the sender's daemon store a reply.
StoreReply(place, kind, r) ==
    /\ place # "mailbox"
    /\ Take(<<place, kind, r>>) /\ UNCHANGED dropped
    /\ responses' = [responses EXCEPT ![r] =
                       IF kind = "response" THEN StoreResponse(@) ELSE StoreDeliveryEvent(@, kind)]
    /\ UNCHANGED <<asker, tries, aged, receiverVars>>

FetchReplies == Drain(Replies) /\ UNCHANGED <<senderVars, receiverVars>>

ResponseExpires(r) ==
    /\ "expire_response" \in Faults
    /\ responses[r].stage # "absent"
    /\ aged' = aged \cup {r}
    /\ UNCHANGED <<asker, tries, responses, network, receiverVars>>

\* `responses` and the retry tasks live in memory only, and so do fetched replies.
RestartSender ==
    /\ "restart_sender" \in Faults
    /\ asker' = [r \in Requests |->
                   CASE asker[r] \in {"idle", "refused"} -> asker[r]
                     [] Returned(r) -> "done"
                     [] OTHER -> "abandoned"]
    /\ responses' = [r \in Requests |-> AbsentEntry]
    /\ aged' = {}
    /\ DropBatch(Replies)
    /\ Blame([r \in Requests |-> IF Fetched(Replies, r) THEN {"reply"} ELSE {}])
    /\ UNCHANGED <<tries, receiverVars>>

-----------------------------------------------------------------------------
(* The receiver *)

\* prune_request_cache
Pruned == [r \in Requests |-> IF r \in stale THEN "none" ELSE request_cache[r]]

CountForgotten(gone) ==
    forgets' = [r \in Requests |->
                  IF r \in gone /\ request_cache[r] # "none" THEN forgets[r] + 1 ELSE forgets[r]]

Inbox(l) == IF l = "recv" THEN "wire" ELSE "batch"

\* Mutant of Begin: the entry is written when the run ends, not when it begins.
BeginWithoutInFlight(l, r) ==
    /\ loop[l].pc = "idle"
    /\ Take(<<Inbox(l), "ask", r>>) /\ UNCHANGED dropped
    /\ loop' = [loop EXCEPT ![l] = [pc |-> "receipt", req |-> r, cached |-> Pruned[r]]]
    /\ request_cache' = Pruned
    /\ CountForgotten(stale)
    /\ stale' = {}
    /\ produced' = [produced EXCEPT ![r] = @ \cup {"received"}]
    /\ UNCHANGED <<senderVars, runs>>

\* Mutant of Begin: the claim is looked up after it is written, and found in flight.
BeginClaimFirst(l, r) ==
    /\ loop[l].pc = "idle"
    /\ Take(<<Inbox(l), "ask", r>>) /\ UNCHANGED dropped
    /\ request_cache' = [Pruned EXCEPT ![r] = IF @ = "none" THEN "in_flight" ELSE @]
    /\ loop' = [loop EXCEPT ![l] = [pc |-> "receipt", req |-> r, cached |-> request_cache'[r]]]
    /\ CountForgotten(stale)
    /\ stale' = {}
    /\ produced' = [produced EXCEPT ![r] = @ \cup {"received"}]
    /\ UNCHANGED <<senderVars, runs>>

\* A loop takes a request: begin_request_processing prunes the cache, then claims the
\* request as in flight, or finds and refreshes the entry of an earlier copy.
Begin(l, r) ==
    /\ loop[l].pc = "idle"
    /\ Take(<<Inbox(l), "ask", r>>) /\ UNCHANGED dropped
    /\ loop' = [loop EXCEPT ![l] = [pc |-> "receipt", req |-> r, cached |-> Pruned[r]]]
    /\ request_cache' = [Pruned EXCEPT ![r] = IF @ = "none" THEN "in_flight" ELSE @]
    /\ CountForgotten(stale)
    /\ stale' = {}
    /\ produced' = [produced EXCEPT ![r] = @ \cup {"received"}]
    /\ UNCHANGED <<senderVars, runs>>

\* Mutant of AfterReceipt: a copy of a finished request is acknowledged and no more.
AfterReceiptSilent(job) ==
    IF job.cached = "none" THEN [job EXCEPT !.pc = "dispatch"] ELSE Idle

\* Where a loop goes after the receipt: a fresh request is dispatched, a finished one
\* is answered from the cache, and one in flight is left to the loop that runs it.
AfterReceipt(job) ==
    CASE job.cached = "none" -> [job EXCEPT !.pc = "dispatch"]
      [] job.cached = "in_flight" -> Idle
      [] OTHER -> [job EXCEPT !.pc = "reply"]

\* send_delivery_event "received_by_peer_daemon"
SendReceipt(l) ==
    /\ loop[l].pc = "receipt"
    /\ Transmit("received_by_peer_daemon", loop[l].req)
    /\ loop' = [loop EXCEPT ![l] = AfterReceipt(@)]
    /\ UNCHANGED <<senderVars, request_cache, stale, runs, forgets, produced>>

\* dispatch_inbound_message hands the request to the runtime, which may take longer
\* than the cache's 300 seconds.
Dispatch(l) ==
    /\ loop[l].pc = "dispatch"
    /\ loop' = [loop EXCEPT ![l].pc = "running"]
    /\ runs' = [runs EXCEPT ![loop[l].req] = @ + 1]
    /\ UNCHANGED <<senderVars, network, request_cache, stale, forgets, produced>>

\* Mutant of Finish: a failed run leaves its entry in flight.
FinishSkipFailure(l, outcome) ==
    /\ loop[l].pc = "running"
    /\ loop' = [loop EXCEPT ![l].pc = "reply", ![l].cached = outcome]
    /\ request_cache' = [Pruned EXCEPT ![loop[l].req] = IF outcome = "failed" THEN @ ELSE outcome]
    /\ CountForgotten(stale)
    /\ stale' = {}
    /\ produced' = [produced EXCEPT ![loop[l].req] = @ \cup {outcome}]
    /\ UNCHANGED <<senderVars, network, runs>>

\* The runtime returns; finish_request_success / finish_request_failure prune the
\* cache and store the outcome, whether or not the request is still in it.
Finish(l, outcome) ==
    /\ loop[l].pc = "running"
    /\ loop' = [loop EXCEPT ![l].pc = "reply", ![l].cached = outcome]
    /\ request_cache' = [Pruned EXCEPT ![loop[l].req] = outcome]
    /\ CountForgotten(stale)
    /\ stale' = {}
    /\ produced' = [produced EXCEPT ![loop[l].req] = @ \cup {outcome}]
    /\ UNCHANGED <<senderVars, network, runs>>

\* send_response_message for a success, "processing_failed" for a failure.
Reply(l) ==
    /\ loop[l].pc = "reply"
    /\ Transmit(IF loop[l].cached = "succeeded" THEN "response" ELSE "processing_failed",
                loop[l].req)
    /\ loop' = [loop EXCEPT ![l] = Idle]
    /\ UNCHANGED <<senderVars, request_cache, stale, runs, forgets, produced>>

\* The poll loop fetches again only when it has gone through its last batch.
FetchRequests ==
    /\ loop["poll"].pc = "idle"
    /\ Drain({"ask"})
    /\ UNCHANGED <<senderVars, receiverVars>>

CacheEntryExpires(r) ==
    /\ "expire_cache" \in Faults
    /\ request_cache[r] # "none"
    /\ stale' = stale \cup {r}
    /\ UNCHANGED <<senderVars, network, loop, request_cache, runs, forgets, produced>>

\* What the loops have in their hands of a request: the request itself until it is run
\* to its end, then what there is to tell of it.
InHands(r) ==
    {IF loop[l].cached = "none" THEN "ask" ELSE "reply" :
        l \in {k \in Loops : loop[k].pc # "idle" /\ loop[k].req = r}}

\* `request_cache` lives in memory only, and a running request dies with its loop.
RestartReceiver ==
    /\ "restart_receiver" \in Faults
    /\ loop' = [l \in Loops |-> Idle]
    /\ request_cache' = [r \in Requests |-> "none"]
    /\ CountForgotten(Requests)
    /\ stale' = {}
    /\ DropBatch({"ask"})
    /\ Blame([r \in Requests |-> InHands(r) \cup IF Fetched({"ask"}, r) THEN {"ask"} ELSE {}])
    /\ UNCHANGED <<senderVars, runs, produced>>

-----------------------------------------------------------------------------
(* The system *)

AskerStep(r) == Send(r) \/ SendError(r) \/ Drop(r) \/ NoteHandoff(r) \/ Retry(r)

Stored(place) == \E kind \in Replies, r \in Requests : StoreReply(place, kind, r)

LoopStep(l) ==
    \/ \E r \in Requests : Begin(l, r)
    \/ SendReceipt(l)
    \/ Dispatch(l)
    \/ \E outcome \in Outcomes : Finish(l, outcome)
    \/ Reply(l)

Next ==
    \/ \E r \in Requests : Ask(r) \/ AskerStep(r) \/ CallerGone(r) \/ Poll(r)
    \/ \E place \in {"wire", "batch"} : Stored(place)
    \/ FetchReplies
    \/ \E l \in Loops : LoopStep(l)
    \/ FetchRequests
    \/ \E r \in Requests : ResponseExpires(r) \/ CacheEntryExpires(r)
    \/ \E m \in Messages : Lose(m[1], m[2], m[3])
    \/ RestartSender
    \/ RestartReceiver

Spec == Init /\ [][Next]_vars

\* Every task keeps being scheduled, and a user need not ask, nor a failure happen.
\* Assumed: a call to the coordination server returns (CoordClient sets no timeout),
\* the transport's send does, and the runtime answers.
Fairness ==
    /\ \A r \in Requests : WF_vars(AskerStep(r))
    /\ \A place \in {"wire", "batch"} : WF_vars(Stored(place))
    /\ WF_vars(FetchReplies) /\ WF_vars(FetchRequests)
    /\ \A l \in Loops : WF_vars(LoopStep(l))

FairSpec == Spec /\ Fairness

-----------------------------------------------------------------------------
(* Properties *)

\* What a loop does with a request, and what it found, or then put, in the cache.
Jobs ==
    [pc : {"receipt"}, req : Requests, cached : {"none", "in_flight"} \cup Outcomes]
    \cup [pc : {"dispatch", "running"}, req : Requests, cached : {"none"}]
    \cup [pc : {"reply"}, req : Requests, cached : Outcomes]

\* Every variable stays within its range, and an asker waits only for a retry it has left.
TypeOK ==
    /\ asker \in [Requests -> {"idle", "send", "drop", "refused", "wait", "done", "abandoned"}
                               \cup HandoffStages]
    /\ tries \in [Requests -> 0..MaxRetries]
    /\ \A r \in Requests : asker[r] = "wait" => tries[r] < MaxRetries
    /\ responses \in [Requests -> Entries]
    /\ aged \subseteq Requests
    /\ net \in [Messages -> Nat]
    /\ dropped \in [Requests -> SUBSET Losses]
    /\ loop \in [Loops -> {Idle} \cup Jobs]
    /\ request_cache \in [Requests -> {"none", "in_flight"} \cup Outcomes]
    /\ stale \subseteq Requests
    /\ runs \in [Requests -> Nat]
    /\ forgets \in [Requests -> Nat]
    /\ produced \in [Requests -> SUBSET ({"received"} \cup Outcomes)]

\* However its copies arrive, over both loops and with retries, a request is dispatched
\* to the runtime at most once for each time the receiver has forgotten it, plus once.
DispatchPerMemory ==
    \A r \in Requests : runs[r] <= forgets[r] + 1

\* A request marked in flight is in the hands of a loop that will store its outcome:
\* an entry left in flight by nobody would silence every later copy of the request.
InFlightIsOwned ==
    \A r \in Requests :
        request_cache[r] = "in_flight" =>
            \E l \in Loops : loop[l].pc # "idle" /\ loop[l].req = r
                                /\ loop[l].cached = "none"

\* What a poll would report agrees with itself, in whatever order a receipt, a failure,
\* a response and the note of the handoff came in: a response exactly when the stage is
\* processed, an error exactly when it is failed.
CoherentOutcome ==
    \A r \in Requests :
        /\ responses[r].response <=> responses[r].stage = "processed_by_peer_runtime"
        /\ responses[r].error <=> responses[r].stage = "processing_failed"

\* Once its caller has the id, a request reaches an outcome to be polled or leaves the
\* map, unless something of it was lost after its last copy had left: a retry makes up
\* for whatever was lost before it, an answer that the receiver had already sent included.
AskSettles ==
    \A r \in Requests :
        Returned(r) /\ responses[r].stage \notin Terminal \cup {"absent"}
            ~> responses[r].stage \in Terminal \cup {"absent"} \/ dropped[r] # {}

\* A request that reached the recipient's mailbox is dispatched, whatever the direct
\* transport drops, unless the receiver's daemon stops with that request in its hands.
MailboxDispatches ==
    \A r \in Requests :
        net[<<"mailbox", "ask", r>>] > 0 ~> runs[r] > 0 \/ "ask" \in dropped[r]

-----------------------------------------------------------------------------
(* What the sender's user is promised *)

Status(r) ==
    IF responses[r].stage # "absent" THEN responses[r].stage
    ELSE IF asker[r] = "idle" THEN "none" ELSE "gone"

Lifecycle == INSTANCE AskLifecycle
    WITH status <- [r \in Requests |-> Status(r)], peer <- produced

ImplementsLifecycle == Lifecycle!Spec
=============================================================================
