--------------------------------- MODULE FanOut ---------------------------------
(***************************************************************************)
(* One fan-out command, from the terminal to the last answer.  The CLI     *)
(* posts a debate, broadcast or publish to its daemon; the handler sends   *)
(* to one project member after the other and returns what it did; for a    *)
(* debate the CLI then polls the daemon for one request after the other,   *)
(* while retry tasks and the inbound loops go on changing `responses`.     *)
(*                                                                         *)
(* Each target of a debate has one request, so the target names it.  Time  *)
(* is counted in units of which an entry of `responses` may live TTL (300  *)
(* seconds), a poll lasts Patience (120) and the handler's sends may take  *)
(* SendTime (the 30 of the CLI's HTTP client); what is faster, such as the *)
(* half second between two GETs of a poll, takes no time.                  *)
(***************************************************************************)
EXTENDS DeliveryStages, Sequences, FiniteSets

CONSTANTS
    Targets,     \* the other members of the project
    TTL,         \* life of an entry of `responses`
    Patience,    \* how long the CLI polls for one request: not 0, so it looks at least once
    SendTime,    \* how long the CLI's HTTP client waits for the handler
    MaxRetries   \* length of handle_debate's list of retry delays (2 in the code)

ASSUME FanOutAssumption ==
    /\ IsFiniteSet(Targets)
    /\ TTL \in Nat /\ Patience \in Nat \ {0} /\ SendTime \in Nat /\ MaxRetries \in Nat

VARIABLES
    kind,       \* the command
    handler,    \* where the handler is
    todo,       \* handler: members it has not come to yet
    cur,        \* handler: the member it is sending to, as a set
    sent,       \* handler: sent_to, which for a debate is also request_ids
    failed,     \* handler: members whose result is send_failed
    responses,  \* daemon: the map of pending responses
    age,        \* daemon: how old each entry is
    retry,      \* daemon: retries each target's task has left
    out,        \* targets a copy of the message has left for
    cli,        \* where the command is
    polled,     \* CLI: requests it is done with
    waited,     \* CLI: how long it has polled for the current one
    report,     \* CLI: what it printed for each request
    elapsed,    \* time the sends have taken
    early       \* history: answers stored before the CLI came to their request

handlerVars == <<handler, todo, cur, sent, failed>>
daemonVars == <<responses, age, retry, out>>
cliVars == <<kind, cli, polled, waited, report>>
vars == <<handlerVars, daemonVars, cliVars, elapsed, early>>

Kinds == {"debate", "broadcast", "publish"}
Roles == {"owner", "member", "guest"}

Init ==
    /\ kind = "none" /\ cli = "idle" /\ polled = 0 /\ waited = 0
    /\ handler = "idle" /\ todo = {} /\ cur = {} /\ sent = <<>> /\ failed = {}
    /\ responses = [t \in Targets |-> AbsentEntry]
    /\ age = [t \in Targets |-> 0]
    /\ retry = [t \in Targets |-> 0]
    /\ out = {}
    /\ report = [t \in Targets |-> "none"]
    /\ elapsed = 0
    /\ early = {}

\* role_has_capability, for the capabilities of these commands.
Capable(role) == role \in {"owner", "member"}

-----------------------------------------------------------------------------
(* The command's request and the handler's checks *)

Post(k) ==
    /\ cli = "idle"
    /\ kind' = k
    /\ cli' = "wait" /\ handler' = "checks"
    /\ UNCHANGED <<todo, cur, sent, failed, daemonVars, polled, waited, report, elapsed, early>>

CmdDebate == Post("debate")
CmdBroadcast == Post("broadcast")
CmdPublish == Post("publish")

\* The handler looks at the request (400), reads the members (502) and looks for its own
\* role's capability among them (403); then it goes through the other members.
Check(k) ==
    /\ handler = "checks" /\ kind = k
    /\ \E role \in Roles, accepted \in BOOLEAN :
          IF accepted /\ Capable(role)
          THEN handler' = "next" /\ todo' = Targets /\ UNCHANGED cli
          ELSE handler' = "done" /\ cli' = "ended" /\ UNCHANGED todo
    /\ UNCHANGED <<cur, sent, failed, daemonVars, kind, polled, waited, report, elapsed, early>>

HandleDebate == Check("debate")
HandleBroadcast == Check("broadcast")
HandlePublish == Check("publish")

-----------------------------------------------------------------------------
(* The handler's loop *)

\* Entries older than their TTL, dropped by every insert_pending.
Expired(t) == age[t] >= TTL

\* Mutant of Begin: the member in hand is not taken off the list.
BeginAgain(t) ==
    /\ handler = "next" /\ t \in todo
    /\ handler' = "send" /\ cur' = {t}
    /\ UNCHANGED <<todo, responses, age, sent, failed, retry, out, cliVars, elapsed, early>>

\* handle_debate inserts an entry before it sends; the others keep none.
Begin(t) ==
    /\ handler = "next" /\ t \in todo
    /\ handler' = "send" /\ cur' = {t} /\ todo' = todo \ {t}
    /\ IF kind = "debate"
       THEN /\ responses' = [x \in Targets |-> IF x = t THEN NewEntry
                                               ELSE IF Expired(x) THEN AbsentEntry ELSE responses[x]]
            /\ age' = [age EXCEPT ![t] = 0]
       ELSE UNCHANGED <<responses, age>>
    /\ UNCHANGED <<sent, failed, retry, out, cliVars, elapsed, early>>

\* encrypt_and_send hands the message over, directly or to the mailbox.
Send(t) ==
    /\ handler = "send" /\ cur = {t}
    /\ handler' \in HandoffStages
    /\ out' = out \cup {t}
    /\ UNCHANGED <<todo, cur, sent, failed, responses, age, retry, cliVars, elapsed, early>>

\* encrypt_and_send fails; the relay may have queued the message all the same.
SendError(t) ==
    /\ handler = "send" /\ cur = {t}
    /\ handler' = "failed"
    /\ out' = out \cup {t} \/ UNCHANGED out
    /\ UNCHANGED <<todo, cur, sent, failed, responses, age, retry, cliVars, elapsed, early>>

\* Ok: the stage is noted and a retry task started; the target counts as sent to.
NoteSent(t) ==
    /\ handler \in HandoffStages /\ cur = {t}
    /\ handler' = "next" /\ cur' = {}
    /\ sent' = Append(sent, t)
    /\ IF kind = "debate"
       THEN /\ responses' = [responses EXCEPT ![t] = NoteStage(@, handler)]
            /\ retry' = [retry EXCEPT ![t] = MaxRetries]
       ELSE UNCHANGED <<responses, retry>>
    /\ UNCHANGED <<todo, failed, age, out, cliVars, elapsed, early>>

\* Mutant of NoteFailed: the entry of a failed send stays.
NoteFailedKeepEntry(t) ==
    /\ handler = "failed" /\ cur = {t}
    /\ handler' = "next" /\ cur' = {}
    /\ failed' = failed \cup {t}
    /\ UNCHANGED <<todo, sent, responses, age, retry, out, cliVars, elapsed, early>>

\* Err: remove_pending, and the target's result is send_failed.
NoteFailed(t) ==
    /\ handler = "failed" /\ cur = {t}
    /\ handler' = "next" /\ cur' = {}
    /\ failed' = failed \cup {t}
    /\ responses' = [responses EXCEPT ![t] = AbsentEntry]
    /\ UNCHANGED <<todo, sent, age, retry, out, cliVars, elapsed, early>>

\* HTTP 502 when nothing was sent and something failed, else 200 with ok = (failed = {}).
Status == IF sent = <<>> /\ failed # {} THEN 502 ELSE 200

\* The handler returns, and the command prints its results.  A debate goes on to poll for
\* the requests that were sent, if there are any.
Return ==
    /\ handler = "next" /\ todo = {}
    /\ cli = "wait"
    /\ handler' = "done"
    /\ cli' = IF kind = "debate" /\ Status = 200 /\ sent # <<>> THEN "poll" ELSE "ended"
    /\ UNCHANGED <<todo, cur, sent, failed, daemonVars, kind, polled, waited, report, elapsed, early>>

\* The CLI's HTTP client waits 30 seconds for the answer; the server drops the handler of a
\* connection that is gone, at whatever it was awaiting.
GiveUp ==
    /\ cli = "wait" /\ elapsed = SendTime
    /\ cli' = "gave_up" /\ handler' = "done" /\ cur' = {}
    /\ UNCHANGED <<todo, sent, failed, daemonVars, kind, polled, waited, report, elapsed, early>>

-----------------------------------------------------------------------------
(* The daemon's other tasks *)

\* retry_request_until_peer_receipt after a delay: it ends when the entry is gone or the
\* peer has the request, else it sends again and notes the handoff.
Retry(t) ==
    /\ retry[t] > 0
    /\ IF responses[t].stage \in PeerReceipt \cup {"absent"}
       THEN retry' = [retry EXCEPT ![t] = 0] /\ UNCHANGED responses
       ELSE /\ retry' = [retry EXCEPT ![t] = @ - 1]
            /\ \/ UNCHANGED responses
               \/ \E stage \in HandoffStages :
                     responses' = [responses EXCEPT ![t] = NoteStage(@, stage)]
    /\ UNCHANGED <<handlerVars, age, out, cliVars, elapsed, early>>

\* A receipt or a failure report of the peer.
StoreEvent(t, stage) ==
    /\ kind = "debate" /\ t \in out
    /\ responses' = [responses EXCEPT ![t] = StoreDeliveryEvent(@, stage)]
    /\ UNCHANGED <<handlerVars, age, retry, out, cliVars, elapsed, early>>

\* The requests the CLI polls for, and has not come to.
Ahead == {sent[i] : i \in {j \in 1..Len(sent) : j > polled + 1}}

NotYetPolled(t) == cli = "wait" \/ (cli = "poll" /\ t \in Ahead)

\* An answer of the peer.
StoreAnswer(t) ==
    /\ kind = "debate" /\ t \in out
    /\ responses' = [responses EXCEPT ![t] = StoreResponse(@)]
    /\ early' = IF responses[t].stage # "absent" /\ NotYetPolled(t) THEN early \cup {t} ELSE early
    /\ UNCHANGED <<handlerVars, age, retry, out, cliVars, elapsed>>

\* Mutant of Prune: an entry that has its outcome is dropped at half its age.
PruneTerminalSooner ==
    /\ responses' = [t \in Targets |->
                       IF Expired(t) \/ (responses[t].stage \in Terminal /\ 2 * age[t] >= TTL)
                       THEN AbsentEntry ELSE responses[t]]
    /\ UNCHANGED <<handlerVars, age, retry, out, cliVars, elapsed, early>>

\* Another request of this daemon inserts its entry and drops what has expired.
Prune ==
    /\ responses' = [t \in Targets |-> IF Expired(t) THEN AbsentEntry ELSE responses[t]]
    /\ UNCHANGED <<handlerVars, age, retry, out, cliVars, elapsed, early>>

-----------------------------------------------------------------------------
(* The CLI polls: cmd_debate, poll_response, handle_poll_response *)

Awaited == sent[polled + 1]

\* It prints an outcome, or that it timed out, and polls for the next request.
Conclude(outcome) ==
    /\ report' = [report EXCEPT ![Awaited] = outcome]
    /\ polled' = polled + 1
    /\ waited' = 0
    /\ cli' = IF polled + 1 = Len(sent) THEN "ended" ELSE "poll"

\* A GET that finds a terminal entry: the entry is removed.
Poll ==
    /\ cli = "poll"
    /\ responses[Awaited].stage \in Terminal
    /\ Conclude(IF responses[Awaited].response THEN "response" ELSE "failure")
    /\ responses' = [responses EXCEPT ![Awaited] = AbsentEntry]
    /\ UNCHANGED <<kind, handlerVars, age, retry, out, elapsed, early>>

TimeOut ==
    /\ cli = "poll"
    /\ waited = Patience
    /\ Conclude("timeout")
    /\ UNCHANGED <<kind, handlerVars, daemonVars, elapsed, early>>

\* Time passes while the handler sends, or while the CLI polls for what is not there.
Tick ==
    /\ \/ cli = "wait" /\ elapsed < SendTime
       \/ /\ cli = "poll" /\ waited < Patience
          /\ responses[Awaited].stage \notin Terminal
    /\ elapsed' = IF cli = "wait" THEN elapsed + 1 ELSE elapsed
    /\ waited' = IF cli = "poll" THEN waited + 1 ELSE waited
    /\ age' = [t \in Targets |-> IF responses[t].stage = "absent" THEN age[t] ELSE age[t] + 1]
    /\ UNCHANGED <<handlerVars, responses, retry, out, kind, cli, polled, report, early>>

Next ==
    \/ CmdDebate \/ CmdBroadcast \/ CmdPublish
    \/ HandleDebate \/ HandleBroadcast \/ HandlePublish
    \/ \E t \in Targets :
          \/ Begin(t) \/ Send(t) \/ SendError(t) \/ NoteSent(t) \/ NoteFailed(t)
          \/ Retry(t) \/ StoreAnswer(t)
          \/ \E stage \in {"received_by_peer_daemon", "processing_failed"} : StoreEvent(t, stage)
    \/ Return \/ GiveUp \/ Prune \/ Poll \/ TimeOut \/ Tick

Spec == Init /\ [][Next]_vars

-----------------------------------------------------------------------------
(* Properties *)

SentTo == {sent[i] : i \in 1..Len(sent)}

\* Every variable stays within its range, and the members are divided among those to come,
\* the one in hand, those sent to and those that failed.
TypeOK ==
    /\ kind \in Kinds \cup {"none"}
    /\ handler \in {"idle", "checks", "next", "send", "failed", "done"} \cup HandoffStages
    /\ todo \subseteq Targets /\ cur \subseteq Targets /\ failed \subseteq Targets
    /\ sent \in Seq(Targets)
    /\ responses \in [Targets -> Entries]
    /\ age \in [Targets -> Nat] /\ retry \in [Targets -> 0..MaxRetries]
    /\ out \subseteq Targets
    /\ cli \in {"idle", "wait", "poll", "ended", "gave_up"}
    /\ polled \in 0..Len(sent) /\ waited \in 0..Patience
    /\ report \in [Targets -> {"none", "response", "failure", "timeout"}]
    /\ elapsed \in 0..SendTime /\ early \subseteq Targets
    /\ todo \cap (cur \cup SentTo \cup failed) = {}
    /\ cur \cap (SentTo \cup failed) = {} /\ SentTo \cap failed = {}
    /\ (cli = "poll" => SentTo \cup failed = Targets)

\* A target reported as failed is forgotten: it has no entry that a late answer could fill,
\* no task sends to it again, and the CLI does not wait for it; though it may have the
\* message.  And every target is reported once, as sent to or as failed.
FailedIsForgotten ==
    \A t \in failed :
        /\ responses[t] = AbsentEntry
        /\ retry[t] = 0
        /\ t \notin SentTo /\ report[t] = "none"

\* An answer that is there when the CLI comes to its request is printed, as long as the
\* polls before it cannot outlast the entry: with TTL 300 and Patience 120 seconds that is
\* up to three targets, and with more an answer in time may be reported as a timeout.
EarlyAnswersPrinted ==
    SendTime + (Cardinality(Targets) - 1) * Patience < TTL =>
        \A t \in early : report[t] \in {"none", "response"}
                         /\ (cli = "ended" /\ t \in SentTo => report[t] = "response")
=============================================================================
