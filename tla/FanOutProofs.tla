------------------------------ MODULE FanOutProofs ------------------------------
(***************************************************************************)
(* Theorems about FanOut, for any targets, delays and number of retries.   *)
(*                                                                         *)
(* The inductive invariant adds to TypeOK and FailedIsForgotten which step *)
(* of the handler goes with which step of the command (Phase), and that    *)
(* only what was sent to has a retry task or a report (OnlySent).          *)
(* PollInv, further down, bounds the age of an entry by the time that the  *)
(* command has spent, so that an early answer is there when it is polled.  *)
(***************************************************************************)
EXTENDS FanOut, FiniteSetTheorems, TLAPS

\* The handler is in its loop.
Looping == {"next", "send", "failed"} \cup HandoffStages

Phase ==
    /\ cli = "idle" => handler = "idle"
    /\ cli \in {"idle", "wait"} => polled = 0
    /\ cli = "poll" => handler = "done" /\ polled < Len(sent)
    /\ handler \in {"idle", "checks"} => sent = <<>> /\ todo = {} /\ cur = {} /\ failed = {}
    /\ handler = "checks" => cli = "wait"
    /\ handler \in Looping => cli = "wait" /\ Targets \subseteq todo \cup cur \cup SentTo \cup failed
    /\ handler = "next" => cur = {}

OnlySent ==
    \A t \in Targets : t \notin SentTo => retry[t] = 0 /\ report[t] = "none"

Forgotten == \A t \in failed : responses[t] = AbsentEntry

IInv == TypeOK /\ Phase /\ OnlySent /\ Forgotten

-----------------------------------------------------------------------------
(* The updates of an entry, and the sequence of targets sent to *)

LEMMA NotesTyped ==
    ASSUME NEW e \in Entries,
           NEW s \in {"handed_off_direct", "handed_off_mailbox", "received_by_peer_daemon",
                     "processing_failed"}
    PROVE  NoteStage(e, s) \in Entries /\ NoteFailure(e) \in Entries
           /\ StoreDeliveryEvent(e, s) \in Entries
<1>1. NoteStage(e, s) \in Entries
  BY DEF Entries, Stages, HandoffStages, PeerReceipt, Terminal, NoteStage
<1>2. NoteFailure(e) \in Entries
  BY DEF Entries, Stages, HandoffStages, PeerReceipt, Terminal, NoteFailure
<1>3. QED
  BY <1>1, <1>2 DEF StoreDeliveryEvent

LEMMA EntriesTyped ==
    /\ AbsentEntry \in Entries /\ NewEntry \in Entries
    /\ \A e \in Entries : StoreResponse(e) \in Entries
  BY DEF Entries, Stages, PeerReceipt, Terminal, StoreResponse, AbsentEntry, NewEntry

\* What a late message does to an entry that is gone.
LEMMA AbsentStays ==
    /\ \A s : NoteStage(AbsentEntry, s) = AbsentEntry /\ StoreDeliveryEvent(AbsentEntry, s) = AbsentEntry
    /\ StoreResponse(AbsentEntry) = AbsentEntry
  BY DEF AbsentEntry, NoteStage, NoteFailure, StoreDeliveryEvent, StoreResponse

LEMMA AppendedTo ==
    ASSUME TypeOK, NEW t \in Targets, sent' = Append(sent, t)
    PROVE  /\ sent' \in Seq(Targets) /\ Len(sent') = Len(sent) + 1
           /\ SentTo' = SentTo \cup {t}
<1>1. sent \in Seq(Targets)
  BY DEF TypeOK
<1>2. sent' \in Seq(Targets) /\ Len(sent') = Len(sent) + 1 /\ Len(sent) \in Nat
  BY <1>1
<1>3. \A i \in 1..Len(sent) : sent'[i] = sent[i]
  BY <1>1
<1>4. sent'[Len(sent) + 1] = t
  BY <1>1
<1>5. \A i \in 1..Len(sent') : i \in 1..Len(sent) \/ i = Len(sent) + 1
  BY <1>2
<1>6. \A i : i \in 1..Len(sent) \/ i = Len(sent) + 1 => i \in 1..Len(sent')
  BY <1>2
<1>7. SentTo' = SentTo \cup {t}
  BY <1>3, <1>4, <1>5, <1>6 DEF SentTo
<1>8. QED
  BY <1>2, <1>7

-----------------------------------------------------------------------------
(* One lemma for each group of steps *)

\* The command's request, the handler's checks, its return, and a command that gives up.
LEMMA CommandStep ==
    ASSUME IInv,
           \/ \E k \in Kinds : Post(k)
           \/ \E k \in Kinds : Check(k)
           \/ Return \/ GiveUp
    PROVE  IInv'
<1>1. sent' = sent /\ failed' = failed /\ responses' = responses /\ retry' = retry /\ report' = report
      /\ polled' = polled /\ waited' = waited /\ age' = age /\ out' = out
      /\ elapsed' = elapsed /\ early' = early
  BY DEF Post, Check, Return, GiveUp, daemonVars
<1>2. SentTo' = SentTo
  BY <1>1 DEF SentTo
<1>3. OnlySent' /\ Forgotten'
  BY <1>1, <1>2 DEF IInv, OnlySent, Forgotten
<1>4. CASE \E k \in Kinds : Post(k)
  <2>1. TypeOK'
    BY <1>1, <1>2, <1>4 DEF IInv, TypeOK, Post, Kinds
  <2>2. Phase'
    BY <1>1, <1>2, <1>4 DEF IInv, Phase, Post, Looping, HandoffStages
  <2>3. QED
    BY <1>3, <2>1, <2>2 DEF IInv
<1>5. CASE \E k \in Kinds : Check(k)
  <2>1. SentTo = {} /\ cur = {} /\ failed = {} /\ cur' = cur /\ kind' = kind /\ polled = 0
    BY <1>5 DEF IInv, Phase, Check, SentTo
  <2>2. \/ handler' = "next" /\ todo' = Targets /\ cli' = "wait"
        \/ handler' = "done" /\ cli' = "ended" /\ todo' = todo
    BY <1>5 DEF Check, IInv, Phase
  <2>3. TypeOK'
    BY <1>1, <1>2, <2>1, <2>2 DEF IInv, TypeOK
  <2>4. Phase'
    BY <1>1, <1>2, <2>1, <2>2 DEF IInv, Phase, Looping, HandoffStages
  <2>5. QED
    BY <1>3, <2>3, <2>4 DEF IInv
<1>6. CASE Return
  <2>1. handler = "next" /\ todo = {} /\ cur = {} /\ handler' = "done" /\ todo' = todo /\ cur' = cur
        /\ kind' = kind /\ polled = 0
    BY <1>6 DEF IInv, Phase, Return
  <2>2. cli' = "ended" \/ (cli' = "poll" /\ sent # <<>>)
    BY <1>6, Zenon DEF Return
  <2>3. Targets \subseteq SentTo \cup failed
    BY <2>1 DEF IInv, Phase, Looping
  <2>4. SentTo \subseteq Targets
    BY DEF IInv, TypeOK, SentTo
  <2>5. sent # <<>> => 0 < Len(sent)
    BY DEF IInv, TypeOK
  <2>6. TypeOK'
    BY <1>1, <1>2, <2>1, <2>2, <2>3, <2>4 DEF IInv, TypeOK
  <2>7. Phase'
    BY <1>1, <1>2, <2>1, <2>2, <2>5 DEF Phase, Looping, HandoffStages
  <2>8. QED
    BY <1>3, <2>6, <2>7 DEF IInv
<1>7. CASE GiveUp
  <2>1. handler' = "done" /\ cli' = "gave_up" /\ cur' = {} /\ todo' = todo /\ kind' = kind
    BY <1>7 DEF GiveUp
  <2>2. TypeOK'
    BY <1>1, <1>2, <2>1 DEF IInv, TypeOK
  <2>3. Phase'
    BY <1>1, <1>2, <2>1 DEF Phase, Looping, HandoffStages
  <2>4. QED
    BY <1>3, <2>2, <2>3 DEF IInv
<1>8. QED
  BY <1>4, <1>5, <1>6, <1>7

\* The handler's loop.
LEMMA LoopStep ==
    ASSUME IInv, NEW t \in Targets, Begin(t) \/ Send(t) \/ SendError(t) \/ NoteSent(t) \/ NoteFailed(t)
    PROVE  IInv'
<1>1. cliVars' = cliVars /\ elapsed' = elapsed /\ early' = early
  BY DEF Begin, Send, SendError, NoteSent, NoteFailed
<1>2. CASE Begin(t)
  <2>1. /\ t \in todo /\ handler = "next" /\ handler' = "send" /\ cur' = {t} /\ todo' = todo \ {t}
        /\ sent' = sent /\ failed' = failed /\ retry' = retry /\ out' = out
    BY <1>2 DEF Begin
  <2>2. SentTo' = SentTo /\ cur = {}
    BY <2>1 DEF SentTo, IInv, Phase
  <2>3. responses' \in [Targets -> Entries] /\ age' \in [Targets -> Nat]
    <3>1. CASE kind = "debate"
      <4>1. responses' = [x \in Targets |-> IF x = t THEN NewEntry
                                            ELSE IF Expired(x) THEN AbsentEntry ELSE responses[x]]
        BY <1>2, <3>1 DEF Begin
      <4>2. age' = [age EXCEPT ![t] = 0]
        BY <1>2, <3>1 DEF Begin
      <4>3. responses \in [Targets -> Entries] /\ age \in [Targets -> Nat]
        BY DEF IInv, TypeOK
      <4>4. QED
        BY <4>1, <4>2, <4>3, EntriesTyped
    <3>2. CASE kind # "debate"
      BY <1>2, <3>2 DEF Begin, IInv, TypeOK
    <3>3. QED
      BY <3>1, <3>2
  <2>4. Forgotten'
    <3> SUFFICES ASSUME NEW x \in failed PROVE responses'[x] = AbsentEntry
      BY <2>1 DEF Forgotten
    <3>1. x \in Targets /\ x # t /\ responses[x] = AbsentEntry
      BY <2>1 DEF IInv, TypeOK, Forgotten
    <3>2. QED
      BY <1>2, <3>1 DEF Begin
  <2>5. TypeOK'
    BY <1>1, <2>1, <2>2, <2>3 DEF IInv, TypeOK, cliVars, Phase, Looping
  <2>6. Phase' /\ OnlySent'
    BY <1>1, <2>1, <2>2 DEF IInv, Phase, OnlySent, cliVars, Looping, HandoffStages
  <2>7. QED
    BY <2>4, <2>5, <2>6 DEF IInv
<1>3. CASE Send(t) \/ SendError(t)
  <2>1. /\ handler = "send" /\ cur = {t} /\ handler' \in HandoffStages \cup {"failed"}
        /\ UNCHANGED <<todo, cur, sent, failed, responses, age, retry>>
        /\ out' \subseteq Targets
    BY <1>3 DEF Send, SendError, IInv, TypeOK
  <2>2. SentTo' = SentTo
    BY <2>1 DEF SentTo
  <2>3. TypeOK'
    BY <1>1, <2>1, <2>2 DEF IInv, TypeOK, cliVars
  <2>4. Phase' /\ OnlySent' /\ Forgotten'
    BY <1>1, <2>1, <2>2 DEF IInv, Phase, OnlySent, Forgotten, cliVars, Looping, HandoffStages
  <2>5. QED
    BY <2>3, <2>4 DEF IInv
<1>4. CASE NoteSent(t)
  <2>1. /\ handler \in HandoffStages /\ cur = {t} /\ handler' = "next" /\ cur' = {}
        /\ sent' = Append(sent, t) /\ UNCHANGED <<todo, failed, age, out>>
    BY <1>4 DEF NoteSent
  <2>2. /\ sent' \in Seq(Targets) /\ Len(sent') = Len(sent) + 1
        /\ SentTo' = SentTo \cup {t}
    BY <2>1, AppendedTo DEF IInv
  <2>3. /\ \/ responses' = [responses EXCEPT ![t] = NoteStage(responses[t], handler)]
           \/ responses' = responses
        /\ retry' = [retry EXCEPT ![t] = MaxRetries] \/ retry' = retry
        /\ responses \in [Targets -> Entries] /\ retry \in [Targets -> 0..MaxRetries]
    BY <1>4 DEF NoteSent, IInv, TypeOK
  <2>4. /\ responses' \in [Targets -> Entries] /\ retry' \in [Targets -> 0..MaxRetries]
        /\ \A x \in Targets : x # t => retry'[x] = retry[x] /\ responses'[x] = responses[x]
    <3>1. NoteStage(responses[t], handler) \in Entries
      BY <2>1, <2>3, NotesTyped DEF HandoffStages
    <3>2. MaxRetries \in 0..MaxRetries
      BY FanOutAssumption
    <3>3. QED
      BY <2>3, <3>1, <3>2
  <2>5. t \notin todo /\ t \notin SentTo /\ t \notin failed
    BY <2>1 DEF IInv, TypeOK
  <2>7. cli = "wait" /\ polled = 0
    BY <2>1 DEF IInv, Phase, Looping
  <2>8. polled' \in 0..Len(sent')
    BY <1>1, <2>2, <2>7 DEF cliVars
  <2>9. TypeOK'
    BY <1>1, <2>1, <2>2, <2>4, <2>5, <2>7, <2>8 DEF IInv, TypeOK, cliVars
  <2>10. Phase'
    BY <1>1, <2>1, <2>2, <2>7 DEF IInv, Phase, cliVars, Looping, HandoffStages
  <2>11. OnlySent'
    BY <1>1, <2>2, <2>4 DEF IInv, OnlySent, cliVars
  <2>12. Forgotten'
    BY <2>1, <2>4, <2>5 DEF IInv, Forgotten, TypeOK
  <2>13. QED
    BY <2>9, <2>10, <2>11, <2>12 DEF IInv
<1>5. CASE NoteFailed(t)
  <2>1. /\ handler = "failed" /\ cur = {t} /\ handler' = "next" /\ cur' = {}
        /\ failed' = failed \cup {t} /\ UNCHANGED <<todo, sent, retry, age, out>>
        /\ responses' = [responses EXCEPT ![t] = AbsentEntry]
    BY <1>5 DEF NoteFailed
  <2>2. SentTo' = SentTo /\ t \notin todo /\ t \notin SentTo
    BY <2>1 DEF SentTo, IInv, TypeOK
  <2>3. responses' \in [Targets -> Entries]
    BY <2>1, EntriesTyped DEF IInv, TypeOK
  <2>4. cli = "wait"
    BY <2>1 DEF IInv, Phase, Looping
  <2>5. TypeOK'
    BY <1>1, <2>1, <2>2, <2>3, <2>4 DEF IInv, TypeOK, cliVars
  <2>6. Phase' /\ OnlySent'
    BY <1>1, <2>1, <2>2 DEF IInv, Phase, OnlySent, cliVars, Looping, HandoffStages
  <2>7. Forgotten'
    BY <2>1 DEF IInv, Forgotten, TypeOK
  <2>8. QED
    BY <2>5, <2>6, <2>7 DEF IInv
<1>6. QED
  BY <1>2, <1>3, <1>4, <1>5

\* The daemon's other tasks: none gives an entry to a target that has none.
LEMMA DaemonStep ==
    ASSUME IInv,
           \/ \E t \in Targets :
                 \/ Retry(t) \/ StoreAnswer(t)
                 \/ \E stage \in {"received_by_peer_daemon", "processing_failed"} : StoreEvent(t, stage)
           \/ Prune
    PROVE  IInv'
<1>1. /\ UNCHANGED <<handlerVars, cliVars, age, out, elapsed>>
      /\ early' \subseteq Targets
  BY DEF Retry, StoreAnswer, StoreEvent, Prune, IInv, TypeOK
<1>2. SentTo' = SentTo
  BY <1>1 DEF SentTo, handlerVars
<1>3. /\ responses' \in [Targets -> Entries]
      /\ \A x \in Targets : responses[x] = AbsentEntry => responses'[x] = AbsentEntry
  <2>1. ASSUME NEW t \in Targets, Retry(t) PROVE <1>3!:
    <3>1. responses' = responses \/ \E s \in HandoffStages :
                                      responses' = [responses EXCEPT ![t] = NoteStage(responses[t], s)]
      BY <2>1 DEF Retry
    <3>2. responses \in [Targets -> Entries]
      BY DEF IInv, TypeOK
    <3>3. QED
      BY <3>1, <3>2, NotesTyped, AbsentStays DEF HandoffStages
  <2>2. ASSUME NEW t \in Targets, StoreAnswer(t) PROVE <1>3!:
    BY <2>2, EntriesTyped, AbsentStays DEF StoreAnswer, IInv, TypeOK
  <2>3. ASSUME NEW t \in Targets, NEW stage \in {"received_by_peer_daemon", "processing_failed"},
               StoreEvent(t, stage)
        PROVE <1>3!:
    BY <2>3, NotesTyped, AbsentStays DEF StoreEvent, IInv, TypeOK
  <2>4. CASE Prune
    BY <2>4, EntriesTyped DEF Prune, IInv, TypeOK
  <2>5. QED
    BY <2>1, <2>2, <2>3, <2>4
<1>4. /\ retry' \in [Targets -> 0..MaxRetries]
      /\ \A x \in Targets : retry[x] = 0 => retry'[x] = 0
  <2>1. ASSUME NEW t \in Targets, Retry(t) PROVE <1>4!:
    <3>1. retry' = [retry EXCEPT ![t] = 0] \/ retry' = [retry EXCEPT ![t] = retry[t] - 1]
      BY <2>1 DEF Retry
    <3>2. retry[t] > 0 /\ retry[t] \in 0..MaxRetries /\ retry \in [Targets -> 0..MaxRetries]
      BY <2>1 DEF Retry, IInv, TypeOK
    <3>3. QED
      BY <3>1, <3>2, FanOutAssumption
  <2>2. CASE UNCHANGED retry
    BY <2>2 DEF IInv, TypeOK
  <2>3. QED
    BY <2>1, <2>2 DEF StoreAnswer, StoreEvent, Prune
<1>5. TypeOK'
  BY <1>1, <1>2, <1>3, <1>4 DEF IInv, TypeOK, handlerVars, cliVars
<1>6. Phase' /\ OnlySent'
  BY <1>1, <1>2, <1>4 DEF IInv, Phase, OnlySent, handlerVars, cliVars
<1>7. Forgotten'
  BY <1>1, <1>3 DEF IInv, Forgotten, TypeOK, handlerVars
<1>8. QED
  BY <1>5, <1>6, <1>7 DEF IInv

\* The command polls for something it was told had been sent.
LEMMA PollStep ==
    ASSUME IInv, Poll \/ TimeOut
    PROVE  IInv'
<1>1. UNCHANGED <<kind, handlerVars, age, retry, out, elapsed, early>> /\ cli = "poll"
  BY DEF Poll, TimeOut, daemonVars
<1>2. SentTo' = SentTo
  BY <1>1 DEF SentTo, handlerVars
<1>3. polled < Len(sent) /\ polled \in Nat /\ Len(sent) \in Nat /\ handler = "done"
  BY <1>1 DEF IInv, Phase, TypeOK
<1>4. Awaited \in SentTo /\ Awaited \in Targets
  BY <1>3 DEF Awaited, SentTo, IInv, TypeOK
<1>5. PICK outcome \in {"response", "failure", "timeout"} : Conclude(outcome)
  BY DEF Poll, TimeOut
<1>6. /\ report' = [report EXCEPT ![Awaited] = outcome] /\ polled' = polled + 1 /\ waited' = 0
      /\ cli' = IF polled + 1 = Len(sent) THEN "ended" ELSE "poll"
  BY <1>5 DEF Conclude
<1>7. responses' = responses \/ responses' = [responses EXCEPT ![Awaited] = AbsentEntry]
  BY DEF Poll, TimeOut, daemonVars
<1>8. responses' \in [Targets -> Entries] /\ Forgotten'
  BY <1>1, <1>4, <1>7, EntriesTyped DEF IInv, TypeOK, Forgotten, handlerVars
<1>9. report' \in [Targets -> {"none", "response", "failure", "timeout"}]
  BY <1>6 DEF IInv, TypeOK
<1>10. polled' \in 0..Len(sent') /\ waited' \in 0..Patience
  BY <1>1, <1>3, <1>6, FanOutAssumption DEF handlerVars
<1>11. TypeOK'
  BY <1>1, <1>2, <1>6, <1>8, <1>9, <1>10 DEF IInv, TypeOK, handlerVars
<1>12. Phase'
  BY <1>1, <1>3, <1>6 DEF Phase, handlerVars, Looping, HandoffStages
<1>13. OnlySent'
  BY <1>1, <1>2, <1>4, <1>6 DEF IInv, OnlySent, TypeOK
<1>14. QED
  BY <1>8, <1>11, <1>12, <1>13 DEF IInv

LEMMA TickStep ==
    ASSUME IInv, Tick
    PROVE  IInv'
<1>1. UNCHANGED <<handlerVars, responses, retry, out, kind, cli, polled, report, early>>
  BY DEF Tick
<1>2. SentTo' = SentTo
  BY <1>1 DEF SentTo, handlerVars
<1>3. elapsed' \in 0..SendTime /\ waited' \in 0..Patience
  BY FanOutAssumption DEF Tick, IInv, TypeOK
<1>4. age' \in [Targets -> Nat]
  BY DEF Tick, IInv, TypeOK
<1>5. TypeOK'
  BY <1>1, <1>2, <1>3, <1>4 DEF IInv, TypeOK, handlerVars
<1>6. Phase' /\ OnlySent' /\ Forgotten'
  BY <1>1, <1>2 DEF IInv, Phase, OnlySent, Forgotten, handlerVars
<1>7. QED
  BY <1>5, <1>6 DEF IInv

-----------------------------------------------------------------------------
(* Theorems *)

LEMMA IInvInit == Init => IInv
<1> SUFFICES ASSUME Init PROVE IInv
  OBVIOUS
<1>1. SentTo = {} /\ sent \in Seq(Targets) /\ Len(sent) = 0
  BY DEF Init, SentTo
<1>2. TypeOK
  BY <1>1, EntriesTyped, FanOutAssumption DEF Init, TypeOK, Kinds
<1>3. Phase /\ OnlySent /\ Forgotten
  BY <1>1 DEF Init, Phase, OnlySent, Forgotten, Looping, HandoffStages
<1>4. QED
  BY <1>2, <1>3 DEF IInv

LEMMA IInvStep ==
    ASSUME IInv, [Next]_vars
    PROVE  IInv'
<1>1. CASE UNCHANGED vars
  <2>1. UNCHANGED <<kind, handler, todo, cur, sent, failed, responses, age, retry, out,
                    cli, polled, waited, report, elapsed, early>>
    BY <1>1 DEF vars, handlerVars, daemonVars, cliVars
  <2>2. SentTo' = SentTo
    BY <2>1 DEF SentTo
  <2>3. QED
    BY <2>1, <2>2 DEF IInv, TypeOK, Phase, OnlySent, Forgotten
<1>2. CASE Next
  <2>1. \/ \E k \in Kinds : Post(k)
        \/ \E k \in Kinds : Check(k)
        \/ Return \/ GiveUp
        \/ \E t \in Targets : Begin(t) \/ Send(t) \/ SendError(t) \/ NoteSent(t) \/ NoteFailed(t)
        \/ \E t \in Targets :
              \/ Retry(t) \/ StoreAnswer(t)
              \/ \E stage \in {"received_by_peer_daemon", "processing_failed"} : StoreEvent(t, stage)
        \/ Prune \/ Poll \/ TimeOut \/ Tick
    BY <1>2 DEF Next, CmdDebate, CmdBroadcast, CmdPublish, HandleDebate, HandleBroadcast,
                HandlePublish, Kinds
  <2>2. QED
    BY <2>1, CommandStep, LoopStep, DaemonStep, PollStep, TickStep
<1>3. QED
  BY <1>1, <1>2

LEMMA InvariantHolds == Spec => []IInv
  BY IInvInit, IInvStep, PTL DEF Spec

\* FanOut!TypeOK: every variable keeps its range, and the members stay divided among those
\* to come, the one in hand, those sent to and those that failed.
THEOREM TypeCorrect == Spec => []TypeOK
<1>1. IInv => TypeOK
  BY DEF IInv
<1>2. QED
  BY <1>1, InvariantHolds, PTL

\* FanOut!FailedIsForgotten: no late answer, retry or poll finds a target whose send failed.
THEOREM FailedStaysForgotten == Spec => []FailedIsForgotten
<1>1. IInv => FailedIsForgotten
  <2> SUFFICES ASSUME IInv, NEW t \in failed
               PROVE  /\ responses[t] = AbsentEntry /\ retry[t] = 0
                      /\ t \notin SentTo /\ report[t] = "none"
    BY DEF FailedIsForgotten
  <2>1. t \in Targets /\ t \notin SentTo
    BY DEF IInv, TypeOK
  <2>2. QED
    BY <2>1 DEF IInv, Forgotten, OnlySent
<1>2. QED
  BY <1>1, InvariantHolds, PTL

-----------------------------------------------------------------------------
(* The answers that are there in time *)

\* The polls before the last one cannot outlast an entry of `responses`.
InTime == SendTime + (Cardinality(Targets) - 1) * Patience < TTL

\* How much time has passed since the command's request, at most.
Clock == elapsed + polled * Patience + waited
AgeInv == \A t \in Targets : age[t] <= Clock

\* Each target is sent to once; only what has left can be answered.
SentInv ==
    /\ \A i, j \in 1..Len(sent) : sent[i] = sent[j] => i = j
    /\ IsFiniteSet(SentTo) /\ Len(sent) = Cardinality(SentTo)
    /\ out \cap todo = {} /\ (handler \in {"idle", "checks"} => out = {})
    /\ early \subseteq out /\ (early # {} => kind = "debate")
    /\ cli \in {"idle", "wait"} => waited = 0

ReportInv ==
    /\ cli \in {"idle", "wait"} => \A t \in Targets : report[t] = "none"
    /\ cli = "poll" => \A i \in 1..Len(sent) : i > polled => report[sent[i]] = "none"

Answered(t) == responses[t].stage = "processed_by_peer_runtime" /\ responses[t].response

\* The command has not come to the request of t, or looks at it for the first time.
Open(t) ==
    \/ cli = "wait" /\ t \notin failed
    \/ cli = "poll" /\ \E i \in 1..Len(sent) : sent[i] = t /\ i > polled

EarlyInv ==
    InTime => \A t \in early :
        /\ Open(t) => Answered(t)
        /\ cli = "poll" /\ sent[polled + 1] = t => waited = 0
        /\ report[t] \in {"none", "response"}
        /\ \A i \in 1..Len(sent) :
              sent[i] = t /\ (cli = "ended" \/ (cli = "poll" /\ i <= polled)) => report[t] = "response"

PollInv == AgeInv /\ SentInv /\ ReportInv /\ EarlyInv

LEMMA Times ==
    /\ \A a, b, c \in Nat : a <= b => a * c <= b * c
    /\ \A a, c \in Nat : a * c \in Nat /\ (a + 1) * c = a * c + c
    /\ \A c \in Nat : 0 * c = 0
  OBVIOUS

LEMMA ClockTyped ==
    ASSUME TypeOK
    PROVE  /\ elapsed \in Nat /\ elapsed <= SendTime /\ polled \in Nat /\ polled <= Len(sent)
           /\ waited \in Nat /\ waited <= Patience /\ Len(sent) \in Nat
           /\ polled * Patience \in Nat /\ Clock \in Nat
           /\ SendTime \in Nat /\ Patience \in Nat /\ Patience # 0 /\ TTL \in Nat
<1>1. /\ elapsed \in Nat /\ elapsed <= SendTime /\ polled \in Nat /\ polled <= Len(sent)
      /\ waited \in Nat /\ waited <= Patience /\ Len(sent) \in Nat
      /\ SendTime \in Nat /\ Patience \in Nat /\ Patience # 0 /\ TTL \in Nat
  BY FanOutAssumption DEF TypeOK
<1>2. polled * Patience \in Nat
  BY <1>1, Times
<1>3. QED
  BY <1>1, <1>2 DEF Clock

\* The entry of an answer that is still to be printed has not expired.
LEMMA NotExpired ==
    ASSUME IInv, PollInv, InTime, NEW t \in early, Open(t)
    PROVE  ~Expired(t)
<1> DEFINE N == Cardinality(Targets)
<1>1. TypeOK /\ t \in Targets /\ age[t] \in Nat /\ age[t] <= Clock
  BY DEF IInv, TypeOK, PollInv, AgeInv
<1>2. N \in Nat /\ N >= 1
  <2>1. N \in Nat /\ (N = 0 <=> Targets = {})
    BY FanOutAssumption, FS_CardinalityType, FS_EmptySet
  <2>2. QED
    BY <1>1, <2>1
<1>3. N - 1 \in Nat /\ (N - 1) * Patience \in Nat
  BY <1>1, <1>2, ClockTyped, Times
<1>4. SendTime + (N - 1) * Patience < TTL
  BY DEF InTime
<1> HIDE DEF N
<1> DEFINE x == polled * Patience
           y == (N - 1) * Patience
<1>5. /\ elapsed \in Nat /\ elapsed <= SendTime /\ waited \in Nat /\ SendTime \in Nat /\ TTL \in Nat
      /\ x \in Nat /\ y \in Nat /\ SendTime + y < TTL /\ age[t] <= elapsed + x + waited
  BY <1>1, <1>3, <1>4, ClockTyped DEF Clock
<1>6. x + waited <= y
  <2>1. CASE cli = "wait"
    <3>1. polled = 0 /\ waited = 0
      BY <2>1 DEF IInv, Phase, PollInv, SentInv
    <3>2. x = 0
      BY <1>1, <3>1, ClockTyped, Times
    <3>3. QED
      BY <1>5, <3>1, <3>2
  <2>2. CASE cli = "poll"
    <3>1. PICK i \in 1..Len(sent) : sent[i] = t /\ i > polled
      BY <2>2 DEF Open
    <3>2. Len(sent) <= N
      <4>1. SentTo \subseteq Targets
        BY <1>1 DEF TypeOK, SentTo
      <4>2. Cardinality(SentTo) <= N
        BY <4>1, FanOutAssumption, FS_Subset DEF N
      <4>3. QED
        BY <4>2 DEF PollInv, SentInv
    <3>3. polled + 1 <= i /\ i <= N /\ i \in Nat
      BY <1>1, <1>2, <3>1, <3>2, ClockTyped
    <3>4. CASE i = polled + 1
      <4>1. waited = 0
        BY <2>2, <3>1, <3>4 DEF PollInv, EarlyInv
      <4>2. polled <= N - 1
        BY <1>1, <1>2, <3>3, ClockTyped
      <4>3. x <= y
        BY <1>1, <1>3, <4>2, ClockTyped, Times
      <4>4. QED
        BY <1>5, <4>1, <4>3
    <3>5. CASE i # polled + 1
      <4>1. polled + 1 \in Nat /\ polled + 1 <= N - 1
        BY <1>1, <1>2, <3>3, <3>5, ClockTyped
      <4>2. (polled + 1) * Patience <= y
        BY <1>1, <1>3, <4>1, ClockTyped, Times
      <4>3. (polled + 1) * Patience = x + Patience
        BY <1>1, ClockTyped, Times
      <4>4. waited <= Patience /\ Patience \in Nat
        BY <1>1, ClockTyped
      <4>5. x + Patience <= y
        BY <4>2, <4>3
      <4> HIDE DEF x, y
      <4>6. QED
        BY <1>5, <4>4, <4>5
    <3>6. QED
      BY <3>4, <3>5
  <2>3. QED
    BY <2>1, <2>2 DEF Open
<1> HIDE DEF x, y
<1>7. age[t] < TTL
  BY <1>1, <1>5, <1>6
<1>8. QED
  BY <1>1, <1>5, <1>7 DEF Expired

\* The answer stays, whatever comes late.
LEMMA AnswerStays ==
    ASSUME NEW e \in Entries, e.stage = "processed_by_peer_runtime", e.response, NEW s
    PROVE  /\ NoteStage(e, s) = e /\ StoreDeliveryEvent(e, s) = e
           /\ StoreResponse(e).stage = "processed_by_peer_runtime" /\ StoreResponse(e).response
  BY DEF NoteStage, NoteFailure, StoreDeliveryEvent, StoreResponse, Terminal

\* A step that moves neither the command nor what it polls for, and drops no answer.
LEMMA EarlyQuiet ==
    ASSUME EarlyInv, UNCHANGED <<early, cli, sent, polled, report, waited>>, failed \subseteq failed',
           \A t \in early : InTime /\ Open(t)' /\ Open(t) /\ Answered(t) => Answered(t)'
    PROVE  EarlyInv'
<1> SUFFICES ASSUME InTime, NEW t \in early
             PROVE  /\ Open(t)' => Answered(t)'
                    /\ cli' = "poll" /\ sent'[polled' + 1] = t => waited' = 0
                    /\ report'[t] \in {"none", "response"}
                    /\ \A i \in 1..Len(sent') :
                          sent'[i] = t /\ (cli' = "ended" \/ (cli' = "poll" /\ i <= polled')) =>
                             report'[t] = "response"
  BY DEF EarlyInv, InTime
<1>1. Open(t)' => Open(t)
  BY DEF Open
<1>2. QED
  BY <1>1 DEF EarlyInv

LEMMA NoEarly == ASSUME early' = {} PROVE EarlyInv'
  BY DEF EarlyInv

LEMMA PollCommand ==
    ASSUME IInv, PollInv,
           \/ \E k \in Kinds : Post(k)
           \/ \E k \in Kinds : Check(k)
           \/ Return \/ GiveUp
    PROVE  PollInv'
<1>1. UNCHANGED <<sent, failed, responses, age, report, polled, waited, out, elapsed, early>>
  BY DEF Post, Check, Return, GiveUp, daemonVars
<1>2. TypeOK /\ AgeInv /\ SentInv /\ ReportInv /\ EarlyInv /\ SentTo' = SentTo
  BY <1>1 DEF IInv, PollInv, SentTo
<1>3. AgeInv'
  BY <1>1, <1>2 DEF AgeInv, Clock
<1>4. CASE \E k \in Kinds : Post(k)
  <2>1. cli = "idle" /\ handler = "idle" /\ out = {} /\ early = {} /\ waited = 0 /\ cli' = "wait"
        /\ todo' = todo
    BY <1>2, <1>4 DEF Post, IInv, Phase, SentInv
  <2>2. SentInv' /\ ReportInv'
    BY <1>1, <1>2, <2>1 DEF SentInv, ReportInv
  <2>3. QED
    BY <1>1, <1>3, <2>1, <2>2, NoEarly DEF PollInv
<1>5. CASE \E k \in Kinds : Check(k)
  <2>1. handler = "checks" /\ cli = "wait" /\ out = {} /\ early = {} /\ kind' = kind
        /\ cli' \in {"wait", "ended"}
    BY <1>2, <1>5 DEF Check, IInv, Phase, SentInv
  <2>2. SentInv' /\ ReportInv'
    BY <1>1, <1>2, <2>1 DEF SentInv, ReportInv
  <2>3. QED
    BY <1>1, <1>3, <2>1, <2>2, NoEarly DEF PollInv
<1>6. CASE Return
  <2>1. /\ cli = "wait" /\ polled = 0 /\ waited = 0 /\ todo' = todo /\ kind' = kind /\ handler' = "done"
        /\ cli' \in {"poll", "ended"}
    BY <1>2, <1>6 DEF Return, IInv, Phase, SentInv
  <2>2. SentInv'
    BY <1>1, <1>2, <2>1 DEF SentInv
  <2>3. ReportInv'
    <3>1. \A i \in 1..Len(sent) : sent[i] \in Targets
      BY <1>2 DEF TypeOK
    <3>2. QED
      BY <1>1, <1>2, <2>1, <3>1 DEF ReportInv
  <2>4. EarlyInv'
    <3> SUFFICES ASSUME InTime, NEW t \in early
                 PROVE  /\ Open(t)' => Answered(t)
                        /\ report[t] \in {"none", "response"}
                        /\ \A i \in 1..Len(sent) :
                              sent[i] = t /\ (cli' = "ended" \/ (cli' = "poll" /\ i <= 0)) =>
                                 report[t] = "response"
      BY <1>1, <2>1 DEF EarlyInv, InTime, Answered
    <3>1. report[t] \in {"none", "response"}
      BY <1>2 DEF EarlyInv
    <3>2. kind = "debate"
      BY <1>2 DEF SentInv
    <3>3. cli' = "ended" => sent = <<>>
      BY <1>6, <3>2 DEF Return, Status
    <3>4. \A i \in 1..Len(sent) : ~(cli' = "ended" \/ i <= 0)
      BY <1>2, <3>3 DEF TypeOK
    <3>5. Open(t)' => t \in SentTo
      BY <1>1, <2>1 DEF Open, SentTo
    <3>6. Open(t)' => Answered(t)
      BY <1>2, <2>1, <3>5 DEF TypeOK, Open, EarlyInv
    <3>7. QED
      BY <3>1, <3>4, <3>6
  <2>5. QED
    BY <1>3, <2>2, <2>3, <2>4 DEF PollInv
<1>7. CASE GiveUp
  <2>1. cli' = "gave_up" /\ handler' = "done" /\ todo' = todo /\ kind' = kind
    BY <1>7 DEF GiveUp
  <2>2. SentInv' /\ ReportInv'
    BY <1>1, <1>2, <2>1 DEF SentInv, ReportInv
  <2>3. EarlyInv'
    BY <1>1, <1>2, <2>1 DEF EarlyInv, Open, InTime
  <2>4. QED
    BY <1>3, <2>2, <2>3 DEF PollInv
<1>8. QED
  BY <1>4, <1>5, <1>6, <1>7

LEMMA PollLoop ==
    ASSUME IInv, PollInv, NEW t \in Targets,
           Begin(t) \/ Send(t) \/ SendError(t) \/ NoteSent(t) \/ NoteFailed(t)
    PROVE  PollInv'
<1>1. /\ UNCHANGED <<kind, cli, polled, waited, report, elapsed, early>>
      /\ handler \in Looping /\ handler' \in Looping /\ cli = "wait" /\ polled = 0 /\ waited = 0
  BY DEF Begin, Send, SendError, NoteSent, NoteFailed, cliVars, IInv, Phase, Looping, HandoffStages,
         PollInv, SentInv
<1>2. TypeOK /\ AgeInv /\ SentInv /\ ReportInv /\ EarlyInv /\ early \subseteq Targets
  BY DEF IInv, PollInv, TypeOK
<1>3. handler' \notin {"idle", "checks"}
  BY <1>1 DEF Looping, HandoffStages
<1>4. AgeInv'
  <2>1. age' = age \/ age' = [age EXCEPT ![t] = 0]
    BY DEF Begin, Send, SendError, NoteSent, NoteFailed
  <2>2. Clock' = Clock /\ Clock \in Nat
    BY <1>1, <1>2, ClockTyped DEF Clock
  <2>3. age \in [Targets -> Nat] /\ \A x \in Targets : age[x] <= Clock
    BY <1>2 DEF TypeOK, AgeInv
  <2>4. \A x \in Targets : age'[x] = age[x] \/ age'[x] = 0
    BY <2>1, <2>3
  <2>5. \A x \in Targets : age'[x] <= Clock
    BY <2>2, <2>3, <2>4
  <2>6. QED
    BY <2>2, <2>5 DEF AgeInv
<1>5. ReportInv'
  BY <1>1, <1>2 DEF ReportInv
<1>6. ASSUME \A u \in early : InTime /\ u \notin failed' /\ Open(u) /\ Answered(u) => Answered(u)',
             failed \subseteq failed'
      PROVE  EarlyInv'
  <2> SUFFICES ASSUME InTime, NEW u \in early
               PROVE  /\ Open(u)' => Answered(u)'
                      /\ report[u] \in {"none", "response"}
    BY <1>1 DEF EarlyInv, InTime
  <2>1. Open(u)' => u \notin failed' /\ Open(u)
    BY <1>1, <1>6 DEF Open
  <2>2. QED
    BY <1>2, <1>6, <2>1 DEF EarlyInv
<1>7. CASE Begin(t)
  <2>1. /\ t \in todo /\ todo' = todo \ {t}
        /\ UNCHANGED <<sent, out, failed>>
    BY <1>7 DEF Begin
  <2>2. SentInv'
    BY <1>1, <1>2, <1>3, <2>1 DEF SentInv, SentTo
  <2>3. \A u \in early : InTime /\ Open(u) /\ Answered(u) => Answered(u)'
    <3> SUFFICES ASSUME NEW u \in early, InTime, Open(u), Answered(u) PROVE Answered(u)'
      OBVIOUS
    <3>1. ~Expired(u) /\ u # t /\ u \in Targets
      BY <1>2, <2>1, NotExpired DEF SentInv
    <3>2. responses'[u] = responses[u]
      BY <1>7, <3>1 DEF Begin
    <3>3. QED
      BY <3>2 DEF Answered
  <2>4. QED
    BY <1>4, <1>5, <1>6, <2>1, <2>2, <2>3 DEF PollInv
<1>8. CASE Send(t) \/ SendError(t)
  <2>1. /\ cur = {t} /\ out \subseteq out' /\ out' \subseteq out \cup {t}
        /\ UNCHANGED <<todo, sent, responses, failed>>
    BY <1>8 DEF Send, SendError
  <2>2. SentInv'
    <3>1. t \notin todo
      BY <1>2, <2>1 DEF TypeOK
    <3>2. out' \cap todo' = {} /\ early' \subseteq out' /\ SentTo' = SentTo
      BY <1>1, <1>2, <2>1, <3>1 DEF SentInv, SentTo
    <3>3. QED
      BY <1>1, <1>2, <1>3, <2>1, <3>2 DEF SentInv
  <2>3. QED
    BY <1>4, <1>5, <1>6, <2>1, <2>2 DEF PollInv, Answered
<1>9. CASE NoteSent(t)
  <2>1. /\ cur = {t} /\ sent' = Append(sent, t) /\ UNCHANGED <<todo, failed, out>>
        /\ t \notin SentTo
    BY <1>2, <1>9 DEF NoteSent, TypeOK
  <2>2. /\ Len(sent') = Len(sent) + 1 /\ SentTo' = SentTo \cup {t} /\ Len(sent) \in Nat
    BY <1>2, <2>1, AppendedTo DEF TypeOK
  <2>3. \A i, j \in 1..Len(sent') : sent'[i] = sent'[j] => i = j
    <3>1. sent \in Seq(Targets)
      BY <1>2 DEF TypeOK
    <3>2. \A i \in 1..Len(sent) : sent'[i] = sent[i] /\ sent[i] # t
      BY <2>1, <3>1 DEF SentTo
    <3>3. sent'[Len(sent) + 1] = t
      BY <2>1, <3>1
    <3>4. \A i \in 1..Len(sent') : i \in 1..Len(sent) \/ i = Len(sent) + 1
      BY <2>2
    <3>5. QED
      BY <1>2, <3>2, <3>3, <3>4 DEF SentInv
  <2>4. IsFiniteSet(SentTo') /\ Len(sent') = Cardinality(SentTo')
    BY <1>2, <2>1, <2>2, FS_AddElement DEF SentInv
  <2>5. SentInv'
    BY <1>1, <1>2, <1>3, <2>1, <2>3, <2>4 DEF SentInv
  <2>6. \A u \in early : Answered(u) => Answered(u)'
    <3> SUFFICES ASSUME NEW u \in early, Answered(u) PROVE Answered(u)'
      OBVIOUS
    <3>1. responses[u] \in Entries /\ responses \in [Targets -> Entries] /\ u \in Targets
      BY <1>2 DEF TypeOK
    <3>2. responses'[u] = responses[u] \/ responses'[u] = NoteStage(responses[u], handler)
      BY <1>9, <3>1 DEF NoteSent
    <3>3. NoteStage(responses[u], handler) = responses[u]
      BY <3>1, AnswerStays DEF Answered
    <3>4. QED
      BY <3>2, <3>3 DEF Answered
  <2>7. QED
    BY <1>4, <1>5, <1>6, <2>1, <2>5, <2>6 DEF PollInv
<1>10. CASE NoteFailed(t)
  <2>1. /\ failed' = failed \cup {t} /\ UNCHANGED <<todo, sent, out>>
        /\ responses' = [responses EXCEPT ![t] = AbsentEntry]
    BY <1>10 DEF NoteFailed
  <2>2. SentInv'
    BY <1>1, <1>2, <1>3, <2>1 DEF SentInv, SentTo
  <2>3. \A u \in early : u \notin failed' /\ Answered(u) => Answered(u)'
    BY <1>2, <2>1 DEF Answered, TypeOK
  <2>4. QED
    BY <1>4, <1>5, <1>6, <2>1, <2>2, <2>3 DEF PollInv
<1>11. QED
  BY <1>7, <1>8, <1>9, <1>10

LEMMA PollDaemon ==
    ASSUME IInv, PollInv,
           \/ \E t \in Targets :
                 \/ Retry(t) \/ StoreAnswer(t)
                 \/ \E stage \in {"received_by_peer_daemon", "processing_failed"} : StoreEvent(t, stage)
           \/ Prune
    PROVE  PollInv'
<1>1. UNCHANGED <<handlerVars, cliVars, age, out, elapsed>>
  BY DEF Retry, StoreAnswer, StoreEvent, Prune
<1>2. /\ UNCHANGED <<kind, cli, handler, todo, failed, sent, polled, waited, report>>
      /\ TypeOK /\ AgeInv /\ SentInv /\ ReportInv /\ EarlyInv /\ early \subseteq Targets
      /\ responses \in [Targets -> Entries]
  BY <1>1 DEF handlerVars, cliVars, IInv, PollInv, TypeOK
<1>3. AgeInv' /\ ReportInv'
  BY <1>1, <1>2 DEF AgeInv, Clock, ReportInv
<1>4. CASE ~ \E t \in Targets : StoreAnswer(t)
  <2>1. early' = early
    BY <1>4 DEF Retry, StoreEvent, Prune
  <2>2. SentInv'
    BY <1>1, <1>2, <2>1 DEF SentInv, SentTo
  <2>3. \A u \in early : InTime /\ Open(u) /\ Answered(u) => responses'[u] = responses[u]
    <3> SUFFICES ASSUME NEW u \in early, InTime, Open(u), Answered(u)
                 PROVE  responses'[u] = responses[u]
      OBVIOUS
    <3>1. u \in Targets /\ responses[u] \in Entries
      BY <1>2
    <3>2. CASE Prune
      BY <3>1, <3>2, NotExpired DEF Prune
    <3>3. ASSUME NEW t \in Targets, Retry(t) PROVE responses'[u] = responses[u]
      <4>1. responses' = responses \/ \E s \in HandoffStages :
                                        responses' = [responses EXCEPT ![t] = NoteStage(responses[t], s)]
        BY <3>3 DEF Retry
      <4>2. QED
        BY <1>2, <3>1, <4>1, AnswerStays DEF Answered
    <3>4. ASSUME NEW t \in Targets, NEW stage \in {"received_by_peer_daemon", "processing_failed"},
                 StoreEvent(t, stage)
          PROVE  responses'[u] = responses[u]
      BY <1>2, <3>1, <3>4, AnswerStays DEF Answered, StoreEvent
    <3>5. QED
      BY <1>4, <3>2, <3>3, <3>4
  <2>4. \A u \in early : InTime /\ Open(u)' /\ Open(u) /\ Answered(u) => Answered(u)'
    BY <2>3 DEF Answered
  <2>5. EarlyInv'
    BY <1>2, <2>1, <2>4, EarlyQuiet
  <2>6. QED
    BY <1>3, <2>2, <2>5 DEF PollInv
<1>5. ASSUME NEW t \in Targets, StoreAnswer(t) PROVE PollInv'
  <2>1. /\ kind = "debate" /\ t \in out
        /\ responses' = [responses EXCEPT ![t] = StoreResponse(responses[t])]
        /\ early \subseteq early' /\ early' \subseteq early \cup {t}
    BY <1>5 DEF StoreAnswer
  <2>2. SentInv'
    BY <1>1, <1>2, <2>1 DEF SentInv, SentTo
  <2>3. \A u \in early : Answered(u) => Answered(u)'
    <3> SUFFICES ASSUME NEW u \in early, Answered(u) PROVE Answered(u)'
      OBVIOUS
    <3>1. u \in Targets /\ responses[u] \in Entries
      BY <1>2
    <3>2. responses'[u] = responses[u] \/ responses'[u] = StoreResponse(responses[u])
      BY <1>2, <2>1, <3>1
    <3>3. QED
      BY <3>1, <3>2, AnswerStays DEF Answered
  <2>4. \A u : Open(u)' <=> Open(u)
    BY <1>2 DEF Open
  <2>5. ASSUME NEW u \in early, InTime
        PROVE  /\ Open(u)' => Answered(u)'
               /\ cli = "poll" /\ sent[polled + 1] = u => waited = 0
               /\ report[u] \in {"none", "response"}
               /\ \A i \in 1..Len(sent) :
                     sent[i] = u /\ (cli = "ended" \/ (cli = "poll" /\ i <= polled)) =>
                        report[u] = "response"
    BY <1>2, <2>3, <2>4, <2>5 DEF EarlyInv
  <2>6. ASSUME t \in early', t \notin early
        PROVE  /\ Answered(t)'
               /\ cli = "poll" => sent[polled + 1] # t
               /\ report[t] = "none"
               /\ \A i \in 1..Len(sent) :
                     sent[i] = t => ~(cli = "ended" \/ (cli = "poll" /\ i <= polled))
    <3>1. responses[t].stage # "absent" /\ NotYetPolled(t)
      BY <1>5, <2>6 DEF StoreAnswer
    <3>2. Answered(t)'
      BY <1>2, <2>1, <3>1 DEF Answered, StoreResponse
    <3>3. CASE cli = "wait"
      BY <1>2, <3>2, <3>3 DEF ReportInv
    <3>4. CASE cli = "poll" /\ t \in Ahead
      <4>1. PICK j \in 1..Len(sent) : j > polled + 1 /\ sent[j] = t
        BY <3>4 DEF Ahead
      <4>2. polled \in Nat /\ Len(sent) \in Nat
        BY <1>2, ClockTyped
      <4>3. report[t] = "none"
        BY <1>2, <3>4, <4>1, <4>2 DEF ReportInv
      <4>4. \A i \in 1..Len(sent) : sent[i] = t => i = j
        BY <1>2, <4>1 DEF SentInv
      <4>5. polled + 1 \in 1..Len(sent)
        BY <4>1, <4>2
      <4>6. sent[polled + 1] # t
        BY <4>1, <4>2, <4>4, <4>5
      <4>7. QED
        BY <3>2, <3>4, <4>1, <4>2, <4>3, <4>4, <4>6
    <3>5. QED
      BY <3>1, <3>3, <3>4 DEF NotYetPolled
  <2>7. EarlyInv'
    <3> SUFFICES ASSUME InTime, NEW u \in early'
                 PROVE  /\ Open(u)' => Answered(u)'
                        /\ cli = "poll" /\ sent[polled + 1] = u => waited = 0
                        /\ report[u] \in {"none", "response"}
                        /\ \A i \in 1..Len(sent) :
                              sent[i] = u /\ (cli = "ended" \/ (cli = "poll" /\ i <= polled)) =>
                                 report[u] = "response"
      BY <1>2 DEF EarlyInv, InTime
    <3>1. CASE u \in early
      BY <2>5, <3>1
    <3>2. CASE u \notin early
      BY <2>1, <2>6, <3>2
    <3>3. QED
      BY <3>1, <3>2
  <2>8. QED
    BY <1>3, <2>2, <2>7 DEF PollInv
<1>6. QED
  BY <1>4, <1>5

\* The command comes to an answer that was early at its first look.
LEMMA PollPoll ==
    ASSUME IInv, PollInv, Poll \/ TimeOut
    PROVE  PollInv'
<1> DEFINE next == polled + 1
<1>1. /\ UNCHANGED <<kind, handlerVars, age, out, elapsed, early>> /\ cli = "poll"
      /\ TypeOK /\ AgeInv /\ SentInv /\ ReportInv /\ EarlyInv /\ early \subseteq Targets
  BY DEF Poll, TimeOut, daemonVars, IInv, PollInv, TypeOK
<1>2. UNCHANGED <<handler, todo, failed, sent>> /\ SentTo' = SentTo
  BY <1>1 DEF handlerVars, SentTo
<1>3. /\ polled \in Nat /\ Len(sent) \in Nat /\ next \in 1..Len(sent) /\ sent[next] \in Targets
      /\ sent[next] = Awaited
  BY <1>1 DEF IInv, Phase, TypeOK, Awaited
<1>4. PICK outcome \in {"response", "failure", "timeout"} :
         /\ Conclude(outcome)
         /\ Poll => outcome = IF responses[Awaited].response THEN "response" ELSE "failure"
         /\ TimeOut => waited = Patience
  BY DEF Poll, TimeOut
<1>5. /\ report' = [report EXCEPT ![sent[next]] = outcome] /\ polled' = next /\ waited' = 0
      /\ cli' = IF next = Len(sent) THEN "ended" ELSE "poll"
  BY <1>3, <1>4 DEF Conclude
<1>6. \A t \in Targets : t # sent[next] => responses'[t] = responses[t] /\ report'[t] = report[t]
  BY <1>1, <1>3, <1>5 DEF Poll, TimeOut, daemonVars, TypeOK
<1>7. report'[sent[next]] = outcome
  BY <1>1, <1>3, <1>5 DEF TypeOK
<1>8. AgeInv'
  <2>1. next * Patience = polled * Patience + Patience
    BY <1>1, <1>3, ClockTyped, Times
  <2>2. Clock' = elapsed + next * Patience
    <3>1. polled' * Patience = next * Patience /\ next * Patience \in Nat
      BY <1>1, <1>3, <1>5, ClockTyped, Times
    <3>2. QED
      BY <1>1, <1>5, <3>1, ClockTyped DEF Clock
  <2>3. Clock <= Clock' /\ Clock' \in Nat
    <3> DEFINE x == polled * Patience
    <3>1. x \in Nat /\ Clock = elapsed + x + waited /\ Clock' = elapsed + x + Patience
      BY <1>1, <2>1, <2>2, ClockTyped DEF Clock
    <3> HIDE DEF x
    <3>2. QED
      BY <1>1, <3>1, ClockTyped
  <2>4. \A t \in Targets : age[t] <= Clock /\ age[t] \in Nat
    BY <1>1 DEF AgeInv, TypeOK
  <2>5. \A t \in Targets : age[t] <= Clock'
    BY <1>1, <2>3, <2>4, ClockTyped
  <2>6. QED
    BY <1>1, <2>5 DEF AgeInv
<1>9. SentInv'
  BY <1>1, <1>2, <1>5 DEF SentInv
<1>10. \A i \in 1..Len(sent) : i # next => sent[i] # sent[next]
  BY <1>1, <1>3 DEF SentInv
<1>11. ReportInv'
  <2>1. ASSUME NEW i \in 1..Len(sent), i > next PROVE report'[sent[i]] = "none"
    <3>1. i > polled /\ i # next
      BY <1>3, <2>1
    <3>2. report[sent[i]] = "none" /\ sent[i] \in Targets /\ sent[i] # sent[next]
      BY <1>1, <1>10, <3>1 DEF ReportInv, TypeOK
    <3>3. QED
      BY <1>6, <3>2
  <2>2. QED
    BY <1>2, <1>5, <2>1 DEF ReportInv
<1>12. ASSUME InTime, sent[next] \in early PROVE outcome = "response"
  <2>1. Open(sent[next])
    BY <1>1, <1>3 DEF Open
  <2>2. Answered(sent[next]) /\ waited = 0
    BY <1>1, <1>12, <2>1 DEF EarlyInv
  <2>3. Patience # 0
    BY <1>1, ClockTyped
  <2>4. QED
    BY <1>3, <1>4, <2>2, <2>3 DEF Answered
<1>13. EarlyInv'
  <2> SUFFICES ASSUME InTime, NEW t \in early
               PROVE  /\ Open(t)' => Answered(t)'
                      /\ report'[t] \in {"none", "response"}
                      /\ \A i \in 1..Len(sent) :
                            sent[i] = t /\ (cli' = "ended" \/ (cli' = "poll" /\ i <= next)) =>
                               report'[t] = "response"
    BY <1>1, <1>2, <1>5 DEF EarlyInv, InTime
  <2>1. CASE t = sent[next]
    <3>1. report'[t] = "response"
      BY <1>7, <1>12, <2>1
    <3>2. ~Open(t)'
      BY <1>2, <1>3, <1>5, <1>10, <2>1 DEF Open
    <3>3. QED
      BY <3>1, <3>2
  <2>2. CASE t # sent[next]
    <3>1. Open(t)' => Open(t)
      BY <1>1, <1>2, <1>3, <1>5 DEF Open
    <3>2. Answered(t) => Answered(t)'
      BY <1>1, <1>6, <2>2 DEF Answered
    <3>3. report'[t] = report[t]
      BY <1>1, <1>6, <2>2
    <3>4. ASSUME NEW i \in 1..Len(sent), sent[i] = t, cli' = "ended" \/ i <= next
          PROVE  report[t] = "response"
      <4>1. i <= next /\ i # next
        BY <1>3, <1>5, <2>2, <3>4
      <4>2. i <= polled
        BY <1>3, <4>1
      <4>3. QED
        BY <1>1, <3>4, <4>2 DEF EarlyInv
    <3>5. QED
      BY <1>1, <3>1, <3>2, <3>3, <3>4 DEF EarlyInv
  <2>3. QED
    BY <2>1, <2>2
<1>14. QED
  BY <1>8, <1>9, <1>11, <1>13 DEF PollInv

LEMMA PollTick ==
    ASSUME IInv, PollInv, Tick
    PROVE  PollInv'
<1>1. /\ UNCHANGED <<handlerVars, responses, retry, out, kind, cli, polled, report, early>>
      /\ TypeOK /\ AgeInv /\ SentInv /\ ReportInv /\ EarlyInv
  BY DEF Tick, IInv, PollInv
<1>2. UNCHANGED <<handler, todo, failed, sent>> /\ SentTo' = SentTo
  BY <1>1 DEF handlerVars, SentTo
<1>3. AgeInv'
  <2> DEFINE x == polled * Patience
  <2>1. x \in Nat /\ elapsed \in Nat /\ waited \in Nat
    BY <1>1, ClockTyped
  <2>2. Clock = elapsed + x + waited /\ Clock' = elapsed' + x + waited'
    BY <1>1 DEF Clock
  <2>3. \/ elapsed' = elapsed + 1 /\ waited' = waited
        \/ elapsed' = elapsed /\ waited' = waited + 1
    BY DEF Tick
  <2> HIDE DEF x
  <2>4. Clock \in Nat /\ Clock' = Clock + 1
    BY <2>1, <2>2, <2>3
  <2>5. \A t \in Targets : age[t] \in Nat /\ age[t] <= Clock
    BY <1>1 DEF AgeInv, TypeOK
  <2>6. \A t \in Targets : age'[t] = age[t] \/ age'[t] = age[t] + 1
    BY <2>5 DEF Tick
  <2>7. \A t \in Targets : age'[t] <= Clock + 1
    BY <2>4, <2>5, <2>6
  <2>8. QED
    BY <2>4, <2>7 DEF AgeInv
<1>4. waited' = IF cli = "poll" THEN waited + 1 ELSE waited
  BY DEF Tick
<1>5. SentInv' /\ ReportInv'
  BY <1>1, <1>2, <1>4 DEF SentInv, ReportInv
<1>6. ASSUME InTime, NEW t \in early, cli = "poll" PROVE sent[polled + 1] # t
  <2>1. polled + 1 \in 1..Len(sent) /\ polled + 1 > polled
    BY <1>1, <1>6 DEF IInv, Phase, TypeOK
  <2>2. Open(sent[polled + 1])
    BY <1>6, <2>1 DEF Open
  <2>3. responses[sent[polled + 1]].stage \notin Terminal
    BY <1>6 DEF Tick, Awaited
  <2>4. QED
    BY <1>1, <1>6, <2>2, <2>3 DEF EarlyInv, Answered, Terminal
<1>7. EarlyInv'
  BY <1>1, <1>2, <1>6 DEF EarlyInv, InTime, Open, Answered
<1>8. QED
  BY <1>3, <1>5, <1>7 DEF PollInv

\* FanOut!EarlyAnswersPrinted: as long as its polls cannot outlast an entry of `responses`, a
\* debate prints every answer that its daemon had when it came to the request, for any number
\* of targets and whatever retries, receipts and other requests do meanwhile (commands.rs,
\* local_api.rs).
THEOREM EarlyAnswersHold == Spec => []EarlyAnswersPrinted
<1>1. Init => PollInv
  <2> SUFFICES ASSUME Init PROVE PollInv
    OBVIOUS
  <2>1. /\ SentTo = {} /\ Len(sent) = 0 /\ early = {} /\ out = {} /\ todo = {}
        /\ cli = "idle" /\ waited = 0 /\ polled = 0 /\ elapsed = 0
    BY DEF Init, SentTo
  <2>2. AgeInv
    <3>1. polled * Patience = 0
      BY <2>1, FanOutAssumption, Times
    <3>2. Clock = 0
      BY <2>1, <3>1 DEF Clock
    <3>3. QED
      BY <3>2 DEF Init, AgeInv
  <2>3. IsFiniteSet(SentTo) /\ Len(sent) = Cardinality(SentTo)
    BY <2>1, FS_EmptySet
  <2>4. SentInv /\ ReportInv /\ EarlyInv
    BY <2>1, <2>3 DEF Init, SentInv, ReportInv, EarlyInv
  <2>5. QED
    BY <2>2, <2>4 DEF PollInv
<1>2. IInv /\ PollInv /\ [Next]_vars => PollInv'
  <2> SUFFICES ASSUME IInv, PollInv, [Next]_vars PROVE PollInv'
    OBVIOUS
  <2>1. CASE UNCHANGED vars
    <3>1. UNCHANGED <<kind, handler, todo, cur, sent, failed, responses, age, retry, out,
                      cli, polled, waited, report, elapsed, early>>
      BY <2>1 DEF vars, handlerVars, daemonVars, cliVars
    <3>2. AgeInv'
      BY <3>1 DEF PollInv, AgeInv, Clock
    <3>3. SentTo' = SentTo
      BY <3>1 DEF SentTo
    <3>4. SentInv' /\ ReportInv'
      BY <3>1, <3>3 DEF PollInv, SentInv, ReportInv
    <3>5. EarlyInv'
      BY <3>1 DEF PollInv, EarlyInv, InTime, Open, Answered
    <3>6. QED
      BY <3>2, <3>4, <3>5 DEF PollInv
  <2>2. CASE Next
    <3>1. \/ \E k \in Kinds : Post(k)
          \/ \E k \in Kinds : Check(k)
          \/ Return \/ GiveUp
          \/ \E t \in Targets : Begin(t) \/ Send(t) \/ SendError(t) \/ NoteSent(t) \/ NoteFailed(t)
          \/ \E t \in Targets :
                \/ Retry(t) \/ StoreAnswer(t)
                \/ \E stage \in {"received_by_peer_daemon", "processing_failed"} : StoreEvent(t, stage)
          \/ Prune \/ Poll \/ TimeOut \/ Tick
      BY <2>2 DEF Next, CmdDebate, CmdBroadcast, CmdPublish, HandleDebate, HandleBroadcast,
                  HandlePublish, Kinds
    <3>2. QED
      BY <3>1, PollCommand, PollLoop, PollDaemon, PollPoll, PollTick
  <2>3. QED
    BY <2>1, <2>2
<1>3. IInv /\ PollInv => EarlyAnswersPrinted
  <2> SUFFICES ASSUME IInv, PollInv, InTime, NEW t \in early
               PROVE  /\ report[t] \in {"none", "response"}
                      /\ cli = "ended" /\ t \in SentTo => report[t] = "response"
    BY DEF EarlyAnswersPrinted, InTime
  <2>1. QED
    BY DEF PollInv, EarlyInv, SentTo
<1>4. QED
  BY <1>1, <1>2, <1>3, InvariantHolds, PTL DEF Spec
=============================================================================
