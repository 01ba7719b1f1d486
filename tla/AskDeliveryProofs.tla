--------------------------- MODULE AskDeliveryProofs ---------------------------
(***************************************************************************)
(* Theorems about AskDelivery, for any set of requests, any number of      *)
(* retries and any failures.                                               *)
(***************************************************************************)
EXTENDS AskDelivery, TLAPS

-----------------------------------------------------------------------------
(* The updates of one pending entry *)

\* note_pending_stage, note_pending_failure, store_response and remove_pending turn an
\* entry into an entry.
LEMMA EntryUpdatesTyped ==
    ASSUME NEW e \in Entries, NEW s \in Stages
    PROVE  /\ NoteStage(e, s) \in Entries
           /\ NoteFailure(e) \in Entries
           /\ StoreDeliveryEvent(e, s) \in Entries
           /\ StoreResponse(e) \in Entries
  BY DEF Entries, Stages, HandoffStages, PeerReceipt, Terminal, NoteStage, NoteFailure,
         StoreDeliveryEvent, StoreResponse

LEMMA ConstantEntries == AbsentEntry \in Entries /\ NewEntry \in Entries
  BY DEF Entries, Stages, AbsentEntry, NewEntry

-----------------------------------------------------------------------------
(* Type correctness *)

LEMMA PutTyped ==
    ASSUME TypeOK, NEW m \in Messages, Put(m)
    PROVE  net' \in [Messages -> Nat] /\ dropped' = dropped
  BY DEF Put, TypeOK

LEMMA TakeTyped ==
    ASSUME TypeOK, NEW m \in Messages, Take(m)
    PROVE  net' \in [Messages -> Nat]
  BY DEF Take, TypeOK

LEMMA BlameTyped ==
    ASSUME TypeOK, NEW losses, \A r \in Requests : losses[r] \subseteq Losses, Blame(losses)
    PROVE  dropped' \in [Requests -> SUBSET Losses]
  BY DEF Blame, TypeOK

LEMMA BlameOneTyped ==
    ASSUME TypeOK, NEW r \in Requests, NEW what \in Losses, Blame(OnlyOf(r, what))
    PROVE  dropped' \in [Requests -> SUBSET Losses]
  BY BlameTyped DEF OnlyOf

LEMMA PutAskTyped ==
    ASSUME TypeOK, NEW places, NEW r \in Requests, PutAsk(places, r)
    PROVE  net' \in [Messages -> Nat] /\ dropped' \in [Requests -> SUBSET Losses]
  BY DEF PutAsk, TypeOK

LEMMA TransmitTyped ==
    ASSUME TypeOK, NEW k \in Replies, NEW r \in Requests, Transmit(k, r)
    PROVE  /\ net' \in [Messages -> Nat]
           /\ dropped' \in [Requests -> SUBSET Losses]
<1>1. ASSUME NEW place \in {"wire", "mailbox"}, Put(<<place, k, r>>)
      PROVE  net' \in [Messages -> Nat] /\ dropped' = dropped
  <2>1. <<place, k, r>> \in Messages
    BY DEF Messages
  <2>2. QED
    BY <1>1, <2>1, PutTyped
<1>2. ASSUME UNCHANGED net, Blame(OnlyOf(r, "reply"))
      PROVE  dropped' \in [Requests -> SUBSET Losses]
  BY <1>2, BlameOneTyped DEF Losses
<1>3. QED
  BY <1>1, <1>2 DEF Transmit, TypeOK

LEMMA DrainTyped ==
    ASSUME TypeOK, NEW kinds \in SUBSET ({"ask"} \cup Replies), Drain(kinds)
    PROVE  net' \in [Messages -> Nat] /\ dropped' = dropped
<1>1. \A m \in Messages : <<"mailbox", m[2], m[3]>> \in Messages
  BY DEF Messages
<1>2. QED
  BY <1>1 DEF Drain, TypeOK

LEMMA DropBatchTyped ==
    ASSUME TypeOK, NEW kinds, DropBatch(kinds)
    PROVE  net' \in [Messages -> Nat]
  BY DEF DropBatch, TypeOK

\* Pruning keeps the cache and its history typed.
LEMMA PruneTyped ==
    ASSUME TypeOK, NEW gone, CountForgotten(gone)
    PROVE  /\ forgets' \in [Requests -> Nat]
           /\ Pruned \in [Requests -> {"none", "in_flight"} \cup Outcomes]
  BY DEF CountForgotten, Pruned, TypeOK

LEMMA SenderTyped ==
    ASSUME TypeOK, NEW r \in Requests,
           Ask(r) \/ AskerStep(r) \/ CallerGone(r) \/ Poll(r) \/ ResponseExpires(r)
    PROVE  TypeOK'
<1>1. CASE Ask(r)
  BY <1>1, ConstantEntries DEF Ask, GoTo, TypeOK, senderVars, receiverVars, network
<1>2. CASE Send(r)
  <2>1. net' \in [Messages -> Nat] /\ dropped' \in [Requests -> SUBSET Losses]
    BY <1>2, PutAskTyped DEF Send
  <2>2. QED
    BY <1>2, <2>1 DEF Send, GoTo, TypeOK, HandoffStages, receiverVars
<1>3. CASE SendError(r)
  <2>1. net' \in [Messages -> Nat] /\ dropped' \in [Requests -> SUBSET Losses]
    BY <1>3, PutAskTyped DEF SendError, network, TypeOK
  <2>2. QED
    BY <1>3, <2>1 DEF SendError, GoTo, AfterAttempt, TypeOK, receiverVars
<1>4. CASE Drop(r)
  BY <1>4, ConstantEntries DEF Drop, GoTo, TypeOK, receiverVars, network
<1>5. CASE NoteHandoff(r)
  <2>1. responses[r] \in Entries /\ asker[r] \in Stages
    BY <1>5 DEF NoteHandoff, TypeOK, Stages
  <2>2. NoteStage(responses[r], asker[r]) \in Entries
    BY <2>1, EntryUpdatesTyped
  <2>3. QED
    BY <1>5, <2>2 DEF NoteHandoff, GoTo, AfterAttempt, TypeOK, receiverVars, network
<1>6. CASE Retry(r)
  BY <1>6, AskAssumption DEF Retry, GoTo, TypeOK, receiverVars, network
<1>7. CASE Poll(r)
  BY <1>7, ConstantEntries DEF Poll, TypeOK, receiverVars, network
<1>8. CASE ResponseExpires(r)
  BY <1>8 DEF ResponseExpires, TypeOK, receiverVars, network
<1>9. CASE CallerGone(r)
  BY <1>9 DEF CallerGone, GoTo, TypeOK, receiverVars, network
<1>10. QED
  BY <1>1, <1>2, <1>3, <1>4, <1>5, <1>6, <1>7, <1>8, <1>9 DEF AskerStep

LEMMA ReceiverTyped ==
    ASSUME TypeOK, NEW l \in Loops, LoopStep(l)
    PROVE  TypeOK'
<1>1. ASSUME NEW r \in Requests, Begin(l, r)
      PROVE  TypeOK'
  <2>1. <<Inbox(l), "ask", r>> \in Messages
    BY DEF Messages, Inbox
  <2>2. net' \in [Messages -> Nat]
    BY <1>1, <2>1, TakeTyped DEF Begin
  <2>3. /\ forgets' \in [Requests -> Nat]
        /\ Pruned \in [Requests -> {"none", "in_flight"} \cup Outcomes]
    BY <1>1, PruneTyped DEF Begin
  <2>4. request_cache' \in [Requests -> {"none", "in_flight"} \cup Outcomes]
    BY <1>1, <2>3 DEF Begin
  <2>5. loop' \in [Loops -> {Idle} \cup Jobs]
    BY <1>1, <2>3 DEF Begin, Jobs, TypeOK
  <2>6. QED
    BY <1>1, <2>2, <2>3, <2>4, <2>5 DEF Begin, TypeOK, senderVars
<1>2. ASSUME loop[l].pc # "idle"
      PROVE  loop[l] \in Jobs
  BY <1>2 DEF TypeOK, Idle
<1>3. CASE SendReceipt(l)
  <2>1. loop[l] \in Jobs
    BY <1>2, <1>3 DEF SendReceipt
  <2>2. /\ net' \in [Messages -> Nat]
        /\ dropped' \in [Requests -> SUBSET Losses]
    BY <1>3, <2>1, TransmitTyped DEF SendReceipt, Jobs, Replies
  <2>3. AfterReceipt(loop[l]) \in {Idle} \cup Jobs
    BY <2>1 DEF AfterReceipt, Jobs, Outcomes
  <2>4. QED
    BY <1>3, <2>2, <2>3 DEF SendReceipt, TypeOK, senderVars
<1>4. CASE Dispatch(l)
  <2>1. loop[l] \in Jobs
    BY <1>2, <1>4 DEF Dispatch
  <2>2. [loop[l] EXCEPT !.pc = "running"] \in Jobs
    BY <1>4, <2>1 DEF Dispatch, Jobs
  <2>3. loop' \in [Loops -> {Idle} \cup Jobs]
    BY <1>4, <2>2 DEF Dispatch, TypeOK
  <2>4. runs' \in [Requests -> Nat]
    BY <1>4, <2>1 DEF Dispatch, TypeOK, Jobs
  <2>5. QED
    BY <1>4, <2>3, <2>4 DEF Dispatch, TypeOK, senderVars, network
<1>5. ASSUME NEW outcome \in Outcomes, Finish(l, outcome)
      PROVE  TypeOK'
  <2>1. loop[l] \in Jobs
    BY <1>2, <1>5 DEF Finish
  <2>2. [loop[l] EXCEPT !.pc = "reply", !.cached = outcome] \in Jobs
    BY <2>1 DEF Jobs
  <2>3. loop' \in [Loops -> {Idle} \cup Jobs]
    BY <1>5, <2>2 DEF Finish, TypeOK
  <2>4. /\ forgets' \in [Requests -> Nat]
        /\ Pruned \in [Requests -> {"none", "in_flight"} \cup Outcomes]
    BY <1>5, PruneTyped DEF Finish
  <2>5. request_cache' \in [Requests -> {"none", "in_flight"} \cup Outcomes]
    BY <1>5, <2>1, <2>4 DEF Finish
  <2>6. produced' \in [Requests -> SUBSET ({"received"} \cup Outcomes)]
    BY <1>5 DEF Finish, TypeOK
  <2>7. QED
    BY <1>5, <2>3, <2>4, <2>5, <2>6 DEF Finish, TypeOK, senderVars, network
<1>6. CASE Reply(l)
  <2>1. loop[l] \in Jobs
    BY <1>2, <1>6 DEF Reply
  <2>2. /\ net' \in [Messages -> Nat]
        /\ dropped' \in [Requests -> SUBSET Losses]
    BY <1>6, <2>1, TransmitTyped DEF Reply, Jobs, Replies
  <2>3. QED
    BY <1>6, <2>2 DEF Reply, TypeOK, senderVars
<1>7. QED
  BY <1>1, <1>3, <1>4, <1>5, <1>6 DEF LoopStep

\* The steps that belong to no asker and no receiver loop.
OtherStep ==
    \/ \E place \in {"wire", "batch"} : Stored(place)
    \/ FetchReplies
    \/ FetchRequests
    \/ \E r \in Requests : CacheEntryExpires(r)
    \/ \E m \in Messages : Lose(m[1], m[2], m[3])
    \/ RestartSender
    \/ RestartReceiver

LEMMA OtherTyped == TypeOK /\ OtherStep => TypeOK'
<1> SUFFICES ASSUME TypeOK, OtherStep PROVE TypeOK'
  OBVIOUS
<1>1. ASSUME NEW place \in {"wire", "batch"}, NEW kind \in Replies, NEW r \in Requests,
             StoreReply(place, kind, r)
      PROVE  TypeOK'
  <2>1. <<place, kind, r>> \in Messages
    BY DEF Messages
  <2>2. net' \in [Messages -> Nat]
    BY <1>1, <2>1, TakeTyped DEF StoreReply
  <2>3. responses[r] \in Entries
    BY DEF TypeOK
  <2>4. StoreResponse(responses[r]) \in Entries
    BY <2>3, EntryUpdatesTyped DEF Stages
  <2>5. kind # "response" => StoreDeliveryEvent(responses[r], kind) \in Entries
    BY <2>3, EntryUpdatesTyped DEF Stages, PeerReceipt, Terminal, Replies
  <2>6. responses' \in [Requests -> Entries]
    BY <1>1, <2>4, <2>5 DEF StoreReply, TypeOK
  <2>7. QED
    BY <1>1, <2>2, <2>6 DEF StoreReply, TypeOK, receiverVars
<1>2. CASE FetchReplies
  BY <1>2, DrainTyped DEF FetchReplies, TypeOK, senderVars, receiverVars
<1>3. CASE FetchRequests
  BY <1>3, DrainTyped DEF FetchRequests, TypeOK, senderVars, receiverVars
<1>4. ASSUME NEW r \in Requests, CacheEntryExpires(r)
      PROVE  TypeOK'
  BY <1>4 DEF CacheEntryExpires, TypeOK, senderVars, network
<1>5. ASSUME NEW m \in Messages, Lose(m[1], m[2], m[3])
      PROVE  TypeOK'
  <2>1. m = <<m[1], m[2], m[3]>> /\ m[3] \in Requests
    BY DEF Messages
  <2>2. net' \in [Messages -> Nat]
    BY <1>5, <2>1, TakeTyped DEF Lose
  <2>3. dropped' \in [Requests -> SUBSET Losses]
    BY <1>5, <2>1, BlameOneTyped DEF Lose, Losses
  <2>4. QED
    BY <1>5, <2>2, <2>3 DEF Lose, TypeOK, senderVars, receiverVars
<1>6. CASE RestartSender
  <2>1. /\ net' \in [Messages -> Nat]
        /\ dropped' \in [Requests -> SUBSET Losses]
    BY <1>6, DropBatchTyped, BlameTyped DEF RestartSender, Losses
  <2>2. asker' \in [Requests -> {"idle", "refused", "done", "abandoned"}]
        /\ \A r \in Requests : asker'[r] # "wait"
    BY <1>6 DEF RestartSender
  <2>3. QED
    BY <1>6, <2>1, <2>2, ConstantEntries DEF RestartSender, TypeOK, receiverVars
<1>7. CASE RestartReceiver
  <2>1. /\ net' \in [Messages -> Nat]
        /\ dropped' \in [Requests -> SUBSET Losses]
    BY <1>7, DropBatchTyped, BlameTyped DEF RestartReceiver, InHands, Losses
  <2>2. forgets' \in [Requests -> Nat]
    BY <1>7, PruneTyped DEF RestartReceiver
  <2>3. QED
    BY <1>7, <2>1, <2>2 DEF RestartReceiver, TypeOK, senderVars
<1>8. QED
  BY <1>1, <1>2, <1>3, <1>4, <1>5, <1>6, <1>7 DEF OtherStep, Stored

\* The three groups of steps are all there is.
LEMMA StepCases ==
    Next <=> \/ \E r \in Requests : Ask(r) \/ AskerStep(r) \/ CallerGone(r) \/ Poll(r) \/ ResponseExpires(r)
             \/ \E l \in Loops : LoopStep(l)
             \/ OtherStep
  BY DEF Next, OtherStep

\* The pending map, the two loops, the cache and the messages keep their shape whatever
\* fails, and a retry is only ever awaited while one is left.
THEOREM TypeCorrect == Spec => []TypeOK
<1>1. Init => TypeOK
  BY ConstantEntries, AskAssumption
     DEF Init, TypeOK, HandoffStages, Messages, Idle
<1>2. TypeOK /\ [Next]_vars => TypeOK'
  <2>1. TypeOK /\ UNCHANGED vars => TypeOK'
    BY DEF TypeOK, vars, senderVars, network, receiverVars
  <2>2. QED
    BY <2>1, StepCases, SenderTyped, ReceiverTyped, OtherTyped
<1>3. QED
  BY <1>1, <1>2, PTL DEF Spec

-----------------------------------------------------------------------------
(* Dispatches *)

\* 1 if loop l has claimed request r and not yet handed it to the runtime.
Claim(l, r) ==
    IF /\ \/ loop[l].pc = "dispatch"
          \/ loop[l].pc = "receipt" /\ loop[l].cached = "none"
       /\ loop[l].req = r
    THEN 1 ELSE 0

Cached(r) == IF request_cache[r] = "none" THEN 0 ELSE 1

\* Each dispatch, made or still to come, is paid for by a cache entry: the one that is
\* there or one that was forgotten.  DispatchPerMemory alone is not inductive: it does
\* not see the claims of the two loops.
DispatchInv ==
    \A r \in Requests :
        runs[r] + Claim("recv", r) + Claim("poll", r) <= forgets[r] + Cached(r)

\* The claims and the cached entry count 0 or 1.
LEMMA CountsTyped ==
    ASSUME NEW r \in Requests
    PROVE  /\ \A l \in Loops : Claim(l, r) \in {0, 1} /\ Claim(l, r)' \in {0, 1}
           /\ Cached(r) \in {0, 1} /\ Cached(r)' \in {0, 1}
  BY DEF Claim, Cached

\* A step that touches neither the loops nor the cache preserves DispatchInv.
LEMMA DispatchUntouched ==
    ASSUME DispatchInv, UNCHANGED <<loop, request_cache, runs, forgets>>
    PROVE  DispatchInv'
  BY DEF DispatchInv, Claim, Cached

\* What CountForgotten adds is what pruning takes away.
LEMMA PrunePays ==
    ASSUME TypeOK, CountForgotten(stale), NEW r \in Requests
    PROVE  forgets'[r] + (IF Pruned[r] = "none" THEN 0 ELSE 1) = forgets[r] + Cached(r)
  BY DEF CountForgotten, Pruned, Cached, TypeOK

LEMMA ReceiverDispatchInv ==
    ASSUME TypeOK, DispatchInv, NEW l \in Loops, LoopStep(l)
    PROVE  DispatchInv'
<1> SUFFICES ASSUME NEW r \in Requests
             PROVE  (runs[r] + Claim("recv", r) + Claim("poll", r) <= forgets[r] + Cached(r))'
  BY DEF DispatchInv
<1> DEFINE other == IF l = "recv" THEN "poll" ELSE "recv"
<1>a. /\ l # other /\ other \in Loops
      /\ Claim("recv", r) + Claim("poll", r) = Claim(l, r) + Claim(other, r)
      /\ (Claim("recv", r) + Claim("poll", r))' = Claim(l, r)' + Claim(other, r)'
  BY CountsTyped DEF Loops
<1>b. runs[r] + Claim(l, r) + Claim(other, r) <= forgets[r] + Cached(r)
  BY <1>a, CountsTyped DEF DispatchInv, TypeOK, Loops
<1>c. SUFFICES runs'[r] + Claim(l, r)' + Claim(other, r)' <= forgets'[r] + Cached(r)'
  <2>1. runs'[r] \in Nat /\ forgets'[r] \in Nat
    BY ReceiverTyped DEF TypeOK
  <2>2. QED
    BY <1>a, <2>1, CountsTyped DEF Loops
<1>d. runs[r] \in Nat /\ forgets[r] \in Nat
  BY DEF TypeOK
<1>e. /\ Claim(l, r) \in {0, 1} /\ Claim(l, r)' \in {0, 1} /\ Claim(other, r) \in {0, 1}
      /\ Cached(r) \in {0, 1} /\ Cached(r)' \in {0, 1}
  BY <1>a, CountsTyped
<1>1. ASSUME NEW x \in Requests, Begin(l, x)
      PROVE  runs'[r] + Claim(l, r)' + Claim(other, r)' <= forgets'[r] + Cached(r)'
  <2>1. loop[l].pc = "idle" /\ Claim(l, r) = 0
    BY <1>1 DEF Begin, Claim
  <2>2. Claim(other, r)' = Claim(other, r) /\ runs' = runs
    BY <1>1, <1>a DEF Begin, Claim, TypeOK
  <2>3. loop'[l] = [pc |-> "receipt", req |-> x, cached |-> Pruned[x]]
    BY <1>1 DEF Begin, TypeOK
  <2>4. Claim(l, r)' = IF x = r /\ Pruned[r] = "none" THEN 1 ELSE 0
    BY <2>3 DEF Claim
  <2>5. Cached(r)' = IF x # r /\ Pruned[r] = "none" THEN 0 ELSE 1
    BY <1>1 DEF Begin, Cached, Pruned, TypeOK, Outcomes
  <2>6. forgets'[r] + (IF Pruned[r] = "none" THEN 0 ELSE 1) = forgets[r] + Cached(r)
    BY <1>1, PrunePays DEF Begin
  <2>7. forgets'[r] \in Nat
    BY <1>1, PruneTyped DEF Begin
  <2>8. QED
    BY <1>b, <1>d, <1>e, <2>1, <2>2, <2>4, <2>5, <2>6, <2>7
<1>2. CASE SendReceipt(l)
  <2>1. UNCHANGED <<request_cache, runs, forgets>> /\ Claim(other, r)' = Claim(other, r)
    BY <1>2, <1>a DEF SendReceipt, Claim, TypeOK
  <2>2. loop'[l] = AfterReceipt(loop[l]) /\ loop[l].pc = "receipt"
    BY <1>2 DEF SendReceipt, TypeOK
  <2>3. Claim(l, r)' = Claim(l, r)
    <3>1. loop[l] \in Jobs
      BY <2>2 DEF TypeOK, Idle
    <3>2. CASE loop[l].cached = "none"
      BY <2>2, <3>1, <3>2 DEF AfterReceipt, Claim, Jobs
    <3>3. CASE loop[l].cached = "in_flight"
      BY <2>2, <3>1, <3>3 DEF AfterReceipt, Claim, Idle
    <3>4. CASE loop[l].cached \in Outcomes
      BY <2>2, <3>1, <3>4 DEF AfterReceipt, Claim, Jobs, Outcomes
    <3>5. QED
      BY <3>1, <3>2, <3>3, <3>4 DEF Jobs
  <2>4. Cached(r)' = Cached(r)
    BY <2>1 DEF Cached
  <2>5. QED
    BY <1>b, <2>1, <2>3, <2>4
<1>3. CASE Dispatch(l)
  <2>1. UNCHANGED <<request_cache, forgets>> /\ Claim(other, r)' = Claim(other, r)
    BY <1>3, <1>a DEF Dispatch, Claim, TypeOK
  <2>2. loop'[l].pc = "running" /\ Claim(l, r)' = 0 /\ Cached(r)' = Cached(r)
    BY <1>3, <2>1 DEF Dispatch, Claim, Cached, TypeOK
  <2>3. runs'[r] = runs[r] + Claim(l, r)
    <3>1. loop[l].pc = "dispatch" /\ runs' = [runs EXCEPT ![loop[l].req] = runs[loop[l].req] + 1]
      BY <1>3 DEF Dispatch
    <3>2. CASE loop[l].req = r
      BY <3>1, <3>2, <1>d DEF Claim, TypeOK
    <3>3. CASE loop[l].req # r
      BY <3>1, <3>3, <1>d DEF Claim, TypeOK
    <3>4. QED
      BY <3>2, <3>3
  <2>4. QED
    BY <1>b, <1>d, <1>e, <2>1, <2>2, <2>3
<1>4. ASSUME NEW outcome \in Outcomes, Finish(l, outcome)
      PROVE  runs'[r] + Claim(l, r)' + Claim(other, r)' <= forgets'[r] + Cached(r)'
  <2>1. runs' = runs /\ Claim(other, r)' = Claim(other, r) /\ Claim(l, r) = 0
    BY <1>4, <1>a DEF Finish, Claim, TypeOK
  <2>2. loop'[l].pc = "reply" /\ Claim(l, r)' = 0
    BY <1>4 DEF Finish, Claim, TypeOK
  <2>3. Cached(r)' >= IF Pruned[r] = "none" THEN 0 ELSE 1
    BY <1>4 DEF Finish, Cached, Pruned, TypeOK, Outcomes
  <2>4. forgets'[r] + (IF Pruned[r] = "none" THEN 0 ELSE 1) = forgets[r] + Cached(r)
    BY <1>4, PrunePays DEF Finish
  <2>5. forgets'[r] \in Nat
    BY <1>4, PruneTyped DEF Finish
  <2>6. QED
    BY <1>b, <1>d, <1>e, <2>1, <2>2, <2>3, <2>4, <2>5
<1>5. CASE Reply(l)
  <2>1. UNCHANGED <<request_cache, runs, forgets>> /\ Claim(other, r)' = Claim(other, r)
    BY <1>5, <1>a DEF Reply, Claim, TypeOK
  <2>2. Claim(l, r) = 0 /\ Claim(l, r)' = 0 /\ Cached(r)' = Cached(r)
    BY <1>5, <2>1 DEF Reply, Claim, Cached, TypeOK, Idle
  <2>3. QED
    BY <1>b, <2>1, <2>2
<1>6. QED
  BY <1>1, <1>2, <1>3, <1>4, <1>5 DEF LoopStep

LEMMA DispatchInvStep == TypeOK /\ DispatchInv /\ [Next]_vars => DispatchInv'
<1> SUFFICES ASSUME TypeOK, DispatchInv, [Next]_vars PROVE DispatchInv'
  OBVIOUS
<1>1. CASE UNCHANGED vars
  BY <1>1, DispatchUntouched DEF vars, receiverVars
<1>2. ASSUME NEW r \in Requests, Ask(r) \/ AskerStep(r) \/ CallerGone(r) \/ Poll(r) \/ ResponseExpires(r)
      PROVE  DispatchInv'
  BY <1>2, DispatchUntouched
     DEF Ask, AskerStep, Send, SendError, Drop, NoteHandoff, Retry, CallerGone, Poll,
         ResponseExpires,
         receiverVars
<1>3. ASSUME NEW l \in Loops, LoopStep(l)
      PROVE  DispatchInv'
  BY <1>3, ReceiverDispatchInv
<1>4. CASE OtherStep
  <2>1. CASE RestartReceiver
    <3> SUFFICES ASSUME NEW r \in Requests
                 PROVE  runs'[r] + Claim("recv", r)' + Claim("poll", r)'
                            <= forgets'[r] + Cached(r)'
      BY DEF DispatchInv
    <3>1. Claim("recv", r)' = 0 /\ Claim("poll", r)' = 0 /\ Cached(r)' = 0
      BY <2>1 DEF RestartReceiver, Claim, Cached, Idle, Loops
    <3>2. runs' = runs /\ forgets'[r] = forgets[r] + Cached(r)
      BY <2>1 DEF RestartReceiver, CountForgotten, Cached, TypeOK
    <3>3. runs[r] <= forgets[r] + Cached(r)
      <4>1. runs[r] \in Nat /\ forgets[r] \in Nat /\ Cached(r) \in {0, 1}
            /\ Claim("recv", r) \in {0, 1} /\ Claim("poll", r) \in {0, 1}
        BY CountsTyped DEF TypeOK, Loops
      <4>2. runs[r] + Claim("recv", r) + Claim("poll", r) <= forgets[r] + Cached(r)
        BY DEF DispatchInv
      <4>3. QED
        BY <4>1, <4>2
    <3>4. runs[r] \in Nat /\ forgets[r] \in Nat /\ Cached(r) \in {0, 1}
      BY CountsTyped DEF TypeOK
    <3>5. QED
      BY <3>1, <3>2, <3>3, <3>4
  <2>2. CASE ~RestartReceiver
    BY <1>4, <2>2, DispatchUntouched
       DEF OtherStep, Stored, StoreReply, FetchReplies, FetchRequests, CacheEntryExpires,
           Lose, RestartSender, receiverVars
  <2>3. QED
    BY <2>1, <2>2
<1>5. QED
  BY <1>1, <1>2, <1>3, <1>4, StepCases

\* begin_request_processing and the two loops together never hand a request to the
\* runtime a second time unless the receiver has forgotten it in between, by the age of
\* its cache entry or by a restart.
THEOREM DispatchOncePerMemory == Spec => []DispatchPerMemory
<1>1. Init => DispatchInv
  BY DEF Init, DispatchInv, Claim, Cached, Idle, Loops
<1>2. TypeOK /\ DispatchInv => DispatchPerMemory
  <2> SUFFICES ASSUME TypeOK, DispatchInv, NEW r \in Requests
               PROVE  runs[r] <= forgets[r] + 1
    BY DEF DispatchPerMemory
  <2>1. runs[r] \in Nat /\ forgets[r] \in Nat /\ Cached(r) \in {0, 1}
        /\ Claim("recv", r) \in {0, 1} /\ Claim("poll", r) \in {0, 1}
    BY CountsTyped DEF TypeOK, Loops
  <2>2. runs[r] + Claim("recv", r) + Claim("poll", r) <= forgets[r] + Cached(r)
    BY DEF DispatchInv
  <2>3. QED
    BY <2>1, <2>2
<1>3. QED
  BY <1>1, <1>2, DispatchInvStep, TypeCorrect, PTL DEF Spec

-----------------------------------------------------------------------------
(* Owners of requests in flight *)

Owns(l, r) == loop[l].pc # "idle" /\ loop[l].req = r /\ loop[l].cached = "none"

LEMMA OwnedStep == TypeOK /\ InFlightIsOwned /\ [Next]_vars => InFlightIsOwned'
<1> SUFFICES ASSUME TypeOK, InFlightIsOwned, [Next]_vars,
                    NEW r \in Requests, request_cache'[r] = "in_flight"
             PROVE  \E l \in Loops : Owns(l, r)'
  BY DEF InFlightIsOwned, Owns
<1>1. request_cache[r] = "in_flight" => \E l \in Loops : Owns(l, r)
  BY DEF InFlightIsOwned, Owns
<1>2. CASE UNCHANGED <<loop, request_cache>>
  BY <1>1, <1>2 DEF Owns
<1>3. ASSUME NEW l \in Loops, NEW x \in Requests, Begin(l, x)
      PROVE  \E k \in Loops : Owns(k, r)'
  <2>1. loop'[l] = [pc |-> "receipt", req |-> x, cached |-> Pruned[x]] /\ loop[l].pc = "idle"
    BY <1>3 DEF Begin, TypeOK
  <2>2. CASE x = r /\ Pruned[r] = "none"
    BY <2>1, <2>2 DEF Owns
  <2>3. CASE ~(x = r /\ Pruned[r] = "none")
    <3>1. request_cache[r] = "in_flight"
      BY <1>3, <2>3 DEF Begin, Pruned, TypeOK
    <3>2. PICK k \in Loops : Owns(k, r)
      BY <1>1, <3>1
    <3>3. k # l /\ loop'[k] = loop[k]
      BY <1>3, <2>1, <3>2 DEF Begin, Owns, TypeOK
    <3>4. QED
      BY <3>2, <3>3 DEF Owns
  <2>4. QED
    BY <2>2, <2>3
<1>4. ASSUME NEW l \in Loops, NEW outcome \in Outcomes, Finish(l, outcome)
      PROVE  \E k \in Loops : Owns(k, r)'
  <2>1. loop[l].req # r /\ request_cache[r] = "in_flight"
    BY <1>4 DEF Finish, Pruned, TypeOK, Outcomes, Jobs, Idle
  <2>2. PICK k \in Loops : Owns(k, r)
    BY <1>1, <2>1
  <2>3. k # l /\ loop'[k] = loop[k]
    BY <1>4, <2>1, <2>2 DEF Finish, Owns, TypeOK
  <2>4. QED
    BY <2>2, <2>3 DEF Owns
<1>5. ASSUME NEW l \in Loops, SendReceipt(l) \/ Dispatch(l)
      PROVE  \E k \in Loops : Owns(k, r)'
  <2>1. request_cache[r] = "in_flight"
    BY <1>5 DEF SendReceipt, Dispatch
  <2>2. PICK k \in Loops : Owns(k, r)
    BY <1>1, <2>1
  <2>3. CASE k # l
    BY <1>5, <2>2, <2>3 DEF SendReceipt, Dispatch, Owns, TypeOK
  <2>4. CASE k = l
    <3>1. loop[l] \in Jobs /\ loop[l].cached = "none"
      BY <2>2, <2>4 DEF Owns, TypeOK, Idle
    <3>2. loop'[l] = [loop[l] EXCEPT !.pc = "dispatch"]
            \/ loop'[l] = [loop[l] EXCEPT !.pc = "running"]
      BY <1>5, <3>1 DEF SendReceipt, Dispatch, AfterReceipt, TypeOK
    <3>3. QED
      BY <2>2, <2>4, <3>1, <3>2 DEF Owns, Jobs
  <2>5. QED
    BY <2>3, <2>4
<1>6. ASSUME NEW l \in Loops, Reply(l)
      PROVE  \E k \in Loops : Owns(k, r)'
  <2>1. PICK k \in Loops : Owns(k, r)
    BY <1>1, <1>6 DEF Reply
  <2>2. QED
    <3>1. loop[l].cached # "none"
      BY <1>6 DEF Reply, TypeOK, Jobs, Idle, Outcomes
    <3>2. QED
      BY <1>6, <2>1, <3>1 DEF Reply, Owns, TypeOK
<1>7. CASE RestartReceiver
  BY <1>7 DEF RestartReceiver
<1>8. ASSUME ~RestartReceiver, OtherStep
      PROVE  UNCHANGED <<loop, request_cache>>
  BY <1>8 DEF OtherStep, Stored, StoreReply, FetchReplies, FetchRequests, CacheEntryExpires,
              Lose, RestartSender, receiverVars
<1>9. ASSUME NEW x \in Requests, Ask(x) \/ AskerStep(x) \/ CallerGone(x) \/ Poll(x) \/ ResponseExpires(x)
      PROVE  UNCHANGED <<loop, request_cache>>
  BY <1>9 DEF Ask, AskerStep, Send, SendError, Drop, NoteHandoff, Retry, CallerGone, Poll,
         ResponseExpires,
              receiverVars
<1>10. CASE UNCHANGED vars
  BY <1>2, <1>10 DEF vars, receiverVars
<1>11. ASSUME NEW l \in Loops, LoopStep(l)
       PROVE  \E k \in Loops : Owns(k, r)'
  BY <1>3, <1>4, <1>5, <1>6, <1>11 DEF LoopStep
<1>12. QED
  BY <1>2, <1>7, <1>8, <1>9, <1>10, <1>11, StepCases

\* The error paths of both loops close the entry they opened: no request stays marked in
\* flight with nobody working on it.
THEOREM NoOrphanInFlight == Spec => []InFlightIsOwned
<1>1. Init => InFlightIsOwned
  BY DEF Init, InFlightIsOwned
<1>2. QED
  BY <1>1, OwnedStep, TypeCorrect, PTL DEF Spec

-----------------------------------------------------------------------------
(* Coherent outcomes *)

Coherent(e) ==
    /\ e.response <=> e.stage = "processed_by_peer_runtime"
    /\ e.error <=> e.stage = "processing_failed"

\* No update of one entry leaves a response and an error, or a stage and its evidence,
\* at odds.
LEMMA EntryUpdatesCoherent ==
    ASSUME NEW e \in Entries, Coherent(e)
    PROVE  /\ \A s \in HandoffStages \cup {"received_by_peer_daemon"} : Coherent(NoteStage(e, s))
           /\ \A s \in PeerReceipt \ {"processed_by_peer_runtime"} : Coherent(StoreDeliveryEvent(e, s))
           /\ Coherent(StoreResponse(e))
<1>1. ASSUME NEW s \in HandoffStages \cup {"received_by_peer_daemon"}
      PROVE  Coherent(NoteStage(e, s))
  <2>1. s \notin Terminal
    BY DEF HandoffStages, Terminal
  <2>2. NoteStage(e, s) = e \/ (e.stage \notin Terminal /\ NoteStage(e, s) = [e EXCEPT !.stage = s])
    BY DEF NoteStage
  <2>3. QED
    BY <2>1, <2>2 DEF Coherent, Entries, Terminal
<1>2. Coherent(NoteFailure(e))
  BY DEF NoteFailure, Coherent, Entries
<1>3. Coherent(StoreResponse(e))
  BY DEF StoreResponse, Coherent, Entries
<1>4. QED
  BY <1>1, <1>2, <1>3 DEF StoreDeliveryEvent, PeerReceipt, Terminal

LEMMA CoherentStep == TypeOK /\ CoherentOutcome /\ [Next]_vars => CoherentOutcome'
<1> SUFFICES ASSUME TypeOK, CoherentOutcome, [Next]_vars, NEW r \in Requests
             PROVE  Coherent(responses'[r])
  BY DEF CoherentOutcome, Coherent
<1>1. responses[r] \in Entries /\ Coherent(responses[r])
  BY DEF CoherentOutcome, Coherent, TypeOK
<1>2. Coherent(AbsentEntry) /\ Coherent(NewEntry)
  BY DEF Coherent, AbsentEntry, NewEntry
<1>3. ASSUME NEW x \in Requests, Ask(x) \/ AskerStep(x) \/ CallerGone(x) \/ Poll(x) \/ ResponseExpires(x)
      PROVE  Coherent(responses'[r])
  <2>1. CASE Ask(x)
    BY <1>1, <1>2, <2>1 DEF Ask
  <2>2. CASE Drop(x) \/ Poll(x)
    BY <1>1, <1>2, <2>2 DEF Drop, Poll, TypeOK
  <2>3. CASE NoteHandoff(x)
    BY <1>1, <2>3, EntryUpdatesCoherent DEF NoteHandoff, TypeOK
  <2>4. CASE Send(x) \/ SendError(x) \/ Retry(x) \/ CallerGone(x) \/ ResponseExpires(x)
    BY <1>1, <2>4 DEF Send, SendError, Retry, CallerGone, ResponseExpires
  <2>5. QED
    BY <1>3, <2>1, <2>2, <2>3, <2>4 DEF AskerStep
<1>4. ASSUME NEW l \in Loops, LoopStep(l)
      PROVE  Coherent(responses'[r])
  BY <1>1, <1>4 DEF LoopStep, Begin, SendReceipt, Dispatch, Finish, Reply, senderVars
<1>5. CASE OtherStep
  <2>1. ASSUME NEW place, NEW kind \in Replies, NEW x \in Requests, StoreReply(place, kind, x)
        PROVE  Coherent(responses'[r])
    <3>1. kind # "response" => kind \in PeerReceipt \ {"processed_by_peer_runtime"}
      BY DEF Replies, PeerReceipt, Terminal
    <3>2. QED
      BY <1>1, <2>1, <3>1, EntryUpdatesCoherent DEF StoreReply, TypeOK
  <2>2. CASE RestartSender
    BY <1>2, <2>2 DEF RestartSender
  <2>3. CASE \/ FetchReplies \/ FetchRequests \/ RestartReceiver
             \/ \E x \in Requests : CacheEntryExpires(x)
             \/ \E m \in Messages : Lose(m[1], m[2], m[3])
    BY <1>1, <2>3 DEF FetchReplies, FetchRequests, RestartReceiver, CacheEntryExpires, Lose,
                      senderVars
  <2>4. QED
    BY <1>5, <2>1, <2>2, <2>3 DEF OtherStep, Stored
<1>6. CASE UNCHANGED vars
  BY <1>1, <1>6 DEF vars, senderVars
<1>7. QED
  BY <1>3, <1>4, <1>5, <1>6, StepCases

\* However receipts, failures, responses and handoff notes interleave, a poll never shows
\* a response with an error, or either of them at a stage that does not have it.
THEOREM PollsCoherent == Spec => []CoherentOutcome
<1>1. Init => CoherentOutcome
  BY DEF Init, CoherentOutcome, AbsentEntry
<1>2. QED
  BY <1>1, CoherentStep, TypeCorrect, PTL DEF Spec

-----------------------------------------------------------------------------
(* Refinement of AskLifecycle *)

\* What the peer has done when it sends a reply of some kind.
Told(kind) ==
    CASE kind = "received_by_peer_daemon" -> "received"
      [] kind = "processing_failed" -> "failed"
      [] kind = "response" -> "succeeded"

\* The sender has entries only for requests it has made.
AskedInv == \A r \in Requests : asker[r] = "idle" => responses[r].stage = "absent"

\* Every reply under way tells of something the receiver has done.
WireInv ==
    \A m \in Messages : (m[2] \in Replies /\ net[m] > 0) => Told(m[2]) \in produced[m[3]]

\* Every cached outcome, and every outcome a loop is about to send, is one the runtime
\* has produced for that request.
JobsInv ==
    /\ \A r \in Requests : request_cache[r] \in Outcomes => request_cache[r] \in produced[r]
    /\ \A l \in Loops : loop[l].pc # "idle" =>
          /\ "received" \in produced[loop[l].req]
          /\ loop[l].cached \in Outcomes => loop[l].cached \in produced[loop[l].req]
    /\ \A r \in Requests : produced[r] # {} => "received" \in produced[r]

EvidenceInv == AskedInv /\ WireInv /\ JobsInv

LEMMA AskedStep == TypeOK /\ AskedInv /\ [Next]_vars => AskedInv'
<1> SUFFICES ASSUME TypeOK, AskedInv, [Next]_vars PROVE AskedInv'
  OBVIOUS
<1>1. ASSUME NEW x \in Requests, Ask(x) \/ AskerStep(x) \/ CallerGone(x) \/ Poll(x) \/ ResponseExpires(x)
      PROVE  AskedInv'
  <2>1. CASE Ask(x)
    BY <2>1 DEF Ask, GoTo, AskedInv, TypeOK, AbsentEntry
  <2>2. CASE Send(x) \/ SendError(x) \/ Retry(x) \/ CallerGone(x) \/ ResponseExpires(x)
    BY <2>2 DEF Send, SendError, Retry, CallerGone, ResponseExpires, GoTo, AfterAttempt, AskedInv, TypeOK
  <2>3. CASE Drop(x) \/ Poll(x)
    BY <2>3 DEF Drop, Poll, GoTo, AskedInv, TypeOK, AbsentEntry
  <2>4. CASE NoteHandoff(x)
    BY <2>4 DEF NoteHandoff, GoTo, AfterAttempt, AskedInv, TypeOK, HandoffStages
  <2>5. QED
    BY <1>1, <2>1, <2>2, <2>3, <2>4 DEF AskerStep
<1>2. ASSUME NEW l \in Loops, LoopStep(l)
      PROVE  AskedInv'
  BY <1>2 DEF LoopStep, Begin, SendReceipt, Dispatch, Finish, Reply, AskedInv, senderVars
<1>3. CASE OtherStep
  <2>1. ASSUME NEW place, NEW kind \in Replies, NEW x \in Requests, StoreReply(place, kind, x)
        PROVE  AskedInv'
    BY <2>1 DEF StoreReply, StoreResponse, StoreDeliveryEvent, NoteStage, NoteFailure,
                AskedInv, TypeOK
  <2>2. CASE RestartSender
    BY <2>2 DEF RestartSender, AskedInv, AbsentEntry
  <2>3. CASE \/ FetchReplies \/ FetchRequests \/ RestartReceiver
             \/ \E x \in Requests : CacheEntryExpires(x)
             \/ \E m \in Messages : Lose(m[1], m[2], m[3])
    BY <2>3 DEF FetchReplies, FetchRequests, RestartReceiver, CacheEntryExpires, Lose,
                senderVars, AskedInv
  <2>4. QED
    BY <1>3, <2>1, <2>2, <2>3 DEF OtherStep, Stored
<1>4. CASE UNCHANGED vars
  BY <1>4 DEF vars, senderVars, AskedInv
<1>5. QED
  BY <1>1, <1>2, <1>3, <1>4, StepCases

\* History only grows, a request taken in being the first thing to enter it.
LEMMA ProducedGrows ==
    ASSUME TypeOK, [Next]_vars, NEW r \in Requests
    PROVE  produced[r] \subseteq produced'[r]
<1>1. CASE produced' = produced
  BY <1>1
<1>2. ASSUME NEW l \in Loops, NEW x \in Requests, Begin(l, x)
      PROVE  produced[r] \subseteq produced'[r]
  BY <1>2 DEF Begin, TypeOK
<1>3. ASSUME NEW l \in Loops, NEW outcome \in Outcomes, Finish(l, outcome)
      PROVE  produced[r] \subseteq produced'[r]
  BY <1>3 DEF Finish, TypeOK
<1>4. ASSUME NEW l \in Loops, SendReceipt(l) \/ Dispatch(l) \/ Reply(l)
      PROVE  produced' = produced
  BY <1>4 DEF SendReceipt, Dispatch, Reply
<1>5. ASSUME OtherStep
      PROVE  produced' = produced
  BY <1>5 DEF OtherStep, Stored, StoreReply, FetchReplies, FetchRequests, CacheEntryExpires,
              Lose, RestartSender, RestartReceiver, receiverVars
<1>6. ASSUME NEW x \in Requests, Ask(x) \/ AskerStep(x) \/ CallerGone(x) \/ Poll(x) \/ ResponseExpires(x)
      PROVE  produced' = produced
  BY <1>6 DEF Ask, AskerStep, Send, SendError, Drop, NoteHandoff, Retry, CallerGone, Poll,
         ResponseExpires,
              receiverVars
<1>7. CASE UNCHANGED vars
  BY <1>7 DEF vars, receiverVars
<1>8. QED
  BY <1>1, <1>2, <1>3, <1>4, <1>5, <1>6, <1>7, StepCases DEF LoopStep

LEMMA JobsStep == TypeOK /\ JobsInv /\ [Next]_vars => JobsInv'
<1> SUFFICES ASSUME TypeOK, JobsInv, [Next]_vars PROVE JobsInv'
  OBVIOUS
<1>1. CASE UNCHANGED <<loop, request_cache, produced>>
  BY <1>1 DEF JobsInv
<1>2. ASSUME NEW l \in Loops, NEW x \in Requests, Begin(l, x)
      PROVE  JobsInv'
  <2>1. /\ loop' = [loop EXCEPT ![l] = [pc |-> "receipt", req |-> x, cached |-> Pruned[x]]]
        /\ request_cache' = [Pruned EXCEPT ![x] = IF Pruned[x] = "none" THEN "in_flight" ELSE Pruned[x]]
        /\ produced' = [produced EXCEPT ![x] = produced[x] \cup {"received"}]
    BY <1>2 DEF Begin
  <2>2. \A r \in Requests : Pruned[r] \in Outcomes => Pruned[r] = request_cache[r]
    BY DEF Pruned, Outcomes
  <2>3. \A r \in Requests : request_cache'[r] \in Outcomes => request_cache'[r] \in produced'[r]
    BY <2>1, <2>2 DEF JobsInv, TypeOK, Outcomes, Pruned
  <2>4. \A k \in Loops : loop'[k].pc # "idle" =>
          /\ "received" \in produced'[loop'[k].req]
          /\ loop'[k].cached \in Outcomes => loop'[k].cached \in produced'[loop'[k].req]
    <3>1. /\ "received" \in produced'[x]
          /\ Pruned[x] \in Outcomes => Pruned[x] \in produced'[x]
      BY <2>1, <2>2 DEF JobsInv, TypeOK
    <3>2. loop'[l].req = x /\ loop'[l].cached = Pruned[x]
      BY <2>1 DEF TypeOK
    <3>3. ASSUME NEW k \in Loops, k # l, loop[k].pc # "idle"
          PROVE  /\ loop'[k] = loop[k]
                 /\ produced[loop[k].req] \subseteq produced'[loop[k].req]
      <4>1. loop[k].req \in Requests
        BY <3>3 DEF TypeOK, Jobs, Idle
      <4>2. QED
        BY <2>1, <3>3, <4>1, ProducedGrows DEF TypeOK
    <3>4. QED
      BY <2>1, <3>1, <3>2, <3>3 DEF JobsInv, TypeOK
  <2>5. \A r \in Requests : produced'[r] # {} => "received" \in produced'[r]
    BY <2>1 DEF JobsInv, TypeOK
  <2>6. QED
    BY <2>3, <2>4, <2>5 DEF JobsInv
<1>3. ASSUME NEW l \in Loops, NEW outcome \in Outcomes, Finish(l, outcome)
      PROVE  JobsInv'
  <2> DEFINE x == loop[l].req
  <2>0. x \in Requests /\ loop[l] \in Jobs
    BY <1>3 DEF Finish, TypeOK, Jobs, Idle
  <2>1. /\ loop' = [loop EXCEPT ![l] = [loop[l] EXCEPT !.pc = "reply", !.cached = outcome]]
        /\ request_cache' = [Pruned EXCEPT ![x] = outcome]
        /\ produced' = [produced EXCEPT ![x] = produced[x] \cup {outcome}]
    BY <1>3, <2>0 DEF Finish, TypeOK
  <2>2. \A r \in Requests : Pruned[r] \in Outcomes => Pruned[r] = request_cache[r]
    BY DEF Pruned, Outcomes
  <2>3. \A r \in Requests : request_cache'[r] \in Outcomes => request_cache'[r] \in produced'[r]
    BY <2>0, <2>1, <2>2 DEF JobsInv, TypeOK, Outcomes, Pruned
  <2>4. \A k \in Loops : loop'[k].pc # "idle" =>
          /\ "received" \in produced'[loop'[k].req]
          /\ loop'[k].cached \in Outcomes => loop'[k].cached \in produced'[loop'[k].req]
    <3>1. "received" \in produced'[x] /\ outcome \in produced'[x]
      BY <1>3, <2>0, <2>1 DEF Finish, JobsInv, TypeOK
    <3>2. loop'[l].req = x /\ loop'[l].cached = outcome
      BY <2>0, <2>1 DEF TypeOK, Jobs
    <3>3. ASSUME NEW k \in Loops, k # l, loop[k].pc # "idle"
          PROVE  /\ loop'[k] = loop[k]
                 /\ produced[loop[k].req] \subseteq produced'[loop[k].req]
      <4>1. loop[k].req \in Requests
        BY <3>3 DEF TypeOK, Jobs, Idle
      <4>2. QED
        BY <2>1, <3>3, <4>1, ProducedGrows DEF TypeOK
    <3>4. QED
      BY <2>1, <3>1, <3>2, <3>3 DEF JobsInv, TypeOK
  <2>5. \A r \in Requests : produced'[r] # {} => "received" \in produced'[r]
    BY <1>3, <2>0, <2>1 DEF Finish, JobsInv, TypeOK
  <2>6. QED
    BY <2>3, <2>4, <2>5 DEF JobsInv
<1>4. ASSUME NEW l \in Loops, SendReceipt(l) \/ Dispatch(l) \/ Reply(l)
      PROVE  JobsInv'
  <2>1. UNCHANGED <<request_cache, produced>> /\ loop[l] \in Jobs /\ loop[l].pc # "idle"
    BY <1>4 DEF SendReceipt, Dispatch, Reply, TypeOK, Idle
  <2>2. \A k \in Loops : k # l => loop'[k] = loop[k]
    BY <1>4 DEF SendReceipt, Dispatch, Reply, TypeOK
  <2>3. loop'[l].pc = "idle" \/ (loop'[l].req = loop[l].req /\ loop'[l].cached = loop[l].cached)
    BY <1>4, <2>1 DEF SendReceipt, Dispatch, Reply, AfterReceipt, TypeOK, Idle, Jobs
  <2>4. QED
    BY <2>1, <2>2, <2>3 DEF JobsInv
<1>5. CASE RestartReceiver
  BY <1>5 DEF RestartReceiver, JobsInv, Idle, Outcomes
<1>6. ASSUME ~RestartReceiver, OtherStep
      PROVE  UNCHANGED <<loop, request_cache, produced>>
  BY <1>6 DEF OtherStep, Stored, StoreReply, FetchReplies, FetchRequests, CacheEntryExpires,
              Lose, RestartSender, receiverVars
<1>7. ASSUME NEW x \in Requests, Ask(x) \/ AskerStep(x) \/ CallerGone(x) \/ Poll(x) \/ ResponseExpires(x)
      PROVE  UNCHANGED <<loop, request_cache, produced>>
  BY <1>7 DEF Ask, AskerStep, Send, SendError, Drop, NoteHandoff, Retry, CallerGone, Poll,
         ResponseExpires,
              receiverVars
<1>8. CASE UNCHANGED vars
  BY <1>1, <1>8 DEF vars, receiverVars
<1>9. QED
  BY <1>1, <1>2, <1>3, <1>4, <1>5, <1>6, <1>7, <1>8, StepCases DEF LoopStep

\* Reply message m is a copy of one already under way, or tells of something done.
Grounded(m) ==
    \/ \E place \in {"wire", "mailbox", "batch"} : net[<<place, m[2], m[3]>>] > 0
    \/ Told(m[2]) \in produced[m[3]]

LEMMA WireStep == TypeOK /\ WireInv /\ JobsInv /\ [Next]_vars => WireInv'
<1> SUFFICES ASSUME TypeOK, WireInv, JobsInv, [Next]_vars,
                    NEW m \in Messages, m[2] \in Replies, net'[m] > 0
             PROVE  Told(m[2]) \in produced'[m[3]]
  BY DEF WireInv
<1>a. m = <<m[1], m[2], m[3]>> /\ m[1] \in {"wire", "mailbox", "batch"} /\ m[3] \in Requests
  BY DEF Messages
<1>b. SUFFICES Grounded(m)
  <2>1. ASSUME NEW place \in {"wire", "mailbox", "batch"}, net[<<place, m[2], m[3]>>] > 0
        PROVE  Told(m[2]) \in produced[m[3]]
    <3>1. <<place, m[2], m[3]>> \in Messages
      BY <1>a DEF Messages
    <3>2. QED
      BY <2>1, <3>1 DEF WireInv
  <2>2. QED
    BY <1>a, <2>1, ProducedGrows DEF Grounded
<1>c. net[m] \in Nat /\ (net[m] > 0 => Grounded(m))
  BY <1>a DEF TypeOK, Grounded
<1>1. CASE net' = net
  BY <1>1, <1>c
<1>2. ASSUME NEW places, NEW r \in Requests, PutAsk(places, r)
      PROVE  Grounded(m)
  BY <1>2, <1>c DEF PutAsk, Replies
<1>3. ASSUME NEW n \in Messages, Take(n)
      PROVE  Grounded(m)
  <2>1. net'[m] = net[m] \/ net'[m] = net[m] - 1
    BY <1>3 DEF Take, TypeOK
  <2>2. QED
    BY <2>1, <1>c
<1>4. ASSUME NEW kinds, Drain(kinds)
      PROVE  Grounded(m)
  BY <1>4, <1>a, <1>c DEF Drain, Grounded
<1>5. ASSUME NEW kinds, DropBatch(kinds)
      PROVE  Grounded(m)
  BY <1>5, <1>c DEF DropBatch
<1>6. ASSUME NEW kind \in Replies, NEW r \in Requests, Told(kind) \in produced[r],
             Transmit(kind, r)
      PROVE  Grounded(m)
  <2>1. CASE net' = net
    BY <2>1, <1>c
  <2>2. ASSUME NEW place \in {"wire", "mailbox"}, Put(<<place, kind, r>>)
        PROVE  Grounded(m)
    <3>1. CASE m = <<place, kind, r>>
      BY <1>6, <3>1 DEF Grounded
    <3>2. CASE m # <<place, kind, r>>
      BY <2>2, <3>2, <1>c DEF Put, TypeOK
    <3>3. QED
      BY <3>1, <3>2
  <2>3. QED
    BY <1>6, <2>1, <2>2 DEF Transmit
<1>7. ASSUME NEW x \in Requests, Ask(x) \/ AskerStep(x) \/ CallerGone(x) \/ Poll(x) \/ ResponseExpires(x)
      PROVE  Grounded(m)
  <2>1. CASE Send(x) \/ SendError(x)
    BY <2>1, <1>1, <1>2 DEF Send, SendError, network
  <2>2. CASE Ask(x) \/ Drop(x) \/ NoteHandoff(x) \/ Retry(x) \/ CallerGone(x) \/ Poll(x)
             \/ ResponseExpires(x)
    BY <2>2, <1>1 DEF Ask, Drop, NoteHandoff, Retry, CallerGone, Poll, ResponseExpires, network
  <2>3. QED
    BY <1>7, <2>1, <2>2 DEF AskerStep
<1>8. ASSUME NEW l \in Loops, LoopStep(l)
      PROVE  Grounded(m)
  <2>1. ASSUME NEW r \in Requests, Begin(l, r)
        PROVE  Grounded(m)
    <3>1. <<Inbox(l), "ask", r>> \in Messages
      BY DEF Messages, Inbox
    <3>2. QED
      BY <2>1, <3>1, <1>3 DEF Begin
  <2>2. ASSUME loop[l].pc # "idle"
        PROVE  loop[l] \in Jobs /\ loop[l].req \in Requests
    BY <2>2 DEF TypeOK, Idle, Jobs
  <2>3. CASE SendReceipt(l)
    BY <2>2, <2>3, <1>6 DEF SendReceipt, JobsInv, Told, Replies
  <2>4. CASE Reply(l)
    <3>1. /\ loop[l].cached \in Outcomes /\ loop[l].cached \in produced[loop[l].req]
          /\ loop[l].req \in Requests
      BY <2>2, <2>4 DEF Reply, JobsInv, Jobs
    <3>2. CASE loop[l].cached = "succeeded"
      BY <2>4, <3>1, <3>2, <1>6 DEF Reply, Told, Replies
    <3>3. CASE loop[l].cached = "failed"
      BY <2>4, <3>1, <3>3, <1>6 DEF Reply, Told, Replies
    <3>4. QED
      BY <3>1, <3>2, <3>3 DEF Outcomes
  <2>5. ASSUME Dispatch(l) \/ \E outcome \in Outcomes : Finish(l, outcome)
        PROVE  Grounded(m)
    BY <2>5, <1>1 DEF Dispatch, Finish, network
  <2>6. QED
    BY <1>8, <2>1, <2>3, <2>4, <2>5 DEF LoopStep
<1>9. CASE OtherStep
  <2>1. ASSUME NEW place \in {"wire", "batch"}, NEW kind \in Replies, NEW r \in Requests,
               StoreReply(place, kind, r)
        PROVE  Grounded(m)
    <3>1. <<place, kind, r>> \in Messages
      BY DEF Messages
    <3>2. QED
      BY <2>1, <3>1, <1>3 DEF StoreReply
  <2>2. ASSUME NEW n \in Messages, Lose(n[1], n[2], n[3])
        PROVE  Grounded(m)
    <3>1. <<n[1], n[2], n[3]>> \in Messages
      BY DEF Messages
    <3>2. QED
      BY <2>2, <3>1, <1>3 DEF Lose
  <2>3. CASE FetchReplies \/ FetchRequests
    BY <2>3, <1>4 DEF FetchReplies, FetchRequests
  <2>4. CASE RestartSender \/ RestartReceiver
    BY <2>4, <1>5 DEF RestartSender, RestartReceiver
  <2>5. ASSUME NEW r \in Requests, CacheEntryExpires(r)
        PROVE  Grounded(m)
    BY <2>5, <1>1 DEF CacheEntryExpires, network
  <2>6. QED
    BY <1>9, <2>1, <2>2, <2>3, <2>4, <2>5 DEF OtherStep, Stored
<1>10. CASE UNCHANGED vars
  BY <1>1, <1>10 DEF vars, network
<1>11. QED
  BY <1>7, <1>8, <1>9, <1>10, StepCases

\* Nothing reaches the sender's records that the receiver has not done.
LEMMA Evidenced == Spec => []EvidenceInv
<1>1. Init => EvidenceInv
  <2>1. Init => AskedInv
    BY DEF Init, AskedInv, AbsentEntry
  <2>2. Init => WireInv
    BY DEF Init, WireInv
  <2>3. Init => JobsInv
    BY DEF Init, JobsInv, Idle, Outcomes
  <2>4. QED
    BY <2>1, <2>2, <2>3 DEF EvidenceInv
<1>2. TypeOK /\ EvidenceInv /\ [Next]_vars => EvidenceInv'
  BY AskedStep, WireStep, JobsStep DEF EvidenceInv
<1>3. QED
  BY <1>1, <1>2, TypeCorrect, PTL DEF Spec

\* What may happen to a status, given what the peer has done.
Moves(s, t, done) ==
    \/ t = s
    \/ s = "none" /\ t = "pending_send"
    \/ /\ s \in Stages \ Terminal /\ t \in Stages
       /\ Ordinal(t) >= Ordinal(s)
       /\ t \in PeerReceipt => Lifecycle!Evidence(t) \in done
    \/ s = "processing_failed" /\ t = "processed_by_peer_runtime" /\ "succeeded" \in done
    \/ s \in Stages /\ t = "gone"

\* The abstract module reads the stages as the concrete one does.
LEMMA SameStages ==
    /\ Lifecycle!Stages = Stages /\ Lifecycle!Terminal = Terminal
    /\ Lifecycle!PeerReceipt = PeerReceipt
    /\ \A s : Lifecycle!Ordinal(s) = Ordinal(s)
  BY DEF Lifecycle!Stages, Lifecycle!HandoffStages, Lifecycle!PeerReceipt, Lifecycle!Terminal,
         Lifecycle!Ordinal, Stages, HandoffStages, PeerReceipt, Terminal, Ordinal

\* What the updates of an existing entry do to its stage.
LEMMA EntryMoves ==
    ASSUME NEW e \in Entries, e.stage # "absent", NEW done
    PROVE  /\ \A s \in HandoffStages :
                 NoteStage(e, s).stage # "absent" /\ Moves(e.stage, NoteStage(e, s).stage, done)
           /\ \A k \in Replies \ {"response"} : Told(k) \in done =>
                 /\ StoreDeliveryEvent(e, k).stage # "absent"
                 /\ Moves(e.stage, StoreDeliveryEvent(e, k).stage, done)
           /\ "succeeded" \in done =>
                 StoreResponse(e).stage # "absent" /\ Moves(e.stage, StoreResponse(e).stage, done)
<1>a. e.stage \in Stages
  BY DEF Entries
<1>b. \A s \in Stages : NoteStage(e, s).stage \in {e.stage, s}
                          /\ (NoteStage(e, s).stage # e.stage
                                => e.stage \notin Terminal /\ Ordinal(s) >= Ordinal(e.stage))
  <2>1. \A s \in Stages : Ordinal(s) \in Nat
    BY DEF Ordinal, Stages, PeerReceipt, HandoffStages, Terminal
  <2>2. QED
    BY <1>a, <2>1 DEF NoteStage, Entries
<1>1. ASSUME NEW s \in HandoffStages
      PROVE  NoteStage(e, s).stage # "absent" /\ Moves(e.stage, NoteStage(e, s).stage, done)
  <2>1. s \in Stages /\ s \notin PeerReceipt /\ s # "absent"
    BY DEF Stages, HandoffStages, PeerReceipt, Terminal
  <2>2. QED
    BY <1>a, <1>b, <2>1 DEF Moves
<1>2. ASSUME "received" \in done
      PROVE  /\ NoteStage(e, "received_by_peer_daemon").stage # "absent"
             /\ Moves(e.stage, NoteStage(e, "received_by_peer_daemon").stage, done)
  <2>1. /\ "received_by_peer_daemon" \in Stages
        /\ Lifecycle!Evidence("received_by_peer_daemon") = "received"
    BY DEF Stages, PeerReceipt, Lifecycle!Evidence
  <2>2. QED
    BY <1>a, <1>b, <1>2, <2>1 DEF Moves
<1>3. /\ Lifecycle!Evidence("processing_failed") = "failed"
      /\ Lifecycle!Evidence("processed_by_peer_runtime") = "succeeded"
      /\ \A s \in Terminal : s \in Stages /\ Ordinal(s) = 3
      /\ Ordinal(e.stage) \in {0, 1, 2, 3}
  BY <1>a DEF Lifecycle!Evidence, Ordinal, Terminal, Stages, PeerReceipt, HandoffStages
<1>4. ASSUME "failed" \in done
      PROVE  NoteFailure(e).stage # "absent" /\ Moves(e.stage, NoteFailure(e).stage, done)
  <2>1. NoteFailure(e).stage = IF e.stage = "processed_by_peer_runtime"
                               THEN e.stage ELSE "processing_failed"
    BY DEF NoteFailure, Entries
  <2>2. CASE e.stage \in Terminal
    BY <2>1, <2>2 DEF Moves, Terminal
  <2>3. CASE e.stage \notin Terminal
    BY <1>a, <1>3, <1>4, <2>1, <2>3 DEF Moves, Terminal
  <2>4. QED
    BY <2>2, <2>3
<1>5. ASSUME "succeeded" \in done
      PROVE  StoreResponse(e).stage # "absent" /\ Moves(e.stage, StoreResponse(e).stage, done)
  <2>1. StoreResponse(e).stage = "processed_by_peer_runtime"
    BY DEF StoreResponse
  <2>2. CASE e.stage \in Terminal
    BY <1>5, <2>1, <2>2 DEF Moves, Terminal
  <2>3. CASE e.stage \notin Terminal
    BY <1>a, <1>3, <1>5, <2>1, <2>3 DEF Moves, Terminal
  <2>4. QED
    BY <2>2, <2>3
<1>6. ASSUME NEW k \in Replies \ {"response"}, Told(k) \in done
      PROVE  /\ StoreDeliveryEvent(e, k).stage # "absent"
             /\ Moves(e.stage, StoreDeliveryEvent(e, k).stage, done)
  <2>1. CASE k = "received_by_peer_daemon"
    BY <1>2, <1>6, <2>1 DEF StoreDeliveryEvent, Told
  <2>2. CASE k = "processing_failed"
    BY <1>4, <1>6, <2>2 DEF StoreDeliveryEvent, Told
  <2>3. QED
    BY <2>1, <2>2 DEF Replies
<1>7. QED
  BY <1>1, <1>5, <1>6

\* What becomes of the status of a request that stays asked, or stays unasked.
LEMMA StatusMoves ==
    ASSUME TypeOK, AskedInv, NEW r \in Requests,
           asker'[r] = "idle" <=> asker[r] = "idle"
    PROVE  /\ responses'[r].stage = responses[r].stage
                => Moves(Status(r), Status(r)', produced[r])
           /\ responses'[r] = AbsentEntry => Moves(Status(r), Status(r)', produced[r])
           /\ (/\ responses[r].stage # "absent" /\ responses'[r].stage # "absent"
               /\ Moves(responses[r].stage, responses'[r].stage, produced[r]))
                => Moves(Status(r), Status(r)', produced[r])
<1>1. responses'[r].stage = responses[r].stage => Status(r)' = Status(r)
  BY DEF Status
<1>2. ASSUME responses'[r] = AbsentEntry
      PROVE  Status(r)' = Status(r) \/ (Status(r) \in Stages /\ Status(r)' = "gone")
  BY <1>2 DEF Status, AbsentEntry, AskedInv, TypeOK, Entries
<1>3. QED
  BY <1>1, <1>2 DEF Moves, Status

LEMMA StatusStep ==
    ASSUME TypeOK, EvidenceInv, [Next]_vars, NEW r \in Requests
    PROVE  Moves(Status(r), Status(r)', produced[r])
<1> USE DEF EvidenceInv
<1>a. responses[r] \in Entries
  BY DEF TypeOK
<1>1. CASE UNCHANGED <<asker, responses>>
  BY <1>1, StatusMoves
<1>2. ASSUME NEW x \in Requests, Ask(x) \/ AskerStep(x) \/ CallerGone(x) \/ Poll(x) \/ ResponseExpires(x)
      PROVE  Moves(Status(r), Status(r)', produced[r])
  <2>1. CASE Ask(x)
    <3>1. CASE r = x
      <4>1. Status(r) = "none"
        BY <2>1, <3>1 DEF Ask, Status, AskedInv
      <4>2. Status(r)' = "pending_send"
        BY <2>1, <3>1 DEF Ask, Status, NewEntry
      <4>3. QED
        BY <4>1, <4>2 DEF Moves
    <3>2. CASE r # x
      <4>1. asker'[r] = asker[r] /\ (responses'[r] = AbsentEntry \/ responses'[r] = responses[r])
        BY <2>1, <3>2 DEF Ask, GoTo, TypeOK
      <4>2. QED
        BY <4>1, StatusMoves
    <3>3. QED
      BY <3>1, <3>2
  <2>2. CASE Send(x) \/ SendError(x) \/ Retry(x) \/ CallerGone(x) \/ ResponseExpires(x)
    <3>1. responses' = responses /\ (asker'[r] = "idle" <=> asker[r] = "idle")
      BY <2>2 DEF Send, SendError, Retry, CallerGone, ResponseExpires, GoTo, AfterAttempt,
                  TypeOK, HandoffStages
    <3>2. QED
      BY <3>1, StatusMoves
  <2>3. CASE Drop(x) \/ Poll(x)
    <3>1. /\ responses'[r] = AbsentEntry \/ responses'[r] = responses[r]
          /\ asker'[r] = "idle" <=> asker[r] = "idle"
      BY <2>3 DEF Drop, Poll, GoTo, TypeOK
    <3>2. QED
      BY <3>1, StatusMoves
  <2>4. CASE NoteHandoff(x)
    <3>1. asker'[r] = "idle" <=> asker[r] = "idle"
      BY <2>4 DEF NoteHandoff, GoTo, AfterAttempt, TypeOK, HandoffStages
    <3>2. responses'[r] = responses[r]
            \/ (responses'[r] = NoteStage(responses[r], asker[r]) /\ asker[r] \in HandoffStages)
      BY <2>4 DEF NoteHandoff, TypeOK
    <3>3. responses[r].stage = "absent" => responses'[r] = responses[r]
      BY <3>2 DEF NoteStage
    <3>4. QED
      BY <1>a, <3>1, <3>2, <3>3, EntryMoves, StatusMoves
  <2>5. QED
    BY <1>2, <2>1, <2>2, <2>3, <2>4 DEF AskerStep
<1>3. ASSUME NEW l \in Loops, LoopStep(l)
      PROVE  UNCHANGED <<asker, responses>>
  BY <1>3 DEF LoopStep, Begin, SendReceipt, Dispatch, Finish, Reply, senderVars
<1>4. CASE OtherStep
  <2>1. ASSUME NEW place \in {"wire", "batch"}, NEW k \in Replies, NEW x \in Requests,
               StoreReply(place, k, x)
        PROVE  Moves(Status(r), Status(r)', produced[r])
    <3>1. Told(k) \in produced[x]
      <4>1. <<place, k, x>> \in Messages
        BY DEF Messages
      <4>2. QED
        BY <2>1, <4>1 DEF StoreReply, Take, WireInv
    <3>2. asker' = asker
      BY <2>1 DEF StoreReply
    <3>3. CASE r # x \/ responses[r].stage = "absent"
      <4>1. responses'[r] = responses[r]
        BY <2>1, <3>3 DEF StoreReply, StoreResponse, StoreDeliveryEvent, NoteStage,
                          NoteFailure, TypeOK
      <4>2. QED
        BY <3>2, <4>1, StatusMoves
    <3>4. CASE r = x /\ responses[r].stage # "absent"
      <4>1. responses'[r] = IF k = "response" THEN StoreResponse(responses[r])
                            ELSE StoreDeliveryEvent(responses[r], k)
        BY <2>1, <3>4 DEF StoreReply, TypeOK
      <4>2. k = "response" => "succeeded" \in produced[r]
        BY <3>1, <3>4 DEF Told
      <4>3. QED
        BY <1>a, <3>1, <3>2, <3>4, <4>1, <4>2, EntryMoves, StatusMoves
    <3>5. QED
      BY <3>3, <3>4
  <2>2. CASE RestartSender
    <3>1. responses'[r] = AbsentEntry
      BY <2>2 DEF RestartSender
    <3>2. asker[r] \in {"idle", "refused"} => asker'[r] = asker[r]
      BY <2>2 DEF RestartSender, Returned, HandoffStages
    <3>3. asker[r] \notin {"idle", "refused"} => asker'[r] \in {"done", "abandoned"}
      BY <2>2 DEF RestartSender
    <3>4. asker'[r] = "idle" <=> asker[r] = "idle"
      BY <3>2, <3>3
    <3>5. QED
      BY <3>1, <3>4, StatusMoves
  <2>3. ASSUME \/ FetchReplies \/ FetchRequests \/ RestartReceiver
               \/ \E x \in Requests : CacheEntryExpires(x)
               \/ \E m \in Messages : Lose(m[1], m[2], m[3])
        PROVE  UNCHANGED <<asker, responses>>
    BY <2>3 DEF FetchReplies, FetchRequests, RestartReceiver, CacheEntryExpires, Lose, senderVars
  <2>4. QED
    BY <1>1, <1>4, <2>1, <2>2, <2>3 DEF OtherStep, Stored
<1>5. CASE UNCHANGED vars
  BY <1>1, <1>5 DEF vars, senderVars
<1>6. QED
  BY <1>1, <1>2, <1>3, <1>4, <1>5, StepCases

LEMMA LifecycleStep ==
    TypeOK /\ TypeOK' /\ EvidenceInv /\ EvidenceInv' /\ [Next]_vars
        => [Lifecycle!Next]_(Lifecycle!vars)
<1> SUFFICES ASSUME TypeOK, TypeOK', EvidenceInv, EvidenceInv', [Next]_vars
             PROVE  Lifecycle!Next
  OBVIOUS
<1>1. \A r \in Requests : Moves(Status(r), Status(r)', produced[r])
  BY StatusStep
<1>2. \A r \in Requests : produced'[r] = produced[r] \/ Lifecycle!PeerStep(r)
  BY ProducedGrows DEF EvidenceInv, JobsInv, TypeOK, Lifecycle!PeerStep, Outcomes
<1>3. produced' = [r \in Requests |-> produced'[r]]
  BY DEF TypeOK
<1>4. ASSUME NEW r \in Requests
      PROVE  \/ Status(r)' = Status(r)
             \/ Lifecycle!Accept(r) \/ Lifecycle!Progress(r)
             \/ Lifecycle!Recover(r) \/ Lifecycle!Forget(r)
  BY <1>1, SameStages
     DEF Moves, Lifecycle!Accept, Lifecycle!Progress, Lifecycle!Recover, Lifecycle!Forget
<1>5. QED
  BY <1>2, <1>3, <1>4 DEF Lifecycle!Next

\* The whole exchange, with its queues, retries, cache, losses and restarts, implements
\* what `ask` promises: statuses only move forward, on evidence of what the peer did.
THEOREM DeliveryImplementsLifecycle == Spec => ImplementsLifecycle
<1>1. Init => Lifecycle!Init
  BY DEF Init, Lifecycle!Init, Status, AbsentEntry
<1>2. QED
  BY <1>1, LifecycleStep, TypeCorrect, Evidenced, PTL
     DEF Spec, ImplementsLifecycle, Lifecycle!Spec

=============================================================================
