------------------------------ MODULE MailboxProofs ------------------------------
(***************************************************************************)
(* Theorems about Mailbox, for any nodes, requests, fetches and bound.     *)
(***************************************************************************)
EXTENDS Mailbox, FiniteSetTheorems, FunctionTheorems, SequenceTheorems, TLAPS

-----------------------------------------------------------------------------
(* The transactions' bookkeeping keeps its types. *)

LEMMA RecordsTyped ==
    /\ Unsent \in ReqStates /\ Idle \in FetchStates
    /\ \A phase \in Phases : Ended(phase) \in ReqStates
  BY DEF Unsent, Idle, Ended, ReqStates, FetchStates, Phases, Kinds, Steps

LEMMA StaleTyped ==
    ASSUME TypeOK
    PROVE  /\ StaleRequests(Requests) \in [Requests -> ReqStates]
           /\ StaleFetches(Fetches) \in [Fetches -> FetchStates]
           /\ \A r \in Requests :
                /\ StaleRequests(Requests)[r].fresh = FALSE
                /\ StaleRequests(Requests)[r] = [req[r] EXCEPT !.fresh = FALSE]
           /\ \A f \in Fetches :
                StaleFetches(Fetches)[f] = [fetch[f] EXCEPT !.fresh = FALSE]
<1>1. \A r \in Requests : /\ [req[r] EXCEPT !.fresh = FALSE] \in ReqStates
                          /\ [req[r] EXCEPT !.fresh = FALSE].fresh = FALSE
  BY DEF TypeOK, ReqStates
<1>2. \A f \in Fetches : [fetch[f] EXCEPT !.fresh = FALSE] \in FetchStates
  BY DEF TypeOK, FetchStates
<1>3. QED
  BY <1>1, <1>2 DEF StaleRequests, StaleFetches

\* Losing freshness leaves the rest of a record as it was.
LEMMA StaleFields ==
    ASSUME TypeOK
    PROVE  /\ \A f \in Fetches : StaleFetches(Fetches)[f].rows = fetch[f].rows
           /\ \A f \in Fetches :
                [StaleFetches(Fetches)[f] EXCEPT !.step = "drained", !.fresh = FALSE].rows
                  = fetch[f].rows
           /\ \A r \in Requests :
                [StaleRequests(Requests)[r] EXCEPT !.phase = "committed", !.fresh = FALSE].fresh
                  = FALSE
<1>1. \A f \in Fetches : fetch[f] \in FetchStates
  BY DEF TypeOK
<1>2. \A r \in Requests : StaleRequests(Requests)[r] \in ReqStates
  BY StaleTyped
<1>3. QED
  BY <1>1, <1>2, StaleTyped DEF FetchStates, ReqStates

LEMMA NewRowsTyped ==
    ASSUME TypeOK, NEW r \in Requests
    PROVE  NewRows(r) \subseteq Rows
  BY DEF TypeOK, NewRows, Rows, ReqStates

\* What an answer lists is a sequence of the rows it drained.
LEMMA InOrderTyped ==
    ASSUME NEW rows \in SUBSET Rows, IsFiniteSet(rows), NEW s \in InOrder(rows)
    PROVE  s \in Seq(Rows)
<1>1. Cardinality(rows) \in Nat
  BY FS_CardinalityType
<1>2. s \in [1..Cardinality(rows) -> rows]
  BY DEF InOrder, SetToSeqs
<1>3. QED
  BY <1>1, <1>2

-----------------------------------------------------------------------------
(* The invariant *)

\* Every set of rows is finite, so that it can be counted and listed.
FiniteInv ==
    /\ IsFiniteSet(mailbox)
    /\ \A f \in Fetches : IsFiniteSet(fetch[f].rows)

\* A count that is still of the current snapshot is the current count.
RoomInv ==
    \A r \in Requests :
        req[r].phase = "reading" /\ req[r].fresh =>
            \A n \in req[r].room : Cardinality(Queue(n)) < MaxMailbox

IInv == TypeOK /\ FiniteInv /\ RoomInv /\ MailboxBounded

LEMMA InitIInv == Init => IInv
<1> SUFFICES ASSUME Init PROVE IInv
  OBVIOUS
<1>1. TypeOK
  BY RecordsTyped DEF Init, TypeOK
<1>2. FiniteInv
  BY FS_EmptySet DEF Init, FiniteInv, Idle
<1>3. RoomInv
  BY DEF Init, RoomInv, Unsent
<1>4. MailboxBounded
  <2>1. \A n \in Nodes : Queue(n) = {}
    BY DEF Init, Queue
  <2>2. QED
    BY <2>1, FS_EmptySet, MaxMailboxAssumption DEF MailboxBounded
<1>5. QED
  BY <1>1, <1>2, <1>3, <1>4 DEF IInv

-----------------------------------------------------------------------------
(* Type correctness *)

LEMMA StepTypeOK == IInv /\ [Next]_vars => TypeOK'
<1> SUFFICES ASSUME IInv, [Next]_vars PROVE TypeOK'
  OBVIOUS
<1> USE DEF IInv
<1>1. ASSUME NEW r \in Requests, Accept(r) PROVE TypeOK'
  <2>1. PICK input \in Inputs :
          req' = [req EXCEPT ![r] =
                    IF input.kind = "broadcast" /\ input.from \notin Members
                    THEN Ended("refused")
                    ELSE [Unsent EXCEPT !.phase = "accepted", !.kind = input.kind,
                                        !.from = input.from, !.targets = input.targets,
                                        !.at = IF input.kind = "relay"
                                               THEN clock + 1 ELSE 0]]
    BY <1>1 DEF Accept
  <2> DEFINE at == IF input.kind = "relay" THEN clock + 1 ELSE 0
  <2>0. at \in Nat
    BY DEF TypeOK
  <2> HIDE DEF at
  <2>2. [Unsent EXCEPT !.phase = "accepted", !.kind = input.kind, !.from = input.from,
                       !.targets = input.targets, !.at = at] \in ReqStates
    BY <2>0, InputsAssumption DEF Unsent, ReqStates, Phases, TypeOK
  <2>3. Ended("refused") \in ReqStates
    BY RecordsTyped DEF Phases
  <2>4. req' \in [Requests -> ReqStates]
    BY <2>1, <2>2, <2>3 DEF TypeOK, at
  <2>5. before' \subseteq Requests \X Requests
    BY <1>1 DEF Accept, TypeOK
  <2>6. QED
    BY <1>1, <2>4, <2>5 DEF Accept, TypeOK
<1>2. ASSUME NEW r \in Requests, ReadCounts(r) PROVE TypeOK'
  <2>1. Room(Recipients(r)) \subseteq Nodes
    BY DEF TypeOK, ReqStates, Room, Recipients
  <2>5. req[r].kind = "broadcast" => req[r].from \notin Room(Recipients(r))
    BY DEF Room, Recipients
  <2>2. [req[r] EXCEPT !.phase = "reading", !.fresh = TRUE, !.room = Room(Recipients(r))]
          \in ReqStates
    <3> DEFINE room == Room(Recipients(r))
    <3>1. room \subseteq Nodes /\ (req[r].kind = "broadcast" => req[r].from \notin room)
      BY <2>1, <2>5
    <3> HIDE DEF room
    <3>2. [req[r] EXCEPT !.phase = "reading", !.fresh = TRUE, !.room = room] \in ReqStates
      BY <3>1 DEF TypeOK, ReqStates, Phases
    <3>3. QED
      BY <3>2 DEF room
  <2>3. req' = [req EXCEPT ![r] = [req[r] EXCEPT !.phase = "reading", !.fresh = TRUE,
                                                 !.room = Room(Recipients(r))]]
    BY <1>2 DEF ReadCounts, TypeOK
  <2>4. QED
    BY <1>2, <2>2, <2>3 DEF ReadCounts, TypeOK
<1>3. ASSUME NEW r \in Requests, Insert(r) PROVE TypeOK'
  <2>1. req' = [StaleRequests(Requests) EXCEPT
                  ![r] = [StaleRequests(Requests)[r] EXCEPT !.phase = "committed",
                                                            !.fresh = FALSE]]
    BY <1>3, StaleTyped DEF Insert
  <2>2. [StaleRequests(Requests)[r] EXCEPT !.phase = "committed", !.fresh = FALSE]
          \in ReqStates
    <3>1. StaleRequests(Requests)[r] \in ReqStates
      BY StaleTyped
    <3>2. QED
      BY <3>1 DEF ReqStates, Phases
  <2>3. req' \in [Requests -> ReqStates]
    BY <2>1, <2>2, StaleTyped
  <2>4. QED
    BY <1>3, <2>3, StaleTyped, NewRowsTyped DEF Insert, TypeOK
<1>4. ASSUME NEW r \in Requests, NoRoom(r) \/ Fails(r) PROVE TypeOK'
  BY <1>4, RecordsTyped DEF NoRoom, Fails, TypeOK, Phases
<1>5. ASSUME NEW r \in Requests, Answer(r) PROVE TypeOK'
  <2>1. [req[r] EXCEPT !.phase = "queued"] \in ReqStates
    BY DEF TypeOK, ReqStates, Phases
  <2>2. req' = [req EXCEPT ![r] = [req[r] EXCEPT !.phase = "queued"]]
    BY <1>5 DEF Answer, TypeOK
  <2>3. QED
    BY <1>5, <2>1, <2>2 DEF Answer, TypeOK
<1>6. ASSUME NEW f \in Fetches, NEW n \in Pollers, AskFetch(f, n) PROVE TypeOK'
  <2>1. [Idle EXCEPT !.step = "asked", !.node = n, !.awaited = TRUE] \in FetchStates
    BY NodesAssumption DEF Idle, FetchStates, Steps
  <2>2. QED
    BY <1>6, <2>1 DEF AskFetch, TypeOK
<1>7. ASSUME NEW f \in Fetches, ReadRows(f) PROVE TypeOK'
  <2>1. [fetch[f] EXCEPT !.step = "reading", !.fresh = TRUE, !.rows = Queue(fetch[f].node)]
          \in FetchStates
    BY DEF TypeOK, FetchStates, Steps, Queue
  <2>2. fetch' = [fetch EXCEPT ![f] = [fetch[f] EXCEPT !.step = "reading", !.fresh = TRUE,
                                                       !.rows = Queue(fetch[f].node)]]
    BY <1>7 DEF ReadRows, TypeOK
  <2>3. QED
    BY <1>7, <2>1, <2>2 DEF ReadRows, TypeOK
<1>8. ASSUME NEW f \in Fetches, Drain(f) PROVE TypeOK'
  <2>1. CASE fetch[f].rows = {}
    <3>1. [fetch[f] EXCEPT !.step = "drained", !.fresh = FALSE] \in FetchStates
      BY DEF TypeOK, FetchStates, Steps
    <3>2. fetch' = [fetch EXCEPT ![f] = [fetch[f] EXCEPT !.step = "drained",
                                                         !.fresh = FALSE]]
      BY <1>8, <2>1 DEF Drain, TypeOK
    <3>3. QED
      BY <1>8, <2>1, <3>1, <3>2 DEF Drain, TypeOK
  <2>2. CASE fetch[f].rows # {}
    <3>1. fetch' = [StaleFetches(Fetches) EXCEPT
                      ![f] = [StaleFetches(Fetches)[f] EXCEPT !.step = "drained",
                                                              !.fresh = FALSE]]
      BY <1>8, <2>2, StaleTyped DEF Drain
    <3>2. [StaleFetches(Fetches)[f] EXCEPT !.step = "drained", !.fresh = FALSE]
            \in FetchStates
      <4>1. StaleFetches(Fetches)[f] \in FetchStates
        BY StaleTyped
      <4>2. QED
        BY <4>1 DEF FetchStates, Steps
    <3>3. fetch' \in [Fetches -> FetchStates]
      BY <3>1, <3>2, StaleTyped
    <3>4. QED
      BY <1>8, <2>2, <3>3, StaleTyped DEF Drain, TypeOK
  <2>3. QED
    BY <2>1, <2>2
<1>9. ASSUME NEW f \in Fetches, Received(f) PROVE TypeOK'
  <2>1. PICK s \in InOrder(fetch[f].rows) :
          got' = [got EXCEPT ![fetch[f].node] = got[fetch[f].node] \o s]
    BY <1>9 DEF Received
  <2>2. s \in Seq(Rows)
    BY InOrderTyped DEF TypeOK, FiniteInv, FetchStates
  <2>3. got' \in [Nodes -> Seq(Rows)]
    <3>1. ASSUME fetch[f].node \in Nodes
          PROVE  got[fetch[f].node] \o s \in Seq(Rows)
      BY <3>1, <2>2 DEF TypeOK
    <3>2. QED
      BY <2>1, <3>1 DEF TypeOK
  <2>4. QED
    BY <1>9, <2>3, RecordsTyped DEF Received, TypeOK
<1>10. ASSUME NEW f \in Fetches, Abandon(f) PROVE TypeOK'
  <2>1. [fetch[f] EXCEPT !.awaited = FALSE] \in FetchStates
    BY DEF TypeOK, FetchStates
  <2>2. fetch' = [fetch EXCEPT ![f] = [fetch[f] EXCEPT !.awaited = FALSE]]
    BY <1>10 DEF Abandon, TypeOK
  <2>3. QED
    BY <1>10, <2>1, <2>2 DEF Abandon, TypeOK
<1>11. ASSUME NEW f \in Fetches, Unheard(f) \/ FetchFails(f) PROVE TypeOK'
  BY <1>11, RecordsTyped DEF Unheard, FetchFails, TypeOK, FetchStates
<1>12. ASSUME Crash PROVE TypeOK'
  <2>1. req' \in [Requests -> ReqStates]
    BY <1>12, RecordsTyped DEF Crash, TypeOK, Phases
  <2>2. lost' \subseteq Rows
    BY <1>12 DEF Crash, TypeOK, FetchStates
  <2>3. fetch' \in [Fetches -> FetchStates]
    BY <1>12, RecordsTyped DEF Crash
  <2>4. QED
    BY <1>12, <2>1, <2>2, <2>3 DEF Crash, TypeOK
<1>13. CASE UNCHANGED vars
  BY <1>13 DEF vars, TypeOK
<1>14. QED
  BY <1>1, <1>2, <1>3, <1>4, <1>5, <1>6, <1>7, <1>8, <1>9, <1>10, <1>11, <1>12, <1>13
  DEF Next, RequestStep, FetchStep

-----------------------------------------------------------------------------
(* The bound *)

LEMMA StepFiniteInv == IInv /\ [Next]_vars => FiniteInv'
<1> SUFFICES ASSUME IInv, [Next]_vars PROVE FiniteInv'
  OBVIOUS
<1> USE DEF IInv
<1>1. ASSUME NEW r \in Requests, Insert(r) PROVE FiniteInv'
  <2>1. IsFiniteSet(req[r].room)
    BY FS_Subset, InputsAssumption DEF TypeOK, ReqStates
  <2>2. IsFiniteSet(NewRows(r))
    <3> DEFINE Row(n) == [request |-> r, target |-> n,
                          at |-> IF req[r].kind = "relay" THEN req[r].at ELSE clock]
               row == [n \in req[r].room |-> Row(n)]
    <3>1. row \in Surjection(req[r].room, NewRows(r))
      BY DEF Surjection, NewRows
    <3>2. QED
      BY <2>1, <3>1, FS_Surjection
  <2>3. IsFiniteSet(mailbox')
    BY <1>1, <2>2, FS_Union DEF Insert, FiniteInv
  <2>4. \A f \in Fetches : fetch'[f].rows = fetch[f].rows
    BY <1>1, StaleFields DEF Insert
  <2>5. QED
    BY <2>3, <2>4 DEF FiniteInv
<1>2. ASSUME NEW f \in Fetches, ReadRows(f) PROVE FiniteInv'
  <2>1. IsFiniteSet(Queue(fetch[f].node))
    BY FS_Subset DEF FiniteInv, Queue
  <2>2. QED
    BY <1>2, <2>1 DEF ReadRows, FiniteInv, TypeOK, FetchStates
<1>3. ASSUME NEW f \in Fetches, Drain(f) PROVE FiniteInv'
  <2>1. IsFiniteSet(mailbox')
    BY <1>3, FS_Subset DEF Drain, FiniteInv
  <2>2. \A g \in Fetches : fetch'[g].rows = fetch[g].rows
    <3>1. CASE fetch[f].rows = {}
      BY <1>3, <3>1 DEF Drain, TypeOK, FetchStates
    <3>2. CASE fetch[f].rows # {}
      <4>1. fetch' = [StaleFetches(Fetches) EXCEPT
                        ![f] = [StaleFetches(Fetches)[f] EXCEPT !.step = "drained",
                                                                !.fresh = FALSE]]
        BY <1>3, <3>2, StaleTyped DEF Drain
      <4>2. QED
        BY <4>1, StaleTyped, StaleFields
    <3>3. QED
      BY <3>1, <3>2
  <2>3. QED
    BY <2>1, <2>2 DEF FiniteInv
<1>4. ASSUME NEW f \in Fetches, NEW n \in Pollers, AskFetch(f, n) PROVE FiniteInv'
  <2>1. [Idle EXCEPT !.step = "asked", !.node = n, !.awaited = TRUE].rows = {}
    BY DEF Idle
  <2>2. QED
    BY <1>4, <2>1, FS_EmptySet DEF AskFetch, FiniteInv, TypeOK
<1>5. ASSUME NEW f \in Fetches, Received(f) \/ Unheard(f) \/ FetchFails(f) PROVE FiniteInv'
  <2>1. /\ fetch' = [fetch EXCEPT ![f] = Idle]
        /\ mailbox' = mailbox
    BY <1>5 DEF Received, Unheard, FetchFails
  <2>2. Idle.rows = {}
    BY DEF Idle
  <2>3. QED
    BY <2>1, <2>2, FS_EmptySet DEF FiniteInv, TypeOK
<1>6. ASSUME NEW f \in Fetches, Abandon(f) PROVE FiniteInv'
  BY <1>6 DEF Abandon, FiniteInv, TypeOK, FetchStates
<1>7. ASSUME NEW r \in Requests,
             Accept(r) \/ ReadCounts(r) \/ NoRoom(r) \/ Fails(r) \/ Answer(r)
      PROVE  FiniteInv'
  BY <1>7 DEF Accept, ReadCounts, NoRoom, Fails, Answer, FiniteInv
<1>8. ASSUME Crash PROVE FiniteInv'
  BY <1>8, FS_EmptySet DEF Crash, FiniteInv, Idle
<1>9. CASE UNCHANGED vars
  BY <1>9 DEF vars, FiniteInv
<1>10. QED
  BY <1>1, <1>2, <1>3, <1>4, <1>5, <1>6, <1>7, <1>8, <1>9 DEF Next, RequestStep, FetchStep

\* A queue that only lost rows is no longer than it was.
LEMMA QueueShrinks ==
    ASSUME FiniteInv, mailbox' \subseteq mailbox, NEW n
    PROVE  /\ Cardinality(Queue(n)') <= Cardinality(Queue(n))
           /\ Cardinality(Queue(n)') \in Nat /\ Cardinality(Queue(n)) \in Nat
<1>1. IsFiniteSet(Queue(n)) /\ Queue(n)' \subseteq Queue(n)
  BY FS_Subset DEF FiniteInv, Queue
<1>2. QED
  BY <1>1, FS_Subset, FS_CardinalityType

\* An insert adds at most one row to a queue, and none to a queue outside `room`.
LEMMA QueueGrows ==
    ASSUME IInv, NEW r \in Requests, Insert(r), NEW n \in Nodes
    PROVE  /\ n \notin req[r].room => Queue(n)' = Queue(n)
           /\ Cardinality(Queue(n)') <= Cardinality(Queue(n)) + 1
           /\ Cardinality(Queue(n)') \in Nat /\ Cardinality(Queue(n)) \in Nat
<1> DEFINE row == [request |-> r, target |-> n,
                   at |-> IF req[r].kind = "relay" THEN req[r].at ELSE clock]
<1>1. n \in req[r].room => Queue(n)' = Queue(n) \cup {row}
  BY DEF Insert, Queue, NewRows
<1>2. n \notin req[r].room => Queue(n)' = Queue(n)
  BY DEF Insert, Queue, NewRows
<1>3. IsFiniteSet(Queue(n))
  BY FS_Subset DEF IInv, FiniteInv, Queue
<1>4. IsFiniteSet(Queue(n)') /\ Cardinality(Queue(n)') <= Cardinality(Queue(n)) + 1
  <2>1. /\ IsFiniteSet(Queue(n) \cup {row})
        /\ Cardinality(Queue(n) \cup {row}) =
             IF row \in Queue(n) THEN Cardinality(Queue(n)) ELSE Cardinality(Queue(n)) + 1
    BY <1>3, FS_AddElement
  <2>2. QED
    <3>1. CASE n \in req[r].room
      <4>1. Cardinality(Queue(n)) \in Nat
        BY <1>3, FS_CardinalityType
      <4> DEFINE card == Cardinality(Queue(n))
      <4> HIDE DEF card, row
      <4>2. \A k \in Nat : k <= k + 1 /\ k + 1 <= k + 1
        OBVIOUS
      <4>3. (IF row \in Queue(n) THEN card ELSE card + 1) <= card + 1
        BY <4>1, <4>2 DEF card
      <4>4. QED
        BY <1>1, <2>1, <3>1, <4>3 DEF card
    <3>2. CASE n \notin req[r].room
      <4>1. Cardinality(Queue(n)) \in Nat
        BY <1>3, FS_CardinalityType
      <4>2. Cardinality(Queue(n)) <= Cardinality(Queue(n)) + 1
        BY <4>1
      <4>3. QED
        BY <1>2, <3>2, <1>3, <4>2
    <3>3. QED
      BY <3>1, <3>2
<1>5. QED
  BY <1>2, <1>3, <1>4, FS_CardinalityType

\* Only a new count or an unchanged mailbox keeps a transaction fresh.
LEMMA StepRoomInv == IInv /\ [Next]_vars => RoomInv'
<1> SUFFICES ASSUME IInv, [Next]_vars PROVE RoomInv'
  OBVIOUS
<1> USE DEF IInv
<1>1. ASSUME NEW r \in Requests, ReadCounts(r) PROVE RoomInv'
  <2>1. \A n \in Nodes : Queue(n)' = Queue(n)
    BY <1>1 DEF ReadCounts, Queue
  <2>2. \A n \in Room(Recipients(r)) : Cardinality(Queue(n)) < MaxMailbox
    BY DEF Room
  <2>3. Room(Recipients(r)) \subseteq Nodes
    BY DEF TypeOK, ReqStates, Room, Recipients
  <2>4. /\ req'[r].room = Room(Recipients(r))
        /\ \A q \in Requests \ {r} : req'[q] = req[q]
    BY <1>1 DEF ReadCounts, TypeOK, ReqStates
  <2>5. ASSUME NEW q \in Requests, req'[q].phase = "reading", req'[q].fresh,
               NEW n \in req'[q].room
        PROVE  Cardinality(Queue(n)') < MaxMailbox
    <3>1. CASE q = r
      BY <2>1, <2>2, <2>3, <2>4, <2>5, <3>1
    <3>2. CASE q # r
      <4>1. /\ n \in Nodes /\ req[q].phase = "reading"
            /\ req[q].fresh /\ n \in req[q].room
        BY <2>4, <2>5, <3>2 DEF TypeOK, ReqStates
      <4>2. QED
        BY <2>1, <4>1 DEF RoomInv
    <3>3. QED
      BY <3>1, <3>2
  <2>6. QED
    BY <2>5 DEF RoomInv
<1>2. ASSUME NEW r \in Requests, Insert(r) PROVE RoomInv'
  <2>1. \A q \in Requests : req'[q].fresh = FALSE
    <3>1. req' = [StaleRequests(Requests) EXCEPT
                    ![r] = [StaleRequests(Requests)[r] EXCEPT !.phase = "committed",
                                                              !.fresh = FALSE]]
      BY <1>2, StaleTyped DEF Insert
    <3>2. QED
      BY <3>1, StaleTyped, StaleFields
  <2>2. QED
    BY <2>1 DEF RoomInv
<1>3. ASSUME NEW f \in Fetches, Drain(f) PROVE RoomInv'
  <2>1. CASE fetch[f].rows = {}
    BY <1>3, <2>1 DEF Drain, RoomInv, Queue
  <2>2. CASE fetch[f].rows # {}
    BY <1>3, <2>2, StaleTyped DEF Drain, RoomInv
  <2>3. QED
    BY <2>1, <2>2
<1>4. ASSUME NEW r \in Requests, Accept(r) PROVE RoomInv'
  <2>1. /\ req'[r].phase \in {"refused", "accepted"}
        /\ \A q \in Requests \ {r} : req'[q] = req[q]
    BY <1>4 DEF Accept, TypeOK, Unsent, Ended
  <2>2. mailbox' = mailbox
    BY <1>4 DEF Accept
  <2>3. QED
    BY <2>1, <2>2 DEF RoomInv, Queue
<1>5. ASSUME NEW r \in Requests, NoRoom(r) \/ Fails(r) \/ Answer(r) PROVE RoomInv'
  <2>1. /\ req'[r].phase # "reading"
        /\ \A q \in Requests \ {r} : req'[q] = req[q]
    BY <1>5 DEF NoRoom, Fails, Answer, TypeOK, ReqStates, Ended, Unsent
  <2>2. mailbox' = mailbox
    BY <1>5 DEF NoRoom, Fails, Answer
  <2>3. QED
    BY <2>1, <2>2 DEF RoomInv, Queue
<1>6. ASSUME NEW f \in Fetches,
             \/ \E n \in Pollers : AskFetch(f, n)
             \/ ReadRows(f) \/ Received(f) \/ Abandon(f) \/ Unheard(f) \/ FetchFails(f)
      PROVE  RoomInv'
  BY <1>6 DEF AskFetch, ReadRows, Received, Abandon, Unheard, FetchFails, RoomInv, Queue
<1>7. ASSUME Crash PROVE RoomInv'
  <2>1. \A q \in Requests : req'[q].phase = "reading" => FALSE
    BY <1>7 DEF Crash, Ended, Unsent, Phases
  <2>2. QED
    BY <2>1 DEF RoomInv
<1>8. CASE UNCHANGED vars
  BY <1>8 DEF vars, RoomInv, Queue
<1>9. QED
  BY <1>1, <1>2, <1>3, <1>4, <1>5, <1>6, <1>7, <1>8 DEF Next, RequestStep, FetchStep

LEMMA StepBounded == IInv /\ [Next]_vars => MailboxBounded'
<1> SUFFICES ASSUME IInv, [Next]_vars, NEW n \in Nodes
             PROVE  Cardinality(Queue(n)') <= MaxMailbox
  BY DEF MailboxBounded, Queue
<1>1. Cardinality(Queue(n)) <= MaxMailbox
  BY DEF IInv, MailboxBounded
<1>2. ASSUME NEW r \in Requests, Insert(r)
      PROVE  Cardinality(Queue(n)') <= MaxMailbox
  <2>1. n \in req[r].room => Cardinality(Queue(n)) < MaxMailbox
    BY <1>2 DEF IInv, RoomInv, Insert
  <2>2. QED
    BY <1>1, <1>2, <2>1, QueueGrows, MaxMailboxAssumption
<1>3. ASSUME mailbox' \subseteq mailbox
      PROVE  Cardinality(Queue(n)') <= MaxMailbox
  BY <1>1, <1>3, QueueShrinks, MaxMailboxAssumption DEF IInv
<1>4. (\E r \in Requests : Insert(r)) \/ mailbox' \subseteq mailbox
  BY DEF Next, RequestStep, FetchStep, Accept, ReadCounts, NoRoom, Fails, Answer, AskFetch,
         ReadRows, Drain, Received, Abandon, Unheard, FetchFails, Crash, vars
<1>5. QED
  BY <1>2, <1>3, <1>4

LEMMA Invariance == Spec => []IInv
<1>1. IInv /\ [Next]_vars => IInv'
  BY StepTypeOK, StepFiniteInv, StepRoomInv, StepBounded DEF IInv
<1>2. QED
  BY InitIInv, <1>1, PTL DEF Spec

\* The server's rows and handlers, and what the poll loops receive, keep their types.
THEOREM TypeCorrect == Spec => []TypeOK
<1>1. IInv => TypeOK
  BY DEF IInv
<1>2. QED
  BY Invariance, <1>1, PTL

\* However many relays and broadcasts count a node's queue at once, the queue never
\* exceeds MAX_MAILBOX_PER_NODE.
THEOREM QueuesBounded == Spec => []MailboxBounded
<1>1. IInv => MailboxBounded
  BY DEF IInv
<1>2. QED
  BY Invariance, <1>1, PTL

-----------------------------------------------------------------------------
(* Where a row is *)

Mine(rows, r, n) == {row \in rows : row.request = r /\ row.target = n}
Answers(r, n) == {f \in Fetches : Answered(f) /\ Mine(fetch[f].rows, r, n) # {}}
Heard(r, n) == {i \in DOMAIN got[n] : got[n][i].request = r}

AtMostOne(S) == \A x, y \in S : x = y

\* Of four places, each holds one thing at most, and one of them at most holds any.
Exclusive(B, L, A, H) ==
    /\ AtMostOne(B) /\ AtMostOne(L) /\ AtMostOne(A) /\ AtMostOne(H)
    /\ B = {} \/ (L = {} /\ A = {} /\ H = {})
    /\ L = {} \/ (A = {} /\ H = {})
    /\ A = {} \/ H = {}

Nowhere(r, n) ==
    /\ Mine(mailbox, r, n) = {} /\ Mine(lost, r, n) = {}
    /\ Answers(r, n) = {} /\ Heard(r, n) = {}

NotYet == {"unsent", "accepted", "reading"}

\* A row is nowhere until its request commits, and then in one place.
OnceAt(r, n) ==
    /\ Exclusive(Mine(mailbox, r, n), Mine(lost, r, n), Answers(r, n), Heard(r, n))
    /\ req[r].phase \in NotYet => Nowhere(r, n)
    /\ req[r].phase \in {"committed", "queued"} /\ n \in req[r].room => ~Nowhere(r, n)

OnceInv == \A r \in Requests, n \in Nodes : OnceAt(r, n)

\* A fetch holds rows of its own node.  While its snapshot is fresh they are the node's
\* queue; once they are drained it holds one row of a request at most.
FetchHolds(o) ==
    /\ \A row \in o.rows : row.target = o.node
    /\ o.step \in {"idle", "asked"} => o.rows = {}
    /\ o.step = "drained" => \A r \in Requests, n \in Nodes : AtMostOne(Mine(o.rows, r, n))

FetchFresh(o, box) ==
    o.step = "reading" /\ o.fresh => o.rows = {row \in box : row.target = o.node}

FetchInv == \A f \in Fetches : FetchHolds(fetch[f]) /\ FetchFresh(fetch[f], mailbox)

\* Every row there is, in the mailbox or in the hands of a fetch.
AllRows == mailbox \cup UNION {fetch[f].rows : f \in Fetches}

-----------------------------------------------------------------------------
(* Times *)

\* No time is in the future, and what a fetch has seen was committed.
CommittedInv ==
    /\ \A r \in Requests : req[r].at <= clock
    /\ \A row \in AllRows : row.at <= clock /\ req[row.request].phase \notin NotYet

\* A request that was sent after another was answered has later rows.
BeforeInv ==
    \A q, r \in Requests : <<q, r>> \in before =>
        /\ req[q].phase = "queued" /\ q # r /\ req[r].phase # "unsent"
        /\ \A x \in AllRows : x.request = q =>
              /\ x.at < clock
              /\ req[r].phase \in {"accepted", "reading"} /\ req[r].kind = "relay" =>
                    x.at < req[r].at
              /\ \A y \in AllRows : y.request = r => x.at < y.at

\* A poll loop waits for one fetch.
OneAwaited ==
    \A f, g \in Fetches :
        fetch[f].awaited /\ fetch[g].awaited /\ fetch[f].node = fetch[g].node => f = g

\* When the row of r has left the mailbox, so has that of q; when it has been received,
\* that of q is in no answer that will be.
OrderInv ==
    \A q, r \in Requests, n \in Nodes : <<q, r>> \in before =>
        /\ Mine(lost, r, n) # {} \/ Answers(r, n) # {} \/ Heard(r, n) # {} =>
              Mine(mailbox, q, n) = {}
        /\ \A i \in Heard(q, n), j \in Heard(r, n) : i < j
        /\ Heard(r, n) # {} => \A f \in Answers(q, n) : ~fetch[f].awaited

PlaceInv == OnceInv /\ FetchInv /\ CommittedInv
FlowInv == IInv /\ PlaceInv /\ BeforeInv /\ OneAwaited /\ OrderInv

-----------------------------------------------------------------------------
(* What each step does to the requests and the fetches *)

LEMMA StaleKeeps ==
    ASSUME TypeOK
    PROVE  /\ \A q \in Requests :
                LET o == StaleRequests(Requests)[q]
                IN  /\ o \in ReqStates /\ o.phase = req[q].phase /\ o.kind = req[q].kind
                    /\ o.at = req[q].at /\ o.room = req[q].room
           /\ \A f \in Fetches :
                LET o == StaleFetches(Fetches)[f]
                IN  /\ o \in FetchStates /\ o.fresh = FALSE /\ o.step = fetch[f].step
                    /\ o.node = fetch[f].node /\ o.rows = fetch[f].rows
                    /\ o.awaited = fetch[f].awaited
<1>1. ASSUME NEW q \in Requests
      PROVE  LET o == StaleRequests(Requests)[q]
             IN  /\ o \in ReqStates /\ o.phase = req[q].phase /\ o.kind = req[q].kind
                 /\ o.at = req[q].at /\ o.room = req[q].room
  <2>1. req[q] \in ReqStates /\ StaleRequests(Requests)[q] = [req[q] EXCEPT !.fresh = FALSE]
    BY StaleTyped DEF TypeOK
  <2>2. QED
    BY <2>1 DEF ReqStates
<1>2. ASSUME NEW f \in Fetches
      PROVE  LET o == StaleFetches(Fetches)[f]
             IN  /\ o \in FetchStates /\ o.fresh = FALSE /\ o.step = fetch[f].step
                 /\ o.node = fetch[f].node /\ o.rows = fetch[f].rows
                 /\ o.awaited = fetch[f].awaited
  <2>1. fetch[f] \in FetchStates /\ StaleFetches(Fetches)[f] = [fetch[f] EXCEPT !.fresh = FALSE]
    BY StaleTyped DEF TypeOK
  <2>2. QED
    BY <2>1 DEF FetchStates
<1>3. QED
  BY <1>1, <1>2

LEMMA RequestStart ==
    ASSUME TypeOK, NEW r \in Requests, Accept(r)
    PROVE  /\ req'[r].phase \in {"refused", "accepted"} /\ req[r].phase = "unsent"
           /\ req'[r].phase = "accepted" /\ req'[r].kind = "relay" => req'[r].at = clock + 1
           /\ req'[r].at \in {0, clock + 1}
           /\ \A q \in Requests \ {r} : req'[q] = req[q]
           /\ UNCHANGED <<mailbox, fetch, got, lost>> /\ clock' = clock + 1
           /\ before' = before \cup {<<q, r>> : q \in {q \in Requests : req[q].phase = "queued"}}
  BY DEF Accept, TypeOK, Unsent, Ended

LEMMA RequestProgress ==
    ASSUME TypeOK, NEW r \in Requests,
           ReadCounts(r) \/ NoRoom(r) \/ Fails(r) \/ Answer(r)
    PROVE  /\ req[r].phase \notin {"unsent", "queued"} /\ req'[r].phase # "unsent"
           /\ req'[r].at \in {0, req[r].at}
           /\ req'[r].phase \in NotYet => req[r].phase \in NotYet
           /\ req[r].phase \in NotYet /\ req'[r].phase \in NotYet =>
                req[r].phase = "accepted" /\ req'[r].kind = req[r].kind /\ req'[r].at = req[r].at
           /\ req'[r].phase \in {"committed", "queued"} =>
                req[r].phase = "committed" /\ req'[r].room = req[r].room
           /\ \A q \in Requests \ {r} : req'[q] = req[q]
           /\ UNCHANGED <<mailbox, clock, fetch, got, lost, before>>
<1>1. req[r] \in ReqStates /\ req \in [Requests -> ReqStates]
  BY DEF TypeOK
<1>2. CASE ReadCounts(r)
  BY <1>1, <1>2 DEF ReadCounts, ReqStates, NotYet
<1>3. CASE NoRoom(r) \/ Fails(r)
  BY <1>1, <1>3 DEF NoRoom, Fails, ReqStates, Ended, Unsent, NotYet
<1>4. CASE Answer(r)
  BY <1>1, <1>4 DEF Answer, ReqStates, NotYet
<1>5. QED
  BY <1>2, <1>3, <1>4

LEMMA InsertDoes ==
    ASSUME TypeOK, NEW r \in Requests, Insert(r)
    PROVE  /\ req[r].phase = "reading" /\ req'[r].phase = "committed"
           /\ \A q \in Requests \ {r} : req'[q].phase = req[q].phase
           /\ \A q \in Requests : /\ req'[q].kind = req[q].kind /\ req'[q].at = req[q].at
                                  /\ req'[q].room = req[q].room
           /\ \A f \in Fetches : /\ fetch'[f].fresh = FALSE
                                 /\ fetch'[f].step = fetch[f].step
                                 /\ fetch'[f].node = fetch[f].node
                                 /\ fetch'[f].rows = fetch[f].rows
                                 /\ fetch'[f].awaited = fetch[f].awaited
           /\ mailbox' = mailbox \cup NewRows(r)
           /\ UNCHANGED <<clock, got, lost, before>>
<1> DEFINE stale == StaleRequests(Requests)
<1>1. stale \in [Requests -> ReqStates]
  BY StaleTyped
<1>2. \A q \in Requests : /\ stale[q].phase = req[q].phase /\ stale[q].kind = req[q].kind
                          /\ stale[q].at = req[q].at /\ stale[q].room = req[q].room
  BY StaleKeeps
<1>3. req' = [stale EXCEPT ![r].phase = "committed", ![r].fresh = FALSE]
  BY DEF Insert
<1> HIDE DEF stale
<1>4. \A q \in Requests \ {r} : req'[q] = stale[q]
  BY <1>1, <1>3
<1>5. /\ req'[r].phase = "committed" /\ req'[r].kind = stale[r].kind
      /\ req'[r].at = stale[r].at /\ req'[r].room = stale[r].room
  <2>1. stale[r] \in ReqStates /\ req'[r] = [stale[r] EXCEPT !.phase = "committed", !.fresh = FALSE]
    BY <1>1, <1>3
  <2>2. QED
    BY <2>1 DEF ReqStates
<1>6. \A q \in Requests : /\ req'[q].kind = req[q].kind /\ req'[q].at = req[q].at
                          /\ req'[q].room = req[q].room
                          /\ q # r => req'[q].phase = req[q].phase
  BY <1>2, <1>4, <1>5
<1>7. fetch' = StaleFetches(Fetches)
  BY DEF Insert
<1>8. \A f \in Fetches : /\ fetch'[f].fresh = FALSE /\ fetch'[f].step = fetch[f].step
                         /\ fetch'[f].node = fetch[f].node /\ fetch'[f].rows = fetch[f].rows
                         /\ fetch'[f].awaited = fetch[f].awaited
  BY <1>7, StaleKeeps
<1>9. /\ req[r].phase = "reading" /\ mailbox' = mailbox \cup NewRows(r)
      /\ UNCHANGED <<clock, got, lost, before>>
  BY DEF Insert
<1>10. QED
  BY <1>5, <1>6, <1>8, <1>9

LEMMA ReadDoes ==
    ASSUME TypeOK, NEW f \in Fetches, ReadRows(f)
    PROVE  /\ fetch[f].step = "asked" /\ fetch'[f].step = "reading"
           /\ fetch'[f].node = fetch[f].node /\ fetch'[f].awaited = fetch[f].awaited
           /\ fetch'[f].rows = Queue(fetch[f].node)
           /\ \A g \in Fetches \ {f} : fetch'[g] = fetch[g]
           /\ UNCHANGED <<mailbox, clock, req, got, lost, before>>
  BY DEF ReadRows, TypeOK, FetchStates

LEMMA DrainDoes ==
    ASSUME TypeOK, NEW f \in Fetches, Drain(f)
    PROVE  /\ fetch[f].step = "reading" /\ fetch'[f].step = "drained"
           /\ fetch[f].fresh \/ fetch[f].rows = {}
           /\ \A g \in Fetches : /\ fetch'[g].rows = fetch[g].rows
                                 /\ fetch'[g].node = fetch[g].node
                                 /\ fetch'[g].awaited = fetch[g].awaited
           /\ \A g \in Fetches \ {f} : /\ fetch'[g].step = fetch[g].step
                                       /\ fetch'[g].fresh =>
                                            fetch[g].fresh /\ mailbox' = mailbox
           /\ \A q \in Requests : /\ req'[q].phase = req[q].phase /\ req'[q].kind = req[q].kind
                                  /\ req'[q].at = req[q].at /\ req'[q].room = req[q].room
           /\ mailbox' = mailbox \ fetch[f].rows
           /\ UNCHANGED <<clock, got, lost, before>>
<1>1. CASE fetch[f].rows = {}
  BY <1>1 DEF Drain, TypeOK, FetchStates
<1>2. CASE fetch[f].rows # {}
  <2> DEFINE stale == StaleFetches(Fetches)
  <2>1. stale \in [Fetches -> FetchStates] /\ req' = StaleRequests(Requests)
    BY <1>2, StaleTyped DEF Drain
  <2>2. \A g \in Fetches : /\ stale[g].rows = fetch[g].rows /\ stale[g].node = fetch[g].node
                           /\ stale[g].awaited = fetch[g].awaited /\ stale[g].fresh = FALSE
                           /\ stale[g].step = fetch[g].step
    BY StaleKeeps
  <2>3. fetch' = [stale EXCEPT ![f].step = "drained", ![f].fresh = FALSE]
    BY <1>2 DEF Drain
  <2> HIDE DEF stale
  <2>4. \A g \in Fetches \ {f} : fetch'[g] = stale[g]
    BY <2>1, <2>3
  <2>5. /\ fetch'[f].step = "drained" /\ fetch'[f].rows = stale[f].rows
        /\ fetch'[f].node = stale[f].node /\ fetch'[f].awaited = stale[f].awaited
    <3>1. stale[f] \in FetchStates /\ fetch'[f] = [stale[f] EXCEPT !.step = "drained", !.fresh = FALSE]
      BY <2>1, <2>3
    <3>2. QED
      BY <3>1 DEF FetchStates
  <2>6. \A g \in Fetches : /\ fetch'[g].rows = fetch[g].rows /\ fetch'[g].node = fetch[g].node
                           /\ fetch'[g].awaited = fetch[g].awaited
                           /\ g # f => fetch'[g].step = fetch[g].step /\ fetch'[g].fresh = FALSE
    BY <2>2, <2>4, <2>5
  <2>7. QED
    BY <2>1, <2>5, <2>6, StaleKeeps DEF Drain
<1>3. QED
  BY <1>1, <1>2

LEMMA AbandonDoes ==
    ASSUME TypeOK, NEW f \in Fetches, Abandon(f)
    PROVE  /\ \A g \in Fetches : /\ fetch'[g].rows = fetch[g].rows
                                 /\ fetch'[g].node = fetch[g].node
                                 /\ fetch'[g].step = fetch[g].step
                                 /\ fetch'[g].fresh = fetch[g].fresh
                                 /\ fetch'[g].awaited => fetch[g].awaited
           /\ UNCHANGED <<mailbox, clock, req, got, lost, before>>
  BY DEF Abandon, TypeOK, FetchStates

\* A fetch that starts or ends holds nothing.
LEMMA ResetDoes ==
    ASSUME TypeOK, NEW f \in Fetches,
           (\E n \in Pollers : AskFetch(f, n)) \/ Received(f) \/ Unheard(f) \/ FetchFails(f)
    PROVE  /\ fetch'[f].step \in {"idle", "asked"} /\ fetch'[f].rows = {}
           /\ ~fetch'[f].awaited \/ \A g \in Fetches : fetch[g].awaited => fetch[g].node # fetch'[f].node
           /\ \A g \in Fetches \ {f} : fetch'[g] = fetch[g]
           /\ UNCHANGED <<mailbox, clock, req, before>>
<1>1. CASE \E n \in Pollers : AskFetch(f, n)
  <2>1. PICK n \in Pollers : AskFetch(f, n)
    BY <1>1
  <2>2. /\ fetch'[f] = [Idle EXCEPT !.step = "asked", !.node = n, !.awaited = TRUE]
        /\ \A g \in Fetches \ {f} : fetch'[g] = fetch[g]
        /\ \A g \in Fetches : ~(fetch[g].awaited /\ fetch[g].node = n)
        /\ UNCHANGED <<mailbox, clock, req, before>>
    BY <2>1 DEF AskFetch, TypeOK, Awaiting
  <2>3. /\ fetch'[f].step = "asked" /\ fetch'[f].rows = {} /\ fetch'[f].node = n
    BY <2>2 DEF Idle
  <2>4. QED
    BY <2>2, <2>3
<1>2. CASE Received(f) \/ Unheard(f) \/ FetchFails(f)
  BY <1>2 DEF Received, Unheard, FetchFails, TypeOK, Idle
<1>3. QED
  BY <1>1, <1>2

LEMMA CrashDoes ==
    ASSUME TypeOK, Crash
    PROVE  /\ \A f \in Fetches : /\ fetch'[f].step = "idle" /\ fetch'[f].rows = {}
                                 /\ ~fetch'[f].awaited
           /\ \A q \in Requests :
                /\ req[q].phase = "unsent" <=> req'[q].phase = "unsent"
                /\ req[q].phase = "queued" <=> req'[q].phase = "queued"
                /\ req'[q].phase \notin {"accepted", "reading", "committed"}
                /\ req[q].phase = "queued" => req'[q] = req[q]
                /\ req'[q].at \in {0, req[q].at}
           /\ lost' = lost \cup UNION {fetch[f].rows : f \in {f \in Fetches : Answered(f)}}
           /\ UNCHANGED <<mailbox, clock, got, before>>
<1>1. \A q \in Requests : req'[q] = IF req[q].phase \in {"accepted", "reading", "committed"}
                                    THEN Ended("failed") ELSE req[q]
  BY DEF Crash
<1>2. Ended("failed").phase = "failed" /\ Ended("failed").at = 0
  BY DEF Ended, Unsent
<1>3. QED
  BY <1>1, <1>2 DEF Crash, Idle, Answered

-----------------------------------------------------------------------------
(* One place *)

\* A step that moves no row.
LEMMA QuietOnce ==
    ASSUME OnceInv, UNCHANGED <<mailbox, lost, got>>,
           \A f \in Fetches : /\ fetch'[f].step = "drained" <=> fetch[f].step = "drained"
                              /\ Answered(f) => fetch'[f].rows = fetch[f].rows,
           \A q \in Requests :
              /\ req'[q].phase \in NotYet => req[q].phase \in NotYet
              /\ req'[q].phase \in {"committed", "queued"} =>
                    req[q].phase \in {"committed", "queued"} /\ req'[q].room = req[q].room
    PROVE  OnceInv'
<1> SUFFICES ASSUME NEW r \in Requests, NEW n \in Nodes PROVE OnceAt(r, n)'
  BY DEF OnceInv
<1>1. OnceAt(r, n)
  BY DEF OnceInv
<1>2. Answers(r, n)' = Answers(r, n)
  BY DEF Answers, Answered, Mine
<1>3. /\ Mine(mailbox, r, n)' = Mine(mailbox, r, n) /\ Mine(lost, r, n)' = Mine(lost, r, n)
      /\ Heard(r, n)' = Heard(r, n)
  BY DEF Mine, Heard
<1>4. QED
  BY <1>1, <1>2, <1>3 DEF OnceAt, Nowhere

LEMMA InsertOnce ==
    ASSUME TypeOK, OnceInv, NEW q \in Requests, Insert(q)
    PROVE  OnceInv'
<1> SUFFICES ASSUME NEW r \in Requests, NEW n \in Nodes PROVE OnceAt(r, n)'
  BY DEF OnceInv
<1> DEFINE row == [request |-> q, target |-> n,
                   at |-> IF req[q].kind = "relay" THEN req[q].at ELSE clock]
<1>1. OnceAt(r, n)
  BY DEF OnceInv
<1>2. /\ Answers(r, n)' = Answers(r, n) /\ Mine(lost, r, n)' = Mine(lost, r, n)
      /\ Heard(r, n)' = Heard(r, n)
  BY InsertDoes DEF Answers, Answered, Mine, Heard
<1>3. Mine(mailbox, r, n)' = Mine(mailbox, r, n) \cup Mine(NewRows(q), r, n)
  BY InsertDoes DEF Mine
<1>4. CASE r = q
  <2>1. Nowhere(r, n)
    BY <1>1, <1>4, InsertDoes DEF OnceAt, NotYet
  <2>2. Mine(NewRows(q), r, n) = IF n \in req[q].room THEN {row} ELSE {}
    BY <1>4 DEF Mine, NewRows
  <2>3. req'[r].phase \notin NotYet /\ req'[r].room = req[r].room
    BY <1>4, InsertDoes DEF NotYet
  <2> HIDE DEF row
  <2>4. QED
    BY <1>2, <1>3, <1>4, <2>1, <2>2, <2>3 DEF OnceAt, Nowhere, Exclusive, AtMostOne
<1>5. CASE r # q
  <2>1. Mine(NewRows(q), r, n) = {}
    BY <1>5 DEF Mine, NewRows
  <2>2. req'[r].phase = req[r].phase /\ req'[r].room = req[r].room
    BY <1>5, InsertDoes
  <2>3. QED
    BY <1>1, <1>2, <1>3, <2>1, <2>2 DEF OnceAt, Nowhere
<1>6. QED
  BY <1>4, <1>5

\* The drained rows of a request move from the mailbox to the answer, all of a node's at once.
LEMMA DrainPlaces ==
    ASSUME TypeOK, FetchInv, NEW f \in Fetches, Drain(f), NEW r \in Requests, NEW n \in Nodes
    PROVE  /\ Mine(lost, r, n)' = Mine(lost, r, n) /\ Heard(r, n)' = Heard(r, n)
           /\ req'[r].phase = req[r].phase /\ req'[r].room = req[r].room
           /\ f \notin Answers(r, n)
           /\ Answers(r, n)' = IF Mine(fetch[f].rows, r, n) = {} THEN Answers(r, n)
                                                                 ELSE Answers(r, n) \cup {f}
           /\ Mine(mailbox, r, n)' = Mine(mailbox, r, n) \ Mine(fetch[f].rows, r, n)
           /\ \/ \A q \in Requests : Mine(fetch[f].rows, q, n) = {}
              \/ \A q \in Requests : Mine(fetch[f].rows, q, n) = Mine(mailbox, q, n)
<1>1. /\ Mine(lost, r, n)' = Mine(lost, r, n) /\ Heard(r, n)' = Heard(r, n)
      /\ req'[r].phase = req[r].phase /\ req'[r].room = req[r].room
  BY DrainDoes DEF Mine, Heard
<1>2. f \notin Answers(r, n)
  BY DrainDoes DEF Answers, Answered
<1>3. Answers(r, n)' = IF Mine(fetch[f].rows, r, n) = {} THEN Answers(r, n)
                                                         ELSE Answers(r, n) \cup {f}
  BY DrainDoes DEF Answers, Answered
<1>4. Mine(mailbox, r, n)' = Mine(mailbox, r, n) \ Mine(fetch[f].rows, r, n)
  BY DrainDoes DEF Mine
<1>5. \/ \A q \in Requests : Mine(fetch[f].rows, q, n) = {}
      \/ \A q \in Requests : Mine(fetch[f].rows, q, n) = Mine(mailbox, q, n)
  <2>1. fetch[f].rows = {} \/ fetch[f].rows = Queue(fetch[f].node)
    BY DrainDoes DEF FetchInv, FetchFresh, Queue
  <2>2. \A q \in Requests : Mine({}, q, n) = {}
    BY DEF Mine
  <2>3. \A q \in Requests : Mine(Queue(fetch[f].node), q, n) =
          IF n = fetch[f].node THEN Mine(mailbox, q, n) ELSE {}
    BY DEF Mine, Queue
  <2>4. QED
    BY <2>1, <2>2, <2>3
<1>6. QED
  BY <1>1, <1>2, <1>3, <1>4, <1>5

LEMMA DrainOnce ==
    ASSUME TypeOK, OnceInv, FetchInv, NEW f \in Fetches, Drain(f)
    PROVE  OnceInv'
<1> SUFFICES ASSUME NEW r \in Requests, NEW n \in Nodes PROVE OnceAt(r, n)'
  BY DEF OnceInv
<1>1. OnceAt(r, n)
  BY DEF OnceInv
<1>2. /\ Mine(lost, r, n)' = Mine(lost, r, n) /\ Heard(r, n)' = Heard(r, n)
      /\ req'[r].phase = req[r].phase /\ req'[r].room = req[r].room
      /\ Answers(r, n)' = IF Mine(fetch[f].rows, r, n) = {} THEN Answers(r, n)
                                                            ELSE Answers(r, n) \cup {f}
      /\ Mine(mailbox, r, n)' = Mine(mailbox, r, n) \ Mine(fetch[f].rows, r, n)
      /\ Mine(fetch[f].rows, r, n) \in {{}, Mine(mailbox, r, n)}
  BY DrainPlaces
<1>7. CASE Mine(fetch[f].rows, r, n) = {}
  BY <1>1, <1>2, <1>7 DEF OnceAt, Nowhere
<1>8. CASE Mine(fetch[f].rows, r, n) # {}
  <2>1. Mine(mailbox, r, n) # {} /\ Mine(mailbox, r, n)' = {}
    BY <1>2, <1>8
  <2>2. Mine(lost, r, n) = {} /\ Answers(r, n) = {} /\ Heard(r, n) = {}
    BY <1>1, <2>1 DEF OnceAt, Exclusive
  <2>3. Answers(r, n)' = {f}
    BY <1>2, <1>8, <2>2
  <2>4. req[r].phase \notin NotYet
    BY <1>1, <2>1 DEF OnceAt, Nowhere
  <2>5. QED
    BY <1>2, <2>1, <2>2, <2>3, <2>4 DEF OnceAt, Nowhere, Exclusive, AtMostOne
<1>9. QED
  BY <1>7, <1>8

\* What an answer lists, it lists once.
LEMMA InOrderLists ==
    ASSUME NEW rows, IsFiniteSet(rows), NEW s \in InOrder(rows)
    PROVE  /\ Cardinality(rows) \in Nat /\ s \in [1..Cardinality(rows) -> rows]
           /\ \A i, j \in 1..Cardinality(rows) : i # j => s[i] # s[j]
           /\ \A i, j \in 1..Cardinality(rows) : i < j => s[i].at <= s[j].at
           /\ \A row \in rows : \E i \in 1..Cardinality(rows) : s[i] = row
<1> DEFINE k == Cardinality(rows)
<1>1. k \in Nat
  BY FS_CardinalityType
<1>2. s \in [1..k -> rows] /\ \A i, j \in 1..k : i # j => s[i] # s[j]
  BY DEF InOrder, SetToSeqs
<1>3. \A i, j \in 1..k : i < j => s[i].at <= s[j].at
  BY <1>2 DEF InOrder
<1>4. s \in Surjection(1..k, rows)
  <2>1. IsFiniteSet(1..k) /\ Cardinality(1..k) = k
    BY <1>1, FS_Interval
  <2>2. s \in Injection(1..k, rows)
    BY <1>2, Fun_IsInj
  <2> HIDE DEF k
  <2>3. QED
    BY <2>1, <2>2, FS_Injection DEF k
<1>5. QED
  BY <1>1, <1>2, <1>3, <1>4, Fun_SurjectionProperties

\* What Received does, row by row.
LEMMA ReceivedDoes ==
    ASSUME TypeOK, FiniteInv, FetchInv, NEW f \in Fetches, Received(f)
    PROVE  \E s \in [1..Cardinality(fetch[f].rows) -> fetch[f].rows] :
             LET k == Cardinality(fetch[f].rows)
                 m == fetch[f].node
             IN  /\ k \in Nat
                 /\ \A i, j \in 1..k : i # j => s[i] # s[j]
                 /\ \A i, j \in 1..k : i < j => s[i].at <= s[j].at
                 /\ \A row \in fetch[f].rows : \E i \in 1..k : s[i] = row
                 /\ m \in Nodes =>
                      /\ Len(got[m]) \in Nat /\ DOMAIN got[m] = 1..Len(got[m])
                      /\ DOMAIN got'[m] = 1..(Len(got[m]) + k)
                      /\ \A i \in 1..Len(got[m]) : got'[m][i] = got[m][i]
                      /\ \A i \in 1..k : got'[m][Len(got[m]) + i] = s[i]
                 /\ \A n \in Nodes \ {m} : got'[n] = got[n]
<1> DEFINE rows == fetch[f].rows
           k == Cardinality(rows)
           m == fetch[f].node
<1>1. PICK s \in InOrder(rows) : got' = [got EXCEPT ![m] = got[m] \o s]
  BY DEF Received
<1>2. /\ k \in Nat /\ s \in [1..k -> rows]
      /\ \A i, j \in 1..k : i # j => s[i] # s[j]
      /\ \A i, j \in 1..k : i < j => s[i].at <= s[j].at
      /\ \A row \in rows : \E i \in 1..k : s[i] = row
  BY InOrderLists DEF FiniteInv
<1>3. \A n \in Nodes \ {m} : got'[n] = got[n]
  BY <1>1 DEF TypeOK
<1>4. ASSUME m \in Nodes
      PROVE  /\ Len(got[m]) \in Nat /\ DOMAIN got[m] = 1..Len(got[m])
             /\ DOMAIN got'[m] = 1..(Len(got[m]) + k)
             /\ \A i \in 1..Len(got[m]) : got'[m][i] = got[m][i]
             /\ \A i \in 1..k : got'[m][Len(got[m]) + i] = s[i]
  <2>1. got[m] \in Seq(Rows) /\ rows \subseteq Rows
    BY <1>4 DEF TypeOK, FetchStates
  <2>2. s \in Seq(Rows) /\ Len(s) = k
    BY <1>2, <2>1
  <2>3. got'[m] = got[m] \o s
    BY <1>1, <1>4 DEF TypeOK
  <2> DEFINE g == got[m]
  <2>4. Len(g) \in Nat /\ DOMAIN g = 1..Len(g)
    BY <2>1
  <2> HIDE DEF m, rows, k, g
  <2>5. /\ Len(g \o s) = Len(g) + k /\ DOMAIN (g \o s) = 1..(Len(g) + k)
        /\ \A i \in 1..Len(g) : (g \o s)[i] = g[i]
        /\ \A i \in 1..k : (g \o s)[Len(g) + i] = s[i]
    <3>1. g \in Seq(Rows)
      BY <2>1 DEF g
    <3>2. /\ g \o s \in Seq(Rows) /\ Len(g \o s) = Len(g) + k
          /\ \A i \in 1..Len(g) + k : (g \o s)[i] = IF i <= Len(g) THEN g[i] ELSE s[i - Len(g)]
      BY <2>2, <3>1, ConcatProperties
    <3>3. \A i \in 1..Len(g) : i \in 1..Len(g) + k /\ i <= Len(g)
      BY <1>2, <2>4
    <3>4. \A i \in 1..k : /\ Len(g) + i \in 1..Len(g) + k /\ ~(Len(g) + i <= Len(g))
                          /\ (Len(g) + i) - Len(g) = i
      BY <1>2, <2>4
    <3>5. DOMAIN (g \o s) = 1..(Len(g) + k)
      BY <3>2, LenProperties
    <3>6. QED
      BY <3>2, <3>3, <3>4, <3>5
  <2>6. QED
    BY <2>3, <2>4, <2>5 DEF g
<1>5. QED
  BY <1>2, <1>3, <1>4

LEMMA ReceivedOnce ==
    ASSUME TypeOK, FiniteInv, OnceInv, FetchInv, NEW f \in Fetches, Received(f)
    PROVE  OnceInv'
<1> SUFFICES ASSUME NEW r \in Requests, NEW n \in Nodes PROVE OnceAt(r, n)'
  BY DEF OnceInv
<1> DEFINE rows == fetch[f].rows
           k == Cardinality(rows)
           m == fetch[f].node
<1>1. OnceAt(r, n)
  BY DEF OnceInv
<1>2. /\ Mine(mailbox, r, n)' = Mine(mailbox, r, n) /\ Mine(lost, r, n)' = Mine(lost, r, n)
      /\ req' = req
  BY DEF Received, Mine
<1>3. Answers(r, n)' = Answers(r, n) \ {f}
  BY ResetDoes DEF Answers, Answered, Received
<1>4. f \in Answers(r, n) <=> Mine(rows, r, n) # {}
  BY DEF Answers, Answered, Received
<1>5. AtMostOne(Mine(rows, r, n)) /\ \A row \in rows : row.target = m
  BY DEF FetchInv, FetchHolds, Received
<1>6. CASE Mine(rows, r, n) = {}
  <2>1. Heard(r, n)' = Heard(r, n)
    <3>1. CASE n # m
      BY <3>1, ReceivedDoes DEF Heard
    <3>2. CASE n = m
      <4>1. \A row \in rows : row.request # r
        BY <1>5, <1>6, <3>2 DEF Mine
      <4>0. PICK s \in [1..k -> rows] :
              /\ k \in Nat /\ Len(got[n]) \in Nat /\ DOMAIN got[n] = 1..Len(got[n])
              /\ DOMAIN got'[n] = 1..(Len(got[n]) + k)
              /\ \A i \in 1..Len(got[n]) : got'[n][i] = got[n][i]
              /\ \A i \in 1..k : got'[n][Len(got[n]) + i] = s[i]
        BY <3>2, ReceivedDoes
      <4> HIDE DEF k, m, rows
      <4>2. /\ k \in Nat /\ Len(got[n]) \in Nat /\ DOMAIN got[n] = 1..Len(got[n])
            /\ DOMAIN got'[n] = 1..(Len(got[n]) + k)
            /\ \A i \in 1..Len(got[n]) : got'[n][i] = got[n][i]
            /\ \A i \in 1..k : got'[n][Len(got[n]) + i].request # r
        BY <4>0, <4>1
      <4>3. \A i \in DOMAIN got'[n] : i \in DOMAIN got[n] \/ i - Len(got[n]) \in 1..k
        BY <4>2
      <4>4. ASSUME NEW i \in DOMAIN got'[n], got'[n][i].request = r, i \notin DOMAIN got[n]
            PROVE  FALSE
        <5>1. i - Len(got[n]) \in 1..k
          BY <4>3, <4>4
        <5>2. i = Len(got[n]) + (i - Len(got[n]))
          BY <4>2, <4>4
        <5>3. QED
          BY <4>2, <4>4, <5>1, <5>2
      <4>5. DOMAIN got[n] \subseteq DOMAIN got'[n]
        BY <4>2
      <4>6. QED
        BY <4>2, <4>4, <4>5 DEF Heard
    <3>3. QED
      BY <3>1, <3>2
  <2>2. Answers(r, n)' = Answers(r, n)
    BY <1>3, <1>4, <1>6
  <2>3. QED
    BY <1>1, <1>2, <2>1, <2>2 DEF OnceAt, Nowhere
<1>7. CASE Mine(rows, r, n) # {}
  <2>1. PICK row \in rows : row.request = r /\ row.target = n
    BY <1>7 DEF Mine
  <2>2. n = m
    BY <1>5, <2>1
  <2>3. \A x \in rows : x.request = r => x = row
    BY <1>5, <2>1, <2>2 DEF AtMostOne, Mine
  <2>4. /\ Mine(mailbox, r, n) = {} /\ Mine(lost, r, n) = {} /\ Heard(r, n) = {}
        /\ Answers(r, n)' = {} /\ req[r].phase \notin NotYet
    BY <1>1, <1>3, <1>4, <1>7 DEF OnceAt, Exclusive, AtMostOne, Nowhere
  <2>5. \E i \in DOMAIN got'[n] : Heard(r, n)' = {i}
    <3>1. PICK s \in [1..k -> rows] :
            /\ k \in Nat
            /\ \A i, j \in 1..k : i # j => s[i] # s[j]
            /\ \A x \in rows : \E i \in 1..k : s[i] = x
            /\ Len(got[n]) \in Nat /\ DOMAIN got[n] = 1..Len(got[n])
            /\ DOMAIN got'[n] = 1..(Len(got[n]) + k)
            /\ \A i \in 1..Len(got[n]) : got'[n][i] = got[n][i]
            /\ \A i \in 1..k : got'[n][Len(got[n]) + i] = s[i]
      BY <2>2, ReceivedDoes
    <3>2. PICK i \in 1..k : s[i] = row
      BY <3>1
    <3> HIDE DEF k, m, rows
    <3>3. Len(got[n]) + i \in DOMAIN got'[n] /\ got'[n][Len(got[n]) + i].request = r
      BY <2>1, <3>1, <3>2
    <3>4. ASSUME NEW j \in DOMAIN got'[n], got'[n][j].request = r
          PROVE  j = Len(got[n]) + i
      <4>1. j \notin 1..Len(got[n])
        BY <2>4, <3>1, <3>4 DEF Heard
      <4>2. j - Len(got[n]) \in 1..k /\ j = Len(got[n]) + (j - Len(got[n]))
        BY <3>1, <4>1
      <4>3. s[j - Len(got[n])].request = r /\ s[j - Len(got[n])] \in rows
        BY <3>1, <3>4, <4>2
      <4>4. s[j - Len(got[n])] = s[i]
        BY <2>3, <3>2, <4>3
      <4>5. j - Len(got[n]) = i
        BY <3>1, <4>2, <4>4
      <4>6. QED
        BY <4>2, <4>5
    <3>5. Heard(r, n)' = {Len(got[n]) + i}
      BY <3>3, <3>4 DEF Heard
    <3>6. QED
      BY <3>3, <3>5
  <2>6. QED
    BY <1>2, <2>4, <2>5 DEF OnceAt, Nowhere, Exclusive, AtMostOne
<1>8. QED
  BY <1>6, <1>7

LEMMA UnheardOnce ==
    ASSUME TypeOK, OnceInv, FetchInv, NEW f \in Fetches, Unheard(f)
    PROVE  OnceInv'
<1> SUFFICES ASSUME NEW r \in Requests, NEW n \in Nodes PROVE OnceAt(r, n)'
  BY DEF OnceInv
<1> DEFINE mine == Mine(fetch[f].rows, r, n)
<1>1. OnceAt(r, n)
  BY DEF OnceInv
<1>2. /\ Mine(mailbox, r, n)' = Mine(mailbox, r, n) /\ Heard(r, n)' = Heard(r, n)
      /\ Mine(lost, r, n)' = Mine(lost, r, n) \cup mine /\ req' = req
  BY DEF Unheard, Mine, Heard
<1>3. Answers(r, n)' = Answers(r, n) \ {f}
  BY ResetDoes DEF Answers, Answered, Unheard
<1>4. (f \in Answers(r, n) <=> mine # {}) /\ AtMostOne(mine)
  BY DEF Answers, Answered, Unheard, FetchInv, FetchHolds
<1> HIDE DEF mine
<1>5. CASE mine = {}
  <2>1. Answers(r, n)' = Answers(r, n) /\ Mine(lost, r, n)' = Mine(lost, r, n)
    BY <1>2, <1>3, <1>4, <1>5
  <2>2. QED
    BY <1>1, <1>2, <2>1 DEF OnceAt, Nowhere
<1>6. CASE mine # {}
  <2>1. /\ Mine(mailbox, r, n) = {} /\ Mine(lost, r, n) = {} /\ Heard(r, n) = {}
        /\ Answers(r, n)' = {} /\ req[r].phase \notin NotYet
    BY <1>1, <1>3, <1>4, <1>6 DEF OnceAt, Exclusive, AtMostOne, Nowhere
  <2>2. QED
    BY <1>2, <1>4, <1>6, <2>1 DEF OnceAt, Nowhere, Exclusive, AtMostOne
<1>7. QED
  BY <1>5, <1>6

LEMMA CrashOnce ==
    ASSUME TypeOK, OnceInv, FetchInv, Crash
    PROVE  OnceInv'
<1> SUFFICES ASSUME NEW r \in Requests, NEW n \in Nodes PROVE OnceAt(r, n)'
  BY DEF OnceInv
<1> DEFINE swept == Mine(UNION {fetch[f].rows : f \in {f \in Fetches : Answered(f)}}, r, n)
<1>1. OnceAt(r, n)
  BY DEF OnceInv
<1>2. /\ Mine(mailbox, r, n)' = Mine(mailbox, r, n) /\ Heard(r, n)' = Heard(r, n)
      /\ Mine(lost, r, n)' = Mine(lost, r, n) \cup swept
  BY CrashDoes DEF Mine, Heard
<1>3. Answers(r, n)' = {}
  BY CrashDoes DEF Answers, Answered
<1>4. swept # {} <=> Answers(r, n) # {}
  BY DEF Answers, Mine
<1>5. AtMostOne(swept)
  <2> SUFFICES ASSUME NEW x \in swept, NEW y \in swept PROVE x = y
    BY DEF AtMostOne
  <2>1. PICK f \in Fetches : Answered(f) /\ x \in Mine(fetch[f].rows, r, n)
    BY DEF Mine
  <2>2. PICK g \in Fetches : Answered(g) /\ y \in Mine(fetch[g].rows, r, n)
    BY DEF Mine
  <2>3. f \in Answers(r, n) /\ g \in Answers(r, n)
    BY <2>1, <2>2 DEF Answers
  <2>4. f = g
    BY <1>1, <2>3 DEF OnceAt, Exclusive, AtMostOne
  <2>5. QED
    BY <2>1, <2>2, <2>4 DEF FetchInv, FetchHolds, Answered, AtMostOne
<1>6. /\ req'[r].phase \in NotYet => req[r].phase \in NotYet
      /\ req'[r].phase \in {"committed", "queued"} =>
            req[r].phase = "queued" /\ req'[r].room = req[r].room
  BY CrashDoes DEF NotYet
<1> HIDE DEF swept
<1>7. CASE Answers(r, n) = {}
  <2>1. Mine(lost, r, n)' = Mine(lost, r, n) /\ Answers(r, n)' = Answers(r, n)
    BY <1>2, <1>3, <1>4, <1>7
  <2>2. QED
    BY <1>1, <1>2, <1>6, <2>1 DEF OnceAt, Nowhere
<1>8. CASE Answers(r, n) # {}
  <2>1. /\ Mine(mailbox, r, n) = {} /\ Mine(lost, r, n) = {} /\ Heard(r, n) = {}
        /\ req[r].phase \notin NotYet
    BY <1>1, <1>8 DEF OnceAt, Exclusive, Nowhere
  <2>2. QED
    BY <1>2, <1>3, <1>4, <1>5, <1>6, <1>8, <2>1 DEF OnceAt, Nowhere, Exclusive, AtMostOne
<1>9. QED
  BY <1>7, <1>8

LEMMA StepOnce ==
    ASSUME TypeOK, FiniteInv, OnceInv, FetchInv, [Next]_vars
    PROVE  OnceInv'
<1>1. ASSUME NEW r \in Requests,
             Accept(r) \/ ReadCounts(r) \/ NoRoom(r) \/ Fails(r) \/ Answer(r)
      PROVE  OnceInv'
  <2>1. CASE Accept(r)
    BY <2>1, RequestStart, QuietOnce DEF NotYet
  <2>2. CASE ReadCounts(r) \/ NoRoom(r) \/ Fails(r) \/ Answer(r)
    BY <2>2, RequestProgress, QuietOnce
  <2>3. QED
    BY <1>1, <2>1, <2>2
<1>2. ASSUME NEW f \in Fetches, NEW n \in Pollers, AskFetch(f, n) PROVE OnceInv'
  <2>1. fetch[f].step = "idle" /\ UNCHANGED <<mailbox, req, lost, got>>
    BY <1>2 DEF AskFetch
  <2>2. \A g \in Fetches : /\ fetch'[g].step = "drained" <=> fetch[g].step = "drained"
                           /\ Answered(g) => fetch'[g].rows = fetch[g].rows
    BY <1>2, <2>1, ResetDoes DEF Answered
  <2>3. QED
    BY <2>1, <2>2, QuietOnce
<1>3. ASSUME NEW f \in Fetches, ReadRows(f) PROVE OnceInv'
  <2>1. \A g \in Fetches : /\ fetch'[g].step = "drained" <=> fetch[g].step = "drained"
                           /\ Answered(g) => fetch'[g].rows = fetch[g].rows
    BY <1>3, ReadDoes DEF Answered
  <2>2. QED
    BY <1>3, <2>1, ReadDoes, QuietOnce
<1>4. ASSUME NEW f \in Fetches, FetchFails(f) PROVE OnceInv'
  <2>1. fetch[f].step = "reading" /\ UNCHANGED <<mailbox, req, lost, got>>
    BY <1>4 DEF FetchFails
  <2>2. \A g \in Fetches : /\ fetch'[g].step = "drained" <=> fetch[g].step = "drained"
                           /\ Answered(g) => fetch'[g].rows = fetch[g].rows
    BY <1>4, <2>1, ResetDoes DEF Answered
  <2>3. QED
    BY <2>1, <2>2, QuietOnce
<1>5. ASSUME NEW f \in Fetches, Abandon(f) PROVE OnceInv'
  BY <1>5, AbandonDoes, QuietOnce
<1>6. CASE UNCHANGED vars
  BY <1>6, QuietOnce DEF vars
<1>7. QED
  BY <1>1, <1>2, <1>3, <1>4, <1>5, <1>6, InsertOnce, DrainOnce, ReceivedOnce, UnheardOnce, CrashOnce
  DEF Next, RequestStep, FetchStep

-----------------------------------------------------------------------------
(* What fetches hold *)

LEMMA SameFetch ==
    ASSUME NEW o, NEW p, p.rows = o.rows, p.node = o.node, FetchHolds(o), p.step = o.step
    PROVE  FetchHolds(p)
  BY DEF FetchHolds

LEMMA EmptyFetch ==
    ASSUME NEW p, NEW box, p.rows = {}, p.step # "reading"
    PROVE  FetchHolds(p) /\ FetchFresh(p, box)
  BY DEF FetchHolds, FetchFresh, AtMostOne, Mine

LEMMA StepFetchInv ==
    ASSUME TypeOK, OnceInv, FetchInv, [Next]_vars
    PROVE  FetchInv'
<1> SUFFICES ASSUME NEW g \in Fetches
             PROVE  FetchHolds(fetch'[g]) /\ FetchFresh(fetch'[g], mailbox')
  BY DEF FetchInv
<1>1. FetchHolds(fetch[g]) /\ FetchFresh(fetch[g], mailbox)
  BY DEF FetchInv
<1>2. ASSUME NEW r \in Requests, Insert(r)
      PROVE  FetchHolds(fetch'[g]) /\ FetchFresh(fetch'[g], mailbox')
  <2>1. FetchHolds(fetch'[g])
    BY <1>1, <1>2, InsertDoes, SameFetch
  <2>2. fetch'[g].fresh = FALSE
    BY <1>2, InsertDoes
  <2>3. QED
    BY <2>1, <2>2 DEF FetchFresh
<1>3. ASSUME NEW f \in Fetches, ReadRows(f)
      PROVE  FetchHolds(fetch'[g]) /\ FetchFresh(fetch'[g], mailbox')
  <2>1. CASE g = f
    BY <1>3, <2>1, ReadDoes DEF FetchHolds, FetchFresh, Queue
  <2>2. CASE g # f
    BY <1>1, <1>3, <2>2, ReadDoes
  <2>3. QED
    BY <2>1, <2>2
<1>4. ASSUME NEW f \in Fetches, Drain(f)
      PROVE  FetchHolds(fetch'[g]) /\ FetchFresh(fetch'[g], mailbox')
  <2>1. CASE g = f
    <3>1. fetch[f].rows \subseteq mailbox
      BY <1>1, <1>4, <2>1, DrainDoes DEF FetchFresh
    <3>2. \A r \in Requests, n \in Nodes : AtMostOne(Mine(mailbox, r, n))
      BY DEF OnceInv, OnceAt, Exclusive
    <3>3. \A r \in Requests, n \in Nodes : AtMostOne(Mine(fetch[f].rows, r, n))
      BY <3>1, <3>2 DEF AtMostOne, Mine
    <3>4. QED
      BY <1>1, <1>4, <2>1, <3>3, DrainDoes DEF FetchHolds, FetchFresh
  <2>2. CASE g # f
    <3>1. FetchHolds(fetch'[g])
      BY <1>1, <1>4, <2>2, DrainDoes, SameFetch
    <3>2. QED
      BY <1>1, <1>4, <2>2, <3>1, DrainDoes DEF FetchFresh
  <2>3. QED
    BY <2>1, <2>2
<1>5. ASSUME NEW f \in Fetches,
             (\E n \in Pollers : AskFetch(f, n)) \/ Received(f) \/ Unheard(f) \/ FetchFails(f)
      PROVE  FetchHolds(fetch'[g]) /\ FetchFresh(fetch'[g], mailbox')
  <2>1. CASE g = f
    BY <1>5, <2>1, ResetDoes, EmptyFetch
  <2>2. CASE g # f
    BY <1>1, <1>5, <2>2, ResetDoes
  <2>3. QED
    BY <2>1, <2>2
<1>6. ASSUME NEW f \in Fetches, Abandon(f)
      PROVE  FetchHolds(fetch'[g]) /\ FetchFresh(fetch'[g], mailbox')
  <2>1. FetchHolds(fetch'[g])
    BY <1>1, <1>6, AbandonDoes, SameFetch
  <2>2. QED
    BY <1>1, <1>6, <2>1, AbandonDoes DEF FetchFresh
<1>7. ASSUME Crash
      PROVE  FetchHolds(fetch'[g]) /\ FetchFresh(fetch'[g], mailbox')
  BY <1>7, CrashDoes, EmptyFetch
<1>8. ASSUME mailbox' = mailbox, fetch' = fetch
      PROVE  FetchHolds(fetch'[g]) /\ FetchFresh(fetch'[g], mailbox')
  BY <1>1, <1>8
<1>9. (\E r \in Requests : RequestStep(r) /\ ~Insert(r)) \/ UNCHANGED vars =>
         mailbox' = mailbox /\ fetch' = fetch
  BY DEF RequestStep, Accept, ReadCounts, NoRoom, Fails, Answer, vars
<1>10. QED
  BY <1>2, <1>3, <1>4, <1>5, <1>6, <1>7, <1>8, <1>9 DEF Next, RequestStep, FetchStep

-----------------------------------------------------------------------------
(* Times *)

\* Rows enter by an insert only.
LEMMA RowsShrink ==
    ASSUME TypeOK, [Next]_vars, \A r \in Requests : ~Insert(r)
    PROVE  AllRows' \subseteq AllRows
<1>1. ASSUME NEW f \in Fetches, ReadRows(f) PROVE AllRows' \subseteq AllRows
  BY <1>1, ReadDoes DEF AllRows, Queue
<1>2. ASSUME NEW f \in Fetches, Drain(f) PROVE AllRows' \subseteq AllRows
  BY <1>2, DrainDoes DEF AllRows
<1>3. ASSUME NEW f \in Fetches,
             (\E n \in Pollers : AskFetch(f, n)) \/ Received(f) \/ Unheard(f) \/ FetchFails(f)
      PROVE  AllRows' \subseteq AllRows
  <2>1. \A g \in Fetches : fetch'[g].rows = {} \/ fetch'[g].rows = fetch[g].rows
    BY <1>3, ResetDoes
  <2>2. QED
    BY <1>3, <2>1, ResetDoes DEF AllRows
<1>4. ASSUME NEW f \in Fetches, Abandon(f) PROVE AllRows' \subseteq AllRows
  BY <1>4, AbandonDoes DEF AllRows
<1>5. ASSUME Crash PROVE AllRows' \subseteq AllRows
  BY <1>5, CrashDoes DEF AllRows
<1>6. (\E r \in Requests : RequestStep(r)) \/ UNCHANGED vars => mailbox' = mailbox /\ fetch' = fetch
  BY DEF RequestStep, Accept, ReadCounts, NoRoom, Fails, Answer, vars
<1>7. mailbox' = mailbox /\ fetch' = fetch => AllRows' \subseteq AllRows
  BY DEF AllRows
<1>8. QED
  BY <1>1, <1>2, <1>3, <1>4, <1>5, <1>6, <1>7 DEF Next, FetchStep

LEMMA RowsInserted ==
    ASSUME TypeOK, NEW r \in Requests, Insert(r)
    PROVE  AllRows' \subseteq AllRows \cup NewRows(r)
<1>1. \A f \in Fetches : fetch'[f].rows = fetch[f].rows
  BY InsertDoes
<1>2. mailbox' = mailbox \cup NewRows(r)
  BY InsertDoes
<1>3. UNION {fetch'[f].rows : f \in Fetches} = UNION {fetch[f].rows : f \in Fetches}
  BY <1>1
<1>4. QED
  BY <1>2, <1>3 DEF AllRows

LEMMA NewRowsTimes ==
    ASSUME NEW r, NEW row \in NewRows(r)
    PROVE  row.request = r /\ row.at = IF req[r].kind = "relay" THEN req[r].at ELSE clock
  BY DEF NewRows

LEMMA AllRowsTyped == TypeOK => AllRows \subseteq Rows
  BY DEF TypeOK, AllRows, FetchStates

\* How a step advances a request.
LEMMA Advance ==
    ASSUME TypeOK, [Next]_vars, NEW q \in Requests
    PROVE  /\ clock' \in {clock, clock + 1}
           /\ req'[q].phase \in NotYet => req[q].phase \in NotYet
           /\ req[q].phase = "queued" => req'[q].phase = "queued"
           /\ req[q].phase # "unsent" => req'[q].phase # "unsent"
           /\ req[q].phase # "unsent" /\ req'[q].phase \in {"accepted", "reading"} =>
                /\ req[q].phase \in {"accepted", "reading"}
                /\ req'[q].kind = req[q].kind /\ req'[q].at = req[q].at
           /\ req'[q].at \in {0, req[q].at} \/ (req'[q].at = clock + 1 /\ clock' = clock + 1)
<1>1. ASSUME NEW r \in Requests, Accept(r)
      PROVE  /\ clock' = clock + 1 /\ req'[r].phase \in {"refused", "accepted"}
             /\ req[r].phase = "unsent" /\ req'[r].at \in {0, clock + 1}
             /\ \A p \in Requests \ {r} : req'[p] = req[p]
  BY <1>1, RequestStart
<1>2. ASSUME NEW r \in Requests, ReadCounts(r) \/ NoRoom(r) \/ Fails(r) \/ Answer(r)
      PROVE  /\ req[r].phase \notin {"unsent", "queued"} /\ req'[r].phase # "unsent"
             /\ req'[r].phase \in NotYet => req[r].phase \in NotYet
             /\ req[r].phase \in NotYet /\ req'[r].phase \in NotYet =>
                req[r].phase = "accepted" /\ req'[r].kind = req[r].kind /\ req'[r].at = req[r].at
             /\ clock' = clock /\ req'[r].at \in {0, req[r].at}
             /\ \A p \in Requests \ {r} : req'[p] = req[p]
  BY <1>2, RequestProgress
<1>3. ASSUME NEW r \in Requests, Insert(r)
      PROVE  /\ req[r].phase = "reading" /\ req'[r].phase = "committed"
             /\ \A p \in Requests : req'[p].kind = req[p].kind /\ req'[p].at = req[p].at
             /\ \A p \in Requests \ {r} : req'[p].phase = req[p].phase
             /\ clock' = clock
  BY <1>3, InsertDoes
<1>4. ASSUME NEW f \in Fetches, FetchStep(f)
      PROVE  /\ \A p \in Requests : /\ req'[p].kind = req[p].kind /\ req'[p].at = req[p].at
                                    /\ req'[p].phase = req[p].phase
             /\ clock' = clock
  <2>1. CASE Drain(f)
    BY <2>1, DrainDoes
  <2>2. CASE ~Drain(f)
    BY <1>4, <2>2 DEF FetchStep, AskFetch, ReadRows, Received, Abandon, Unheard, FetchFails
  <2>3. QED
    BY <2>1, <2>2
<1>5. ASSUME Crash
      PROVE  /\ req[q].phase = "unsent" <=> req'[q].phase = "unsent"
             /\ req[q].phase = "queued" <=> req'[q].phase = "queued"
             /\ req'[q].phase \notin {"accepted", "reading", "committed"}
             /\ req'[q].at \in {0, req[q].at}
             /\ clock' = clock
  BY <1>5, CrashDoes
<1>6. CASE \E r \in Requests : Accept(r)
  <2>1. PICK r \in Requests : Accept(r)
    BY <1>6
  <2>2. QED
    BY <1>1, <2>1 DEF NotYet
<1>7. CASE \E r \in Requests : ReadCounts(r) \/ NoRoom(r) \/ Fails(r) \/ Answer(r)
  <2>1. PICK r \in Requests : ReadCounts(r) \/ NoRoom(r) \/ Fails(r) \/ Answer(r)
    BY <1>7
  <2>2. QED
    BY <1>2, <2>1 DEF NotYet
<1>8. CASE \E r \in Requests : Insert(r)
  <2>1. PICK r \in Requests : Insert(r)
    BY <1>8
  <2>2. QED
    BY <1>3, <2>1 DEF NotYet
<1>9. CASE \E f \in Fetches : FetchStep(f)
  BY <1>4, <1>9
<1>10. CASE Crash
  BY <1>5, <1>10 DEF NotYet
<1>11. CASE UNCHANGED vars
  BY <1>11 DEF vars
<1>12. QED
  BY <1>6, <1>7, <1>8, <1>9, <1>10, <1>11 DEF Next, RequestStep

LEMMA ClockAdvances ==
    ASSUME TypeOK, [Next]_vars
    PROVE  clock \in Nat /\ clock' \in Nat /\ clock <= clock' /\ clock' \in {clock, clock + 1}
<1>1. clock' \in {clock, clock + 1}
  BY DEF Next, RequestStep, FetchStep, Accept, ReadCounts, Insert, NoRoom, Fails, Answer, AskFetch,
         ReadRows, Drain, Received, Abandon, Unheard, FetchFails, Crash, vars
<1>2. clock \in Nat
  BY DEF TypeOK
<1>3. QED
  BY <1>1, <1>2

LEMMA StepCommitted ==
    ASSUME TypeOK, CommittedInv, [Next]_vars
    PROVE  CommittedInv'
<1>1. \A r \in Requests : req[r].at \in Nat
  BY DEF TypeOK, ReqStates
<1>2. \A r \in Requests : req'[r].at <= clock'
  <2> SUFFICES ASSUME NEW r \in Requests PROVE req'[r].at <= clock'
    OBVIOUS
  <2>1. req[r].at \in Nat /\ req[r].at <= clock
    BY <1>1 DEF CommittedInv
  <2>2. req'[r].at \in {0, req[r].at} \/ (req'[r].at = clock + 1 /\ clock' = clock + 1)
    BY Advance
  <2>3. QED
    BY <2>1, <2>2, ClockAdvances
<1>3. ASSUME NEW row \in AllRows
      PROVE  row.at <= clock' /\ req'[row.request].phase \notin NotYet
  <2>1. row.request \in Requests /\ row.at \in Nat
    BY AllRowsTyped DEF Rows
  <2>2. row.at <= clock /\ req[row.request].phase \notin NotYet
    BY DEF CommittedInv
  <2>3. QED
    BY <2>1, <2>2, Advance, ClockAdvances
<1>4. CASE \E r \in Requests : Insert(r)
  <2>1. PICK r \in Requests : Insert(r)
    BY <1>4
  <2>2. ASSUME NEW row \in NewRows(r)
        PROVE  row.at <= clock' /\ req'[row.request].phase \notin NotYet
    <3>1. row.request = r /\ row.at \in {req[r].at, clock}
      BY NewRowsTimes
    <3>2. req[r].at <= clock /\ clock' = clock /\ req'[r].phase = "committed"
      BY <2>1, InsertDoes DEF CommittedInv
    <3>3. QED
      BY <3>1, <3>2, ClockAdvances DEF NotYet
  <2>3. QED
    BY <1>2, <1>3, <2>1, <2>2, RowsInserted DEF CommittedInv
<1>5. CASE \A r \in Requests : ~Insert(r)
  BY <1>2, <1>3, <1>5, RowsShrink DEF CommittedInv
<1>6. QED
  BY <1>4, <1>5

LEMMA BeforeGrows ==
    ASSUME TypeOK, [Next]_vars, NEW q \in Requests, NEW r \in Requests, <<q, r>> \in before'
    PROVE  <<q, r>> \in before \/ (Accept(r) /\ req[q].phase = "queued")
<1>1. ASSUME NEW p \in Requests, Accept(p)
      PROVE  <<q, r>> \in before \/ (p = r /\ req[q].phase = "queued")
  BY <1>1 DEF Accept
<1>2. before' = before \/ \E p \in Requests : Accept(p)
  BY DEF Next, RequestStep, FetchStep, ReadCounts, Insert, NoRoom, Fails, Answer, AskFetch,
         ReadRows, Drain, Received, Abandon, Unheard, FetchFails, Crash, vars
<1>3. QED
  BY <1>1, <1>2

LEMMA StepBefore ==
    ASSUME TypeOK, CommittedInv, BeforeInv, [Next]_vars
    PROVE  BeforeInv'
<1> DEFINE Waits(r) == req[r].phase \in {"accepted", "reading"} /\ req[r].kind = "relay"
<1> SUFFICES ASSUME NEW q \in Requests, NEW r \in Requests, <<q, r>> \in before'
             PROVE  /\ req'[q].phase = "queued" /\ q # r /\ req'[r].phase # "unsent"
                    /\ \A x \in AllRows' : x.request = q =>
                          /\ x.at < clock'
                          /\ Waits(r)' => x.at < req'[r].at
                          /\ \A y \in AllRows' : y.request = r => x.at < y.at
  BY DEF BeforeInv
<1>0. \A x \in AllRows : x.at \in Nat /\ x.at <= clock
  BY AllRowsTyped DEF Rows, CommittedInv
<1>1. CASE <<q, r>> \in before
  <2>1. /\ req[q].phase = "queued" /\ q # r /\ req[r].phase # "unsent"
        /\ \A x \in AllRows : x.request = q =>
              /\ x.at < clock
              /\ Waits(r) => x.at < req[r].at
              /\ \A y \in AllRows : y.request = r => x.at < y.at
    BY <1>1 DEF BeforeInv
  <2>2. req'[q].phase = "queued" /\ req'[r].phase # "unsent"
    BY <2>1, Advance
  <2>3. Waits(r)' => Waits(r) /\ req'[r].at = req[r].at
    BY <2>1, Advance
  <2>4. \A x \in AllRows : x.request = q => x.at < clock'
    BY <1>0, <2>1, ClockAdvances
  <2>5. CASE \A p \in Requests : ~Insert(p)
    <3>1. AllRows' \subseteq AllRows
      BY <2>5, RowsShrink
    <3> HIDE DEF Waits
    <3>2. QED
      BY <2>1, <2>2, <2>3, <2>4, <3>1
  <2>6. CASE \E p \in Requests : Insert(p)
    <3>1. PICK p \in Requests : Insert(p)
      BY <2>6
    <3>2. req[p].phase = "reading" /\ p # q /\ AllRows' \subseteq AllRows \cup NewRows(p)
      BY <2>1, <3>1, InsertDoes, RowsInserted
    <3>3. \A x \in AllRows' : x.request = q => x \in AllRows
      BY <3>2, NewRowsTimes
    <3>4. ASSUME NEW x \in AllRows, x.request = q, NEW y \in NewRows(p), y.request = r
          PROVE  x.at < y.at
      <4>1. p = r /\ y.at = IF req[r].kind = "relay" THEN req[r].at ELSE clock
        BY <3>4, NewRowsTimes
      <4>2. QED
        BY <2>1, <3>2, <3>4, <4>1
    <3> HIDE DEF Waits
    <3>5. QED
      BY <2>1, <2>2, <2>3, <2>4, <3>2, <3>3, <3>4
  <2>7. QED
    BY <2>5, <2>6
<1>2. CASE <<q, r>> \notin before
  <2>1. Accept(r) /\ req[q].phase = "queued"
    BY <1>2, BeforeGrows
  <2>2. /\ req[r].phase = "unsent" /\ q # r /\ req'[q].phase = "queued"
        /\ req'[r].phase # "unsent" /\ clock' = clock + 1
        /\ Waits(r)' => req'[r].at = clock + 1
    BY <2>1, RequestStart
  <2>3. AllRows' = AllRows
    BY <2>1, RequestStart DEF AllRows
  <2>4. \A y \in AllRows : y.request # r
    BY <2>2 DEF CommittedInv, NotYet
  <2>5. \A x \in AllRows : x.at < clock + 1
    BY <1>0, ClockAdvances
  <2> HIDE DEF Waits
  <2>6. QED
    BY <2>2, <2>3, <2>4, <2>5
<1>3. QED
  BY <1>1, <1>2

LEMMA StepAwaited ==
    ASSUME TypeOK, OneAwaited, [Next]_vars
    PROVE  OneAwaited'
<1> DEFINE Keeps == \A g \in Fetches : /\ fetch'[g].node = fetch[g].node
                                       /\ fetch'[g].awaited => fetch[g].awaited
<1>1. CASE Keeps
  BY <1>1 DEF OneAwaited
<1>2. ASSUME NEW f \in Fetches,
             (\E n \in Pollers : AskFetch(f, n)) \/ Received(f) \/ Unheard(f) \/ FetchFails(f)
      PROVE  OneAwaited'
  <2>1. \A g \in Fetches \ {f} : fetch'[g] = fetch[g]
    BY <1>2, ResetDoes
  <2>2. ~fetch'[f].awaited \/ \A g \in Fetches : fetch[g].awaited => fetch[g].node # fetch'[f].node
    BY <1>2, ResetDoes
  <2>3. QED
    BY <2>1, <2>2 DEF OneAwaited
<1>3. ASSUME NEW r \in Requests, Insert(r) PROVE Keeps
  BY <1>3, InsertDoes
<1>4. ASSUME NEW f \in Fetches, ReadRows(f) PROVE Keeps
  BY <1>4, ReadDoes
<1>5. ASSUME NEW f \in Fetches, Drain(f) PROVE Keeps
  BY <1>5, DrainDoes
<1>6. ASSUME NEW f \in Fetches, Abandon(f) PROVE Keeps
  BY <1>6, AbandonDoes
<1>7. ASSUME Crash PROVE OneAwaited'
  BY <1>7, CrashDoes DEF OneAwaited
<1>8. (\E r \in Requests : RequestStep(r) /\ ~Insert(r)) \/ UNCHANGED vars => Keeps
  BY DEF RequestStep, Accept, ReadCounts, NoRoom, Fails, Answer, vars
<1> HIDE DEF Keeps
<1>9. QED
  BY <1>1, <1>2, <1>3, <1>4, <1>5, <1>6, <1>7, <1>8 DEF Next, RequestStep, FetchStep

-----------------------------------------------------------------------------
(* Order *)

OrderAt(q, r, n) ==
    /\ Mine(lost, r, n) # {} \/ Answers(r, n) # {} \/ Heard(r, n) # {} =>
          Mine(mailbox, q, n) = {}
    /\ \A i \in Heard(q, n), j \in Heard(r, n) : i < j
    /\ Heard(r, n) # {} => \A f \in Answers(q, n) : ~fetch[f].awaited

\* No fetch drains or delivers anything.
LEMMA QuietOrder ==
    ASSUME NEW q \in Requests, NEW r \in Requests, NEW n \in Nodes, OrderAt(q, r, n),
           UNCHANGED <<lost, got>>, Mine(mailbox', q, n) \subseteq Mine(mailbox, q, n),
           \A f \in Fetches : /\ fetch'[f].step = "drained" <=> fetch[f].step = "drained"
                              /\ Answered(f) => fetch'[f].rows = fetch[f].rows
                              /\ Answered(f) /\ fetch'[f].awaited => fetch[f].awaited
    PROVE  OrderAt(q, r, n)'
<1>1. /\ Answers(q, n)' = Answers(q, n) /\ Answers(r, n)' = Answers(r, n)
      /\ \A f \in Answers(q, n) : fetch'[f].awaited => fetch[f].awaited
  BY DEF Answers, Answered, Mine
<1>2. /\ Mine(lost, r, n)' = Mine(lost, r, n) /\ Heard(q, n)' = Heard(q, n)
      /\ Heard(r, n)' = Heard(r, n)
  BY DEF Mine, Heard
<1>3. Mine(mailbox, q, n)' = Mine(mailbox', q, n)
  BY DEF Mine
<1>4. QED
  BY <1>1, <1>2, <1>3 DEF OrderAt

LEMMA AcceptOrder ==
    ASSUME TypeOK, OnceInv, NEW q \in Requests, NEW r \in Requests, NEW n \in Nodes, Accept(r)
    PROVE  OrderAt(q, r, n)'
<1>1. Nowhere(r, n)
  BY RequestStart DEF OnceInv, OnceAt, NotYet
<1>2. /\ Mine(lost, r, n)' = {} /\ Answers(r, n)' = {} /\ Heard(r, n)' = {}
  BY <1>1, RequestStart DEF Nowhere, Answers, Answered, Heard, Mine
<1>3. QED
  BY <1>2 DEF OrderAt

LEMMA InsertOrder ==
    ASSUME TypeOK, NEW q \in Requests, NEW r \in Requests, NEW n \in Nodes, OrderAt(q, r, n),
           req[q].phase = "queued", NEW p \in Requests, Insert(p)
    PROVE  OrderAt(q, r, n)'
<1>1. p # q
  BY InsertDoes
<1>2. Mine(mailbox', q, n) \subseteq Mine(mailbox, q, n)
  <2>1. mailbox' = mailbox \cup NewRows(p) /\ \A row \in NewRows(p) : row.request = p
    BY InsertDoes, NewRowsTimes
  <2>2. QED
    BY <1>1, <2>1 DEF Mine
<1>3. QED
  BY <1>2, InsertDoes, QuietOrder

LEMMA DrainOrder ==
    ASSUME TypeOK, FetchInv, NEW q \in Requests, NEW r \in Requests, NEW n \in Nodes,
           OrderAt(q, r, n), NEW f \in Fetches, Drain(f)
    PROVE  OrderAt(q, r, n)'
<1>1. \A p \in {q, r} :
        /\ Mine(lost, p, n)' = Mine(lost, p, n) /\ Heard(p, n)' = Heard(p, n)
        /\ Answers(p, n)' = IF Mine(fetch[f].rows, p, n) = {} THEN Answers(p, n)
                                                             ELSE Answers(p, n) \cup {f}
        /\ Mine(mailbox, p, n)' = Mine(mailbox, p, n) \ Mine(fetch[f].rows, p, n)
  BY DrainPlaces
<1>2. \/ \A p \in Requests : Mine(fetch[f].rows, p, n) = {}
      \/ \A p \in Requests : Mine(fetch[f].rows, p, n) = Mine(mailbox, p, n)
  BY DrainPlaces
<1>3. \A g \in Fetches : fetch'[g].awaited = fetch[g].awaited
  BY DrainDoes
<1>4. Answers(q, n) \subseteq Fetches
  BY DEF Answers
<1>5. QED
  BY <1>1, <1>2, <1>3, <1>4 DEF OrderAt

\* What an answer that is received adds to what its node has heard.
\* What a poll loop has heard after an answer whose rows came in the order of s.
HeardIn(f, n, s) ==
    LET k == Cardinality(fetch[f].rows) IN
    /\ \A i, j \in 1..k : i < j => s[i].at <= s[j].at
    /\ \A r \in Requests :
         /\ Heard(r, n) \subseteq 1..Len(got[n])
         /\ \A i \in Heard(r, n)' :
              /\ i \in Nat
              /\ \/ i \in Heard(r, n)
                 \/ /\ f \in Answers(r, n) /\ i > Len(got[n])
                    /\ i - Len(got[n]) \in 1..k /\ s[i - Len(got[n])].request = r

LEMMA ReceivedHeard ==
    ASSUME TypeOK, FiniteInv, FetchInv, NEW f \in Fetches, Received(f), NEW n \in Nodes
    PROVE  \/ /\ n # fetch[f].node
              /\ \A r \in Requests : Heard(r, n)' = Heard(r, n) /\ f \notin Answers(r, n)
           \/ /\ n = fetch[f].node /\ Len(got[n]) \in Nat
              /\ Cardinality(fetch[f].rows) \in Nat
              /\ \E s \in [1..Cardinality(fetch[f].rows) -> fetch[f].rows] : HeardIn(f, n, s)
<1> DEFINE rows == fetch[f].rows
           k == Cardinality(rows)
<1>1. (\A row \in rows : row.target = fetch[f].node) /\ Answered(f)
  BY DEF FetchInv, FetchHolds, Answered, Received
<1>2. CASE n # fetch[f].node
  <2>1. \A r \in Requests : Mine(rows, r, n) = {}
    BY <1>1, <1>2 DEF Mine
  <2>2. got'[n] = got[n]
    BY <1>2, ReceivedDoes
  <2>3. QED
    BY <1>2, <2>1, <2>2 DEF Heard, Answers
<1>3. CASE n = fetch[f].node
  <2> DEFINE len == Len(got[n])
  <2>1. PICK s \in [1..k -> rows] :
          /\ k \in Nat
          /\ \A i, j \in 1..k : i < j => s[i].at <= s[j].at
          /\ len \in Nat /\ DOMAIN got[n] = 1..len
          /\ DOMAIN got'[n] = 1..(len + k)
          /\ \A i \in 1..len : got'[n][i] = got[n][i]
          /\ \A i \in 1..k : got'[n][len + i] = s[i]
    BY <1>3, ReceivedDoes
  <2>2. ASSUME NEW r \in Requests, NEW i \in Heard(r, n)', i \notin Heard(r, n)
        PROVE  /\ f \in Answers(r, n) /\ i > len
               /\ i - len \in 1..k /\ s[i - len].request = r
    <3>1. i \in 1..(len + k) /\ got'[n][i].request = r
      BY <2>1, <2>2 DEF Heard
    <3>2. i \notin 1..len
      BY <2>1, <2>2, <3>1 DEF Heard
    <3> HIDE DEF len, k
    <3>3. i > len /\ i - len \in 1..k /\ i = len + (i - len)
      BY <2>1, <3>1, <3>2
    <3>4. s[i - len].request = r /\ s[i - len] \in rows
      BY <2>1, <3>1, <3>3
    <3>5. f \in Answers(r, n)
      BY <1>1, <1>3, <3>4 DEF Answers, Mine
    <3>6. QED
      BY <3>3, <3>4, <3>5
  <2>3. \A r \in Requests : /\ Heard(r, n) \subseteq 1..len
                            /\ Heard(r, n)' \subseteq 1..(len + k)
    BY <2>1 DEF Heard
  <2> HIDE DEF len, k, rows
  <2>4. 1..(len + k) \subseteq Nat
    BY <2>1
  <2>5. QED
    BY <1>3, <2>1, <2>2, <2>3, <2>4 DEF len, k, rows, HeardIn
<1>4. QED
  BY <1>2, <1>3

LEMMA ReceivedOrder ==
    ASSUME TypeOK, FiniteInv, FetchInv, BeforeInv, OneAwaited,
           NEW q \in Requests, NEW r \in Requests, NEW n \in Nodes, <<q, r>> \in before,
           OrderAt(q, r, n), NEW f \in Fetches, Received(f)
    PROVE  OrderAt(q, r, n)'
<1>1. \A p \in {q, r} :
        /\ Mine(mailbox, p, n)' = Mine(mailbox, p, n) /\ Mine(lost, p, n)' = Mine(lost, p, n)
  BY DEF Received, Mine
<1>2. \A p \in {q, r} : Answers(p, n)' = Answers(p, n) \ {f}
  <2>1. fetch'[f].step # "drained" /\ \A g \in Fetches \ {f} : fetch'[g] = fetch[g]
    BY ResetDoes
  <2>2. QED
    BY <2>1 DEF Answers, Answered
<1>3. \A g \in Fetches \ {f} : fetch'[g].awaited = fetch[g].awaited
  BY ResetDoes
<1>4. Answers(q, n) \subseteq Fetches
  BY DEF Answers
<1>5. CASE n # fetch[f].node
  <2>1. \A p \in {q, r} : Heard(p, n)' = Heard(p, n) /\ f \notin Answers(p, n)
    BY <1>5, ReceivedHeard
  <2>2. QED
    BY <1>1, <1>2, <1>3, <1>4, <2>1 DEF OrderAt
<1>6. CASE n = fetch[f].node
  <2> DEFINE len == Len(got[n])
             k == Cardinality(fetch[f].rows)
  <2>1. PICK s \in [1..k -> fetch[f].rows] : HeardIn(f, n, s)
    BY <1>6, ReceivedHeard
  <2>2. len \in Nat /\ k \in Nat
    BY <1>6, ReceivedHeard
  <2>3. /\ \A i, j \in 1..k : i < j => s[i].at <= s[j].at
        /\ \A p \in Requests :
             /\ Heard(p, n) \subseteq 1..len
             /\ \A i \in Heard(p, n)' :
                  /\ i \in Nat
                  /\ \/ i \in Heard(p, n)
                     \/ /\ f \in Answers(p, n) /\ i > len
                        /\ i - len \in 1..k /\ s[i - len].request = p
    BY <2>1 DEF HeardIn
  <2> HIDE DEF len, k
  <2>4. fetch[f].awaited
    BY DEF Received
  <2>5. ASSUME Heard(r, n)' # {}
        PROVE  Heard(r, n) # {} \/ f \in Answers(r, n)
    BY <2>2, <2>3, <2>5
  <2>6. \A g \in Answers(q, n) \ {f} : ~fetch[g].awaited
    <3> SUFFICES ASSUME NEW g \in Answers(q, n) \ {f} PROVE ~fetch[g].awaited
      OBVIOUS
    <3>1. g \in Fetches /\ g # f /\ fetch[g].node = n
      BY DEF Answers, Mine, FetchInv, FetchHolds
    <3>2. QED
      BY <1>6, <2>4, <3>1 DEF OneAwaited
  <2>7. ASSUME NEW i \in Heard(q, n)', NEW j \in Heard(r, n)' PROVE i < j
    <3>1. CASE i \in Heard(q, n) /\ j \in Heard(r, n)
      BY <3>1 DEF OrderAt
    <3>2. CASE i \in Heard(q, n) /\ j \notin Heard(r, n)
      <4>1. i \in 1..len /\ j > len /\ j \in Nat
        BY <2>2, <2>3, <2>7, <3>2
      <4>2. QED
        BY <2>2, <2>3, <4>1
    <3>3. CASE i \notin Heard(q, n) /\ j \in Heard(r, n)
      <4>1. f \in Answers(q, n)
        BY <2>2, <2>3, <2>7, <3>3
      <4>2. QED
        BY <2>4, <3>3, <4>1 DEF OrderAt
    <3>4. CASE i \notin Heard(q, n) /\ j \notin Heard(r, n)
      <4>1. /\ i \in Nat /\ j \in Nat /\ i - len \in 1..k /\ j - len \in 1..k
            /\ s[i - len].request = q /\ s[j - len].request = r
        BY <2>2, <2>3, <2>7, <3>4
      <4>2. s[i - len] \in AllRows /\ s[j - len] \in AllRows
        BY <4>1 DEF AllRows
      <4>3. q # r /\ s[i - len].at < s[j - len].at
        BY <4>1, <4>2 DEF BeforeInv
      <4>4. s[i - len].at \in Nat /\ s[j - len].at \in Nat
        BY <4>2, AllRowsTyped DEF Rows
      <4>5. i - len # j - len
        BY <4>1, <4>3
      <4>6. ~(j - len < i - len)
        <5>1. j - len < i - len => s[j - len].at <= s[i - len].at
          BY <2>2, <2>3, <4>1
        <5>2. QED
          BY <4>3, <4>4, <5>1
      <4>7. QED
        BY <2>2, <2>3, <4>1, <4>5, <4>6
    <3>5. QED
      BY <3>1, <3>2, <3>3, <3>4
  <2>8. QED
    BY <1>1, <1>2, <1>3, <1>4, <2>5, <2>6, <2>7 DEF OrderAt
<1>7. QED
  BY <1>5, <1>6

LEMMA UnheardOrder ==
    ASSUME TypeOK, NEW q \in Requests, NEW r \in Requests, NEW n \in Nodes, OrderAt(q, r, n),
           NEW f \in Fetches, Unheard(f)
    PROVE  OrderAt(q, r, n)'
<1>1. \A p \in {q, r} :
        /\ Mine(mailbox, p, n)' = Mine(mailbox, p, n) /\ Heard(p, n)' = Heard(p, n)
        /\ Mine(lost, p, n)' = Mine(lost, p, n) \cup Mine(fetch[f].rows, p, n)
  BY DEF Unheard, Mine, Heard
<1>2. \A p \in {q, r} : Answers(p, n)' = Answers(p, n) \ {f}
  BY ResetDoes DEF Answers, Answered, Unheard
<1>3. Mine(fetch[f].rows, r, n) # {} => f \in Answers(r, n)
  BY DEF Answers, Answered, Unheard
<1>4. \A g \in Answers(q, n) \ {f} : fetch'[g].awaited = fetch[g].awaited
  BY ResetDoes DEF Answers
<1>5. QED
  BY <1>1, <1>2, <1>3, <1>4 DEF OrderAt

LEMMA CrashOrder ==
    ASSUME TypeOK, NEW q \in Requests, NEW r \in Requests, NEW n \in Nodes, OrderAt(q, r, n), Crash
    PROVE  OrderAt(q, r, n)'
<1> DEFINE swept == Mine(UNION {fetch[f].rows : f \in {f \in Fetches : Answered(f)}}, r, n)
<1>1. \A p \in {q, r} : /\ Mine(mailbox, p, n)' = Mine(mailbox, p, n)
                         /\ Heard(p, n)' = Heard(p, n) /\ Answers(p, n)' = {}
  BY CrashDoes DEF Mine, Heard, Answers, Answered
<1>2. Mine(lost, r, n)' = Mine(lost, r, n) \cup swept
  BY CrashDoes DEF Mine
<1>3. swept # {} => Answers(r, n) # {}
  BY DEF Answers, Mine
<1> HIDE DEF swept
<1>4. QED
  BY <1>1, <1>2, <1>3 DEF OrderAt

LEMMA StepOrder ==
    ASSUME TypeOK, FiniteInv, OnceInv, FetchInv, BeforeInv, OneAwaited, OrderInv, [Next]_vars
    PROVE  OrderInv'
<1> SUFFICES ASSUME NEW q \in Requests, NEW r \in Requests, NEW n \in Nodes, <<q, r>> \in before'
             PROVE  OrderAt(q, r, n)'
  BY DEF OrderInv, OrderAt
<1>1. CASE <<q, r>> \notin before
  BY <1>1, BeforeGrows, AcceptOrder
<1>2. CASE <<q, r>> \in before
  <2>1. OrderAt(q, r, n) /\ req[q].phase = "queued"
    BY <1>2 DEF OrderInv, OrderAt, BeforeInv
  <2>2. ASSUME NEW p \in Requests, Insert(p) PROVE OrderAt(q, r, n)'
    BY <2>1, <2>2, InsertOrder
  <2>3. ASSUME NEW f \in Fetches, Drain(f) PROVE OrderAt(q, r, n)'
    BY <2>1, <2>3, DrainOrder
  <2>4. ASSUME NEW f \in Fetches, Received(f) PROVE OrderAt(q, r, n)'
    BY <1>2, <2>1, <2>4, ReceivedOrder
  <2>5. ASSUME NEW f \in Fetches, Unheard(f) PROVE OrderAt(q, r, n)'
    BY <2>1, <2>5, UnheardOrder
  <2>6. CASE Crash
    BY <2>1, <2>6, CrashOrder
  <2> DEFINE Quiet == /\ UNCHANGED <<lost, got, mailbox>>
                      /\ \A f \in Fetches :
                           /\ fetch'[f].step = "drained" <=> fetch[f].step = "drained"
                           /\ Answered(f) => fetch'[f].rows = fetch[f].rows
                           /\ Answered(f) /\ fetch'[f].awaited => fetch[f].awaited
  <2>7. ASSUME NEW f \in Fetches, (\E m \in Pollers : AskFetch(f, m)) \/ FetchFails(f)
        PROVE  Quiet
    <3>1. fetch[f].step # "drained" /\ UNCHANGED <<lost, got, mailbox>>
      BY <2>7 DEF AskFetch, FetchFails
    <3>2. fetch'[f].step # "drained" /\ \A g \in Fetches \ {f} : fetch'[g] = fetch[g]
      BY <2>7, ResetDoes
    <3>3. QED
      BY <3>1, <3>2 DEF Answered
  <2>8. ASSUME NEW f \in Fetches, ReadRows(f) PROVE Quiet
    BY <2>8, ReadDoes DEF Answered
  <2>9. ASSUME NEW f \in Fetches, Abandon(f) PROVE Quiet
    BY <2>9, AbandonDoes
  <2>10. (\E p \in Requests : RequestStep(p) /\ ~Insert(p)) \/ UNCHANGED vars => Quiet
    BY DEF RequestStep, Accept, ReadCounts, NoRoom, Fails, Answer, vars
  <2>11. Quiet => OrderAt(q, r, n)'
    BY <2>1, QuietOrder DEF Mine
  <2> HIDE DEF Quiet
  <2>12. QED
    BY <2>2, <2>3, <2>4, <2>5, <2>6, <2>7, <2>8, <2>9, <2>10, <2>11 DEF Next, RequestStep, FetchStep
<1>3. QED
  BY <1>1, <1>2

LEMMA InitFlow == Init => FlowInv
<1> SUFFICES ASSUME Init PROVE FlowInv
  OBVIOUS
<1>1. \A f \in Fetches : fetch[f].step = "idle" /\ fetch[f].rows = {} /\ ~fetch[f].awaited
  BY DEF Init, Idle
<1>2. \A r \in Requests : req[r].phase = "unsent" /\ req[r].at = 0
  BY DEF Init, Unsent
<1>3. \A r \in Requests, n \in Nodes : Nowhere(r, n)
  BY <1>1 DEF Init, Nowhere, Mine, Answers, Answered, Heard
<1>4. OnceInv
  BY <1>2, <1>3 DEF OnceInv, OnceAt, Nowhere, Exclusive, AtMostOne
<1>5. FetchInv
  BY <1>1, EmptyFetch DEF FetchInv
<1>6. CommittedInv
  <2>1. AllRows = {}
    BY <1>1 DEF Init, AllRows
  <2>2. QED
    BY <1>2, <2>1 DEF Init, CommittedInv
<1>7. BeforeInv /\ OneAwaited /\ OrderInv
  BY <1>1 DEF Init, BeforeInv, OneAwaited, OrderInv
<1>8. QED
  BY <1>4, <1>5, <1>6, <1>7, InitIInv DEF FlowInv, PlaceInv

LEMMA FlowInvariance == Spec => []FlowInv
<1>1. FlowInv /\ [Next]_vars => FlowInv'
  <2> SUFFICES ASSUME FlowInv, [Next]_vars PROVE FlowInv'
    OBVIOUS
  <2>1. IInv /\ OnceInv /\ FetchInv /\ CommittedInv /\ BeforeInv /\ OneAwaited /\ OrderInv
    BY DEF FlowInv, PlaceInv
  <2>2. TypeOK /\ FiniteInv
    BY <2>1 DEF IInv
  <2>3. IInv'
    BY <2>1, StepTypeOK, StepFiniteInv, StepRoomInv, StepBounded DEF IInv
  <2>4. PlaceInv'
    BY <2>1, <2>2, StepOnce, StepFetchInv, StepCommitted DEF PlaceInv
  <2>5. BeforeInv' /\ OneAwaited' /\ OrderInv'
    BY <2>1, <2>2, StepBefore, StepAwaited, StepOrder
  <2>6. QED
    BY <2>3, <2>4, <2>5 DEF FlowInv
<1>2. QED
  BY InitFlow, <1>1, PTL DEF Spec

LEMMA ExclusiveCounts ==
    ASSUME NEW B, NEW L, NEW A, NEW H, Exclusive(B, L, A, H)
    PROVE  LET places == Cardinality(B) + Cardinality(L) + Cardinality(A) + Cardinality(H)
           IN  /\ places <= 1
               /\ B # {} \/ L # {} \/ A # {} \/ H # {} => places = 1
<1>1. ASSUME NEW S, AtMostOne(S)
      PROVE  Cardinality(S) = IF S = {} THEN 0 ELSE 1
  <2>1. CASE S = {}
    BY <2>1, FS_EmptySet
  <2>2. CASE S # {}
    <3>1. PICK x : x \in S
      BY <2>2
    <3>2. S = {x}
      BY <1>1, <3>1 DEF AtMostOne
    <3>3. QED
      BY <3>2, FS_Singleton
  <2>3. QED
    BY <2>1, <2>2
<1>2. /\ Cardinality(B) = IF B = {} THEN 0 ELSE 1
      /\ Cardinality(L) = IF L = {} THEN 0 ELSE 1
      /\ Cardinality(A) = IF A = {} THEN 0 ELSE 1
      /\ Cardinality(H) = IF H = {} THEN 0 ELSE 1
  BY <1>1 DEF Exclusive
<1>3. QED
  BY <1>2 DEF Exclusive

\* However fetches, abandoned polls, failed commits and crashes overlap, a row a commit
\* queued is in the mailbox, in one answer under way, received once or lost with its answer,
\* in exactly one of the four (fetch_mailbox, enqueue_mailbox_entry, enqueue_broadcast_entries).
THEOREM ExactlyOnceHolds == Spec => []ExactlyOnce
<1>1. FlowInv => ExactlyOnce
  <2> SUFFICES ASSUME FlowInv, NEW r \in Requests, NEW n \in Nodes
               PROVE  LET places == Cardinality(Mine(mailbox, r, n)) + Cardinality(Mine(lost, r, n))
                                      + Cardinality(Answers(r, n)) + Cardinality(Heard(r, n))
                      IN  /\ places <= 1
                          /\ req[r].phase \in {"committed", "queued"} /\ n \in req[r].room =>
                                places = 1
    BY DEF ExactlyOnce, Mine, Answers, Heard
  <2>1. OnceAt(r, n)
    BY DEF FlowInv, PlaceInv, OnceInv
  <2>2. QED
    BY <2>1, ExclusiveCounts DEF OnceAt, Nowhere
<1>2. QED
  BY FlowInvariance, <1>1, PTL

\* A blob whose sender was told "queued" before another blob for the same node was sent is
\* never received after it, nor still in the mailbox when the later one has been received
\* (ORDER BY created_at, and the one fetch a poll loop waits for).
THEOREM SequentialOrderHolds == Spec => []SequentialOrder
<1>1. FlowInv => SequentialOrder
  <2> SUFFICES ASSUME FlowInv, NEW n \in Nodes, NEW j \in DOMAIN got[n], NEW q \in Requests,
                      <<q, got[n][j].request>> \in before
               PROVE  /\ \A i \in DOMAIN got[n] : got[n][i].request = q => i < j
                      /\ \A row \in Queue(n) : row.request # q
    BY DEF SequentialOrder
  <2> DEFINE r == got[n][j].request
  <2>1. r \in Requests
    BY DEF FlowInv, IInv, TypeOK
  <2>2. j \in Heard(r, n)
    BY DEF Heard
  <2>3. /\ Mine(mailbox, q, n) = {}
        /\ \A i \in Heard(q, n) : i < j
    BY <2>1, <2>2 DEF FlowInv, OrderInv
  <2>4. QED
    BY <2>3 DEF Mine, Heard, Queue
<1>2. QED
  BY FlowInvariance, <1>1, PTL
================================================================================
