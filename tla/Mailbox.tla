--------------------------------- MODULE Mailbox ---------------------------------
(***************************************************************************)
(* The durable mailbox of the coordination server: the requests that queue *)
(* a blob for one node (relay) or for many (broadcast), and the poll that  *)
(* drains a node's queue.                                                  *)
(*                                                                         *)
(* Every handler runs on its own connection to one SQLite file, so what    *)
(* keeps two of them apart is the transaction: a deferred transaction      *)
(* reads a snapshot and may write only while no other commit has come      *)
(* after that snapshot.  `fresh` says so of an open transaction.           *)
(*                                                                         *)
(* A blob is the request that carried it; a creation time is a reading of  *)
(* `clock`, which advances with every request that arrives.                *)
(***************************************************************************)
EXTENDS Naturals, FiniteSets, Sequences, SequencesExt

CONSTANTS
    Nodes,      \* registered nodes
    Pollers,    \* those whose daemon runs and polls its mailbox
    Members,    \* those the broadcasts' project counts as members
    Requests,   \* relay and broadcast requests, each sent once
    Inputs,     \* what a request may ask: [kind, from, targets]
    Fetches,    \* handler slots of the mailbox poll
    MaxMailbox  \* MAX_MAILBOX_PER_NODE

Kinds == {"relay", "broadcast"}

ASSUME NodesAssumption == Members \subseteq Nodes /\ Pollers \subseteq Nodes
ASSUME InputsAssumption ==
    /\ IsFiniteSet(Nodes)
    /\ Inputs \subseteq [kind : Kinds, from : Nodes, targets : SUBSET Nodes]
    /\ \A input \in Inputs : input.kind = "relay" => Cardinality(input.targets) = 1
ASSUME MaxMailboxAssumption == MaxMailbox \in Nat \ {0}

None == "none"
ASSUME NoneAssumption == None \notin Nodes

VARIABLES
    mailbox,  \* server_mailbox: rows [request, target, at]
    clock,    \* the server's clock
    req,      \* each request: how far its handler has come
    fetch,    \* each poll handler: its node, its snapshot, what it returned
    got,      \* rows each node's poll loop has received, in order
    lost,     \* rows drained into an answer that never arrived
    before    \* <<r1, r2>>: r1 was answered "queued" before r2 was sent

vars == <<mailbox, clock, req, fetch, got, lost, before>>

Rows == [request : Requests, target : Nodes, at : Nat]
Phases == {"unsent", "accepted", "reading", "committed", "queued", "refused", "failed"}
Steps == {"idle", "asked", "reading", "drained"}

\* A broadcast makes no row for the node that sent it.
ReqStates ==
    {q \in [phase : Phases, kind : Kinds, from : Nodes \cup {None},
            targets : SUBSET Nodes, at : Nat, room : SUBSET Nodes, fresh : BOOLEAN] :
        q.kind = "broadcast" => q.from \notin q.room}
FetchStates == [step : Steps, node : Nodes \cup {None}, rows : SUBSET Rows,
                fresh : BOOLEAN, awaited : BOOLEAN]

Queue(n) == {row \in mailbox : row.target = n}

Unsent == [phase |-> "unsent", kind |-> "relay", from |-> None,
           targets |-> {}, at |-> 0, room |-> {}, fresh |-> FALSE]
\* A request that was turned away, or whose transaction rolled back.
Ended(phase) == [Unsent EXCEPT !.phase = phase]

Idle == [step |-> "idle", node |-> None, rows |-> {}, fresh |-> FALSE, awaited |-> FALSE]

Init ==
    /\ mailbox = {}
    /\ clock = 0
    /\ req = [r \in Requests |-> Unsent]
    /\ fetch = [f \in Fetches |-> Idle]
    /\ got = [n \in Nodes |-> <<>>]
    /\ lost = {}
    /\ before = {}

-----------------------------------------------------------------------------
(* SQLite: a commit makes the snapshot of every other open transaction old. *)

StaleRequests(others) ==
    [r \in Requests |-> IF r \in others THEN [req[r] EXCEPT !.fresh = FALSE] ELSE req[r]]

StaleFetches(others) ==
    [f \in Fetches |-> IF f \in others THEN [fetch[f] EXCEPT !.fresh = FALSE] ELSE fetch[f]]

-----------------------------------------------------------------------------
(* relay_message and broadcast_message *)

\* The handler of a relay builds its entry, timestamp included, before it opens
\* the database; that of a broadcast checks first that the sender is a member.
Accept(r) ==
    /\ req[r].phase = "unsent"
    /\ \E input \in Inputs :
        req' = [req EXCEPT ![r] =
                  IF input.kind = "broadcast" /\ input.from \notin Members
                  THEN Ended("refused")
                  ELSE [Unsent EXCEPT !.phase = "accepted", !.kind = input.kind,
                                      !.from = input.from, !.targets = input.targets,
                                      !.at = IF input.kind = "relay" THEN clock + 1 ELSE 0]]
    /\ clock' = clock + 1
    /\ before' = before \cup {<<q, r>> : q \in {q \in Requests : req[q].phase = "queued"}}
    /\ UNCHANGED <<mailbox, fetch, got, lost>>

\* The targets whose SELECT COUNT(*) is below the bound.
Room(targets) == {n \in targets : Cardinality(Queue(n)) < MaxMailbox}

\* Mutant of Recipients: a broadcast is queued for its sender too.
RecipientsAll(r) == req[r].targets

\* A broadcast skips its sender; a relay may target it.
Recipients(r) ==
    IF req[r].kind = "relay" THEN req[r].targets ELSE req[r].targets \ {req[r].from}

\* The transaction begins with the COUNT queries.
ReadCounts(r) ==
    /\ req[r].phase = "accepted"
    /\ req' = [req EXCEPT ![r].phase = "reading", ![r].fresh = TRUE,
                          ![r].room = Room(Recipients(r))]
    /\ UNCHANGED <<mailbox, clock, fetch, got, lost, before>>

\* The rows of a relay carry the time its handler began, those of a broadcast the
\* time they are written.
NewRows(r) ==
    {[request |-> r, target |-> n, at |-> IF req[r].kind = "relay" THEN req[r].at ELSE clock] :
        n \in req[r].room}

\* Mutant of Insert: the counts are read in a transaction of their own.
InsertAfterCount(r) ==
    /\ req[r].phase = "reading"
    /\ req[r].room # {}
    /\ mailbox' = mailbox \cup NewRows(r)
    /\ req' = [StaleRequests(Requests) EXCEPT ![r].phase = "committed", ![r].fresh = FALSE]
    /\ fetch' = StaleFetches(Fetches)
    /\ UNCHANGED <<clock, got, lost, before>>

\* The INSERTs and the commit, which fails if another commit came first (Fails).
Insert(r) ==
    /\ req[r].phase = "reading" /\ req[r].fresh
    /\ req[r].room # {}
    /\ mailbox' = mailbox \cup NewRows(r)
    /\ req' = [StaleRequests(Requests) EXCEPT ![r].phase = "committed", ![r].fresh = FALSE]
    /\ fetch' = StaleFetches(Fetches)
    /\ UNCHANGED <<clock, got, lost, before>>

\* No room: a relay is refused (429), a broadcast commits an empty transaction.
NoRoom(r) ==
    /\ req[r].phase = "reading"
    /\ req[r].room = {}
    /\ req' = [req EXCEPT ![r] = Ended("refused")]
    /\ UNCHANGED <<mailbox, clock, fetch, got, lost, before>>

\* SQLITE_BUSY or any other database error answers 500 and rolls back.
Fails(r) ==
    /\ req[r].phase = "reading"
    /\ req' = [req EXCEPT ![r] = Ended("failed")]
    /\ UNCHANGED <<mailbox, clock, fetch, got, lost, before>>

\* The answer reaches the sender, some time after the commit.
Answer(r) ==
    /\ req[r].phase = "committed"
    /\ req' = [req EXCEPT ![r].phase = "queued"]
    /\ UNCHANGED <<mailbox, clock, fetch, got, lost, before>>

-----------------------------------------------------------------------------
(* fetch_mailbox, and the poll loop that calls it *)

Awaiting(n) == {f \in Fetches : fetch[f].awaited /\ fetch[f].node = n}

\* The poll loop of a daemon waits for one fetch at a time.
AskFetch(f, n) ==
    /\ fetch[f].step = "idle"
    /\ Awaiting(n) = {}
    /\ fetch' = [fetch EXCEPT ![f] = [Idle EXCEPT !.step = "asked", !.node = n, !.awaited = TRUE]]
    /\ UNCHANGED <<mailbox, clock, req, got, lost, before>>

\* The transaction begins with the SELECT.
ReadRows(f) ==
    /\ fetch[f].step = "asked"
    /\ fetch' = [fetch EXCEPT ![f].step = "reading", ![f].fresh = TRUE,
                              ![f].rows = Queue(fetch[f].node)]
    /\ UNCHANGED <<mailbox, clock, req, got, lost, before>>

\* Mutant of Drain: the rows are selected in one transaction and deleted in another.
DrainAfterSelect(f) ==
    /\ fetch[f].step = "reading"
    /\ mailbox' = mailbox \ fetch[f].rows
    /\ fetch' = [StaleFetches(Fetches) EXCEPT ![f].step = "drained", ![f].fresh = FALSE]
    /\ req' = StaleRequests(Requests)
    /\ UNCHANGED <<clock, got, lost, before>>

\* The DELETEs and the commit; an empty snapshot leaves nothing to write.
Drain(f) ==
    /\ fetch[f].step = "reading"
    /\ fetch[f].fresh \/ fetch[f].rows = {}
    /\ mailbox' = mailbox \ fetch[f].rows
    /\ IF fetch[f].rows = {}
       THEN /\ fetch' = [fetch EXCEPT ![f].step = "drained", ![f].fresh = FALSE]
            /\ UNCHANGED req
       ELSE /\ fetch' = [StaleFetches(Fetches) EXCEPT ![f].step = "drained", ![f].fresh = FALSE]
            /\ req' = StaleRequests(Requests)
    /\ UNCHANGED <<clock, got, lost, before>>

\* Mutant of InOrder: the answer lists the rows in whatever order they are found.
Unordered(rows) == SetToSeqs(rows)

\* ORDER BY created_at; message_id is random, so ties fall either way.
InOrder(rows) ==
    {s \in SetToSeqs(rows) : \A i, j \in DOMAIN s : i < j => s[i].at <= s[j].at}

\* The answer reaches the poll loop that still waits for it.
Received(f) ==
    /\ fetch[f].step = "drained" /\ fetch[f].awaited
    /\ \E s \in InOrder(fetch[f].rows) :
        got' = [got EXCEPT ![fetch[f].node] = @ \o s]
    /\ fetch' = [fetch EXCEPT ![f] = Idle]
    /\ UNCHANGED <<mailbox, clock, req, lost, before>>

\* The poll loop's request times out or its connection breaks; the handler goes on.
Abandon(f) ==
    /\ fetch[f].step # "idle" /\ fetch[f].awaited
    /\ fetch' = [fetch EXCEPT ![f].awaited = FALSE]
    /\ UNCHANGED <<mailbox, clock, req, got, lost, before>>

\* The answer of an abandoned fetch goes nowhere.
Unheard(f) ==
    /\ fetch[f].step = "drained" /\ ~fetch[f].awaited
    /\ lost' = lost \cup fetch[f].rows
    /\ fetch' = [fetch EXCEPT ![f] = Idle]
    /\ UNCHANGED <<mailbox, clock, req, got, before>>

\* A database error: the poll is answered 500 and nothing is deleted.
FetchFails(f) ==
    /\ fetch[f].step = "reading"
    /\ fetch' = [fetch EXCEPT ![f] = Idle]
    /\ UNCHANGED <<mailbox, clock, req, got, lost, before>>

-----------------------------------------------------------------------------
\* The server dies: open transactions roll back, answers under way are not sent.
Crash ==
    /\ req' = [r \in Requests |->
                 IF req[r].phase \in {"accepted", "reading", "committed"}
                 THEN Ended("failed")
                 ELSE req[r]]
    /\ lost' = lost \cup UNION {fetch[f].rows : f \in {f \in Fetches : fetch[f].step = "drained"}}
    /\ fetch' = [f \in Fetches |-> Idle]
    /\ UNCHANGED <<mailbox, clock, got, before>>

-----------------------------------------------------------------------------
RequestStep(r) ==
    \/ Accept(r) \/ ReadCounts(r) \/ Insert(r) \/ NoRoom(r) \/ Fails(r) \/ Answer(r)

FetchStep(f) ==
    \/ \E n \in Pollers : AskFetch(f, n)
    \/ ReadRows(f) \/ Drain(f) \/ Received(f)
    \/ Abandon(f) \/ Unheard(f) \/ FetchFails(f)

Next ==
    \/ \E r \in Requests : RequestStep(r)
    \/ \E f \in Fetches : FetchStep(f)
    \/ Crash

Spec == Init /\ [][Next]_vars

-----------------------------------------------------------------------------
TypeOK ==
    /\ mailbox \subseteq Rows
    /\ clock \in Nat
    /\ req \in [Requests -> ReqStates]
    /\ fetch \in [Fetches -> FetchStates]
    /\ got \in [Nodes -> Seq(Rows)]
    /\ lost \subseteq Rows
    /\ before \subseteq Requests \X Requests

\* However many senders count a node's queue at once, it never holds more rows than
\* MAX_MAILBOX_PER_NODE (enqueue_mailbox_entry, enqueue_broadcast_entries).
MailboxBounded == \A n \in Nodes : Cardinality(Queue(n)) <= MaxMailbox

Answered(f) == fetch[f].step = "drained"

\* "A successful fetch removes exactly the messages returned": a row a commit queued
\* is in the mailbox, or in one answer under way, or received once, or lost with its
\* answer, and never in two of these, whatever fetches and crashes overlap.
ExactlyOnce ==
    \A r \in Requests, n \in Nodes :
        LET Mine(rows) == {row \in rows : row.request = r /\ row.target = n}
            answers == {f \in Fetches : Answered(f) /\ Mine(fetch[f].rows) # {}}
            heard == {i \in DOMAIN got[n] : got[n][i].request = r}
            places == Cardinality(Mine(mailbox)) + Cardinality(Mine(lost))
                        + Cardinality(answers) + Cardinality(heard)
        IN  /\ places <= 1
            /\ req[r].phase \in {"committed", "queued"} /\ n \in req[r].room => places = 1

\* A blob whose sender was told "queued" before another blob for the same node was
\* sent is never received after it, nor left behind in the mailbox by its fetch.
SequentialOrder ==
    \A n \in Nodes : \A j \in DOMAIN got[n] : \A q \in Requests :
        <<q, got[n][j].request>> \in before /\ n \in req[q].room =>
            /\ \A i \in DOMAIN got[n] : got[n][i].request = q => i < j
            /\ \A row \in Queue(n) : row.request # q
=============================================================================
