# Bridges in TLA+

Bridges lets coding agents of several people work on one project: every node runs a
local daemon next to an agent runtime, daemons exchange end-to-end encrypted requests
directly or through a relay, and a coordination server keeps identities, memberships,
invites and a mailbox. This directory holds the specifications of that system, the TLC
runs that check them on small instances, and the theorems TLAPS proves about them.
Paths below are relative to the repository; `cli/src` is where the Rust code is.

## 1. The system

### 1.1 Components

| Component | State | Operations | Talks to |
|---|---|---|---|
| Ask handler (`local_api.rs`) | `responses`: staged outcome per request; one retry task per ask | `/ask`, `/poll-response`, notes of stages and failures, retries after 1 s and 2 s | transport, coordination server, inbound loops |
| Fan-out handlers (`local_api.rs`) | the same map, one entry per target | `/broadcast`, `/debate`, `/publish` | ask handler's helpers |
| Inbound loops (`daemon.rs`) | `request_cache`: in flight or outcome, 300 s | direct receive loop, mailbox poll loop: receipt, dedupe, dispatch, answer | transport, mailbox, runtime, conversation memory |
| Peer sync (`daemon.rs`) | the directory of peers (key, session) of the connection manager | sync with the server's lists before every poll, pruning | coordination server, connection manager |
| Transport (`transport.rs`, `connmgr.rs`, `noise.rs`) | Noise session, previous session, addresses per peer | handshake, send, receive, rekey after 120 s | DERP relay, UDP |
| DERP client and relay (`derp_client.rs`, `serve/relay.rs`) | one socket per node | connect, forward, reconnect | transport |
| Mailbox (`serve/relay.rs`) | `server_mailbox` rows, at most `MAX_MAILBOX_PER_NODE` per node | relay, broadcast, fetch (drain) | ask handler, poll loop |
| Identities (`serve/auth.rs`) | `registered_nodes` | register, revoke, replace, authenticate | all server handlers |
| Projects and invites (`serve/projects.rs`, `serve/invites.rs`) | `server_projects`, `server_members`, `server_invites` | create project, create invite, join | identities |
| Keys and endpoints (`serve/keys.rs`, `serve/endpoints.rs`) | keys and addresses per node | update, look up | peer sync, ask handler |
| Conversation memory (`conversation_memory.rs`) | one JSON file per session | append exchange, compact, reset | dispatch |
| Shared workspace sync (`sync_engine.rs`) | a git clone and its remote, an approval proposal | commit, push, fetch, check, stash, merge, pop, push again | `bridges sync` |
| Commands (`commands.rs`) | key pair, config file, local database | setup, register, create, join, rotate, revoke, ask, debate, broadcast, publish | daemon, server |
| Registry (`registry/`) | nodes, projects, invites, skills (TypeScript) | REST handlers | none of the above at run time |
| Runtimes (`listener/`) | none | run a prompt | dispatch |

How a request travels: `/ask` stores a pending entry and calls `encrypt_and_send`, which
tries the session it shares with the peer (after a handshake if there is none) and falls
back to the mailbox. The peer's receive loop or poll loop takes it, sends a receipt,
dispatches it to the runtime unless the cache knows it, and answers on the same two
routes. The asker's two loops store what comes back in the pending entry; the caller polls.

### 1.2 What is hard about it

* Two routes and retries: copies of one request arrive over both loops of the receiver,
  and receipts, failures and answers arrive in any order at the asker.
* Locks are held for a step only: between two of them a session, a cache entry or a
  pending entry may have been replaced by another task.
* Handlers of the server authenticate in one connection and write in another; SQLite's
  deferred transactions keep apart only what they contain.
* The direct route is lossy, and the drained answer of the mailbox may be lost; daemons
  and the server stop at any time, with their memory.
* A sync is a dozen git commands, each of which may fail, while the user of the clone
  goes on working.
* Entries age out of both maps after 300 s, sessions after 120 s, whatever is under way; a
  command waits 30 s for its daemon, which drops the handler then, and polls 120 s for an answer.
* Keys are fetched first and remembered afterwards, by a sync, by sends and by handshakes,
  while the server revokes the peer they belong to.
* Commands change files and the server in turn, several at once if the user likes, and may
  be killed between the two; so may the loops that share the files of a conversation.

`PROJECT.json` lists these hazards one by one, at the line where each bites, with the
properties that would catch it.

### 1.3 What makes each component correct

* Ask: a caller never sees a status go backwards nor one the peer gives no evidence for;
  an ask whose caller has the id settles, unless something of its latest copy was lost.
* Inbound loops: a request runs once for as long as it is remembered; no entry is left in
  flight by nobody.
* Transport: no nonce is used twice with a key, whatever fails half way; packets of a session
  are taken in order; every send ends.
* Mailbox: a queue is bounded whatever overlaps; a row is received at most once and only
  deleted by the fetch that returns it; sends that do not overlap keep their order.
* Identities, projects, invites: invite uses are bounded and paid for; one owner; no
  replacement cycles; a revoked node changes nothing any more.
* Peer sync: a member is dropped only if it was revoked or its lists failed; a revoked
  peer is forgotten in the end, and once out it stays out.
* DERP: the relay's table names a socket that is served. More does not hold of it: see "Other
  places" in section 3.
* Fan-out: every target is reported once, a target reported as failed is forgotten, and an
  answer in time is printed.
* Commands: the key pair that takes part in the projects is the one on disk; what is saved
  works; a revoked machine stays out.
* Workspace sync: unmanaged local work is never lost by a merge that fails half way, a
  sync restores only its own stash unless its user stashed in between, other members' unmanaged
  files enter only when
  approved, and what is committed reaches the remote or is warned about.
* Conversation memory: a session remembers what was appended to it, once and in order.

## 2. Modules

| Module | Models | Extends |
|---|---|---|
| `DeliveryStages` | the `DeliveryStage` order and the four updates of a pending entry (`local_api.rs`), as functions of the entry | |
| `AskLifecycle` | abstract: what a caller is promised of a request | `DeliveryStages` |
| `AskDelivery` | asker, retry task, network, both inbound loops and the cache of the receiver | `DeliveryStages`; refines `AskLifecycle` |
| `Mailbox` | relay, broadcast and fetch handlers over SQLite, the polling daemon, crashes | |
| `Coordination` | register, authenticate, revoke, replace, create project, create invite, join | |
| `PeerHandshake` | `encrypt_and_send`, handshake, send, receive, rekey, restarts, of two daemons | |
| `WorkspaceSync` | `sync_project` and `git_pull` of several clones, their users, the remote | |
| `FanOut` | debate, broadcast and publish, from the command through the handler to the last poll | `DeliveryStages` |
| `PeerDirectory` | the connection manager's entries, the peer sync, the key look-ups of sends and of inbound handshakes | |
| `DerpLink` | one daemon's socket to the relay, from both ends | |
| `PeerLink` | the two together, as `Transport` holds them | `PeerDirectory`, `DerpLink` |
| `ClientIdentity` | the commands that change the machine's identity, its files, and the server's rows of its nodes | |
| `ConversationMemory` | the files of the conversation with one peer, the loops and commands that rewrite them | |
| `MC*` | instances for TLC | the module of the same name |
| `*Proofs` | theorems | the module of the same name |
| `ClientFilesProofs` | theorems about `ClientIdentity` and `ConversationMemory` | `ClientIdentity`, `ConversationMemory` |

Each VARIABLE is named after the field or table it stands for, and each action after the
function or the part of it that runs without another task being able to see its middle:
a step ends where the code releases a lock, awaits, or commits. `PROJECT.json` maps every
definition to its lines. Operators whose comment begins with "Mutant of" are plausible
bugs of the definition that follows; no specification uses them. They exist so that each
property can be shown to fail for a reason.

### AskDelivery

`asker`, `tries`, `responses` are the asker's; `loop`, `request_cache` the receiver's;
`net` counts the copies of each message in the three places one can be: on the wire, in
the mailbox, in the batch a poll has drained. Handing off and recording the handoff are
two steps (`Send`, `NoteHandoff`), as in the code, so the peer may answer in between.
`Begin` prunes, looks up and claims under one lock; `Dispatch` and `Finish` are apart,
so an entry can age out while its request runs. `dropped`, `runs`, `forgets` and
`produced` are history variables: `dropped` says what was lost of a request since its last
copy left (by the transport, or with the daemon that held it), so a restart with nothing of a
request in its hands excuses nothing.

A direct send may report an error after its bytes have left, and the mailbox then gets a
second copy (`Send`, `SendError`; `MaxHalfSent` attempts of a request may end so). The copies a
receiver sends back are not doubled this way: two copies of a reply already come from a retry.
`CallerGone` is the 30 s of the command's HTTP client, at which the server drops `handle_ask`:
the entry stays, what has left stays out, and nobody retries.

What is abstract: text, keys and sessions; a runtime's failure is a choice; time is the
possibility that an entry is over 300 s old (`aged`, `stale`), and pruning happens where
the code prunes, not when an entry ages. `FaultKinds` names every failure, and a run
chooses which of them happen.

### Mailbox

A transaction is a snapshot (`fresh`) that any other commit makes stale: SQLite refuses
to upgrade a stale read snapshot to a write, which the code turns into a 500. That is how
the count and the insert of a relay are kept together. The server's clock is assumed
monotone. A fetch goes on when the daemon that asked has given up, so its rows are lost;
`lost` records them, and `ExactlyOnce` accounts for them.

### Coordination

One handler slot per concurrent request. `Authenticate` stands for `auth_middleware` and
leaves the handler with only a node id, as `RequestExt` does; what happened to the node
since is not looked at again by create, join and invite. `create_project` writes two rows
with no transaction (`CreateProject`, `CreateOwner`); a crash in between leaves an orphan.
API keys and their rotation by `register` are abstracted to the node they authenticate.

### PeerHandshake

A session key stands for the message whose task began the handshake, which is sound as a
task begins at most one. `out` and `in` are the Noise counters of a session. The code
restores a session whose decryption failed, so a failed read changes nothing. `Check`,
`Demote`, `Begin`, `SetPending`, `Wait`, `Encrypt` and `Send` are the points at which
`encrypt_and_send` takes and releases the lock of the peer's entry, and `ReceiveM1`,
`Answer`, `Commit` those of `handle_handshake`. The channel is the DERP path: in order,
and lossy; a send may report an error after its packet has left (`HalfPut`), and its task
goes on with the mailbox. `old` is the age of 120 s that `needs_rekey` tests; a session
ages only while a send that has not looked at it yet is left, as nothing else reads its age.

When both daemons begin at once, each takes the other's first message for an answer to
its own and drops it: both wait out their 5 s and use the mailbox (`SendsEnd` holds because the
wait is bounded). When an answer overtakes `SetPending`, or a responder's `Commit`
overwrites a session, the two sides can hold different keys until the next rekey; direct
messages are then refused at the receiver, which `AskDelivery` covers as messages lost
on the wire, and the ask's retries as its remedy.

### WorkspaceSync

Every git command of `sync_project` is a step of its own, and a failure of it another
outcome of that step. git is not under test, so it is modelled by what the commands do: a
history is a set of commits closed under ancestors, a push succeeds only forward, a merge
refuses while another one is open, a stash ends a merge in progress, a commit takes the
whole index. What files hold is a set of changes, each managed (under `.shared/`) or
not; two trees differ when they hold different changes. `Counted` is the number the code
prints as pulled, `git diff HEAD~1..HEAD`: zero for a merge that changes nothing in the
tree, which is what the violation `sync_push` comes from. The approval proposal
is a file that no code reads again, nor compares with what `--approve-unmanaged` later merges.
`Hooks` are members whose git may refuse a commit at all; without one the path for a
clone without commits is never taken. The user writes, stages, commits, resolves and
unstashes between any two steps, and `Stashers` stash as well; one sync runs per clone at a
time. `meddled` is a history field of a sync: its user has used `git stash` since the sync's own
stash, so that the bare `git stash pop` of `pop_stash` may take another entry (`Meddle`).
`git stash drop` and `clear`, by which a user discards work, are left out.

### FanOut

One command is followed from the terminal to its end. `handler`, `todo` and `cur` are the
program counter and the loop of `handle_debate`, `handle_broadcast` and `handle_publish`, which
differ in that only a debate keeps entries, retries and polls. `Send` and `NoteSent` are apart,
so an answer may come between. Time is counted in units: an entry lives `TTL`, a poll lasts
`Patience`, the CLI's HTTP client waits `SendTime`, and nothing else takes any. `GiveUp` is
that client's timeout, at which the server drops the handler wherever it is. Each target of
a debate has one request; the contents and the session it asks in are left out.

### PeerDirectory, DerpLink, PeerLink

The three activities that change `ConnManager.peers` are the poll loop's `sync`, each send's
`task` and the receive loop's `recv`; every await is a step. A node id is derived from
its key, so a key is there or not. `known` is a history variable: what the members were when
the second round of lists began. `handler`, `table`, `link` and `reads` are the two ends of the
relay socket. `handle_derp_socket` removes its daemon's entry whether or not the entry is still its
own (`HandlerEnds`), and `DerpClient` after an error has `recv_raw` wait on UDP (`ReadError`,
`LeaveUdp`); a connection may be gone without the client ever reading its end (`Break`,
`ReadClose`); a daemon that found no relay when it started never gets one (`"off"`).

### ClientIdentity

A terminal's command is a program counter and what it has read so far. A request is one step,
whose reply may be lost; `Coordination` has what goes on inside. A key pair is its node id;
API keys are numbered as they are issued. `blame` is a history variable: which disturbances
have happened, so that a property can say which of them it survives. `MaxCommands` bounds
the commands started. Half-written files are not modelled: `serde` does not load them, and the
command that meets one exits.

### ConversationMemory

Exchanges are numbered, a file is the sequence of the numbers it holds, and a summary of
older ones the sequence it was made from, as much of it as fits. A write is atomic, but a
concurrent reader may find the file empty, and a writer that fails may leave it empty. That
exchanges are long enough to be folded early is a choice. `reset_all_sessions` is one step;
the session that becomes active after a reset is any other one, as the order of the list
depends on times and names. `log`, `twice` and `harmed` are history variables.

## 3. Runs

Times are with two workers. Every run below 300 s, none with a state constraint.

| Run | Instance | Checks |
|---|---|---|
| `ask_delivery` | 1 request, 1 retry, 1 half-way failed send, every failure but losses | `TypeOK`, `DispatchPerMemory`, `InFlightIsOwned`, `CoherentOutcome`, refinement of `AskLifecycle` |
| `ask_live` | 1 request, 1 retry, every failure but the expiry of `responses` and half-way failed sends, fair | `AskSettles`, `MailboxDispatches` |
| `mailbox` | 3 requests (relay or broadcast), 2 fetch slots, bound of 2 rows | `TypeOK`, `MailboxBounded`, `ExactlyOnce`, `SequentialOrder` |
| `coordination` | 3 nodes, 1 project, 2 invites (1 use, unlimited), 2 handler slots | `TypeOK`, `InviteBound`, `EverySeatPaid`, `OneOwner`, `NoReplacementCycle`, `RevokedIsInert` |
| `handshake` | 2 messages of one daemon, 1 of the other, 1 fault | `TypeOK`, `NonceUnique`, `InOrder` |
| `handshake_live` | 1 message of each daemon, 2 faults, fair | `SendsEnd` |
| `workspace_sync` | 2 clones, 3 syncs, 2 managed changes, 1 unmanaged, refused commits at one clone, a user who stashes at the other | `TypeOK`, `WorkKept`, `PulledIsShared`, `RestoresItsOwn`, `EntersApproved` |
| `identity` | 2 terminals, 4 key pairs, 1 project, 6 commands | `TypeOK`, `OwnKeyOnDisk`, `SavedConfigWorks`, `StrandedForGood` |
| `fan_out` | 3 targets, `TTL` 10, `Patience` 4, `SendTime` 1, 1 retry | `TypeOK`, `FailedIsForgotten`, `EarlyAnswersPrinted` |
| `peer_link` | 1 peer, 1 project, 1 send, 2 sockets, 1 fault, fair | `TypeOK`, `SealedForGood`, `MembersKept`, `RevokedForgotten` |
| `memory` | 2 actors, 2 sessions, 4 exchanges, files of 2 folded to 1, summaries of 2, 1 failure | `MemoryKept` |
| `sync_push` | the same as `workspace_sync` | *violated*: `PushedIsShared` |

Why the bounds are enough. One request with one retry already gives every pair of copies
(wire and mailbox, first send and retry) and both loops racing for them; a second retry adds
a third copy to the same two loops. A safety run needs no losses, as a lost message is one
that nobody takes; in the liveness run an entry of `responses` that expires is settled, and the
copy that a half-way failed send leaves on the wire beside the one in the mailbox is one that a
retry leaves there too. Requests meet only in the two maps and their pruning, and
the proofs of section 5 hold for any number of them. Two rows in a mailbox and three requests let two
transactions count the same free place while a third drains. Two slots are what a race of
handlers needs; three nodes a cycle of replacements longer than two, and a member who was
invited by a node that has been replaced. Two senders of one daemon race for one session
while the third message makes the other daemon a responder, an initiator in glare, or the
sender of the packets that a rekey overtakes. Three syncs of two clones are a push that is
rejected, the merge or conflict that follows, and the sync after that. Two terminals are
what overlapping commands need, and four key pairs two rotates after a first command that
overwrote another's. Three targets are as many as a debate can wait for one after the other
before the first answers expire (30 + 2 x 120 < 300), and a send that fails between two that do
not. One peer, one send and one sync are every pair of activities on an entry, and two sockets
every overlap of an old and a new one; peers, projects and tasks meet nowhere but in the list to
retain, and the safety properties are theorems for any number of them. Two actors on files
of two exchanges fold twice within four. None of the counters is cut by a
constraint: they are bounded by the number of messages, faults, syncs, commands and exchanges.

Deadlock is checked in `memory`, where an actor can always begin something. The other
instances may end: when all requests are over and no fault or command is left.

### The violation

`sync_push` checks a sentence of the documentation that the code does not keep; `PROJECT.json`
quotes it with its line under "findings". The second push after a merge happens only if the
merge is counted as having pulled a file. The first sync of the second member of a project, with
the same templates as the first member's and a new file, ends without it. `PulledIsShared`
is what does hold: a sync that counts a pulled file and warns of nothing has shared its commits,
even after a first push that failed for another reason.

### Other places where code and text differ

Met while modelling; the models follow the code, and the properties state what holds of it.

* `docs/delivery-semantics.md:35` says that retries do not re-run a request once in flight or
  completed. That lasts as long as the cache entry, 300 s: `DispatchPerMemory` is
  the promise with that bound.
* `docs/delivery-semantics.md:105` says mailbox ordering is FIFO by stored creation order. A relay
  is stamped before its transaction, so an earlier stamp may be drained by a later fetch. Sends that
  do not overlap do keep their order (`SequentialOrder`).
* `docs/identity-lifecycle.md:14` says memberships migrate to the replacement. What the old
  identity was authenticated for before it was replaced is still written afterwards, and
  does not migrate.
* `connmgr.rs` keeps the previous session for packets encrypted before a rekey; it is tried only
  while no new session is established.
* `commands.rs:1342` advises `setup` or `identity rotate` after `identity revoke`. Neither can
  help (`StrandedForGood`): the key pair on disk is refused for ever, and rotate needs the
  API key that revoke has cleared.
* `daemon.rs:463` logs that pruning is skipped for a project whose members cannot be fetched. Its
  peers are pruned, unless another project lists them (`MembersKept`).
* `commands.rs:2312` polls for 120 s each, one request after the other, while entries live 300 s: a
  debate with four or more targets may report a timeout for an answer that came at once.
  `EarlyAnswersPrinted` has the bound as its condition.
* `serve/relay.rs` authenticates a socket when it is opened; a revoked node keeps the socket it has.
* `docs/presence-model.md:61-63` says what a node's reachability means while "DERP is connected".
  `derp_connected` is set once, when the daemon starts (`daemon.rs:561`). After an error of its
  client the receive loop waits on UDP (`ReadError`), where nothing comes from a relayed peer; a
  connection lost without a close frame is never noticed, as neither end pings
  (`derp_client.rs:83`, `serve/relay.rs:219`); and the handler of an old socket takes the entry of a
  new one away (`HandlerEnds`). So that packets come through the relay again is not promised, and
  no property says so.
* `skills/bridges/references/sync-protocol.md:69` says a merge that succeeds "restores the stash if
  possible". `pop_stash` (`sync_engine.rs:498`) is a bare `git stash pop`: if the user has stashed in
  between, it restores the user's entry, and the sync's stays behind. `RestoresItsOwn` excuses
  this case and no other; `WorkKept` holds through it.
* `docs/delivery-semantics.md` says nothing of a caller that gives up after 30 s: the entry of its
  ask then stays in the handoff stage until it expires, with no retry, whatever the peer does
  (`CallerGone`). `AskSettles` is about asks whose caller has been given the id.

## 4. Fairness

* `AskDelivery!Fairness`: weak fairness of each task of the asker, of storing what has
  arrived, of both fetches and of each loop of the receiver. Tokio keeps polling spawned tasks, and
  the runtime adapters wait with a timeout. The client of the coordination server has no timeout
  (`coord_client.rs:56`), nor has a write to the relay's socket: that such a call ends, with an
  answer or an error, is an assumption the code does not ensure. No fairness
  is given to asking, polling by the user, to any failure, or to aging. Losing a message
  is a fault: `AskSettles` and `MailboxDispatches` say which loss excuses the outcome.
* `PeerHandshake!Fairness`: weak fairness of each sending task and of each receive loop.
  None for aging, losses or restarts. The wait for a session ends after 5 s; that calls of the
  coordination server and writes to the socket end is assumed here too.
* `PeerLink!Fairness`: weak fairness of the sync, of the receive loop's handling of a packet it
  has read, and of each send. The poll loop runs for as long as the daemon does. That a request
  of the sync or of a send ends is the same assumption. A peer need not send anything, no datagram
  need arrive, no fault is fair, and neither end of the relay's socket need notice that it is gone.

`FanOut`, `ClientIdentity` and `ConversationMemory` have no liveness property and no fairness.
`Spec` without fairness is what all safety properties are checked and proved for.

## 5. Proofs

All theorems hold for every value of the constants that the named assumptions admit.
Their assumptions are those of the modules: no more than that sets do not contain the
marker `None` (or `Absent`), that bounds are numbers, that there are two peers, that a conversation file keeps some
exchange, and that a command polls for longer than no time.

| Theorem | Module | Argument |
|---|---|---|
| `TypeCorrect` | `AskDeliveryProofs` | by induction, one step per action |
| `DispatchOncePerMemory` | `AskDeliveryProofs` | `DispatchInv`: runs plus the claims the two loops hold are at most the forgets plus one while the request is uncached, so a claim needs a forgotten entry |
| `NoOrphanInFlight` | `AskDeliveryProofs` | inductive with the types: only `Begin` marks an entry, and only `Finish`, pruning or a restart removes its owner |
| `PollsCoherent` | `AskDeliveryProofs` | each update of `DeliveryStages` preserves coherence of an entry |
| `DeliveryImplementsLifecycle` | `AskDeliveryProofs` | `EvidenceInv`: what a reply says is something the peer has done; each step maps to a step of `AskLifecycle` or a stutter |
| `TypeCorrect`, `QueuesBounded` | `MailboxProofs` | `RoomInv`: a transaction that is still fresh has counted the rows there are, so its insert fits |
| `ExactlyOnceHolds`, `SequentialOrderHolds` | `MailboxProofs` | see below |
| `TypeCorrect`, `InviteBoundHolds`, `OneOwnerHolds` | `CoordinationProofs` | a join that is still fresh saw a use left; `CreationInv`: a project between its two inserts has no member, and one that is complete has one owner, whom replacements move |
| `NoReplacementCycleHolds`, `RevokedIsInertHolds` | `CoordinationProofs` | `ChainInv`: only revoked nodes have a replacement, and the node that a fresh revocation or replacement names is active; so the new link ends at a node that leads nowhere, and no commit names a revoked node |
| `EverySeatPaidHolds` | `CoordinationProofs` | see below |
| `TypeCorrect`, `NoncesUnique`, `InOrderHolds` | `PeerHandshakeProofs` | see below |
| `TypeCorrect`, `KeepsWork`, `PopsItsOwn`, `SharesPulled`, `OnlyApprovedEnters` | `WorkspaceSyncProofs` | see below |
| `TypeCorrect`, `PruneKeepsMembers`, `RevokedStaysOut` | `PeerLinkProofs` | see below |
| `TypeCorrect`, `StrandedStays`, `OwnKeyHolds`, `SavedConfigHolds`, `MemoryKeptHolds` | `ClientFilesProofs` | see below |
| `TypeCorrect`, `FailedStaysForgotten` | `FanOutProofs` | `Phase`: which step of the handler goes with which step of the command; `OnlySent`: nothing but a target sent to has a retry or a report; an update never creates an entry |
| `EarlyAnswersHold` | `FanOutProofs` | see below |

`ExactlyOnce` and `SequentialOrder` share `FlowInv`. `OnceInv`: of the mailbox, what was lost, the
answers that hold a row and what a poll loop received, only one has the row of a request and a
target, once; before its commit no place has, and after it some place. A drain keeps this because what
a fetch read is what it deletes, as long as its snapshot is fresh (`FetchInv`). The order of two requests, one
sent after the other was answered, is in the times of their rows (`CommittedInv`, `BeforeInv`): a
relay is stamped when its handler begins, a broadcast's rows when they are inserted, and neither before the answer to the
first. `OrderInv` follows the two rows: the later one leaves the mailbox no earlier than the
other, in the same answer behind it, or in the answer of a later fetch, since a poll
loop waits for one fetch at a time (`OneAwaited`).

`EverySeatPaid` counts two finite sets (`SeatInv`): a join adds one to each, a replacement moves a seat to a
node that had none, and the rest leave both alone. That the replacing node had none is what
its handler checked and what its snapshot, still fresh, preserves.

`NonceUnique` is far from inductive: that no session returns with its counts reset depends
on where every key can be. The invariant `KeyInv` says so. An initiator whose session is
pending, or not pending yet, has not used its key (`InitiatorInv`); a first message on
its way, or taken by a responder, carries a key nothing at the responder has used, and is
the only one with that key (`ResponderInv`); the current session's count is beyond
everything its key has encrypted (`CountInv`). Most steps put no key to use: the lemma
`QuietKeys` covers them all, and the six that do have a lemma each. `RouteInv`: whatever
is in a channel or was received has left its task, whatever its send reported.

`InOrder` is a matter of counts. Of what was encrypted for a peer with its session's key, the peer has
received exactly what its own count for that key has passed (`TallyInv`, for the current session and the
one kept from before a rekey); a packet on the wire is its message as it was sealed (`WireInv`), and is
accepted only with the next count. A session begins with a count of zero, so nothing may have
been received with its key before: `FreshInv` says so of each handshake that still can be put to use,
and no step makes a handshake usable again (`NoMoreUnused`). For the same reason the previous
session and the current one have different keys.

All five properties of `WorkspaceSync` are theorems, for any number of clones and syncs. What
a sync decided and what it acts on are apart by the user's and the others' steps, so each
needs to know what survives them. `OwnStashes`: a sync that has stashed has its own entry on
top until it pops it, as long as its user leaves the stash alone: edits, commits, conflicts
and what earlier syncs left behind cannot get on top of it. `KeepsWork` has no
strengthening: each step hands on what the working tree, the stash and the history hold
together (`KeptBySync`, one case per git command). `SharesPulled` needs `SyncedHere`, that no
step takes a commit out of a clone's history, and that the remote only grows.
`OnlyApprovedEnters` needs `AllApproving`: what passed the check without approval lacks
nothing unmanaged that it merges, as the user's commits in between only add to the history.

`PruneKeepsMembers` needs `SyncInv`: whatever the sync has been through in its second round, a
member it knew of at the beginning of that round is retained, revoked since, or in lists that failed
or are still to come. Members never leave a project, so what was known stays true. `RevokedStaysOut` is
inductive by itself: with the types, each step of the three activities either needs a key
that the server no longer gives, or a key of the entry, which is not there.

`StrandedStays` rests on one fact of the disk and the commands: no API key that a file or a
command holds is beyond `issued`. So `Registered`, which gives a node the next key, never makes a
key valid again that opened nothing (`RowsShut`), and a revoked row stays revoked.

`OwnKeyOnDisk` needs to know which node the server gives every API key to, those in the hands of
commands included. `OneMachine`: it is the node on disk, or the node of the one rotate that has replaced
it and not saved yet, unless a rotate was cut there or two first commands overwrote each other's key
pair. `SavedConfigWorks` is about commands run one at a time, to their end: only one is under way
(`Solo`), the config of one that will save works already, and that on disk works unless a command
that will replace it is under way (`SettledInv`). Both survive the others' steps because no step
makes an old key valid again or a revoked row active (`Narrow`).

`EarlyAnswersPrinted` compares times. `AgeInv`: no entry of `responses` is older than what the command
has spent, the time of the sends plus `Patience` for each request polled to its end plus what it
has waited for the current one. While that stays below `TTL` an answer that came before
its poll is not pruned (`NotExpired`), and the first look at it prints it (`EarlyInv`). Each target is
sent to once (`SentInv`), so the polls before the last are fewer than the targets. A command that polled for
no time would never look, whence the assumption that `Patience` is not 0; the code polls for 120 s.

`MemoryKept` is the one property of a composed kind of step: an append reads, folds and writes in up to
four steps. `SessionInv` says of a session that has come to no harm that one actor at a time changes it,
and what each stage has in its hands: the file's exchanges and the new one, the summary as it is on
disk, and after a fold the recent exchanges that fit what the summary has become. `Shifted` is
the fact about sequences that this rests on: what a fold moves from the file to the summary keeps
the end of the log together, even if the actor fails between the two writes, when it is there twice.

Every safety invariant and every action property that a run checks is a theorem. What stays with TLC is
liveness (`AskSettles`, `MailboxDispatches`, `SendsEnd`, `RevokedForgotten`), which TLAPS does not reach.

## 6. Not modelled

* Formats and cryptography: message encoding, signatures (`crypto.rs`), STUN and mDNS packets,
  error texts, the daemon's own config file.
* Process management (`service.rs`), runtime adapters (`listener/runtimes.rs`), the skills
  endpoint, install scripts: I/O with no state of the protocol.
* UDP as a second direct path for data (it appears as what interrupts a wait), and the endpoints
  that nodes publish for it.
* Lost TCP connections between daemon and server appear as failed calls only, but for the relay's
  socket.
* `PUT /v1/keys`, by which a node may replace the key the server hands out for it: keys are there or
  not in the models, and no property depends on their never changing.
* The commands that only list or print, edit a config, or call the daemon once.
* `presence.rs` computes an age when asked. (`docs/presence-model.md` has reachability follow the DERP
  connection; see section 3.)
* Two branches of `identity status` and `doctor`: a config whose key belongs to another node
  ("drift") is never saved (`SavedConfigWorks`), and a revoked row has no key to ask with.
* The TypeScript registry is a separate service that neither daemon nor commands call.
* What a file holds after a conflict was committed with its markers, and a second process that
  fetches in the same clone during a sync.

## 7. What could follow

1. Workspace sync: what a resolved file holds, so that committed conflict markers and staged unmanaged
   files can be stated; a second process fetching in the same clone.
2. Notifications without an answer, in the inbound loops.
3. UDP as a second path in `PeerHandshake`, and when two sides that hold different keys agree again.
