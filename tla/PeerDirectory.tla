------------------------------ MODULE PeerDirectory ------------------------------
(***************************************************************************)
(* What one daemon knows of its peers: the entries of ConnManager (the key *)
(* the coordination server gave for a peer, and the session with it), kept *)
(* up to date by three activities that interleave:                         *)
(*   - the sync the poll loop runs before every fetch: for each project of *)
(*     the local database it remembers the members' keys, then lists the   *)
(*     members again and drops every entry of a peer in none of the lists; *)
(*   - sends, which look a peer's key up, remember or forget it, and make  *)
(*     a session if there is none;                                         *)
(*   - the receive loop, which checks the key of a peer's handshake.       *)
(* Meanwhile peers join projects on the server, and are revoked.           *)
(*                                                                         *)
(* A node's id is derived from its key, so a key is there or not: that a   *)
(* node puts another one at the server (PUT /v1/keys) is left out.  The    *)
(* steps of a handshake between two daemons, and its counters, are in      *)
(* PeerHandshake.                                                          *)
(***************************************************************************)
EXTENDS Naturals, FiniteSets

CONSTANTS
    Peers,      \* the other nodes
    Projects,   \* projects this daemon's node is a member of
    Tasks       \* sends that may be under way at once

VARIABLES
    members,   \* server: the other members of each project
    revoked,   \* server: revoked nodes
    local,     \* the local database: projects recorded on this machine
    entry,     \* ConnManager.peers
    sync,      \* the sync: what it is doing, and what it has read
    task,      \* the sends
    recv       \* the receive loop's handling of a handshake packet

serverVars == <<members, revoked>>
directoryVars == <<serverVars, local, entry, sync, task, recv>>

NoEntry == [there |-> FALSE, key |-> FALSE, session |-> "none"]
NoSync == [pc |-> "idle", ids |-> {}, todo |-> {}, keys |-> {}, retain |-> {},
           failed |-> {}, known |-> [x \in Projects |-> {}]]
NoTask == [pc |-> "idle", peer |-> {}]
NoPacket == [pc |-> "idle", peer |-> {}]

DirectoryInit ==
    /\ members = [x \in Projects |-> {}]
    /\ revoked = {}
    /\ local \in SUBSET Projects
    /\ entry = [p \in Peers |-> NoEntry]
    /\ sync = NoSync
    /\ task = [t \in Tasks |-> NoTask]
    /\ recv = NoPacket

\* get_or_create, and remember_peer_identity.
Created(e) == [e EXCEPT !.there = TRUE]
Remembered(e) == [e EXCEPT !.there = TRUE, !.key = TRUE]
WithSession(e, s) == [e EXCEPT !.there = TRUE, !.session = s]

Set(p, e) == entry' = [entry EXCEPT ![p] = e]

-----------------------------------------------------------------------------
(* The server *)

\* list_keys: the members of a project that are not revoked.
Listed(x) == members[x] \ revoked

\* get_keys: a node that is not revoked and shares a project.
Visible(p) == \E x \in Projects : p \in Listed(x)

Join(p, x) ==
    /\ p \notin revoked
    /\ members' = [members EXCEPT ![x] = @ \cup {p}]
    /\ UNCHANGED <<revoked, local, entry, sync, task, recv>>

Revoke(p) ==
    /\ revoked' = revoked \cup {p}
    /\ UNCHANGED <<members, local, entry, sync, task, recv>>

\* create or join on this machine records a project.
RecordProject(x) ==
    /\ local' = local \cup {x}
    /\ UNCHANGED <<serverVars, entry, sync, task, recv>>

-----------------------------------------------------------------------------
(* The sync: sync_transport_identities_from_projects *)

\* It reads the projects of the local database.  (Without the database it does nothing.)
SyncBegin ==
    /\ sync.pc = "idle"
    /\ sync' = [NoSync EXCEPT !.pc = IF local = {} THEN "collect" ELSE "seed",
                              !.ids = local, !.todo = local]
    /\ UNCHANGED <<serverVars, local, entry, task, recv>>

\* seed_transport_identities_from_projects: it lists one project after the other ...
SeedFetch(x) ==
    /\ sync.pc = "seed" /\ sync.keys = {} /\ x \in sync.todo
    /\ \E keys \in {Listed(x), {}} :      \* {}: the request fails
          sync' = [sync EXCEPT !.todo = @ \ {x}, !.keys = keys]
    /\ UNCHANGED <<serverVars, local, entry, task, recv>>

\* ... and remembers the keys of its members.
SeedRemember(p) ==
    /\ sync.pc = "seed" /\ p \in sync.keys
    /\ Set(p, Remembered(entry[p]))
    /\ sync' = [sync EXCEPT !.keys = @ \ {p}]
    /\ UNCHANGED <<serverVars, local, task, recv>>

\* Then it lists the projects again.  (known: history, the members when this begins.)
CollectBegin ==
    /\ sync.pc = "seed" /\ sync.keys = {} /\ sync.todo = {}
    /\ sync' = [sync EXCEPT !.pc = "collect", !.todo = sync.ids, !.known = members]
    /\ UNCHANGED <<serverVars, local, entry, task, recv>>

\* A list adds its members to those to retain; a request that fails adds nothing.
Collect(x) ==
    /\ sync.pc = "collect" /\ x \in sync.todo
    /\ \/ sync' = [sync EXCEPT !.todo = @ \ {x}, !.retain = @ \cup Listed(x)]
       \/ sync' = [sync EXCEPT !.todo = @ \ {x}, !.failed = @ \cup {x}]
    /\ UNCHANGED <<serverVars, local, entry, task, recv>>

\* Mutant of Prune: with nothing to retain, nothing is dropped.
PruneUnlessEmpty ==
    /\ sync.pc = "collect" /\ sync.todo = {}
    /\ entry' = [p \in Peers |-> IF p \in sync.retain \/ sync.retain = {} THEN entry[p] ELSE NoEntry]
    /\ sync' = NoSync
    /\ UNCHANGED <<serverVars, local, task, recv>>

\* Mutant of Prune: an entry that has no session yet is dropped.
PruneUnused ==
    /\ sync.pc = "collect" /\ sync.todo = {}
    /\ entry' = [p \in Peers |-> IF p \in sync.retain /\ entry[p].session # "none"
                                THEN entry[p] ELSE NoEntry]
    /\ sync' = NoSync
    /\ UNCHANGED <<serverVars, local, task, recv>>

\* retain_peer_identities: an entry goes with its session.
Prune ==
    /\ sync.pc = "collect" /\ sync.todo = {}
    /\ entry' = [p \in Peers |-> IF p \in sync.retain THEN entry[p] ELSE NoEntry]
    /\ sync' = NoSync
    /\ UNCHANGED <<serverVars, local, task, recv>>

-----------------------------------------------------------------------------
(* A send: encrypt_and_send, Transport::handshake, Transport::send *)

GoTo(t, pc) == task' = [task EXCEPT ![t].pc = pc]
EndTask(t) == task' = [task EXCEPT ![t] = NoTask]

\* The peer's key, from its project's list or by itself; or the request fails.
Resolve(t, p) ==
    /\ task[t].pc = "idle"
    /\ \E pc \in {"forget"} \cup (IF Visible(p) THEN {"remember"} ELSE {}) :
          task' = [task EXCEPT ![t] = [pc |-> pc, peer |-> {p}]]
    /\ UNCHANGED <<serverVars, local, entry, sync, recv>>

\* Mutant of Forget: the session of the forgotten peer is kept aside.
ForgetKey(t, p) ==
    /\ task[t] = [pc |-> "forget", peer |-> {p}]
    /\ Set(p, [entry[p] EXCEPT !.there = FALSE, !.key = FALSE])
    /\ EndTask(t)
    /\ UNCHANGED <<serverVars, local, sync, recv>>

\* forget_peer_identity, and the send fails.
Forget(t, p) ==
    /\ task[t] = [pc |-> "forget", peer |-> {p}]
    /\ Set(p, NoEntry)
    /\ EndTask(t)
    /\ UNCHANGED <<serverVars, local, sync, recv>>

Remember(t, p) ==
    /\ task[t] = [pc |-> "remember", peer |-> {p}]
    /\ Set(p, Remembered(entry[p]))
    /\ GoTo(t, "check")
    /\ UNCHANGED <<serverVars, local, sync, recv>>

\* An established session is used, unless it needs a rekey: then it is put aside.
CheckSession(t, p) ==
    /\ task[t] = [pc |-> "check", peer |-> {p}]
    /\ \/ /\ entry[p].session = "established"
          /\ GoTo(t, "send") /\ UNCHANGED entry
       \/ /\ entry' = [entry EXCEPT ![p].session = IF @ = "established" THEN "none" ELSE @]
          /\ GoTo(t, "handshake")
    /\ UNCHANGED <<serverVars, local, sync, recv>>

\* Transport::handshake remembers the key once more and sends M1; when that fails, the
\* message goes to the mailbox.
SendM1(t, p) ==
    /\ task[t] = [pc |-> "handshake", peer |-> {p}]
    /\ Set(p, Remembered(entry[p]))
    /\ GoTo(t, "pending") \/ EndTask(t)
    /\ UNCHANGED <<serverVars, local, sync, recv>>

\* The handshake is stored, over whatever session there is by now.
StorePending(t, p) ==
    /\ task[t] = [pc |-> "pending", peer |-> {p}]
    /\ Set(p, WithSession(entry[p], "pending"))
    /\ GoTo(t, "wait")
    /\ UNCHANGED <<serverVars, local, sync, recv>>

\* It polls for the session for five seconds; after that the mailbox takes the message.
AwaitSession(t, p) ==
    /\ task[t] = [pc |-> "wait", peer |-> {p}]
    /\ EndTask(t) \/ (entry[p].session = "established" /\ GoTo(t, "send"))
    /\ UNCHANGED <<serverVars, local, entry, sync, recv>>

\* Over the session if it is still there, else through the mailbox; the entry is created
\* if it is gone.
SendMessage(t, p) ==
    /\ task[t] = [pc |-> "send", peer |-> {p}]
    /\ Set(p, Created(entry[p]))
    /\ EndTask(t)
    /\ UNCHANGED <<serverVars, local, sync, recv>>

-----------------------------------------------------------------------------
(* The receive loop: Transport::recv and handle_handshake *)

RecvGoTo(pc) == recv' = [recv EXCEPT !.pc = pc]

\* A packet of p: the activity is noted; a handshake packet is handled.  A packet that came
\* over UDP has a source only if there is an entry for it.
Packet(p, path) ==
    /\ recv.pc = "idle"
    /\ path = "udp" => entry[p].there
    /\ Set(p, Created(entry[p]))
    /\ UNCHANGED recv \/ recv' = [pc |-> "lookup", peer |-> {p}]
    /\ UNCHANGED <<serverVars, local, sync, task>>

\* Mutant of LookupKey: the answer to a handshake of its own needs no key.
LookupNoKey(p) ==
    /\ recv = [pc |-> "lookup", peer |-> {p}]
    /\ RecvGoTo(IF entry[p].key \/ entry[p].session = "pending" THEN "verify" ELSE "fetch")
    /\ UNCHANGED <<serverVars, local, entry, sync, task>>

\* The expected key is the one of the entry, or else it is fetched.
LookupKey(p) ==
    /\ recv = [pc |-> "lookup", peer |-> {p}]
    /\ RecvGoTo(IF entry[p].key THEN "verify" ELSE "fetch")
    /\ UNCHANGED <<serverVars, local, entry, sync, task>>

\* Without a key the handshake cannot be verified, and is dropped.
FetchKey(p) ==
    /\ recv = [pc |-> "fetch", peer |-> {p}]
    /\ \/ Visible(p) /\ RecvGoTo("fetched") /\ UNCHANGED entry
       \/ recv' = NoPacket /\ Set(p, Created(entry[p]))
    /\ UNCHANGED <<serverVars, local, sync, task>>

StoreKey(p) ==
    /\ recv = [pc |-> "fetched", peer |-> {p}]
    /\ Set(p, Remembered(entry[p]))
    /\ RecvGoTo("verify")
    /\ UNCHANGED <<serverVars, local, sync, task>>

\* M2 completes a pending handshake; M1 is answered, and its session stored after that.  A
\* packet that is not the one expected, or of another key, is dropped.
Verify(p) ==
    /\ recv = [pc |-> "verify", peer |-> {p}]
    /\ \/ /\ entry[p].session = "pending"
          /\ Set(p, WithSession(entry[p], "established"))
          /\ recv' = NoPacket
       \/ /\ entry[p].session # "pending"
          /\ Set(p, Created(entry[p]))
          /\ RecvGoTo("answered")
       \/ Set(p, Created(entry[p])) /\ recv' = NoPacket
    /\ UNCHANGED <<serverVars, local, sync, task>>

StoreSession(p) ==
    /\ recv = [pc |-> "answered", peer |-> {p}]
    /\ Set(p, WithSession(entry[p], "established"))
    /\ recv' = NoPacket
    /\ UNCHANGED <<serverVars, local, sync, task>>

SyncNext ==
    \/ SyncBegin \/ CollectBegin \/ Prune
    \/ \E x \in Projects : SeedFetch(x) \/ Collect(x)
    \/ \E p \in Peers : SeedRemember(p)

SendNext(t) == \E p \in Peers :
    \/ Forget(t, p) \/ Remember(t, p) \/ CheckSession(t, p) \/ SendM1(t, p)
    \/ StorePending(t, p) \/ AwaitSession(t, p) \/ SendMessage(t, p)

RecvNext == \E p \in Peers :
    LookupKey(p) \/ FetchKey(p) \/ StoreKey(p) \/ Verify(p) \/ StoreSession(p)

DirectoryNext ==
    \/ \E p \in Peers : Revoke(p) \/ (\E x \in Projects : Join(p, x))
    \/ \E x \in Projects : RecordProject(x)
    \/ SyncNext
    \/ \E t \in Tasks : SendNext(t) \/ (\E p \in Peers : Resolve(t, p))
    \/ RecvNext
=============================================================================
