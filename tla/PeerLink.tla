--------------------------------- MODULE PeerLink ---------------------------------
(***************************************************************************)
(* PeerDirectory and DerpLink together, as Transport holds them: a packet  *)
(* of a peer comes through the relay while the server has this daemon in   *)
(* its table and the receive loop reads the relay, and over UDP only while *)
(* it does not.  The relay looks at an API key when a socket is opened and *)
(* never again, so what a revoked peer sends goes on arriving.             *)
(***************************************************************************)
EXTENDS PeerDirectory, DerpLink

vars == <<directoryVars, derpVars>>

Init == DirectoryInit /\ DerpInit

\* Transport::recv_raw: a packet of p, with its source.
Receive(p) ==
    \/ Forwarded /\ Packet(p, "derp") /\ UNCHANGED derpVars
    \/ reads = "off" /\ Packet(p, "udp") /\ UNCHANGED derpVars
    \/ LeaveUdp /\ Packet(p, "udp")

Directory == DirectoryNext /\ UNCHANGED derpVars
Derp == DerpNext /\ UNCHANGED directoryVars

Next == Directory \/ Derp \/ \E p \in Peers : Receive(p)

\* The tasks of a daemon run on, and a request to the server ends.  A peer need not send
\* anything, and neither end of the relay's socket need notice anything.
Fairness ==
    /\ WF_vars(SyncNext /\ UNCHANGED derpVars)
    /\ WF_vars(RecvNext /\ UNCHANGED derpVars)
    /\ \A t \in Tasks : WF_vars(SendNext(t) /\ UNCHANGED derpVars)

Spec == Init /\ [][Next]_vars /\ Fairness

-----------------------------------------------------------------------------
(* Properties *)

Singles == {{p} : p \in Peers}
TaskPcs == {"forget", "remember", "check", "handshake", "pending", "wait", "send"}
RecvPcs == {"lookup", "fetch", "fetched", "verify", "answered"}
EntryType == [there : BOOLEAN, key : BOOLEAN, session : {"none", "pending", "established"}]

\* Every variable stays within its range; what is not in the map has neither key nor
\* session; the sync lists only projects it read from the database, and remembers before
\* it prunes; and the relay's table names a socket that is being served.
TypeOK ==
    /\ members \in [Projects -> SUBSET Peers] /\ revoked \subseteq Peers
    /\ local \subseteq Projects
    /\ entry \in [Peers -> EntryType]
    /\ \A p \in Peers : ~entry[p].there => entry[p] = NoEntry
    /\ sync \in [pc : {"idle", "seed", "collect"}, ids : SUBSET Projects,
                 todo : SUBSET Projects, keys : SUBSET Peers, retain : SUBSET Peers,
                 failed : SUBSET Projects, known : [Projects -> SUBSET Peers]]
    /\ sync.todo \subseteq sync.ids /\ (sync.keys # {} => sync.pc = "seed")
    /\ task \in [Tasks -> [pc : TaskPcs, peer : Singles] \cup {NoTask}]
    /\ recv \in [pc : RecvPcs, peer : Singles] \cup {NoPacket}
    /\ handler \in [Sockets -> {"none", "upgraded", "serving"}]
    /\ table \in Sockets \cup {None} /\ link \in Sockets \cup {None}
    /\ reads \in {"derp", "udp", "reconnect", "off"}
    /\ broken \subseteq Sockets /\ faults \in 0..MaxFaults
    /\ table # None => handler[table] = "serving"

\* A peer the daemon has no key of and no session with, and no activity is about to have.
Out(p) == ~entry[p].key /\ entry[p].session # "established"

Sealed(p) ==
    /\ p \in revoked
    /\ Out(p)
    /\ p \notin sync.keys
    /\ \A t \in Tasks :
          task[t].peer = {p} => task[t].pc \in {"forget", "pending", "wait", "send"}
    /\ recv.peer = {p} => recv.pc \in {"lookup", "fetch"}

\* A revoked peer that is out stays out for good: neither a handshake it begins, nor its
\* answer to one that was pending, nor any send or sync brings back a key or a session,
\* though the relay goes on forwarding its packets.
SealedForGood == [][\A p \in Peers : Sealed(p) => Sealed(p)']_vars

\* A sync drops a peer only if it was revoked, or if the list of every project of the local
\* database it was in has failed.  (The log says of a list that failed that the prune is
\* skipped: its peers are pruned, with their sessions, unless another list has them.)
MembersKept ==
    [][\A p \in Peers :
          /\ sync.pc = "collect" /\ sync'.pc = "idle"
          /\ entry[p].there /\ ~entry'[p].there
          => \/ p \in revoked
             \/ \A x \in sync.ids : p \in sync.known[x] => x \in sync.failed]_vars

\* A revoked peer is forgotten in the end: syncs, sends and handshakes that were under way
\* when it was revoked may bring its key and session back, but not for ever.
RevokedForgotten == \A p \in Peers : <>[](p \in revoked => Out(p))
=============================================================================
