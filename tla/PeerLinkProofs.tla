------------------------------ MODULE PeerLinkProofs ------------------------------
(***************************************************************************)
(* Theorems about PeerLink, for any peers, projects, sends and sockets.    *)
(*                                                                         *)
(* The steps fall in two halves that share no variable but the packet      *)
(* received, so each half has its own invariant.  What a sync may drop     *)
(* rests on what it has read so far (SyncInv): every project listed in the *)
(* second pass has failed or its members are among those to retain.        *)
(***************************************************************************)
EXTENDS PeerLink, TLAPS

\* The two halves of TypeOK.
DirectoryType ==
    /\ members \in [Projects -> SUBSET Peers] /\ revoked \subseteq Peers
    /\ local \subseteq Projects
    /\ entry \in [Peers -> EntryType]
    /\ \A p \in Peers : ~entry[p].there => entry[p] = NoEntry
    /\ sync \in [pc : {"idle", "seed", "collect"}, ids : SUBSET Projects,
                 todo : SUBSET Projects, keys : SUBSET Peers, retain : SUBSET Peers,
                 failed : SUBSET Projects, known : [Projects -> SUBSET Peers]]
    /\ sync.todo \subseteq sync.ids /\ (sync.keys # {} => sync.pc = "seed")
    /\ task \in [Tasks -> [pc : TaskPcs, peer : Singles] \cup {NoTask}]
    /\ recv \in [pc : RecvPcs, peer : Singles] \cup {NoPacket}

DerpType ==
    /\ handler \in [Sockets -> {"none", "upgraded", "serving"}]
    /\ table \in Sockets \cup {None} /\ link \in Sockets \cup {None}
    /\ reads \in {"derp", "udp", "reconnect", "off"}
    /\ broken \subseteq Sockets /\ faults \in 0..MaxFaults
    /\ table # None => handler[table] = "serving"

LEMMA TypeHalves == TypeOK <=> DirectoryType /\ DerpType
  BY DEF TypeOK, DirectoryType, DerpType

\* A step is one of the directory, which may be a packet received, or leaves it alone.
LEMMA DirectoryHalf ==
    ASSUME [Next]_vars
    PROVE  \/ DirectoryNext
           \/ \E p \in Peers : \E path \in {"derp", "udp"} : Packet(p, path)
           \/ UNCHANGED directoryVars
  BY DEF Next, vars, Directory, Derp, Receive

LEMMA DerpHalf ==
    ASSUME [Next]_vars
    PROVE  DerpNext \/ LeaveUdp \/ UNCHANGED derpVars
  BY DEF Next, vars, Directory, Derp, Receive

-----------------------------------------------------------------------------
(* The relay's half *)

LEMMA DerpStep ==
    ASSUME DerpType, DerpNext \/ LeaveUdp \/ UNCHANGED derpVars
    PROVE  DerpType'
<1> USE DerpAssumption
<1>1. CASE UNCHANGED derpVars
  BY <1>1 DEF DerpType, derpVars
<1>2. CASE LeaveUdp
  BY <1>2 DEF DerpType, LeaveUdp
<1>3. CASE ConnectFails
  BY <1>3 DEF DerpType, ConnectFails, Fault
<1>4. CASE ReadClose
  BY <1>4 DEF DerpType, ReadClose
<1>5. CASE ReadError
  BY <1>5 DEF DerpType, ReadError, Fault
<1>6. CASE RestartServer
  <2>1. handler' \in [Sockets -> {"none", "upgraded", "serving"}]
    BY <1>6 DEF RestartServer
  <2>2. faults' \in 0..MaxFaults
    BY <1>6 DEF DerpType, RestartServer, Fault
  <2>3. QED
    BY <1>6, <2>1, <2>2 DEF DerpType, RestartServer
<1>7. ASSUME NEW s \in Sockets, Connect(s) PROVE DerpType'
  BY <1>7 DEF DerpType, Connect
<1>8. ASSUME NEW s \in Sockets, Serve(s) PROVE DerpType'
  BY <1>8 DEF DerpType, Serve
<1>9. ASSUME NEW s \in Sockets, Break(s) PROVE DerpType'
  BY <1>9 DEF DerpType, Break, Fault
<1>10. ASSUME NEW s \in Sockets, HandlerEnds(s) PROVE DerpType'
  BY <1>10 DEF DerpType, HandlerEnds
<1>11. QED
  BY <1>1, <1>2, <1>3, <1>4, <1>5, <1>6, <1>7, <1>8, <1>9, <1>10 DEF DerpNext

-----------------------------------------------------------------------------
(* The directory's half *)

\* What the operators on entries and the server's lists return.
LEMMA EntriesTyped ==
    ASSUME NEW e \in EntryType
    PROVE  /\ Created(e) \in EntryType /\ Created(e).there
           /\ Created(e).key = e.key /\ Created(e).session = e.session
           /\ Remembered(e) \in EntryType /\ Remembered(e).there
           /\ \A s \in {"none", "pending", "established"} :
                 /\ WithSession(e, s) \in EntryType /\ WithSession(e, s).there
                 /\ WithSession(e, s).key = e.key /\ WithSession(e, s).session = s
           /\ NoEntry \in EntryType
  BY DEF EntryType, Created, Remembered, WithSession, NoEntry

LEMMA ListsTyped ==
    ASSUME members \in [Projects -> SUBSET Peers], NEW x \in Projects
    PROVE  Listed(x) \in SUBSET Peers /\ Listed(x) \cap revoked = {}
  BY DEF Listed

\* An entry that is replaced by one that is there keeps the entries typed.
EntriesOK ==
    /\ entry \in [Peers -> EntryType]
    /\ \A p \in Peers : ~entry[p].there => entry[p] = NoEntry

LEMMA SetTyped ==
    ASSUME EntriesOK, NEW p \in Peers, NEW e \in EntryType, e.there \/ e = NoEntry, Set(p, e)
    PROVE  EntriesOK'
  BY DEF EntriesOK, Set

TaskType == [pc : TaskPcs, peer : Singles] \cup {NoTask}

LEMMA TasksTyped ==
    ASSUME task \in [Tasks -> TaskType], NEW t \in Tasks
    PROVE  /\ EndTask(t) => task' \in [Tasks -> TaskType]
           /\ \A pc \in TaskPcs : task[t].pc # "idle" /\ GoTo(t, pc) => task' \in [Tasks -> TaskType]
<1>1. EndTask(t) => task' \in [Tasks -> TaskType]
  BY DEF EndTask, TaskType
<1>2. ASSUME NEW pc \in TaskPcs, task[t].pc # "idle", GoTo(t, pc)
      PROVE  task' \in [Tasks -> TaskType]
  <2>1. task[t] \in [pc : TaskPcs, peer : Singles]
    BY <1>2 DEF TaskType, NoTask
  <2>2. [task[t] EXCEPT !.pc = pc] \in [pc : TaskPcs, peer : Singles]
    BY <2>1
  <2>3. task' = [task EXCEPT ![t] = [task[t] EXCEPT !.pc = pc]]
    BY <1>2 DEF GoTo
  <2>4. QED
    BY <2>2, <2>3 DEF TaskType
<1>3. QED
  BY <1>1, <1>2

SyncType ==
    /\ sync \in [pc : {"idle", "seed", "collect"}, ids : SUBSET Projects,
                 todo : SUBSET Projects, keys : SUBSET Peers, retain : SUBSET Peers,
                 failed : SUBSET Projects, known : [Projects -> SUBSET Peers]]
    /\ sync.todo \subseteq sync.ids /\ (sync.keys # {} => sync.pc = "seed")

ServerType ==
    /\ members \in [Projects -> SUBSET Peers] /\ revoked \subseteq Peers
    /\ local \subseteq Projects

RecvType == recv \in [pc : RecvPcs, peer : Singles] \cup {NoPacket}

LEMMA DirectoryParts ==
    DirectoryType <=> /\ ServerType /\ EntriesOK /\ SyncType
                      /\ task \in [Tasks -> TaskType] /\ RecvType
  BY DEF DirectoryType, ServerType, EntriesOK, SyncType, TaskType, RecvType

\* The server, and the projects of this machine.
LEMMA ServerTyped ==
    ASSUME DirectoryType,
           \/ \E p \in Peers : Revoke(p) \/ (\E x \in Projects : Join(p, x))
           \/ \E x \in Projects : RecordProject(x)
    PROVE  DirectoryType'
<1>1. ASSUME NEW p \in Peers, Revoke(p) PROVE DirectoryType'
  BY <1>1 DEF DirectoryType, Revoke
<1>2. ASSUME NEW p \in Peers, NEW x \in Projects, Join(p, x) PROVE DirectoryType'
  <2>1. members' \in [Projects -> SUBSET Peers]
    BY <1>2 DEF DirectoryType, Join
  <2>2. QED
    BY <1>2, <2>1 DEF DirectoryType, Join
<1>3. ASSUME NEW x \in Projects, RecordProject(x) PROVE DirectoryType'
  BY <1>3 DEF DirectoryType, RecordProject, serverVars
<1>4. QED
  BY <1>1, <1>2, <1>3

\* The sync.
LEMMA SyncTyped ==
    ASSUME DirectoryType, SyncNext
    PROVE  DirectoryType'
<1> USE DirectoryParts
<1>0. SyncType /\ EntriesOK /\ ServerType
  OBVIOUS
<1>1. ASSUME SyncBegin PROVE DirectoryType'
  <2>1. SyncType'
    BY <1>0, <1>1 DEF SyncBegin, SyncType, NoSync, ServerType
  <2>2. QED
    BY <1>1, <2>1 DEF SyncBegin, DirectoryType, SyncType, serverVars
<1>2. ASSUME NEW x \in Projects, SeedFetch(x) PROVE DirectoryType'
  <2>1. PICK keys \in {Listed(x), {}} : sync' = [sync EXCEPT !.todo = @ \ {x}, !.keys = keys]
    BY <1>2 DEF SeedFetch
  <2>2. keys \in SUBSET Peers
    BY <1>0, ListsTyped DEF ServerType
  <2>3. SyncType'
    BY <1>0, <1>2, <2>1, <2>2 DEF SyncType, SeedFetch
  <2>4. QED
    BY <1>2, <2>3 DEF SeedFetch, DirectoryType, SyncType, serverVars
<1>3. ASSUME CollectBegin PROVE DirectoryType'
  <2>1. SyncType'
    BY <1>0, <1>3 DEF CollectBegin, SyncType, ServerType
  <2>2. QED
    BY <1>3, <2>1 DEF CollectBegin, DirectoryType, SyncType, serverVars
<1>4. ASSUME NEW x \in Projects, Collect(x) PROVE DirectoryType'
  <2>1. Listed(x) \in SUBSET Peers
    BY <1>0, ListsTyped DEF ServerType
  <2>2. CASE sync' = [sync EXCEPT !.todo = @ \ {x}, !.retain = @ \cup Listed(x)]
    <3>1. SyncType'
      BY <1>0, <1>4, <2>1, <2>2 DEF SyncType, Collect
    <3>2. QED
      BY <1>4, <3>1 DEF Collect, DirectoryType, SyncType, serverVars
  <2>3. CASE sync' = [sync EXCEPT !.todo = @ \ {x}, !.failed = @ \cup {x}]
    <3>1. SyncType'
      BY <1>0, <1>4, <2>3 DEF SyncType, Collect
    <3>2. QED
      BY <1>4, <3>1 DEF Collect, DirectoryType, SyncType, serverVars
  <2>4. QED
    BY <1>4, <2>2, <2>3 DEF Collect
<1>5. ASSUME NEW p \in Peers, SeedRemember(p) PROVE DirectoryType'
  <2>1. EntriesOK'
    BY <1>0, <1>5, SetTyped, EntriesTyped DEF SeedRemember, EntriesOK
  <2>2. SyncType'
    BY <1>0, <1>5 DEF SyncType, SeedRemember
  <2>3. QED
    BY <1>5, <2>1, <2>2 DEF SeedRemember, serverVars, DirectoryType, EntriesOK, SyncType
<1>6. ASSUME Prune PROVE DirectoryType'
  <2>1. entry' = [p \in Peers |-> IF p \in sync.retain THEN entry[p] ELSE NoEntry]
    BY <1>6 DEF Prune
  <2>2. NoEntry \in EntryType
    BY DEF NoEntry, EntryType
  <2>3. EntriesOK'
    BY <1>0, <2>1, <2>2 DEF EntriesOK
  <2>4. SyncType'
    BY <1>6 DEF SyncType, Prune, NoSync
  <2>5. QED
    BY <1>6, <2>3, <2>4 DEF Prune, serverVars, DirectoryType, EntriesOK, SyncType
<1>7. QED
  BY <1>1, <1>2, <1>3, <1>4, <1>5, <1>6 DEF SyncNext

\* A step that changes one entry, and tasks or the packet, which stay typed.
LEMMA TaskTyped ==
    ASSUME DirectoryType, EntriesOK', task' \in [Tasks -> TaskType],
           UNCHANGED <<serverVars, local, sync, recv>>
    PROVE  DirectoryType'
  BY DEF serverVars, DirectoryType, EntriesOK, TaskType

LEMMA PacketTyped ==
    ASSUME DirectoryType, EntriesOK', RecvType', UNCHANGED <<serverVars, local, sync, task>>
    PROVE  DirectoryType'
  BY DEF serverVars, DirectoryType, EntriesOK, RecvType

\* The sends.
LEMMA SendTyped ==
    ASSUME DirectoryType, NEW t \in Tasks, NEW p \in Peers,
           \/ Resolve(t, p) \/ Forget(t, p) \/ Remember(t, p) \/ CheckSession(t, p)
           \/ SendM1(t, p) \/ StorePending(t, p) \/ AwaitSession(t, p) \/ SendMessage(t, p)
    PROVE  DirectoryType'
<1>1. EntriesOK /\ task \in [Tasks -> TaskType] /\ entry[p] \in EntryType
  BY DirectoryParts DEF EntriesOK
<1>2. {"remember", "forget", "check", "handshake", "pending", "wait", "send"} \subseteq TaskPcs
  BY DEF TaskPcs
<1>3. CASE Resolve(t, p)
  <2>1. PICK pc \in {"forget", "remember"} :
           task' = [task EXCEPT ![t] = [pc |-> pc, peer |-> {p}]]
    BY <1>3 DEF Resolve
  <2>2. [pc |-> pc, peer |-> {p}] \in TaskType
    BY <1>2 DEF TaskType, Singles
  <2>3. task' \in [Tasks -> TaskType]
    BY <1>1, <2>1, <2>2
  <2>4. EntriesOK'
    BY <1>1, <1>3 DEF Resolve, EntriesOK
  <2>5. QED
    BY <1>3, <2>3, <2>4, TaskTyped DEF Resolve
<1>4. CASE Forget(t, p)
  <2>1. EntriesOK'
    BY <1>1, <1>4, SetTyped, EntriesTyped DEF Forget
  <2>2. QED
    BY <1>1, <1>4, <2>1, TasksTyped, TaskTyped DEF Forget
<1>5. CASE Remember(t, p)
  <2>1. EntriesOK'
    BY <1>1, <1>5, SetTyped, EntriesTyped DEF Remember
  <2>2. task' \in [Tasks -> TaskType]
    BY <1>1, <1>2, <1>5, TasksTyped DEF Remember
  <2>3. QED
    BY <1>5, <2>1, <2>2, TaskTyped DEF Remember
<1>6. CASE CheckSession(t, p)
  <2>1. ASSUME entry' = [entry EXCEPT ![p].session = IF @ = "established" THEN "none" ELSE @]
        PROVE  EntriesOK'
    <3> DEFINE e == [entry[p] EXCEPT !.session = IF @ = "established" THEN "none" ELSE @]
    <3>1. e \in EntryType /\ e.there = entry[p].there
      BY <1>1 DEF EntryType
    <3>2. ASSUME ~entry[p].there PROVE e = NoEntry
      <4>1. entry[p] = NoEntry
        BY <1>1, <3>2 DEF EntriesOK
      <4>2. [NoEntry EXCEPT !.session = IF @ = "established" THEN "none" ELSE @] = NoEntry
        BY DEF NoEntry
      <4>3. QED
        BY <4>1, <4>2
    <3>3. entry' = [entry EXCEPT ![p] = e]
      BY <2>1
    <3> HIDE DEF e
    <3>4. QED
      BY <1>1, <3>1, <3>2, <3>3, SetTyped DEF Set
  <2>2. EntriesOK'
    BY <1>1, <1>6, <2>1 DEF CheckSession, EntriesOK
  <2>3. task' \in [Tasks -> TaskType]
    BY <1>1, <1>2, <1>6, TasksTyped DEF CheckSession
  <2>4. QED
    BY <1>6, <2>2, <2>3, TaskTyped DEF CheckSession
<1>7. CASE SendM1(t, p)
  <2>1. EntriesOK'
    BY <1>1, <1>7, SetTyped, EntriesTyped DEF SendM1
  <2>2. task' \in [Tasks -> TaskType]
    BY <1>1, <1>2, <1>7, TasksTyped DEF SendM1
  <2>3. QED
    BY <1>7, <2>1, <2>2, TaskTyped DEF SendM1
<1>8. CASE StorePending(t, p)
  <2>1. EntriesOK'
    BY <1>1, <1>8, SetTyped, EntriesTyped DEF StorePending
  <2>2. task' \in [Tasks -> TaskType]
    BY <1>1, <1>2, <1>8, TasksTyped DEF StorePending
  <2>3. QED
    BY <1>8, <2>1, <2>2, TaskTyped DEF StorePending
<1>9. CASE AwaitSession(t, p)
  <2>1. EntriesOK'
    BY <1>1, <1>9 DEF AwaitSession, EntriesOK
  <2>2. task' \in [Tasks -> TaskType]
    BY <1>1, <1>2, <1>9, TasksTyped DEF AwaitSession
  <2>3. QED
    BY <1>9, <2>1, <2>2, TaskTyped DEF AwaitSession
<1>10. CASE SendMessage(t, p)
  <2>1. EntriesOK'
    BY <1>1, <1>10, SetTyped, EntriesTyped DEF SendMessage
  <2>2. QED
    BY <1>1, <1>10, <2>1, TasksTyped, TaskTyped DEF SendMessage
<1>11. QED
  BY <1>3, <1>4, <1>5, <1>6, <1>7, <1>8, <1>9, <1>10

\* The receive loop.
LEMMA RecvTyped ==
    ASSUME DirectoryType, NEW p \in Peers,
           \/ \E path \in {"derp", "udp"} : Packet(p, path)
           \/ LookupKey(p) \/ FetchKey(p) \/ StoreKey(p) \/ Verify(p) \/ StoreSession(p)
    PROVE  DirectoryType'
<1>1. EntriesOK /\ RecvType /\ entry[p] \in EntryType
  BY DirectoryParts DEF EntriesOK
<1>2. \A pc \in RecvPcs : [pc |-> pc, peer |-> {p}] \in [pc : RecvPcs, peer : Singles]
  BY DEF Singles
<1>3. {"lookup", "fetch", "fetched", "verify", "answered"} = RecvPcs
  BY DEF RecvPcs
<1>4. ASSUME NEW path \in {"derp", "udp"}, Packet(p, path) PROVE DirectoryType'
  <2>1. EntriesOK'
    BY <1>1, <1>4, SetTyped, EntriesTyped DEF Packet
  <2>2. RecvType'
    BY <1>1, <1>2, <1>3, <1>4 DEF Packet, RecvType
  <2>3. QED
    BY <1>4, <2>1, <2>2, PacketTyped DEF Packet
<1>5. ASSUME NEW pc \in RecvPcs, NEW old \in RecvPcs,
             recv = [pc |-> old, peer |-> {p}], RecvGoTo(pc)
      PROVE  RecvType'
  <2>1. recv' = [pc |-> pc, peer |-> {p}]
    BY <1>5 DEF RecvGoTo
  <2>2. QED
    BY <1>2, <2>1 DEF RecvType
<1>6. CASE LookupKey(p)
  <2>1. EntriesOK'
    BY <1>1, <1>6 DEF LookupKey, EntriesOK
  <2>2. RecvType'
    BY <1>3, <1>5, <1>6 DEF LookupKey
  <2>3. QED
    BY <1>6, <2>1, <2>2, PacketTyped DEF LookupKey
<1>7. CASE FetchKey(p)
  <2>1. EntriesOK'
    <3>1. CASE UNCHANGED entry
      BY <1>1, <3>1 DEF EntriesOK
    <3>2. CASE Set(p, Created(entry[p]))
      BY <1>1, <3>2, SetTyped, EntriesTyped
    <3>3. QED
      BY <1>7, <3>1, <3>2 DEF FetchKey
  <2>2. RecvType'
    <3>1. CASE RecvGoTo("fetched")
      BY <1>3, <1>5, <1>7, <3>1 DEF FetchKey
    <3>2. CASE recv' = NoPacket
      BY <3>2 DEF RecvType
    <3>3. QED
      BY <1>7, <3>1, <3>2 DEF FetchKey
  <2>3. QED
    BY <1>7, <2>1, <2>2, PacketTyped DEF FetchKey
<1>8. CASE StoreKey(p)
  <2>1. EntriesOK'
    BY <1>1, <1>8, SetTyped, EntriesTyped DEF StoreKey
  <2>2. RecvType'
    BY <1>3, <1>5, <1>8 DEF StoreKey
  <2>3. QED
    BY <1>8, <2>1, <2>2, PacketTyped DEF StoreKey
<1>9. CASE Verify(p)
  <2>1. EntriesOK'
    BY <1>1, <1>9, SetTyped, EntriesTyped DEF Verify
  <2>2. RecvType'
    <3>1. CASE RecvGoTo("answered")
      BY <1>3, <1>5, <1>9, <3>1 DEF Verify
    <3>2. CASE recv' = NoPacket
      BY <3>2 DEF RecvType
    <3>3. QED
      BY <1>9, <3>1, <3>2 DEF Verify
  <2>3. QED
    BY <1>9, <2>1, <2>2, PacketTyped DEF Verify
<1>10. CASE StoreSession(p)
  <2>1. EntriesOK'
    BY <1>1, <1>10, SetTyped, EntriesTyped DEF StoreSession
  <2>2. RecvType'
    BY <1>10 DEF RecvType, StoreSession
  <2>3. QED
    BY <1>10, <2>1, <2>2, PacketTyped DEF StoreSession
<1>11. QED
  BY <1>4, <1>6, <1>7, <1>8, <1>9, <1>10

LEMMA DirectoryStep ==
    ASSUME DirectoryType, [Next]_vars
    PROVE  DirectoryType'
<1>1. CASE UNCHANGED directoryVars
  BY <1>1 DEF directoryVars, serverVars, DirectoryType
<1>2. CASE DirectoryNext
  BY <1>2, ServerTyped, SyncTyped, SendTyped, RecvTyped DEF DirectoryNext, SendNext, RecvNext
<1>3. QED
  BY <1>1, <1>2, DirectoryHalf, RecvTyped

\* PeerLink!TypeOK: every variable of the directory and of the relay's link keeps its type.
THEOREM TypeCorrect == Spec => []TypeOK
<1>1. Init => TypeOK
  <2>1. ASSUME Init PROVE DirectoryType
    BY <2>1 DEF Init, DirectoryInit, DirectoryType, NoEntry, EntryType, NoSync, NoTask, NoPacket
  <2>2. ASSUME Init PROVE DerpType
    <3>1. handler \in [Sockets -> {"none", "upgraded", "serving"}]
      BY <2>2 DEF Init, DerpInit
    <3>2. faults \in 0..MaxFaults
      BY <2>2, DerpAssumption DEF Init, DerpInit
    <3>3. /\ table \in Sockets \cup {None} /\ link \in Sockets \cup {None}
          /\ broken \subseteq Sockets /\ table = None
      BY <2>2 DEF Init, DerpInit
    <3>4. reads \in {"derp", "udp", "reconnect", "off"}
      BY <2>2 DEF Init, DerpInit
    <3>5. QED
      BY <3>1, <3>2, <3>3, <3>4 DEF DerpType
  <2>3. QED
    BY <2>1, <2>2, TypeHalves
<1>2. TypeOK /\ [Next]_vars => TypeOK'
  <2> SUFFICES ASSUME TypeOK, [Next]_vars PROVE TypeOK'
    OBVIOUS
  <2>1. DirectoryType /\ DerpType
    BY TypeHalves
  <2>2. DirectoryType' /\ DerpType'
    BY <2>1, DirectoryStep, DerpHalf, DerpStep
  <2>3. QED
    BY <2>2 DEF TypeOK, DirectoryType, DerpType
<1>3. QED
  BY <1>1, <1>2, PTL DEF Spec

-----------------------------------------------------------------------------
(* What a sync drops *)

\* What a sync that collects has read: the members a project had when the pass began are
\* still members of it, and those of a project it has listed will be retained.
SyncInv ==
    sync.pc = "collect" =>
        \A x \in sync.ids :
            /\ sync.known[x] \subseteq members[x]
            /\ x \in sync.todo \/ x \in sync.failed \/ sync.known[x] \ revoked \subseteq sync.retain

LEMMA SyncInvKept ==
    ASSUME DirectoryType, SyncInv, [Next]_vars
    PROVE  SyncInv'
<1>0. /\ sync.ids \subseteq Projects /\ members \in [Projects -> SUBSET Peers]
      /\ sync \in [pc : {"idle", "seed", "collect"}, ids : SUBSET Projects,
                   todo : SUBSET Projects, keys : SUBSET Peers, retain : SUBSET Peers,
                   failed : SUBSET Projects, known : [Projects -> SUBSET Peers]]
  BY DEF DirectoryType
<1>1. CASE UNCHANGED <<sync, serverVars>>
  BY <1>1 DEF SyncInv, serverVars
<1>2. ASSUME NEW p \in Peers, Revoke(p) PROVE SyncInv'
  BY <1>2 DEF SyncInv, Revoke
<1>3. ASSUME NEW p \in Peers, NEW x \in Projects, Join(p, x) PROVE SyncInv'
  <2>1. \A y \in Projects : members[y] \subseteq members'[y]
    BY <1>0, <1>3 DEF Join
  <2>2. sync' = sync /\ revoked' = revoked
    BY <1>3 DEF Join
  <2>3. QED
    BY <1>0, <2>1, <2>2 DEF SyncInv
<1>4. CASE SyncBegin
  <2>1. sync'.pc = "collect" => sync'.ids = {}
    BY <1>4 DEF SyncBegin, NoSync
  <2>2. QED
    BY <2>1 DEF SyncInv
<1>5. ASSUME NEW x \in Projects, SeedFetch(x) PROVE SyncInv'
  <2>1. sync'.pc = "seed"
    BY <1>0, <1>5 DEF SeedFetch
  <2>2. QED
    BY <2>1 DEF SyncInv
<1>6. ASSUME NEW p \in Peers, SeedRemember(p) PROVE SyncInv'
  <2>1. sync'.pc = "seed"
    BY <1>0, <1>6 DEF SeedRemember
  <2>2. QED
    BY <2>1 DEF SyncInv
<1>7. CASE CollectBegin
  <2>1. sync'.todo = sync'.ids /\ sync'.known = members /\ members' = members
    BY <1>0, <1>7 DEF CollectBegin, serverVars
  <2>2. QED
    BY <2>1 DEF SyncInv
<1>8. ASSUME NEW x \in Projects, Collect(x) PROVE SyncInv'
  <2>1. sync.pc = "collect" /\ members' = members /\ revoked' = revoked
    BY <1>8 DEF Collect, serverVars
  <2>2. CASE sync' = [sync EXCEPT !.todo = @ \ {x}, !.retain = @ \cup Listed(x)]
    <3>1. /\ sync'.ids = sync.ids /\ sync'.known = sync.known /\ sync'.failed = sync.failed
          /\ sync'.todo = sync.todo \ {x} /\ sync'.retain = sync.retain \cup (members[x] \ revoked)
      BY <1>0, <2>2 DEF Listed
    <3>2. QED
      BY <2>1, <3>1 DEF SyncInv
  <2>3. CASE sync' = [sync EXCEPT !.todo = @ \ {x}, !.failed = @ \cup {x}]
    <3>1. /\ sync'.ids = sync.ids /\ sync'.known = sync.known /\ sync'.retain = sync.retain
          /\ sync'.todo = sync.todo \ {x} /\ sync'.failed = sync.failed \cup {x}
      BY <1>0, <2>3
    <3>2. QED
      BY <2>1, <3>1 DEF SyncInv
  <2>4. QED
    BY <1>8, <2>2, <2>3 DEF Collect
<1>9. CASE Prune
  <2>1. sync'.pc = "idle"
    BY <1>9 DEF Prune, NoSync
  <2>2. QED
    BY <2>1 DEF SyncInv
<1>10. ASSUME NEW t \in Tasks, SendNext(t) \/ (\E p \in Peers : Resolve(t, p))
       PROVE  UNCHANGED <<sync, serverVars>>
  BY <1>10 DEF SendNext, Resolve, Forget, Remember, CheckSession, SendM1, StorePending,
               AwaitSession, SendMessage
<1>11. CASE RecvNext
  BY <1>1, <1>11 DEF RecvNext, LookupKey, FetchKey, StoreKey, Verify, StoreSession
<1>12. CASE \E p \in Peers : \E path \in {"derp", "udp"} : Packet(p, path)
  BY <1>1, <1>12 DEF Packet
<1>13. ASSUME NEW x \in Projects, RecordProject(x) PROVE SyncInv'
  BY <1>1, <1>13 DEF RecordProject
<1>14. CASE UNCHANGED directoryVars
  BY <1>1, <1>14 DEF directoryVars
<1>15. CASE DirectoryNext
  BY <1>1, <1>2, <1>3, <1>4, <1>5, <1>6, <1>7, <1>8, <1>9, <1>10, <1>11, <1>13, <1>15
     DEF DirectoryNext, SyncNext
<1>16. QED
  BY <1>12, <1>14, <1>15, DirectoryHalf

\* The step that ends a sync is its prune.
LEMMA EndsByPrune ==
    ASSUME DirectoryType, [Next]_vars, sync.pc = "collect", sync'.pc = "idle"
    PROVE  Prune
<1>0. sync \in [pc : {"idle", "seed", "collect"}, ids : SUBSET Projects,
                todo : SUBSET Projects, keys : SUBSET Peers, retain : SUBSET Peers,
                failed : SUBSET Projects, known : [Projects -> SUBSET Peers]]
  BY DEF DirectoryType
<1>1. ASSUME NEW x \in Projects, Collect(x) PROVE sync'.pc = "collect"
  BY <1>0, <1>1 DEF Collect
<1>2. ~SyncBegin /\ ~CollectBegin /\ (\A x \in Projects : ~SeedFetch(x)) /\ \A p \in Peers : ~SeedRemember(p)
  BY DEF SyncBegin, CollectBegin, SeedFetch, SeedRemember
<1>3. sync' # sync
  OBVIOUS
<1>4. ~UNCHANGED directoryVars /\ ~RecvNext
  BY <1>3 DEF directoryVars, RecvNext, LookupKey, FetchKey, StoreKey, Verify, StoreSession
<1>5. \A p \in Peers : ~Revoke(p) /\ \A x \in Projects : ~Join(p, x) /\ ~RecordProject(x)
  BY <1>3 DEF Revoke, Join, RecordProject
<1>6. \A t \in Tasks : ~SendNext(t) /\ \A p \in Peers : ~Resolve(t, p)
  BY <1>3 DEF SendNext, Resolve, Forget, Remember, CheckSession, SendM1, StorePending,
              AwaitSession, SendMessage
<1>7. \A p \in Peers : \A path \in {"derp", "udp"} : ~Packet(p, path)
  BY <1>3 DEF Packet
<1>8. \A x \in Projects : ~RecordProject(x)
  BY <1>3 DEF RecordProject
<1>9. DirectoryNext
  BY <1>4, <1>7, DirectoryHalf
<1>10. SyncNext
  BY <1>4, <1>5, <1>6, <1>8, <1>9 DEF DirectoryNext
<1>11. QED
  BY <1>1, <1>2, <1>10 DEF SyncNext

\* PeerLink!MembersKept: a sync drops a peer only if it was revoked or the list of every
\* project it was in has failed, whatever joins, revocations, sends and packets interleave.
THEOREM PruneKeepsMembers == Spec => MembersKept
<1>1. Init => SyncInv
  BY DEF Init, DirectoryInit, NoSync, SyncInv
<1>2. TypeOK /\ SyncInv /\ [Next]_vars => SyncInv'
  BY SyncInvKept, TypeHalves
<1>3. ASSUME TypeOK, SyncInv, [Next]_vars, NEW p \in Peers,
             sync.pc = "collect", sync'.pc = "idle", entry[p].there, ~entry'[p].there,
             p \notin revoked, NEW x \in sync.ids, p \in sync.known[x]
      PROVE  x \in sync.failed
  <2>1. Prune
    BY <1>3, EndsByPrune, TypeHalves
  <2>2. p \notin sync.retain
    BY <1>3, <2>1 DEF Prune
  <2>3. x \notin sync.todo
    BY <2>1 DEF Prune
  <2>4. QED
    BY <1>3, <2>2, <2>3 DEF SyncInv
<1>4. TypeOK /\ SyncInv /\ [Next]_vars =>
        [\A p \in Peers :
          /\ sync.pc = "collect" /\ sync'.pc = "idle"
          /\ entry[p].there /\ ~entry'[p].there
          => \/ p \in revoked
             \/ \A x \in sync.ids : p \in sync.known[x] => x \in sync.failed]_vars
  BY <1>3
<1>5. QED
  BY <1>1, <1>2, <1>4, TypeCorrect, PTL DEF Spec, MembersKept

-----------------------------------------------------------------------------
(* A revoked peer that is out *)

Send(t, p) ==
    \/ Resolve(t, p) \/ Forget(t, p) \/ Remember(t, p) \/ CheckSession(t, p)
    \/ SendM1(t, p) \/ StorePending(t, p) \/ AwaitSession(t, p) \/ SendMessage(t, p)

Recv(p) ==
    \/ \E path \in {"derp", "udp"} : Packet(p, path)
    \/ LookupKey(p) \/ FetchKey(p) \/ StoreKey(p) \/ Verify(p) \/ StoreSession(p)

SafePcs == {"forget", "pending", "wait", "send"}

\* A send to one peer leaves the entries of the others, and the other sends, alone.
LEMMA SendOther ==
    ASSUME DirectoryType, NEW t \in Tasks, NEW q \in Peers, Send(t, q)
    PROVE  /\ \A p \in Peers \ {q} : entry'[p] = entry[p]
           /\ \A u \in Tasks \ {t} : task'[u] = task[u]
           /\ task'[t].peer \in {{}, {q}}
           /\ sync' = sync /\ recv' = recv /\ revoked' = revoked
<1>0. entry \in [Peers -> EntryType] /\ task \in [Tasks -> [pc : TaskPcs, peer : Singles] \cup {NoTask}]
  BY DEF DirectoryType
<1>1. \A p \in Peers \ {q} : entry'[p] = entry[p]
  BY <1>0 DEF Send, Resolve, Forget, Remember, CheckSession, SendM1, StorePending,
              AwaitSession, SendMessage, Set
<1>2. \/ (\E pc \in TaskPcs : GoTo(t, pc)) /\ task[t].peer = {q}
      \/ EndTask(t)
      \/ \E pc \in TaskPcs : task' = [task EXCEPT ![t] = [pc |-> pc, peer |-> {q}]]
  BY DEF Send, Resolve, Forget, Remember, CheckSession, SendM1, StorePending,
         AwaitSession, SendMessage, TaskPcs
<1>3. (\A u \in Tasks \ {t} : task'[u] = task[u]) /\ task'[t].peer \in {{}, {q}}
  <2>1. ASSUME NEW pc \in TaskPcs, GoTo(t, pc), task[t].peer = {q}
        PROVE  (\A u \in Tasks \ {t} : task'[u] = task[u]) /\ task'[t].peer = {q}
    <3>1. task' = [task EXCEPT ![t] = [task[t] EXCEPT !.pc = pc]]
      BY <2>1 DEF GoTo
    <3>2. task[t] \in [pc : TaskPcs, peer : Singles]
      BY <1>0, <2>1 DEF NoTask
    <3>3. QED
      BY <1>0, <2>1, <3>1, <3>2
  <2>2. CASE EndTask(t)
    BY <1>0, <2>2 DEF EndTask, NoTask
  <2>3. ASSUME NEW pc \in TaskPcs, task' = [task EXCEPT ![t] = [pc |-> pc, peer |-> {q}]]
        PROVE  (\A u \in Tasks \ {t} : task'[u] = task[u]) /\ task'[t].peer = {q}
    BY <1>0, <2>3
  <2>4. QED
    BY <1>2, <2>1, <2>2, <2>3
<1>4. sync' = sync /\ recv' = recv /\ revoked' = revoked
  BY DEF Send, Resolve, Forget, Remember, CheckSession, SendM1, StorePending,
         AwaitSession, SendMessage, serverVars
<1>5. QED
  BY <1>1, <1>3, <1>4

\* A send to a peer that is out gets no key of it, and no session.
LEMMA SendSealed ==
    ASSUME DirectoryType, NEW t \in Tasks, NEW p \in Peers, Sealed(p), Send(t, p)
    PROVE  Out(p)' /\ (task'[t].peer = {p} => task'[t].pc \in SafePcs)
<1>0. /\ entry \in [Peers -> EntryType] /\ entry[p] \in EntryType /\ Out(p)
      /\ task \in [Tasks -> [pc : TaskPcs, peer : Singles] \cup {NoTask}]
      /\ task[t].peer = {p} => task[t].pc \in SafePcs
  BY DEF DirectoryType, Sealed, SafePcs
<1>1. ~Remember(t, p) /\ ~CheckSession(t, p) /\ ~SendM1(t, p)
  BY <1>0 DEF Remember, CheckSession, SendM1, SafePcs
<1>2. CASE Resolve(t, p)
  <2>1. ~Visible(p)
    BY DEF Visible, Listed, Sealed
  <2>2. task' = [task EXCEPT ![t] = [pc |-> "forget", peer |-> {p}]] /\ entry' = entry
    BY <1>2, <2>1 DEF Resolve
  <2>3. QED
    BY <1>0, <2>2 DEF Out, SafePcs
<1>3. CASE EndTask(t) /\ (entry' = entry \/ Set(p, NoEntry) \/ Set(p, Created(entry[p])))
  <2>1. task'[t].peer # {p}
    BY <1>0, <1>3 DEF EndTask, NoTask
  <2>2. Out(p)'
    BY <1>0, <1>3, EntriesTyped DEF Set, Out, NoEntry
  <2>3. QED
    BY <2>1, <2>2
<1>4. CASE StorePending(t, p)
  <2>1. entry'[p] = WithSession(entry[p], "pending")
    BY <1>0, <1>4 DEF StorePending, Set
  <2>2. Out(p)'
    BY <1>0, <2>1, EntriesTyped DEF Out
  <2>3. task' = [task EXCEPT ![t] = [task[t] EXCEPT !.pc = "wait"]] /\ task[t] = [pc |-> "pending", peer |-> {p}]
    BY <1>4 DEF StorePending, GoTo
  <2>4. task'[t].pc = "wait"
    BY <1>0, <2>3
  <2>5. QED
    BY <2>2, <2>4 DEF SafePcs
<1>5. Forget(t, p) => EndTask(t) /\ Set(p, NoEntry)
  BY DEF Forget
<1>6. AwaitSession(t, p) => EndTask(t) /\ entry' = entry
  BY <1>0 DEF AwaitSession, Out
<1>7. SendMessage(t, p) => EndTask(t) /\ Set(p, Created(entry[p]))
  BY DEF SendMessage
<1>8. QED
  BY <1>1, <1>2, <1>3, <1>4, <1>5, <1>6, <1>7 DEF Send

\* The receive loop: another peer's packet does not touch this one, and a handshake of a
\* peer that is out ends when its key is fetched.
LEMMA RecvSealed ==
    ASSUME DirectoryType, NEW p \in Peers, Sealed(p), NEW q \in Peers, Recv(q)
    PROVE  /\ Out(p)' /\ (recv'.peer = {p} => recv'.pc \in {"lookup", "fetch"})
           /\ sync' = sync /\ task' = task /\ revoked' = revoked
<1>0. /\ entry \in [Peers -> EntryType] /\ entry[p] \in EntryType /\ Out(p)
      /\ recv \in [pc : RecvPcs, peer : Singles] \cup {NoPacket}
      /\ recv.peer = {p} => recv.pc \in {"lookup", "fetch"}
  BY DEF DirectoryType, Sealed
<1>1. sync' = sync /\ task' = task /\ revoked' = revoked
  BY DEF Recv, Packet, LookupKey, FetchKey, StoreKey, Verify, StoreSession, serverVars
<1>2. CASE q # p
  <2>1. entry'[p] = entry[p]
    BY <1>0, <1>2 DEF Recv, Packet, LookupKey, FetchKey, StoreKey, Verify, StoreSession, Set
  <2>2. recv' = recv \/ recv'.peer \in {{}, {q}}
    BY <1>0 DEF Recv, Packet, LookupKey, FetchKey, StoreKey, Verify, StoreSession, RecvGoTo, NoPacket
  <2>3. QED
    BY <1>0, <1>1, <1>2, <2>1, <2>2 DEF Out
<1>3. CASE q = p
  <2>1. ~StoreKey(p) /\ ~Verify(p) /\ ~StoreSession(p)
    BY <1>0 DEF StoreKey, Verify, StoreSession
  <2>2. entry' = entry \/ Set(p, Created(entry[p]))
    BY <1>3, <2>1 DEF Recv, Packet, LookupKey, FetchKey
  <2>3. Out(p)'
    BY <1>0, <2>2, EntriesTyped DEF Set, Out
  <2>4. ~Visible(p) /\ ~entry[p].key
    BY DEF Visible, Listed, Sealed, Out
  <2>5. recv' = recv \/ recv' = NoPacket \/ recv' = [pc |-> "lookup", peer |-> {p}]
        \/ recv' = [pc |-> "fetch", peer |-> {p}]
    BY <1>3, <2>1, <2>4 DEF Recv, Packet, LookupKey, FetchKey, RecvGoTo
  <2>6. QED
    BY <1>0, <1>1, <2>3, <2>5 DEF NoPacket
<1>4. QED
  BY <1>2, <1>3

\* Neither the server nor a sync brings back a peer that is out.
LEMMA ServerSealed ==
    ASSUME DirectoryType, NEW p \in Peers, Sealed(p),
           \/ \E q \in Peers : Revoke(q) \/ (\E x \in Projects : Join(q, x))
           \/ \E x \in Projects : RecordProject(x)
           \/ SyncNext
    PROVE  Sealed(p)'
<1>0. /\ entry \in [Peers -> EntryType]
      /\ sync \in [pc : {"idle", "seed", "collect"}, ids : SUBSET Projects,
                   todo : SUBSET Projects, keys : SUBSET Peers, retain : SUBSET Peers,
                   failed : SUBSET Projects, known : [Projects -> SUBSET Peers]]
  BY DEF DirectoryType
<1>1. ASSUME UNCHANGED <<task, recv>>, p \in revoked', entry'[p] = entry[p], p \notin sync'.keys
      PROVE  Sealed(p)'
  BY <1>1 DEF Sealed, Out
<1>2. ASSUME \/ \E q \in Peers : Revoke(q) \/ (\E x \in Projects : Join(q, x))
             \/ \E x \in Projects : RecordProject(x)
      PROVE  Sealed(p)'
  BY <1>1, <1>2 DEF Revoke, Join, RecordProject, serverVars, Sealed
<1>3. CASE SyncBegin \/ CollectBegin
  <2>1. p \notin sync'.keys
    BY <1>0, <1>3 DEF SyncBegin, CollectBegin, NoSync, Sealed
  <2>2. QED
    BY <1>1, <1>3, <2>1 DEF SyncBegin, CollectBegin, serverVars, Sealed
<1>4. ASSUME NEW x \in Projects, SeedFetch(x) PROVE Sealed(p)'
  <2>1. PICK keys \in {Listed(x), {}} : sync' = [sync EXCEPT !.todo = @ \ {x}, !.keys = keys]
    BY <1>4 DEF SeedFetch
  <2>2. p \notin keys
    BY DEF Listed, Sealed
  <2>3. p \notin sync'.keys
    BY <1>0, <2>1, <2>2
  <2>4. QED
    BY <1>1, <1>4, <2>3 DEF SeedFetch, serverVars, Sealed
<1>5. ASSUME NEW q \in Peers, SeedRemember(q) PROVE Sealed(p)'
  <2>1. q # p
    BY <1>5 DEF SeedRemember, Sealed
  <2>2. entry'[p] = entry[p] /\ p \notin sync'.keys
    BY <1>0, <1>5, <2>1 DEF SeedRemember, Set, Sealed
  <2>3. QED
    BY <1>1, <1>5, <2>2 DEF SeedRemember, serverVars, Sealed
<1>6. ASSUME NEW x \in Projects, Collect(x) PROVE Sealed(p)'
  <2>1. sync'.keys = sync.keys
    BY <1>0, <1>6 DEF Collect
  <2>2. QED
    BY <1>1, <1>6, <2>1 DEF Collect, serverVars, Sealed
<1>7. CASE Prune
  <2>1. entry'[p] = entry[p] \/ entry'[p] = NoEntry
    BY <1>7 DEF Prune
  <2>2. Out(p)'
    BY <2>1 DEF Sealed, Out, NoEntry
  <2>3. sync'.keys = {} /\ UNCHANGED <<revoked, task, recv>>
    BY <1>7 DEF Prune, NoSync, serverVars
  <2>4. QED
    BY <2>2, <2>3 DEF Sealed
<1>8. QED
  BY <1>2, <1>3, <1>4, <1>5, <1>6, <1>7 DEF SyncNext

LEMMA SealedStep ==
    ASSUME DirectoryType, [Next]_vars, NEW p \in Peers, Sealed(p)
    PROVE  Sealed(p)'
<1>1. CASE UNCHANGED directoryVars
  BY <1>1 DEF directoryVars, serverVars, Sealed, Out
<1>2. ASSUME NEW t \in Tasks, NEW q \in Peers, Send(t, q) PROVE Sealed(p)'
  <2>1. Out(p)'
    <3>1. CASE q = p
      BY <1>2, <3>1, SendSealed
    <3>2. CASE q # p
      BY <1>2, <3>2, SendOther DEF Sealed, Out
    <3>3. QED
      BY <3>1, <3>2
  <2>2. ASSUME NEW u \in Tasks, task'[u].peer = {p} PROVE task'[u].pc \in SafePcs
    <3>1. CASE u # t
      BY <1>2, <2>2, <3>1, SendOther DEF Sealed, SafePcs
    <3>2. CASE u = t /\ q = p
      BY <1>2, <2>2, <3>2, SendSealed
    <3>3. CASE u = t /\ q # p
      BY <1>2, <2>2, <3>3, SendOther
    <3>4. QED
      BY <3>1, <3>2, <3>3
  <2>3. QED
    BY <1>2, <2>1, <2>2, SendOther DEF Sealed, SafePcs
<1>3. ASSUME NEW q \in Peers, Recv(q) PROVE Sealed(p)'
  BY <1>3, RecvSealed DEF Sealed
<1>4. CASE DirectoryNext
  BY <1>2, <1>3, <1>4, ServerSealed DEF DirectoryNext, SendNext, RecvNext, Send, Recv
<1>5. QED
  BY <1>1, <1>3, <1>4, DirectoryHalf DEF Recv

\* PeerLink!SealedForGood: what is left of a revoked peer when it has neither key nor
\* session stays so for good, whatever packets the relay goes on forwarding.
THEOREM RevokedStaysOut == Spec => SealedForGood
<1>1. TypeOK /\ [Next]_vars => [\A p \in Peers : Sealed(p) => Sealed(p)']_vars
  BY SealedStep, TypeHalves
<1>2. QED
  BY <1>1, TypeCorrect, PTL DEF Spec, SealedForGood
=============================================================================
