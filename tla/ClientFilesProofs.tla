---------------------------- MODULE ClientFilesProofs ----------------------------
(***************************************************************************)
(* Theorems about what the client keeps in files: its key pair and config  *)
(* (ClientIdentity), and what it remembers of conversations                *)
(* (ConversationMemory, in the second part), for any terminals, key pairs, *)
(* projects, actors, sessions and limits.                                  *)
(*                                                                         *)
(* For ClientIdentity the invariant adds to TypeOK that no file and no     *)
(* command holds an API key that has not been issued yet (so a new key     *)
(* never makes an old config work), and that a project a command is about  *)
(* to record has a member.  MachineInv, further down, ties the key pair on *)
(* disk to the node the server gives each API key to: every key is that of *)
(* one node, the one on disk or in the hands of the rotate that replaced   *)
(* it, unless a rotate was cut there or two first commands overwrote each  *)
(* other's key pair (OwnInv); and commands that run one at a time, to      *)
(* their end, leave a config that works (SerialInv).                       *)
(*                                                                         *)
(* For ConversationMemory, MemoryInv says of a session that has come to no *)
(* harm what each stage of the one actor that changes it has on disk and   *)
(* in its hands (SessionInv).                                              *)
(***************************************************************************)
EXTENDS ClientIdentity, ConversationMemory, SequenceTheorems, TLAPS

TermType == [pc : Pcs, cfg : Configs, node : Nodes \cup {None}, key : Nat,
             entered : SUBSET Projects]

HasMember(p, ms) == \E n \in Nodes : <<p, n>> \in ms

\* What holds of a command, given the key pairs made, the keys issued and the members.
TermOK(r, mk, is, ms) ==
    /\ r \in TermType
    /\ r.pc \in Holding => r.node \in mk
    /\ r.cfg.key <= is /\ r.key <= is
    /\ \A p \in r.entered : HasMember(p, ms)

DiskOK ==
    /\ keypair \in Nodes \cup {None} /\ (keypair # None => keypair \in made)
    /\ config \in Configs /\ config.key <= issued
    /\ \A p \in local : HasMember(p, members)

ServerOK ==
    /\ rows \in [Nodes -> [status : {"absent", "active", "revoked"}, key : Nat,
                           replacement : Nodes \cup {None}]]
    /\ members \subseteq Projects \X Nodes
    /\ issued \in Nat /\ started \in Nat
    /\ made \subseteq Nodes /\ blame \subseteq Causes
    /\ \A n \in Nodes : rows[n].status # "absent" => n \in made

TermsOK ==
    /\ term \in [Terminals -> TermType]
    /\ \A t \in Terminals : TermOK(term[t], made, issued, members)

IInv == DiskOK /\ ServerOK /\ TermsOK

\* What only ever grows.
Grows ==
    /\ made \subseteq made' /\ issued <= issued' /\ issued' \in Nat
    /\ \A p \in Projects : HasMember(p, members) => HasMember(p, members')

LEMMA IdleOK ==
    ASSUME NEW mk, NEW is \in Nat, NEW ms
    PROVE  TermOK(Idle, mk, is, ms)
  BY DEF TermOK, TermType, Idle, NoConfig, Configs, Pcs, Holding

\* A command goes on with what holds of it; what holds of the others still does.
LEMMA GoOnOK ==
    ASSUME TermsOK, Grows, NEW t \in Terminals, NEW next, GoOn(t, next),
           TermOK(next, made', issued', members'), issued \in Nat
    PROVE  TermsOK'
<1>1. term' = [term EXCEPT ![t] = next] /\ next \in TermType
  BY DEF GoOn, TermOK
<1>2. term' \in [Terminals -> TermType]
  BY <1>1 DEF TermsOK
<1>3. ASSUME NEW u \in Terminals PROVE TermOK(term'[u], made', issued', members')
  <2>1. CASE u = t
    BY <1>1, <2>1 DEF TermsOK
  <2>2. CASE u # t
    <3>1. term'[u] = term[u] /\ TermOK(term[u], made, issued, members)
      BY <1>1, <2>2 DEF TermsOK
    <3>2. term[u].cfg.key \in Nat /\ term[u].key \in Nat /\ term[u].entered \subseteq Projects
      BY <3>1 DEF TermOK, TermType, Configs
    <3>3. term[u].cfg.key <= issued' /\ term[u].key <= issued'
      BY <3>1, <3>2 DEF TermOK, Grows
    <3>4. QED
      BY <3>1, <3>2, <3>3 DEF TermOK, Grows
  <2>3. QED
    BY <2>1, <2>2
<1>4. QED
  BY <1>2, <1>3 DEF TermsOK

LEMMA ReplyOK ==
    ASSUME TermsOK, Grows, NEW t \in Terminals, NEW next, NEW lost \in {"cut", "cut_replace"},
           Reply(t, next, lost),
           TermOK(next, made', issued', members'), issued \in Nat, blame \subseteq Causes
    PROVE  TermsOK' /\ blame' \subseteq Causes
<1>1. TermsOK'
  BY GoOnOK, IdleOK DEF Reply, Exit, Grows
<1>2. blame' \subseteq Causes
  BY DEF Reply, Causes
<1>3. QED
  BY <1>1, <1>2

\* A command that starts, whatever it has loaded.
LEMMA StartOK ==
    ASSUME IInv, NEW t \in Terminals, NEW first, Start(t, first),
           TermOK(first, made, issued, members)
    PROVE  IInv'
<1>1. Grows /\ UNCHANGED <<disk, server, made>> /\ issued \in Nat
  BY DEF Start, Grows, IInv, ServerOK, server
<1>2. TermsOK'
  BY <1>1, GoOnOK DEF Start, IInv, server
<1>3. DiskOK'
  BY <1>1 DEF IInv, DiskOK, disk, server
<1>4. blame' \subseteq Causes /\ started' \in Nat
  BY DEF Start, IInv, ServerOK, Causes
<1>5. ServerOK'
  BY <1>1, <1>4 DEF IInv, ServerOK, server
<1>6. QED
  BY <1>2, <1>3, <1>5 DEF IInv

LEMMA CommandOK ==
    ASSUME IInv, NEW t \in Terminals,
           Setup(t) \/ CmdRegister(t) \/ CreateOrJoin(t) \/ IdentityRevoke(t) \/ IdentityRotate(t)
    PROVE  IInv'
<1>1. config \in Configs /\ config.key <= issued /\ issued \in Nat
  BY DEF IInv, DiskOK, ServerOK
<1>2. ASSUME NEW pc \in {"load_setup", "load"}
      PROVE  TermOK([Idle EXCEPT !.pc = pc], made, issued, members)
  BY <1>1 DEF TermOK, TermType, Idle, NoConfig, Configs, Pcs, Holding
<1>3. ASSUME NEW pc \in {"enter", "revoke", "generate"}
      PROVE  TermOK([Idle EXCEPT !.pc = pc, !.cfg = config], made, issued, members)
  <2> DEFINE next == [Idle EXCEPT !.pc = pc, !.cfg = config]
  <2>1. Idle \in TermType /\ pc \in Pcs /\ pc \notin Holding
    BY DEF Idle, NoConfig, TermType, Pcs, Configs, Holding
  <2>2. next \in TermType
    BY <1>1, <2>1 DEF TermType
  <2>3. next.pc = pc /\ next.cfg = config /\ next.key = Idle.key /\ next.entered = Idle.entered
    BY <2>1 DEF TermType
  <2>4. Idle.key = 0 /\ Idle.entered = {}
    BY DEF Idle
  <2> HIDE DEF next
  <2>5. TermOK(next, made, issued, members)
    BY <1>1, <2>1, <2>2, <2>3, <2>4 DEF TermOK
  <2>6. QED
    BY <2>5 DEF next
<1>4. QED
  BY <1>2, <1>3, StartOK
     DEF Setup, CmdRegister, CreateOrJoin, IdentityRevoke, IdentityRotate, Loaded

-----------------------------------------------------------------------------
(* One lemma for each group of steps *)

\* What a command that has got somewhere has read.
LEMMA TermFacts ==
    ASSUME IInv, NEW t \in Terminals
    PROVE  /\ term[t] \in TermType /\ TermOK(term[t], made, issued, members)
           /\ issued \in Nat /\ started \in Nat /\ blame \subseteq Causes /\ made \subseteq Nodes
           /\ term[t].cfg \in Configs /\ term[t].cfg.key \in Nat /\ term[t].key \in Nat
           /\ term[t].node \in Nodes \cup {None} /\ term[t].entered \subseteq Projects
           /\ TermsOK
<1>1. term[t] \in TermType /\ TermOK(term[t], made, issued, members) /\ TermsOK
  BY DEF IInv, TermsOK
<1>2. QED
  BY <1>1 DEF IInv, ServerOK, TermType, Configs

\* A step of a command that moves its pc, and may set its node and its key.
LEMMA MovedOK ==
    ASSUME NEW r \in TermType, NEW mk, NEW is \in Nat, NEW ms, NEW next \in TermType,
           next.cfg = r.cfg, next.entered = r.entered,
           r.cfg.key <= is, next.key <= is, \A p \in r.entered : HasMember(p, ms),
           next.pc \in Holding => next.node \in mk
    PROVE  TermOK(next, mk, is, ms)
  BY DEF TermOK

\* load_or_create_keypair, and the key pair that rotate generates.
LEMMA KeysOK ==
    ASSUME IInv, NEW t \in Terminals, LoadKey(t) \/ GenerateKey(t) \/ GenerateReplacement(t)
    PROVE  IInv'
<1> DEFINE r == term[t]
<1>1. /\ r \in TermType /\ TermOK(r, made, issued, members) /\ issued \in Nat
      /\ r.key \in Nat /\ r.cfg.key \in Nat /\ r.node \in Nodes \cup {None} /\ TermsOK
      /\ made \subseteq Nodes
  BY TermFacts
<1>2. UNCHANGED <<disk, server, started, blame>>
  BY DEF LoadKey, GenerateKey, GenerateReplacement
<1>3. Grows /\ made' \subseteq Nodes /\ issued' = issued /\ members' = members
  <2>1. issued' = issued /\ members' = members
    BY <1>2 DEF server
  <2>2. made \subseteq made' /\ made' \subseteq Nodes
    BY <1>1 DEF LoadKey, GenerateKey, GenerateReplacement, Fresh
  <2>3. QED
    BY <1>1, <2>1, <2>2 DEF Grows, HasMember
<1>4. \E pc \in Pcs, n \in made' : GoOn(t, [r EXCEPT !.pc = pc, !.node = n])
  <2>1. CASE LoadKey(t)
    <3>1. keypair \in made'
      BY <2>1 DEF LoadKey, IInv, DiskOK
    <3>2. (IF r.pc = "load" THEN "register" ELSE "load") \in Pcs
      BY DEF Pcs
    <3>3. GoOn(t, [r EXCEPT !.pc = IF r.pc = "load" THEN "register" ELSE "load", !.node = keypair])
      BY <2>1 DEF LoadKey
    <3>4. QED
      BY <3>1, <3>2, <3>3
  <2>2. CASE GenerateKey(t)
    <3>1. PICK n \in Fresh : /\ made' = made \cup {n}
                             /\ GoOn(t, [r EXCEPT !.pc = IF @ = "load" THEN "create" ELSE "create_setup",
                                                  !.node = n])
      BY <2>2 DEF GenerateKey
    <3>2. (IF r.pc = "load" THEN "create" ELSE "create_setup") \in Pcs
      BY DEF Pcs
    <3>3. QED
      BY <3>1, <3>2
  <2>3. CASE GenerateReplacement(t)
    <3>1. PICK n \in Fresh : /\ made' = made \cup {n}
                             /\ GoOn(t, [r EXCEPT !.pc = "register_new", !.node = n])
      BY <2>3 DEF GenerateReplacement
    <3>2. "register_new" \in Pcs
      BY DEF Pcs
    <3>3. QED
      BY <3>1, <3>2
  <2>4. QED
    BY <2>1, <2>2, <2>3
<1>5. PICK pc \in Pcs, n \in made' : GoOn(t, [r EXCEPT !.pc = pc, !.node = n])
  BY <1>4
<1>7. TermOK([r EXCEPT !.pc = pc, !.node = n], made', issued', members')
  <2> HIDE DEF r
  <2>1. /\ n \in Nodes \cup {None} /\ issued' \in Nat /\ r.cfg.key <= issued' /\ r.key <= issued'
        /\ \A p \in r.entered : HasMember(p, members')
    BY <1>1, <1>3 DEF TermOK
  <2>2. QED
    <3> SUFFICES ASSUME NEW next, next = [r EXCEPT !.pc = pc, !.node = n]
                 PROVE  TermOK(next, made', issued', members')
      OBVIOUS
    <3>1. /\ next \in TermType /\ next.pc = pc /\ next.node = n /\ next.key = r.key
          /\ next.cfg = r.cfg /\ next.entered = r.entered
      BY <1>1, <2>1 DEF TermType
    <3>2. QED
      BY <1>1, <2>1, <3>1, MovedOK
<1>8. TermsOK'
  BY <1>1, <1>3, <1>5, <1>7, GoOnOK
<1>9. DiskOK' /\ ServerOK'
  BY <1>2, <1>3 DEF IInv, DiskOK, ServerOK, disk, server, Grows
<1>10. QED
  BY <1>8, <1>9 DEF IInv

\* Files: the key pair, the config and the local database.
LEMMA FilesOK ==
    ASSUME IInv, NEW t \in Terminals,
           SaveNewKey(t) \/ PersistKey(t) \/ Record(t) \/ ClearKey(t) \/ SaveConfig(t)
    PROVE  IInv'
<1> DEFINE r == term[t]
<1>1. /\ r \in TermType /\ TermOK(r, made, issued, members) /\ issued \in Nat
      /\ r.key \in Nat /\ r.cfg.key \in Nat /\ r.node \in Nodes \cup {None} /\ TermsOK
      /\ r.cfg \in Configs
  BY TermFacts
<1>2. UNCHANGED <<server, made, started>>
  BY DEF SaveNewKey, PersistKey, Record, ClearKey, SaveConfig
<1>3. Grows /\ issued' = issued /\ members' = members /\ made' = made
  BY <1>1, <1>2 DEF Grows, server
<1>4. blame' \subseteq Causes
  BY DEF IInv, ServerOK, Causes, SaveNewKey, PersistKey, Record, ClearKey, SaveConfig
<1>5. ServerOK'
  BY <1>2, <1>4 DEF IInv, ServerOK, server
<1>6. CASE SaveNewKey(t) \/ PersistKey(t)
  <2>1. r.node \in made
    BY <1>1, <1>6 DEF SaveNewKey, PersistKey, TermOK, Holding
  <2>2. DiskOK'
    BY <1>3, <1>6, <2>1 DEF IInv, DiskOK, ServerOK, SaveNewKey, PersistKey
  <2>3. PICK pc \in {"register", "load", "save"} : GoOn(t, [r EXCEPT !.pc = pc])
    BY <1>6 DEF SaveNewKey, PersistKey
  <2>5. TermOK([r EXCEPT !.pc = pc], made', issued', members')
    <3> HIDE DEF r
    <3>1. /\ r.cfg.key <= issued' /\ r.key <= issued' /\ issued' \in Nat /\ pc \in Pcs
          /\ \A p \in r.entered : HasMember(p, members')
      BY <1>1, <1>3 DEF TermOK, Pcs
    <3>2. QED
      <4> SUFFICES ASSUME NEW next, next = [r EXCEPT !.pc = pc]
                   PROVE  TermOK(next, made', issued', members')
        OBVIOUS
      <4>1. /\ next \in TermType /\ next.pc = pc /\ next.node = r.node /\ next.key = r.key
            /\ next.cfg = r.cfg /\ next.entered = r.entered
        BY <1>1, <3>1 DEF TermType
      <4>2. QED
        BY <1>1, <1>3, <2>1, <3>1, MovedOK, <4>1
  <2>6. QED
    BY <1>1, <1>3, <1>5, <2>2, <2>3, <2>5, GoOnOK DEF IInv
<1>7. CASE Exit(t) /\ DiskOK'
  BY <1>1, <1>3, <1>5, <1>7, GoOnOK, IdleOK DEF IInv, Exit
<1>8. CASE Record(t)
  <2>1. DiskOK'
    BY <1>1, <1>3, <1>8 DEF IInv, DiskOK, Record, TermOK
  <2>2. QED
    BY <1>7, <1>8, <2>1 DEF Record
<1>9. CASE ClearKey(t)
  <2>1. [r.cfg EXCEPT !.key = 0] \in Configs /\ [r.cfg EXCEPT !.key = 0].key = 0
    BY <1>1 DEF Configs
  <2>2. DiskOK'
    BY <1>1, <1>3, <1>9, <2>1 DEF IInv, DiskOK, ClearKey
  <2>3. QED
    BY <1>7, <1>9, <2>2 DEF ClearKey
<1>10. CASE SaveConfig(t)
  <2>1. DiskOK'
    BY <1>1, <1>3, <1>10 DEF IInv, DiskOK, SaveConfig, Configs, TermOK
  <2>2. QED
    BY <1>7, <1>10, <2>1 DEF SaveConfig
<1>11. QED
  BY <1>6, <1>8, <1>9, <1>10

\* Requests to register a node.
LEMMA RegisterOK ==
    ASSUME IInv, NEW t \in Terminals, Register(t)
    PROVE  IInv'
<1> DEFINE r == term[t]
<1>1. /\ r \in TermType /\ TermOK(r, made, issued, members) /\ issued \in Nat
      /\ r.key \in Nat /\ r.cfg.key \in Nat /\ TermsOK /\ blame \subseteq Causes
      /\ made \subseteq Nodes
  BY TermFacts
<1>2. r.node \in made /\ r.node \in Nodes
  BY <1>1 DEF Register, TermOK, Holding
<1>3. issued' = issued + 1 /\ UNCHANGED <<disk, members, made, started>>
  BY DEF Register, Registered
<1>4. rows' = [rows EXCEPT ![r.node] = [status |-> "active", key |-> issued + 1,
                                        replacement |-> rows[r.node].replacement]]
  BY DEF Register, Registered
<1>5. Grows
  BY <1>1, <1>3 DEF Grows
<1>6. PICK pc \in {"save", "replace"} :
         Reply(t, [r EXCEPT !.pc = pc, !.key = issued'], "cut")
  BY DEF Register
<1>8. TermOK([r EXCEPT !.pc = pc, !.key = issued'], made', issued', members')
  <2> HIDE DEF r
  <2>1. issued' \in Nat /\ r.cfg.key <= issued' /\ issued' <= issued'
    BY <1>1, <1>3 DEF TermOK
  <2>2. pc \in Pcs /\ made' = made /\ \A p \in r.entered : HasMember(p, members')
    BY <1>1, <1>3 DEF Pcs, TermOK
  <2>3. QED
    <3> SUFFICES ASSUME NEW next, next = [r EXCEPT !.pc = pc, !.key = issued']
                 PROVE  TermOK(next, made', issued', members')
      OBVIOUS
    <3>1. /\ next \in TermType /\ next.pc = pc /\ next.node = r.node /\ next.key = issued'
          /\ next.cfg = r.cfg /\ next.entered = r.entered
      BY <1>1, <2>1, <2>2 DEF TermType
    <3>2. QED
      BY <1>1, <1>2, <2>1, <2>2, <3>1, MovedOK
<1>9. TermsOK' /\ blame' \subseteq Causes
  BY <1>1, <1>5, <1>6, <1>8, ReplyOK
<1>10. ServerOK'
  BY <1>1, <1>2, <1>3, <1>4, <1>9 DEF IInv, ServerOK
<1>11. DiskOK'
  BY <1>1, <1>3 DEF IInv, DiskOK, disk, Configs
<1>12. QED
  BY <1>9, <1>10, <1>11 DEF IInv

\* A membership, a revocation, a replacement.
LEMMA RequestOK ==
    ASSUME IInv, NEW t \in Terminals, Enter(t) \/ Revoke(t) \/ Replace(t)
    PROVE  IInv'
<1> DEFINE r == term[t]
<1>1. /\ r \in TermType /\ TermOK(r, made, issued, members) /\ issued \in Nat
      /\ r.key \in Nat /\ r.cfg.key \in Nat /\ TermsOK /\ blame \subseteq Causes
      /\ r.node \in Nodes \cup {None} /\ made \subseteq Nodes
  BY TermFacts
<1>2. issued' = issued /\ made' = made /\ started' = started /\ disk' = disk
  BY DEF Enter, Revoke, Replace
<1>3. ASSUME \A p \in Projects : HasMember(p, members) => HasMember(p, members'),
             members' \subseteq Projects \X Nodes,
             TermsOK' /\ blame' \subseteq Causes, 
             rows' = rows \/ \E n \in Nodes, m \in Nodes \cup {None} :
                                 rows[n].status = "active" /\ Revoked(n, m)
      PROVE  IInv'
  <2>1. ServerOK'
    <3>1. CASE rows' = rows
      BY <1>2, <1>3, <3>1 DEF IInv, ServerOK
    <3>2. ASSUME NEW n \in Nodes, NEW m \in Nodes \cup {None}, rows[n].status = "active", Revoked(n, m)
          PROVE  ServerOK'
      BY <1>2, <1>3, <3>2 DEF IInv, ServerOK, Revoked
    <3>3. QED
      BY <1>3, <3>1, <3>2
  <2>2. DiskOK'
    <3>1. \A p \in local : p \in Projects
      BY DEF IInv, DiskOK, ServerOK, HasMember
    <3>2. QED
      BY <1>2, <1>3, <3>1 DEF IInv, DiskOK, disk
  <2>3. QED
    BY <1>3, <2>1, <2>2 DEF IInv
<1>4. CASE Enter(t)
  <2>1. PICK n \in Nodes, p \in Projects :
           /\ members' = members \cup {<<p, n>>}
           /\ Reply(t, [r EXCEPT !.pc = "record", !.entered = {p}], "cut")
    BY <1>4 DEF Enter
  <2>2. /\ \A q \in Projects : HasMember(q, members) => HasMember(q, members')
        /\ HasMember(p, members') /\ members' \subseteq Projects \X Nodes
    <3>1. members \subseteq members' /\ <<p, n>> \in members'
      BY <2>1
    <3>2. members' \subseteq Projects \X Nodes
      BY <2>1 DEF IInv, ServerOK
    <3>3. QED
      BY <3>1, <3>2 DEF HasMember
  <2>3. Grows
    BY <1>1, <1>2, <2>2 DEF Grows
  <2>4. TermOK([r EXCEPT !.pc = "record", !.entered = {p}], made', issued', members')
    BY <1>1, <1>2, <2>2 DEF TermOK, TermType, Pcs, Holding
  <2>5. TermsOK' /\ blame' \subseteq Causes
    BY <1>1, <2>1, <2>3, <2>4, ReplyOK
  <2>6. QED
    BY <1>3, <1>4, <2>2, <2>5 DEF Enter
<1>5. CASE Revoke(t)
  <2>1. members' = members /\ \E n \in Nodes : rows[n].status = "active" /\ Revoked(n, None)
    BY <1>5 DEF Revoke, Authenticates
  <2>2. Grows
    BY <1>1, <1>2, <2>1 DEF Grows
  <2>4. TermOK([r EXCEPT !.pc = "clear"], made', issued', members')
    <3> HIDE DEF r
    <3>1. /\ r.cfg.key <= issued' /\ r.key <= issued' /\ issued' \in Nat /\ "clear" \in Pcs
          /\ \A p \in r.entered : HasMember(p, members')
      BY <1>1, <1>2, <2>1 DEF TermOK, Pcs
    <3>2. "clear" \notin Holding
      BY DEF Holding
    <3>3. QED
      <4> SUFFICES ASSUME NEW next, next = [r EXCEPT !.pc = "clear"]
                   PROVE  TermOK(next, made', issued', members')
        OBVIOUS
      <4>1. /\ next \in TermType /\ next.pc = "clear" /\ next.node = r.node /\ next.key = r.key
            /\ next.cfg = r.cfg /\ next.entered = r.entered
        BY <1>1, <3>1 DEF TermType
      <4>2. QED
        BY <1>1, <3>1, <3>2, MovedOK, <4>1
  <2>5. TermsOK' /\ blame' \subseteq Causes
    BY <1>1, <1>5, <2>2, <2>4, ReplyOK DEF Revoke
  <2>6. QED
    BY <1>3, <2>1, <2>5 DEF IInv, ServerOK
<1>6. CASE Replace(t)
  <2>1. PICK old \in Nodes : rows[old].status = "active" /\ Replaced(old, r.node)
    BY <1>6 DEF Replace, Authenticates
  <2>2. r.node \in made /\ r.node \in Nodes
    BY <1>1, <1>6 DEF Replace, TermOK, Holding
  <2>3. members' = {<<m[1], IF m[2] = old THEN r.node ELSE m[2]>> : m \in members}
    BY <2>1 DEF Replaced
  <2>4. members' \subseteq Projects \X Nodes
    BY <2>2, <2>3 DEF IInv, ServerOK
  <2>5. ASSUME NEW p \in Projects, HasMember(p, members) PROVE HasMember(p, members')
    <3>1. PICK n \in Nodes : <<p, n>> \in members
      BY <2>5 DEF HasMember
    <3>2. <<p, IF n = old THEN r.node ELSE n>> \in members'
      BY <2>3, <3>1
    <3>3. QED
      BY <2>2, <3>2 DEF HasMember
  <2>6. Grows
    BY <1>1, <1>2, <2>5 DEF Grows
  <2>8. \A p \in r.entered : HasMember(p, members')
    BY <1>1, <2>5 DEF TermOK, TermType
  <2>9. TermOK([r EXCEPT !.pc = "replaced"], made', issued', members')
    <3> HIDE DEF r
    <3>1. r.cfg.key <= issued' /\ r.key <= issued' /\ issued' \in Nat /\ "replaced" \in Pcs
      BY <1>1, <1>2 DEF TermOK, Pcs
    <3>2. QED
      <4> SUFFICES ASSUME NEW next, next = [r EXCEPT !.pc = "replaced"]
                   PROVE  TermOK(next, made', issued', members')
        OBVIOUS
      <4>1. /\ next \in TermType /\ next.pc = "replaced" /\ next.node = r.node /\ next.key = r.key
            /\ next.cfg = r.cfg /\ next.entered = r.entered
        BY <1>1, <3>1 DEF TermType
      <4>2. QED
        BY <1>1, <1>2, <2>2, <2>8, <3>1, MovedOK, <4>1
  <2>10. TermsOK' /\ blame' \subseteq Causes
    BY <1>1, <1>6, <2>6, <2>9, ReplyOK DEF Replace
  <2>11. QED
    BY <1>3, <2>1, <2>2, <2>4, <2>5, <2>10 DEF Replaced
<1>7. QED
  BY <1>4, <1>5, <1>6

\* Commands that end.
LEMMA ExitOK ==
    ASSUME IInv, NEW t \in Terminals, RegisterGone(t) \/ Refused(t) \/ Kill(t)
    PROVE  IInv'
<1>1. UNCHANGED <<disk, server, made, started>> /\ Exit(t) /\ issued \in Nat /\ TermsOK
  BY TermFacts DEF RegisterGone, Refused, Kill
<1>2. blame' \subseteq Causes
  BY DEF RegisterGone, Refused, Kill, IInv, ServerOK, Causes
<1>3. Grows /\ made' = made /\ issued' = issued /\ members' = members
  BY <1>1 DEF Grows, server
<1>4. TermsOK'
  BY <1>1, <1>3, GoOnOK, IdleOK DEF Exit
<1>5. ServerOK' /\ DiskOK'
  BY <1>1, <1>2, <1>3 DEF IInv, ServerOK, DiskOK, disk, server
<1>6. QED
  BY <1>4, <1>5 DEF IInv

LEMMA IInvStep ==
    ASSUME IInv, [Next]_vars
    PROVE  IInv'
<1>1. CASE UNCHANGED vars
  BY <1>1 DEF vars, disk, server, IInv, DiskOK, ServerOK, TermsOK
<1>2. CASE Next
  BY <1>2, CommandOK, KeysOK, FilesOK, RegisterOK, RequestOK, ExitOK DEF Next
<1>3. QED
  BY <1>1, <1>2

LEMMA InvariantHolds == Spec => []IInv
<1>1. Init => IInv
  <2> SUFFICES ASSUME Init PROVE IInv
    OBVIOUS
  <2>1. \A t \in Terminals : TermOK(term[t], made, issued, members)
    BY IdleOK DEF Init
  <2>2. Idle \in TermType /\ NoConfig \in Configs /\ NoConfig.key = 0
    BY DEF Idle, NoConfig, TermType, Configs, Pcs
  <2>3. TermsOK
    BY <2>1, <2>2 DEF Init, TermsOK
  <2>4. DiskOK
    BY <2>2 DEF Init, DiskOK
  <2>5. ServerOK
    BY DEF Init, ServerOK, Unregistered
  <2>6. QED
    BY <2>3, <2>4, <2>5 DEF IInv
<1>2. QED
  BY <1>1, IInvStep, PTL DEF Spec

\* ClientIdentity!TypeOK: every variable keeps its range; a key pair on disk, held by a
\* command or registered was generated here; a recorded project was entered on the server.
THEOREM TypeCorrect == Spec => []TypeOK
<1>1. IInv => TypeOK
  BY DEF IInv, DiskOK, ServerOK, TermsOK, TermOK, TermType, HasMember, TypeOK
<1>2. QED
  BY <1>1, InvariantHolds, PTL

-----------------------------------------------------------------------------
(* A machine whose key is revoked stays out *)

\* The key opens the server, with these rows.
Opens(k, rw) == \E n \in Nodes : k # 0 /\ rw[n].key = k /\ rw[n].status = "active"

\* NoWayBack, of a command and the rows.
Stuck(r, rw) ==
    /\ r.pc \notin {"create_setup", "create", "replaced"}
    /\ r.pc = "register" => rw[r.node].status = "revoked"
    /\ r.pc \in {"generate", "register_new", "replace"} => ~Opens(r.cfg.key, rw)
    /\ r.pc = "save" => ~Opens(r.key, rw)

\* What the rows never take back: a key that opens nothing goes on to open nothing, since
\* the keys to come are not issued yet; a revoked row stays revoked.
Shut ==
    /\ \A k \in Nat : k <= issued /\ ~Opens(k, rows) => ~Opens(k, rows')
    /\ \A n \in Nodes : rows[n].status = "revoked" => rows'[n].status = "revoked"

LEMMA StrandedIs ==
    Stranded <=> /\ keypair # None /\ rows[keypair].status = "revoked"
                 /\ ~Opens(config.key, rows)
                 /\ \A t \in Terminals : Stuck(term[t], rows)
  BY DEF Stranded, NoWayBack, Works, Authenticates, Stuck, Opens

LEMMA RowsShut ==
    ASSUME IInv,
           \/ rows' = rows
           \/ \E n \in Nodes : Registered(n)
           \/ \E n \in Nodes, m \in Nodes \cup {None} : Revoked(n, m)
    PROVE  Shut
<1>1. /\ rows \in [Nodes -> [status : {"absent", "active", "revoked"}, key : Nat,
                             replacement : Nodes \cup {None}]]
      /\ issued \in Nat
  BY DEF IInv, ServerOK
<1>2. CASE rows' = rows
  BY <1>2 DEF Shut
<1>3. ASSUME NEW n \in Nodes, Registered(n) PROVE Shut
  <2>1. /\ rows[n].status # "revoked"
        /\ rows' = [rows EXCEPT ![n] = [status |-> "active", key |-> issued + 1,
                                        replacement |-> rows[n].replacement]]
    BY <1>3 DEF Registered
  <2>2. /\ rows'[n].key = issued + 1
        /\ \A q \in Nodes : q # n => rows'[q] = rows[q]
    BY <1>1, <2>1
  <2>3. ASSUME NEW k \in Nat, k <= issued, ~Opens(k, rows), Opens(k, rows') PROVE FALSE
    <3>1. PICK q \in Nodes : k # 0 /\ rows'[q].key = k /\ rows'[q].status = "active"
      BY <2>3 DEF Opens
    <3>2. q # n
      BY <1>1, <2>2, <2>3, <3>1
    <3>3. QED
      BY <2>2, <2>3, <3>1, <3>2 DEF Opens
  <2>4. QED
    BY <2>1, <2>2, <2>3 DEF Shut
<1>4. ASSUME NEW n \in Nodes, NEW m \in Nodes \cup {None}, Revoked(n, m) PROVE Shut
  <2>1. rows' = [rows EXCEPT ![n] = [status |-> "revoked", key |-> 0, replacement |-> m]]
    BY <1>4 DEF Revoked
  <2>2. /\ rows'[n].status = "revoked"
        /\ \A q \in Nodes : q # n => rows'[q] = rows[q]
    BY <1>1, <2>1
  <2>3. ASSUME NEW k \in Nat, ~Opens(k, rows), Opens(k, rows') PROVE FALSE
    <3>1. PICK q \in Nodes : k # 0 /\ rows'[q].key = k /\ rows'[q].status = "active"
      BY <2>3 DEF Opens
    <3>2. q # n
      BY <2>2, <3>1
    <3>3. QED
      BY <2>2, <2>3, <3>1, <3>2 DEF Opens
  <2>4. QED
    BY <2>2, <2>3 DEF Shut
<1>5. QED
  BY <1>2, <1>3, <1>4

\* A command goes on to something stuck; the others, the key pair and the config stay so.
LEMMA StuckOK ==
    ASSUME IInv, Stranded, Shut, NEW t \in Terminals, NEW next, GoOn(t, next), Stuck(next, rows'),
           keypair' = keypair, ~Opens(config'.key, rows')
    PROVE  Stranded'
<1>1. \A u \in Terminals : Stuck(term[u], rows) /\ TermOK(term[u], made, issued, members)
  BY StrandedIs DEF IInv, TermsOK
<1>2. ASSUME NEW u \in Terminals PROVE Stuck(term'[u], rows')
  <2>1. CASE u = t
    BY <2>1 DEF GoOn, IInv, TermsOK
  <2>2. CASE u # t
    <3>1. term'[u] = term[u]
      BY <2>2 DEF GoOn, IInv, TermsOK
    <3>2. /\ term[u].cfg.key \in Nat /\ term[u].cfg.key <= issued
          /\ term[u].key \in Nat /\ term[u].key <= issued
          /\ term[u].pc = "register" => term[u].node \in Nodes
      BY <1>1 DEF TermOK, TermType, Configs, Holding, IInv, ServerOK
    <3>3. QED
      BY <1>1, <3>1, <3>2 DEF Stuck, Shut
  <2>3. QED
    BY <2>1, <2>2
<1>3. keypair' # None /\ rows'[keypair'].status = "revoked"
  BY StrandedIs DEF Shut, IInv, DiskOK
<1>4. QED
  BY <1>2, <1>3 DEF Stranded, NoWayBack, Works, Authenticates, Stuck, Opens

\* The same, for a command that ends, or has got an answer.
LEMMA StuckReplyOK ==
    ASSUME IInv, Stranded, Shut, NEW t \in Terminals, NEW next, NEW lost,
           Exit(t) \/ Reply(t, next, lost), Stuck(next, rows'), disk' = disk
    PROVE  Stranded'
<1>1. Stuck(Idle, rows')
  BY DEF Stuck, Idle
<1>2. keypair' = keypair /\ config' = config
  BY DEF disk
<1>3. ~Opens(config.key, rows')
  BY StrandedIs DEF Shut, IInv, DiskOK, Configs
<1>4. QED
  BY <1>1, <1>2, <1>3, StuckOK DEF Exit, Reply


LEMMA StrandedCommand ==
    ASSUME IInv, Stranded, NEW t \in Terminals,
           Setup(t) \/ CmdRegister(t) \/ CreateOrJoin(t) \/ IdentityRevoke(t) \/ IdentityRotate(t)
    PROVE  Stranded'
<1>1. rows' = rows /\ keypair' = keypair /\ config' = config /\ Shut
  BY RowsShut DEF Setup, CmdRegister, CreateOrJoin, IdentityRevoke, IdentityRotate, Loaded,
                  Start, disk, server
<1>2. PICK first : GoOn(t, first) /\ Stuck(first, rows')
  <2>1. ASSUME NEW pc \in {"load_setup", "load"}, Start(t, [Idle EXCEPT !.pc = pc])
        PROVE  \E first : GoOn(t, first) /\ Stuck(first, rows')
    <3>1. [Idle EXCEPT !.pc = pc].pc = pc
      BY DEF Idle
    <3>2. Stuck([Idle EXCEPT !.pc = pc], rows')
      BY <3>1 DEF Stuck
    <3>3. QED
      BY <2>1, <3>2 DEF Start
  <2>2. ASSUME NEW pc \in {"enter", "revoke", "generate"},
               Start(t, [Idle EXCEPT !.pc = pc, !.cfg = config])
        PROVE  \E first : GoOn(t, first) /\ Stuck(first, rows')
    <3> SUFFICES ASSUME NEW first, first = [Idle EXCEPT !.pc = pc, !.cfg = config]
                 PROVE  Stuck(first, rows')
      BY <2>2 DEF Start
    <3>1. first.pc = pc /\ first.cfg = config
      BY DEF Idle
    <3>2. QED
      BY <1>1, <3>1, StrandedIs DEF Stuck
  <2>3. QED
    BY <2>1, <2>2 DEF Setup, CmdRegister, CreateOrJoin, IdentityRevoke, IdentityRotate, Loaded
<1>3. ~Opens(config'.key, rows')
  BY <1>1, StrandedIs
<1>4. QED
  BY <1>1, <1>2, <1>3, StuckOK

\* The key pair is the revoked one that is on disk, or is never saved.
LEMMA StrandedKeys ==
    ASSUME IInv, Stranded, NEW t \in Terminals,
           LoadKey(t) \/ GenerateKey(t) \/ SaveNewKey(t) \/ GenerateReplacement(t) \/ PersistKey(t)
    PROVE  Stranded'
<1> DEFINE r == term[t]
<1>1. Stuck(r, rows) /\ r \in TermType /\ keypair # None /\ rows[keypair].status = "revoked"
  BY StrandedIs, TermFacts
<1>2. ~GenerateKey(t) /\ ~SaveNewKey(t) /\ ~PersistKey(t)
  BY <1>1 DEF Stuck, GenerateKey, SaveNewKey, PersistKey
<1>3. rows' = rows /\ keypair' = keypair /\ config' = config /\ Shut /\ ~Opens(config'.key, rows')
  BY <1>2, RowsShut, StrandedIs DEF LoadKey, GenerateReplacement, disk, server
<1>4. PICK next : GoOn(t, next) /\ Stuck(next, rows')
  <2>1. CASE LoadKey(t)
    <3>1. PICK pc \in {"register", "load"} : GoOn(t, [r EXCEPT !.pc = pc, !.node = keypair])
      BY <2>1 DEF LoadKey
    <3> SUFFICES ASSUME NEW next, next = [r EXCEPT !.pc = pc, !.node = keypair]
                 PROVE  Stuck(next, rows')
      BY <3>1
    <3>2. next.pc = pc /\ next.node = keypair
      BY <1>1 DEF TermType
    <3>3. QED
      BY <1>1, <1>3, <3>2 DEF Stuck
  <2>2. CASE GenerateReplacement(t)
    <3>1. PICK n \in Fresh : GoOn(t, [r EXCEPT !.pc = "register_new", !.node = n])
      BY <2>2 DEF GenerateReplacement
    <3> SUFFICES ASSUME NEW next, next = [r EXCEPT !.pc = "register_new", !.node = n]
                 PROVE  Stuck(next, rows')
      BY <3>1
    <3>2. next.pc = "register_new" /\ next.cfg = r.cfg /\ r.pc = "generate"
      BY <1>1, <2>2 DEF TermType, GenerateReplacement
    <3>3. QED
      BY <1>1, <1>3, <3>2 DEF Stuck
  <2>3. QED
    BY <1>2, <2>1, <2>2
<1>5. QED
  BY <1>3, <1>4, StuckOK

\* The requests that are still made, and the commands that end.
LEMMA StrandedRequest ==
    ASSUME IInv, Stranded, NEW t \in Terminals,
           \/ Register(t) \/ RegisterGone(t) \/ Enter(t) \/ Record(t) \/ Revoke(t)
           \/ Replace(t) \/ Refused(t) \/ Kill(t)
    PROVE  Stranded'
<1> DEFINE r == term[t]
<1>1. /\ Stuck(r, rows) /\ r \in TermType
      /\ TermOK(r, made, issued, members) /\ made \subseteq Nodes
      /\ r.cfg.key \in Nat /\ r.cfg.key <= issued
  BY StrandedIs, TermFacts DEF TermOK
<1>2. ~Replace(t)
  BY <1>1 DEF Replace, Stuck, Authenticates, Opens
<1>3. CASE Register(t)
  <2>1. r.node \in Nodes /\ r.pc = "register_new" /\ disk' = disk
    BY <1>1, <1>3 DEF Register, Registered, TermOK, Holding, Stuck
  <2>2. Shut
    BY <1>3, <2>1, RowsShut DEF Register
  <2>3. Reply(t, [r EXCEPT !.pc = "replace", !.key = issued'], "cut")
    BY <1>3, <2>1 DEF Register
  <2> SUFFICES ASSUME NEW next, next = [r EXCEPT !.pc = "replace", !.key = issued']
               PROVE  Stuck(next, rows')
    BY <2>1, <2>2, <2>3, StuckReplyOK
  <2>4. next.pc = "replace" /\ next.cfg = r.cfg
    BY <1>1 DEF TermType
  <2>5. QED
    BY <1>1, <2>1, <2>2, <2>4 DEF Stuck, Shut
<1>4. CASE Enter(t)
  <2>1. Shut /\ disk' = disk
    BY <1>4, RowsShut DEF Enter
  <2>2. PICK p \in Projects : Reply(t, [r EXCEPT !.pc = "record", !.entered = {p}], "cut")
    BY <1>4 DEF Enter
  <2> SUFFICES ASSUME NEW next, next = [r EXCEPT !.pc = "record", !.entered = {p}]
               PROVE  Stuck(next, rows')
    BY <2>1, <2>2, StuckReplyOK
  <2>3. next.pc = "record"
    BY <1>1 DEF TermType
  <2>4. QED
    BY <2>3 DEF Stuck
<1>5. CASE Revoke(t)
  <2>1. Shut /\ disk' = disk
    BY <1>5, RowsShut DEF Revoke
  <2>2. Reply(t, [r EXCEPT !.pc = "clear"], "cut")
    BY <1>5 DEF Revoke
  <2>3. [r EXCEPT !.pc = "clear"].pc = "clear"
    BY <1>1 DEF TermType
  <2>4. Stuck([r EXCEPT !.pc = "clear"], rows')
    BY <2>3 DEF Stuck
  <2>5. QED
    BY <2>1, <2>2, <2>4, StuckReplyOK
<1>6. CASE RegisterGone(t) \/ Record(t) \/ Refused(t) \/ Kill(t)
  <2>1. rows' = rows /\ keypair' = keypair /\ config' = config /\ Exit(t)
    BY <1>6 DEF RegisterGone, Record, Refused, Kill, disk, server
  <2>2. Stuck(Idle, rows') /\ ~Opens(config'.key, rows') /\ Shut
    BY <2>1, RowsShut, StrandedIs DEF Stuck, Idle
  <2>3. QED
    BY <2>1, <2>2, StuckOK DEF Exit
<1>7. QED
  BY <1>2, <1>3, <1>4, <1>5, <1>6

\* The config that is saved has a key that opens nothing.
LEMMA StrandedConfig ==
    ASSUME IInv, Stranded, NEW t \in Terminals, ClearKey(t) \/ SaveConfig(t)
    PROVE  Stranded'
<1>1. rows' = rows /\ keypair' = keypair /\ Exit(t) /\ Shut
  BY RowsShut DEF ClearKey, SaveConfig, server
<1>2. Stuck(Idle, rows') /\ Stuck(term[t], rows) /\ term[t].cfg \in Configs
  BY StrandedIs, TermFacts DEF Stuck, Idle
<1>3. ~Opens(config'.key, rows')
  <2>1. CASE ClearKey(t)
    <3>1. config'.key = 0
      BY <1>2, <2>1 DEF ClearKey, Configs
    <3>2. QED
      BY <3>1 DEF Opens
  <2>2. CASE SaveConfig(t)
    BY <1>1, <1>2, <2>2 DEF SaveConfig, Stuck
  <2>3. QED
    BY <2>1, <2>2
<1>4. QED
  BY <1>1, <1>2, <1>3, StuckOK DEF Exit

\* ClientIdentity!StrandedForGood: once the key on disk is revoked and nothing in flight can
\* replace it, no command brings the machine back.
THEOREM StrandedStays == Spec => StrandedForGood
<1>1. IInv /\ [Next]_vars => (Stranded => Stranded')
  <2> SUFFICES ASSUME IInv, [Next]_vars, Stranded PROVE Stranded'
    OBVIOUS
  <2>1. CASE UNCHANGED vars
    BY <2>1 DEF vars, disk, server, Stranded, NoWayBack, Works, Authenticates
  <2>2. CASE Next
    BY <2>2, StrandedCommand, StrandedKeys, StrandedRequest, StrandedConfig DEF Next
  <2>3. QED
    BY <2>1, <2>2
<1>2. QED
  BY <1>1, InvariantHolds, PTL DEF Spec, StrandedForGood

-----------------------------------------------------------------------------
(* The machine's own key, and its config *)

Admits(rw, k, n) == k # 0 /\ rw[n].key = k /\ rw[n].status = "active"

\* No rotate was cut after its replacement, and no first command overwrote another's key.
Undisturbed == blame \cap {"cut_replace", "two_creators"} = {}

\* The API keys of a command are those of the key pair on disk, if of anyone, except the
\* key of a rotate that has not saved its key pair yet; what setup registers is on disk.
Fits(r, kp, rw) ==
    /\ \A n \in Nodes : Admits(rw, r.cfg.key, n) => n = kp
    /\ r.pc = "save" => \A n \in Nodes : Admits(rw, r.key, n) => n = kp
    /\ r.pc = "register" => r.node = kp \/ rw[r.node].status = "revoked"

\* The API key a command was answered is that of its own node, if of anyone.
KeyIsOwn(r, rw) ==
    r.pc \in {"replace", "replaced", "save"} =>
        \A n \in Nodes : Admits(rw, r.key, n) => n = r.node

\* One node acts for the machine: the one on disk or, once a rotate has replaced that one,
\* the node in its hands, which then has all the memberships.
OneMachine ==
    /\ \A n \in Nodes : Admits(rows, config.key, n) => n = keypair
    /\ \A t \in Terminals : Fits(term[t], keypair, rows)
    /\ \A t \in Terminals : term[t].pc = "replaced" =>
          /\ keypair \in Nodes /\ rows[keypair].status = "revoked"
          /\ \A u \in Terminals : term[u].pc = "replaced" => u = t
          /\ \A m \in members : m[2] = term[t].node
    /\ (\A t \in Terminals : term[t].pc # "replaced") => \A m \in members : m[2] = keypair

KeysOwn == \A t \in Terminals : KeyIsOwn(term[t], rows)
OwnInv == KeysOwn /\ (Undisturbed => OneMachine)

\* A config with a key works, for the key pair on disk.
ConfigFine(cfg, kp, rw) ==
    cfg.key # 0 => cfg.node \in Nodes /\ cfg.node = kp /\ Admits(rw, cfg.key, cfg.node)

\* A command that will save a config holds one that works, and no rotate registers the node
\* on disk.
Settled(r, kp, rw) ==
    /\ r.pc \in {"replaced", "save"} => r.node \in Nodes /\ Admits(rw, r.key, r.node)
    /\ r.pc = "save" => r.node = kp
    /\ r.pc = "register_new" => r.node # kp

WillSave == {"clear", "replaced", "save"}
Solo == \A t, u \in Terminals : term[t].pc # "idle" /\ term[u].pc # "idle" => t = u
SettledInv ==
    /\ (\A t \in Terminals : term[t].pc \notin WillSave) => ConfigFine(config, keypair, rows)
    /\ \A t \in Terminals : Settled(term[t], keypair, rows)

\* As long as commands run one after the other, to their end.
SerialInv == blame = {} => Solo /\ SettledInv

-----------------------------------------------------------------------------
(* What a step leaves to the other commands *)

\* No key issued so far comes to admit a node, and a revoked row stays revoked.
Narrow ==
    /\ \A k \in Nat, n \in Nodes : k <= issued /\ Admits(rows', k, n) => Admits(rows, k, n)
    /\ \A n \in Nodes : rows[n].status = "revoked" => rows'[n].status = "revoked"

LEMMA RowsNarrow ==
    ASSUME IInv,
           \/ rows' = rows
           \/ \E n \in Nodes : Registered(n)
           \/ \E n \in Nodes, m \in Nodes \cup {None} : Revoked(n, m)
    PROVE  Narrow
<1>1. /\ rows \in [Nodes -> [status : {"absent", "active", "revoked"}, key : Nat,
                             replacement : Nodes \cup {None}]]
      /\ issued \in Nat
  BY DEF IInv, ServerOK
<1>2. CASE rows' = rows
  BY <1>2 DEF Narrow
<1>3. ASSUME NEW n \in Nodes, Registered(n) PROVE Narrow
  <2>1. /\ rows[n].status # "revoked"
        /\ rows'[n].key = issued + 1
        /\ \A q \in Nodes : q # n => rows'[q] = rows[q]
    BY <1>1, <1>3 DEF Registered
  <2>2. QED
    BY <1>1, <2>1 DEF Narrow, Admits
<1>4. ASSUME NEW n \in Nodes, NEW m \in Nodes \cup {None}, Revoked(n, m) PROVE Narrow
  <2>1. /\ rows'[n].status = "revoked"
        /\ \A q \in Nodes : q # n => rows'[q] = rows[q]
    BY <1>1, <1>4 DEF Revoked
  <2>2. QED
    BY <2>1 DEF Narrow, Admits
<1>5. QED
  BY <1>2, <1>3, <1>4

LEMMA FitsKept ==
    ASSUME IInv, Narrow, NEW u \in Terminals
    PROVE  /\ Fits(term[u], keypair, rows) => Fits(term[u], keypair, rows')
           /\ KeyIsOwn(term[u], rows) => KeyIsOwn(term[u], rows')
<1>1. /\ term[u].cfg.key \in Nat /\ term[u].cfg.key <= issued
      /\ term[u].key \in Nat /\ term[u].key <= issued
      /\ term[u].pc = "register" => term[u].node \in Nodes
  BY TermFacts DEF TermOK, Holding
<1>2. QED
  BY <1>1 DEF Fits, KeyIsOwn, Narrow

LEMMA IdleFits ==
    ASSUME NEW kp, NEW rw
    PROVE  Fits(Idle, kp, rw) /\ KeyIsOwn(Idle, rw) /\ Settled(Idle, kp, rw) /\ Idle.pc = "idle"
  BY DEF Fits, KeyIsOwn, Settled, Admits, Idle, NoConfig

LEMMA TermsChange ==
    ASSUME IInv, NEW t \in Terminals, NEW next, GoOn(t, next)
    PROVE  term'[t] = next /\ \A u \in Terminals \ {t} : term'[u] = term[u]
  BY DEF IInv, TermsOK, GoOn

LEMMA KeysOwnKept ==
    ASSUME IInv, KeysOwn, Narrow, NEW t \in Terminals, NEW next, GoOn(t, next),
           KeyIsOwn(next, rows')
    PROVE  KeysOwn'
<1>1. ASSUME NEW u \in Terminals PROVE KeyIsOwn(term'[u], rows')
  BY TermsChange, FitsKept DEF KeysOwn
<1>2. QED
  BY <1>1 DEF KeysOwn

\* A step that replaces no node and saves no key pair; a membership is of the node on disk.
LEMMA QuietOwn ==
    ASSUME IInv, OwnInv, Narrow, NEW t \in Terminals, NEW next, GoOn(t, next),
           keypair' = keypair, blame \subseteq blame',
           term[t].pc # "replaced" /\ next.pc # "replaced", KeyIsOwn(next, rows'),
           OneMachine =>
              /\ Fits(next, keypair, rows')
              /\ \A n \in Nodes : Admits(rows', config'.key, n) => n = keypair
              /\ \A m \in members' :
                    m \in members \/ (m[2] = keypair /\ rows[keypair].status # "revoked")
    PROVE  OwnInv'
<1>1. KeysOwn'
  BY KeysOwnKept DEF OwnInv
<1>2. ASSUME Undisturbed' PROVE OneMachine'
  <2>1. OneMachine
    BY <1>2 DEF OwnInv, Undisturbed
  <2>2. \A u \in Terminals : Fits(term'[u], keypair', rows')
    BY <2>1, TermsChange, FitsKept DEF OneMachine
  <2>3. \A u \in Terminals : term'[u].pc = "replaced" => u # t /\ term'[u] = term[u]
    BY TermsChange
  <2>4. ASSUME NEW u \in Terminals, term'[u].pc = "replaced"
        PROVE  /\ keypair' \in Nodes /\ rows'[keypair'].status = "revoked"
               /\ \A v \in Terminals : term'[v].pc = "replaced" => v = u
               /\ \A m \in members' : m[2] = term'[u].node
    BY <2>1, <2>3, <2>4 DEF OneMachine, Narrow
  <2>5. ASSUME \A u \in Terminals : term'[u].pc # "replaced"
        PROVE  \A m \in members' : m[2] = keypair'
    <3>1. \A u \in Terminals : term[u].pc # "replaced"
      BY <2>5, TermsChange
    <3>2. QED
      BY <2>1, <3>1 DEF OneMachine
  <2>6. \A n \in Nodes : Admits(rows', config'.key, n) => n = keypair'
    BY <2>1
  <2>7. QED
    BY <2>2, <2>4, <2>5, <2>6 DEF OneMachine
<1>3. QED
  BY <1>1, <1>2 DEF OwnInv

\* A step of the only command that runs.
LEMMA SerialKept ==
    ASSUME IInv, SerialInv, NEW t \in Terminals, NEW next, GoOn(t, next),
           blame \subseteq blame', term[t].pc # "idle",
           /\ blame' = {} /\ Settled(term[t], keypair, rows)
           /\ term[t].pc \notin WillSave => ConfigFine(config, keypair, rows)
           => /\ Settled(next, keypair', rows')
              /\ next.pc \notin WillSave => ConfigFine(config', keypair', rows')
    PROVE  SerialInv'
<1> SUFFICES ASSUME blame' = {} PROVE Solo' /\ SettledInv'
  BY DEF SerialInv
<1>1. blame = {} /\ Solo /\ SettledInv
  BY DEF SerialInv
<1>2. \A u \in Terminals \ {t} : term'[u] = term[u] /\ term[u].pc = "idle"
  BY <1>1, TermsChange DEF Solo
<1>3. term'[t] = next
  BY TermsChange
<1>4. Settled(term[t], keypair, rows)
  BY <1>1 DEF SettledInv
<1>5. term[t].pc \notin WillSave => ConfigFine(config, keypair, rows)
  BY <1>1, <1>2 DEF SettledInv, WillSave
<1>6. Solo'
  BY <1>2 DEF Solo
<1>7. \A u \in Terminals \ {t} : Settled(term'[u], keypair', rows')
  BY <1>2 DEF Settled
<1>8. QED
  BY <1>3, <1>4, <1>5, <1>6, <1>7 DEF SettledInv

-----------------------------------------------------------------------------
(* Step by step *)

\* A key in the rows has been issued.
RowsIssued == \A n \in Nodes : rows[n].key <= issued

MachineInv == OwnInv /\ SerialInv

\* A command that starts has the API key of the config, or none.
LEMMA StartsOwn ==
    ASSUME IInv, MachineInv, NEW t \in Terminals,
           Setup(t) \/ CmdRegister(t) \/ CreateOrJoin(t) \/ IdentityRevoke(t) \/ IdentityRotate(t)
    PROVE  MachineInv'
<1> DEFINE Begins(next) == /\ Start(t, next) /\ next.cfg \in {NoConfig, config}
                           /\ next.pc \in {"load_setup", "load", "enter", "revoke", "generate"}
<1>1. ASSUME NEW pc \in {"load_setup", "load"}, Start(t, [Idle EXCEPT !.pc = pc])
      PROVE  \E next : Begins(next)
  <2>1. [Idle EXCEPT !.pc = pc].pc = pc /\ [Idle EXCEPT !.pc = pc].cfg = NoConfig
    BY DEF Idle
  <2>2. QED
    BY <1>1, <2>1
<1>2. ASSUME NEW pc \in {"enter", "revoke", "generate"},
             Start(t, [Idle EXCEPT !.pc = pc, !.cfg = config])
      PROVE  \E next : Begins(next)
  <2> DEFINE next == [Idle EXCEPT !.pc = pc, !.cfg = config]
  <2>1. next.pc = pc /\ next.cfg = config
    BY DEF Idle
  <2> HIDE DEF next
  <2>2. Start(t, next)
    BY <1>2 DEF next
  <2>3. QED
    BY <2>1, <2>2
<1>0. PICK next : Begins(next)
  BY <1>1, <1>2 DEF Setup, CmdRegister, CreateOrJoin, IdentityRevoke, IdentityRotate, Loaded
<1>3. /\ GoOn(t, next) /\ term[t].pc = "idle" /\ UNCHANGED <<keypair, config, rows, members>>
      /\ blame' = IF AllIdle THEN blame ELSE blame \cup {"overlap"}
  BY <1>0 DEF Start, disk, server
<1>4. NoConfig.key = 0
  BY DEF NoConfig
<1>5. OwnInv'
  <2>1. KeyIsOwn(next, rows')
    BY <1>0 DEF KeyIsOwn
  <2>2. OneMachine => Fits(next, keypair, rows')
    BY <1>0, <1>3, <1>4 DEF OneMachine, Fits, Admits
  <2>3. QED
    BY <1>0, <1>3, <2>1, <2>2, QuietOwn, RowsNarrow DEF MachineInv, OneMachine
<1>6. SerialInv'
  <2> SUFFICES ASSUME blame' = {} PROVE Solo' /\ SettledInv'
    BY DEF SerialInv
  <2>1. AllIdle /\ blame = {}
    BY <1>3
  <2>2. SettledInv
    BY <2>1 DEF MachineInv, SerialInv
  <2>3. term'[t] = next /\ \A u \in Terminals \ {t} : term'[u] = term[u] /\ term[u].pc = "idle"
    BY <1>3, <2>1, TermsChange DEF AllIdle
  <2>4. Settled(next, keypair, rows) /\ ConfigFine(config, keypair, rows)
    BY <1>0, <2>1, <2>2 DEF Settled, SettledInv, AllIdle, WillSave
  <2>5. \A u \in Terminals : Settled(term'[u], keypair', rows')
    BY <1>3, <2>2, <2>3, <2>4 DEF SettledInv
  <2>6. QED
    BY <1>3, <2>3, <2>4, <2>5 DEF Solo, SettledInv
<1>7. QED
  BY <1>5, <1>6 DEF MachineInv

\* The key pair setup loads is on disk; the one it generates, and that of a rotate, is not.
LEMMA KeysKeepOwn ==
    ASSUME IInv, MachineInv, NEW t \in Terminals,
           LoadKey(t) \/ GenerateKey(t) \/ GenerateReplacement(t)
    PROVE  MachineInv'
<1> DEFINE r == term[t]
<1>0. r \in TermType /\ UNCHANGED <<keypair, config, rows, members, blame>>
  BY TermFacts DEF LoadKey, GenerateKey, GenerateReplacement, disk, server
<1>1. PICK pc \in {"register", "load", "create", "create_setup", "register_new"}, n \in Nodes :
         /\ GoOn(t, [r EXCEPT !.pc = pc, !.node = n])
         /\ pc = "register" => n = keypair
         /\ pc = "register_new" => n # keypair
  <2>1. CASE LoadKey(t)
    <3>1. keypair \in Nodes
      BY <2>1 DEF LoadKey, IInv, DiskOK
    <3>2. PICK pc \in {"register", "load"} : GoOn(t, [r EXCEPT !.pc = pc, !.node = keypair])
      BY <2>1 DEF LoadKey
    <3>3. QED
      BY <3>1, <3>2
  <2>2. CASE GenerateKey(t)
    <3>1. PICK n \in Fresh, pc \in {"create", "create_setup"} :
             GoOn(t, [r EXCEPT !.pc = pc, !.node = n])
      BY <2>2 DEF GenerateKey
    <3>2. QED
      BY <3>1 DEF Fresh
  <2>3. CASE GenerateReplacement(t)
    <3>1. PICK n \in Fresh : GoOn(t, [r EXCEPT !.pc = "register_new", !.node = n])
      BY <2>3 DEF GenerateReplacement
    <3>2. n \in Nodes /\ n # keypair
      BY IdentityAssumption DEF Fresh, IInv, DiskOK
    <3>3. QED
      BY <3>1, <3>2
  <2>4. QED
    BY <2>1, <2>2, <2>3
<1>2. r.pc \in {"load_setup", "load", "generate"}
  BY DEF LoadKey, GenerateKey, GenerateReplacement
<1> DEFINE next == [r EXCEPT !.pc = pc, !.node = n]
<1>3. GoOn(t, next) /\ next.pc = pc /\ next.node = n /\ next.cfg = r.cfg
  BY <1>0, <1>1 DEF TermType
<1> HIDE DEF next
<1>4. OwnInv'
  <2>1. KeyIsOwn(next, rows')
    BY <1>3 DEF KeyIsOwn
  <2>2. OneMachine => Fits(next, keypair, rows')
    BY <1>0, <1>1, <1>3 DEF OneMachine, Fits
  <2>3. QED
    BY <1>0, <1>2, <1>3, <2>1, <2>2, QuietOwn, RowsNarrow DEF MachineInv, OneMachine
<1>5. SerialInv'
  <2>1. Settled(next, keypair, rows)
    BY <1>1, <1>3 DEF Settled
  <2>2. QED
    BY <1>0, <1>2, <1>3, <2>1, SerialKept DEF MachineInv, WillSave
<1>6. QED
  BY <1>4, <1>5 DEF MachineInv

\* Commands that end without having written anything but the local database, in any way
\* but a kill after the replacement.
LEMMA ExitsOwn ==
    ASSUME IInv, MachineInv, NEW t \in Terminals,
           RegisterGone(t) \/ Refused(t) \/ Record(t) \/ (Kill(t) /\ term[t].pc # "replaced")
    PROVE  MachineInv'
<1>1. /\ GoOn(t, Idle) /\ UNCHANGED <<keypair, config, rows, members>> /\ blame \subseteq blame'
      /\ term[t].pc \notin {"idle", "replaced"}
      /\ term[t].pc \in WillSave => blame' # {}
  BY DEF RegisterGone, Refused, Record, Kill, Exit, disk, server, WillSave
<1>2. OwnInv'
  BY <1>1, QuietOwn, RowsNarrow, IdleFits DEF MachineInv, OneMachine
<1>3. SerialInv'
  BY <1>1, SerialKept, IdleFits DEF MachineInv
<1>4. QED
  BY <1>2, <1>3 DEF MachineInv

\* A kill between the replacement and the new key on disk is what Undisturbed excludes.
LEMMA CutOwn ==
    ASSUME IInv, MachineInv, NEW t \in Terminals, Kill(t), term[t].pc = "replaced"
    PROVE  MachineInv'
<1>1. GoOn(t, Idle) /\ UNCHANGED rows /\ "cut_replace" \in blame'
  BY DEF Kill, Exit, server
<1>2. KeysOwn'
  BY <1>1, KeysOwnKept, RowsNarrow, IdleFits DEF MachineInv, OwnInv
<1>3. QED
  BY <1>1, <1>2 DEF MachineInv, OwnInv, SerialInv, Undisturbed

\* The config a revoke saves has no key, that of setup and rotate the one just issued.
LEMMA ConfigsOwn ==
    ASSUME IInv, MachineInv, NEW t \in Terminals, ClearKey(t) \/ SaveConfig(t)
    PROVE  MachineInv'
<1>1. /\ GoOn(t, Idle) /\ UNCHANGED <<keypair, rows, members, blame>>
      /\ term[t].pc \in {"clear", "save"}
  BY DEF ClearKey, SaveConfig, Exit, server
<1>2. CASE ClearKey(t)
  <2>1. config'.key = 0
    BY <1>2, TermFacts DEF ClearKey, Configs
  <2>2. /\ \A n \in Nodes : ~Admits(rows', config'.key, n)
        /\ ConfigFine(config', keypair', rows')
    BY <2>1 DEF Admits, ConfigFine
  <2>3. QED
    BY <1>1, <2>2, QuietOwn, SerialKept, RowsNarrow, IdleFits DEF MachineInv
<1>3. CASE SaveConfig(t)
  <2>1. config'.node = term[t].node /\ config'.key = term[t].key /\ term[t].pc = "save"
    BY <1>3 DEF SaveConfig
  <2>2. OneMachine => \A n \in Nodes : Admits(rows', config'.key, n) => n = keypair
    BY <1>1, <2>1 DEF OneMachine, Fits
  <2>3. Settled(term[t], keypair, rows) => ConfigFine(config', keypair', rows')
    BY <1>1, <2>1 DEF Settled, ConfigFine
  <2>4. OwnInv'
    BY <1>1, <2>2, QuietOwn, RowsNarrow, IdleFits DEF MachineInv
  <2>5. SerialInv'
    BY <1>1, <2>3, SerialKept, IdleFits DEF MachineInv
  <2>6. QED
    BY <2>4, <2>5 DEF MachineInv
<1>4. QED
  BY <1>2, <1>3

\* Only the first key pair is saved by setup: nothing acts for the machine before.
LEMMA NewKeyOwn ==
    ASSUME IInv, MachineInv, NEW t \in Terminals, SaveNewKey(t)
    PROVE  MachineInv'
<1> DEFINE r == term[t]
           next == [r EXCEPT !.pc = IF @ = "create" THEN "register" ELSE "load"]
<1>1. /\ GoOn(t, next) /\ UNCHANGED <<config, rows, members>> /\ keypair' = r.node
      /\ blame' = IF keypair = None THEN blame ELSE blame \cup {"two_creators"}
      /\ r.pc # "idle"
  BY DEF SaveNewKey, server
<1>2. /\ next.pc \in {"register", "load"} /\ next.cfg = r.cfg /\ next.node = r.node
  BY TermFacts DEF TermType
<1> HIDE DEF next
<1>3. KeysOwn'
  BY <1>1, <1>2, KeysOwnKept, RowsNarrow DEF MachineInv, OwnInv, KeyIsOwn
<1>4. ASSUME Undisturbed' PROVE OneMachine'
  <2>1. keypair = None /\ OneMachine
    BY <1>1, <1>4 DEF MachineInv, OwnInv, Undisturbed
  <2>2. keypair \notin Nodes
    BY <2>1, IdentityAssumption
  <2>3. \A u \in Terminals : term[u].pc # "replaced"
    BY <2>1, <2>2 DEF OneMachine
  <2>4. members = {}
    BY <2>1, <2>2, <2>3 DEF OneMachine, IInv, ServerOK
  <2>5. \A u \in Terminals : Fits(term[u], keypair', rows')
    <3> SUFFICES ASSUME NEW u \in Terminals PROVE Fits(term[u], keypair', rows')
      OBVIOUS
    <3>1. Fits(term[u], keypair, rows) /\ (term[u].pc = "register" => term[u].node \in Nodes)
      BY <2>1, TermFacts DEF OneMachine, TermOK, Holding
    <3>2. QED
      BY <1>1, <2>2, <3>1 DEF Fits
  <2>6. Fits(next, keypair', rows')
    BY <1>1, <1>2, <2>5 DEF Fits
  <2>7. \A u \in Terminals : term'[u].pc # "replaced"
    BY <1>1, <1>2, <2>3, TermsChange
  <2>8. \A u \in Terminals : Fits(term'[u], keypair', rows')
    BY <1>1, <2>5, <2>6, TermsChange
  <2>9. \A n \in Nodes : ~Admits(rows, config.key, n)
    BY <2>1, <2>2 DEF OneMachine
  <2>10. QED
    BY <1>1, <2>4, <2>7, <2>8, <2>9 DEF OneMachine
<1>5. SerialInv'
  <2>1. Settled(next, keypair', rows')
    BY <1>2 DEF Settled
  <2>2. blame' = {} /\ ConfigFine(config, keypair, rows) => ConfigFine(config', keypair', rows')
    BY <1>1, IdentityAssumption DEF ConfigFine
  <2>3. r.pc \notin WillSave
    BY DEF SaveNewKey, WillSave
  <2>4. QED
    BY <1>1, <2>1, <2>2, <2>3, SerialKept DEF MachineInv
<1>6. QED
  BY <1>3, <1>4, <1>5 DEF MachineInv, OwnInv

\* The key pair a rotate saves is that of the node all memberships have moved to.
LEMMA PersistOwn ==
    ASSUME IInv, MachineInv, NEW t \in Terminals, PersistKey(t)
    PROVE  MachineInv'
<1> DEFINE r == term[t]
           next == [r EXCEPT !.pc = "save"]
<1>1. /\ GoOn(t, next) /\ UNCHANGED <<config, rows, members, blame>> /\ keypair' = r.node
      /\ r.pc = "replaced"
  BY DEF PersistKey, server
<1>2. next.pc = "save" /\ next.cfg = r.cfg /\ next.node = r.node /\ next.key = r.key
  BY TermFacts DEF TermType
<1> HIDE DEF next
<1>3. KeyIsOwn(next, rows') /\ KeysOwn'
  <2>1. KeyIsOwn(next, rows')
    BY <1>1, <1>2 DEF MachineInv, OwnInv, KeysOwn, KeyIsOwn
  <2>2. QED
    BY <1>1, <2>1, KeysOwnKept, RowsNarrow DEF MachineInv, OwnInv
<1>4. ASSUME Undisturbed' PROVE OneMachine'
  <2>1. OneMachine
    BY <1>1, <1>4 DEF MachineInv, OwnInv, Undisturbed
  <2>2. /\ keypair \in Nodes /\ rows[keypair].status = "revoked"
        /\ \A u \in Terminals : term[u].pc = "replaced" => u = t
        /\ \A m \in members : m[2] = r.node
    BY <1>1, <2>1 DEF OneMachine
  <2>3. \A u \in Terminals \ {t} : Fits(term[u], keypair', rows')
    BY <1>1, <2>1, <2>2 DEF OneMachine, Fits, Admits
  <2>4. Fits(next, keypair', rows')
    <3>1. \A n \in Nodes : ~Admits(rows, r.cfg.key, n)
      BY <2>1, <2>2 DEF OneMachine, Fits, Admits
    <3>2. QED
      BY <1>1, <1>2, <1>3, <3>1 DEF Fits, KeyIsOwn
  <2>5. \A n \in Nodes : ~Admits(rows, config.key, n)
    BY <2>1, <2>2 DEF OneMachine, Admits
  <2>6. \A u \in Terminals : Fits(term'[u], keypair', rows') /\ term'[u].pc # "replaced"
    BY <1>1, <1>2, <2>2, <2>3, <2>4, TermsChange
  <2>7. QED
    BY <1>1, <2>2, <2>5, <2>6 DEF OneMachine
<1>5. SerialInv'
  <2>1. Settled(r, keypair, rows) => Settled(next, keypair', rows')
    BY <1>1, <1>2 DEF Settled
  <2>2. QED
    BY <1>1, <1>2, <2>1, SerialKept DEF MachineInv, WillSave
<1>6. QED
  BY <1>3, <1>4, <1>5 DEF MachineInv, OwnInv

LEMMA ConfigNarrow ==
    ASSUME IInv, OneMachine, Narrow, config' = config
    PROVE  \A n \in Nodes : Admits(rows', config'.key, n) => n = keypair
  BY DEF IInv, DiskOK, Configs, OneMachine, Narrow

\* A key that is issued to setup is for the node on disk; one for a rotate's new node is the
\* rotate's alone.
LEMMA RegisterOwn ==
    ASSUME IInv, MachineInv, RowsIssued, NEW t \in Terminals, Register(t)
    PROVE  MachineInv'
<1> DEFINE r == term[t]
           next == [r EXCEPT !.pc = IF @ = "register" THEN "save" ELSE "replace", !.key = issued']
<1>1. /\ Registered(r.node) /\ Reply(t, next, "cut") /\ r.pc \in {"register", "register_new"}
      /\ UNCHANGED <<keypair, config, members>> /\ issued' = issued + 1
  BY DEF Register, Registered, disk
<1>2. r.node \in Nodes /\ issued \in Nat /\ r \in TermType
  BY <1>1, TermFacts DEF TermOK, Holding
<1>3. /\ next.pc = IF r.pc = "register" THEN "save" ELSE "replace"
      /\ next.cfg = r.cfg /\ next.node = r.node /\ next.key = issued + 1
  BY <1>1, <1>2 DEF TermType
<1>4. /\ rows[r.node].status # "revoked"
      /\ rows'[r.node].status = "active" /\ rows'[r.node].key = issued + 1
      /\ \A n \in Nodes \ {r.node} : rows'[n] = rows[n]
  BY <1>1, <1>2 DEF Registered, IInv, ServerOK
<1>5. Narrow
  BY <1>1, <1>2, RowsNarrow
<1> HIDE DEF next
<1>6. KeyIsOwn(next, rows')
  <2>1. \A n \in Nodes : rows[n].key # issued + 1
    BY <1>2 DEF RowsIssued, IInv, ServerOK
  <2>2. QED
    BY <1>3, <1>4, <2>1 DEF KeyIsOwn, Admits
<1>7. ASSUME OneMachine
      PROVE  /\ r.pc = "register" => r.node = keypair
             /\ Fits(next, keypair, rows')
             /\ \A n \in Nodes : Admits(rows', config'.key, n) => n = keypair
  <2>1. Fits(r, keypair, rows) /\ Fits(r, keypair, rows')
    BY <1>5, <1>7, FitsKept DEF OneMachine
  <2>2. r.pc = "register" => r.node = keypair
    BY <1>4, <2>1 DEF Fits
  <2>3. Fits(next, keypair, rows')
    BY <1>1, <1>3, <1>6, <2>1, <2>2 DEF Fits, KeyIsOwn
  <2>4. QED
    BY <1>1, <1>5, <1>7, <2>2, <2>3, ConfigNarrow
<1>8. CASE GoOn(t, next) /\ UNCHANGED blame
  <2>1. OwnInv'
    BY <1>1, <1>3, <1>5, <1>6, <1>7, <1>8, QuietOwn DEF MachineInv
  <2>2. ASSUME blame' = {}, Settled(r, keypair, rows), ConfigFine(config, keypair, rows)
        PROVE  /\ Settled(next, keypair', rows')
               /\ next.pc \notin WillSave => ConfigFine(config', keypair', rows')
    <3>1. OneMachine
      BY <1>8, <2>2 DEF MachineInv, OwnInv, Undisturbed
    <3>2. Settled(next, keypair', rows')
      BY <1>1, <1>2, <1>3, <1>4, <1>7, <3>1 DEF Settled, Admits
    <3>3. r.pc = "register_new" => ConfigFine(config', keypair', rows')
      BY <1>1, <1>4, <2>2 DEF Settled, ConfigFine, Admits
    <3>4. QED
      BY <1>1, <1>3, <3>2, <3>3 DEF WillSave
  <2>3. r.pc # "idle" /\ r.pc \notin WillSave
    BY <1>1 DEF WillSave
  <2>4. SerialInv'
    BY <1>8, <2>2, <2>3, SerialKept DEF MachineInv
  <2>5. QED
    BY <2>1, <2>4 DEF MachineInv
<1>9. CASE GoOn(t, Idle) /\ blame' = blame \cup {"cut"}
  <2>1. OwnInv'
    BY <1>1, <1>5, <1>7, <1>9, QuietOwn, IdleFits DEF MachineInv
  <2>2. SerialInv'
    BY <1>9 DEF SerialInv
  <2>3. QED
    BY <2>1, <2>2 DEF MachineInv
<1>10. QED
  BY <1>1, <1>8, <1>9 DEF Reply, Exit

\* The node that enters a project, or is revoked, is the one on disk.
LEMMA RequestsOwn ==
    ASSUME IInv, MachineInv, NEW t \in Terminals, Enter(t) \/ Revoke(t)
    PROVE  MachineInv'
<1> DEFINE r == term[t]
<1>1. r \in TermType /\ r.pc \notin {"idle", "replaced"} /\ UNCHANGED <<keypair, config>>
  BY TermFacts DEF Enter, Revoke, disk
<1>2. Narrow
  BY RowsNarrow DEF Enter, Revoke
<1>3. PICK next : /\ Reply(t, next, "cut") /\ next.cfg = r.cfg
                  /\ Enter(t) => next.pc = "record"
                  /\ ~Enter(t) => next.pc = "clear"
  <2>1. CASE Enter(t)
    <3>1. PICK p \in Projects : Reply(t, [r EXCEPT !.pc = "record", !.entered = {p}], "cut")
      BY <2>1 DEF Enter
    <3> DEFINE next == [r EXCEPT !.pc = "record", !.entered = {p}]
    <3>2. next.pc = "record" /\ next.cfg = r.cfg
      BY <1>1 DEF TermType
    <3> HIDE DEF next
    <3>3. Reply(t, next, "cut")
      BY <3>1 DEF next
    <3>4. QED
      BY <2>1, <3>2, <3>3
  <2>2. CASE ~Enter(t)
    <3> DEFINE next == [r EXCEPT !.pc = "clear"]
    <3>1. next.pc = "clear" /\ next.cfg = r.cfg
      BY <1>1 DEF TermType
    <3>2. Reply(t, next, "cut")
      BY <2>2 DEF Revoke
    <3> HIDE DEF next
    <3>3. QED
      BY <2>2, <3>1, <3>2
  <2>3. QED
    BY <2>1, <2>2
<1>4. KeyIsOwn(next, rows')
  BY <1>3 DEF KeyIsOwn
<1>5. ASSUME OneMachine
      PROVE  /\ Fits(next, keypair, rows')
             /\ \A n \in Nodes : Admits(rows', config'.key, n) => n = keypair
             /\ \A m \in members' :
                   m \in members \/ (m[2] = keypair /\ rows[keypair].status # "revoked")
  <2>1. Fits(r, keypair, rows) /\ Fits(r, keypair, rows')
    BY <1>2, <1>5, FitsKept DEF OneMachine
  <2>2. Fits(next, keypair, rows')
    BY <1>3, <2>1 DEF Fits
  <2>3. \A m \in members' :
          m \in members \/ (m[2] = keypair /\ rows[keypair].status # "revoked")
    <3>1. CASE Enter(t)
      <4>1. PICK n \in Nodes, p \in Projects :
               Authenticates(r.cfg.key, n) /\ members' = members \cup {<<p, n>>}
        BY <3>1 DEF Enter
      <4>2. n = keypair /\ rows[n].status = "active"
        BY <2>1, <4>1 DEF Fits, Admits, Authenticates
      <4>3. QED
        BY <4>1, <4>2
    <3>2. CASE Revoke(t)
      BY <3>2 DEF Revoke
    <3>3. QED
      BY <3>1, <3>2
  <2>4. QED
    BY <1>1, <1>2, <1>5, <2>2, <2>3, ConfigNarrow
<1>6. ASSUME NEW last \in {next, Idle}, GoOn(t, last), blame \subseteq blame'
      PROVE  OwnInv'
  BY <1>1, <1>2, <1>3, <1>4, <1>5, <1>6, QuietOwn, IdleFits DEF MachineInv
<1>7. CASE GoOn(t, next) /\ UNCHANGED blame
  <2>1. Settled(next, keypair', rows')
    BY <1>3 DEF Settled
  <2>2. /\ r.pc \notin WillSave
        /\ next.pc \notin WillSave => rows' = rows
    BY <1>3 DEF WillSave, Enter, Revoke
  <2>3. SerialInv'
    BY <1>1, <1>7, <2>1, <2>2, SerialKept DEF MachineInv
  <2>4. QED
    BY <1>6, <1>7, <2>3 DEF MachineInv
<1>8. CASE GoOn(t, Idle) /\ blame' = blame \cup {"cut"}
  BY <1>6, <1>8 DEF MachineInv, SerialInv
<1>9. QED
  BY <1>3, <1>7, <1>8 DEF Reply, Exit

\* A rotate replaces the node on disk, and all its memberships move.
LEMMA ReplaceOwn ==
    ASSUME IInv, MachineInv, NEW t \in Terminals, Replace(t)
    PROVE  MachineInv'
<1> DEFINE r == term[t]
           next == [r EXCEPT !.pc = "replaced"]
<1>1. PICK old \in Nodes : /\ Authenticates(r.cfg.key, old)
                           /\ MayReplace(old, r.node, r.key) /\ Replaced(old, r.node)
  BY DEF Replace
<1>2. /\ r.pc = "replace" /\ Reply(t, next, "cut_replace") /\ UNCHANGED <<keypair, config>>
  BY DEF Replace, disk
<1>3. /\ next.pc = "replaced" /\ next.cfg = r.cfg /\ next.node = r.node /\ next.key = r.key
      /\ r.node \in Nodes
  BY <1>2, TermFacts DEF TermType, TermOK, Holding
<1> HIDE DEF next
<1>4. Narrow
  BY <1>1, <1>3, RowsNarrow DEF Replaced
<1>5. /\ rows'[old].status = "revoked" /\ \A n \in Nodes \ {old} : rows'[n] = rows[n]
      /\ members' = {<<m[1], IF m[2] = old THEN r.node ELSE m[2]>> : m \in members}
      /\ Admits(rows, r.key, r.node) /\ r.node # old
      /\ Admits(rows, r.cfg.key, old)
  BY <1>1 DEF Replaced, Revoked, MayReplace, Authenticates, Admits, IInv, ServerOK
<1>6. KeyIsOwn(next, rows')
  <2>1. KeyIsOwn(r, rows')
    BY <1>4, FitsKept DEF MachineInv, OwnInv, KeysOwn
  <2>2. QED
    BY <1>2, <1>3, <2>1 DEF KeyIsOwn
<1>7. CASE GoOn(t, next) /\ UNCHANGED blame
  <2>1. KeysOwn'
    BY <1>4, <1>6, <1>7, KeysOwnKept DEF MachineInv, OwnInv
  <2>2. ASSUME Undisturbed' PROVE OneMachine'
    <3>1. OneMachine
      BY <1>7, <2>2 DEF MachineInv, OwnInv, Undisturbed
    <3>2. old = keypair
      BY <1>5, <3>1 DEF OneMachine, Fits
    <3>3. \A u \in Terminals : term[u].pc # "replaced"
      BY <1>5, <3>1, <3>2 DEF OneMachine, Admits
    <3>4. \A m \in members' : m[2] = r.node
      BY <1>5, <3>1, <3>2, <3>3 DEF OneMachine
    <3>5. Fits(next, keypair, rows')
      <4>1. Fits(r, keypair, rows')
        BY <1>4, <3>1, FitsKept DEF OneMachine
      <4>2. QED
        BY <1>2, <1>3, <4>1 DEF Fits
    <3>6. \A u \in Terminals : Fits(term'[u], keypair', rows')
      BY <1>2, <1>4, <1>7, <3>1, <3>5, TermsChange, FitsKept DEF OneMachine
    <3>7. term'[t].pc = "replaced"
      BY <1>3, <1>7, TermsChange
    <3>8. keypair' = keypair /\ config' = config
      BY <1>2
    <3>9. \A n \in Nodes : Admits(rows', config'.key, n) => n = keypair'
      BY <1>4, <3>1, <3>8, ConfigNarrow
    <3>10. keypair' \in Nodes /\ rows'[keypair'].status = "revoked"
      BY <1>5, <3>2, <3>8
    <3>11. \A u \in Terminals : term'[u].pc = "replaced" => u = t /\ term'[u].node = r.node
      BY <1>3, <1>7, <3>3, TermsChange
    <3>12. \A u \in Terminals : term'[u].pc = "replaced" => \A m \in members' : m[2] = term'[u].node
      <4> HIDE DEF r
      <4> QED  BY <3>4, <3>11
    <3>13. \A u \in Terminals : term'[u].pc = "replaced" =>
              \A w \in Terminals : term'[w].pc = "replaced" => w = u
      BY <3>11
    <3>14. ~ \A u \in Terminals : term'[u].pc # "replaced"
      BY <3>7
    <3>15. QED
      BY <3>6, <3>9, <3>10, <3>12, <3>13, <3>14 DEF OneMachine
  <2>3. Settled(next, keypair', rows')
    BY <1>3, <1>5 DEF Settled, Admits
  <2>4. SerialInv'
    BY <1>2, <1>3, <1>7, <2>3, SerialKept DEF MachineInv, WillSave
  <2>5. QED
    BY <2>1, <2>2, <2>4 DEF MachineInv, OwnInv
<1>8. CASE GoOn(t, Idle) /\ blame' = blame \cup {"cut", "cut_replace"}
  <2>1. KeysOwn'
    BY <1>4, <1>8, KeysOwnKept, IdleFits DEF MachineInv, OwnInv
  <2>2. QED
    BY <1>8, <2>1 DEF MachineInv, OwnInv, SerialInv, Undisturbed
<1>9. QED
  BY <1>2, <1>7, <1>8 DEF Reply, Exit

LEMMA RowsIssuedKept ==
    ASSUME IInv, RowsIssued, [Next]_vars
    PROVE  RowsIssued'
<1>1. /\ rows \in [Nodes -> [status : {"absent", "active", "revoked"}, key : Nat,
                             replacement : Nodes \cup {None}]]
      /\ issued \in Nat
  BY DEF IInv, ServerOK
<1>2. CASE rows' = rows /\ issued' = issued
  BY <1>2 DEF RowsIssued
<1>3. ASSUME NEW t \in Terminals, Register(t) PROVE RowsIssued'
  <2>1. issued' = issued + 1 /\ rows' = [rows EXCEPT ![term[t].node] =
           [status |-> "active", key |-> issued + 1, replacement |-> rows[term[t].node].replacement]]
    BY <1>3 DEF Register, Registered
  <2>2. \A n \in Nodes : rows'[n].key \in {rows[n].key, issued + 1}
    BY <1>1, <2>1
  <2>3. \A n \in Nodes : rows[n].key \in Nat /\ rows[n].key <= issued
    BY <1>1 DEF RowsIssued
  <2>4. QED
    BY <1>1, <2>1, <2>2, <2>3 DEF RowsIssued
<1>4. ASSUME NEW n, NEW m, Revoked(n, m), issued' = issued PROVE RowsIssued'
  BY <1>1, <1>4 DEF Revoked, RowsIssued
<1>5. ASSUME NEW t \in Terminals, Revoke(t) \/ Replace(t) PROVE RowsIssued'
  BY <1>4, <1>5 DEF Revoke, Replace, Replaced
<1>6. \/ \E t \in Terminals : Register(t) \/ Revoke(t) \/ Replace(t)
      \/ rows' = rows /\ issued' = issued
  BY DEF Next, vars, disk, server, Setup, CmdRegister, CreateOrJoin, IdentityRevoke, IdentityRotate,
         Loaded, Start, LoadKey, GenerateKey, SaveNewKey, GenerateReplacement, RegisterGone, Enter,
         Record, ClearKey, Refused, PersistKey, SaveConfig, Kill
<1>7. QED
  BY <1>2, <1>3, <1>5, <1>6

LEMMA MachineInvHolds == Spec => [](IInv /\ RowsIssued /\ MachineInv)
<1>1. Init => RowsIssued /\ MachineInv
  <2> SUFFICES ASSUME Init PROVE RowsIssued /\ MachineInv
    OBVIOUS
  <2>1. \A n \in Nodes : rows[n].key = 0 /\ rows[n].status = "absent"
    BY DEF Init, Unregistered
  <2>2. \A t \in Terminals : /\ Fits(term[t], keypair, rows) /\ KeyIsOwn(term[t], rows)
                            /\ Settled(term[t], keypair, rows) /\ term[t].pc = "idle"
    BY IdleFits DEF Init
  <2>3. config.key = 0 /\ members = {} /\ issued = 0
    BY DEF Init, NoConfig
  <2>4. OwnInv
    BY <2>2, <2>3 DEF OwnInv, KeysOwn, OneMachine, Admits
  <2>5. SerialInv
    BY <2>2, <2>3 DEF SerialInv, Solo, SettledInv, ConfigFine
  <2>6. QED
    BY <2>1, <2>3, <2>4, <2>5 DEF RowsIssued, MachineInv
<1>2. IInv /\ RowsIssued /\ MachineInv /\ [Next]_vars => RowsIssued' /\ MachineInv'
  <2> SUFFICES ASSUME IInv, RowsIssued, MachineInv, [Next]_vars PROVE RowsIssued' /\ MachineInv'
    OBVIOUS
  <2>1. CASE UNCHANGED vars
    <3>1. OwnInv'
      BY <2>1 DEF MachineInv, OwnInv, KeysOwn, OneMachine, Undisturbed, vars, disk, server
    <3>2. SerialInv'
      BY <2>1 DEF MachineInv, SerialInv, Solo, SettledInv, vars, disk, server
    <3>3. QED
      BY <3>1, <3>2, RowsIssuedKept DEF MachineInv
  <2>2. CASE Next
    BY <2>2, RowsIssuedKept, StartsOwn, KeysKeepOwn, ExitsOwn, CutOwn, ConfigsOwn, NewKeyOwn,
       PersistOwn, RegisterOwn, RequestsOwn, ReplaceOwn DEF Next
  <2>3. QED
    BY <2>1, <2>2
<1>3. QED
  BY <1>1, <1>2, InvariantHolds, PTL DEF Spec

\* ClientIdentity!OwnKeyOnDisk: whatever commands overlap, are killed or lose a reply, the key
\* pair that takes part in the machine's projects is the one on its disk or in the hands of a
\* rotate about to save it, unless a rotate was cut right there, or two first commands
\* overwrote each other's key pair (client/identity.rs, commands.rs).
THEOREM OwnKeyHolds == Spec => []OwnKeyOnDisk
<1>1. MachineInv => OwnKeyOnDisk
  BY DEF MachineInv, OwnInv, Undisturbed, OneMachine, OwnKeyOnDisk
<1>2. QED
  BY <1>1, MachineInvHolds, PTL

\* ClientIdentity!SavedConfigWorks: commands run one after the other, to their end, leave a
\* config that works for the key pair on disk, unless the last one was a revoke.
THEOREM SavedConfigHolds == Spec => []SavedConfigWorks
<1>1. MachineInv => SavedConfigWorks
  <2> SUFFICES ASSUME MachineInv, blame = {}, AllIdle, config.key # 0
               PROVE  Report(config) = "active" /\ config.node = keypair
    BY DEF SavedConfigWorks
  <2>1. config.node \in Nodes /\ config.node = keypair /\ Admits(rows, config.key, config.node)
    BY DEF MachineInv, SerialInv, SettledInv, AllIdle, WillSave, ConfigFine
  <2>2. QED
    BY <2>1 DEF Report, Authenticates, Admits
<1>2. QED
  BY <1>1, MachineInvHolds, PTL

-----------------------------------------------------------------------------
(* Sequences *)

\* q is the end of l.
Ends(q, l) == \E u \in Seq(Nat) : l = u \o q

\* The library's operator compares reversed sequences.
LEMMA SuffixEnds ==
    ASSUME NEW q \in Seq(Nat), NEW l \in Seq(Nat)
    PROVE  IsSuffix(q, l) <=> Ends(q, l)
<1> DEFINE rq == Reverse(q)
           rl == Reverse(l)
<1>1. /\ Len(q) \in Nat /\ Len(l) \in Nat /\ DOMAIN q = 1..Len(q) /\ DOMAIN l = 1..Len(l)
      /\ \A i \in 1..Len(q) : q[i] \in Nat
      /\ \A i \in 1..Len(l) : l[i] \in Nat
  BY LenProperties, ElementOfSeq
<1>2. /\ rq \in Seq(Nat) /\ Len(rq) = Len(q)
      /\ rl \in Seq(Nat) /\ Len(rl) = Len(l)
      /\ \A i \in 1..Len(q) : rq[i] = q[Len(q) - i + 1]
      /\ \A i \in 1..Len(l) : rl[i] = l[Len(l) - i + 1]
  <2>1. /\ \A i \in 1..Len(q) : q[Len(q) - i + 1] \in Nat
        /\ \A i \in 1..Len(l) : l[Len(l) - i + 1] \in Nat
    BY <1>1
  <2>2. rq \in [1..Len(q) -> Nat] /\ rl \in [1..Len(l) -> Nat]
    BY <2>1 DEF Reverse
  <2>3. rq \in Seq(Nat) /\ rl \in Seq(Nat)
    BY <1>1, <2>2, SeqDef
  <2>4. DOMAIN rq = 1..Len(q) /\ DOMAIN rl = 1..Len(l)
    BY <2>2
  <2>5. Len(rq) = Len(q) /\ Len(rl) = Len(l)
    BY <1>1, <2>3, <2>4, LenProperties
  <2>6. QED
    BY <1>1, <2>3, <2>5 DEF Reverse
<1>3. ASSUME Len(q) <= Len(l)
      PROVE  IsSuffix(q, l) <=> \A i \in 1..Len(q) : q[i] = l[Len(l) - Len(q) + i]
  <2>1. /\ SubSeq(rq, 1, Len(rq)) = rq /\ SubSeq(rl, 1, Len(rq)) \in Seq(Nat)
        /\ Len(SubSeq(rl, 1, Len(rq))) = Len(q)
        /\ \A i \in 1..Len(q) : SubSeq(rl, 1, Len(rq))[i] = rl[i]
    <3> HIDE DEF rq, rl
    <3>1. \A i \in 1..Len(rq) : rl[i] \in Nat
      <4>1. 1..Len(rq) \subseteq 1..Len(rl)
        BY <1>1, <1>2, <1>3
      <4>2. QED
        BY <1>2, <4>1, ElementOfSeq
    <3>2. QED
      BY <1>1, <1>2, <1>3, <3>1, SubSeqFull, SubSeqProperties
  <2>2. rq = SubSeq(rl, 1, Len(rq)) <=> \A i \in 1..Len(q) : rq[i] = rl[i]
    <3> HIDE DEF rq, rl
    <3>1. (\A i \in 1..Len(q) : rq[i] = rl[i]) => rq = SubSeq(rl, 1, Len(rq))
      BY <1>2, <2>1, SeqEqual
    <3>2. QED
      BY <2>1, <3>1
  <2>3. \A i \in 1..Len(q) :
          rq[i] = rl[i] <=> q[Len(q) - i + 1] = l[Len(l) - i + 1]
    <3> HIDE DEF rq, rl
    <3>1. 1..Len(q) \subseteq 1..Len(l)
      BY <1>1, <1>3
    <3>2. TAKE i \in 1..Len(q)
    <3>3. i \in 1..Len(l)
      BY <3>1
    <3>4. QED
      BY <1>2, <3>3
  <2>4. (\A i \in 1..Len(q) : q[Len(q) - i + 1] = l[Len(l) - i + 1])
          <=> \A i \in 1..Len(q) : q[i] = l[Len(l) - Len(q) + i]
    <3>1. ASSUME \A i \in 1..Len(q) : q[Len(q) - i + 1] = l[Len(l) - i + 1],
                 NEW i \in 1..Len(q)
          PROVE  q[i] = l[Len(l) - Len(q) + i]
      <4>1. Len(q) - i + 1 \in 1..Len(q)
        BY <1>1
      <4>2. q[Len(q) - (Len(q) - i + 1) + 1] = l[Len(l) - (Len(q) - i + 1) + 1]
        BY <3>1, <4>1
      <4>3. Len(q) - (Len(q) - i + 1) + 1 = i /\ Len(l) - (Len(q) - i + 1) + 1 = Len(l) - Len(q) + i
        BY <1>1
      <4>4. QED
        BY <4>2, <4>3
    <3>2. ASSUME \A i \in 1..Len(q) : q[i] = l[Len(l) - Len(q) + i], NEW i \in 1..Len(q)
          PROVE  q[Len(q) - i + 1] = l[Len(l) - i + 1]
      <4>1. Len(q) - i + 1 \in 1..Len(q) /\ Len(l) - Len(q) + (Len(q) - i + 1) = Len(l) - i + 1
        BY <1>1
      <4>2. QED
        BY <3>2, <4>1
    <3>3. QED
      BY <3>1, <3>2
  <2>5. IsSuffix(q, l) <=> rq = SubSeq(rl, 1, Len(rq))
    BY <1>1, <1>2, <1>3, <2>1 DEF IsSuffix, IsPrefix
  <2>6. QED
    BY <2>2, <2>3, <2>4, <2>5
<1>4. IsSuffix(q, l) => Len(q) <= Len(l)
  BY <1>2 DEF IsSuffix, IsPrefix
<1>5. ASSUME NEW u \in Seq(Nat), l = u \o q
      PROVE  Len(q) <= Len(l) /\ \A i \in 1..Len(q) : q[i] = l[Len(l) - Len(q) + i]
  BY <1>1, <1>5, LenProperties, ConcatProperties
<1>6. ASSUME Len(q) <= Len(l), \A i \in 1..Len(q) : q[i] = l[Len(l) - Len(q) + i]
      PROVE  Ends(q, l)
  <2> DEFINE n == Len(l) - Len(q)
             u == SubSeq(l, 1, n)
  <2>1. n \in Nat /\ n <= Len(l)
    BY <1>1, <1>6
  <2>2. \A i \in 1..n : l[i] \in Nat
    BY <1>1, <2>1
  <2>3. u \in Seq(Nat) /\ Len(u) = n /\ \A i \in 1..n : u[i] = l[i]
    BY <2>1, <2>2, SubSeqProperties
  <2>4. /\ u \o q \in Seq(Nat) /\ Len(u \o q) = Len(l)
        /\ \A i \in 1..Len(l) : (u \o q)[i] = IF i <= n THEN u[i] ELSE q[i - n]
    <3> HIDE DEF u
    <3>1. /\ u \o q \in Seq(Nat) /\ Len(u \o q) = Len(u) + Len(q)
          /\ \A i \in 1..Len(u) + Len(q) : (u \o q)[i] = IF i <= Len(u) THEN u[i] ELSE q[i - Len(u)]
      BY <2>3, ConcatProperties, Zenon
    <3>2. Len(u) + Len(q) = Len(l)
      BY <1>1, <2>1, <2>3
    <3>3. QED
      BY <2>3, <3>1, <3>2
  <2>5. \A i \in 1..Len(l) : (u \o q)[i] = l[i]
    <3> HIDE DEF u, n
    <3> TAKE i \in 1..Len(l)
    <3>1. CASE i <= n
      <4>1. i \in 1..n
        BY <1>1, <2>1, <3>1
      <4>2. QED
        BY <2>3, <2>4, <3>1, <4>1
    <3>2. CASE ~(i <= n)
      <4>1. i - n \in 1..Len(q) /\ Len(l) - Len(q) + (i - n) = i
        BY <1>1, <2>1, <3>2 DEF n
      <4>2. q[i - n] = l[i]
        BY <1>6, <4>1
      <4>3. QED
        BY <2>4, <3>2, <4>2
    <3>3. QED
      BY <3>1, <3>2
  <2>6. l = u \o q
    <3> HIDE DEF u
    <3> QED BY <2>4, <2>5, SeqEqual
  <2>7. QED
    BY <2>3, <2>6 DEF Ends
<1>7. QED
  BY <1>3, <1>4, <1>5, <1>6 DEF Ends

LEMMA Concats ==
    /\ \A q, t \in Seq(Nat) : q \o t \in Seq(Nat) /\ Len(q \o t) = Len(q) + Len(t)
    /\ \A q, t, u \in Seq(Nat) : (q \o t) \o u = q \o (t \o u)
    /\ \A q \in Seq(Nat) : q \o <<>> = q /\ <<>> \o q = q
    /\ \A q \in Seq(Nat) : Len(q) \in Nat
    /\ <<>> \in Seq(Nat) /\ Len(<<>>) = 0
  BY ConcatProperties, ConcatAssociative, ConcatEmptySeq, LenProperties, EmptySeq

LEMMA Associative ==
    ASSUME NEW q \in Seq(Nat), NEW t \in Seq(Nat), NEW u \in Seq(Nat)
    PROVE  (q \o t) \o u = q \o (t \o u)
  BY Concats, Zenon

LEMMA Appends ==
    \A q \in Seq(Nat), x \in Nat :
        /\ Append(q, x) \in Seq(Nat) /\ Append(q, x) = q \o <<x>> /\ <<x>> \in Seq(Nat)
        /\ Len(Append(q, x)) = Len(q) + 1
<1> SUFFICES ASSUME NEW q \in Seq(Nat), NEW x \in Nat
             PROVE  /\ Append(q, x) \in Seq(Nat) /\ Append(q, x) = q \o <<x>> /\ <<x>> \in Seq(Nat)
                    /\ Len(Append(q, x)) = Len(q) + 1
  OBVIOUS
<1>1. <<x>> \in Seq(Nat)
  OBVIOUS
<1>2. QED
  BY <1>1, AppendProperties, AppendIsConcat

\* Whatever is in the sequence.
LEMMA Elements ==
    \A q, t \in Seq(Nat) : ToSet(q \o t) = ToSet(q) \cup ToSet(t)
<1>1. \A q \in Seq(Nat) : ToSet(q) = Range(q)
  BY DEF ToSet, Range
<1>2. TAKE q, t \in Seq(Nat)
<1>3. q \o t \in Seq(Nat) /\ Range(q \o t) = Range(q) \cup Range(t)
  BY ConcatProperties, RangeConcatenation, Zenon
<1>4. QED
  BY <1>1, <1>3, Zenon

LEMMA EndsAppended ==
    ASSUME NEW q \in Seq(Nat), NEW l \in Seq(Nat), NEW x \in Nat, Ends(q, l)
    PROVE  Ends(Append(q, x), Append(l, x))
<1>1. PICK u \in Seq(Nat) : l = u \o q
  BY DEF Ends
<1>2. Append(l, x) = l \o <<x>> /\ Append(q, x) = q \o <<x>> /\ <<x>> \in Seq(Nat)
  BY Appends
<1>3. (u \o q) \o <<x>> = u \o (q \o <<x>>)
  BY <1>2, Associative
<1>4. Append(l, x) = u \o Append(q, x)
  BY <1>1, <1>2, <1>3, Zenon
<1>5. QED
  BY <1>1, <1>4 DEF Ends

LEMMA EndsEnds ==
    ASSUME NEW q \in Seq(Nat), NEW t \in Seq(Nat), NEW l \in Seq(Nat), Ends(q, t), Ends(t, l)
    PROVE  Ends(q, l)
<1>1. PICK u \in Seq(Nat), v \in Seq(Nat) : t = u \o q /\ l = v \o t
  BY DEF Ends
<1>2. l = (v \o u) \o q
  <2>1. (v \o u) \o q = v \o (u \o q)
    BY Associative
  <2>2. QED
    BY <1>1, <2>1, Zenon
<1>3. v \o u \in Seq(Nat)
  BY <1>1, ConcatProperties, Zenon
<1>4. QED
  BY <1>2, <1>3 DEF Ends

LEMMA EndsJoined ==
    ASSUME NEW q \in Seq(Nat), NEW t \in Seq(Nat), NEW l \in Seq(Nat), Ends(q, t)
    PROVE  Ends(q \o l, t \o l)
<1>1. PICK u \in Seq(Nat) : t = u \o q
  BY DEF Ends
<1>2. t \o l = u \o (q \o l)
  <2>1. (u \o q) \o l = u \o (q \o l)
    BY Associative
  <2>2. QED
    BY <1>1, <2>1, Zenon
<1>3. QED
  BY <1>2 DEF Ends

\* The end of a concatenation.
LEMMA EndsLast ==
    ASSUME NEW q \in Seq(Nat), NEW t \in Seq(Nat)
    PROVE  Ends(t, q \o t)
  BY DEF Ends

\* The last k of a sequence, and what is before them.
LEMMA Cut ==
    ASSUME NEW q \in Seq(Nat), NEW k \in Nat, k <= Len(q)
    PROVE  /\ SubSeq(q, 1, Len(q) - k) \in Seq(Nat)
           /\ SubSeq(q, Len(q) - k + 1, Len(q)) \in Seq(Nat)
           /\ Len(SubSeq(q, Len(q) - k + 1, Len(q))) = k
           /\ SubSeq(q, 1, Len(q) - k) \o SubSeq(q, Len(q) - k + 1, Len(q)) = q
<1>1. Len(q) \in Nat /\ \A i \in 1..Len(q) : q[i] \in Nat
  BY LenProperties, ElementOfSeq
<1>2. SubSeq(q, 1, Len(q) - k) \in Seq(Nat)
  <2>1. \A i \in 1..(Len(q) - k) : q[i] \in Nat
    BY <1>1
  <2>2. QED
    BY <1>1, <2>1, SubSeqProperties
<1>3. /\ SubSeq(q, Len(q) - k + 1, Len(q)) \in Seq(Nat)
      /\ Len(SubSeq(q, Len(q) - k + 1, Len(q))) = k
  <2>1. \A i \in (Len(q) - k + 1)..Len(q) : q[i] \in Nat
    BY <1>1
  <2> DEFINE m == Len(q) - k + 1
  <2>2. m \in Int /\ (m <= Len(q) <=> k # 0) /\ Len(q) - m + 1 = k
    BY <1>1
  <2>3. QED
    BY <1>1, <2>1, <2>2, SubSeqProperties
<1>4. SubSeq(q, 1, Len(q) - k) \o SubSeq(q, Len(q) - k + 1, Len(q)) = SubSeq(q, 1, Len(q))
  <2> DEFINE n == Len(q) - k
  <2>1. 1 \in 1..Len(q) + 1 /\ n \in (1 - 1)..Len(q) /\ Len(q) \in n..Len(q)
    BY <1>1
  <2> HIDE DEF n
  <2>2. SubSeq(q, 1, n) \o SubSeq(q, n + 1, Len(q)) = SubSeq(q, 1, Len(q))
    BY <2>1, ConcatAdjacentSubSeq
  <2>3. QED
    BY <2>2 DEF n
<1>5. QED
  BY <1>2, <1>3, <1>4, SubSeqFull

\* A fold splits a sequence in two.
LEMMA Folded ==
    ASSUME NEW q \in Seq(Nat)
    PROVE  /\ Older(q) \in Seq(Nat) /\ Recent(q) \in Seq(Nat)
           /\ Len(Recent(q)) <= Keep /\ Older(q) \o Recent(q) = q
<1>1. Keep \in Nat /\ Len(q) \in Nat
  BY MemoryAssumption, Concats
<1>2. CASE Len(q) <= Keep
  <2>1. Older(q) = <<>>
    BY <1>1, <1>2, SubSeqEmpty DEF Older
  <2>2. QED
    BY <1>1, <1>2, <2>1, Concats DEF Recent
<1>3. CASE ~(Len(q) <= Keep)
  <2>1. Keep <= Len(q)
    BY <1>1, <1>3
  <2>2. Older(q) = SubSeq(q, 1, Len(q) - Keep) /\ Recent(q) = SubSeq(q, Len(q) - Keep + 1, Len(q))
    BY <1>3 DEF Older, Recent
  <2>3. /\ Older(q) \in Seq(Nat) /\ Recent(q) \in Seq(Nat)
        /\ Len(Recent(q)) = Keep /\ Older(q) \o Recent(q) = q
    BY <1>1, <2>1, <2>2, Cut
  <2>4. QED
    BY <1>1, <2>3
<1>4. QED
  BY <1>2, <1>3

\* A summary is the end of what it was made from, and all of it when there is room left.
LEMMA SummarizedEnds ==
    ASSUME NEW old \in Seq(Nat), NEW older \in Seq(Nat)
    PROVE  /\ Summarized(old, older) \in Seq(Nat)
           /\ Ends(Summarized(old, older), old \o older)
           /\ Len(Summarized(old, older)) < SummaryMax =>
                Summarized(old, older) = old \o older /\ Len(old) < SummaryMax
<1>1. SummaryMax \in Nat /\ old \o older \in Seq(Nat) /\ Len(old \o older) = Len(old) + Len(older)
      /\ Len(old) \in Nat /\ Len(older) \in Nat
  BY MemoryAssumption, Concats
<1> DEFINE all == old \o older
<1>2. CASE Len(all) <= SummaryMax
  <2>1. Summarized(old, older) = all
    BY <1>2 DEF Summarized
  <2>2. Ends(all, all)
    BY <1>1, Concats DEF Ends
  <2>3. QED
    BY <1>1, <1>2, <2>1, <2>2
<1>3. CASE ~(Len(all) <= SummaryMax)
  <2>1. Summarized(old, older) = SubSeq(all, Len(all) - SummaryMax + 1, Len(all))
    BY <1>3 DEF Summarized
  <2>2. SummaryMax <= Len(all)
    BY <1>1, <1>3
  <2> HIDE DEF all
  <2>3. /\ SubSeq(all, 1, Len(all) - SummaryMax) \in Seq(Nat)
        /\ Summarized(old, older) \in Seq(Nat) /\ Len(Summarized(old, older)) = SummaryMax
        /\ SubSeq(all, 1, Len(all) - SummaryMax) \o Summarized(old, older) = all
    BY <1>1, <2>1, <2>2, Cut DEF all
  <2>4. Ends(Summarized(old, older), all)
    BY <2>3, Zenon DEF Ends
  <2>5. ~(Len(Summarized(old, older)) < SummaryMax)
    BY <1>1, <2>3
  <2>6. QED
    BY <2>3, <2>4, <2>5 DEF all
<1>4. QED
  BY <1>2, <1>3

-----------------------------------------------------------------------------
(* The inductive invariant *)

MemoryPcs == Appending \cup Resetting \cup {"idle", "save", "load", "resetMeta"}
ActorType == [pc : MemoryPcs, at : Sessions \cup {Absent}, exchange : Nat,
              list : Seq(Nat), sum : Seq(Nat)]

\* Only a session that is made active may be no session.
Seated(o) == o.pc \notin {"idle", "save"} \/ o.exchange # 0 => o.at \in Sessions

MemoryTypes ==
    /\ active \in Sessions \cup {Absent}
    /\ file \in [Sessions -> Seq(Nat) \cup {Absent}]
    /\ summary \in [Sessions -> Seq(Nat) \cup {Absent}]
    /\ actor \in [Actors -> ActorType]
    /\ \A a \in Actors : Seated(actor[a])
    /\ exchanges \in Nat
    /\ log \in [Sessions -> Seq(Nat)]

\* Recent and older exchanges are what is to be remembered of those appended.
Remembers(recent, older, l, once) ==
    /\ Ends(recent, l)
    /\ Len(recent) <= Limit
    /\ Len(older) < SummaryMax => ToSet(l) \subseteq ToSet(older) \cup ToSet(recent)
    /\ once => Ends(older \o recent, l)

\* a is at s, in one of these stages.
Is(a, s, pcs) == actor[a].at = s /\ actor[a].pc \in pcs

\* A session is as it should be when nobody changes it, or a reset or a rewrite is to follow.
Resting(s) ==
    (\A a \in Actors : ~Is(a, s, Resetting)) =>
        Remembers(Contents(file[s]), Contents(summary[s]), log[s],
                  s \notin twice /\ \A a \in Actors : ~Is(a, s, {"rewrite"}))

\* What an actor that is changing a session is about to write.
Writing(a, s) ==
    /\ Is(a, s, Resetting) => file[s] = Absent /\ log[s] = <<>> /\ s \notin twice
    /\ Is(a, s, {"fold", "summary", "write"}) =>
         actor[a].list = Append(Contents(file[s]), actor[a].exchange)
    /\ Is(a, s, {"write"}) => Len(actor[a].list) <= Limit
    /\ Is(a, s, {"summary"}) => actor[a].sum = Contents(summary[s])
    /\ Is(a, s, {"rewrite"}) =>
         Remembers(actor[a].list, Contents(summary[s]), Append(log[s], actor[a].exchange),
                   s \notin twice)

\* A session that has come to no harm is changed by one actor at a time, from what it holds.
SessionInv(s) ==
    s \notin harmed =>
        /\ \A a, b \in Actors : Changes(a, s) /\ Changes(b, s) => a = b
        /\ Resting(s)
        /\ \A a \in Actors : Writing(a, s)

SessionsInv == \A s \in Sessions : SessionInv(s)
MemoryInv == MemoryTypes /\ SessionsInv

-----------------------------------------------------------------------------
(* What is remembered *)

\* After a reset there is nothing to remember.
LEMMA Nothing == Remembers(<<>>, <<>>, <<>>, TRUE)
<1>1. <<>> \in Seq(Nat) /\ <<>> \o <<>> = <<>> /\ Len(<<>>) = 0 /\ Limit \in Nat
  BY Concats, MemoryAssumption
<1>2. Ends(<<>>, <<>>)
  BY <1>1, Zenon DEF Ends
<1>3. 0 <= Limit
  BY <1>1
<1>4. QED
  BY <1>1, <1>2, <1>3, Zenon DEF Remembers

\* Exchanges that appear twice are allowed where they once were not.
LEMMA Less ==
    ASSUME NEW recent, NEW older, NEW l, NEW once, NEW still,
           Remembers(recent, older, l, once), still => once
    PROVE  Remembers(recent, older, l, still)
  BY DEF Remembers

\* An exchange appended to the file is remembered.
LEMMA Added ==
    ASSUME NEW recent \in Seq(Nat), NEW older \in Seq(Nat), NEW l \in Seq(Nat), NEW x \in Nat,
           NEW once, Remembers(recent, older, l, once), Len(Append(recent, x)) <= Limit
    PROVE  Remembers(Append(recent, x), older, Append(l, x), once)
<1>1. Ends(Append(recent, x), Append(l, x))
  BY EndsAppended DEF Remembers
<1>2. Len(older) < SummaryMax =>
        ToSet(Append(l, x)) \subseteq ToSet(older) \cup ToSet(Append(recent, x))
  <2>1. /\ ToSet(Append(l, x)) = ToSet(l) \cup ToSet(<<x>>)
        /\ ToSet(Append(recent, x)) = ToSet(recent) \cup ToSet(<<x>>)
    BY Appends, Elements
  <2>2. QED
    BY <2>1 DEF Remembers
<1>3. ASSUME once PROVE Ends(older \o Append(recent, x), Append(l, x))
  <2>1. older \o recent \in Seq(Nat) /\ Ends(older \o recent, l)
    BY <1>3, Concats DEF Remembers
  <2>2. older \o Append(recent, x) = Append(older \o recent, x)
    BY <2>1, Appends, Associative
  <2>3. QED
    BY <2>1, <2>2, EndsAppended
<1>4. QED
  BY <1>1, <1>2, <1>3 DEF Remembers

\* What a fold writes to the summary, then to the file.
LEMMA Shifted ==
    ASSUME NEW recent \in Seq(Nat), NEW older \in Seq(Nat), NEW l \in Seq(Nat), NEW x \in Nat,
           NEW once, Remembers(recent, older, l, once)
    PROVE  LET list == Append(recent, x)
               new == Summarized(older, Older(list))
           IN  /\ Remembers(recent, new, l, FALSE)
               /\ Remembers(Recent(list), new, Append(l, x), once)
<1> DEFINE list == Append(recent, x)
           new == Summarized(older, Older(list))
           r == Recent(list)
           o == Older(list)
<1>1. list \in Seq(Nat) /\ list = recent \o <<x>> /\ <<x>> \in Seq(Nat)
      /\ Append(l, x) \in Seq(Nat) /\ Append(l, x) = l \o <<x>>
  BY Appends
<1> HIDE DEF list
<1>2. o \in Seq(Nat) /\ r \in Seq(Nat) /\ Len(r) <= Keep /\ o \o r = list
  BY <1>1, Folded
<1>3. /\ new \in Seq(Nat) /\ Ends(new, older \o o)
      /\ Len(new) < SummaryMax => new = older \o o /\ Len(older) < SummaryMax
  BY <1>2, SummarizedEnds
<1> HIDE DEF r, o, new
<1>4. Ends(list, Append(l, x))
  BY EndsAppended DEF Remembers, list
<1>5. Ends(r, Append(l, x))
  BY <1>1, <1>2, <1>4, EndsLast, EndsEnds
<1>6. Len(r) <= Limit
  BY <1>2, MemoryAssumption, Concats
<1>7. ASSUME Len(new) < SummaryMax
      PROVE  /\ ToSet(l) \subseteq ToSet(new) \cup ToSet(recent)
             /\ ToSet(Append(l, x)) \subseteq ToSet(new) \cup ToSet(r)
  <2>1. ToSet(l) \subseteq ToSet(older) \cup ToSet(recent)
    BY <1>3, <1>7 DEF Remembers
  <2>2. ToSet(new) = ToSet(older) \cup ToSet(o)
    BY <1>2, <1>3, <1>7, Elements
  <2>3. ToSet(list) = ToSet(o) \cup ToSet(r) /\ ToSet(list) = ToSet(recent) \cup ToSet(<<x>>)
    BY <1>1, <1>2, Elements
  <2>4. ToSet(Append(l, x)) = ToSet(l) \cup ToSet(<<x>>)
    BY <1>1, Elements
  <2>5. QED
    BY <2>1, <2>2, <2>3, <2>4
<1>8. ASSUME once PROVE Ends(new \o r, Append(l, x))
  <2>1. older \o o \in Seq(Nat) /\ new \o r \in Seq(Nat) /\ older \o list \in Seq(Nat)
        /\ older \o recent \in Seq(Nat)
    BY <1>1, <1>2, <1>3, Concats
  <2>2. Ends(new \o r, (older \o o) \o r)
    BY <1>2, <1>3, <2>1, EndsJoined
  <2>3. (older \o o) \o r = older \o list
    BY <1>2, Associative
  <2>4. older \o list = Append(older \o recent, x)
    <3>1. (older \o recent) \o <<x>> = older \o (recent \o <<x>>)
      BY <1>1, Associative
    <3>2. Append(older \o recent, x) = (older \o recent) \o <<x>>
      BY <2>1, Appends
    <3>3. QED
      BY <1>1, <3>1, <3>2, Zenon
  <2>5. Ends(older \o list, Append(l, x))
    BY <1>8, <2>1, <2>4, EndsAppended DEF Remembers
  <2>6. QED
    BY <1>1, <2>1, <2>2, <2>3, <2>5, EndsEnds
<1>9. Remembers(recent, new, l, FALSE)
  BY <1>7 DEF Remembers
<1>10. Remembers(r, new, Append(l, x), once)
  BY <1>5, <1>6, <1>7, <1>8 DEF Remembers
<1>11. QED
  BY <1>9, <1>10 DEF list, new, r, o

-----------------------------------------------------------------------------
(* Types *)

LEMMA ContentsTyped ==
    /\ Contents(Absent) = <<>>
    /\ \A q \in Seq(Nat) : Contents(q) = q
    /\ \A f \in Seq(Nat) \cup {Absent} : Contents(f) \in Seq(Nat)
  BY MemoryAssumption, EmptySeq DEF Contents

LEMMA IdleTyped == IdleActor \in ActorType /\ Seated(IdleActor) /\ IdleActor.pc = "idle"
  BY EmptySeq DEF IdleActor, ActorType, MemoryPcs, Seated

\* A step of an actor leaves the types, if what it goes on with has its type.
LEMMA ActorTyped ==
    ASSUME MemoryTypes, NEW a \in Actors, NEW o \in ActorType, Seated(o),
           actor' = [actor EXCEPT ![a] = o]
    PROVE  /\ actor' \in [Actors -> ActorType]
           /\ \A b \in Actors : Seated(actor'[b])
           /\ actor'[a] = o /\ \A b \in Actors \ {a} : actor'[b] = actor[b]
  BY DEF MemoryTypes

LEMMA EndTyped ==
    ASSUME MemoryTypes, NEW a \in Actors, End(a)
    PROVE  /\ actor' \in [Actors -> ActorType]
           /\ \A b \in Actors : Seated(actor'[b])
           /\ actor'[a] = IdleActor /\ \A b \in Actors \ {a} : actor'[b] = actor[b]
  BY ActorTyped, IdleTyped DEF End

LEMMA GoToTyped ==
    ASSUME MemoryTypes, NEW a \in Actors, NEW pc \in MemoryPcs, GoTo(a, pc),
           actor[a].at \in Sessions
    PROVE  /\ actor' \in [Actors -> ActorType]
           /\ \A b \in Actors : Seated(actor'[b])
           /\ actor'[a] = [actor[a] EXCEPT !.pc = pc]
           /\ \A b \in Actors \ {a} : actor'[b] = actor[b]
<1> DEFINE o == [actor[a] EXCEPT !.pc = pc]
<1>1. actor[a] \in ActorType
  BY DEF MemoryTypes
<1>2. o \in ActorType /\ o.at = actor[a].at
  BY <1>1 DEF ActorType
<1>3. Seated(o)
  BY <1>2 DEF Seated
<1>4. actor' = [actor EXCEPT ![a] = o]
  BY DEF GoTo
<1> HIDE DEF o
<1>5. QED
  BY <1>2, <1>3, <1>4, ActorTyped DEF o

LEMMA ResolveTyped ==
    ASSUME MemoryTypes, NEW a \in Actors, NEW requested \in Sessions \cup {Absent},
           NEW startNew \in BOOLEAN, NEW exchange \in Nat, Resolve(a, requested, startNew, exchange)
    PROVE  /\ actor' \in [Actors -> ActorType]
           /\ \A b \in Actors : Seated(actor'[b])
           /\ actor'[a].pc = "save" /\ \A b \in Actors \ {a} : actor'[b] = actor[b]
           /\ actor[a].pc = "idle" /\ UNCHANGED <<files, history>>
<1>1. PICK s \in Chosen(a, requested, startNew) :
        actor' = [actor EXCEPT ![a] = [IdleActor EXCEPT !.pc = "save", !.at = s, !.exchange = exchange]]
  BY DEF Resolve
<1>2. s \in Sessions
  BY <1>1 DEF Chosen, MemoryTypes
<1> DEFINE o == [IdleActor EXCEPT !.pc = "save", !.at = s, !.exchange = exchange]
<1>3. o \in ActorType /\ o.pc = "save" /\ o.at \in Sessions
  BY <1>2, EmptySeq DEF IdleActor, ActorType, MemoryPcs
<1>4. Seated(o)
  BY <1>3 DEF Seated
<1> HIDE DEF o
<1>5. actor' = [actor EXCEPT ![a] = o]
  BY <1>1 DEF o
<1>6. QED
  BY <1>3, <1>4, <1>5, ActorTyped DEF Resolve, At

\* The steps that resolve a session; none changes a file.
Starts(a) ==
    \/ ResolveForAsk(a) \/ Render(a) \/ (\E s \in Sessions : Use(a, s)) \/ AppendExchange(a)

LEMMA StartsTyped ==
    ASSUME MemoryTypes, NEW a \in Actors, Starts(a)
    PROVE  /\ actor' \in [Actors -> ActorType]
           /\ \A b \in Actors : Seated(actor'[b])
           /\ actor'[a].pc = "save" /\ \A b \in Actors \ {a} : actor'[b] = actor[b]
           /\ actor[a].pc = "idle" /\ UNCHANGED <<files, history>> /\ exchanges' \in Nat
<1>1. exchanges \in Nat /\ (exchanges' = exchanges \/ exchanges' = exchanges + 1)
  BY DEF MemoryTypes, Starts, ResolveForAsk, Render, Use, AppendExchange
<1>2. \E requested \in Sessions \cup {Absent}, startNew \in BOOLEAN, exchange \in Nat :
        Resolve(a, requested, startNew, exchange)
  <2>1. CASE ResolveForAsk(a)
    BY <2>1 DEF ResolveForAsk
  <2>2. CASE Render(a)
    BY <2>2 DEF Render
  <2>3. CASE \E s \in Sessions : Use(a, s)
    BY <2>3 DEF Use
  <2>4. CASE AppendExchange(a)
    <3>1. PICK s \in Sessions \cup {Absent} : Resolve(a, s, FALSE, exchanges + 1)
      BY <2>4 DEF AppendExchange
    <3>2. exchanges + 1 \in Nat /\ FALSE \in BOOLEAN
      BY <1>1
    <3>3. QED
      BY <3>1, <3>2, Zenon
  <2>5. QED
    BY <2>1, <2>2, <2>3, <2>4 DEF Starts
<1>3. QED
  BY <1>1, <1>2, ResolveTyped

-----------------------------------------------------------------------------
(* Sessions that a step leaves alone *)

\* What is on disk and what is known of s.
Same(s) ==
    /\ file'[s] = file[s] /\ summary'[s] = summary[s] /\ log'[s] = log[s]
    /\ s \in twice' <=> s \in twice

LEMMA Untouched ==
    ASSUME NEW s \in Sessions, SessionInv(s), s \notin harmed' => s \notin harmed, Same(s),
           \A b \in Actors : actor'[b] = actor[b] \/ (~Changes(b, s) /\ ~Changes(b, s)')
    PROVE  SessionInv(s)'
<1> SUFFICES ASSUME s \notin harmed' PROVE SessionInv(s)'
  BY DEF SessionInv
<1>1. /\ \A a, b \in Actors : Changes(a, s) /\ Changes(b, s) => a = b
      /\ Resting(s) /\ \A a \in Actors : Writing(a, s)
  BY DEF SessionInv
<1>2. \A b \in Actors : actor'[b] # actor[b] =>
        \A pcs \in SUBSET (Appending \cup Resetting) : ~Is(b, s, pcs) /\ ~Is(b, s, pcs)'
  BY DEF Changes, Is
<1>3. \A b \in Actors : Changes(b, s)' <=> Changes(b, s)
  BY DEF Changes
<1>4. \A b \in Actors, pcs \in SUBSET (Appending \cup Resetting) : Is(b, s, pcs)' <=> Is(b, s, pcs)
  BY <1>2 DEF Is
<1>5. /\ Resetting \in SUBSET (Appending \cup Resetting)
      /\ {"rewrite"} \in SUBSET (Appending \cup Resetting)
      /\ {"write"} \in SUBSET (Appending \cup Resetting)
      /\ {"summary"} \in SUBSET (Appending \cup Resetting)
      /\ {"fold", "summary", "write"} \in SUBSET (Appending \cup Resetting)
  BY DEF Appending, Resetting
<1>6. Resting(s)'
  BY <1>1, <1>4, <1>5 DEF Resting, Same
<1>7. ASSUME NEW b \in Actors PROVE Writing(b, s)'
  <2>1. CASE actor'[b] = actor[b]
    BY <1>1, <2>1 DEF Writing, Same, Is
  <2>2. CASE actor'[b] # actor[b]
    BY <1>2, <1>5, <2>2 DEF Writing
  <2>3. QED
    BY <2>1, <2>2
<1>8. QED
  BY <1>1, <1>3, <1>6, <1>7 DEF SessionInv

\* A session nobody else changes, when what a is to do with it is known.
LEMMA Alone ==
    ASSUME NEW s \in Sessions, NEW a \in Actors,
           s \notin harmed' => /\ \A b \in Actors \ {a} : ~Changes(b, s)'
                               /\ Resting(s)' /\ Writing(a, s)'
    PROVE  SessionInv(s)'
<1> SUFFICES ASSUME s \notin harmed' PROVE SessionInv(s)'
  BY DEF SessionInv
<1>1. \A b \in Actors \ {a}, pcs \in SUBSET (Appending \cup Resetting) : ~Is(b, s, pcs)'
  BY DEF Changes, Is
<1>2. /\ Resetting \in SUBSET (Appending \cup Resetting)
      /\ {"rewrite"} \in SUBSET (Appending \cup Resetting)
      /\ {"write"} \in SUBSET (Appending \cup Resetting)
      /\ {"summary"} \in SUBSET (Appending \cup Resetting)
      /\ {"fold", "summary", "write"} \in SUBSET (Appending \cup Resetting)
  BY DEF Appending, Resetting
<1>3. \A b \in Actors \ {a} : Writing(b, s)'
  BY <1>1, <1>2 DEF Writing
<1>4. QED
  BY <1>3 DEF SessionInv

-----------------------------------------------------------------------------
(* The steps *)

\* What a step of a leaves alone is as it was for a session that a is not changing.
LEMMA Elsewhere ==
    ASSUME NEW a \in Actors, NEW s \in Sessions, SessionInv(s), Same(s),
           s \in harmed <=> s \in harmed',
           ~Changes(a, s), ~Changes(a, s)',
           \A b \in Actors \ {a} : actor'[b] = actor[b]
    PROVE  SessionInv(s)'
  BY Untouched

\* In a session that has come to no harm, no other changes what a is changing.
LEMMA OnlyOne ==
    ASSUME NEW s \in Sessions, SessionInv(s), s \notin harmed, NEW a \in Actors,
           Changes(a, s) \/ ~ChangedByOther(a, s),
           \A b \in Actors \ {a} : actor'[b] = actor[b]
    PROVE  \A b \in Actors \ {a} : ~Changes(b, s) /\ ~Changes(b, s)'
<1>1. \A b \in Actors \ {a} : ~Changes(b, s)
  BY DEF SessionInv, ChangedByOther
<1>2. QED
  BY <1>1 DEF Changes

\* What holds of a session that only a may be changing.
LEMMA AtRest ==
    ASSUME NEW s \in Sessions, SessionInv(s), s \notin harmed, NEW a \in Actors,
           \A b \in Actors \ {a} : ~Changes(b, s),
           ~Is(a, s, Resetting)
    PROVE  /\ ~Is(a, s, {"rewrite"}) =>
                Remembers(Contents(file[s]), Contents(summary[s]), log[s], s \notin twice)
           /\ Remembers(Contents(file[s]), Contents(summary[s]), log[s], FALSE)
           /\ Writing(a, s)
<1>1. Resting(s) /\ Writing(a, s)
  BY DEF SessionInv
<1>2. \A b \in Actors \ {a} : ~Is(b, s, Resetting) /\ ~Is(b, s, {"rewrite"})
  BY DEF Changes, Is, Appending
<1> DEFINE once == s \notin twice /\ \A b \in Actors : ~Is(b, s, {"rewrite"})
<1>3. Remembers(Contents(file[s]), Contents(summary[s]), log[s], once)
  BY <1>1, <1>2 DEF Resting
<1>4. ~Is(a, s, {"rewrite"}) => (s \notin twice => once)
  BY <1>2
<1>5. QED
  BY <1>1, <1>3, <1>4, Less

LEMMA StartsInv ==
    ASSUME MemoryInv, NEW a \in Actors, Starts(a)
    PROVE  MemoryInv'
<1>1. /\ actor' \in [Actors -> ActorType]
      /\ \A b \in Actors : Seated(actor'[b])
      /\ actor'[a].pc = "save" /\ \A b \in Actors \ {a} : actor'[b] = actor[b]
      /\ actor[a].pc = "idle" /\ UNCHANGED <<files, history>> /\ exchanges' \in Nat
  BY StartsTyped DEF MemoryInv
<1>2. MemoryTypes'
  BY <1>1 DEF MemoryInv, MemoryTypes, files, history
<1>3. ASSUME NEW s \in Sessions PROVE SessionInv(s)'
  <2>1. ~Changes(a, s) /\ ~Changes(a, s)'
    BY <1>1 DEF Changes, Appending, Resetting
  <2>2. Same(s) /\ (s \in harmed <=> s \in harmed')
    BY <1>1 DEF Same, files, history
  <2>3. QED
    BY <1>1, <2>1, <2>2, Elsewhere DEF MemoryInv, SessionsInv
<1>4. QED
  BY <1>2, <1>3 DEF MemoryInv, SessionsInv

LEMMA SaveMetaInv ==
    ASSUME MemoryInv, NEW a \in Actors, SaveMeta(a)
    PROVE  MemoryInv'
<1>1. MemoryTypes /\ actor[a] \in ActorType /\ Seated(actor[a]) /\ actor[a].pc = "save"
  BY DEF MemoryInv, MemoryTypes, SaveMeta, At
<1>2. /\ actor' \in [Actors -> ActorType]
      /\ \A b \in Actors : Seated(actor'[b])
      /\ actor'[a].pc \in {"idle", "load"} /\ \A b \in Actors \ {a} : actor'[b] = actor[b]
  <2>1. CASE actor[a].exchange = 0
    <3>1. End(a)
      BY <2>1 DEF SaveMeta
    <3>2. QED
      BY <1>1, <3>1, EndTyped, IdleTyped
  <2>2. CASE actor[a].exchange # 0
    <3>1. GoTo(a, "load") /\ actor[a].at \in Sessions
      BY <1>1, <2>2 DEF SaveMeta, Seated
    <3>2. "load" \in MemoryPcs
      BY DEF MemoryPcs
    <3>3. [actor[a] EXCEPT !.pc = "load"].pc = "load"
      BY <1>1 DEF ActorType
    <3>4. QED
      BY <1>1, <3>1, <3>2, <3>3, GoToTyped
  <2>3. QED
    BY <2>1, <2>2
<1>3. active' \in Sessions \cup {Absent} /\ UNCHANGED <<file, summary, exchanges, history>>
  BY <1>1 DEF SaveMeta, ActorType
<1>4. MemoryTypes'
  BY <1>1, <1>2, <1>3 DEF MemoryTypes, history
<1>5. ASSUME NEW s \in Sessions PROVE SessionInv(s)'
  <2>1. ~Changes(a, s) /\ ~Changes(a, s)'
    BY <1>1, <1>2 DEF Changes, Appending, Resetting
  <2>2. Same(s) /\ (s \in harmed <=> s \in harmed')
    BY <1>3 DEF Same, history
  <2>3. QED
    BY <1>2, <2>1, <2>2, Elsewhere DEF MemoryInv, SessionsInv
<1>6. QED
  BY <1>4, <1>5 DEF MemoryInv, SessionsInv

\* What an actor finds in the files of a session that only it changes.
LEMMA FindsIt ==
    ASSUME NEW a \in Actors, NEW s \in Sessions, NEW f, NEW pcs, pcs \subseteq Appending,
           \A b \in Actors \ {a} : ~Changes(b, s)
    PROVE  Found(a, s, f, pcs) = {Contents(f)}
  BY DEF Found, Changes

LEMMA FoundTyped ==
    ASSUME NEW a, NEW s, NEW f \in Seq(Nat) \cup {Absent}, NEW pcs,
           NEW q \in Found(a, s, f, pcs)
    PROVE  q \in Seq(Nat)
  BY ContentsTyped, EmptySeq DEF Found

LEMMA LoadInv ==
    ASSUME MemoryInv, NEW a \in Actors, Load(a)
    PROVE  MemoryInv'
<1>0. PICK s \in Sessions, x \in Nat : s = actor[a].at /\ x = actor[a].exchange
  BY DEF MemoryInv, MemoryTypes, Load, At, Seated, ActorType
<1>1. MemoryTypes /\ actor[a] \in ActorType /\ actor[a].pc = "load"
  BY DEF MemoryInv, MemoryTypes, Load, At
<1>2. PICK q \in Found(a, s, file[s], {"write", "rewrite"}), long \in BOOLEAN :
        actor' = [actor EXCEPT ![a].list = Append(q, x),
                    ![a].pc = IF Len(Append(q, x)) > Limit \/ long THEN "fold" ELSE "write"]
  BY <1>0 DEF Load
<1> DEFINE list == Append(q, x)
           pc == IF Len(list) > Limit \/ long THEN "fold" ELSE "write"
           o == [actor[a] EXCEPT !.list = list, !.pc = pc]
<1>3. q \in Seq(Nat)
  BY <1>1, FoundTyped DEF MemoryTypes
<1>4. list \in Seq(Nat) /\ Len(list) \in Nat
  BY <1>1, <1>3, Appends, Concats
<1>5. pc \in {"fold", "write"} /\ (pc = "write" => Len(list) <= Limit)
  BY <1>4, MemoryAssumption
<1>6. /\ UNCHANGED <<files, exchanges, log, twice>>
      /\ harmed' = IF ChangedByOther(a, s) THEN harmed \cup {s} ELSE harmed
  BY <1>0 DEF Load
<1> HIDE DEF list, pc
<1>7. /\ o \in ActorType /\ o.pc = pc /\ o.list = list /\ o.at = s /\ o.exchange = x
  BY <1>0, <1>1, <1>4, <1>5 DEF ActorType, MemoryPcs, Appending
<1>8. Seated(o)
  BY <1>1, <1>7 DEF Seated
<1>9. actor' = [actor EXCEPT ![a] = o]
  BY <1>1, <1>2 DEF list, pc, MemoryTypes
<1> HIDE DEF o
<1>10. /\ actor' \in [Actors -> ActorType]
       /\ \A b \in Actors : Seated(actor'[b])
       /\ actor'[a] = o /\ \A b \in Actors \ {a} : actor'[b] = actor[b]
  BY <1>1, <1>7, <1>8, <1>9, ActorTyped
<1>11. MemoryTypes'
  BY <1>1, <1>6, <1>10 DEF MemoryTypes, files
<1>12. SessionInv(s)'
  <2> SUFFICES ASSUME s \notin harmed'
               PROVE  /\ \A b \in Actors \ {a} : ~Changes(b, s)'
                      /\ Resting(s)' /\ Writing(a, s)'
    BY <1>1, Alone
  <2>1. s \notin harmed /\ ~ChangedByOther(a, s) /\ SessionInv(s)
    BY <1>1, <1>6 DEF MemoryInv, SessionsInv
  <2>2. \A b \in Actors \ {a} : ~Changes(b, s) /\ ~Changes(b, s)'
    BY <1>1, <1>10, <2>1, OnlyOne
  <2>3. q = Contents(file[s])
    BY <1>1, <1>2, <2>2, FindsIt DEF Appending
  <2>4. Remembers(Contents(file[s]), Contents(summary[s]), log[s], s \notin twice)
    <3>1. ~Is(a, s, Resetting) /\ ~Is(a, s, {"rewrite"})
      BY <1>1 DEF Is, Resetting
    <3>2. QED
      BY <1>1, <2>1, <2>2, <3>1, AtRest
  <2>5. \A b \in Actors : ~Is(b, s, {"rewrite"})'
    BY <1>5, <1>7, <1>10, <2>2 DEF Changes, Is, Appending
  <2>6. Resting(s)'
    BY <1>6, <2>4, <2>5 DEF Resting, files
  <2>7. Writing(a, s)'
    <3>1. actor'[a].list = Append(Contents(file'[s]), actor'[a].exchange)
      BY <1>6, <1>7, <1>10, <2>3 DEF list, files
    <3>2. QED
      BY <1>5, <1>7, <1>10, <3>1 DEF Writing, Is, Resetting
  <2>8. QED
    BY <2>2, <2>6, <2>7
<1>13. ASSUME NEW t \in Sessions, t # s PROVE SessionInv(t)'
  <2>1. ~Changes(a, t) /\ ~Changes(a, t)'
    BY <1>0, <1>7, <1>10, <1>13 DEF Changes
  <2>2. Same(t) /\ (t \in harmed <=> t \in harmed')
    BY <1>6, <1>13 DEF Same, files
  <2>3. QED
    BY <1>10, <2>1, <2>2, Elsewhere DEF MemoryInv, SessionsInv
<1>14. QED
  BY <1>11, <1>12, <1>13 DEF MemoryInv, SessionsInv

\* A step of a that concerns s.
LEMMA InSession ==
    ASSUME MemoryInv, NEW a \in Actors, NEW s \in Sessions, MemoryTypes',
           \A b \in Actors \ {a} : actor'[b] = actor[b],
           Changes(a, s) \/ actor[a].pc \notin Appending \cup Resetting,
           actor'[a].at = s \/ actor'[a].pc \notin Appending \cup Resetting,
           \A t \in Sessions \ {s} : Same(t) /\ (t \in harmed <=> t \in harmed'),
           s \notin harmed' => /\ \A b \in Actors \ {a} : ~Changes(b, s)'
                               /\ Resting(s)' /\ Writing(a, s)'
    PROVE  MemoryInv'
<1>1. SessionInv(s)'
  BY Alone
<1>2. ASSUME NEW t \in Sessions, t # s PROVE SessionInv(t)'
  <2>1. ~Changes(a, t) /\ ~Changes(a, t)'
    BY <1>2 DEF Changes
  <2>2. QED
    BY <1>2, <2>1, Elsewhere DEF MemoryInv, SessionsInv
<1>3. QED
  BY <1>1, <1>2 DEF MemoryInv, SessionsInv

LEMMA ReadSummaryInv ==
    ASSUME MemoryInv, NEW a \in Actors, ReadSummary(a)
    PROVE  MemoryInv'
<1>1. MemoryTypes /\ actor[a] \in ActorType /\ actor[a].pc = "fold"
  BY DEF MemoryInv, MemoryTypes, ReadSummary, At
<1>2. PICK s \in Sessions, x \in Nat : s = actor[a].at /\ x = actor[a].exchange
  BY <1>1 DEF MemoryTypes, Seated, ActorType
<1>3. PICK q \in Found(a, s, summary[s], {"summary"}) :
        actor' = [actor EXCEPT ![a].pc = "summary", ![a].sum = q]
  BY <1>2 DEF ReadSummary
<1> DEFINE o == [actor[a] EXCEPT !.pc = "summary", !.sum = q]
<1>4. q \in Seq(Nat)
  BY <1>1, FoundTyped DEF MemoryTypes
<1>5. /\ o \in ActorType /\ o.pc = "summary" /\ o.list = actor[a].list /\ o.sum = q
      /\ o.at = s /\ o.exchange = x
  BY <1>1, <1>2, <1>4 DEF ActorType, MemoryPcs, Appending
<1>6. Seated(o)
  BY <1>5 DEF Seated
<1>7. actor' = [actor EXCEPT ![a] = o]
  BY <1>1, <1>3 DEF MemoryTypes
<1> HIDE DEF o
<1>8. /\ actor' \in [Actors -> ActorType]
      /\ \A b \in Actors : Seated(actor'[b])
      /\ actor'[a] = o /\ \A b \in Actors \ {a} : actor'[b] = actor[b]
  BY <1>1, <1>5, <1>6, <1>7, ActorTyped
<1>9. UNCHANGED <<files, exchanges, history>>
  BY DEF ReadSummary
<1>10. MemoryTypes'
  BY <1>1, <1>8, <1>9 DEF MemoryTypes, files, history
<1>11. \A t \in Sessions : Same(t) /\ (t \in harmed <=> t \in harmed')
  BY <1>9 DEF Same, files, history
<1>12. Changes(a, s)
  BY <1>1, <1>2 DEF Changes, Appending
<1>13. ASSUME s \notin harmed'
       PROVE  /\ \A b \in Actors \ {a} : ~Changes(b, s)'
              /\ Resting(s)' /\ Writing(a, s)'
  <2>1. s \notin harmed /\ SessionInv(s)
    BY <1>11, <1>13 DEF MemoryInv, SessionsInv
  <2>2. \A b \in Actors \ {a} : ~Changes(b, s) /\ ~Changes(b, s)'
    BY <1>8, <1>12, <2>1, OnlyOne
  <2>3. q = Contents(summary[s])
    BY <1>3, <2>2, FindsIt DEF Appending
  <2>4. ~Is(a, s, Resetting) /\ ~Is(a, s, {"rewrite"})
    BY <1>1 DEF Is, Resetting
  <2>5. /\ Remembers(Contents(file[s]), Contents(summary[s]), log[s], s \notin twice)
        /\ Writing(a, s)
    BY <2>1, <2>2, <2>4, AtRest
  <2>6. \A b \in Actors : ~Is(b, s, {"rewrite"})'
    BY <1>5, <1>8, <2>2 DEF Changes, Is, Appending
  <2>7. Resting(s)'
    BY <1>11, <2>5, <2>6 DEF Resting, Same
  <2>8. Writing(a, s)'
    <3>1. actor'[a].list = Append(Contents(file'[s]), actor'[a].exchange)
      BY <1>1, <1>2, <1>5, <1>8, <1>11, <2>5 DEF Writing, Is, Same
    <3>2. actor'[a].sum = Contents(summary'[s])
      BY <1>5, <1>8, <1>11, <2>3 DEF Same
    <3>3. QED
      BY <1>5, <1>8, <3>1, <3>2 DEF Writing, Is, Resetting
  <2>9. QED
    BY <2>2, <2>7, <2>8
<1>14. QED
  BY <1>5, <1>8, <1>10, <1>11, <1>12, <1>13, InSession

LEMMA WriteSummaryInv ==
    ASSUME MemoryInv, NEW a \in Actors, WriteSummary(a)
    PROVE  MemoryInv'
<1>1. MemoryTypes /\ actor[a] \in ActorType /\ actor[a].pc = "summary"
  BY DEF MemoryInv, MemoryTypes, WriteSummary, At
<1>2. PICK s \in Sessions, x \in Nat, list \in Seq(Nat), sum \in Seq(Nat) :
        s = actor[a].at /\ x = actor[a].exchange /\ list = actor[a].list /\ sum = actor[a].sum
  BY <1>1 DEF MemoryTypes, Seated, ActorType
<1> DEFINE o == [actor[a] EXCEPT !.pc = "rewrite", !.list = Recent(list), !.sum = <<>>]
           new == Summarized(sum, Older(list))
<1>3. Older(list) \in Seq(Nat) /\ Recent(list) \in Seq(Nat) /\ new \in Seq(Nat)
  BY Folded, SummarizedEnds
<1>4. /\ o \in ActorType /\ o.pc = "rewrite" /\ o.list = Recent(list)
      /\ o.at = s /\ o.exchange = x
  BY <1>1, <1>2, <1>3, EmptySeq DEF ActorType, MemoryPcs, Appending
<1>5. Seated(o)
  BY <1>4 DEF Seated
<1>6. actor' = [actor EXCEPT ![a] = o]
  BY <1>1, <1>2 DEF MemoryTypes, WriteSummary
<1> HIDE DEF o, new
<1>7. /\ actor' \in [Actors -> ActorType]
      /\ \A b \in Actors : Seated(actor'[b])
      /\ actor'[a] = o /\ \A b \in Actors \ {a} : actor'[b] = actor[b]
  BY <1>1, <1>4, <1>5, <1>6, ActorTyped
<1>8. /\ UNCHANGED <<active, file, exchanges, history>>
      /\ summary' = [summary EXCEPT ![s] = new] \/ (s \in harmed /\ summary' = summary)
  BY <1>2 DEF WriteSummary, new
<1>9. MemoryTypes'
  BY <1>1, <1>3, <1>7, <1>8 DEF MemoryTypes, history
<1>10. \A t \in Sessions \ {s} : Same(t) /\ (t \in harmed <=> t \in harmed')
  BY <1>1, <1>8 DEF Same, history, MemoryTypes
<1>11. Changes(a, s)
  BY <1>1, <1>2 DEF Changes, Appending
<1>12. ASSUME s \notin harmed'
       PROVE  /\ \A b \in Actors \ {a} : ~Changes(b, s)'
              /\ Resting(s)' /\ Writing(a, s)'
  <2>1. s \notin harmed /\ SessionInv(s)
    BY <1>8, <1>12 DEF MemoryInv, SessionsInv, history
  <2>2. \A b \in Actors \ {a} : ~Changes(b, s) /\ ~Changes(b, s)'
    BY <1>7, <1>11, <2>1, OnlyOne
  <2>3. ~Is(a, s, Resetting) /\ ~Is(a, s, {"rewrite"})
    BY <1>1 DEF Is, Resetting
  <2>4. /\ Remembers(Contents(file[s]), Contents(summary[s]), log[s], s \notin twice)
        /\ Writing(a, s)
    BY <2>1, <2>2, <2>3, AtRest
  <2>5. list = Append(Contents(file[s]), x) /\ sum = Contents(summary[s])
    BY <1>1, <1>2, <2>4 DEF Writing, Is
  <2>6. /\ Contents(file[s]) \in Seq(Nat) /\ sum \in Seq(Nat) /\ log[s] \in Seq(Nat)
        /\ Contents(summary'[s]) = new
    BY <1>1, <1>3, <1>8, <2>1, ContentsTyped DEF MemoryTypes
  <2>7. /\ Remembers(Contents(file[s]), new, log[s], FALSE)
        /\ Remembers(Recent(list), new, Append(log[s], x), s \notin twice)
    BY <2>4, <2>5, <2>6, Shifted DEF new
  <2>8. Is(a, s, {"rewrite"})'
    BY <1>4, <1>7 DEF Is
  <2>9. Resting(s)'
    BY <1>8, <2>6, <2>7, <2>8 DEF Resting, history
  <2>10. Writing(a, s)'
    BY <1>4, <1>7, <1>8, <2>6, <2>7 DEF Writing, Is, Resetting, history
  <2>11. QED
    BY <2>2, <2>9, <2>10
<1>13. QED
  BY <1>4, <1>7, <1>9, <1>10, <1>11, <1>12, InSession

LEMMA WriteExchangesInv ==
    ASSUME MemoryInv, NEW a \in Actors, WriteExchanges(a)
    PROVE  MemoryInv'
<1>1. MemoryTypes /\ actor[a] \in ActorType /\ actor[a].pc \in {"write", "rewrite"} /\ End(a)
  BY DEF MemoryInv, MemoryTypes, WriteExchanges, At
<1>2. PICK s \in Sessions, x \in Nat, list \in Seq(Nat) :
        s = actor[a].at /\ x = actor[a].exchange /\ list = actor[a].list
  BY <1>1 DEF MemoryTypes, Seated, ActorType
<1>3. /\ actor' \in [Actors -> ActorType]
      /\ \A b \in Actors : Seated(actor'[b])
      /\ actor'[a] = IdleActor /\ \A b \in Actors \ {a} : actor'[b] = actor[b]
  BY <1>1, EndTyped
<1>4. /\ UNCHANGED <<active, summary, exchanges, twice, harmed>>
      /\ file' = [file EXCEPT ![s] = list] \/ (s \in harmed /\ file' = file)
      /\ log' = [log EXCEPT ![s] = Append(log[s], x)]
  BY <1>2 DEF WriteExchanges
<1>5. log[s] \in Seq(Nat) /\ Append(log[s], x) \in Seq(Nat)
  BY <1>1, Appends DEF MemoryTypes
<1>6. MemoryTypes'
  BY <1>1, <1>3, <1>4, <1>5 DEF MemoryTypes
<1>7. \A t \in Sessions \ {s} : Same(t) /\ (t \in harmed <=> t \in harmed')
  BY <1>1, <1>4 DEF Same, MemoryTypes
<1>8. Changes(a, s)
  BY <1>1, <1>2 DEF Changes, Appending
<1>9. actor'[a].pc \notin Appending \cup Resetting
  BY <1>3, IdleTyped DEF Appending, Resetting
<1>10. ASSUME s \notin harmed'
       PROVE  /\ \A b \in Actors \ {a} : ~Changes(b, s)'
              /\ Resting(s)' /\ Writing(a, s)'
  <2>1. s \notin harmed /\ SessionInv(s)
    BY <1>4, <1>10 DEF MemoryInv, SessionsInv
  <2>2. \A b \in Actors \ {a} : ~Changes(b, s) /\ ~Changes(b, s)'
    BY <1>3, <1>8, <2>1, OnlyOne
  <2>3. ~Is(a, s, Resetting)
    BY <1>1 DEF Is, Resetting
  <2>4. Contents(file[s]) \in Seq(Nat) /\ Contents(summary[s]) \in Seq(Nat)
    BY <1>1, ContentsTyped DEF MemoryTypes
  <2>5. Remembers(list, Contents(summary[s]), Append(log[s], x), s \notin twice)
    <3>1. CASE actor[a].pc = "rewrite"
      BY <1>2, <2>1, <3>1 DEF SessionInv, Writing, Is
    <3>2. CASE actor[a].pc = "write"
      <4>1. ~Is(a, s, {"rewrite"})
        BY <3>2 DEF Is
      <4>2. /\ Remembers(Contents(file[s]), Contents(summary[s]), log[s], s \notin twice)
            /\ Writing(a, s)
        BY <2>1, <2>2, <2>3, <4>1, AtRest
      <4>3. list = Append(Contents(file[s]), x) /\ Len(list) <= Limit
        BY <1>2, <3>2, <4>2 DEF Writing, Is
      <4>4. QED
        BY <1>5, <2>4, <4>2, <4>3, Added
    <3>3. QED
      BY <1>1, <3>1, <3>2
  <2>6. /\ Contents(file'[s]) = list /\ log'[s] = Append(log[s], x)
    BY <1>1, <1>4, <2>1, ContentsTyped DEF MemoryTypes
  <2>7. \A b \in Actors : ~Is(b, s, {"rewrite"})'
    BY <1>9, <2>2 DEF Changes, Is, Appending
  <2>8. Resting(s)'
    BY <1>4, <2>5, <2>6, <2>7 DEF Resting
  <2>9. Writing(a, s)'
    BY <1>9 DEF Writing, Is, Appending
  <2>10. QED
    BY <2>2, <2>8, <2>9
<1>11. QED
  BY <1>3, <1>6, <1>7, <1>8, <1>9, <1>10, InSession

\* A session without files whose log is empty.
LEMMA Emptied ==
    ASSUME NEW f, NEW g, NEW l, f = Absent, g = Absent, l = <<>>, NEW once
    PROVE  Remembers(Contents(f), Contents(g), l, once)
  BY Nothing, ContentsTyped, Less

LEMMA ResetInv ==
    ASSUME MemoryInv, NEW a \in Actors, NEW s \in Sessions, Reset(a, s)
    PROVE  MemoryInv'
<1>1. MemoryTypes /\ actor[a].pc = "idle"
  BY DEF MemoryInv, Reset, At
<1> DEFINE o == [IdleActor EXCEPT !.pc = "resetSummary", !.at = s]
<1>2. o \in ActorType /\ o.pc = "resetSummary" /\ o.at = s
  BY EmptySeq DEF IdleActor, ActorType, MemoryPcs, Resetting
<1>3. Seated(o)
  BY <1>2 DEF Seated
<1>4. actor' = [actor EXCEPT ![a] = o]
  BY DEF Reset
<1> HIDE DEF o
<1>5. /\ actor' \in [Actors -> ActorType]
      /\ \A b \in Actors : Seated(actor'[b])
      /\ actor'[a] = o /\ \A b \in Actors \ {a} : actor'[b] = actor[b]
  BY <1>1, <1>2, <1>3, <1>4, ActorTyped
<1>6. /\ file' = [file EXCEPT ![s] = Absent] /\ log' = [log EXCEPT ![s] = <<>>]
      /\ twice' = twice \ {s}
      /\ harmed' = IF ChangedByOther(a, s) THEN harmed \cup {s} ELSE harmed \ {s}
      /\ UNCHANGED <<active, summary, exchanges>>
  BY DEF Reset
<1>7. MemoryTypes'
  BY <1>1, <1>5, <1>6, EmptySeq DEF MemoryTypes
<1>8. \A t \in Sessions \ {s} : Same(t) /\ (t \in harmed <=> t \in harmed')
  BY <1>1, <1>6 DEF Same, MemoryTypes
<1>9. ASSUME s \notin harmed'
       PROVE  /\ \A b \in Actors \ {a} : ~Changes(b, s)'
              /\ Resting(s)' /\ Writing(a, s)'
  <2>1. ~ChangedByOther(a, s)
    BY <1>6, <1>9
  <2>2. \A b \in Actors \ {a} : ~Changes(b, s)'
    BY <1>5, <2>1 DEF ChangedByOther, Changes
  <2>3. Is(a, s, Resetting)'
    BY <1>2, <1>5 DEF Is, Resetting
  <2>4. file'[s] = Absent /\ log'[s] = <<>> /\ s \notin twice'
    BY <1>1, <1>6 DEF MemoryTypes
  <2>5. QED
    BY <1>2, <1>5, <2>2, <2>3, <2>4 DEF Resting, Writing, Is
<1>10. actor[a].pc \notin Appending \cup Resetting
  BY <1>1 DEF Appending, Resetting
<1>11. QED
  BY <1>2, <1>5, <1>7, <1>8, <1>9, <1>10, InSession

LEMMA ResetSummaryInv ==
    ASSUME MemoryInv, NEW a \in Actors, ResetSummary(a)
    PROVE  MemoryInv'
<1>1. MemoryTypes /\ actor[a] \in ActorType /\ actor[a].pc = "resetSummary" /\ GoTo(a, "resetMeta")
  BY DEF MemoryInv, MemoryTypes, ResetSummary, At
<1>2. PICK s \in Sessions : s = actor[a].at
  BY <1>1 DEF MemoryTypes, Seated
<1>3. /\ actor' \in [Actors -> ActorType]
      /\ \A b \in Actors : Seated(actor'[b])
      /\ actor'[a] = [actor[a] EXCEPT !.pc = "resetMeta"]
      /\ \A b \in Actors \ {a} : actor'[b] = actor[b]
  BY <1>1, <1>2, GoToTyped DEF MemoryPcs
<1>4. actor'[a].pc \notin Appending \cup Resetting
  BY <1>1, <1>3 DEF ActorType, Appending, Resetting
<1>5. UNCHANGED <<active, file, exchanges, history>> /\ summary' = [summary EXCEPT ![s] = Absent]
  BY <1>2 DEF ResetSummary
<1>6. MemoryTypes'
  BY <1>1, <1>3, <1>5 DEF MemoryTypes, history
<1>7. \A t \in Sessions \ {s} : Same(t) /\ (t \in harmed <=> t \in harmed')
  BY <1>1, <1>5 DEF Same, MemoryTypes, history
<1>8. Changes(a, s)
  BY <1>1, <1>2 DEF Changes, Resetting
<1>9. ASSUME s \notin harmed'
       PROVE  /\ \A b \in Actors \ {a} : ~Changes(b, s)'
              /\ Resting(s)' /\ Writing(a, s)'
  <2>1. s \notin harmed /\ SessionInv(s)
    BY <1>5, <1>9 DEF MemoryInv, SessionsInv, history
  <2>2. \A b \in Actors \ {a} : ~Changes(b, s) /\ ~Changes(b, s)'
    BY <1>3, <1>8, <2>1, OnlyOne
  <2>3. file[s] = Absent /\ log[s] = <<>>
    BY <1>1, <1>2, <2>1 DEF SessionInv, Writing, Is, Resetting
  <2>4. file'[s] = Absent /\ summary'[s] = Absent /\ log'[s] = <<>>
    BY <1>1, <1>5, <2>3 DEF MemoryTypes, history
  <2>5. Resting(s)'
    BY <2>4, Emptied DEF Resting
  <2>6. Writing(a, s)'
    BY <1>4 DEF Writing, Is, Appending
  <2>7. QED
    BY <2>2, <2>5, <2>6
<1>10. QED
  BY <1>3, <1>4, <1>6, <1>7, <1>8, <1>9, InSession

LEMMA ResetMetaInv ==
    ASSUME MemoryInv, NEW a \in Actors, ResetMeta(a)
    PROVE  MemoryInv'
<1>1. MemoryTypes /\ actor[a].pc = "resetMeta" /\ UNCHANGED <<files, exchanges, history>>
  BY DEF MemoryInv, ResetMeta, At
<1>2. /\ actor' \in [Actors -> ActorType]
      /\ \A b \in Actors : Seated(actor'[b])
      /\ actor'[a].pc \in {"idle", "save"} /\ \A b \in Actors \ {a} : actor'[b] = actor[b]
  <2>1. CASE End(a)
    BY <1>1, <2>1, EndTyped, IdleTyped
  <2>2. CASE ~End(a)
    <3>1. PICK s \in Sessions \cup {Absent} :
            actor' = [actor EXCEPT ![a] = [IdleActor EXCEPT !.pc = "save", !.at = s]]
      BY <1>1, <2>2 DEF ResetMeta, Listed, MemoryTypes
    <3> DEFINE o == [IdleActor EXCEPT !.pc = "save", !.at = s]
    <3>2. o \in ActorType /\ o.pc = "save" /\ o.exchange = 0
      BY EmptySeq DEF IdleActor, ActorType, MemoryPcs
    <3>3. Seated(o)
      BY <3>2 DEF Seated
    <3> HIDE DEF o
    <3>4. actor' = [actor EXCEPT ![a] = o]
      BY <3>1 DEF o
    <3>5. QED
      BY <1>1, <3>2, <3>3, <3>4, ActorTyped
  <2>3. QED
    BY <2>1, <2>2
<1>3. MemoryTypes'
  BY <1>1, <1>2 DEF MemoryTypes, files, history
<1>4. ASSUME NEW s \in Sessions PROVE SessionInv(s)'
  <2>1. ~Changes(a, s) /\ ~Changes(a, s)'
    BY <1>1, <1>2 DEF Changes, Appending, Resetting
  <2>2. Same(s) /\ (s \in harmed <=> s \in harmed')
    BY <1>1 DEF Same, files, history
  <2>3. QED
    BY <1>2, <2>1, <2>2, Elsewhere DEF MemoryInv, SessionsInv
<1>5. QED
  BY <1>3, <1>4 DEF MemoryInv, SessionsInv

LEMMA ResetAllInv ==
    ASSUME MemoryInv, NEW a \in Actors, ResetAll(a)
    PROVE  MemoryInv'
<1>1. MemoryTypes /\ actor[a].pc = "idle"
  BY DEF MemoryInv, ResetAll, At
<1>2. /\ active' = Absent
      /\ file' = [s \in Sessions |-> Absent] /\ summary' = [s \in Sessions |-> Absent]
      /\ log' = [s \in Sessions |-> <<>>]
      /\ twice' = {} /\ harmed' = {s \in Sessions : ChangedByOther(a, s)}
      /\ UNCHANGED <<actor, exchanges>>
  BY DEF ResetAll
<1>3. MemoryTypes'
  BY <1>1, <1>2, EmptySeq DEF MemoryTypes
<1>4. ASSUME NEW s \in Sessions PROVE SessionInv(s)'
  <2> SUFFICES ASSUME s \notin harmed'
               PROVE  /\ \A b \in Actors \ {a} : ~Changes(b, s)'
                      /\ Resting(s)' /\ Writing(a, s)'
    BY Alone
  <2>1. ~ChangedByOther(a, s)
    BY <1>2
  <2>2. \A b \in Actors \ {a} : ~Changes(b, s)'
    BY <1>2, <2>1 DEF ChangedByOther, Changes
  <2>3. Resting(s)'
    BY <1>2, Emptied DEF Resting
  <2>4. Writing(a, s)'
    BY <1>1, <1>2 DEF Writing, Is, Resetting
  <2>5. QED
    BY <2>2, <2>3, <2>4
<1>5. QED
  BY <1>3, <1>4 DEF MemoryInv, SessionsInv

LEMMA FailInv ==
    ASSUME MemoryInv, NEW a \in Actors, Fail(a)
    PROVE  MemoryInv'
<1>1. /\ MemoryTypes /\ actor[a].pc \in MemoryPcs \ {"idle"} /\ End(a) /\ Seated(actor[a])
      /\ actor[a].pc \notin Resetting
      /\ UNCHANGED <<files, exchanges, log, harmed>>
      /\ twice' = IF At(a, "rewrite") THEN twice \cup {actor[a].at} ELSE twice
  BY DEF MemoryInv, MemoryTypes, Fail, MemoryPcs, Appending, Resetting
<1>2. /\ actor' \in [Actors -> ActorType]
      /\ \A b \in Actors : Seated(actor'[b])
      /\ actor'[a] = IdleActor /\ \A b \in Actors \ {a} : actor'[b] = actor[b]
  BY <1>1, EndTyped
<1>3. actor'[a].pc \notin Appending \cup Resetting
  BY <1>2, IdleTyped DEF Appending, Resetting
<1>4. MemoryTypes'
  BY <1>1, <1>2 DEF MemoryTypes, files
<1>5. CASE actor[a].pc \notin Appending
  <2>1. ASSUME NEW s \in Sessions PROVE SessionInv(s)'
    <3>1. ~Changes(a, s) /\ ~Changes(a, s)'
      BY <1>1, <1>3, <1>5 DEF Changes
    <3>2. Same(s) /\ (s \in harmed <=> s \in harmed')
      BY <1>1, <1>5 DEF Same, files, At, Appending
    <3>3. QED
      BY <1>2, <3>1, <3>2, Elsewhere DEF MemoryInv, SessionsInv
  <2>2. QED
    BY <1>4, <2>1 DEF MemoryInv, SessionsInv
<1>6. CASE actor[a].pc \in Appending
  <2>1. PICK s \in Sessions : s = actor[a].at
    BY <1>6 DEF MemoryInv, MemoryTypes, Seated, Appending
  <2>2. Changes(a, s)
    BY <1>6, <2>1 DEF Changes
  <2>3. \A t \in Sessions \ {s} : Same(t) /\ (t \in harmed <=> t \in harmed')
    BY <1>1, <2>1 DEF Same, files
  <2>4. ASSUME s \notin harmed'
        PROVE  /\ \A b \in Actors \ {a} : ~Changes(b, s)'
               /\ Resting(s)' /\ Writing(a, s)'
    <3>1. s \notin harmed /\ SessionInv(s)
      BY <1>1, <2>4 DEF MemoryInv, SessionsInv
    <3>2. \A b \in Actors \ {a} : ~Changes(b, s) /\ ~Changes(b, s)'
      BY <1>2, <2>2, <3>1, OnlyOne
    <3>3. ~Is(a, s, Resetting)
      BY <1>1 DEF Is
    <3>4. /\ ~Is(a, s, {"rewrite"}) =>
               Remembers(Contents(file[s]), Contents(summary[s]), log[s], s \notin twice)
          /\ Remembers(Contents(file[s]), Contents(summary[s]), log[s], FALSE)
      BY <3>1, <3>2, <3>3, AtRest
    <3>5. Remembers(Contents(file[s]), Contents(summary[s]), log[s], s \notin twice')
      <4>1. CASE Is(a, s, {"rewrite"})
        <5>1. s \in twice'
          BY <1>1, <2>1, <4>1 DEF Is, At
        <5>2. QED
          BY <3>4, <5>1, Less
      <4>2. CASE ~Is(a, s, {"rewrite"})
        <5>1. twice' = twice
          BY <1>1, <2>1, <4>2 DEF Is, At
        <5>2. QED
          BY <3>4, <4>2, <5>1
      <4>3. QED
        BY <4>1, <4>2
    <3>6. Resting(s)'
      <4>1. /\ file'[s] = file[s] /\ summary'[s] = summary[s] /\ log'[s] = log[s]
        BY <1>1 DEF files
      <4>2. (s \notin twice /\ \A b \in Actors : ~Is(b, s, {"rewrite"}))' => s \notin twice'
        OBVIOUS
      <4>3. QED
        BY <3>5, <4>1, <4>2, Less DEF Resting
    <3>7. Writing(a, s)'
      BY <1>3 DEF Writing, Is, Appending
    <3>8. QED
      BY <3>2, <3>6, <3>7
  <2>5. QED
    BY <1>2, <1>3, <1>4, <2>2, <2>3, <2>4, InSession
<1>7. QED
  BY <1>5, <1>6

LEMMA FailWritingInv ==
    ASSUME MemoryInv, NEW a \in Actors, FailWriting(a)
    PROVE  MemoryInv'
<1>1. /\ MemoryTypes /\ End(a) /\ Seated(actor[a])
      /\ UNCHANGED <<exchanges, log, twice>>
  BY DEF MemoryInv, MemoryTypes, FailWriting
<1>2. /\ actor' \in [Actors -> ActorType]
      /\ \A b \in Actors : Seated(actor'[b])
      /\ actor'[a] = IdleActor /\ \A b \in Actors \ {a} : actor'[b] = actor[b]
  BY <1>1, EndTyped
<1>3. actor'[a].pc \notin Appending \cup Resetting
  BY <1>2, IdleTyped DEF Appending, Resetting
<1>4. CASE At(a, "save")
  <2>1. active' = Absent /\ UNCHANGED <<file, summary, harmed>>
    BY <1>4 DEF FailWriting, At
  <2>2. MemoryTypes'
    BY <1>1, <1>2, <2>1 DEF MemoryTypes
  <2>3. ASSUME NEW s \in Sessions PROVE SessionInv(s)'
    <3>1. ~Changes(a, s) /\ ~Changes(a, s)'
      BY <1>3, <1>4 DEF Changes, At, Appending, Resetting
    <3>2. Same(s) /\ (s \in harmed <=> s \in harmed')
      BY <1>1, <2>1 DEF Same
    <3>3. QED
      BY <1>2, <3>1, <3>2, Elsewhere DEF MemoryInv, SessionsInv
  <2>4. QED
    BY <2>2, <2>3 DEF MemoryInv, SessionsInv
<1>5. CASE ~At(a, "save")
  <2>1. actor[a].pc \in Appending \cup Resetting
    BY <1>5 DEF FailWriting, At, Appending, Resetting
  <2>2. PICK s \in Sessions : s = actor[a].at
    BY <1>1, <2>1 DEF Seated, Appending, Resetting
  <2>3. /\ UNCHANGED active /\ harmed' = harmed \cup {s}
        /\ \/ UNCHANGED <<file, summary>>
           \/ UNCHANGED file /\ summary' = [summary EXCEPT ![s] = <<>>]
           \/ UNCHANGED summary /\ file' = [file EXCEPT ![s] = <<>>]
    BY <1>5, <2>2 DEF FailWriting, files
  <2>4. MemoryTypes'
    BY <1>1, <1>2, <2>3, EmptySeq DEF MemoryTypes
  <2>5. Changes(a, s)
    BY <2>1, <2>2 DEF Changes
  <2>6. \A t \in Sessions \ {s} : Same(t) /\ (t \in harmed <=> t \in harmed')
    BY <1>1, <2>3 DEF Same, MemoryTypes
  <2>7. s \in harmed'
    BY <2>3
  <2>8. QED
    BY <1>2, <1>3, <2>4, <2>5, <2>6, <2>7, InSession
<1>6. QED
  BY <1>4, <1>5

LEMMA InitMemory == MemoryInit => MemoryInv
<1> SUFFICES ASSUME MemoryInit PROVE MemoryInv
  OBVIOUS
<1>1. MemoryTypes
  BY IdleTyped, EmptySeq DEF MemoryInit, MemoryTypes
<1>2. ASSUME NEW s \in Sessions PROVE SessionInv(s)
  <2>1. file[s] = Absent /\ summary[s] = Absent /\ log[s] = <<>>
    BY DEF MemoryInit
  <2>2. \A b \in Actors : actor[b].pc = "idle"
    BY IdleTyped DEF MemoryInit
  <2>3. Resting(s)
    BY <2>1, Emptied DEF Resting
  <2>4. QED
    BY <2>2, <2>3 DEF SessionInv, Changes, Writing, Is, Appending, Resetting
<1>3. QED
  BY <1>1, <1>2 DEF MemoryInv, SessionsInv

LEMMA StepMemory == MemoryInv /\ [MemoryNext]_memoryVars => MemoryInv'
<1> SUFFICES ASSUME MemoryInv, [MemoryNext]_memoryVars PROVE MemoryInv'
  OBVIOUS
<1>1. ASSUME NEW a \in Actors, Step(a) PROVE MemoryInv'
  <2>1. \/ Starts(a) \/ (\E s \in Sessions : Reset(a, s)) \/ SaveMeta(a) \/ Load(a)
        \/ ReadSummary(a) \/ WriteSummary(a) \/ WriteExchanges(a) \/ ResetSummary(a)
        \/ ResetMeta(a) \/ ResetAll(a) \/ Fail(a) \/ FailWriting(a)
    BY <1>1 DEF Step, Starts
  <2>2. QED
    BY <2>1, StartsInv, ResetInv, SaveMetaInv, LoadInv, ReadSummaryInv, WriteSummaryInv,
       WriteExchangesInv, ResetSummaryInv, ResetMetaInv, ResetAllInv, FailInv, FailWritingInv
<1>2. CASE UNCHANGED memoryVars
  <2>1. MemoryTypes'
    BY <1>2 DEF MemoryInv, MemoryTypes, memoryVars, files, history
  <2>2. ASSUME NEW s \in Sessions PROVE SessionInv(s)'
    BY <1>2, Untouched DEF MemoryInv, SessionsInv, memoryVars, files, history, Same
  <2>3. QED
    BY <2>1, <2>2 DEF MemoryInv, SessionsInv
<1>3. QED
  BY <1>1, <1>2 DEF MemoryNext

\* What a session remembers, stated with the library's operators.
LEMMA InvKept == MemoryInv => MemoryKept
<1> SUFFICES ASSUME MemoryInv, NEW s \in Sessions \ harmed, \A a \in Actors : ~Changes(a, s)
             PROVE  LET recent == Contents(file[s])
                        older == Contents(summary[s])
                        all == older \o recent
                    IN  /\ IsSuffix(recent, log[s])
                        /\ Len(recent) <= Limit
                        /\ Len(older) < SummaryMax => ToSet(log[s]) \subseteq ToSet(all)
                        /\ s \notin twice => IsSuffix(all, log[s])
  BY DEF MemoryKept
<1> DEFINE recent == Contents(file[s])
           older == Contents(summary[s])
<1>1. recent \in Seq(Nat) /\ older \in Seq(Nat) /\ log[s] \in Seq(Nat)
  BY ContentsTyped DEF MemoryInv, MemoryTypes
<1>2. \A a \in Actors : ~Is(a, s, Resetting) /\ ~Is(a, s, {"rewrite"})
  BY DEF Changes, Is, Appending
<1>3. Resting(s)
  BY DEF MemoryInv, SessionsInv, SessionInv
<1>4. Remembers(recent, older, log[s], s \notin twice)
  <2>1. s \notin twice => s \notin twice /\ \A a \in Actors : ~Is(a, s, {"rewrite"})
    BY <1>2
  <2>2. QED
    BY <1>2, <1>3, <2>1, Less DEF Resting
<1> HIDE DEF recent, older
<1>5. older \o recent \in Seq(Nat) /\ ToSet(older \o recent) = ToSet(older) \cup ToSet(recent)
  BY <1>1, Concats, Elements
<1>6. /\ IsSuffix(recent, log[s]) <=> Ends(recent, log[s])
      /\ IsSuffix(older \o recent, log[s]) <=> Ends(older \o recent, log[s])
  BY <1>1, <1>5, SuffixEnds
<1>7. /\ IsSuffix(recent, log[s])
      /\ Len(recent) <= Limit
      /\ Len(older) < SummaryMax => ToSet(log[s]) \subseteq ToSet(older \o recent)
      /\ s \notin twice => IsSuffix(older \o recent, log[s])
  BY <1>4, <1>5, <1>6, Zenon DEF Remembers
<1>8. QED
  BY <1>7 DEF recent, older

\* For any actors, sessions and limits: a session that nobody is changing, and that has come
\* to no harm since its last reset, remembers what was appended to it, in order: its file
\* holds the latest exchanges, and its summary the older ones, as many as fit.
THEOREM MemoryKeptHolds == MemorySpec => []MemoryKept
<1>1. MemorySpec => []MemoryInv
  BY InitMemory, StepMemory, PTL DEF MemorySpec
<1>2. QED
  BY <1>1, InvKept, PTL

=============================================================================
