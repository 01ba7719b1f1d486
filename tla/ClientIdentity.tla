----------------------------- MODULE ClientIdentity -----------------------------
(***************************************************************************)
(* The identity of one machine: the key pair and the client config on its  *)
(* disk, the rows the coordination server has for its nodes, and the       *)
(* commands (setup, register, create and join, identity revoke, identity   *)
(* rotate) that read and write both, from several terminals at once.       *)
(*                                                                         *)
(* A node is its key pair: the node id is derived from the public key.  A  *)
(* command goes through files and requests one at a time; between any two  *)
(* of them it may be killed, and the answer to a request may be lost after *)
(* the server has carried it out.  A request is one step here; what can    *)
(* happen between its authentication and its handler is in Coordination.   *)
(***************************************************************************)
EXTENDS Naturals, FiniteSets

CONSTANTS
    Terminals,     \* where commands run
    Nodes,         \* the key pairs the machine may generate
    Projects,
    MaxCommands,   \* bound: commands started in a run
    None           \* no node

ASSUME IdentityAssumption == MaxCommands \in Nat /\ None \notin Nodes

VARIABLES
    keypair,   \* ~/.bridges/identity/keypair.json: a node, or None
    config,    \* ~/.bridges/config.json: node id and API key
    local,     \* the local database: projects with a directory on this machine
    term,      \* what each terminal's command is doing, and what it has read
    rows,      \* server: registered_nodes
    members,   \* server: project memberships, as <<project, node>>
    issued,    \* server: API keys issued so far; the i-th key is i
    made,      \* history: key pairs generated so far
    started,   \* history: commands started
    blame      \* history: what disturbed the commands

disk == <<keypair, config, local>>
server == <<rows, members, issued>>
vars == <<disk, server, term, made, started, blame>>

Causes ==
    {"overlap",        \* a command began while another was running
     "cut",            \* a command was killed, or a reply lost
     "cut_replace",    \* ... after the server replaced the node, before the key was saved
     "two_creators"}   \* two first commands each saved a key pair of its own

\* API key 0: no key.  (serde would not load a file that is half written; a config is
\* saved by one fs::write.)
NoConfig == [node |-> None, key |-> 0]
Idle == [pc |-> "idle", cfg |-> NoConfig, node |-> None, key |-> 0, entered |-> {}]
Unregistered == [status |-> "absent", key |-> 0, replacement |-> None]

Init ==
    /\ keypair = None
    /\ config = NoConfig
    /\ local = {}
    /\ term = [t \in Terminals |-> Idle]
    /\ rows = [n \in Nodes |-> Unregistered]
    /\ members = {}
    /\ issued = 0
    /\ made = {}
    /\ started = 0
    /\ blame = {}

AllIdle == \A t \in Terminals : term[t].pc = "idle"

-----------------------------------------------------------------------------
(* The server, as the commands use it *)

\* auth_middleware: the API key of an active node.
Authenticates(key, n) == key # 0 /\ rows[n].key = key /\ rows[n].status = "active"

Works(cfg) == \E n \in Nodes : Authenticates(cfg.key, n)

\* Mutant of Registered: a revoked node may register again.
RegisteredAgain(n) ==
    /\ issued' = issued + 1
    /\ rows' = [rows EXCEPT ![n] = [status |-> "active", key |-> issued + 1,
                                    replacement |-> rows[n].replacement]]

\* register: a new row, or a new API key for an active one; 410 for a revoked node.
Registered(n) ==
    /\ rows[n].status # "revoked"
    /\ issued' = issued + 1
    /\ rows' = [rows EXCEPT ![n] = [status |-> "active", key |-> issued + 1,
                                    replacement |-> rows[n].replacement]]

\* revoke: the row stays, without a key.
Revoked(n, replacement) ==
    rows' = [rows EXCEPT ![n] = [status |-> "revoked", key |-> 0, replacement |-> replacement]]

\* replace(old, new): the new node must be active under the key it was given and take part
\* in nothing; memberships move to it and the old node is revoked, in one transaction.
MayReplace(old, new, key) ==
    /\ new # old
    /\ Authenticates(key, new)
    /\ \A p \in Projects : <<p, new>> \notin members

Replaced(old, new) ==
    /\ members' = {<<m[1], IF m[2] = old THEN new ELSE m[2]>> : m \in members}
    /\ Revoked(old, new)

-----------------------------------------------------------------------------
(* Commands *)

\* The command goes on, or ends.
GoOn(t, next) == term' = [term EXCEPT ![t] = next]
Exit(t) == GoOn(t, Idle)

\* The reply to a request arrives, and the command goes on; or it is lost, and it ends.
Reply(t, next, lost) ==
    \/ GoOn(t, next) /\ UNCHANGED blame
    \/ Exit(t) /\ blame' = blame \cup {"cut", lost}

Start(t, first) ==
    /\ term[t].pc = "idle"
    /\ started < MaxCommands
    /\ started' = started + 1
    /\ GoOn(t, first)
    /\ blame' = IF AllIdle THEN blame ELSE blame \cup {"overlap"}
    /\ UNCHANGED <<disk, server, made>>

\* setup loads the identity, and cmd_register, which it calls, loads it again.
Setup(t) == Start(t, [Idle EXCEPT !.pc = "load_setup"])
CmdRegister(t) == Start(t, [Idle EXCEPT !.pc = "load"])

\* load_or_exit: a config with an API key, else the command has done nothing.
Loaded(t, pc) == config.key # 0 /\ Start(t, [Idle EXCEPT !.pc = pc, !.cfg = config])
CreateOrJoin(t) == Loaded(t, "enter")
IdentityRevoke(t) == Loaded(t, "revoke")
IdentityRotate(t) == Loaded(t, "generate")

Fresh == Nodes \ made

\* Mutant of LoadKey: a missing key pair is not noticed.
LoadKeyUnchecked(t) ==
    /\ term[t].pc \in {"load_setup", "load"}
    /\ GoOn(t, [term[t] EXCEPT !.pc = IF @ = "load" THEN "register" ELSE "load", !.node = keypair])
    /\ UNCHANGED <<disk, server, made, started, blame>>

\* load_or_create_keypair: the key pair on disk, or else a new one, saved next.
LoadKey(t) ==
    /\ term[t].pc \in {"load_setup", "load"}
    /\ keypair # None
    /\ GoOn(t, [term[t] EXCEPT !.pc = IF @ = "load" THEN "register" ELSE "load", !.node = keypair])
    /\ UNCHANGED <<disk, server, made, started, blame>>

GenerateKey(t) ==
    /\ term[t].pc \in {"load_setup", "load"}
    /\ keypair = None
    /\ \E n \in Fresh :
          /\ made' = made \cup {n}
          /\ GoOn(t, [term[t] EXCEPT !.pc = IF @ = "load" THEN "create" ELSE "create_setup",
                                     !.node = n])
    /\ UNCHANGED <<disk, server, started, blame>>

\* save_keypair overwrites what another first command has saved meanwhile.
SaveNewKey(t) ==
    /\ term[t].pc \in {"create_setup", "create"}
    /\ keypair' = term[t].node
    /\ GoOn(t, [term[t] EXCEPT !.pc = IF @ = "create" THEN "register" ELSE "load"])
    /\ blame' = IF keypair = None THEN blame ELSE blame \cup {"two_creators"}
    /\ UNCHANGED <<config, local, server, made, started>>

\* identity rotate generates its new key pair in memory.
GenerateReplacement(t) ==
    /\ term[t].pc = "generate"
    /\ \E n \in Fresh :
          /\ made' = made \cup {n}
          /\ GoOn(t, [term[t] EXCEPT !.pc = "register_new", !.node = n])
    /\ UNCHANGED <<disk, server, started, blame>>

\* register_node_with_verifying_key: POST /v1/auth/register.
Register(t) ==
    /\ term[t].pc \in {"register", "register_new"}
    /\ Registered(term[t].node)
    /\ Reply(t, [term[t] EXCEPT !.pc = IF @ = "register" THEN "save" ELSE "replace",
                                !.key = issued'], "cut")
    /\ UNCHANGED <<disk, members, made, started>>

RegisterGone(t) ==
    /\ term[t].pc \in {"register", "register_new"}
    /\ rows[term[t].node].status = "revoked"
    /\ Exit(t)
    /\ UNCHANGED <<disk, server, made, started, blame>>

\* POST /v1/projects or POST /v1/projects/:id/join: the authenticated node becomes a member.
Enter(t) ==
    /\ term[t].pc = "enter"
    /\ \E n \in Nodes, p \in Projects :
          /\ Authenticates(term[t].cfg.key, n)
          /\ members' = members \cup {<<p, n>>}
          /\ Reply(t, [term[t] EXCEPT !.pc = "record", !.entered = {p}], "cut")
    /\ UNCHANGED <<disk, rows, issued, made, started>>

\* insert_project, once the project's directory is made.
Record(t) ==
    /\ term[t].pc = "record"
    /\ local' = local \cup term[t].entered
    /\ Exit(t)
    /\ UNCHANGED <<keypair, config, server, made, started, blame>>

\* POST /v1/auth/revoke, then a copy of the config it loaded is saved without the key.
Revoke(t) ==
    /\ term[t].pc = "revoke"
    /\ \E n \in Nodes : Authenticates(term[t].cfg.key, n) /\ Revoked(n, None)
    /\ Reply(t, [term[t] EXCEPT !.pc = "clear"], "cut")
    /\ UNCHANGED <<disk, members, issued, made, started>>

ClearKey(t) ==
    /\ term[t].pc = "clear"
    /\ config' = [term[t].cfg EXCEPT !.key = 0]
    /\ Exit(t)
    /\ UNCHANGED <<keypair, local, server, made, started, blame>>

\* POST /v1/auth/replace, authenticated by the old API key.
Replace(t) ==
    /\ term[t].pc = "replace"
    /\ \E old \in Nodes :
          /\ Authenticates(term[t].cfg.key, old)
          /\ MayReplace(old, term[t].node, term[t].key)
          /\ Replaced(old, term[t].node)
    /\ Reply(t, [term[t] EXCEPT !.pc = "replaced"], "cut_replace")
    /\ UNCHANGED <<disk, issued, made, started>>

\* A request whose API key authenticates nobody, or a replacement that is refused.
Refused(t) ==
    /\ \/ term[t].pc \in {"enter", "revoke", "replace"} /\ ~Works(term[t].cfg)
       \/ /\ term[t].pc = "replace"
          /\ \A old \in Nodes :
                Authenticates(term[t].cfg.key, old) => ~MayReplace(old, term[t].node, term[t].key)
    /\ Exit(t)
    /\ UNCHANGED <<disk, server, made, started, blame>>

\* Mutant of PersistKey: the config is saved, and the new key pair is not.
PersistNothing(t) ==
    /\ term[t].pc = "replaced"
    /\ GoOn(t, [term[t] EXCEPT !.pc = "save"])
    /\ UNCHANGED <<disk, server, made, started, blame>>

\* replace_keypair
PersistKey(t) ==
    /\ term[t].pc = "replaced"
    /\ keypair' = term[t].node
    /\ GoOn(t, [term[t] EXCEPT !.pc = "save"])
    /\ UNCHANGED <<config, local, server, made, started, blame>>

\* Mutant of SaveConfig: rotate saves the new node id with the old API key.
SaveOldKey(t) ==
    /\ term[t].pc = "save"
    /\ config' = [node |-> term[t].node,
                  key |-> IF term[t].cfg.key # 0 THEN term[t].cfg.key ELSE term[t].key]
    /\ Exit(t)
    /\ UNCHANGED <<keypair, local, server, made, started, blame>>

\* ClientConfig::save
SaveConfig(t) ==
    /\ term[t].pc = "save"
    /\ config' = [node |-> term[t].node, key |-> term[t].key]
    /\ Exit(t)
    /\ UNCHANGED <<keypair, local, server, made, started, blame>>

\* A command is killed, or one of its file operations fails and it exits.
Kill(t) ==
    /\ term[t].pc # "idle"
    /\ Exit(t)
    /\ blame' = blame \cup {"cut"} \cup (IF term[t].pc = "replaced" THEN {"cut_replace"} ELSE {})
    /\ UNCHANGED <<disk, server, made, started>>

Next == \E t \in Terminals :
    \/ Setup(t) \/ CmdRegister(t) \/ CreateOrJoin(t) \/ IdentityRevoke(t) \/ IdentityRotate(t)
    \/ LoadKey(t) \/ GenerateKey(t) \/ SaveNewKey(t) \/ GenerateReplacement(t)
    \/ Register(t) \/ RegisterGone(t) \/ Enter(t) \/ Record(t) \/ Revoke(t) \/ ClearKey(t)
    \/ Replace(t) \/ Refused(t) \/ PersistKey(t) \/ SaveConfig(t) \/ Kill(t)

Spec == Init /\ [][Next]_vars

-----------------------------------------------------------------------------
(* Properties *)

Pcs == {"idle", "load_setup", "load", "create_setup", "create", "generate", "register",
        "register_new", "enter", "record", "revoke", "clear", "replace", "replaced", "save"}
Holding == {"create_setup", "create", "register", "register_new", "replace", "replaced", "save"}
Configs == [node : Nodes \cup {None}, key : Nat]

\* Every variable stays within its range; a key pair that is on disk, held by a command,
\* or registered was generated here; a command past its load holds a node; what the local
\* database lists was entered on the server first.
TypeOK ==
    /\ keypair \in Nodes \cup {None} /\ config \in Configs
    /\ term \in [Terminals -> [pc : Pcs, cfg : Configs, node : Nodes \cup {None}, key : Nat,
                           entered : SUBSET Projects]]
    /\ rows \in [Nodes -> [status : {"absent", "active", "revoked"}, key : Nat,
                           replacement : Nodes \cup {None}]]
    /\ members \subseteq Projects \X Nodes
    /\ issued \in Nat /\ started \in Nat
    /\ made \subseteq Nodes /\ blame \subseteq Causes
    /\ \A t \in Terminals : term[t].pc \in Holding => term[t].node \in made
    /\ \A p \in local : \E n \in Nodes : <<p, n>> \in members
    /\ keypair # None => keypair \in made
    /\ \A n \in Nodes : rows[n].status # "absent" => n \in made

\* The key pair that takes part in the machine's projects is the one on its disk, or in the
\* hands of a rotate that is about to save it; whatever commands overlap, are killed or lose
\* a reply, except a rotate cut right there, or two first commands that overwrite each other.
OwnKeyOnDisk ==
    blame \cap {"cut_replace", "two_creators"} = {} =>
        \A m \in members :
            m[2] = keypair \/ \E t \in Terminals : term[t].pc = "replaced" /\ term[t].node = m[2]

\* What `identity status` and doctor's identity check would say of a config.
Report(cfg) ==
    IF \E n \in Nodes : Authenticates(cfg.key, n) /\ n = cfg.node THEN "active"
    ELSE IF Works(cfg) THEN "drift" ELSE "unauthorized"

\* Commands run one after the other to their end leave a config that works, for the key
\* pair on disk, unless the last one was a revoke.
SavedConfigWorks ==
    blame = {} /\ AllIdle /\ config.key # 0 => Report(config) = "active" /\ config.node = keypair

\* A command in flight that cannot make the config work again once the key on disk is revoked.
NoWayBack(t) ==
    /\ term[t].pc \notin {"create_setup", "create", "replaced"}
    /\ term[t].pc = "register" => rows[term[t].node].status = "revoked"
    /\ term[t].pc \in {"generate", "register_new", "replace"} => ~Works(term[t].cfg)
    /\ term[t].pc = "save" => ~Works(term[t])

Stranded ==
    /\ keypair # None /\ rows[keypair].status = "revoked"
    /\ ~Works(config)
    /\ \A t \in Terminals : NoWayBack(t)

\* Once the key on disk is revoked and nothing in flight can replace it, no command brings
\* the machine back: register answers 410 to the key that setup loads, and rotate needs the
\* old API key.  (identity revoke advises to run one of the two.)
StrandedForGood == [][Stranded => Stranded']_vars
=============================================================================
