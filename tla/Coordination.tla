------------------------------ MODULE Coordination ------------------------------
(***************************************************************************)
(* The coordination server's control plane: node registration, revocation  *)
(* and replacement, projects with their members, and invites.              *)
(*                                                                         *)
(* A handler slot serves one request at a time.  The middleware            *)
(* authenticates it and drops its connection; the handler then opens       *)
(* another, so what the middleware read may be old when the handler        *)
(* writes.  revoke, replace and join run in one deferred transaction:      *)
(* their writes need a snapshot that is still `fresh` (no commit since     *)
(* their first read).  The other handlers write statement by statement.    *)
(*                                                                         *)
(* A project stands for its unique slug, and an API key for the node that  *)
(* holds it: re-issuing a key (register again, refresh) changes nothing    *)
(* else, and a caller that lost its key is one that sends nothing.         *)
(***************************************************************************)
EXTENDS Naturals, FiniteSets

CONSTANTS
    Nodes, Projects, Invites,
    Slots,     \* requests the server handles at a time
    MaxUses,   \* what an invite's max_uses may be; a negative one refuses every join, as 0 does
    Unlimited  \* an invite without max_uses

None == "none"

ASSUME NoneAssumption == None \notin Nodes \cup Projects \cup Invites
ASSUME MaxUsesAssumption == Unlimited \notin Nat /\ MaxUses \subseteq Nat \cup {Unlimited}

\* Mutant of JoinRoles: a join takes whatever role it names.
JoinRolesUnchecked == {"member", "guest", "admin"}

\* is_valid_join_role
JoinRoles == {"member", "guest"}

Roles == {"owner", "member", "guest"}

\* role_has_capability(role, ManageInvites)
MayInvite == {"owner"}

VARIABLES
    status,       \* registered_nodes: absent, active, or revoked (revoked_at set)
    replacement,  \* registered_nodes.replacement_node_id
    creator,      \* server_projects.created_by
    role,         \* server_members
    invite,       \* server_invites
    op,           \* what each slot is handling
    orphans       \* history: projects whose create stopped between its two INSERTs

vars == <<status, replacement, creator, role, invite, op, orphans>>
identity == <<status, replacement>>
projects == <<creator, role, orphans>>

NoInvite == [project |-> None, max |-> 0, uses |-> 0]
InviteRows == [project : Projects, max : Nat \cup {Unlimited}, uses : Nat]

Idle == [kind |-> "idle", step |-> "idle", node |-> None, other |-> None,
         project |-> None, invite |-> None, role |-> None, max |-> 0, fresh |-> FALSE]

OpStates ==
    [kind : {"idle", "revoke", "replace", "create", "invite", "join"},
     step : {"idle", "authed", "read", "half"},
     node : Nodes \cup {None}, other : Nodes \cup {None},
     project : Projects \cup {None}, invite : Invites \cup {None},
     role : JoinRoles \cup {None}, max : Nat \cup {Unlimited}, fresh : BOOLEAN]

Init ==
    /\ status = [n \in Nodes |-> "absent"]
    /\ replacement = [n \in Nodes |-> None]
    /\ creator = [p \in Projects |-> None]
    /\ role = [p \in Projects |-> [n \in Nodes |-> None]]
    /\ invite = [i \in Invites |-> NoInvite]
    /\ op = [s \in Slots |-> Idle]
    /\ orphans = {}

Active(n) == n \in Nodes /\ status[n] = "active"
IsAt(s, kind, step) == op[s].kind = kind /\ op[s].step = step
MemberOf(n) == {p \in Projects : role[p][n] # None}

-----------------------------------------------------------------------------
(* Requests *)

RevokeCalls(n) ==
    {[Idle EXCEPT !.kind = "revoke", !.other = m] : m \in (Nodes \ {n}) \cup {None}}
ReplaceCalls(n) == {[Idle EXCEPT !.kind = "replace", !.other = m] : m \in Nodes \ {n}}
CreateCalls == {[Idle EXCEPT !.kind = "create", !.project = p] : p \in Projects}
InviteCalls ==
    UNION {{[Idle EXCEPT !.kind = "invite", !.project = p, !.max = max] :
              p \in Projects} : max \in MaxUses}
JoinCalls ==
    UNION {{[Idle EXCEPT !.kind = "join", !.invite = i, !.role = r] :
              i \in Invites} : r \in JoinRoles}

\* What node n may ask once it is authenticated.
Calls(n) == RevokeCalls(n) \cup ReplaceCalls(n) \cup CreateCalls \cup InviteCalls \cup JoinCalls

\* auth_middleware: the key belongs to a node that is not revoked.
Authenticate(s) ==
    /\ op[s] = Idle
    /\ \E n \in Nodes : \E call \in Calls(n) :
        /\ Active(n)
        /\ op' = [op EXCEPT ![s] = [call EXCEPT !.node = n, !.step = "authed"]]
    /\ UNCHANGED <<identity, projects, invite>>

\* The handler answers without having written.
Refuse(s) ==
    /\ op' = [op EXCEPT ![s] = Idle]
    /\ UNCHANGED <<identity, projects, invite>>

\* A transaction has read what it checks and found it in order.
Proceed(s) ==
    /\ op' = [op EXCEPT ![s].step = "read", ![s].fresh = TRUE]
    /\ UNCHANGED <<identity, projects, invite>>

\* SQLite: slot s commits and goes on as `next`; every other snapshot is old now.
Commit(s, next) ==
    op' = [t \in Slots |-> IF t = s THEN next ELSE [op[t] EXCEPT !.fresh = FALSE]]

\* A database error, a lost race for the write lock, or a crash of the server.
Fail(s) ==
    /\ op[s] # Idle
    /\ op' = [op EXCEPT ![s] = Idle]
    /\ orphans' = IF op[s].step = "half" THEN orphans \cup {op[s].project} ELSE orphans
    /\ UNCHANGED <<identity, creator, role, invite>>

-----------------------------------------------------------------------------
(* register, revoke, replace *)

\* register: a known node gets a new key, a revoked one 410, an unknown one its row.
Register(n) ==
    /\ status[n] = "absent"
    /\ status' = [status EXCEPT ![n] = "active"]
    /\ op' = [t \in Slots |-> [op[t] EXCEPT !.fresh = FALSE]]
    /\ UNCHANGED <<replacement, projects, invite>>

\* Mutant of RevokeRead: the replacement may be any node.
RevokeReadAny(s) ==
    /\ IsAt(s, "revoke", "authed")
    /\ Proceed(s)

\* The replacement a revocation names must be active.
RevokeRead(s) ==
    /\ IsAt(s, "revoke", "authed")
    /\ IF op[s].other = None \/ Active(op[s].other) THEN Proceed(s) ELSE Refuse(s)

\* Without a replacement the UPDATE is the transaction's first statement.
RevokeCommit(s) ==
    /\ IsAt(s, "revoke", "read")
    /\ op[s].fresh \/ op[s].other = None
    /\ status' = [status EXCEPT ![op[s].node] = "revoked"]
    /\ replacement' = [replacement EXCEPT ![op[s].node] = op[s].other]
    /\ Commit(s, Idle)
    /\ UNCHANGED <<projects, invite>>

\* Mutant of ReplaceRead: the new node may already be in projects.
ReplaceReadMember(s) ==
    /\ IsAt(s, "replace", "authed")
    /\ IF Active(op[s].other) THEN Proceed(s) ELSE Refuse(s)

\* Mutant of ReplaceRead: a revoked node may be the replacement.
ReplaceReadRevoked(s) ==
    /\ IsAt(s, "replace", "authed")
    /\ IF MemberOf(op[s].other) = {} /\ \A p \in Projects : creator[p] # op[s].other
       THEN Proceed(s)
       ELSE Refuse(s)

\* The new node must be active, in no project, and the creator of none.
ReplaceRead(s) ==
    /\ IsAt(s, "replace", "authed")
    /\ IF /\ Active(op[s].other)
          /\ MemberOf(op[s].other) = {}
          /\ \A p \in Projects : creator[p] # op[s].other
       THEN Proceed(s)
       ELSE Refuse(s)

\* Mutant of Migrated: the old node's memberships are copied, not moved.
MigratedByCopy(old, new) ==
    [p \in Projects |-> IF role[p][old] = None THEN role[p]
                        ELSE [role[p] EXCEPT ![new] = role[p][old]]]

\* The memberships of `old` become those of `new`, role by role.
Migrated(old, new) ==
    [p \in Projects |-> IF role[p][old] = None THEN role[p]
                        ELSE [role[p] EXCEPT ![new] = role[p][old], ![old] = None]]

ReplaceCommit(s) ==
    LET old == op[s].node
        new == op[s].other
    IN  /\ IsAt(s, "replace", "read") /\ op[s].fresh
        /\ role' = Migrated(old, new)
        /\ creator' = [p \in Projects |-> IF creator[p] = old THEN new ELSE creator[p]]
        /\ status' = [status EXCEPT ![old] = "revoked"]
        /\ replacement' = [replacement EXCEPT ![old] = new]
        /\ Commit(s, Idle)
        /\ UNCHANGED <<orphans, invite>>

-----------------------------------------------------------------------------
(* create_project: two INSERTs, each committed on its own *)

CreateProject(s) ==
    /\ IsAt(s, "create", "authed")
    /\ IF creator[op[s].project] = None
       THEN /\ creator' = [creator EXCEPT ![op[s].project] = op[s].node]
            /\ Commit(s, [op[s] EXCEPT !.step = "half"])
            /\ UNCHANGED <<identity, role, orphans, invite>>
       ELSE Refuse(s)

CreateOwner(s) ==
    /\ IsAt(s, "create", "half")
    /\ role[op[s].project][op[s].node] = None
    /\ role' = [role EXCEPT ![op[s].project] = [@ EXCEPT ![op[s].node] = "owner"]]
    /\ Commit(s, Idle)
    /\ UNCHANGED <<identity, creator, orphans, invite>>

-----------------------------------------------------------------------------
(* create_invite_handler: a role check, then an INSERT in another transaction *)

InviteRead(s) ==
    /\ IsAt(s, "invite", "authed")
    /\ IF role[op[s].project][op[s].node] \in MayInvite THEN Proceed(s) ELSE Refuse(s)

InviteInsert(s) ==
    /\ IsAt(s, "invite", "read")
    /\ \E i \in Invites :
        /\ invite[i] = NoInvite
        /\ invite' = [invite EXCEPT
             ![i] = [project |-> op[s].project, max |-> op[s].max, uses |-> 0]]
    /\ Commit(s, Idle)
    /\ UNCHANGED <<identity, projects>>

-----------------------------------------------------------------------------
(* join_project_handler *)

UsesLeft(i) == invite[i].max = Unlimited \/ invite[i].uses < invite[i].max

\* An unknown token, a member already, or an invite used up: nothing is written.
JoinRead(s) ==
    LET i == op[s].invite
    IN  /\ IsAt(s, "join", "authed")
        /\ IF /\ invite[i] # NoInvite
              /\ role[invite[i].project][op[s].node] = None
              /\ UsesLeft(i)
           THEN Proceed(s)
           ELSE Refuse(s)

Seat(s) ==
    LET i == op[s].invite
        p == invite[i].project
    IN  /\ role' = [role EXCEPT ![p] = [@ EXCEPT ![op[s].node] = op[s].role]]
        /\ invite' = [invite EXCEPT ![i].uses = @ + 1]
        /\ Commit(s, Idle)
        /\ UNCHANGED <<identity, creator, orphans>>

\* Mutant of JoinCommit: the use count is checked in a transaction of its own.
JoinAfterCheck(s) ==
    /\ IsAt(s, "join", "read")
    /\ Seat(s)

JoinCommit(s) ==
    /\ IsAt(s, "join", "read") /\ op[s].fresh
    /\ Seat(s)

-----------------------------------------------------------------------------
SlotStep(s) ==
    \/ Authenticate(s) \/ Fail(s)
    \/ RevokeRead(s) \/ RevokeCommit(s)
    \/ ReplaceRead(s) \/ ReplaceCommit(s)
    \/ CreateProject(s) \/ CreateOwner(s)
    \/ InviteRead(s) \/ InviteInsert(s)
    \/ JoinRead(s) \/ JoinCommit(s)

Next == (\E n \in Nodes : Register(n)) \/ (\E s \in Slots : SlotStep(s))

Spec == Init /\ [][Next]_vars

-----------------------------------------------------------------------------
TypeOK ==
    /\ status \in [Nodes -> {"absent", "active", "revoked"}]
    /\ replacement \in [Nodes -> Nodes \cup {None}]
    /\ creator \in [Projects -> Nodes \cup {None}]
    /\ role \in [Projects -> [Nodes -> Roles \cup {None}]]
    /\ invite \in [Invites -> InviteRows \cup {NoInvite}]
    /\ op \in [Slots -> OpStates]
    /\ orphans \subseteq Projects

\* Nodes that join with one invite at the same time do not together use it more often
\* than its max_uses (join_project_handler).
InviteBound ==
    \A i \in Invites : invite[i].max # Unlimited => invite[i].uses <= invite[i].max

Seats(p) == {n \in Nodes : role[p][n] \in JoinRoles}

\* The uses of the invites to p, one by one.
Uses(p) == UNION {{i} \X (1..invite[i].uses) : i \in {i \in Invites : invite[i].project = p}}

\* Every member of a project but its owner holds a seat that one use of an invite paid
\* for, and every use paid for one seat, through any number of replacements.
EverySeatPaid == \A p \in Projects : Cardinality(Seats(p)) = Cardinality(Uses(p))

Owners(p) == {n \in Nodes : role[p][n] = "owner"}
Creating(p) == \E s \in Slots : IsAt(s, "create", "half") /\ op[s].project = p

\* A project has one owner from the end of its creation on, however its memberships
\* migrate, unless that creation stopped half way: then it has none.
OneOwner ==
    \A p \in Projects :
        IF creator[p] = None \/ Creating(p) \/ p \in orphans
        THEN Owners(p) = {}
        ELSE \E n \in Nodes : Owners(p) = {n}

\* Following replacement_node_id from a revoked node never comes back to it: among any
\* nodes, one has a replacement outside them.  Concurrent revocations and replacements
\* that name each other must not both succeed.
NoReplacementCycle ==
    \A set \in (SUBSET Nodes) \ {{}} : \E n \in set : replacement[n] \notin set

\* A node that is revoked takes part in nothing any more: once the requests that were
\* authenticated before its revocation are over, its rows never change again.
RevokedIsInert ==
    [][\A n \in Nodes :
         status[n] = "revoked" /\ (\A s \in Slots : op[s].node # n) =>
             /\ status'[n] = "revoked" /\ replacement'[n] = replacement[n]
             /\ \A p \in Projects : /\ role'[p][n] = role[p][n]
                                    /\ creator'[p] = n <=> creator[p] = n
      ]_vars
=============================================================================
