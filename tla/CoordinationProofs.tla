--------------------------- MODULE CoordinationProofs ---------------------------
(***************************************************************************)
(* Theorems about Coordination, for any nodes, projects, invites, slots    *)
(* and max_uses.                                                           *)
(***************************************************************************)
EXTENDS Coordination, FiniteSetTheorems, TLAPS

-----------------------------------------------------------------------------
(* Slots *)

LEMMA IdleTyped == Idle \in OpStates /\ Idle.fresh = FALSE
  BY DEF Idle, OpStates

\* A request names what its handler needs, only a creation can be half done, and no
\* transaction is open before the handler's first read.
WellFormed(o) ==
    /\ o.kind # "idle" => o.node \in Nodes
    /\ o.kind = "replace" => o.other \in Nodes \ {o.node}
    /\ o.kind = "revoke" => o.other \in (Nodes \ {o.node}) \cup {None}
    /\ o.kind \in {"create", "invite"} => o.project \in Projects
    /\ o.kind = "invite" => o.max \in MaxUses
    /\ o.kind = "join" => o.invite \in Invites /\ o.role \in JoinRoles
    /\ o.step = "half" => o.kind = "create"
    /\ o.step = "authed" => o.fresh = FALSE

WellFormedInv == \A s \in Slots : WellFormed(op[s])

LEMMA IdleWellFormed == WellFormed(Idle)
  BY DEF WellFormed, Idle

\* The progress of a request does not change what it carries.
LEMMA ProgressWellFormed ==
    ASSUME NEW o \in OpStates, WellFormed(o)
    PROVE  /\ WellFormed([o EXCEPT !.fresh = FALSE])
           /\ WellFormed([o EXCEPT !.step = "read", !.fresh = TRUE])
           /\ o.kind = "create" => WellFormed([o EXCEPT !.step = "half"])
  BY DEF WellFormed, OpStates

\* What n may ask, before the middleware has written n into it.
Askable(o, n) ==
    /\ o \in OpStates
    /\ o.kind = "replace" => o.other \in Nodes \ {n}
    /\ o.kind = "revoke" => o.other \in (Nodes \ {n}) \cup {None}
    /\ o.kind \in {"create", "invite"} => o.project \in Projects
    /\ o.kind = "invite" => o.max \in MaxUses
    /\ o.kind = "join" => o.invite \in Invites /\ o.role \in JoinRoles
    /\ o.kind # "idle" /\ o.fresh = FALSE

LEMMA CallTyped ==
    ASSUME NEW n \in Nodes, NEW call \in Calls(n)
    PROVE  /\ [call EXCEPT !.node = n, !.step = "authed"] \in OpStates
           /\ WellFormed([call EXCEPT !.node = n, !.step = "authed"])
           /\ [call EXCEPT !.node = n, !.step = "authed"].step = "authed"
<1>1. \A m \in (Nodes \ {n}) \cup {None} : Askable([Idle EXCEPT !.kind = "revoke", !.other = m], n)
  BY IdleTyped DEF OpStates, Askable
<1>2. \A m \in Nodes \ {n} : Askable([Idle EXCEPT !.kind = "replace", !.other = m], n)
  BY IdleTyped DEF OpStates, Askable
<1>3. \A p \in Projects : Askable([Idle EXCEPT !.kind = "create", !.project = p], n)
  BY IdleTyped DEF OpStates, Askable
<1>4. \A p \in Projects, max \in MaxUses :
        Askable([Idle EXCEPT !.kind = "invite", !.project = p, !.max = max], n)
  BY IdleTyped, MaxUsesAssumption DEF OpStates, Askable
<1>5. \A i \in Invites, r \in JoinRoles :
        Askable([Idle EXCEPT !.kind = "join", !.invite = i, !.role = r], n)
  BY IdleTyped DEF OpStates, Askable
<1>6. Askable(call, n)
  <2>1. CASE call \in RevokeCalls(n)
    BY <2>1, <1>1 DEF RevokeCalls
  <2>2. CASE call \in ReplaceCalls(n)
    BY <2>2, <1>2 DEF ReplaceCalls
  <2>3. CASE call \in CreateCalls
    BY <2>3, <1>3 DEF CreateCalls
  <2>4. CASE call \in InviteCalls
    <3>1. PICK max \in MaxUses : call \in
            {[Idle EXCEPT !.kind = "invite", !.project = p, !.max = max] : p \in Projects}
      BY <2>4 DEF InviteCalls
    <3>2. QED
      BY <3>1, <1>4
  <2>5. CASE call \in JoinCalls
    <3>1. PICK r \in JoinRoles : call \in
            {[Idle EXCEPT !.kind = "join", !.invite = i, !.role = r] : i \in Invites}
      BY <2>5 DEF JoinCalls
    <3>2. QED
      BY <3>1, <1>5
  <2>6. QED
    BY <2>1, <2>2, <2>3, <2>4, <2>5 DEF Calls
<1>7. QED
  BY <1>6 DEF OpStates, Askable, WellFormed

\* What a commit of another does to a request.
LEMMA StaleOps ==
    ASSUME TypeOK, WellFormedInv
    PROVE  \A t \in Slots : /\ [op[t] EXCEPT !.fresh = FALSE] \in OpStates
                            /\ WellFormed([op[t] EXCEPT !.fresh = FALSE])
                            /\ [op[t] EXCEPT !.fresh = FALSE].fresh = FALSE
                            /\ [op[t] EXCEPT !.fresh = FALSE].kind = op[t].kind
                            /\ [op[t] EXCEPT !.fresh = FALSE].step = op[t].step
                            /\ [op[t] EXCEPT !.fresh = FALSE].project = op[t].project
<1> TAKE t \in Slots
<1>1. op[t] \in OpStates /\ WellFormed(op[t])
  BY DEF TypeOK, WellFormedInv
<1>2. PICK o : o = [op[t] EXCEPT !.fresh = FALSE]
  OBVIOUS
<1>3. /\ o \in OpStates /\ o.fresh = FALSE /\ o.kind = op[t].kind /\ o.node = op[t].node
      /\ o.other = op[t].other /\ o.project = op[t].project /\ o.invite = op[t].invite
      /\ o.role = op[t].role /\ o.max = op[t].max /\ o.step = op[t].step
  BY <1>1, <1>2 DEF OpStates
<1>4. WellFormed(o)
  BY <1>1, <1>3 DEF WellFormed
<1>5. QED
  BY <1>2, <1>3, <1>4

\* A commit keeps every slot's type and request, and leaves none fresh.
LEMMA CommitOps ==
    ASSUME TypeOK, WellFormedInv,
           NEW s \in Slots, NEW next \in OpStates, next.fresh = FALSE, WellFormed(next),
           Commit(s, next)
    PROVE  /\ op' \in [Slots -> OpStates] /\ WellFormedInv'
           /\ op'[s] = next
           /\ \A t \in Slots : op'[t].fresh = FALSE
           /\ \A t \in Slots \ {s} :
                op'[t].kind = op[t].kind /\ op'[t].step = op[t].step
                  /\ op'[t].project = op[t].project
<1> QED
  BY StaleOps DEF Commit, WellFormedInv

\* The same for the commit of a registration, which no slot serves.
LEMMA RegisterOps ==
    ASSUME TypeOK, WellFormedInv, NEW n \in Nodes, Register(n)
    PROVE  /\ op' \in [Slots -> OpStates] /\ WellFormedInv'
           /\ \A t \in Slots : op'[t].fresh = FALSE
           /\ \A t \in Slots : op'[t].kind = op[t].kind /\ op'[t].step = op[t].step
                                /\ op'[t].project = op[t].project
<1> QED
  BY StaleOps DEF Register, WellFormedInv

LEMMA AuthenticateOps ==
    ASSUME TypeOK, WellFormedInv, NEW s \in Slots, Authenticate(s)
    PROVE  /\ op' \in [Slots -> OpStates] /\ WellFormedInv'
           /\ op'[s].step = "authed"
           /\ \A t \in Slots \ {s} : op'[t] = op[t]
<1>1. PICK n \in Nodes : \E call \in Calls(n) :
        op' = [op EXCEPT ![s] = [call EXCEPT !.node = n, !.step = "authed"]]
  BY DEF Authenticate
<1>2. PICK call \in Calls(n) :
        op' = [op EXCEPT ![s] = [call EXCEPT !.node = n, !.step = "authed"]]
  BY <1>1
<1>3. QED
  BY <1>2, CallTyped DEF TypeOK, WellFormedInv

\* A transaction that goes on is fresh; no data changes.
LEMMA ProceedOps ==
    ASSUME TypeOK, WellFormedInv, NEW s \in Slots, Proceed(s)
    PROVE  /\ op' \in [Slots -> OpStates] /\ WellFormedInv'
           /\ op'[s] = [op[s] EXCEPT !.step = "read", !.fresh = TRUE]
           /\ \A t \in Slots \ {s} : op'[t] = op[t]
           /\ UNCHANGED <<identity, projects, invite>>
<1>1. [op[s] EXCEPT !.step = "read", !.fresh = TRUE] \in OpStates
  <2>1. op[s] \in OpStates
    BY DEF TypeOK
  <2>2. QED
    BY <2>1 DEF OpStates
<1>2. op' = [op EXCEPT ![s] = [op[s] EXCEPT !.step = "read", !.fresh = TRUE]]
  BY DEF Proceed, TypeOK
<1>3. WellFormed([op[s] EXCEPT !.step = "read", !.fresh = TRUE])
  BY ProgressWellFormed DEF TypeOK, WellFormedInv
<1>4. QED
  BY <1>1, <1>2, <1>3 DEF Proceed, TypeOK, WellFormedInv

LEMMA EndOps ==
    ASSUME TypeOK, WellFormedInv, NEW s \in Slots, op' = [op EXCEPT ![s] = Idle]
    PROVE  /\ op' \in [Slots -> OpStates] /\ WellFormedInv'
           /\ op'[s] = Idle
           /\ \A t \in Slots \ {s} : op'[t] = op[t]
  BY IdleTyped, IdleWellFormed DEF TypeOK, WellFormedInv

LEMMA ReadOutcome ==
    ASSUME NEW s \in Slots,
           RevokeRead(s) \/ ReplaceRead(s) \/ InviteRead(s) \/ JoinRead(s)
    PROVE  Proceed(s) \/ Refuse(s)
  BY DEF RevokeRead, ReplaceRead, InviteRead, JoinRead

-----------------------------------------------------------------------------
(* Type correctness *)

LEMMA MigratedTyped ==
    ASSUME TypeOK, NEW old \in Nodes, NEW new \in Nodes
    PROVE  Migrated(old, new) \in [Projects -> [Nodes -> Roles \cup {None}]]
  BY DEF TypeOK, Migrated

LEMMA InviteUse ==
    ASSUME TypeOK, NEW i \in Invites, invite[i] # NoInvite
    PROVE  /\ invite[i] \in InviteRows
           /\ [invite[i] EXCEPT !.uses = @ + 1] \in InviteRows
           /\ [invite[i] EXCEPT !.uses = @ + 1].uses = invite[i].uses + 1
           /\ [invite[i] EXCEPT !.uses = @ + 1].max = invite[i].max
           /\ [invite[i] EXCEPT !.uses = @ + 1].project = invite[i].project
  BY DEF TypeOK, InviteRows

-----------------------------------------------------------------------------
(* The invariant *)

\* What a join checked still holds while its snapshot is fresh.
JoinFresh ==
    \A s \in Slots : IsAt(s, "join", "read") /\ op[s].fresh =>
        LET i == op[s].invite
        IN  /\ invite[i] # NoInvite /\ UsesLeft(i)
            /\ role[invite[i].project][op[s].node] = None

\* So does what a replacement checked.
ReplaceFresh ==
    \A s \in Slots : IsAt(s, "replace", "read") /\ op[s].fresh => MemberOf(op[s].other) = {}

\* A project that is being created has its row, and one slot creates it.
CreationInv ==
    /\ \A s \in Slots : IsAt(s, "create", "half") =>
         creator[op[s].project] # None /\ op[s].project \notin orphans
    /\ \A s, t \in Slots :
         /\ IsAt(s, "create", "half") /\ IsAt(t, "create", "half")
         /\ op[s].project = op[t].project
         => s = t
    /\ \A p \in orphans : creator[p] # None

IInv == /\ TypeOK /\ WellFormedInv
        /\ JoinFresh /\ ReplaceFresh /\ CreationInv
        /\ InviteBound /\ OneOwner

LEMMA InitIInv == Init => IInv
<1> SUFFICES ASSUME Init PROVE IInv
  OBVIOUS
<1>1. \A s \in Slots : op[s] = Idle
  BY DEF Init
<1>2. TypeOK /\ WellFormedInv
  BY <1>1, IdleTyped, IdleWellFormed DEF Init, TypeOK, WellFormedInv, NoInvite
<1>3. JoinFresh /\ ReplaceFresh /\ CreationInv
  BY <1>1 DEF Init, JoinFresh, ReplaceFresh, CreationInv, IsAt, Idle
<1>4. InviteBound
  BY DEF Init, InviteBound, NoInvite
<1>5. OneOwner
  BY DEF Init, OneOwner, Owners, None
<1>6. QED
  BY <1>2, <1>3, <1>4, <1>5 DEF IInv

\* Projects unchanged, so are their owners.
LEMMA OwnersKept ==
    ASSUME UNCHANGED projects
    PROVE  UNCHANGED <<creator, orphans>> /\ \A p \in Projects : Owners(p)' = Owners(p)
  BY DEF projects, Owners

\* A step that leaves owners and the creations under way alone keeps one owner each.
LEMMA CreationsKept ==
    ASSUME CreationInv, OneOwner, UNCHANGED <<creator, orphans>>,
           \A p \in Projects : Owners(p)' = Owners(p),
           \A t \in Slots :
              /\ (op'[t].kind = "create" /\ op'[t].step = "half") <=> IsAt(t, "create", "half")
              /\ IsAt(t, "create", "half") => op'[t].project = op[t].project
    PROVE  CreationInv' /\ OneOwner'
<1>1. CreationInv'
  BY DEF CreationInv, IsAt
<1>3. \A p \in Projects : Creating(p)' <=> Creating(p)
  BY DEF Creating, IsAt
<1>4. OneOwner'
  BY <1>3 DEF OneOwner
<1>5. QED
  BY <1>1, <1>4

\* A step that starts or ends slot s, and writes nothing.
LEMMA QuietStep ==
    ASSUME IInv, NEW s \in Slots,
           op' \in [Slots -> OpStates], WellFormedInv',
           \A t \in Slots \ {s} : op'[t] = op[t],
           op[s].step # "half", op'[s].step \in {"idle", "authed"},
           UNCHANGED <<identity, projects, invite>>
    PROVE  IInv'
<1>1. TypeOK'
  BY DEF IInv, TypeOK, identity, projects
<1>2. JoinFresh' /\ ReplaceFresh'
  BY DEF IInv, JoinFresh, ReplaceFresh, IsAt, UsesLeft, MemberOf, projects
<1>3. CreationInv' /\ OneOwner'
  BY CreationsKept, OwnersKept DEF IInv, IsAt
<1>4. InviteBound'
  BY DEF IInv, InviteBound
<1>5. QED
  BY <1>1, <1>2, <1>3, <1>4 DEF IInv

LEMMA RegisterStep == IInv /\ (\E n \in Nodes : Register(n)) => IInv'
<1> SUFFICES ASSUME IInv, NEW n \in Nodes, Register(n) PROVE IInv'
  OBVIOUS
<1>1. /\ op' \in [Slots -> OpStates] /\ WellFormedInv'
      /\ \A t \in Slots : op'[t].fresh = FALSE
      /\ \A t \in Slots : op'[t].kind = op[t].kind /\ op'[t].step = op[t].step
                           /\ op'[t].project = op[t].project
  BY RegisterOps DEF IInv
<1>2. TypeOK'
  BY <1>1 DEF IInv, TypeOK, Register, projects
<1>3. JoinFresh' /\ ReplaceFresh'
  BY <1>1 DEF JoinFresh, ReplaceFresh
<1>4. CreationInv' /\ OneOwner'
  BY <1>1, CreationsKept, OwnersKept DEF IInv, IsAt, Register
<1>5. InviteBound'
  BY DEF IInv, InviteBound, Register
<1>6. QED
  BY <1>1, <1>2, <1>3, <1>4, <1>5 DEF IInv

LEMMA AuthenticateStep ==
    ASSUME IInv, NEW s \in Slots, Authenticate(s)
    PROVE  IInv'
<1>1. op[s].step # "half"
  BY DEF Authenticate, Idle
<1>2. QED
  BY <1>1, AuthenticateOps, QuietStep DEF IInv, Authenticate

LEMMA RefuseStep ==
    ASSUME IInv, NEW s \in Slots, op[s].step # "half", Refuse(s)
    PROVE  IInv'
<1>1. op'[s].step = "idle"
  BY EndOps DEF IInv, Refuse, Idle
<1>2. QED
  BY <1>1, EndOps, QuietStep DEF IInv, Refuse

LEMMA FailStep ==
    ASSUME IInv, NEW s \in Slots, Fail(s)
    PROVE  IInv'
<1>1. CASE op[s].step # "half"
  <2>1. UNCHANGED <<identity, projects, invite>>
    BY <1>1 DEF Fail, projects
  <2>2. QED
    BY <1>1, <2>1, EndOps, QuietStep DEF IInv, Fail, Idle
<1>2. CASE op[s].step = "half"
  <2> DEFINE p == op[s].project
  <2>1. IsAt(s, "create", "half") /\ p \in Projects
    BY <1>2 DEF IInv, WellFormedInv, WellFormed, IsAt
  <2>2. /\ op' \in [Slots -> OpStates] /\ WellFormedInv' /\ op'[s] = Idle
        /\ \A t \in Slots \ {s} : op'[t] = op[t]
    BY EndOps DEF IInv, Fail
  <2>3. /\ orphans' = orphans \cup {p}
        /\ UNCHANGED <<identity, creator, role, invite>>
    BY <1>2 DEF Fail
  <2>4. TypeOK'
    BY <2>1, <2>2, <2>3 DEF IInv, TypeOK, identity
  <2>5. JoinFresh' /\ ReplaceFresh'
    BY <2>2, <2>3 DEF IInv, JoinFresh, ReplaceFresh, IsAt, UsesLeft, MemberOf, Idle
  <2>6. CreationInv'
    BY <2>1, <2>2, <2>3 DEF IInv, CreationInv, IsAt, Idle
  <2>7. OneOwner'
    <3>1. \A q \in Projects : Owners(q)' = Owners(q)
      BY <2>3 DEF Owners
    <3>2. \A q \in Projects \ {p} : Creating(q)' <=> Creating(q)
      BY <2>2 DEF Creating, IsAt, Idle
    <3>3. Owners(p) = {}
      BY <2>1 DEF IInv, OneOwner, Creating
    <3>4. QED
      BY <2>1, <2>3, <3>1, <3>2, <3>3 DEF IInv, OneOwner
  <2>8. InviteBound'
    BY <2>3 DEF IInv, InviteBound
  <2>9. QED
    BY <2>2, <2>4, <2>5, <2>6, <2>7, <2>8 DEF IInv
<1>3. QED
  BY <1>1, <1>2

\* A transaction that has checked what it needs goes on; nothing is written.
LEMMA ProceedStep ==
    ASSUME IInv, NEW s \in Slots, Proceed(s), op[s].step = "authed",
           op[s].kind = "join" =>
               LET i == op[s].invite
               IN  /\ invite[i] # NoInvite /\ UsesLeft(i)
                   /\ role[invite[i].project][op[s].node] = None,
           op[s].kind = "replace" => MemberOf(op[s].other) = {}
    PROVE  IInv'
<1>1. /\ op' \in [Slots -> OpStates] /\ WellFormedInv'
      /\ op'[s] = [op[s] EXCEPT !.step = "read", !.fresh = TRUE]
      /\ \A t \in Slots \ {s} : op'[t] = op[t]
      /\ UNCHANGED <<identity, projects, invite>>
  BY ProceedOps DEF IInv
<1>2. /\ op'[s].kind = op[s].kind /\ op'[s].step = "read" /\ op'[s].node = op[s].node
      /\ op'[s].other = op[s].other /\ op'[s].invite = op[s].invite
  BY <1>1 DEF IInv, TypeOK, OpStates
<1>3. TypeOK'
  BY <1>1 DEF IInv, TypeOK, identity, projects
<1>4. JoinFresh'
  <2> SUFFICES ASSUME NEW t \in Slots,
                      op'[t].kind = "join", op'[t].step = "read", op'[t].fresh
               PROVE  LET i == op'[t].invite
                      IN  /\ invite[i] # NoInvite /\ UsesLeft(i)
                          /\ role[invite[i].project][op'[t].node] = None
    BY <1>1 DEF JoinFresh, IsAt, UsesLeft, projects
  <2>1. CASE t = s
    BY <1>2, <2>1
  <2>2. CASE t # s
    BY <1>1, <2>2 DEF IInv, JoinFresh, IsAt
  <2>3. QED
    BY <2>1, <2>2
<1>5. ReplaceFresh'
  <2> SUFFICES ASSUME NEW t \in Slots,
                      op'[t].kind = "replace", op'[t].step = "read", op'[t].fresh
               PROVE  MemberOf(op'[t].other) = {}
    BY <1>1 DEF ReplaceFresh, IsAt, MemberOf, projects
  <2>1. CASE t = s
    BY <1>2, <2>1
  <2>2. CASE t # s
    BY <1>1, <2>2 DEF IInv, ReplaceFresh, IsAt
  <2>3. QED
    BY <2>1, <2>2
<1>6. CreationInv' /\ OneOwner'
  <2>1. \A t \in Slots :
          /\ (op'[t].kind = "create" /\ op'[t].step = "half") <=> IsAt(t, "create", "half")
          /\ IsAt(t, "create", "half") => op'[t].project = op[t].project
    BY <1>1, <1>2 DEF IsAt
  <2>2. QED
    BY <1>1, <2>1, CreationsKept, OwnersKept DEF IInv
<1>7. InviteBound'
  BY <1>1 DEF IInv, InviteBound
<1>8. QED
  BY <1>1, <1>3, <1>4, <1>5, <1>6, <1>7 DEF IInv

LEMMA ReadSteps ==
    ASSUME IInv, NEW s \in Slots,
           RevokeRead(s) \/ ReplaceRead(s) \/ InviteRead(s) \/ JoinRead(s)
    PROVE  IInv'
<1>1. op[s].step = "authed"
  BY DEF RevokeRead, ReplaceRead, InviteRead, JoinRead, IsAt
<1>2. CASE Refuse(s)
  BY <1>1, <1>2, RefuseStep
<1>3. CASE Proceed(s) /\ ~Refuse(s)
  <2>1. op[s].kind = "join" =>
          LET i == op[s].invite
          IN  /\ invite[i] # NoInvite /\ UsesLeft(i)
              /\ role[invite[i].project][op[s].node] = None
    BY <1>3 DEF RevokeRead, ReplaceRead, InviteRead, JoinRead, IsAt
  <2>2. op[s].kind = "replace" => MemberOf(op[s].other) = {}
    BY <1>3 DEF RevokeRead, ReplaceRead, InviteRead, JoinRead, IsAt
  <2>3. QED
    BY <1>1, <1>3, <2>1, <2>2, ProceedStep
<1>4. QED
  BY <1>2, <1>3, ReadOutcome

\* What any commit of a slot does to the slots.
LEMMA CommitSlots ==
    ASSUME IInv, NEW s \in Slots, NEW next \in OpStates, next.fresh = FALSE,
           WellFormed(next), Commit(s, next)
    PROVE  /\ op' \in [Slots -> OpStates] /\ WellFormedInv'
           /\ op'[s] = next
           /\ \A t \in Slots \ {s} :
                op'[t].kind = op[t].kind /\ op'[t].step = op[t].step
                  /\ op'[t].project = op[t].project
           /\ JoinFresh' /\ ReplaceFresh'
<1>1. \A t \in Slots : op'[t].fresh = FALSE
  BY CommitOps DEF IInv
<1>2. JoinFresh' /\ ReplaceFresh'
  BY <1>1 DEF JoinFresh, ReplaceFresh
<1>3. QED
  BY <1>2, CommitOps DEF IInv

\* The last commit of a request that creates no project leaves the creations alone.
LEMMA LastCommit ==
    ASSUME IInv, NEW s \in Slots, op[s].step = "read", Commit(s, Idle)
    PROVE  /\ op' \in [Slots -> OpStates] /\ WellFormedInv' /\ JoinFresh' /\ ReplaceFresh'
           /\ \A t \in Slots :
                /\ (op'[t].kind = "create" /\ op'[t].step = "half") <=> IsAt(t, "create", "half")
                /\ IsAt(t, "create", "half") => op'[t].project = op[t].project
<1>1. Idle.fresh = FALSE /\ Idle.kind = "idle"
  BY DEF Idle
<1>2. /\ op' \in [Slots -> OpStates] /\ WellFormedInv' /\ JoinFresh' /\ ReplaceFresh'
      /\ op'[s] = Idle
      /\ \A t \in Slots \ {s} :
           op'[t].kind = op[t].kind /\ op'[t].step = op[t].step
             /\ op'[t].project = op[t].project
  BY <1>1, IdleTyped, IdleWellFormed, CommitSlots
<1>3. QED
  BY <1>1, <1>2 DEF IsAt

LEMMA RevokeStep ==
    ASSUME IInv, NEW s \in Slots, RevokeCommit(s)
    PROVE  IInv'
<1>1. op[s].step = "read" /\ Commit(s, Idle) /\ UNCHANGED <<projects, invite>>
  BY DEF RevokeCommit, IsAt
<1>2. TypeOK'
  BY <1>1, LastCommit DEF IInv, TypeOK, OpStates, RevokeCommit, projects
<1>3. CreationInv' /\ OneOwner'
  BY <1>1, LastCommit, CreationsKept, OwnersKept DEF IInv
<1>4. InviteBound'
  BY <1>1 DEF IInv, InviteBound
<1>5. QED
  BY <1>1, <1>2, <1>3, <1>4, LastCommit DEF IInv

LEMMA InviteInsertStep ==
    ASSUME IInv, NEW s \in Slots, InviteInsert(s)
    PROVE  IInv'
<1>1. op[s].step = "read" /\ Commit(s, Idle) /\ UNCHANGED <<identity, projects>>
  BY DEF InviteInsert, IsAt
<1>2. PICK i \in Invites :
        invite' = [invite EXCEPT
                     ![i] = [project |-> op[s].project, max |-> op[s].max, uses |-> 0]]
  BY DEF InviteInsert
<1> DEFINE row == [project |-> op[s].project, max |-> op[s].max, uses |-> 0]
<1>3. op[s].project \in Projects /\ op[s].max \in Nat \cup {Unlimited}
  BY MaxUsesAssumption DEF IInv, WellFormedInv, WellFormed, InviteInsert, IsAt
<1>4. row \in InviteRows /\ row.uses = 0 /\ row.max = op[s].max
  BY <1>3 DEF InviteRows
<1>5. TypeOK'
  BY <1>1, <1>2, <1>4, LastCommit DEF IInv, TypeOK, identity, projects
<1>6. CreationInv' /\ OneOwner'
  BY <1>1, LastCommit, CreationsKept, OwnersKept DEF IInv
<1>7. InviteBound'
  <2>1. \A k \in Nat : 0 <= k
    OBVIOUS
  <2>2. row.max # Unlimited => row.uses <= row.max
    BY <1>3, <1>4, <2>1
  <2> HIDE DEF row
  <2>3. QED
    BY <1>2, <2>2 DEF IInv, InviteBound, TypeOK, row
<1>8. QED
  BY <1>1, <1>5, <1>6, <1>7, LastCommit DEF IInv

\* A join seats a node that had no seat, in a role that is not the owner's, on a use
\* that was left.
LEMMA JoinStep ==
    ASSUME IInv, NEW s \in Slots, JoinCommit(s)
    PROVE  IInv'
<1> DEFINE i == op[s].invite
           p == invite[i].project
           n == op[s].node
<1>1. /\ op[s].step = "read" /\ Commit(s, Idle) /\ UNCHANGED <<identity, creator, orphans>>
      /\ role' = [role EXCEPT ![p] = [role[p] EXCEPT ![n] = op[s].role]]
      /\ invite' = [invite EXCEPT ![i] = [invite[i] EXCEPT !.uses = @ + 1]]
  BY DEF JoinCommit, Seat, IsAt, IInv, TypeOK
<1>2. i \in Invites /\ n \in Nodes /\ op[s].role \in JoinRoles
  BY DEF IInv, WellFormedInv, WellFormed, JoinCommit, IsAt
<1>3. invite[i] # NoInvite /\ UsesLeft(i) /\ role[p][n] = None
  BY DEF IInv, JoinFresh, JoinCommit, IsAt
<1> DEFINE used == [invite[i] EXCEPT !.uses = @ + 1]
<1>4. /\ invite[i] \in InviteRows /\ used \in InviteRows
      /\ used.uses = invite[i].uses + 1 /\ used.max = invite[i].max
  BY <1>2, <1>3, InviteUse DEF IInv
<1>5. p \in Projects /\ invite[i].uses \in Nat /\ invite[i].max \in Nat \cup {Unlimited}
  BY <1>4 DEF InviteRows
<1> HIDE DEF i, p, n, used
<1>6. TypeOK'
  <2>1. role' \in [Projects -> [Nodes -> Roles \cup {None}]]
    BY <1>1, <1>2 DEF IInv, TypeOK, JoinRoles, Roles
  <2>2. invite' \in [Invites -> InviteRows \cup {NoInvite}]
    BY <1>1, <1>4 DEF IInv, TypeOK, used
  <2>3. QED
    BY <1>1, <2>1, <2>2, LastCommit DEF IInv, TypeOK, identity
<1>7. CreationInv' /\ OneOwner'
  <2>1. \A q \in Projects : Owners(q)' = Owners(q)
    BY <1>1, <1>2, <1>3 DEF IInv, TypeOK, Owners, JoinRoles, None
  <2>2. QED
    BY <1>1, <2>1, LastCommit, CreationsKept DEF IInv
<1>8. InviteBound'
  <2>1. used.max # Unlimited => used.uses <= used.max
    <3>1. invite[i].max # Unlimited => invite[i].uses < invite[i].max
      BY <1>3 DEF UsesLeft
    <3>2. \A u, k \in Nat : u < k => u + 1 <= k
      OBVIOUS
    <3>3. QED
      BY <1>4, <1>5, <3>1, <3>2
  <2>2. QED
    BY <1>1, <2>1 DEF IInv, InviteBound, TypeOK, used
<1>9. QED
  BY <1>1, <1>6, <1>7, <1>8, LastCommit DEF IInv

\* Moving the memberships of `old` to a node that has none moves what it owned.
LEMMA OwnersMove ==
    ASSUME TypeOK, NEW old \in Nodes, NEW new \in Nodes \ {old}, MemberOf(new) = {},
           role' = Migrated(old, new), NEW p \in Projects
    PROVE  Owners(p)' = IF old \in Owners(p) THEN (Owners(p) \ {old}) \cup {new} ELSE Owners(p)
<1>1. role[p][new] = None
  BY DEF MemberOf
<1>2. CASE role[p][old] = None
  <2>1. role'[p] = role[p] /\ old \notin Owners(p)
    BY <1>2 DEF Migrated, Owners, None
  <2>2. QED
    BY <2>1 DEF Owners
<1>3. CASE role[p][old] # None
  <2>1. role'[p] = [role[p] EXCEPT ![new] = role[p][old], ![old] = None]
    BY <1>3 DEF Migrated
  <2>2. \A n \in Nodes : role'[p][n] = IF n = old THEN None
                                        ELSE IF n = new THEN role[p][old] ELSE role[p][n]
    BY <2>1 DEF TypeOK
  <2>3. QED
    BY <1>1, <2>2 DEF Owners, None
<1>4. QED
  BY <1>2, <1>3

LEMMA ReplaceStep ==
    ASSUME IInv, NEW s \in Slots, ReplaceCommit(s)
    PROVE  IInv'
<1> DEFINE old == op[s].node
           new == op[s].other
<1>1. /\ op[s].step = "read" /\ Commit(s, Idle) /\ UNCHANGED <<orphans, invite>>
      /\ role' = Migrated(old, new)
      /\ creator' = [p \in Projects |-> IF creator[p] = old THEN new ELSE creator[p]]
      /\ status' = [status EXCEPT ![old] = "revoked"]
      /\ replacement' = [replacement EXCEPT ![old] = new]
  BY DEF ReplaceCommit, IsAt
<1>2. old \in Nodes /\ new \in Nodes \ {old}
  BY DEF IInv, WellFormedInv, WellFormed, ReplaceCommit, IsAt
<1>3. MemberOf(new) = {}
  BY DEF IInv, ReplaceFresh, ReplaceCommit, IsAt
<1> HIDE DEF old, new
<1>4. TypeOK'
  BY <1>1, <1>2, LastCommit, MigratedTyped DEF IInv, TypeOK
<1>5. \A p \in Projects : creator'[p] = None <=> creator[p] = None
  BY <1>1, <1>2, NoneAssumption
<1>6. \A p \in Projects : Creating(p)' <=> Creating(p)
  BY <1>1, LastCommit DEF Creating, IsAt
<1>7. CreationInv'
  <2>1. \A t \in Slots : IsAt(t, "create", "half") => op[t].project \in Projects
    BY DEF IInv, WellFormedInv, WellFormed, IsAt
  <2>2. orphans \subseteq Projects
    BY DEF IInv, TypeOK
  <2>3. QED
    BY <1>1, <1>5, <2>1, <2>2, LastCommit DEF IInv, CreationInv, IsAt
<1>8. OneOwner'
  <2> SUFFICES ASSUME NEW p \in Projects
               PROVE  IF creator'[p] = None \/ Creating(p)' \/ p \in orphans'
                      THEN Owners(p)' = {}
                      ELSE \E n \in Nodes : Owners(p)' = {n}
    BY DEF OneOwner
  <2>1. Owners(p)' = IF old \in Owners(p) THEN (Owners(p) \ {old}) \cup {new} ELSE Owners(p)
    BY <1>1, <1>2, <1>3, OwnersMove DEF IInv
  <2>2. IF creator[p] = None \/ Creating(p) \/ p \in orphans
        THEN Owners(p) = {}
        ELSE \E n \in Nodes : Owners(p) = {n}
    BY DEF IInv, OneOwner
  <2>3. CASE Owners(p) = {}
    BY <1>1, <1>5, <1>6, <2>1, <2>2, <2>3
  <2>4. ASSUME NEW n \in Nodes, Owners(p) = {n}
        PROVE  \E m \in Nodes : Owners(p)' = {m}
    BY <1>2, <2>1, <2>4
  <2>5. QED
    BY <1>1, <1>5, <1>6, <2>2, <2>3, <2>4
<1>9. InviteBound'
  BY <1>1 DEF IInv, InviteBound
<1>10. QED
  BY <1>1, <1>4, <1>7, <1>8, <1>9, LastCommit DEF IInv

\* The first INSERT of a creation: the project has its row, and no owner yet.
LEMMA CreateProjectStep ==
    ASSUME IInv, NEW s \in Slots, CreateProject(s)
    PROVE  IInv'
<1> DEFINE next == [op[s] EXCEPT !.step = "half"]
<1>1. /\ op[s].kind = "create" /\ op[s].step = "authed" /\ op[s].fresh = FALSE
      /\ op[s].project \in Projects /\ op[s].node \in Nodes
  BY DEF IInv, WellFormedInv, WellFormed, CreateProject, IsAt
<1>0. PICK p \in Projects : p = op[s].project
  BY <1>1
<1>2. CASE Refuse(s)
  BY <1>1, <1>2, RefuseStep
<1>3. CASE ~Refuse(s)
  <2>1. /\ creator[p] = None
        /\ creator' = [creator EXCEPT ![p] = op[s].node]
        /\ Commit(s, next)
        /\ UNCHANGED <<identity, role, orphans, invite>>
    BY <1>0, <1>3 DEF CreateProject
  <2>2. /\ creator' \in [Projects -> Nodes \cup {None}] /\ creator'[p] # None
        /\ \A q \in Projects : q # p => creator'[q] = creator[q]
    BY <1>1, <2>1, NoneAssumption DEF IInv, TypeOK
  <2>3. /\ next \in OpStates /\ WellFormed(next) /\ next.fresh = FALSE
        /\ next.kind = "create" /\ next.step = "half" /\ next.project = p
    <3>1. op[s] \in OpStates /\ WellFormed(op[s])
      BY DEF IInv, TypeOK, WellFormedInv
    <3>2. WellFormed(next)
      BY <1>1, <3>1, ProgressWellFormed
    <3>3. QED
      BY <1>0, <1>1, <3>1, <3>2 DEF OpStates
  <2> HIDE DEF next
  <2>4. /\ op' \in [Slots -> OpStates] /\ WellFormedInv' /\ JoinFresh' /\ ReplaceFresh'
        /\ op'[s] = next
        /\ \A t \in Slots \ {s} :
             op'[t].kind = op[t].kind /\ op'[t].step = op[t].step
               /\ op'[t].project = op[t].project
    BY <2>1, <2>3, CommitSlots
  <2>5. \A t \in Slots \ {s} : IsAt(t, "create", "half") => op[t].project # p
    BY <2>1 DEF IInv, CreationInv
  <2>6. \A t \in Slots : IsAt(t, "create", "half") => op[t].project \in Projects
    BY DEF IInv, WellFormedInv, WellFormed, IsAt
  <2>7. p \notin orphans /\ orphans \subseteq Projects
    BY <2>1 DEF IInv, CreationInv, TypeOK
  <2>8. TypeOK'
    BY <2>1, <2>2, <2>4 DEF IInv, TypeOK, identity
  <2>9. CreationInv'
    <3>1. \A t \in Slots : op'[t].kind = "create" /\ op'[t].step = "half" =>
            creator'[op'[t].project] # None /\ op'[t].project \notin orphans
      BY <2>2, <2>3, <2>4, <2>6, <2>7 DEF IInv, CreationInv, IsAt
    <3>2. \A t, u \in Slots :
            /\ op'[t].kind = "create" /\ op'[t].step = "half"
            /\ op'[u].kind = "create" /\ op'[u].step = "half"
            /\ op'[t].project = op'[u].project
            => t = u
      BY <2>3, <2>4, <2>5 DEF IInv, CreationInv, IsAt
    <3>3. \A q \in orphans : creator'[q] # None
      BY <2>2, <2>7 DEF IInv, CreationInv
    <3>4. QED
      BY <2>1, <3>1, <3>2, <3>3 DEF CreationInv, IsAt
  <2>10. OneOwner'
    <3>1. \A q \in Projects : Owners(q)' = Owners(q)
      BY <2>1 DEF Owners
    <3>2. \A q \in Projects : q # p => (Creating(q)' <=> Creating(q))
      BY <1>0, <1>1, <2>3, <2>4 DEF Creating, IsAt
    <3>3. Creating(p)'
      BY <2>3, <2>4 DEF Creating, IsAt
    <3>4. Owners(p) = {}
      BY <2>1 DEF IInv, OneOwner
    <3>5. QED
      BY <2>1, <2>2, <3>1, <3>2, <3>3, <3>4 DEF IInv, OneOwner
  <2>11. InviteBound'
    BY <2>1 DEF IInv, InviteBound
  <2>12. QED
    BY <2>4, <2>8, <2>9, <2>10, <2>11 DEF IInv
<1>4. QED
  BY <1>2, <1>3

\* The second INSERT: the creation is over, and its caller the only owner.
LEMMA CreateOwnerStep ==
    ASSUME IInv, NEW s \in Slots, CreateOwner(s)
    PROVE  IInv'
<1>0. PICK p \in Projects, n \in Nodes : p = op[s].project /\ n = op[s].node
  BY DEF IInv, WellFormedInv, WellFormed, CreateOwner, IsAt
<1>1. /\ IsAt(s, "create", "half") /\ Commit(s, Idle) /\ role[p][n] = None
      /\ role' = [role EXCEPT ![p] = [role[p] EXCEPT ![n] = "owner"]]
      /\ UNCHANGED <<identity, creator, orphans, invite>>
  BY <1>0 DEF CreateOwner
<1>3. Idle.fresh = FALSE /\ Idle.kind = "idle"
  BY DEF Idle
<1>4. /\ op' \in [Slots -> OpStates] /\ WellFormedInv' /\ JoinFresh' /\ ReplaceFresh'
      /\ op'[s] = Idle
      /\ \A t \in Slots \ {s} :
           op'[t].kind = op[t].kind /\ op'[t].step = op[t].step
             /\ op'[t].project = op[t].project
  BY <1>1, <1>3, IdleTyped, IdleWellFormed, CommitSlots
<1>5. /\ creator[p] # None /\ p \notin orphans
      /\ \A t \in Slots \ {s} : IsAt(t, "create", "half") => op[t].project # p
  BY <1>0, <1>1 DEF IInv, CreationInv
<1>6. Owners(p) = {}
  BY <1>0, <1>1 DEF IInv, OneOwner, Creating
<1>7. TypeOK'
  <2>1. role' \in [Projects -> [Nodes -> Roles \cup {None}]]
    BY <1>1 DEF IInv, TypeOK, Roles
  <2>2. QED
    BY <1>1, <1>4, <2>1 DEF IInv, TypeOK, identity
<1>8. CreationInv'
  BY <1>1, <1>3, <1>4 DEF IInv, CreationInv, IsAt
<1>9. OneOwner'
  <2>1. Owners(p)' = {n}
    BY <1>1, <1>6 DEF IInv, TypeOK, Owners
  <2>2. \A q \in Projects : q # p => Owners(q)' = Owners(q)
    BY <1>1 DEF IInv, TypeOK, Owners
  <2>3. ~Creating(p)'
    BY <1>3, <1>4, <1>5 DEF Creating, IsAt
  <2>4. \A q \in Projects : q # p => (Creating(q)' <=> Creating(q))
    BY <1>0, <1>1, <1>3, <1>4 DEF Creating, IsAt
  <2>5. QED
    BY <1>1, <1>5, <2>1, <2>2, <2>3, <2>4 DEF IInv, OneOwner
<1>10. InviteBound'
  BY <1>1 DEF IInv, InviteBound
<1>11. QED
  BY <1>4, <1>7, <1>8, <1>9, <1>10 DEF IInv

-----------------------------------------------------------------------------
LEMMA Invariance == Spec => []IInv
<1>1. IInv /\ [Next]_vars => IInv'
  <2> SUFFICES ASSUME IInv, [Next]_vars PROVE IInv'
    OBVIOUS
  <2>1. CASE \E n \in Nodes : Register(n)
    BY <2>1, RegisterStep
  <2>2. ASSUME NEW s \in Slots, SlotStep(s) PROVE IInv'
    BY <2>2, AuthenticateStep, FailStep, ReadSteps, RevokeStep, ReplaceStep,
       CreateProjectStep, CreateOwnerStep, InviteInsertStep, JoinStep DEF SlotStep
  <2>3. CASE UNCHANGED vars
    <3>1. TypeOK' /\ WellFormedInv'
      BY <2>3 DEF IInv, vars, TypeOK, WellFormedInv
    <3>2. JoinFresh' /\ ReplaceFresh'
      BY <2>3 DEF IInv, vars, JoinFresh, ReplaceFresh, IsAt, UsesLeft, MemberOf
    <3>3. CreationInv' /\ InviteBound'
      BY <2>3 DEF IInv, vars, CreationInv, InviteBound, IsAt
    <3>4. OneOwner'
      BY <2>3 DEF IInv, vars, OneOwner, Owners, Creating, IsAt
    <3>5. QED
      BY <3>1, <3>2, <3>3, <3>4 DEF IInv
  <2>4. QED
    BY <2>1, <2>2, <2>3 DEF Next
<1>2. QED
  BY <1>1, InitIInv, PTL DEF Spec

\* Every variable keeps its type: no handler writes a role that is not one, and no row
\* loses what another handler relies on.
THEOREM TypeCorrect == Spec => []TypeOK
<1>1. IInv => TypeOK
  BY DEF IInv
<1>2. QED
  BY <1>1, Invariance, PTL

\* Whatever the number of concurrent joins, no invite is used more often than its
\* max_uses: a join commits only on a snapshot in which a use was left and which no
\* other commit has made old (join_project_handler).
THEOREM InviteBoundHolds == Spec => []InviteBound
<1>1. IInv => InviteBound
  BY DEF IInv
<1>2. QED
  BY <1>1, Invariance, PTL

\* A project has one owner from the end of its creation on: joins never make another,
\* a replacement moves ownership to a node that held none, and only a creation that
\* stopped between its two INSERTs leaves a project without one.
THEOREM OneOwnerHolds == Spec => []OneOwner
<1>1. IInv => OneOwner
  BY DEF IInv
<1>2. QED
  BY <1>1, Invariance, PTL

-----------------------------------------------------------------------------
(* Replacements *)

\* Only a revoked node has a replacement.
ReplacedAreRevoked == \A n \in Nodes : status[n] # "revoked" => replacement[n] = None

\* The node that a fresh revocation or replacement names is active.
NamedActive ==
    \A s \in Slots :
      op[s].kind \in {"revoke", "replace"} /\ op[s].step = "read" /\ op[s].fresh =>
        op[s].other = None \/ Active(op[s].other)

ChainInv == ReplacedAreRevoked /\ NamedActive /\ NoReplacementCycle

\* A step that writes no row of a node keeps the chains, when it names no other node.
LEMMA ChainsKept ==
    ASSUME ChainInv, UNCHANGED identity, NamedActive'
    PROVE  ChainInv'
  BY DEF ChainInv, ReplacedAreRevoked, NoReplacementCycle, identity

\* Revoking n for a node that has no replacement closes no cycle: a set of nodes that n's
\* new replacement stays in holds that replacement, and its own leads out.
LEMMA ChainExtended ==
    ASSUME TypeOK, ChainInv, NEW n \in Nodes, NEW m \in (Nodes \ {n}) \cup {None},
           m = None \/ Active(m),
           replacement' = [replacement EXCEPT ![n] = m],
           status' = [status EXCEPT ![n] = "revoked"]
    PROVE  ReplacedAreRevoked' /\ NoReplacementCycle'
<1>1. ReplacedAreRevoked'
  BY DEF ChainInv, TypeOK, ReplacedAreRevoked
<1>2. \A k \in Nodes : replacement'[k] = IF k = n THEN m ELSE replacement[k]
  BY DEF TypeOK
<1>3. ASSUME NEW set \in (SUBSET Nodes) \ {{}}
      PROVE  \E k \in set : replacement'[k] \notin set
  <2>1. None \notin set
    BY NoneAssumption
  <2>2. PICK k \in set : replacement[k] \notin set
    BY DEF ChainInv, NoReplacementCycle
  <2>3. CASE k # n
    BY <1>2, <2>2, <2>3
  <2>4. CASE k = n /\ m \notin set
    BY <1>2, <2>4
  <2>5. CASE k = n /\ m \in set
    <3>1. m \in Nodes /\ m # n /\ status[m] # "revoked"
      BY <2>1, <2>5 DEF Active
    <3>2. replacement'[m] = None
      BY <1>2, <3>1 DEF ChainInv, ReplacedAreRevoked
    <3>3. QED
      BY <2>1, <2>5, <3>2
  <2>6. QED
    BY <2>3, <2>4, <2>5
<1>4. QED
  BY <1>1, <1>3 DEF NoReplacementCycle

\* A commit leaves no slot fresh.
LEMMA NoneFresh ==
    ASSUME \A t \in Slots : op'[t].fresh = FALSE
    PROVE  NamedActive'
  BY DEF NamedActive

\* A step of slot s that writes no row of a node.
LEMMA ChainQuiet ==
    ASSUME IInv, ChainInv, NEW s \in Slots, UNCHANGED identity,
           \A t \in Slots \ {s} : op'[t] = op[t],
           op'[s].step \in {"idle", "authed"}
    PROVE  ChainInv'
<1>1. NamedActive'
  BY DEF ChainInv, NamedActive, Active, identity
<1>2. QED
  BY <1>1, ChainsKept

LEMMA ChainProceed ==
    ASSUME IInv, ChainInv, NEW s \in Slots, Proceed(s),
           op[s].kind \in {"revoke", "replace"} => op[s].other = None \/ Active(op[s].other)
    PROVE  ChainInv'
<1>1. /\ op'[s] = [op[s] EXCEPT !.step = "read", !.fresh = TRUE]
      /\ \A t \in Slots \ {s} : op'[t] = op[t]
      /\ UNCHANGED <<status, replacement>>
  BY ProceedOps DEF IInv, identity
<1>2. op'[s].kind = op[s].kind /\ op'[s].other = op[s].other
  BY <1>1 DEF IInv, TypeOK, OpStates
<1>3. NamedActive'
  <2> SUFFICES ASSUME NEW t \in Slots, op'[t].kind \in {"revoke", "replace"},
                      op'[t].step = "read", op'[t].fresh
               PROVE  op'[t].other = None \/ Active(op'[t].other)
    BY <1>1 DEF NamedActive, Active
  <2>1. CASE t = s
    BY <1>2, <2>1
  <2>2. CASE t # s
    BY <1>1, <2>2 DEF ChainInv, NamedActive
  <2>3. QED
    BY <2>1, <2>2
<1>4. QED
  BY <1>1, <1>3, ChainsKept DEF identity

\* What a commit of slot s leaves in it.
LEMMA CommitFreshless ==
    ASSUME IInv, NEW s \in Slots,
           Commit(s, Idle) \/ (op[s].kind = "create" /\ Commit(s, [op[s] EXCEPT !.step = "half"])
                                /\ op[s].fresh = FALSE)
    PROVE  \A t \in Slots : op'[t].fresh = FALSE
<1>1. CASE Commit(s, Idle)
  BY <1>1, CommitOps, IdleTyped, IdleWellFormed DEF IInv
<1>2. CASE /\ op[s].kind = "create" /\ op[s].fresh = FALSE
           /\ Commit(s, [op[s] EXCEPT !.step = "half"])
  <2>1. op[s] \in OpStates /\ WellFormed(op[s])
    BY DEF IInv, TypeOK, WellFormedInv
  <2>2. /\ [op[s] EXCEPT !.step = "half"] \in OpStates
        /\ [op[s] EXCEPT !.step = "half"].fresh = FALSE
    BY <1>2, <2>1 DEF OpStates
  <2>3. WellFormed([op[s] EXCEPT !.step = "half"])
    BY <1>2, <2>1, ProgressWellFormed
  <2>4. QED
    BY <1>2, <2>2, <2>3, CommitOps DEF IInv
<1>3. QED
  BY <1>1, <1>2

LEMMA ChainStep ==
    ASSUME IInv, ChainInv, [Next]_vars
    PROVE  ChainInv'
<1>1. ASSUME NEW n \in Nodes, Register(n) PROVE ChainInv'
  <2>1. NamedActive'
    BY <1>1, RegisterOps, NoneFresh DEF IInv
  <2>2. ReplacedAreRevoked' /\ NoReplacementCycle'
    BY <1>1 DEF IInv, TypeOK, ChainInv, ReplacedAreRevoked, NoReplacementCycle, Register
  <2>3. QED
    BY <2>1, <2>2 DEF ChainInv
<1>2. ASSUME NEW s \in Slots, Authenticate(s) PROVE ChainInv'
  BY <1>2, AuthenticateOps, ChainQuiet DEF IInv, Authenticate
<1>3. ASSUME NEW s \in Slots, Fail(s) \/ Refuse(s) PROVE ChainInv'
  BY <1>3, EndOps, ChainQuiet DEF IInv, Fail, Refuse, Idle
<1>4. ASSUME NEW s \in Slots,
             RevokeRead(s) \/ ReplaceRead(s) \/ InviteRead(s) \/ JoinRead(s)
      PROVE  ChainInv'
  <2>1. CASE Proceed(s) /\ ~Refuse(s)
    <3>1. op[s].kind \in {"revoke", "replace"} => op[s].other = None \/ Active(op[s].other)
      BY <1>4, <2>1 DEF RevokeRead, ReplaceRead, InviteRead, JoinRead, IsAt
    <3>2. QED
      BY <2>1, <3>1, ChainProceed
  <2>2. QED
    BY <1>3, <1>4, <2>1, ReadOutcome
<1>5. ASSUME NEW s \in Slots, RevokeCommit(s) \/ ReplaceCommit(s) PROVE ChainInv'
  <2>1. /\ op[s].step = "read" /\ op[s].kind \in {"revoke", "replace"} /\ Commit(s, Idle)
        /\ op[s].fresh \/ op[s].other = None
        /\ status' = [status EXCEPT ![op[s].node] = "revoked"]
        /\ replacement' = [replacement EXCEPT ![op[s].node] = op[s].other]
    BY <1>5 DEF RevokeCommit, ReplaceCommit, IsAt
  <2>2. op[s].node \in Nodes /\ op[s].other \in (Nodes \ {op[s].node}) \cup {None}
    BY <2>1 DEF IInv, WellFormedInv, WellFormed
  <2>3. op[s].other = None \/ Active(op[s].other)
    BY <2>1 DEF ChainInv, NamedActive
  <2>4. ReplacedAreRevoked' /\ NoReplacementCycle'
    BY <2>1, <2>2, <2>3, ChainExtended DEF IInv
  <2>5. QED
    BY <2>1, <2>4, CommitFreshless, NoneFresh DEF ChainInv
<1>6. ASSUME NEW s \in Slots, CreateProject(s) \/ CreateOwner(s) \/ InviteInsert(s) \/ JoinCommit(s)
      PROVE  ChainInv'
  <2>1. CASE Refuse(s)
    BY <1>3, <2>1
  <2>2. CASE ~Refuse(s)
    <3>1. op[s].step = "authed" => op[s].fresh = FALSE
      BY DEF IInv, WellFormedInv, WellFormed
    <3>2. \A t \in Slots : op'[t].fresh = FALSE
      BY <1>6, <2>2, <3>1, CommitFreshless
         DEF CreateProject, CreateOwner, InviteInsert, JoinCommit, Seat, IsAt
    <3>3. UNCHANGED identity
      BY <1>6, <2>2 DEF CreateProject, CreateOwner, InviteInsert, JoinCommit, Seat, identity
    <3>4. QED
      BY <3>2, <3>3, NoneFresh, ChainsKept
  <2>3. QED
    BY <2>1, <2>2
<1>7. CASE UNCHANGED vars
  <2>1. UNCHANGED <<status, replacement, op>>
    BY <1>7 DEF vars
  <2>2. NamedActive'
    BY <2>1 DEF ChainInv, NamedActive, Active
  <2>3. QED
    BY <2>1, <2>2, ChainsKept DEF identity
<1>8. QED
  BY <1>1, <1>2, <1>3, <1>4, <1>5, <1>6, <1>7 DEF Next, SlotStep

LEMMA ChainInvariance == Spec => [](IInv /\ ChainInv)
<1>1. Init => ChainInv
  <2> SUFFICES ASSUME Init PROVE ChainInv
    OBVIOUS
  <2>1. ReplacedAreRevoked
    BY DEF Init, ReplacedAreRevoked
  <2>2. NamedActive
    BY DEF Init, NamedActive, Idle
  <2>3. NoReplacementCycle
    <3> SUFFICES ASSUME NEW set \in (SUBSET Nodes) \ {{}}
                 PROVE  \E k \in set : replacement[k] \notin set
      BY DEF NoReplacementCycle
    <3>1. PICK k \in set : TRUE
      OBVIOUS
    <3>2. replacement[k] = None /\ None \notin set
      BY NoneAssumption DEF Init
    <3>3. QED
      BY <3>2
  <2>4. QED
    BY <2>1, <2>2, <2>3 DEF ChainInv
<1>2. QED
  BY <1>1, ChainStep, Invariance, PTL DEF Spec

\* However many revocations and replacements run at once and name each other, following
\* replacement_node_id never comes back: each commits only while the node it names is
\* active, and an active node has no replacement.
THEOREM NoReplacementCycleHolds == Spec => []NoReplacementCycle
<1>1. ChainInv => NoReplacementCycle
  BY DEF ChainInv
<1>2. QED
  BY <1>1, ChainInvariance, PTL

\* One step of RevokedIsInert.
InertStep ==
    \A n \in Nodes :
      status[n] = "revoked" /\ (\A s \in Slots : op[s].node # n) =>
        /\ status'[n] = "revoked" /\ replacement'[n] = replacement[n]
        /\ \A p \in Projects : /\ role'[p][n] = role[p][n]
                               /\ creator'[p] = n <=> creator[p] = n

\* A commit writes rows of its caller, and of the node it names, which is active.
LEMMA Inert ==
    ASSUME IInv, ChainInv, [Next]_vars
    PROVE  InertStep
<1> SUFFICES ASSUME NEW n \in Nodes, status[n] = "revoked", \A s \in Slots : op[s].node # n
             PROVE  /\ status'[n] = "revoked" /\ replacement'[n] = replacement[n]
                    /\ \A p \in Projects : /\ role'[p][n] = role[p][n]
                                           /\ creator'[p] = n <=> creator[p] = n
  BY Zenon DEF InertStep
<1>1. ASSUME NEW m \in Nodes, Register(m)
      PROVE  /\ status'[n] = "revoked" /\ UNCHANGED <<replacement, role, creator>>
  BY <1>1 DEF IInv, TypeOK, Register, projects
<1>2. ASSUME NEW s \in Slots, Authenticate(s) \/ Fail(s) \/ Refuse(s) \/ Proceed(s)
      PROVE  UNCHANGED <<status, replacement, role, creator>>
  BY <1>2 DEF Authenticate, Fail, Refuse, Proceed, identity, projects
<1>3. ASSUME NEW s \in Slots,
             RevokeRead(s) \/ ReplaceRead(s) \/ InviteRead(s) \/ JoinRead(s)
      PROVE  UNCHANGED <<status, replacement, role, creator>>
  BY <1>2, <1>3, ReadOutcome
<1>4. ASSUME NEW s \in Slots, RevokeCommit(s)
      PROVE  /\ status'[n] = "revoked" /\ replacement'[n] = replacement[n]
             /\ UNCHANGED <<role, creator>>
  BY <1>4 DEF IInv, TypeOK, RevokeCommit, projects
<1>5. ASSUME NEW s \in Slots, ReplaceCommit(s), NEW p \in Projects
      PROVE  /\ status'[n] = "revoked" /\ replacement'[n] = replacement[n]
             /\ role'[p][n] = role[p][n] /\ (creator'[p] = n <=> creator[p] = n)
  <2> DEFINE old == op[s].node
             new == op[s].other
  <2>1. /\ role' = Migrated(old, new)
        /\ creator' = [q \in Projects |-> IF creator[q] = old THEN new ELSE creator[q]]
        /\ status' = [status EXCEPT ![old] = "revoked"]
        /\ replacement' = [replacement EXCEPT ![old] = new]
    BY <1>5 DEF ReplaceCommit
  <2>2. new # None /\ Active(new) /\ old # n
    BY <1>5, NoneAssumption DEF ReplaceCommit, IsAt, ChainInv, NamedActive,
       IInv, WellFormedInv, WellFormed
  <2>3. new # n
    BY <2>2 DEF Active
  <2> HIDE DEF old, new
  <2>4. role'[p][n] = role[p][n]
    <3>1. role[p] \in [Nodes -> Roles \cup {None}]
      BY DEF IInv, TypeOK
    <3>2. CASE role[p][old] = None
      BY <2>1, <3>2 DEF Migrated
    <3>3. CASE role[p][old] # None
      <4>1. role'[p] = [role[p] EXCEPT ![new] = role[p][old], ![old] = None]
        BY <2>1, <3>3 DEF Migrated
      <4>2. QED
        BY <2>2, <2>3, <3>1, <4>1
    <3>4. QED
      BY <3>2, <3>3
  <2>5. QED
    BY <2>1, <2>2, <2>3, <2>4 DEF IInv, TypeOK
<1>6. ASSUME NEW s \in Slots, CreateProject(s), ~Refuse(s), NEW p \in Projects
      PROVE  /\ UNCHANGED <<status, replacement, role>>
             /\ creator'[p] = n <=> creator[p] = n
  <2>1. /\ creator[op[s].project] = None
        /\ creator' = [creator EXCEPT ![op[s].project] = op[s].node]
        /\ UNCHANGED <<status, replacement, role>>
    BY <1>6 DEF CreateProject, identity
  <2>2. QED
    BY <2>1, NoneAssumption DEF IInv, TypeOK
<1>7. ASSUME NEW s \in Slots, CreateOwner(s), NEW p \in Projects
      PROVE  UNCHANGED <<status, replacement, creator>> /\ role'[p][n] = role[p][n]
  BY <1>7 DEF CreateOwner, identity, IInv, TypeOK
<1>8. ASSUME NEW s \in Slots, InviteInsert(s)
      PROVE  UNCHANGED <<status, replacement, role, creator>>
  BY <1>8 DEF InviteInsert, identity, projects
<1>9. ASSUME NEW s \in Slots, JoinCommit(s), NEW p \in Projects
      PROVE  UNCHANGED <<status, replacement, creator>> /\ role'[p][n] = role[p][n]
  BY <1>9 DEF JoinCommit, Seat, identity, IInv, TypeOK
<1>10. CASE UNCHANGED vars
  BY <1>10 DEF vars
<1>11. ASSUME NEW s \in Slots, SlotStep(s)
       PROVE  status'[n] = "revoked" /\ replacement'[n] = replacement[n]
  <2>1. CASE ReplaceCommit(s)
    <3>1. op[s].node # n
      OBVIOUS
    <3>2. QED
      BY <2>1, <3>1 DEF ReplaceCommit, IInv, TypeOK
  <2>2. CASE CreateProject(s) \/ CreateOwner(s) \/ JoinCommit(s)
    BY <1>2, <2>2 DEF CreateProject, CreateOwner, JoinCommit, Seat, identity
  <2>3. QED
    BY <1>2, <1>3, <1>4, <1>8, <1>11, <2>1, <2>2 DEF SlotStep
<1>12. ASSUME NEW s \in Slots, SlotStep(s), NEW p \in Projects
       PROVE  role'[p][n] = role[p][n] /\ (creator'[p] = n <=> creator[p] = n)
  BY <1>2, <1>3, <1>4, <1>5, <1>6, <1>7, <1>8, <1>9, <1>12 DEF SlotStep
<1>13. CASE \E m \in Nodes : Register(m)
  BY <1>1, <1>13
<1>14. CASE \E s \in Slots : SlotStep(s)
  <2>1. PICK s \in Slots : SlotStep(s)
    BY <1>14
  <2>2. \A p \in Projects : role'[p][n] = role[p][n] /\ (creator'[p] = n <=> creator[p] = n)
    BY <1>12, <2>1
  <2>3. status'[n] = "revoked" /\ replacement'[n] = replacement[n]
    BY <1>11, <2>1
  <2>4. QED
    BY <2>2, <2>3
<1>15. QED
  BY <1>10, <1>13, <1>14 DEF Next

\* Once the requests that were authenticated before its revocation are over, nothing
\* changes the rows of a revoked node: it cannot authenticate, register refuses it, and
\* no replacement names it.
THEOREM RevokedIsInertHolds == Spec => RevokedIsInert
<1>1. [InertStep]_vars => [\A n \in Nodes :
         status[n] = "revoked" /\ (\A s \in Slots : op[s].node # n) =>
             /\ status'[n] = "revoked" /\ replacement'[n] = replacement[n]
             /\ \A p \in Projects : /\ role'[p][n] = role[p][n]
                                    /\ creator'[p] = n <=> creator[p] = n
      ]_vars
  BY Zenon DEF InertStep
<1>2. IInv /\ ChainInv /\ [Next]_vars => [InertStep]_vars
  BY Inert
<1>3. QED
  BY <1>1, <1>2, ChainInvariance, PTL DEF Spec, RevokedIsInert

-----------------------------------------------------------------------------
(* Seats and uses *)

SeatInv == \A p \in Projects : /\ IsFiniteSet(Seats(p)) /\ IsFiniteSet(Uses(p))
                               /\ Cardinality(Seats(p)) = Cardinality(Uses(p))

\* Membership in Uses, without the union.
LEMMA UsesAre ==
    ASSUME NEW p, NEW x
    PROVE  x \in Uses(p) <=> \E i \in Invites : /\ invite[i].project = p
                                               /\ x \in {i} \X (1..invite[i].uses)
  BY DEF Uses

LEMMA InitSeats == Init => SeatInv
<1> SUFFICES ASSUME Init, NEW p \in Projects
             PROVE  Seats(p) = {} /\ Uses(p) = {}
  BY FS_EmptySet DEF SeatInv
<1>1. Seats(p) = {}
  BY DEF Init, Seats, JoinRoles, None
<1>2. Uses(p) = {}
  BY NoneAssumption DEF Init, Uses, NoInvite
<1>3. QED
  BY <1>1, <1>2

\* Neither seats nor uses change.
LEMMA SeatsKept ==
    ASSUME SeatInv, \A p \in Projects : Seats(p)' = Seats(p) /\ Uses(p)' = Uses(p)
    PROVE  SeatInv'
  BY DEF SeatInv

\* A join adds one of each.
LEMMA SeatsOfJoin ==
    ASSUME IInv, SeatInv, NEW s \in Slots, JoinCommit(s)
    PROVE  SeatInv'
<1>1. PICK i \in Invites, n \in Nodes : i = op[s].invite /\ n = op[s].node
  BY DEF IInv, WellFormedInv, WellFormed, JoinCommit, IsAt
<1>2. invite[i] # NoInvite /\ role[invite[i].project][n] = None /\ op[s].role \in JoinRoles
  BY <1>1 DEF IInv, JoinFresh, WellFormedInv, WellFormed, JoinCommit, IsAt
<1>3. PICK p \in Projects, k \in Nat : p = invite[i].project /\ k = invite[i].uses
  BY <1>2, InviteUse DEF IInv, InviteRows
<1>4. /\ role' = [role EXCEPT ![p] = [role[p] EXCEPT ![n] = op[s].role]]
      /\ invite' = [invite EXCEPT ![i] = [invite[i] EXCEPT !.uses = @ + 1]]
  BY <1>1, <1>3 DEF JoinCommit, Seat, IInv, TypeOK
<1>5. /\ invite'[i].uses = k + 1 /\ invite'[i].project = p
      /\ \A j \in Invites \ {i} : invite'[j] = invite[j]
  BY <1>2, <1>3, <1>4, InviteUse DEF IInv, TypeOK
<1>6. role \in [Projects -> [Nodes -> Roles \cup {None}]]
  BY DEF IInv, TypeOK
<1>7. /\ n \notin Seats(p) /\ Seats(p)' = Seats(p) \cup {n}
      /\ \A q \in Projects \ {p} : Seats(q)' = Seats(q)
  BY <1>1, <1>2, <1>3, <1>4, <1>6 DEF Seats, JoinRoles, None
<1>8. 1..(k + 1) = (1..k) \cup {k + 1} /\ k + 1 \notin 1..k
  OBVIOUS
<1>9. <<i, k + 1>> \notin Uses(p)
  BY <1>3, <1>8, UsesAre
<1>10. Uses(p)' = Uses(p) \cup {<<i, k + 1>>}
  <2>1. ASSUME NEW j \in Invites \ {i}
        PROVE  {j} \X (1..invite'[j].uses) = {j} \X (1..invite[j].uses)
    BY <1>5
  <2>2. {i} \X (1..invite'[i].uses) = ({i} \X (1..invite[i].uses)) \cup {<<i, k + 1>>}
    BY <1>3, <1>5, <1>8
  <2>3. QED
    BY <1>3, <1>5, <2>1, <2>2 DEF Uses
<1>11. \A q \in Projects \ {p} : Uses(q)' = Uses(q)
  BY <1>3, <1>5 DEF Uses
<1>12. /\ IsFiniteSet(Seats(p)') /\ IsFiniteSet(Uses(p)')
       /\ Cardinality(Seats(p)') = Cardinality(Uses(p)')
  <2>1. /\ IsFiniteSet(Seats(p)) /\ IsFiniteSet(Uses(p))
        /\ Cardinality(Seats(p)) = Cardinality(Uses(p))
    BY DEF SeatInv
  <2>2. IsFiniteSet(Seats(p)') /\ Cardinality(Seats(p)') = Cardinality(Seats(p)) + 1
    BY <1>7, <2>1, FS_AddElement
  <2>3. IsFiniteSet(Uses(p)') /\ Cardinality(Uses(p)') = Cardinality(Uses(p)) + 1
    BY <1>9, <1>10, <2>1, FS_AddElement
  <2>4. QED
    BY <2>1, <2>2, <2>3
<1>13. QED
  BY <1>7, <1>11, <1>12 DEF SeatInv

\* A replacement moves the seats of the old node to a node that had none.
LEMMA SeatsMove ==
    ASSUME TypeOK, NEW old \in Nodes, NEW new \in Nodes \ {old}, MemberOf(new) = {},
           role' = Migrated(old, new), NEW p \in Projects
    PROVE  /\ new \notin Seats(p)
           /\ Seats(p)' = IF old \in Seats(p) THEN (Seats(p) \ {old}) \cup {new} ELSE Seats(p)
<1>1. role[p][new] = None
  BY DEF MemberOf
<1>2. CASE role[p][old] = None
  <2>1. role'[p] = role[p] /\ old \notin Seats(p)
    BY <1>2 DEF Migrated, Seats, None, JoinRoles
  <2>2. QED
    BY <1>1, <2>1 DEF Seats, None, JoinRoles
<1>3. CASE role[p][old] # None
  <2>1. role'[p] = [role[p] EXCEPT ![new] = role[p][old], ![old] = None]
    BY <1>3 DEF Migrated
  <2>2. \A n \in Nodes : role'[p][n] = IF n = old THEN None
                                        ELSE IF n = new THEN role[p][old] ELSE role[p][n]
    BY <2>1 DEF TypeOK
  <2>3. QED
    BY <1>1, <2>2 DEF Seats, None, JoinRoles
<1>4. QED
  BY <1>2, <1>3

LEMMA SeatsOfReplace ==
    ASSUME IInv, SeatInv, NEW s \in Slots, ReplaceCommit(s)
    PROVE  SeatInv'
<1> DEFINE old == op[s].node
           new == op[s].other
<1>1. role' = Migrated(old, new) /\ UNCHANGED invite
  BY DEF ReplaceCommit
<1>2. old \in Nodes /\ new \in Nodes \ {old}
  BY DEF IInv, WellFormedInv, WellFormed, ReplaceCommit, IsAt
<1>3. MemberOf(new) = {}
  BY DEF IInv, ReplaceFresh, ReplaceCommit, IsAt
<1> HIDE DEF old, new
<1> SUFFICES ASSUME NEW p \in Projects
             PROVE  /\ IsFiniteSet(Seats(p)') /\ Cardinality(Seats(p)') = Cardinality(Seats(p))
                    /\ Uses(p)' = Uses(p)
  BY DEF SeatInv
<1>4. Uses(p)' = Uses(p)
  BY <1>1 DEF Uses
<1>5. /\ new \notin Seats(p)
      /\ Seats(p)' = IF old \in Seats(p) THEN (Seats(p) \ {old}) \cup {new} ELSE Seats(p)
  BY <1>1, <1>2, <1>3, SeatsMove DEF IInv
<1>6. IsFiniteSet(Seats(p)) /\ Cardinality(Seats(p)) \in Nat
  BY FS_CardinalityType DEF SeatInv
<1>7. CASE old \in Seats(p)
  <2> DEFINE rest == Seats(p) \ {old}
  <2>1. IsFiniteSet(rest) /\ Cardinality(rest) = Cardinality(Seats(p)) - 1
    BY <1>6, <1>7, FS_RemoveElement
  <2>2. new \notin rest /\ Seats(p)' = rest \cup {new}
    BY <1>5, <1>7
  <2> HIDE DEF rest
  <2>3. IsFiniteSet(Seats(p)') /\ Cardinality(Seats(p)') = Cardinality(rest) + 1
    BY <2>1, <2>2, FS_AddElement
  <2>4. QED
    BY <1>4, <1>6, <2>1, <2>3
<1>8. CASE old \notin Seats(p)
  BY <1>4, <1>5, <1>6, <1>8
<1>9. QED
  BY <1>7, <1>8

LEMMA SeatsOfOwner ==
    ASSUME IInv, NEW s \in Slots, CreateOwner(s), NEW p \in Projects
    PROVE  Seats(p)' = Seats(p) /\ Uses(p)' = Uses(p)
<1>1. PICK q \in Projects, n \in Nodes : q = op[s].project /\ n = op[s].node
  BY DEF IInv, WellFormedInv, WellFormed, CreateOwner, IsAt
<1>2. /\ role[q][n] = None /\ role' = [role EXCEPT ![q] = [role[q] EXCEPT ![n] = "owner"]]
      /\ UNCHANGED invite
  BY <1>1 DEF CreateOwner
<1>3. Seats(p)' = Seats(p)
  BY <1>2 DEF IInv, TypeOK, Seats, JoinRoles, None
<1>4. QED
  BY <1>2, <1>3 DEF Uses

\* A new invite has not been used.
LEMMA SeatsOfInvite ==
    ASSUME IInv, NEW s \in Slots, InviteInsert(s), NEW p \in Projects
    PROVE  Seats(p)' = Seats(p) /\ Uses(p)' = Uses(p)
<1>1. PICK i \in Invites :
        /\ invite[i] = NoInvite
        /\ invite' = [invite EXCEPT
                       ![i] = [project |-> op[s].project, max |-> op[s].max, uses |-> 0]]
  BY DEF InviteInsert
<1>2. invite'[i].uses = 0 /\ \A j \in Invites \ {i} : invite'[j] = invite[j]
  BY <1>1 DEF IInv, TypeOK
<1>3. {i} \X (1..invite'[i].uses) = {} /\ {i} \X (1..invite[i].uses) = {}
  BY <1>1, <1>2 DEF NoInvite
<1>4. Uses(p)' = Uses(p)
  BY <1>2, <1>3 DEF Uses
<1>5. Seats(p)' = Seats(p)
  BY DEF InviteInsert, projects, Seats
<1>6. QED
  BY <1>4, <1>5

LEMMA SeatStep == IInv /\ SeatInv /\ [Next]_vars => SeatInv'
<1> SUFFICES ASSUME IInv, SeatInv, [Next]_vars PROVE SeatInv'
  OBVIOUS
<1>1. ASSUME NEW s \in Slots, CreateOwner(s) \/ InviteInsert(s) PROVE SeatInv'
  BY <1>1, SeatsOfOwner, SeatsOfInvite, SeatsKept
<1>2. CASE role' = role /\ invite' = invite
  <2>1. \A p \in Projects : Seats(p)' = Seats(p) /\ Uses(p)' = Uses(p)
    BY <1>2 DEF Seats, Uses
  <2>2. QED
    BY <2>1, SeatsKept
<1>3. \/ \E s \in Slots : JoinCommit(s) \/ ReplaceCommit(s) \/ CreateOwner(s) \/ InviteInsert(s)
      \/ role' = role /\ invite' = invite
  BY DEF Next, SlotStep, Register, Authenticate, Fail, RevokeRead, RevokeCommit, ReplaceRead,
         CreateProject, InviteRead, JoinRead, Refuse, Proceed, projects, vars
<1>4. QED
  BY <1>1, <1>2, <1>3, SeatsOfJoin, SeatsOfReplace

\* A project has as many members that joined as its invites have uses: no join seats a node
\* without taking a use or takes one without seating a node, and a replacement moves seats
\* without losing or copying any (join_project_handler, replace).
THEOREM EverySeatPaidHolds == Spec => []EverySeatPaid
<1>1. SeatInv => EverySeatPaid
  BY DEF SeatInv, EverySeatPaid
<1>2. QED
  BY Invariance, InitSeats, SeatStep, <1>1, PTL DEF Spec
================================================================================
