----------------------------- MODULE PeerHandshake -----------------------------
(***************************************************************************)
(* Two daemons and the Noise sessions between them: encrypt_and_send       *)
(* (local_api.rs), Transport::handshake, send, recv and handle_handshake   *)
(* (transport.rs), SessionState (connmgr.rs).                              *)
(*                                                                         *)
(* Every message is sent by a task of its own, and one loop per daemon     *)
(* receives.  They share the peer's entry in the connection manager and    *)
(* hold its lock for one step at a time: what a task read in one step may  *)
(* be old in the next.  A task begins at most one handshake, so a session  *)
(* key stands for the message whose task began it; a Noise session counts  *)
(* its packets in each direction and decrypts none out of turn.            *)
(*                                                                         *)
(* A channel is the path through the DERP relay: it keeps the order of     *)
(* what is put on it, and may lose a packet.  A call that reports an error *)
(* may have put its packet there all the same.  Peer keys never change     *)
(* here, and falling back to the mailbox always succeeds (Mailbox models   *)
(* it).                                                                    *)
(***************************************************************************)
EXTENDS Naturals, Sequences

CONSTANTS
    Peers, Msgs,
    From,       \* the peer that sends each message
    MaxFaults   \* bound: lost packets, failed sends and restarts of a behaviour

None == "none"

ASSUME PeersAssumption == \E p, q \in Peers : p # q /\ Peers = {p, q}
ASSUME MsgsAssumption == From \in [Msgs -> Peers] /\ None \notin Msgs
ASSUME FaultsAssumption == MaxFaults \in Nat

Other(p) == CHOOSE q \in Peers : q # p

VARIABLES
    session,   \* PeerConn.session of each peer
    previous,  \* PeerConn.previous_session
    chan,      \* the packets on their way to each peer
    recv,      \* where each receive loop is
    task,      \* where the sender of each message is
    seal,      \* the key and the count each message was encrypted with
    got,       \* messages decrypted by the peer
    faults

vars == <<session, previous, chan, recv, task, seal, got, faults>>

NoSession == [phase |-> "none", key |-> None, out |-> 0, in |-> 0, old |-> FALSE]
Pending(h) == [NoSession EXCEPT !.phase = "pending", !.key = h]
Established(h) == [NoSession EXCEPT !.phase = "established", !.key = h]

Sessions ==
    [phase : {"none", "pending", "established"}, key : Msgs \cup {None},
     out : Nat, in : Nat, old : BOOLEAN]

M1(h) == [kind |-> "m1", key |-> h, n |-> 0, msg |-> None]
M2(h) == [kind |-> "m2", key |-> h, n |-> 0, msg |-> None]
Data(m) == [kind |-> "data", key |-> seal[m].key, n |-> seal[m].n, msg |-> m]
Packets ==
    [kind : {"m1", "m2"}, key : Msgs, n : {0}, msg : {None}]
      \cup [kind : {"data"}, key : Msgs, n : Nat, msg : Msgs]

Unsealed == [key |-> None, n |-> 0]
Waiting == [step |-> "wait", key |-> None]

Init ==
    /\ session = [p \in Peers |-> NoSession]
    /\ previous = [p \in Peers |-> NoSession]
    /\ chan = [p \in Peers |-> << >>]
    /\ recv = [p \in Peers |-> Waiting]
    /\ task = [m \in Msgs |-> "new"]
    /\ seal = [m \in Msgs |-> Unsealed]
    /\ got = {}
    /\ faults = 0

Fault == faults < MaxFaults /\ faults' = faults + 1
Goto(m, step) == task' = [task EXCEPT ![m] = step]
Put(p, packet) == chan' = [chan EXCEPT ![p] = Append(@, packet)]

\* send_raw reports an error: the socket may have taken the packet, or not.
HalfPut(p, packet) == Fault /\ (Put(p, packet) \/ UNCHANGED chan)

loop == <<recv, got>>

-----------------------------------------------------------------------------
(* encrypt_and_send, and the handshake it may begin *)

\* The key could not be resolved: everything cached of the peer is forgotten.
KeyUnavailable(m) ==
    LET p == From[m]
    IN  /\ task[m] = "new" /\ Fault
        /\ Goto(m, "failed")
        /\ session' = [session EXCEPT ![p] = NoSession]
        /\ previous' = [previous EXCEPT ![p] = NoSession]
        /\ UNCHANGED <<chan, loop, seal>>

Usable(s) == s.phase = "established" /\ ~s.old

\* The peer's key was resolved: needs_handshake.
Check(m) ==
    /\ task[m] = "new"
    /\ Goto(m, IF Usable(session[From[m]]) THEN "encrypt" ELSE "demote")
    /\ UNCHANGED <<session, previous, chan, loop, seal, faults>>

\* Mutant of Demote: a pending session is kept too.
DemoteAny(m) ==
    LET p == From[m]
    IN  /\ task[m] = "demote"
        /\ Goto(m, "begin")
        /\ previous' = [previous EXCEPT ![p] = session[p]]
        /\ session' = [session EXCEPT ![p] = NoSession]
        /\ UNCHANGED <<chan, loop, seal, faults>>

\* Whatever is established by now becomes the previous session.
Demote(m) ==
    LET p == From[m]
    IN  /\ task[m] = "demote"
        /\ Goto(m, "begin")
        /\ IF session[p].phase = "established"
           THEN /\ previous' = [previous EXCEPT ![p] = session[p]]
                /\ session' = [session EXCEPT ![p] = NoSession]
           ELSE UNCHANGED <<session, previous>>
        /\ UNCHANGED <<chan, loop, seal, faults>>

\* The first message leaves before the session is pending.
Begin(m) ==
    /\ task[m] = "begin"
    /\ \/ Put(Other(From[m]), M1(m)) /\ Goto(m, "pend") /\ UNCHANGED faults
       \/ HalfPut(Other(From[m]), M1(m)) /\ Goto(m, "mailbox")
    /\ UNCHANGED <<session, previous, loop, seal>>

\* Whatever the session has become in between is overwritten.
SetPending(m) ==
    /\ task[m] = "pend"
    /\ Goto(m, "wait")
    /\ session' = [session EXCEPT ![From[m]] = Pending(m)]
    /\ UNCHANGED <<previous, chan, loop, seal, faults>>

\* Mutant of Wait: no limit on the polls.
WaitForever(m) ==
    /\ task[m] = "wait"
    /\ session[From[m]].phase = "established"
    /\ Goto(m, "encrypt")
    /\ UNCHANGED <<session, previous, chan, loop, seal, faults>>

\* The handshake waits until some session is established, for 50 polls of 100 ms.
Wait(m) ==
    /\ task[m] = "wait"
    /\ Goto(m, IF session[From[m]].phase = "established" THEN "encrypt" ELSE "mailbox")
    /\ UNCHANGED <<session, previous, chan, loop, seal, faults>>

\* Mutant of Encrypt: the count moves on only when the packet has left.
EncryptPeek(m) ==
    LET s == session[From[m]]
    IN  /\ task[m] = "encrypt"
        /\ IF s.phase = "established"
           THEN seal' = [seal EXCEPT ![m] = [key |-> s.key, n |-> s.out]] /\ Goto(m, "put")
           ELSE Goto(m, "mailbox") /\ UNCHANGED seal
        /\ UNCHANGED <<session, previous, chan, loop, faults>>

\* Transport::send: encrypts with the session there is now, under the lock.
Encrypt(m) ==
    LET p == From[m]
        s == session[p]
    IN  /\ task[m] = "encrypt"
        /\ IF s.phase = "established"
           THEN /\ seal' = [seal EXCEPT ![m] = [key |-> s.key, n |-> s.out]]
                /\ session' = [session EXCEPT ![p].out = @ + 1]
                /\ Goto(m, "put")
           ELSE Goto(m, "mailbox") /\ UNCHANGED <<session, seal>>
        /\ UNCHANGED <<previous, chan, loop, faults>>

\* ... and sends what it encrypted after it has released the lock.
Send(m) ==
    /\ task[m] = "put"
    /\ \/ Put(Other(From[m]), Data(m)) /\ Goto(m, "direct") /\ UNCHANGED faults
       \/ HalfPut(Other(From[m]), Data(m)) /\ Goto(m, "mailbox")
    /\ UNCHANGED <<session, previous, loop, seal>>

-----------------------------------------------------------------------------
(* Transport::recv and handle_handshake *)

NextTo(p, kind) == chan[p] # << >> /\ Head(chan[p]).kind = kind
Take(p) == chan' = [chan EXCEPT ![p] = Tail(@)]

\* A pending session takes any handshake packet for the answer to its own: the first
\* message of another handshake fails to decrypt, and changes nothing.
ReceiveM1(p) ==
    /\ recv[p] = Waiting /\ NextTo(p, "m1") /\ Take(p)
    /\ recv' = IF session[p].phase = "pending"
               THEN recv
               ELSE [recv EXCEPT ![p] = [step |-> "answer", key |-> Head(chan[p]).key]]
    /\ UNCHANGED <<session, previous, task, seal, got, faults>>

\* A responder sends its answer with the lock released ...
Answer(p) ==
    /\ recv[p].step = "answer"
    /\ \/ /\ Put(Other(p), M2(recv[p].key))
          /\ recv' = [recv EXCEPT ![p].step = "commit"]
          /\ UNCHANGED faults
       \/ /\ HalfPut(Other(p), M2(recv[p].key))
          /\ recv' = [recv EXCEPT ![p] = Waiting]
    /\ UNCHANGED <<session, previous, task, seal, got>>

\* ... and overwrites whatever session there is after that.
Commit(p) ==
    /\ recv[p].step = "commit"
    /\ session' = [session EXCEPT ![p] = Established(recv[p].key)]
    /\ recv' = [recv EXCEPT ![p] = Waiting]
    /\ UNCHANGED <<previous, chan, task, seal, got, faults>>

\* Only the handshake that is pending completes; for any other state the answer is a
\* first message that does not decrypt.
ReceiveM2(p) ==
    LET h == Head(chan[p]).key
    IN  /\ recv[p] = Waiting /\ NextTo(p, "m2") /\ Take(p)
        /\ session' = IF session[p] = Pending(h)
                      THEN [session EXCEPT ![p] = Established(h)]
                      ELSE session
        /\ UNCHANGED <<previous, recv, task, seal, got, faults>>

\* Mutant of Decrypts: any packet not yet passed is taken.
DecryptsLater(s, packet) == s.key = packet.key /\ s.in <= packet.n

\* TransportState::read_message: the session's key, and the count it expects.
Decrypts(s, packet) == s.key = packet.key /\ s.in = packet.n

\* The previous session is tried only when none is established.
ReceiveData(p) ==
    LET packet == Head(chan[p])
        current == session[p].phase = "established"
        s == IF current THEN session[p] ELSE previous[p]
        after == [s EXCEPT !.in = packet.n + 1]
    IN  /\ recv[p] = Waiting /\ NextTo(p, "data") /\ Take(p)
        /\ IF s.phase = "established" /\ Decrypts(s, packet)
           THEN /\ got' = got \cup {packet.msg}
                /\ session' = IF current THEN [session EXCEPT ![p] = after] ELSE session
                /\ previous' = IF current THEN previous ELSE [previous EXCEPT ![p] = after]
           ELSE UNCHANGED <<got, session, previous>>
        /\ UNCHANGED <<recv, task, seal, faults>>

-----------------------------------------------------------------------------
(* Time and faults *)

\* needs_rekey: the session is 120 s old. Bound: only while a send is still to look at it.
Age(p) ==
    /\ Usable(session[p]) /\ \E m \in Msgs : From[m] = p /\ task[m] = "new"
    /\ session' = [session EXCEPT ![p].old = TRUE]
    /\ UNCHANGED <<previous, chan, loop, task, seal, faults>>

Lose(p) ==
    /\ chan[p] # << >> /\ Fault
    /\ Take(p)
    /\ UNCHANGED <<session, previous, loop, task, seal>>

\* The daemon of p stops and starts: its tasks and sessions are gone, and its socket.
Restart(p) ==
    /\ Fault
    /\ session' = [session EXCEPT ![p] = NoSession]
    /\ previous' = [previous EXCEPT ![p] = NoSession]
    /\ chan' = [chan EXCEPT ![p] = << >>]
    /\ recv' = [recv EXCEPT ![p] = Waiting]
    /\ task' = [m \in Msgs |->
                  IF From[m] = p /\ task[m] \notin {"new", "direct", "mailbox"}
                  THEN "failed" ELSE task[m]]
    /\ UNCHANGED <<seal, got>>

-----------------------------------------------------------------------------
TaskStep(m) ==
    \/ Check(m) \/ Demote(m) \/ Begin(m) \/ SetPending(m)
    \/ Wait(m) \/ Encrypt(m) \/ Send(m)

LoopStep(p) ==
    \/ ReceiveM1(p) \/ Answer(p) \/ Commit(p) \/ ReceiveM2(p) \/ ReceiveData(p)

Next ==
    \/ \E m \in Msgs : TaskStep(m) \/ KeyUnavailable(m)
    \/ \E p \in Peers : LoopStep(p) \/ Age(p) \/ Lose(p) \/ Restart(p)

Spec == Init /\ [][Next]_vars

\* The runtime polls every spawned task.
Fairness ==
    /\ \A m \in Msgs : WF_vars(TaskStep(m))
    /\ \A p \in Peers : WF_vars(LoopStep(p))

LiveSpec == Spec /\ Fairness

-----------------------------------------------------------------------------
Steps == {"new", "demote", "begin", "pend", "wait", "encrypt", "put",
          "direct", "mailbox", "failed"}

TypeOK ==
    /\ session \in [Peers -> Sessions]
    /\ previous \in [Peers -> {s \in Sessions : s.phase # "pending"}]
    /\ chan \in [Peers -> Seq(Packets)]
    /\ recv \in [Peers -> [step : {"wait", "answer", "commit"}, key : Msgs \cup {None}]]
    /\ task \in [Msgs -> Steps]
    /\ seal \in [Msgs -> [key : Msgs \cup {None}, n : Nat]]
    /\ got \subseteq Msgs
    /\ faults \in 0..MaxFaults

Sealed(m) == seal[m] # Unsealed

\* No two messages of a peer are ever encrypted with one key and one count: whatever
\* rekeys, answers and overwrites do to the shared session, no session comes back with
\* its counts reset (Noise is broken by a nonce that is used twice).
NonceUnique ==
    \A m, k \in Msgs :
        m # k /\ Sealed(m) /\ From[m] = From[k] => seal[m] # seal[k]

\* What a peer decrypted of a session is what was encrypted with it first: concurrent
\* senders may put their packets on the wire in another order, and a later one is never
\* taken instead of an earlier one.
InOrder ==
    \A m, k \in Msgs :
        /\ k \in got /\ Sealed(m) /\ From[m] = From[k]
        /\ seal[m].key = seal[k].key /\ seal[m].n < seal[k].n
        => m \in got

\* A send ends, even when both daemons wait for each other's answer.
SendsEnd == \A m \in Msgs : <>(task[m] \in {"direct", "mailbox", "failed"})
=============================================================================
