-------------------------- MODULE PeerHandshakeProofs --------------------------
(***************************************************************************)
(* Theorems about PeerHandshake, for any messages, senders and number of   *)
(* faults.                                                                 *)
(***************************************************************************)
EXTENDS PeerHandshake, TLAPS

\* A handshake that has not left its task, and one whose session is not pending yet.
Early == {"new", "demote", "begin"}
Unset == Early \cup {"pend"}

\* A send that has put its packet on the wire, as far as the task could tell or not.
Away == {"direct", "mailbox"}

At(p, i) == i \in 1..Len(chan[p])
M1At(p, i) == i \in 1..Len(chan[p]) /\ chan[p][i].kind = "m1"
SealedWith(p, h) == \E m \in Msgs : From[m] = p /\ seal[m].key = h

\* Every key in use is that of a handshake, on the side that may use it.
Formed ==
    /\ \A p \in Peers :
         /\ IF session[p].phase = "none" THEN session[p].key = None ELSE session[p].key \in Msgs
         /\ session[p].phase = "pending" => From[session[p].key] = p
         /\ IF recv[p].step = "wait"
            THEN recv[p] = Waiting
            ELSE recv[p].key \in Msgs /\ From[recv[p].key] # p
         /\ \A i \in Nat : M1At(p, i) => chan[p][i].key \in Msgs /\ From[chan[p][i].key] # p
    /\ \A m \in Msgs : /\ seal[m].key = None => seal[m] = Unsealed
                       /\ task[m] = "put" => seal[m].key \in Msgs

\* The initiator: a pending session has its key from no earlier session.
InitiatorInv ==
    /\ \A p \in Peers : session[p].phase = "pending" =>
         task[session[p].key] \notin Unset /\ ~SealedWith(p, session[p].key)
    /\ \A h \in Msgs : task[h] \in Unset =>
         session[From[h]].key # h /\ ~SealedWith(From[h], h)

\* The responder: a handshake is answered once, with a key that nothing has used.
ResponderInv ==
    /\ \A h \in Msgs, q \in Peers : task[h] \in Early /\ q # From[h] =>
         /\ \A i \in Nat : M1At(q, i) => chan[q][i].key # h
         /\ recv[q].key # h /\ session[q].key # h /\ ~SealedWith(q, h)
    /\ \A q \in Peers : \A i \in Nat : M1At(q, i) =>
         /\ recv[q].key # chan[q][i].key /\ session[q].key # chan[q][i].key
         /\ ~SealedWith(q, chan[q][i].key)
         /\ \A j \in Nat : M1At(q, j) /\ chan[q][j].key = chan[q][i].key => i = j
    /\ \A q \in Peers : recv[q].step # "wait" =>
         session[q].key # recv[q].key /\ ~SealedWith(q, recv[q].key)

\* The count of the current session is beyond all that its key has encrypted.
CountInv ==
    \A m \in Msgs :
        LET s == session[From[m]]
        IN  Sealed(m) /\ s.phase = "established" /\ s.key = seal[m].key => seal[m].n < s.out

\* What was received, or is on its way, has left its task, whatever the send reported.
RouteInv ==
    \A m \in Msgs :
        m \in got \/ (\E p \in Peers : \E i \in Nat : At(p, i) /\ chan[p][i].msg = m)
          => task[m] \in Away

KeyInv == Formed /\ InitiatorInv /\ ResponderInv /\ CountInv /\ NonceUnique
IInv == TypeOK /\ KeyInv /\ RouteInv

-----------------------------------------------------------------------------
(* Records, peers and channels *)

LEMMA Constructed ==
    /\ NoSession \in Sessions /\ NoSession.phase = "none" /\ NoSession.key = None
    /\ \A h \in Msgs :
         /\ Pending(h) \in Sessions /\ Pending(h).phase = "pending" /\ Pending(h).key = h
         /\ Established(h) \in Sessions /\ Established(h).phase = "established"
         /\ Established(h).key = h /\ Established(h).out = 0
         /\ M1(h) \in Packets /\ M1(h).kind = "m1" /\ M1(h).key = h /\ M1(h).msg = None
         /\ M2(h) \in Packets /\ M2(h).kind = "m2" /\ M2(h).msg = None
    /\ Waiting.step = "wait" /\ Waiting.key = None
    /\ Unsealed.key = None
  BY DEF NoSession, Pending, Established, Sessions, M1, M2, Packets, Waiting, Unsealed

LEMMA OtherPeer == \A p \in Peers : Other(p) \in Peers /\ Other(p) # p
  BY PeersAssumption DEF Other

LEMMA TakeChan ==
    ASSUME TypeOK, NEW p \in Peers, chan[p] # << >>, Take(p)
    PROVE  /\ chan' \in [Peers -> Seq(Packets)]
           /\ 1 \in 1..Len(chan[p]) /\ Head(chan[p]) = chan[p][1] /\ chan[p][1] \in Packets
           /\ \A i \in 1..Len(chan'[p]) :
                i + 1 \in 1..Len(chan[p]) /\ chan'[p][i] = chan[p][i + 1]
           /\ \A q \in Peers \ {p} : chan'[q] = chan[q]
<1>1. chan[p] \in Seq(Packets) /\ Len(chan[p]) \in Nat /\ Len(chan[p]) > 0
  BY DEF TypeOK
<1>2. /\ Tail(chan[p]) \in Seq(Packets) /\ Len(Tail(chan[p])) = Len(chan[p]) - 1
      /\ Head(chan[p]) = chan[p][1] /\ chan[p][1] \in Packets
  BY <1>1
<1>3. \A i \in 1..Len(Tail(chan[p])) :
        i + 1 \in 1..Len(chan[p]) /\ Tail(chan[p])[i] = chan[p][i + 1]
  BY <1>1, <1>2
<1>4. QED
  BY <1>1, <1>2, <1>3 DEF TypeOK, Take

LEMMA PutChan ==
    ASSUME TypeOK, NEW p \in Peers, NEW packet \in Packets, Put(p, packet)
    PROVE  /\ chan' \in [Peers -> Seq(Packets)]
           /\ \A i \in 1..Len(chan'[p]) :
                \/ i \in 1..Len(chan[p]) /\ chan'[p][i] = chan[p][i]
                \/ i = Len(chan[p]) + 1 /\ chan'[p][i] = packet
           /\ \A q \in Peers \ {p} : chan'[q] = chan[q]
<1>1. chan[p] \in Seq(Packets)
  BY DEF TypeOK
<1>2. chan'[p] = Append(chan[p], packet)
  BY DEF TypeOK, Put
<1>3. QED
  BY <1>1, <1>2 DEF TypeOK, Put

LEMMA DataTyped ==
    ASSUME TypeOK, Formed, NEW m \in Msgs, task[m] = "put"
    PROVE  Data(m) \in Packets /\ Data(m).kind = "data" /\ Data(m).msg = m
  BY DEF TypeOK, Formed, Data, Packets

-----------------------------------------------------------------------------
(* Type correctness *)

LEMMA InitTypeOK == Init => TypeOK
  BY Constructed, FaultsAssumption DEF Init, TypeOK, Steps, Waiting, Unsealed

LEMMA FaultTyped == TypeOK /\ Fault => faults' \in 0..MaxFaults
  BY FaultsAssumption DEF TypeOK, Fault

LEMMA TaskTypeOK ==
    ASSUME IInv, NEW m \in Msgs, TaskStep(m) \/ KeyUnavailable(m)
    PROVE  TypeOK'
<1> DEFINE p == From[m]
<1>1. p \in Peers /\ Other(p) \in Peers
  BY MsgsAssumption, OtherPeer
<1>2. TypeOK /\ Formed
  BY DEF IInv, KeyInv
<1>3. CASE KeyUnavailable(m)
  BY <1>1, <1>2, <1>3, Constructed, FaultTyped
  DEF TypeOK, KeyUnavailable, loop, Goto, Steps
<1>4. CASE Check(m)
  BY <1>2, <1>4 DEF TypeOK, Check, loop, Goto, Steps
<1>5. CASE Demote(m)
  <2>1. session' \in [Peers -> Sessions]
    BY <1>1, <1>2, <1>5, Constructed DEF TypeOK, Demote
  <2>2. previous' \in [Peers -> {s \in Sessions : s.phase # "pending"}]
    <3>1. session[p] \in Sessions
      BY <1>1, <1>2 DEF TypeOK
    <3>2. CASE session[p].phase = "established"
      <4>1. session[p] \in {s \in Sessions : s.phase # "pending"}
        BY <3>1, <3>2
      <4>2. QED
        BY <1>1, <1>2, <1>5, <3>2, <4>1 DEF TypeOK, Demote
    <3>3. CASE session[p].phase # "established"
      BY <1>2, <1>5, <3>3 DEF TypeOK, Demote
    <3>4. QED
      BY <3>2, <3>3
  <2>3. QED
    BY <1>2, <1>5, <2>1, <2>2 DEF TypeOK, Demote, loop, Goto, Steps
<1>6. CASE Begin(m)
  <2>1. chan' \in [Peers -> Seq(Packets)]
    BY <1>1, <1>2, <1>6, Constructed, PutChan DEF Begin, HalfPut, TypeOK
  <2>2. faults' \in 0..MaxFaults
    BY <1>2, <1>6, FaultTyped DEF Begin, HalfPut, TypeOK
  <2>3. QED
    BY <1>2, <1>6, <2>1, <2>2 DEF TypeOK, Begin, loop, Goto, Steps
<1>7. CASE SetPending(m)
  BY <1>1, <1>2, <1>7, Constructed DEF TypeOK, SetPending, loop, Goto, Steps
<1>8. CASE Wait(m)
  BY <1>2, <1>8 DEF TypeOK, Wait, loop, Goto, Steps
<1>9. CASE Encrypt(m)
  <2>1. session[p] \in Sessions
    BY <1>1, <1>2 DEF TypeOK
  <2>2. /\ session[p].key \in Msgs \cup {None} /\ session[p].out \in Nat
        /\ [session[p] EXCEPT !.out = @ + 1] \in Sessions
    BY <2>1 DEF Sessions
  <2>3. session' \in [Peers -> Sessions]
    BY <1>1, <1>2, <1>9, <2>2 DEF TypeOK, Encrypt
  <2>4. seal' \in [Msgs -> [key : Msgs \cup {None}, n : Nat]]
    <3>1. [key |-> session[p].key, n |-> session[p].out] \in [key : Msgs \cup {None}, n : Nat]
      BY <2>2
    <3>2. QED
      BY <1>2, <1>9, <3>1 DEF TypeOK, Encrypt
  <2>5. QED
    BY <1>2, <1>9, <2>3, <2>4 DEF TypeOK, Encrypt, loop, Goto, Steps
<1>10. CASE Send(m)
  <2>1. Data(m) \in Packets
    BY <1>2, <1>10, DataTyped DEF Send
  <2>2. chan' \in [Peers -> Seq(Packets)]
    BY <1>1, <1>2, <1>10, <2>1, PutChan DEF Send, HalfPut, TypeOK
  <2>3. faults' \in 0..MaxFaults
    BY <1>2, <1>10, FaultTyped DEF Send, HalfPut, TypeOK
  <2>4. QED
    BY <1>2, <1>10, <2>2, <2>3 DEF TypeOK, Send, loop, Goto, Steps
<1>11. QED
  BY <1>3, <1>4, <1>5, <1>6, <1>7, <1>8, <1>9, <1>10 DEF TaskStep

LEMMA PeerTypeOK ==
    ASSUME IInv, NEW p \in Peers, LoopStep(p) \/ Age(p) \/ Lose(p) \/ Restart(p)
    PROVE  TypeOK'
<1>1. TypeOK /\ Formed /\ Other(p) \in Peers
  BY OtherPeer DEF IInv, KeyInv
<1>2. CASE ReceiveM1(p)
  <2>1. chan[p] # << >> /\ Take(p)
    BY <1>2 DEF ReceiveM1, NextTo
  <2>2. chan' \in [Peers -> Seq(Packets)] /\ Head(chan[p]).key \in Msgs
    BY <1>1, <2>1, TakeChan DEF Packets
  <2>3. QED
    BY <1>1, <1>2, <2>2 DEF TypeOK, ReceiveM1
<1>3. CASE Answer(p)
  <2>1. recv[p].step # "wait" /\ recv[p].key \in Msgs
    BY <1>1, <1>3 DEF Answer, Formed
  <2>2. chan' \in [Peers -> Seq(Packets)]
    BY <1>1, <1>3, <2>1, Constructed, PutChan DEF Answer, HalfPut, TypeOK
  <2>3. faults' \in 0..MaxFaults
    BY <1>1, <1>3, FaultTyped DEF Answer, HalfPut, TypeOK
  <2>4. [recv[p] EXCEPT !.step = "commit"]
          \in [step : {"wait", "answer", "commit"}, key : Msgs \cup {None}]
    BY <1>1 DEF TypeOK
  <2>5. recv' \in [Peers -> [step : {"wait", "answer", "commit"}, key : Msgs \cup {None}]]
    <3>1. Waiting \in [step : {"wait", "answer", "commit"}, key : Msgs \cup {None}]
      BY DEF Waiting
    <3>2. \/ recv' = [recv EXCEPT ![p] = [recv[p] EXCEPT !.step = "commit"]]
          \/ recv' = [recv EXCEPT ![p] = Waiting]
      BY <1>1, <1>3 DEF Answer, TypeOK
    <3>3. QED
      BY <1>1, <2>4, <3>1, <3>2 DEF TypeOK
  <2>6. QED
    BY <1>1, <1>3, <2>2, <2>3, <2>5 DEF TypeOK, Answer
<1>4. CASE Commit(p)
  <2>1. recv[p].key \in Msgs
    BY <1>1, <1>4 DEF Commit, Formed
  <2>2. QED
    BY <1>1, <1>4, <2>1, Constructed DEF TypeOK, Commit, Waiting
<1>5. CASE ReceiveM2(p)
  <2>1. chan[p] # << >> /\ Take(p)
    BY <1>5 DEF ReceiveM2, NextTo
  <2>2. chan' \in [Peers -> Seq(Packets)] /\ Head(chan[p]).key \in Msgs
    BY <1>1, <2>1, TakeChan DEF Packets
  <2>3. QED
    BY <1>1, <1>5, <2>2, Constructed DEF TypeOK, ReceiveM2
<1>6. CASE ReceiveData(p)
  <2>1. chan[p] # << >> /\ Take(p) /\ Head(chan[p]).kind = "data"
    BY <1>6 DEF ReceiveData, NextTo
  <2>2. /\ chan' \in [Peers -> Seq(Packets)]
        /\ Head(chan[p]).msg \in Msgs /\ Head(chan[p]).n \in Nat
    BY <1>1, <2>1, TakeChan DEF Packets
  <2>3. got' \subseteq Msgs
    BY <1>1, <1>6, <2>2 DEF TypeOK, ReceiveData
  <2> DEFINE n == Head(chan[p]).n + 1
  <2>4. /\ \A s \in Sessions : [s EXCEPT !.in = n] \in Sessions
        /\ \A s \in {t \in Sessions : t.phase # "pending"} :
             [s EXCEPT !.in = n] \in {t \in Sessions : t.phase # "pending"}
    <3>1. n \in Nat
      BY <2>2
    <3> HIDE DEF n
    <3>2. QED
      BY <3>1 DEF Sessions
  <2>5. session' \in [Peers -> Sessions]
    <3>1. session[p] \in Sessions
      BY <1>1 DEF TypeOK
    <3>2. session' = session \/ session' = [session EXCEPT ![p] = [session[p] EXCEPT !.in = n]]
      BY <1>6 DEF ReceiveData
    <3>3. QED
      BY <1>1, <2>4, <3>1, <3>2 DEF TypeOK
  <2>6. previous' \in [Peers -> {s \in Sessions : s.phase # "pending"}]
    <3>1. previous[p] \in {t \in Sessions : t.phase # "pending"}
      BY <1>1 DEF TypeOK
    <3>2. previous' = previous \/ previous' = [previous EXCEPT ![p] = [previous[p] EXCEPT !.in = n]]
      BY <1>6 DEF ReceiveData
    <3>3. QED
      BY <1>1, <2>4, <3>1, <3>2 DEF TypeOK
  <2>7. QED
    BY <1>1, <1>6, <2>2, <2>3, <2>5, <2>6 DEF TypeOK, ReceiveData
<1>7. CASE Age(p)
  <2>1. \A s \in Sessions : [s EXCEPT !.old = TRUE] \in Sessions
    BY DEF Sessions
  <2>2. QED
    BY <1>1, <1>7, <2>1 DEF TypeOK, Age, loop
<1>8. CASE Lose(p)
  BY <1>1, <1>8, TakeChan, FaultTyped DEF TypeOK, Lose, loop
<1>9. CASE Restart(p)
  BY <1>1, <1>9, Constructed, FaultTyped DEF TypeOK, Restart, Waiting, Steps
<1>10. QED
  BY <1>2, <1>3, <1>4, <1>5, <1>6, <1>7, <1>8, <1>9 DEF LoopStep

-----------------------------------------------------------------------------
(* Steps that put no key to use *)

\* A step that at most forgets sessions, handshakes and first messages.
SessionsKept ==
    \A q \in Peers :
        /\ session'[q].key = session[q].key \/ session'[q].key = None
        /\ IF session'[q].phase = "none"
           THEN session'[q].key = None
           ELSE /\ session'[q].phase = session[q].phase
                /\ session'[q].key = session[q].key /\ session'[q].out = session[q].out
RecvKept ==
    \A q \in Peers :
        IF recv'[q].step = "wait"
        THEN recv'[q] = Waiting
        ELSE recv[q].step # "wait" /\ recv'[q].key = recv[q].key
ChanKept ==
    \A q \in Peers : \E d \in {0, 1} : \A i \in Nat :
        M1At(q, i)' => M1At(q, i + d) /\ chan'[q][i] = chan[q][i + d]
TasksKept ==
    \A m \in Msgs : /\ task'[m] \in Unset => task[m] \in Unset
                    /\ task'[m] \in Early => task[m] \in Early
                    /\ task'[m] = "put" => task[m] = "put"

LEMMA Senders == None \notin Msgs /\ \A m \in Msgs : From[m] \in Peers
  BY MsgsAssumption

LEMMA QuietFormed ==
    ASSUME Formed, seal' = seal, SessionsKept, RecvKept, ChanKept, TasksKept
    PROVE  Formed'
  BY Constructed DEF Formed, SessionsKept, RecvKept, ChanKept, TasksKept

LEMMA QuietInitiator ==
    ASSUME Formed, InitiatorInv, seal' = seal, SessionsKept, TasksKept
    PROVE  InitiatorInv'
<1>1. ASSUME NEW q \in Peers, session'[q].phase = "pending"
      PROVE  task'[session'[q].key] \notin Unset /\ ~SealedWith(q, session[q].key)'
  <2>1. session[q].phase = "pending" /\ session'[q].key = session[q].key
    BY <1>1 DEF SessionsKept
  <2>2. session[q].key \in Msgs
    BY <2>1 DEF Formed
  <2>3. QED
    BY <2>1, <2>2 DEF InitiatorInv, SealedWith, TasksKept
<1>2. ASSUME NEW h \in Msgs, task'[h] \in Unset
      PROVE  session'[From[h]].key # h /\ ~SealedWith(From[h], h)'
  BY <1>2, Senders DEF InitiatorInv, SealedWith, SessionsKept, TasksKept
<1>3. QED
  BY <1>1, <1>2 DEF InitiatorInv

LEMMA QuietResponder ==
    ASSUME Formed, ResponderInv, seal' = seal, SessionsKept, RecvKept, ChanKept, TasksKept
    PROVE  ResponderInv'
<1>1. ASSUME NEW h \in Msgs, NEW q \in Peers, task'[h] \in Early, q # From[h]
      PROVE  /\ \A i \in Nat : M1At(q, i)' => chan'[q][i].key # h
             /\ recv'[q].key # h /\ session'[q].key # h /\ ~SealedWith(q, h)'
  <2>1. task[h] \in Early
    BY <1>1 DEF TasksKept
  <2>2. recv'[q].key # h /\ session'[q].key # h /\ ~SealedWith(q, h)'
    BY <1>1, <2>1, Constructed, Senders DEF ResponderInv, SealedWith, SessionsKept, RecvKept
  <2>3. ASSUME NEW i \in Nat, M1At(q, i)' PROVE chan'[q][i].key # h
    <3>1. PICK d \in {0, 1} : M1At(q, i + d) /\ chan'[q][i] = chan[q][i + d]
      BY <2>3 DEF ChanKept
    <3>2. QED
      BY <1>1, <2>1, <3>1 DEF ResponderInv
  <2>4. QED
    BY <2>2, <2>3
<1>2. ASSUME NEW q \in Peers, NEW i \in Nat, M1At(q, i)'
      PROVE  /\ recv'[q].key # chan'[q][i].key /\ session'[q].key # chan'[q][i].key
             /\ ~SealedWith(q, chan[q][i].key)'
             /\ \A j \in Nat : M1At(q, j)' /\ chan'[q][j].key = chan'[q][i].key => i = j
  <2>1. PICK d \in {0, 1} : \A k \in Nat :
          M1At(q, k)' => M1At(q, k + d) /\ chan'[q][k] = chan[q][k + d]
    BY DEF ChanKept
  <2>2. M1At(q, i + d) /\ chan'[q][i] = chan[q][i + d] /\ i + d \in Nat
    BY <1>2, <2>1
  <2>3. chan[q][i + d].key \in Msgs
    BY <2>2 DEF Formed
  <2>4. /\ recv[q].key # chan[q][i + d].key /\ session[q].key # chan[q][i + d].key
        /\ ~SealedWith(q, chan[q][i + d].key)
        /\ \A j \in Nat : M1At(q, j) /\ chan[q][j].key = chan[q][i + d].key => i + d = j
    BY <2>2 DEF ResponderInv
  <2>5. ASSUME NEW j \in Nat, M1At(q, j)', chan'[q][j].key = chan'[q][i].key
        PROVE  i = j
    <3>1. M1At(q, j + d) /\ chan'[q][j] = chan[q][j + d] /\ j + d \in Nat
      BY <2>1, <2>5
    <3>2. i + d = j + d
      BY <2>2, <2>4, <2>5, <3>1
    <3>3. QED
      BY <3>2
  <2>6. QED
    BY <2>2, <2>3, <2>4, <2>5, Constructed, Senders DEF SealedWith, SessionsKept, RecvKept
<1>3. ASSUME NEW q \in Peers, recv'[q].step # "wait"
      PROVE  session'[q].key # recv'[q].key /\ ~SealedWith(q, recv[q].key)'
  <2>1. recv[q].step # "wait" /\ recv'[q].key = recv[q].key /\ recv[q].key \in Msgs
    BY <1>3 DEF Formed, RecvKept
  <2>2. QED
    BY <2>1, Senders DEF ResponderInv, SealedWith, SessionsKept
<1>4. QED
  BY <1>1, <1>2, <1>3 DEF ResponderInv

LEMMA QuietCount ==
    ASSUME CountInv, NonceUnique, seal' = seal, SessionsKept
    PROVE  CountInv' /\ NonceUnique'
<1>1. ASSUME NEW m \in Msgs, Sealed(m)', session'[From[m]].phase = "established",
             session'[From[m]].key = seal'[m].key
      PROVE  seal'[m].n < session'[From[m]].out
  <2>1. /\ session'[From[m]].key = session[From[m]].key
        /\ session'[From[m]].out = session[From[m]].out
        /\ session[From[m]].phase = "established"
    BY <1>1, Senders DEF SessionsKept
  <2>2. QED
    BY <1>1, <2>1 DEF CountInv, Sealed
<1>2. QED
  BY <1>1 DEF CountInv, NonceUnique, Sealed

LEMMA QuietKeys ==
    ASSUME KeyInv, seal' = seal, SessionsKept, RecvKept, ChanKept, TasksKept
    PROVE  KeyInv'
  BY QuietFormed, QuietInitiator, QuietResponder, QuietCount DEF KeyInv

LEMMA SameKept ==
    /\ Formed /\ session' = session => SessionsKept
    /\ Formed /\ recv' = recv => RecvKept
    /\ chan' = chan => ChanKept
    /\ task' = task => TasksKept
<1>1. ASSUME chan' = chan PROVE ChanKept
  <2>1. \A q \in Peers : \A i \in Nat : M1At(q, i)' => M1At(q, i + 0) /\ chan'[q][i] = chan[q][i + 0]
    BY <1>1 DEF M1At
  <2>2. QED
    BY <2>1 DEF ChanKept
<1>2. QED
  BY <1>1 DEF SessionsKept, RecvKept, TasksKept, Formed

LEMMA TakeKept ==
    ASSUME TypeOK, NEW p \in Peers, chan[p] # << >>, Take(p)
    PROVE  /\ ChanKept
           /\ \A i \in Nat : M1At(p, i)' => M1At(p, i + 1) /\ chan'[p][i] = chan[p][i + 1]
           /\ \A q \in Peers \ {p} : chan'[q] = chan[q]
<1>1. \A i \in Nat : M1At(p, i)' => M1At(p, i + 1) /\ chan'[p][i] = chan[p][i + 1]
  BY TakeChan DEF M1At
<1>2. \A q \in Peers \ {p} : chan'[q] = chan[q]
  BY TakeChan
<1>3. \A q \in Peers \ {p} : \A i \in Nat :
        M1At(q, i)' => M1At(q, i + 0) /\ chan'[q][i] = chan[q][i + 0]
  BY <1>2 DEF M1At
<1>4. QED
  BY <1>1, <1>2, <1>3 DEF ChanKept

LEMMA PutKept ==
    ASSUME TypeOK, NEW p \in Peers, NEW packet \in Packets, packet.kind # "m1", Put(p, packet)
    PROVE  ChanKept
<1>1. \A q \in Peers : \A i \in Nat :
        M1At(q, i)' => M1At(q, i + 0) /\ chan'[q][i] = chan[q][i + 0]
  BY PutChan DEF M1At
<1>2. QED
  BY <1>1 DEF ChanKept

-----------------------------------------------------------------------------
(* Steps that put a key to use *)

\* The first message of a handshake is the first use of its key at the other peer.
LEMMA BeginKeys ==
    ASSUME IInv, NEW m \in Msgs, Begin(m), Put(Other(From[m]), M1(m)),
           NEW step \in {"pend", "mailbox"}, Goto(m, step)
    PROVE  KeyInv'
<1> DEFINE o == Other(From[m])
<1>1. /\ TypeOK /\ Formed /\ InitiatorInv /\ ResponderInv /\ CountInv /\ NonceUnique
  BY DEF IInv, KeyInv
<1>2. o \in Peers /\ o # From[m] /\ None \notin Msgs
  BY Senders, OtherPeer
<1>3. session' = session /\ recv' = recv /\ seal' = seal
  BY DEF Begin, loop
<1>4. /\ M1(m) \in Packets /\ M1(m).kind = "m1" /\ M1(m).key = m
  BY Constructed
<1>5. /\ task[m] \in Early /\ task'[m] = step
      /\ \A h \in Msgs : task'[h] \in Early => task[h] \in Early /\ h # m
      /\ \A h \in Msgs : h # m => task'[h] = task[h]
  BY <1>1 DEF TypeOK, Begin, Goto, Early
<1>6. TasksKept
  BY <1>5 DEF TasksKept, Unset, Early
<1>7. SessionsKept
  BY <1>1, <1>3, SameKept
<1>8. /\ \A i \in Nat : M1At(o, i)' =>
           \/ M1At(o, i) /\ chan'[o][i] = chan[o][i]
           \/ i = Len(chan[o]) + 1 /\ chan'[o][i].key = m
      /\ \A q \in Peers \ {o} : chan'[q] = chan[q]
  BY <1>1, <1>2, <1>4, PutChan DEF M1At
<1>9. Formed'
  <2>1. ASSUME NEW q \in Peers, NEW i \in Nat, M1At(q, i)'
        PROVE  chan'[q][i].key \in Msgs /\ From[chan'[q][i].key] # q
    BY <1>1, <1>2, <1>8, <2>1 DEF Formed, M1At
  <2>2. QED
    BY <1>1, <1>3, <1>6, <2>1 DEF Formed, TasksKept
<1>10. ResponderInv'
  <2>1. /\ \A i \in Nat : M1At(o, i) => chan[o][i].key # m
        /\ recv[o].key # m /\ session[o].key # m /\ ~SealedWith(o, m)
    BY <1>1, <1>2, <1>5 DEF ResponderInv
  <2>2. ASSUME NEW h \in Msgs, NEW q \in Peers, task'[h] \in Early, q # From[h]
        PROVE  /\ \A i \in Nat : M1At(q, i)' => chan'[q][i].key # h
               /\ recv'[q].key # h /\ session'[q].key # h /\ ~SealedWith(q, h)'
    BY <1>1, <1>3, <1>5, <1>8, <2>2 DEF ResponderInv, SealedWith, M1At
  <2>3. ASSUME NEW q \in Peers, NEW i \in Nat, M1At(q, i)'
        PROVE  /\ recv'[q].key # chan'[q][i].key /\ session'[q].key # chan'[q][i].key
               /\ ~SealedWith(q, chan[q][i].key)'
    BY <1>1, <1>2, <1>3, <1>8, <2>1, <2>3 DEF ResponderInv, SealedWith, M1At
  <2>4. ASSUME NEW q \in Peers, NEW i \in Nat, M1At(q, i)',
               NEW j \in Nat, M1At(q, j)', chan'[q][j].key = chan'[q][i].key
        PROVE  i = j
    <3>1. CASE q # o
      <4>1. M1At(q, i) /\ M1At(q, j) /\ chan[q][j].key = chan[q][i].key
        BY <1>8, <2>4, <3>1 DEF M1At
      <4>2. QED
        BY <1>1, <2>4, <4>1 DEF ResponderInv
    <3>2. CASE q = o
      <4>1. CASE M1At(o, i) /\ M1At(o, j) /\ chan[o][j].key = chan[o][i].key
        BY <1>1, <1>2, <4>1 DEF ResponderInv
      <4>2. CASE i = Len(chan[o]) + 1 /\ j = Len(chan[o]) + 1
        BY <4>2
      <4>3. QED
        BY <1>8, <2>1, <2>4, <3>2, <4>1, <4>2
    <3>3. QED
      BY <3>1, <3>2
  <2>5. \A q \in Peers : recv'[q].step # "wait" =>
          session'[q].key # recv'[q].key /\ ~SealedWith(q, recv[q].key)'
    BY <1>1, <1>3 DEF ResponderInv, SealedWith
  <2>6. QED
    BY <2>2, <2>3, <2>4, <2>5 DEF ResponderInv
<1>11. QED
  BY <1>1, <1>3, <1>6, <1>7, <1>9, <1>10, QuietInitiator, QuietCount DEF KeyInv

\* A session is pending with a key that the initiator has not encrypted with.
LEMMA PendingKeys ==
    ASSUME IInv, NEW m \in Msgs, SetPending(m)
    PROVE  KeyInv'
<1> DEFINE p == From[m]
<1>1. /\ TypeOK /\ Formed /\ InitiatorInv /\ ResponderInv /\ CountInv /\ NonceUnique
  BY DEF IInv, KeyInv
<1>2. p \in Peers /\ None \notin Msgs
  BY Senders
<1>3. chan' = chan /\ recv' = recv /\ seal' = seal
  BY DEF SetPending, loop
<1>4. /\ session'[p].phase = "pending" /\ session'[p].key = m
      /\ \A q \in Peers \ {p} : session'[q] = session[q]
  BY <1>1, <1>2, Constructed DEF TypeOK, SetPending
<1>5. /\ task[m] \in Unset /\ task'[m] = "wait"
      /\ \A h \in Msgs : task'[h] \in Unset => task[h] \in Unset /\ h # m
      /\ \A h \in Msgs : task'[h] \in Early => task[h] \in Early /\ h # m
      /\ \A h \in Msgs : task'[h] = "put" => task[h] = "put"
  BY <1>1 DEF TypeOK, SetPending, Goto, Unset, Early
<1>7. Formed'
  BY <1>1, <1>3, <1>4, <1>5 DEF Formed, M1At
<1>8. InitiatorInv'
  <2>1. ~SealedWith(p, m)
    BY <1>1, <1>5 DEF InitiatorInv
  <2>2. ASSUME NEW q \in Peers, session'[q].phase = "pending"
        PROVE  task'[session'[q].key] \notin Unset /\ ~SealedWith(q, session[q].key)'
    <3>1. CASE q = p
      BY <1>3, <1>4, <1>5, <2>1, <3>1 DEF SealedWith, Unset, Early
    <3>2. CASE q # p
      <4>1. session[q].phase = "pending" /\ session'[q] = session[q] /\ session[q].key \in Msgs
        BY <1>1, <1>4, <2>2, <3>2 DEF Formed
      <4>2. QED
        BY <1>1, <1>3, <1>5, <4>1 DEF InitiatorInv, SealedWith
    <3>3. QED
      BY <3>1, <3>2
  <2>3. ASSUME NEW h \in Msgs, task'[h] \in Unset
        PROVE  session'[From[h]].key # h /\ ~SealedWith(From[h], h)'
    BY <1>1, <1>3, <1>4, <1>5, <2>3, Senders DEF InitiatorInv, SealedWith
  <2>4. QED
    BY <2>2, <2>3 DEF InitiatorInv
<1>9. ResponderInv'
  <2>1. ASSUME NEW h \in Msgs, NEW q \in Peers, task'[h] \in Early, q # From[h]
        PROVE  /\ \A i \in Nat : M1At(q, i)' => chan'[q][i].key # h
               /\ recv'[q].key # h /\ session'[q].key # h /\ ~SealedWith(q, h)'
    BY <1>1, <1>3, <1>4, <1>5, <2>1 DEF ResponderInv, SealedWith, M1At
  <2>2. ASSUME NEW q \in Peers, NEW i \in Nat, M1At(q, i)'
        PROVE  /\ recv'[q].key # chan'[q][i].key /\ session'[q].key # chan'[q][i].key
               /\ ~SealedWith(q, chan[q][i].key)'
               /\ \A j \in Nat : M1At(q, j)' /\ chan'[q][j].key = chan'[q][i].key => i = j
    <3>1. M1At(q, i) /\ From[chan[q][i].key] # q
      BY <1>1, <1>3, <2>2 DEF Formed, M1At
    <3>2. QED
      BY <1>1, <1>3, <1>4, <3>1 DEF ResponderInv, SealedWith, M1At
  <2>3. ASSUME NEW q \in Peers, recv'[q].step # "wait"
        PROVE  session'[q].key # recv'[q].key /\ ~SealedWith(q, recv[q].key)'
    <3>1. From[recv[q].key] # q
      BY <1>1, <1>3, <2>3 DEF Formed
    <3>2. QED
      BY <1>1, <1>3, <1>4, <2>3, <3>1 DEF ResponderInv, SealedWith
  <2>4. QED
    BY <2>1, <2>2, <2>3 DEF ResponderInv
<1>10. CountInv' /\ NonceUnique'
  BY <1>1, <1>3, <1>4, Senders DEF CountInv, NonceUnique, Sealed
<1>11. QED
  BY <1>7, <1>8, <1>9, <1>10 DEF KeyInv

\* The key and the count of a packet are those of the session, which moves on.
LEMMA EncryptKeys ==
    ASSUME IInv, NEW m \in Msgs, Encrypt(m), session[From[m]].phase = "established"
    PROVE  KeyInv'
<1> DEFINE p == From[m]
<1>1. /\ TypeOK /\ Formed /\ InitiatorInv /\ ResponderInv /\ CountInv /\ NonceUnique
  BY DEF IInv, KeyInv
<1>2. p \in Peers /\ session[p] \in Sessions /\ session[p].out \in Nat
  BY <1>1, Senders DEF TypeOK, Sessions
<1>3. chan' = chan /\ recv' = recv
  BY DEF Encrypt, loop
<1>4. /\ \A q \in Peers : session'[q].phase = session[q].phase /\ session'[q].key = session[q].key
      /\ session'[p].out = session[p].out + 1
      /\ \A q \in Peers \ {p} : session'[q] = session[q]
  <2>1. session' = [session EXCEPT ![p] = [session[p] EXCEPT !.out = session[p].out + 1]]
    BY DEF Encrypt
  <2>2. session'[p] = [session[p] EXCEPT !.out = session[p].out + 1]
    BY <1>1, <1>2, <2>1 DEF TypeOK
  <2>3. \A q \in Peers \ {p} : session'[q] = session[q]
    BY <1>1, <1>2, <2>1 DEF TypeOK
  <2>4. /\ session'[p].phase = session[p].phase /\ session'[p].key = session[p].key
        /\ session'[p].out = session[p].out + 1
    BY <1>2, <2>2 DEF Sessions
  <2>5. QED
    BY <2>3, <2>4
<1>5. /\ task'[m] = "put" /\ \A h \in Msgs : h # m => task'[h] = task[h]
      /\ \A h \in Msgs : task'[h] \in Unset => task[h] \in Unset
      /\ \A h \in Msgs : task'[h] \in Early => task[h] \in Early
  BY <1>1 DEF TypeOK, Encrypt, Goto, Unset, Early
<1>6. /\ seal'[m].key = session[p].key /\ seal'[m].n = session[p].out
      /\ \A k \in Msgs \ {m} : seal'[k] = seal[k]
  BY <1>1 DEF TypeOK, Encrypt
<1>7. session[p].key \in Msgs /\ session[p].key # None
  BY <1>1, <1>2, Senders DEF Formed
<1>8. \A k \in Msgs : seal'[k] = seal[k] \/ (From[k] = p /\ seal'[k].key = session[p].key)
  <2>1. ASSUME NEW k \in Msgs
        PROVE  seal'[k] = seal[k] \/ (From[k] = p /\ seal'[k].key = session[p].key)
    <3>1. CASE k = m
      BY <1>6, <3>1
    <3>2. CASE k # m
      BY <1>6, <3>2
    <3>3. QED
      BY <3>1, <3>2
  <2>2. QED
    BY <2>1
<1>9. Formed'
  BY <1>1, <1>3, <1>4, <1>5, <1>6, <1>7 DEF Formed, M1At
<1>10. InitiatorInv'
  <2>1. ASSUME NEW q \in Peers, session'[q].phase = "pending"
        PROVE  task'[session'[q].key] \notin Unset /\ ~SealedWith(q, session[q].key)'
    <3>1. /\ session[q].phase = "pending" /\ session'[q].key = session[q].key
          /\ session[q].key \in Msgs /\ q # p
      BY <1>1, <1>4, <2>1 DEF Formed
    <3>2. ~SealedWith(q, session[q].key)'
      BY <1>1, <1>4, <1>6, <3>1 DEF InitiatorInv, SealedWith
    <3>3. QED
      BY <1>1, <1>5, <3>1, <3>2 DEF InitiatorInv
  <2>2. ASSUME NEW h \in Msgs, task'[h] \in Unset
        PROVE  session'[From[h]].key # h /\ ~SealedWith(From[h], h)'
    BY <1>1, <1>4, <1>5, <1>8, <2>2, Senders DEF InitiatorInv, SealedWith
  <2>3. QED
    BY <2>1, <2>2 DEF InitiatorInv
<1>11. ResponderInv'
  <2>1. ASSUME NEW h \in Msgs, NEW q \in Peers, task'[h] \in Early, q # From[h]
        PROVE  /\ \A i \in Nat : M1At(q, i)' => chan'[q][i].key # h
               /\ recv'[q].key # h /\ session'[q].key # h /\ ~SealedWith(q, h)'
    BY <1>1, <1>3, <1>4, <1>5, <1>8, <2>1 DEF ResponderInv, M1At, SealedWith
  <2>2. ASSUME NEW q \in Peers, NEW i \in Nat, M1At(q, i)'
        PROVE  /\ recv'[q].key # chan'[q][i].key /\ session'[q].key # chan'[q][i].key
               /\ ~SealedWith(q, chan[q][i].key)'
               /\ \A j \in Nat : M1At(q, j)' /\ chan'[q][j].key = chan'[q][i].key => i = j
    <3>1. M1At(q, i) /\ chan[q][i].key \in Msgs
      BY <1>1, <1>3, <2>2 DEF Formed, M1At
    <3>2. ~SealedWith(q, chan[q][i].key)'
      BY <1>1, <1>3, <1>6, <3>1 DEF ResponderInv, SealedWith
    <3>3. QED
      BY <1>1, <1>3, <1>4, <3>1, <3>2 DEF ResponderInv, M1At
  <2>3. ASSUME NEW q \in Peers, recv'[q].step # "wait"
        PROVE  session'[q].key # recv'[q].key /\ ~SealedWith(q, recv[q].key)'
    BY <1>1, <1>3, <1>4, <1>6, <2>3 DEF ResponderInv, SealedWith
  <2>4. QED
    BY <2>1, <2>2, <2>3 DEF ResponderInv
<1>12. CountInv'
  <2>1. ASSUME NEW k \in Msgs, Sealed(k)', session'[From[k]].phase = "established",
               session'[From[k]].key = seal'[k].key
        PROVE  seal'[k].n < session'[From[k]].out
    <3>1. CASE k = m
      BY <1>2, <1>4, <1>6, <3>1
    <3>2. CASE k # m
      <4>1. seal[k].n < session[From[k]].out
        BY <1>1, <1>4, <1>6, <2>1, <3>2, Senders DEF CountInv, Sealed
      <4>2. seal[k].n \in Nat /\ seal'[k] = seal[k]
        BY <1>1, <1>6, <3>2 DEF TypeOK
      <4>3. QED
        BY <1>2, <1>4, <4>1, <4>2, Senders
    <3>3. QED
      BY <3>1, <3>2
  <2>2. QED
    BY <2>1 DEF CountInv
<1>13. NonceUnique'
  <2>1. ASSUME NEW k \in Msgs, k # m, Sealed(k), From[k] = p PROVE seal[k] # seal'[m]
    <3>1. seal[k].key = session[p].key => seal[k].n < session[p].out /\ seal[k].n \in Nat
      BY <1>1, <2>1 DEF CountInv, TypeOK
    <3>2. QED
      BY <1>2, <1>6, <3>1
  <2>2. QED
    BY <1>1, <1>6, <2>1 DEF NonceUnique, Sealed
<1>14. QED
  BY <1>9, <1>10, <1>11, <1>12, <1>13 DEF KeyInv

\* The answer to a first message is the only one.
LEMMA AnswerKeys ==
    ASSUME IInv, NEW p \in Peers, ReceiveM1(p), session[p].phase # "pending"
    PROVE  KeyInv'
<1>1. /\ TypeOK /\ Formed /\ InitiatorInv /\ ResponderInv /\ CountInv /\ NonceUnique
  BY DEF IInv, KeyInv
<1>2. chan[p] # << >> /\ Take(p) /\ Head(chan[p]).kind = "m1"
  BY DEF ReceiveM1, NextTo
<1>3. /\ \A i \in Nat : M1At(p, i)' => M1At(p, i + 1) /\ chan'[p][i] = chan[p][i + 1]
      /\ \A q \in Peers \ {p} : chan'[q] = chan[q]
      /\ ChanKept
  BY <1>1, <1>2, TakeKept
<1>4. session' = session /\ task' = task /\ seal' = seal
  BY DEF ReceiveM1
<1>5. M1At(p, 1) /\ Head(chan[p]) = chan[p][1] /\ 1 \in Nat
  BY <1>1, <1>2, TakeChan DEF M1At
<1>6. /\ recv'[p].step = "answer" /\ recv'[p].key = chan[p][1].key
      /\ \A q \in Peers \ {p} : recv'[q] = recv[q]
  BY <1>1, <1>5 DEF TypeOK, ReceiveM1
<1>7. /\ chan[p][1].key \in Msgs /\ From[chan[p][1].key] # p
      /\ session[p].key # chan[p][1].key /\ ~SealedWith(p, chan[p][1].key)
      /\ \A j \in Nat : M1At(p, j) /\ chan[p][j].key = chan[p][1].key => 1 = j
  BY <1>1, <1>5 DEF Formed, ResponderInv
<1>8. \A q \in Peers, i \in Nat : M1At(q, i)' =>
        /\ chan'[q][i].key \in Msgs /\ From[chan'[q][i].key] # q
        /\ session[q].key # chan'[q][i].key /\ ~SealedWith(q, chan'[q][i].key)
        /\ recv'[q].key # chan'[q][i].key
  <2>1. ASSUME NEW q \in Peers, NEW i \in Nat, M1At(q, i)', q # p
        PROVE  /\ chan'[q][i].key \in Msgs /\ From[chan'[q][i].key] # q
               /\ session[q].key # chan'[q][i].key /\ ~SealedWith(q, chan'[q][i].key)
               /\ recv'[q].key # chan'[q][i].key
    <3>1. M1At(q, i) /\ chan'[q][i] = chan[q][i]
      BY <1>3, <2>1 DEF M1At
    <3>2. QED
      BY <1>1, <1>6, <2>1, <3>1 DEF Formed, ResponderInv
  <2>2. ASSUME NEW i \in Nat, M1At(p, i)'
        PROVE  /\ chan'[p][i].key \in Msgs /\ From[chan'[p][i].key] # p
               /\ session[p].key # chan'[p][i].key /\ ~SealedWith(p, chan'[p][i].key)
               /\ recv'[p].key # chan'[p][i].key
    <3>1. M1At(p, i + 1) /\ chan'[p][i] = chan[p][i + 1] /\ i + 1 \in Nat /\ i + 1 # 1
      <4>1. M1At(p, i + 1) /\ chan'[p][i] = chan[p][i + 1]
        BY <1>3, <2>2
      <4>2. i + 1 \in Nat /\ i # 0
        BY <2>2 DEF M1At
      <4>3. QED
        BY <4>1, <4>2
    <3>2. QED
      BY <1>1, <1>6, <1>7, <3>1 DEF Formed, ResponderInv
  <2>3. QED
    BY <2>1, <2>2
<1>9. Formed'
  BY <1>1, <1>4, <1>6, <1>7, <1>8 DEF Formed, SealedWith
<1>10. ResponderInv'
  <2>1. ASSUME NEW h \in Msgs, NEW q \in Peers, task'[h] \in Early, q # From[h]
        PROVE  /\ \A i \in Nat : M1At(q, i)' => chan'[q][i].key # h
               /\ recv'[q].key # h /\ session'[q].key # h /\ ~SealedWith(q, h)'
    BY <1>1, <1>3, <1>4, <1>5, <1>6, <2>1 DEF ResponderInv, SealedWith, ChanKept
  <2>2. ASSUME NEW q \in Peers, NEW i \in Nat, M1At(q, i)',
               NEW j \in Nat, M1At(q, j)', chan'[q][j].key = chan'[q][i].key
        PROVE  i = j
    <3>1. PICK d \in {0, 1} : \A k \in Nat :
            M1At(q, k)' => M1At(q, k + d) /\ chan'[q][k] = chan[q][k + d]
      BY <1>3 DEF ChanKept
    <3>2. /\ M1At(q, i + d) /\ chan'[q][i] = chan[q][i + d] /\ i + d \in Nat
          /\ M1At(q, j + d) /\ chan'[q][j] = chan[q][j + d] /\ j + d \in Nat
      BY <2>2, <3>1
    <3>3. i + d = j + d
      BY <1>1, <2>2, <3>2 DEF ResponderInv
    <3>4. QED
      BY <3>3
  <2>3. ASSUME NEW q \in Peers, recv'[q].step # "wait"
        PROVE  session'[q].key # recv'[q].key /\ ~SealedWith(q, recv[q].key)'
    BY <1>1, <1>4, <1>6, <1>7, <2>3 DEF ResponderInv, SealedWith
  <2>4. \A q \in Peers, i \in Nat : M1At(q, i)' => ~SealedWith(q, chan[q][i].key)'
    BY <1>4, <1>8 DEF SealedWith
  <2>5. QED
    BY <1>4, <1>8, <2>1, <2>2, <2>3, <2>4 DEF ResponderInv
<1>11. QED
  BY <1>1, <1>4, <1>9, <1>10, SameKept, QuietInitiator, QuietCount DEF KeyInv

\* The responder's session has a key it has not encrypted with.
LEMMA CommitKeys ==
    ASSUME IInv, NEW p \in Peers, Commit(p)
    PROVE  KeyInv'
<1>1. /\ TypeOK /\ Formed /\ InitiatorInv /\ ResponderInv /\ CountInv /\ NonceUnique
  BY DEF IInv, KeyInv
<1>2. chan' = chan /\ task' = task /\ seal' = seal
  BY DEF Commit
<1>3. /\ recv[p].step # "wait" /\ recv[p].key \in Msgs /\ From[recv[p].key] # p
      /\ ~SealedWith(p, recv[p].key) /\ recv[p].key # None
  BY <1>1, Senders DEF Commit, Formed, ResponderInv
<1>4. /\ session'[p].phase = "established" /\ session'[p].key = recv[p].key
      /\ \A q \in Peers \ {p} : session'[q] = session[q]
  BY <1>1, <1>3, Constructed DEF TypeOK, Commit
<1>5. recv'[p] = Waiting /\ \A q \in Peers \ {p} : recv'[q] = recv[q]
  BY <1>1 DEF TypeOK, Commit
<1>6. Formed'
  BY <1>1, <1>2, <1>3, <1>4, <1>5, Constructed DEF Formed, M1At
<1>7. InitiatorInv'
  <2>1. \A q \in Peers : session'[q].phase = "pending" => q # p /\ session'[q] = session[q]
    BY <1>4
  <2>2. QED
    BY <1>1, <1>2, <1>3, <1>4, <2>1, Senders DEF InitiatorInv, SealedWith
<1>8. ResponderInv'
  <2>1. ASSUME NEW h \in Msgs, NEW q \in Peers, task'[h] \in Early, q # From[h]
        PROVE  /\ \A i \in Nat : M1At(q, i)' => chan'[q][i].key # h
               /\ recv'[q].key # h /\ session'[q].key # h /\ ~SealedWith(q, h)'
    BY <1>1, <1>2, <1>4, <1>5, <2>1, Constructed, Senders DEF ResponderInv, SealedWith, M1At
  <2>2. ASSUME NEW q \in Peers, NEW i \in Nat, M1At(q, i)'
        PROVE  /\ recv'[q].key # chan'[q][i].key /\ session'[q].key # chan'[q][i].key
               /\ ~SealedWith(q, chan[q][i].key)'
               /\ \A j \in Nat : M1At(q, j)' /\ chan'[q][j].key = chan'[q][i].key => i = j
    <3>1. M1At(q, i) /\ chan[q][i].key \in Msgs
      BY <1>1, <1>2, <2>2 DEF Formed, M1At
    <3>2. QED
      BY <1>1, <1>2, <1>4, <1>5, <3>1, Constructed, Senders DEF ResponderInv, SealedWith, M1At
  <2>3. ASSUME NEW q \in Peers, recv'[q].step # "wait"
        PROVE  session'[q].key # recv'[q].key /\ ~SealedWith(q, recv[q].key)'
    BY <1>1, <1>2, <1>4, <1>5, <2>3, Constructed DEF ResponderInv, SealedWith
  <2>4. QED
    BY <2>1, <2>2, <2>3 DEF ResponderInv
<1>9. CountInv'
  <2>1. ASSUME NEW k \in Msgs, Sealed(k)', session'[From[k]].phase = "established",
               session'[From[k]].key = seal'[k].key
        PROVE  seal'[k].n < session'[From[k]].out
    <3>1. From[k] # p
      BY <1>2, <1>3, <1>4, <2>1 DEF SealedWith
    <3>2. QED
      BY <1>1, <1>2, <1>4, <2>1, <3>1, Senders DEF CountInv, Sealed
  <2>2. QED
    BY <2>1 DEF CountInv
<1>10. QED
  BY <1>1, <1>2, <1>6, <1>7, <1>8, <1>9 DEF KeyInv, NonceUnique, Sealed

\* The pending session becomes one that has encrypted nothing.
LEMMA CompleteKeys ==
    ASSUME IInv, NEW p \in Peers, ReceiveM2(p), session' # session
    PROVE  KeyInv'
<1> DEFINE h == session[p].key
<1>1. /\ TypeOK /\ Formed /\ InitiatorInv /\ ResponderInv /\ CountInv /\ NonceUnique
  BY DEF IInv, KeyInv
<1>2. recv' = recv /\ task' = task /\ seal' = seal /\ ChanKept
  BY <1>1, TakeKept DEF ReceiveM2, NextTo
<1>3. /\ session[p].phase = "pending"
      /\ session'[p].phase = "established" /\ session'[p].key = h
      /\ \A q \in Peers \ {p} : session'[q] = session[q]
  <2>1. Head(chan[p]).key \in Msgs
    BY <1>1, TakeChan DEF ReceiveM2, NextTo, Packets
  <2>2. QED
    BY <1>1, <2>1, Constructed DEF TypeOK, ReceiveM2
<1>4. h \in Msgs /\ From[h] = p /\ ~SealedWith(p, h) /\ task[h] \notin Unset
  BY <1>1, <1>3 DEF Formed, InitiatorInv
<1>5. \A q \in Peers : session'[q].key = session[q].key
  BY <1>3
<1>6. RecvKept /\ TasksKept
  BY <1>1, <1>2, SameKept
<1>7. Formed'
  BY <1>1, <1>2, <1>3, <1>4, <1>6 DEF Formed, ChanKept
<1>8. InitiatorInv'
  <2>1. \A q \in Peers : session'[q].phase = "pending" => session'[q] = session[q]
    BY <1>3
  <2>2. QED
    BY <1>1, <1>2, <1>5, <2>1, Senders DEF InitiatorInv, SealedWith
<1>9. ResponderInv'
  <2>1. ASSUME NEW k \in Msgs, NEW q \in Peers, task'[k] \in Early, q # From[k]
        PROVE  /\ \A i \in Nat : M1At(q, i)' => chan'[q][i].key # k
               /\ recv'[q].key # k /\ session'[q].key # k /\ ~SealedWith(q, k)'
    BY <1>1, <1>2, <1>5, <2>1 DEF ResponderInv, SealedWith, ChanKept
  <2>2. ASSUME NEW q \in Peers, NEW i \in Nat, M1At(q, i)'
        PROVE  /\ recv'[q].key # chan'[q][i].key /\ session'[q].key # chan'[q][i].key
               /\ ~SealedWith(q, chan[q][i].key)'
               /\ \A j \in Nat : M1At(q, j)' /\ chan'[q][j].key = chan'[q][i].key => i = j
    <3>1. PICK d \in {0, 1} : \A k \in Nat :
            M1At(q, k)' => M1At(q, k + d) /\ chan'[q][k] = chan[q][k + d]
      BY <1>2 DEF ChanKept
    <3>2. M1At(q, i + d) /\ chan'[q][i] = chan[q][i + d] /\ i + d \in Nat
      BY <2>2, <3>1
    <3>3. /\ recv[q].key # chan[q][i + d].key /\ session[q].key # chan[q][i + d].key
          /\ ~SealedWith(q, chan[q][i + d].key)
          /\ \A j \in Nat : M1At(q, j) /\ chan[q][j].key = chan[q][i + d].key => i + d = j
      BY <1>1, <3>2 DEF ResponderInv
    <3>4. ASSUME NEW j \in Nat, M1At(q, j)', chan'[q][j].key = chan'[q][i].key
          PROVE  i = j
      <4>1. M1At(q, j + d) /\ chan'[q][j] = chan[q][j + d] /\ j + d \in Nat
        BY <3>1, <3>4
      <4>2. i + d = j + d
        BY <3>2, <3>3, <3>4, <4>1
      <4>3. QED
        BY <4>2
    <3>5. QED
      BY <1>2, <1>5, <3>2, <3>3, <3>4 DEF SealedWith
  <2>3. \A q \in Peers : recv'[q].step # "wait" =>
          session'[q].key # recv'[q].key /\ ~SealedWith(q, recv[q].key)'
    BY <1>1, <1>2, <1>5 DEF ResponderInv, SealedWith
  <2>4. QED
    BY <2>1, <2>2, <2>3 DEF ResponderInv
<1>10. CountInv'
  <2>1. ASSUME NEW k \in Msgs, Sealed(k)', session'[From[k]].phase = "established",
               session'[From[k]].key = seal'[k].key
        PROVE  seal'[k].n < session'[From[k]].out
    <3>1. From[k] # p
      BY <1>2, <1>3, <1>4, <2>1 DEF SealedWith
    <3>2. QED
      BY <1>1, <1>2, <1>3, <2>1, <3>1, Senders DEF CountInv, Sealed
  <2>2. QED
    BY <2>1 DEF CountInv
<1>11. QED
  BY <1>1, <1>2, <1>7, <1>8, <1>9, <1>10 DEF KeyInv, NonceUnique, Sealed

-----------------------------------------------------------------------------
(* The keys of the other steps, and the routes *)

LEMMA TaskKeys ==
    ASSUME IInv, NEW m \in Msgs, TaskStep(m) \/ KeyUnavailable(m)
    PROVE  KeyInv'
<1> DEFINE p == From[m]
<1>1. TypeOK /\ Formed /\ KeyInv
  BY DEF IInv, KeyInv
<1>2. p \in Peers /\ Other(p) \in Peers
  BY Senders, OtherPeer
<1>3. ASSUME NEW step, Goto(m, step), step \notin Unset \cup {"put"} PROVE TasksKept
  BY <1>1, <1>3 DEF TasksKept, Goto, TypeOK, Unset
<1>4. CASE KeyUnavailable(m)
  <2>1. SessionsKept
    BY <1>1, <1>2, <1>4, Constructed DEF SessionsKept, KeyUnavailable, TypeOK, Formed
  <2>2. TasksKept
    BY <1>3, <1>4 DEF KeyUnavailable, Unset, Early
  <2>3. QED
    BY <1>1, <1>4, <2>1, <2>2, SameKept, QuietKeys DEF KeyUnavailable, loop
<1>5. CASE Check(m)
  <2>1. TasksKept
    BY <1>1, <1>5 DEF TasksKept, Check, Goto, TypeOK, Unset, Early
  <2>2. QED
    BY <1>1, <1>5, <2>1, SameKept, QuietKeys DEF Check, loop
<1>6. CASE Demote(m)
  <2>1. TasksKept
    BY <1>1, <1>6 DEF TasksKept, Demote, Goto, TypeOK, Unset, Early
  <2>2. SessionsKept
    BY <1>1, <1>2, <1>6, Constructed DEF SessionsKept, Demote, TypeOK, Formed
  <2>3. QED
    BY <1>1, <1>6, <2>1, <2>2, SameKept, QuietKeys DEF Demote, loop
<1>7. CASE Begin(m)
  <2>1. ASSUME NEW step \in {"pend", "mailbox"}, Put(Other(p), M1(m)), Goto(m, step)
        PROVE  KeyInv'
    BY <1>7, <2>1, BeginKeys
  <2>2. CASE Goto(m, "mailbox") /\ chan' = chan
    <3>1. TasksKept
      BY <1>3, <2>2 DEF Unset, Early
    <3>2. QED
      BY <1>1, <1>7, <2>2, <3>1, SameKept, QuietKeys DEF Begin, loop
  <2>3. QED
    BY <1>7, <2>1, <2>2 DEF Begin, HalfPut
<1>8. CASE SetPending(m)
  BY <1>8, PendingKeys
<1>9. CASE Wait(m)
  <2>1. TasksKept
    BY <1>3, <1>9 DEF Wait, Unset, Early
  <2>2. QED
    BY <1>1, <1>9, <2>1, SameKept, QuietKeys DEF Wait, loop
<1>10. CASE Encrypt(m)
  <2>1. CASE session[p].phase = "established"
    BY <1>10, <2>1, EncryptKeys
  <2>2. CASE session[p].phase # "established"
    <3>1. Goto(m, "mailbox") /\ session' = session /\ seal' = seal
      BY <1>10, <2>2 DEF Encrypt
    <3>2. TasksKept
      BY <1>3, <3>1 DEF Unset, Early
    <3>3. QED
      BY <1>1, <1>10, <3>1, <3>2, SameKept, QuietKeys DEF Encrypt, loop
  <2>3. QED
    BY <2>1, <2>2
<1>11. CASE Send(m)
  <2>1. ChanKept
    BY <1>1, <1>2, <1>11, SameKept, PutKept, DataTyped DEF Send, HalfPut
  <2>2. TasksKept
    BY <1>3, <1>11 DEF Send, Unset, Early
  <2>3. QED
    BY <1>1, <1>11, <2>1, <2>2, SameKept, QuietKeys DEF Send, loop
<1>12. QED
  BY <1>4, <1>5, <1>6, <1>7, <1>8, <1>9, <1>10, <1>11 DEF TaskStep

LEMMA PeerKeys ==
    ASSUME IInv, NEW p \in Peers, LoopStep(p) \/ Age(p) \/ Lose(p) \/ Restart(p)
    PROVE  KeyInv'
<1>1. TypeOK /\ Formed /\ KeyInv /\ Other(p) \in Peers
  BY OtherPeer DEF IInv, KeyInv
<1>2. CASE ReceiveM1(p)
  <2>1. CASE session[p].phase = "pending"
    <3>1. ChanKept
      BY <1>1, <1>2, TakeKept DEF ReceiveM1, NextTo
    <3>2. QED
      BY <1>1, <1>2, <2>1, <3>1, SameKept, QuietKeys DEF ReceiveM1
  <2>2. QED
    BY <1>2, <2>1, AnswerKeys
<1>3. CASE Answer(p)
  <2>1. recv[p].step = "answer" /\ recv[p].key \in Msgs
    BY <1>1, <1>3 DEF Answer, Formed
  <2>2. ChanKept
    BY <1>1, <1>3, <2>1, Constructed, SameKept, PutKept DEF Answer, HalfPut
  <2>3. RecvKept
    <3>1. CASE recv' = [recv EXCEPT ![p].step = "commit"]
      <4>1. recv'[p].step = "commit" /\ recv'[p].key = recv[p].key
        BY <1>1, <3>1 DEF TypeOK
      <4>2. \A q \in Peers \ {p} : recv'[q] = recv[q]
        BY <1>1, <3>1 DEF TypeOK
      <4>3. QED
        BY <1>1, <2>1, <4>1, <4>2 DEF RecvKept, Formed
    <3>2. CASE recv' = [recv EXCEPT ![p] = Waiting]
      BY <1>1, <3>2, Constructed DEF RecvKept, TypeOK, Formed
    <3>3. QED
      BY <1>3, <3>1, <3>2 DEF Answer
  <2>4. QED
    BY <1>1, <1>3, <2>2, <2>3, SameKept, QuietKeys DEF Answer
<1>4. CASE Commit(p)
  BY <1>4, CommitKeys
<1>5. CASE ReceiveM2(p)
  <2>1. CASE session' = session
    <3>1. ChanKept
      BY <1>1, <1>5, TakeKept DEF ReceiveM2, NextTo
    <3>2. QED
      BY <1>1, <1>5, <2>1, <3>1, SameKept, QuietKeys DEF ReceiveM2
  <2>2. QED
    BY <1>5, <2>1, CompleteKeys
<1>6. CASE ReceiveData(p)
  <2>1. ChanKept
    BY <1>1, <1>6, TakeKept DEF ReceiveData, NextTo
  <2>2. \/ session' = session
        \/ session' = [session EXCEPT ![p] = [session[p] EXCEPT !.in = Head(chan[p]).n + 1]]
    BY <1>6 DEF ReceiveData
  <2>3. SessionsKept
    <3>1. CASE session' = session
      BY <1>1, <3>1, SameKept
    <3>2. CASE session' = [session EXCEPT ![p] = [session[p] EXCEPT !.in = Head(chan[p]).n + 1]]
      <4>1. /\ session'[p] = [session[p] EXCEPT !.in = Head(chan[p]).n + 1]
            /\ \A q \in Peers \ {p} : session'[q] = session[q]
            /\ session[p] \in Sessions
        BY <1>1, <3>2 DEF TypeOK
      <4>2. /\ session'[p].phase = session[p].phase /\ session'[p].key = session[p].key
            /\ session'[p].out = session[p].out
        BY <4>1 DEF Sessions
      <4>3. QED
        <5>1. session'[p].phase = "none" => session'[p].key = None
          BY <1>1, <4>2 DEF Formed
        <5>2. \A q \in Peers \ {p} : session'[q].phase = "none" => session'[q].key = None
          BY <1>1, <4>1 DEF Formed
        <5>3. QED
          BY <4>1, <4>2, <5>1, <5>2 DEF SessionsKept
    <3>3. QED
      BY <2>2, <3>1, <3>2
  <2>4. QED
    BY <1>1, <1>6, <2>1, <2>3, SameKept, QuietKeys DEF ReceiveData
<1>7. CASE Age(p)
  <2>1. SessionsKept
    BY <1>1, <1>7 DEF Age, SessionsKept, TypeOK, Formed, Sessions
  <2>2. QED
    BY <1>1, <1>7, <2>1, SameKept, QuietKeys DEF Age, loop
<1>8. CASE Lose(p)
  <2>1. ChanKept
    BY <1>1, <1>8, TakeKept DEF Lose
  <2>2. QED
    BY <1>1, <1>8, <2>1, SameKept, QuietKeys DEF Lose, loop
<1>9. CASE Restart(p)
  <2>1. SessionsKept
    BY <1>1, <1>9, Constructed DEF Restart, SessionsKept, TypeOK, Formed
  <2>2. RecvKept
    BY <1>1, <1>9, Constructed DEF Restart, RecvKept, TypeOK, Formed
  <2>3. ChanKept
    <3>1. chan'[p] = << >> /\ \A q \in Peers \ {p} : chan'[q] = chan[q]
      BY <1>1, <1>9 DEF Restart, TypeOK
    <3>2. \A q \in Peers, i \in Nat :
            M1At(q, i)' => M1At(q, i + 0) /\ chan'[q][i] = chan[q][i + 0]
      BY <3>1 DEF M1At
    <3>3. QED
      BY <3>2 DEF ChanKept
  <2>4. TasksKept
    BY <1>1, <1>9 DEF Restart, TasksKept, TypeOK, Unset, Early
  <2>5. QED
    BY <1>1, <1>9, <2>1, <2>2, <2>3, <2>4, QuietKeys DEF Restart
<1>10. QED
  BY <1>2, <1>3, <1>4, <1>5, <1>6, <1>7, <1>8, <1>9 DEF LoopStep

LEMMA TaskRoutes ==
    ASSUME IInv, NEW m \in Msgs, TaskStep(m) \/ KeyUnavailable(m)
    PROVE  RouteInv'
<1>1. TypeOK /\ Formed /\ RouteInv /\ From[m] \in Peers /\ Other(From[m]) \in Peers
  BY Senders, OtherPeer DEF IInv, KeyInv
<1>2. got' = got
  BY DEF TaskStep, KeyUnavailable, Check, Demote, Begin, SetPending, Wait, Encrypt, Send, loop
<1>3. task[m] \notin Away /\ \A k \in Msgs : task[k] \in Away => task'[k] = task[k]
  <2>1. task[m] \notin Away /\ \E step : Goto(m, step)
    BY DEF TaskStep, KeyUnavailable, Check, Demote, Begin, SetPending, Wait, Encrypt, Send, Away
  <2>2. QED
    BY <1>1, <2>1 DEF TypeOK, Goto
<1>4. CASE chan' = chan
  BY <1>1, <1>2, <1>3, <1>4 DEF RouteInv, At
<1>5. ASSUME NEW packet \in Packets, Put(Other(From[m]), packet),
             \A k \in Msgs : packet.msg = k => task'[k] \in Away
      PROVE  RouteInv'
  <2>1. \A p \in Peers, i \in Nat : At(p, i)' =>
          (At(p, i) /\ chan'[p][i] = chan[p][i]) \/ chan'[p][i] = packet
    BY <1>1, <1>5, PutChan DEF At
  <2>2. QED
    BY <1>1, <1>2, <1>3, <1>5, <2>1 DEF RouteInv
<1>6. CASE Begin(m)
  BY <1>4, <1>5, <1>6, Constructed, Senders DEF Begin, HalfPut
<1>7. CASE Send(m)
  <2>1. ASSUME NEW step \in Away, Put(Other(From[m]), Data(m)), Goto(m, step)
        PROVE  RouteInv'
    <3>1. Data(m) \in Packets /\ Data(m).msg = m
      BY <1>1, <1>7, DataTyped DEF Send
    <3>2. task'[m] \in Away
      BY <1>1, <2>1 DEF Goto, TypeOK
    <3>3. QED
      BY <1>5, <2>1, <3>1, <3>2
  <2>2. QED
    BY <1>4, <1>7, <2>1 DEF Send, HalfPut, Away
<1>8. QED
  BY <1>4, <1>6, <1>7
  DEF TaskStep, KeyUnavailable, Check, Demote, SetPending, Wait, Encrypt

LEMMA PeerRoutes ==
    ASSUME IInv, NEW p \in Peers, LoopStep(p) \/ Age(p) \/ Lose(p) \/ Restart(p)
    PROVE  RouteInv'
<1>1. TypeOK /\ Formed /\ RouteInv /\ Other(p) \in Peers
  BY OtherPeer DEF IInv, KeyInv
<1>2. \A k \in Msgs : task[k] \in Away => task'[k] = task[k]
  BY <1>1
  DEF TypeOK, LoopStep, ReceiveM1, Answer, Commit, ReceiveM2, ReceiveData, Age, Lose, Restart, Away
<1>3. ASSUME chan[p] # << >>, Take(p), got' = got \/ got' = got \cup {Head(chan[p]).msg}
      PROVE  RouteInv'
  <2>1. At(p, 1) /\ Head(chan[p]) = chan[p][1] /\ 1 \in Nat
    BY <1>1, <1>3, TakeChan DEF At
  <2>2. \A q \in Peers, i \in Nat : At(q, i)' =>
          \E j \in Nat : At(q, j) /\ chan'[q][i] = chan[q][j]
    BY <1>1, <1>3, TakeChan DEF At
  <2>3. QED
    BY <1>1, <1>2, <1>3, <2>1, <2>2 DEF RouteInv
<1>4. CASE ReceiveM1(p) \/ ReceiveM2(p) \/ ReceiveData(p) \/ Lose(p)
  BY <1>3, <1>4 DEF ReceiveM1, ReceiveM2, ReceiveData, Lose, NextTo, loop
<1>5. CASE Answer(p)
  <2>1. recv[p].key \in Msgs /\ got' = got
    BY <1>1, <1>5 DEF Answer, Formed
  <2>2. CASE Put(Other(p), M2(recv[p].key))
    <3>1. \A q \in Peers, i \in Nat : At(q, i)' =>
            (At(q, i) /\ chan'[q][i] = chan[q][i]) \/ chan'[q][i].msg = None
      <4>1. M2(recv[p].key) \in Packets /\ M2(recv[p].key).msg = None
        BY <2>1, Constructed
      <4>2. /\ \A i \in 1..Len(chan'[Other(p)]) :
                 \/ i \in 1..Len(chan[Other(p)]) /\ chan'[Other(p)][i] = chan[Other(p)][i]
                 \/ chan'[Other(p)][i] = M2(recv[p].key)
            /\ \A q \in Peers \ {Other(p)} : chan'[q] = chan[q]
        BY <1>1, <2>2, <4>1, PutChan
      <4>3. QED
        BY <4>1, <4>2 DEF At
    <3>2. QED
      BY <1>1, <1>2, <2>1, <3>1, Senders DEF RouteInv
  <2>3. CASE chan' = chan
    BY <1>1, <1>2, <2>1, <2>3 DEF RouteInv, At
  <2>4. QED
    BY <1>5, <2>2, <2>3 DEF Answer, HalfPut
<1>6. CASE Commit(p) \/ Age(p)
  BY <1>1, <1>2, <1>6 DEF RouteInv, At, Commit, Age, loop
<1>7. CASE Restart(p)
  <2>1. chan'[p] = << >> /\ (\A q \in Peers \ {p} : chan'[q] = chan[q]) /\ got' = got
    BY <1>1, <1>7 DEF TypeOK, Restart
  <2>2. \A q \in Peers, i \in Nat : At(q, i)' => At(q, i) /\ chan'[q][i] = chan[q][i]
    BY <2>1 DEF At
  <2>3. QED
    BY <1>1, <1>2, <2>1, <2>2 DEF RouteInv
<1>8. QED
  BY <1>4, <1>5, <1>6, <1>7 DEF LoopStep

-----------------------------------------------------------------------------
LEMMA InitIInv == Init => IInv
<1> SUFFICES ASSUME Init PROVE IInv
  OBVIOUS
<1>1. TypeOK /\ None \notin Msgs
  BY InitTypeOK, Senders
<1>2. /\ \A p \in Peers : /\ session[p] = NoSession /\ recv[p] = Waiting
                          /\ \A i \in Nat : ~At(p, i) /\ ~M1At(p, i)
      /\ \A m \in Msgs : seal[m] = Unsealed /\ task[m] = "new"
      /\ got = {}
  BY DEF Init, At, M1At
<1>3. Formed
  BY <1>2, Constructed DEF Formed
<1>4. InitiatorInv /\ ResponderInv
  BY <1>1, <1>2, Constructed, Senders DEF InitiatorInv, ResponderInv, SealedWith
<1>5. CountInv /\ NonceUnique /\ RouteInv
  BY <1>2 DEF CountInv, NonceUnique, Sealed, RouteInv
<1>6. QED
  BY <1>1, <1>3, <1>4, <1>5 DEF IInv, KeyInv

LEMMA Invariance == IInv /\ [Next]_vars => IInv'
<1> SUFFICES ASSUME IInv, [Next]_vars PROVE IInv'
  OBVIOUS
<1>1. CASE \E m \in Msgs : TaskStep(m) \/ KeyUnavailable(m)
  BY <1>1, TaskTypeOK, TaskKeys, TaskRoutes DEF IInv
<1>2. CASE \E p \in Peers : LoopStep(p) \/ Age(p) \/ Lose(p) \/ Restart(p)
  BY <1>2, PeerTypeOK, PeerKeys, PeerRoutes DEF IInv
<1>3. CASE UNCHANGED vars
  <2>1. TypeOK'
    BY <1>3 DEF vars, IInv, TypeOK
  <2>2. KeyInv'
    BY <1>3, SameKept, QuietKeys DEF vars, IInv, KeyInv
  <2>3. RouteInv'
    BY <1>3 DEF vars, IInv, RouteInv, At
  <2>4. QED
    BY <2>1, <2>2, <2>3 DEF IInv
<1>4. QED
  BY <1>1, <1>2, <1>3 DEF Next

LEMMA Invariant == Spec => []IInv
  BY InitIInv, Invariance, PTL DEF Spec

\* Every peer's sessions, the two channels and every task keep their types, whatever
\* handshakes, losses, failures and restarts happen: what transport.rs keeps of a peer is
\* one of the states its match arms tell apart.
THEOREM TypeCorrect == Spec => []TypeOK
<1>1. IInv => TypeOK
  BY DEF IInv
<1>2. QED
  BY <1>1, Invariant, PTL

\* No two messages that a daemon sends are encrypted with one key and one count, for any
\* number of concurrent senders, rekeys, crossing handshakes and restarts.
THEOREM NoncesUnique == Spec => []NonceUnique
<1>1. IInv => NonceUnique
  BY DEF IInv, KeyInv
<1>2. QED
  BY <1>1, Invariant, PTL

-----------------------------------------------------------------------------
(* The order of a session's messages *)

\* A handshake whose session the peer has not established yet, and may.
Unused(q, h) ==
    \/ session[q].phase = "pending" /\ session[q].key = h
    \/ task[h] \in Unset /\ From[h] = q
    \/ task[h] \in Early /\ From[h] # q
    \/ \E i \in Nat : M1At(q, i) /\ chan[q][i].key = h
    \/ recv[q].step # "wait" /\ recv[q].key = h

\* Message k was encrypted for q with key h.
SealedFor(k, q, h) == From[k] # q /\ seal[k].key = h

FreshInv ==
    \A q \in Peers, h \in Msgs : Unused(q, h) =>
        /\ previous[q].phase = "established" => previous[q].key # h
        /\ \A k \in got : ~SealedFor(k, q, h)

\* Of what was encrypted for q with the key of s, q has received what its count has passed,
\* and its count has passed no more than that.
Tally(q, s) ==
    s.phase = "established" =>
        /\ \A k \in Msgs : SealedFor(k, q, s.key) => (k \in got <=> seal[k].n < s.in)
        /\ s.in > 0 => \E k \in got : SealedFor(k, q, s.key) /\ seal[k].n = s.in - 1

TallyInv ==
    \A q \in Peers :
        /\ Tally(q, session[q]) /\ Tally(q, previous[q])
        /\ session[q].phase = "established" /\ previous[q].phase = "established" =>
             session[q].key # previous[q].key

\* A data packet is its message, as it was encrypted, on its way to the other peer.
WireInv ==
    \A q \in Peers, i \in Nat : At(q, i) /\ chan[q][i].kind = "data" =>
        /\ From[chan[q][i].msg] # q
        /\ chan[q][i].key = seal[chan[q][i].msg].key /\ chan[q][i].n = seal[chan[q][i].msg].n

OrderInv == FreshInv /\ TallyInv /\ WireInv /\ InOrder

NoMoreUnused == \A q \in Peers, h \in Msgs : Unused(q, h)' => Unused(q, h)

LEMMA ChanUnused ==
    ASSUME ChanKept, NEW q \in Peers, NEW h \in Msgs,
           \E i \in Nat : M1At(q, i)' /\ chan'[q][i].key = h
    PROVE  \E i \in Nat : M1At(q, i) /\ chan[q][i].key = h
<1>1. PICK i \in Nat : M1At(q, i)' /\ chan'[q][i].key = h
  OBVIOUS
<1>2. PICK d \in {0, 1} : \A k \in Nat :
        M1At(q, k)' => M1At(q, k + d) /\ chan'[q][k] = chan[q][k + d]
  BY DEF ChanKept
<1>3. i + d \in Nat /\ M1At(q, i + d) /\ chan[q][i + d].key = h
  BY <1>1, <1>2
<1>4. QED
  BY <1>3

PendingKept ==
    \A q \in Peers : session'[q].phase = "pending" =>
        session[q].phase = "pending" /\ session'[q].key = session[q].key
AnswersKept ==
    \A q \in Peers : recv'[q].step # "wait" => recv[q].step # "wait" /\ recv'[q].key = recv[q].key
HandshakesKept ==
    \A m \in Msgs : /\ task'[m] \in Unset => task[m] \in Unset
                    /\ task'[m] \in Early => task[m] \in Early

LEMMA QuietUnused ==
    ASSUME PendingKept, AnswersKept, ChanKept, HandshakesKept
    PROVE  NoMoreUnused
<1> SUFFICES ASSUME NEW q \in Peers, NEW h \in Msgs, Unused(q, h)' PROVE Unused(q, h)
  BY DEF NoMoreUnused
<1>1. CASE session'[q].phase = "pending" /\ session'[q].key = h
  BY <1>1 DEF PendingKept, Unused
<1>2. CASE (task'[h] \in Unset /\ From[h] = q) \/ (task'[h] \in Early /\ From[h] # q)
  BY <1>2 DEF HandshakesKept, Unused
<1>3. CASE \E i \in Nat : M1At(q, i)' /\ chan'[q][i].key = h
  BY <1>3, ChanUnused DEF Unused
<1>4. CASE recv'[q].step # "wait" /\ recv'[q].key = h
  BY <1>4 DEF AnswersKept, Unused
<1>5. QED
  BY <1>1, <1>2, <1>3, <1>4 DEF Unused

LEMMA TaskUnused ==
    ASSUME IInv, NEW m \in Msgs, TaskStep(m) \/ KeyUnavailable(m)
    PROVE  NoMoreUnused
<1> DEFINE p == From[m]
           o == Other(p)
<1>1. TypeOK /\ Formed /\ p \in Peers /\ o \in Peers /\ o # p
  BY Senders, OtherPeer DEF IInv, KeyInv
<1>2. recv' = recv /\ AnswersKept
  BY DEF TaskStep, KeyUnavailable, Check, Demote, Begin, SetPending, Wait, Encrypt, Send, loop,
         AnswersKept
<1>3. \A step : Goto(m, step) => \A k \in Msgs \ {m} : task'[k] = task[k]
  BY <1>1 DEF Goto, TypeOK
<1>4. task[m] \in Steps /\ HandshakesKept
  BY <1>1 DEF TaskStep, KeyUnavailable, Check, Demote, Begin, SetPending, Wait, Encrypt, Send,
              Goto, TypeOK, HandshakesKept, Unset, Early
<1>5. CASE KeyUnavailable(m) \/ Check(m) \/ Demote(m) \/ Wait(m) \/ Encrypt(m)
  <2>1. chan' = chan
    BY <1>5 DEF KeyUnavailable, Check, Demote, Wait, Encrypt
  <2>2. PendingKept
    <3>1. CASE session' = session
      BY <3>1 DEF PendingKept
    <3>2. CASE session' = [session EXCEPT ![p] = NoSession]
      BY <1>1, <3>2, Constructed DEF PendingKept, TypeOK
    <3>3. CASE session' = [session EXCEPT ![p].out = @ + 1]
      <4>1. session[p] \in Sessions
        BY <1>1 DEF TypeOK
      <4>2. session'[p].phase = session[p].phase /\ session'[p].key = session[p].key
        BY <1>1, <3>3, <4>1 DEF TypeOK, Sessions
      <4>3. \A q \in Peers \ {p} : session'[q] = session[q]
        BY <1>1, <3>3 DEF TypeOK
      <4>4. QED
        BY <4>2, <4>3 DEF PendingKept
    <3>4. QED
      BY <1>5, <3>1, <3>2, <3>3 DEF KeyUnavailable, Check, Demote, Wait, Encrypt
  <2>3. QED
    BY <1>2, <1>4, <2>1, <2>2, SameKept, QuietUnused
<1>6. CASE Begin(m)
  <2>1. session' = session /\ task[m] \in Early
    BY <1>6 DEF Begin, Early
  <2>2. PendingKept
    BY <2>1 DEF PendingKept
  <2>3. CASE chan' = chan
    BY <1>2, <1>4, <2>2, <2>3, SameKept, QuietUnused
  <2>4. CASE Put(o, M1(m))
    <3>1. /\ \A i \in Nat : M1At(o, i)' =>
               (M1At(o, i) /\ chan'[o][i] = chan[o][i]) \/ chan'[o][i] = M1(m)
          /\ \A q \in Peers \ {o} : chan'[q] = chan[q]
      BY <1>1, <2>4, Constructed, PutChan DEF M1At
    <3>2. ASSUME NEW q \in Peers, NEW h \in Msgs, Unused(q, h)' PROVE Unused(q, h)
      <4>1. CASE \E i \in Nat : M1At(q, i)' /\ chan'[q][i].key = h
        <5>1. CASE q # o
          BY <3>1, <4>1, <5>1 DEF Unused, M1At
        <5>2. CASE q = o
          <6>1. PICK i \in Nat : M1At(o, i)' /\ chan'[o][i].key = h
            BY <4>1, <5>2
          <6>2. CASE M1At(o, i) /\ chan'[o][i] = chan[o][i]
            BY <5>2, <6>1, <6>2 DEF Unused
          <6>3. CASE chan'[o][i] = M1(m)
            <7>1. h = m
              BY <6>1, <6>3, Constructed
            <7>2. QED
              BY <1>1, <2>1, <5>2, <7>1 DEF Unused
          <6>4. QED
            BY <3>1, <6>1, <6>2, <6>3
        <5>3. QED
          BY <5>1, <5>2
      <4>2. CASE session'[q].phase = "pending" /\ session'[q].key = h
        BY <2>1, <4>2 DEF Unused
      <4>3. CASE recv'[q].step # "wait" /\ recv'[q].key = h
        BY <1>2, <4>3 DEF Unused
      <4>4. CASE (task'[h] \in Unset /\ From[h] = q) \/ (task'[h] \in Early /\ From[h] # q)
        BY <1>4, <4>4 DEF Unused, HandshakesKept
      <4>5. QED
        BY <3>2, <4>1, <4>2, <4>3, <4>4 DEF Unused
    <3>3. QED
      BY <3>2 DEF NoMoreUnused
  <2>5. QED
    BY <1>6, <2>3, <2>4 DEF Begin, HalfPut
<1>7. CASE SetPending(m)
  <2>1. /\ session'[p] = Pending(m) /\ \A q \in Peers \ {p} : session'[q] = session[q]
        /\ chan' = chan /\ task[m] \in Unset
    BY <1>1, <1>7 DEF SetPending, TypeOK, Unset
  <2>2. ASSUME NEW q \in Peers, NEW h \in Msgs, Unused(q, h)' PROVE Unused(q, h)
    <3>1. CASE session'[q].phase = "pending" /\ session'[q].key = h
      <4>1. CASE q = p
        BY <2>1, <3>1, <4>1, Constructed DEF Unused
      <4>2. CASE q # p
        BY <2>1, <3>1, <4>2 DEF Unused
      <4>3. QED
        BY <4>1, <4>2
    <3>2. CASE \E i \in Nat : M1At(q, i)' /\ chan'[q][i].key = h
      BY <2>1, <3>2 DEF Unused, M1At
    <3>3. CASE recv'[q].step # "wait" /\ recv'[q].key = h
      BY <1>2, <3>3 DEF Unused
    <3>4. CASE (task'[h] \in Unset /\ From[h] = q) \/ (task'[h] \in Early /\ From[h] # q)
      BY <1>4, <3>4 DEF Unused, HandshakesKept
    <3>5. QED
      BY <2>2, <3>1, <3>2, <3>3, <3>4 DEF Unused
  <2>3. QED
    BY <2>2 DEF NoMoreUnused
<1>8. CASE Send(m)
  <2>1. session' = session /\ (chan' = chan \/ Put(o, Data(m))) /\ task[m] = "put"
    BY <1>8 DEF Send, HalfPut
  <2>2. ChanKept
    BY <1>1, <2>1, SameKept, PutKept, DataTyped
  <2>3. PendingKept
    BY <2>1 DEF PendingKept
  <2>4. QED
    BY <1>2, <1>4, <2>2, <2>3, QuietUnused
<1>9. QED
  BY <1>5, <1>6, <1>7, <1>8 DEF TaskStep

LEMMA PeerUnused ==
    ASSUME IInv, NEW p \in Peers, LoopStep(p) \/ Age(p) \/ Lose(p) \/ Restart(p)
    PROVE  NoMoreUnused
<1>1. TypeOK /\ Formed /\ Other(p) \in Peers
  BY OtherPeer DEF IInv, KeyInv
<1>2. HandshakesKept
  BY <1>1 DEF LoopStep, ReceiveM1, Answer, Commit, ReceiveM2, ReceiveData, Age, Lose, Restart, loop,
              TypeOK, HandshakesKept, Unset, Early
<1>3. PendingKept
  <2>1. session[p] \in Sessions
    BY <1>1 DEF TypeOK
  <2>2. \/ session' = session
        \/ session' = [session EXCEPT ![p] = Established(recv[p].key)] /\ recv[p].key \in Msgs
        \/ /\ session' = [session EXCEPT ![p] = Established(Head(chan[p]).key)]
           /\ session[p].key = Head(chan[p]).key /\ session[p].phase = "pending"
        \/ session' = [session EXCEPT ![p] = NoSession]
        \/ \E n : session' = [session EXCEPT ![p] = [session[p] EXCEPT !.in = n]]
        \/ session' = [session EXCEPT ![p].old = TRUE]
    BY <1>1 DEF LoopStep, ReceiveM1, Answer, Commit, ReceiveM2, ReceiveData, Age, Lose, Restart, loop,
                Formed, Pending, NoSession
  <2>3. session'[p].phase = "pending" =>
          session[p].phase = "pending" /\ session'[p].key = session[p].key
    <3>1. ASSUME NEW n, session' = [session EXCEPT ![p] = [session[p] EXCEPT !.in = n]]
          PROVE  session'[p].phase = session[p].phase /\ session'[p].key = session[p].key
      BY <1>1, <2>1, <3>1 DEF TypeOK, Sessions
    <3>2. ASSUME NEW h \in Msgs, session' = [session EXCEPT ![p] = Established(h)]
          PROVE  session'[p].phase = "established"
      BY <1>1, <3>2, Constructed DEF TypeOK
    <3>3. CASE session' = [session EXCEPT ![p].old = TRUE]
      BY <1>1, <2>1, <3>3 DEF TypeOK, Sessions
    <3>4. CASE session' = [session EXCEPT ![p] = NoSession]
      BY <1>1, <3>4, Constructed DEF TypeOK
    <3>5. session[p].phase = "pending" => session[p].key \in Msgs
      BY <1>1 DEF Formed
    <3>6. QED
      BY <2>2, <3>1, <3>2, <3>3, <3>4, <3>5
  <2>4. \A q \in Peers \ {p} : session'[q] = session[q]
    BY <1>1, <2>2 DEF TypeOK
  <2>5. QED
    BY <2>3, <2>4 DEF PendingKept
<1>4. CASE ReceiveM1(p) /\ session[p].phase # "pending"
  <2>1. /\ session' = session /\ chan[p] # << >> /\ Take(p)
        /\ recv'[p].key = Head(chan[p]).key
        /\ \A q \in Peers \ {p} : recv'[q] = recv[q]
        /\ Head(chan[p]).kind = "m1"
    BY <1>1, <1>4 DEF ReceiveM1, NextTo, TypeOK
  <2>2. M1At(p, 1) /\ chan[p][1].key = recv'[p].key /\ 1 \in Nat /\ ChanKept
    BY <1>1, <2>1, TakeChan, TakeKept DEF M1At
  <2>3. ASSUME NEW q \in Peers, NEW h \in Msgs, Unused(q, h)' PROVE Unused(q, h)
    <3>1. CASE \E i \in Nat : M1At(q, i)' /\ chan'[q][i].key = h
      BY <2>2, <3>1, ChanUnused DEF Unused
    <3>2. CASE recv'[q].step # "wait" /\ recv'[q].key = h
      <4>1. CASE q = p
        BY <2>2, <3>2, <4>1 DEF Unused
      <4>2. CASE q # p
        BY <2>1, <3>2, <4>2 DEF Unused
      <4>3. QED
        BY <4>1, <4>2
    <3>3. CASE session'[q].phase = "pending" /\ session'[q].key = h
      BY <2>1, <3>3 DEF Unused
    <3>4. CASE (task'[h] \in Unset /\ From[h] = q) \/ (task'[h] \in Early /\ From[h] # q)
      BY <1>2, <3>4 DEF Unused, HandshakesKept
    <3>5. QED
      BY <2>3, <3>1, <3>2, <3>3, <3>4 DEF Unused
  <2>4. QED
    BY <2>3 DEF NoMoreUnused
<1>5. CASE ~(ReceiveM1(p) /\ session[p].phase # "pending")
  <2>1. AnswersKept
    <3>1. \/ recv' = recv
          \/ recv' = [recv EXCEPT ![p] = Waiting]
          \/ recv[p].step = "answer" /\ recv' = [recv EXCEPT ![p].step = "commit"]
      BY <1>5 DEF LoopStep, ReceiveM1, Answer, Commit, ReceiveM2, ReceiveData, Age, Lose, Restart, loop
    <3>2. CASE recv[p].step = "answer" /\ recv' = [recv EXCEPT ![p].step = "commit"]
      <4>1. /\ recv'[p].key = recv[p].key
            /\ \A q \in Peers \ {p} : recv'[q] = recv[q]
        BY <1>1, <3>2 DEF TypeOK
      <4>2. QED
        BY <3>2, <4>1 DEF AnswersKept
    <3>3. QED
      BY <1>1, <3>1, <3>2, Constructed DEF TypeOK, AnswersKept
  <2>2. ChanKept
    <3>1. \/ chan' = chan
          \/ chan[p] # << >> /\ Take(p)
          \/ recv[p].step # "wait" /\ Put(Other(p), M2(recv[p].key))
          \/ chan' = [chan EXCEPT ![p] = << >>]
      BY DEF LoopStep, ReceiveM1, Answer, HalfPut, Commit, ReceiveM2, ReceiveData, NextTo, Age,
             Lose, Restart
    <3>2. CASE chan' = [chan EXCEPT ![p] = << >>]
      <4>1. chan'[p] = << >> /\ \A q \in Peers \ {p} : chan'[q] = chan[q]
        BY <1>1, <3>2 DEF TypeOK
      <4>2. \A q \in Peers, i \in Nat :
              M1At(q, i)' => M1At(q, i + 0) /\ chan'[q][i] = chan[q][i + 0]
        BY <4>1 DEF M1At
      <4>3. QED
        BY <4>2 DEF ChanKept
    <3>3. CASE recv[p].step # "wait" /\ Put(Other(p), M2(recv[p].key))
      <4>1. M2(recv[p].key) \in Packets /\ M2(recv[p].key).kind = "m2"
        BY <1>1, <3>3, Constructed DEF Formed
      <4>2. QED
        BY <1>1, <3>3, <4>1, PutKept
    <3>4. QED
      BY <1>1, <3>1, <3>2, <3>3, SameKept, TakeKept
  <2>3. QED
    BY <1>2, <1>3, <2>1, <2>2, QuietUnused
<1>6. QED
  BY <1>4, <1>5

\* No session is established, or has been, with the key of an unused handshake.
LEMMA UnusedIsNew ==
    ASSUME IInv, NEW q \in Peers, NEW h \in Msgs, Unused(q, h), session[q].phase = "established"
    PROVE  session[q].key # h
  BY DEF IInv, KeyInv, Formed, InitiatorInv, ResponderInv, Unused

\* Two sessions that count alike.
Alike(s, t) == t.phase = "established" /\ s.key = t.key /\ s.in = t.in

\* Every established session was there, or is the first of an unused handshake.
SessionsCarried ==
    \A q \in Peers : session'[q].phase = "established" =>
        \/ Alike(session'[q], session[q])
        \/ /\ session'[q].key \in Msgs /\ session'[q].in = 0
           /\ Unused(q, session'[q].key)

PreviousCarried ==
    \A q \in Peers : previous'[q].phase = "established" =>
        \/ Alike(previous'[q], previous[q])
        \/ Alike(previous'[q], session[q]) /\ session'[q].phase # "established"

LEMMA SealTyped ==
    ASSUME TypeOK
    PROVE  \A m \in Msgs : seal[m].n \in Nat
  BY DEF TypeOK

LEMMA CalmOrder ==
    ASSUME IInv, FreshInv, TallyInv, InOrder, NoMoreUnused,
           SessionsCarried, PreviousCarried, got' = got, seal' = seal
    PROVE  FreshInv' /\ TallyInv' /\ InOrder'
<1>1. TypeOK
  BY DEF IInv
<1>2. FreshInv'
  <2>1. ASSUME NEW q \in Peers, NEW h \in Msgs, Unused(q, h)'
        PROVE  /\ previous'[q].phase = "established" => previous'[q].key # h
               /\ \A k \in got' : ~SealedFor(k, q, h)'
    <3>1. Unused(q, h)
      BY <2>1 DEF NoMoreUnused
    <3>2. QED
      BY <3>1, UnusedIsNew DEF FreshInv, SealedFor, PreviousCarried, Alike
  <2>2. QED
    BY <2>1 DEF FreshInv
<1>3. TallyInv'
  <2> SUFFICES ASSUME NEW q \in Peers
               PROVE  /\ Tally(q, session[q])' /\ Tally(q, previous[q])'
                      /\ session'[q].phase = "established" /\ previous'[q].phase = "established" =>
                           session'[q].key # previous'[q].key
    BY DEF TallyInv
  <2>1. Tally(q, session[q]) /\ Tally(q, previous[q])
    BY DEF TallyInv
  <2>2. Tally(q, session[q])'
    <3>1. CASE session'[q].phase = "established" /\ Alike(session'[q], session[q])
      BY <2>1, <3>1 DEF Tally, SealedFor, Alike
    <3>2. CASE /\ session'[q].key \in Msgs /\ session'[q].in = 0
               /\ Unused(q, session'[q].key)
      <4>1. \A k \in Msgs : SealedFor(k, q, session'[q].key) => k \notin got
        BY <3>2 DEF FreshInv
      <4>2. \A k \in Msgs : ~(seal[k].n < 0)
        BY <1>1, SealTyped
      <4>3. QED
        BY <3>2, <4>1, <4>2 DEF Tally, SealedFor
    <3>3. QED
      BY <3>1, <3>2 DEF SessionsCarried, Tally
  <2>3. Tally(q, previous[q])'
    BY <2>1 DEF Tally, SealedFor, PreviousCarried, Alike
  <2>4. ASSUME session'[q].phase = "established", previous'[q].phase = "established"
        PROVE  session'[q].key # previous'[q].key
    <3>1. Alike(previous'[q], previous[q])
      BY <2>4 DEF PreviousCarried
    <3>2. QED
      BY <2>4, <3>1 DEF SessionsCarried, Alike, TallyInv, FreshInv
  <2>5. QED
    BY <2>2, <2>3, <2>4
<1>4. InOrder'
  BY DEF InOrder, Sealed
<1>5. QED
  BY <1>2, <1>3, <1>4

-----------------------------------------------------------------------------
(* Packets on the wire *)

\* A step after which every data packet was there, and its message is sealed as it was.
LEMMA WireKept ==
    ASSUME IInv, WireInv,
           \A q \in Peers, i \in Nat : At(q, i)' /\ chan'[q][i].kind = "data" =>
               \E j \in Nat : At(q, j) /\ chan[q][j] = chan'[q][i],
           \A m \in Msgs : task[m] \in Away => seal'[m] = seal[m]
    PROVE  WireInv'
<1> SUFFICES ASSUME NEW q \in Peers, NEW i \in Nat, At(q, i)', chan'[q][i].kind = "data"
             PROVE  /\ From[chan'[q][i].msg] # q
                    /\ chan'[q][i].key = seal'[chan'[q][i].msg].key
                    /\ chan'[q][i].n = seal'[chan'[q][i].msg].n
  BY DEF WireInv
<1>1. PICK j \in Nat : At(q, j) /\ chan[q][j] = chan'[q][i]
  OBVIOUS
<1>2. chan[q][j].msg \in Msgs
  <2>1. chan[q] \in Seq(Packets) /\ j \in 1..Len(chan[q])
    BY <1>1 DEF IInv, TypeOK, At
  <2>2. chan[q][j] \in Packets
    BY <2>1
  <2>3. QED
    BY <1>1, <2>2 DEF Packets
<1>3. task[chan[q][j].msg] \in Away
  BY <1>1, <1>2 DEF IInv, RouteInv
<1>4. QED
  BY <1>1, <1>2, <1>3 DEF WireInv

LEMMA TaskWire ==
    ASSUME IInv, WireInv, NEW m \in Msgs, TaskStep(m) \/ KeyUnavailable(m)
    PROVE  WireInv'
<1> DEFINE o == Other(From[m])
<1>1. TypeOK /\ Formed /\ From[m] \in Peers /\ o \in Peers /\ o # From[m]
  BY Senders, OtherPeer DEF IInv, KeyInv
<1>2. \A k \in Msgs : task[k] \in Away => seal'[k] = seal[k]
  BY <1>1 DEF TaskStep, KeyUnavailable, Check, Demote, Begin, SetPending, Wait, Encrypt, Send, TypeOK,
              Away
<1>3. CASE chan' = chan
  BY <1>2, <1>3, WireKept DEF At
<1>4. CASE Put(o, M1(m))
  <2>1. \A q \in Peers, i \in Nat : At(q, i)' =>
          (At(q, i) /\ chan'[q][i] = chan[q][i]) \/ chan'[q][i].kind = "m1"
    BY <1>1, <1>4, Constructed, PutChan DEF At
  <2>2. QED
    BY <1>2, <2>1, WireKept
<1>5. CASE Put(o, Data(m)) /\ seal' = seal /\ task[m] = "put"
  <2>1. \A q \in Peers, i \in Nat : At(q, i)' =>
          (At(q, i) /\ chan'[q][i] = chan[q][i]) \/ (q = o /\ chan'[q][i] = Data(m))
    BY <1>1, <1>5, DataTyped, PutChan DEF At
  <2>2. Data(m).msg = m /\ Data(m).key = seal[m].key /\ Data(m).n = seal[m].n
    BY DEF Data
  <2>3. ASSUME NEW q \in Peers, NEW i \in Nat, At(q, i)', chan'[q][i].kind = "data"
        PROVE  /\ From[chan'[q][i].msg] # q
               /\ chan'[q][i].key = seal[chan'[q][i].msg].key
               /\ chan'[q][i].n = seal[chan'[q][i].msg].n
    BY <1>1, <2>1, <2>2, <2>3 DEF WireInv
  <2>4. QED
    BY <1>5, <2>3 DEF WireInv
<1>6. QED
  BY <1>3, <1>4, <1>5
  DEF TaskStep, KeyUnavailable, Check, Demote, Begin, HalfPut, SetPending, Wait, Encrypt, Send

LEMMA PeerWire ==
    ASSUME IInv, WireInv, NEW p \in Peers, LoopStep(p) \/ Age(p) \/ Lose(p) \/ Restart(p)
    PROVE  WireInv'
<1>1. TypeOK /\ Formed /\ Other(p) \in Peers /\ seal' = seal
  BY OtherPeer DEF IInv, KeyInv, LoopStep, ReceiveM1, Answer, Commit, ReceiveM2, ReceiveData, Age,
                   Lose, Restart
<1>2. \/ chan' = chan
      \/ chan[p] # << >> /\ Take(p)
      \/ recv[p].step # "wait" /\ Put(Other(p), M2(recv[p].key))
      \/ chan' = [chan EXCEPT ![p] = << >>]
  BY DEF LoopStep, ReceiveM1, Answer, HalfPut, Commit, ReceiveM2, ReceiveData, NextTo, Age, Lose,
         Restart
<1>3. CASE chan' = chan
  BY <1>1, <1>3, WireKept DEF At
<1>4. CASE chan[p] # << >> /\ Take(p)
  <2>1. \A q \in Peers, i \in Nat : At(q, i)' => \E j \in Nat : At(q, j) /\ chan'[q][i] = chan[q][j]
    BY <1>1, <1>4, TakeChan DEF At
  <2>2. QED
    BY <1>1, <2>1, WireKept
<1>5. CASE recv[p].step # "wait" /\ Put(Other(p), M2(recv[p].key))
  <2>1. M2(recv[p].key) \in Packets /\ M2(recv[p].key).kind = "m2"
    BY <1>1, <1>5, Constructed DEF Formed
  <2>2. \A q \in Peers, i \in Nat : At(q, i)' =>
          (At(q, i) /\ chan'[q][i] = chan[q][i]) \/ chan'[q][i].kind = "m2"
    BY <1>1, <1>5, <2>1, PutChan DEF At
  <2>3. QED
    BY <1>1, <2>2, WireKept
<1>6. CASE chan' = [chan EXCEPT ![p] = << >>]
  <2>1. \A q \in Peers, i \in Nat : At(q, i)' => At(q, i) /\ chan'[q][i] = chan[q][i]
    BY <1>1, <1>6 DEF At, TypeOK
  <2>2. QED
    BY <1>1, <2>1, WireKept
<1>7. QED
  BY <1>2, <1>3, <1>4, <1>5, <1>6

-----------------------------------------------------------------------------
(* The order, step by step *)

LEMMA SamePeer ==
    ASSUME NEW q \in Peers, NEW m \in Msgs, NEW k \in Msgs, From[m] # q, From[k] # q
    PROVE  From[m] = From[k]
  BY Senders, PeersAssumption

LEMMA CarriedSame ==
    /\ session' = session => SessionsCarried
    /\ previous' = previous => PreviousCarried
  BY DEF SessionsCarried, PreviousCarried, Alike

\* What is encrypted next comes after all that the peer has received.
LEMMA EncryptOrder ==
    ASSUME IInv, OrderInv, NEW m \in Msgs, Encrypt(m), session[From[m]].phase = "established"
    PROVE  FreshInv' /\ TallyInv' /\ InOrder'
<1> DEFINE p == From[m]
           h == session[p].key
           n == session[p].out
<1>1. /\ TypeOK /\ Formed /\ CountInv /\ RouteInv /\ p \in Peers /\ None \notin Msgs
      /\ FreshInv /\ TallyInv /\ InOrder /\ NoMoreUnused
  BY Senders, TaskUnused DEF IInv, KeyInv, OrderInv, TaskStep
<1>2. /\ seal' = [seal EXCEPT ![m] = [key |-> h, n |-> n]]
      /\ session' = [session EXCEPT ![p].out = @ + 1]
      /\ previous' = previous /\ got' = got /\ task[m] = "encrypt"
  BY DEF Encrypt, loop
<1>3. seal'[m].key = h /\ seal'[m].n = n /\ \A k \in Msgs \ {m} : seal'[k] = seal[k]
  BY <1>1, <1>2 DEF TypeOK
<1>4. m \notin got /\ got \subseteq Msgs
  BY <1>1, <1>2 DEF RouteInv, TypeOK, Away
<1>5. h \in Msgs /\ n \in Nat
  BY <1>1 DEF Formed, TypeOK, Sessions
<1>6. \A q \in Peers : /\ session'[q].phase = session[q].phase
                       /\ session'[q].key = session[q].key /\ session'[q].in = session[q].in
  <2>1. session[p] \in Sessions
    BY <1>1 DEF TypeOK
  <2>2. QED
    BY <1>1, <1>2, <2>1 DEF TypeOK, Sessions
<1>7. \A k \in got : From[k] = p /\ seal[k].key = h => seal[k].n < n
  BY <1>1, <1>4, <1>5, Constructed DEF CountInv, Sealed
<1>8. FreshInv'
  <2>1. \A q \in Peers, k \in got, g \in Msgs : SealedFor(k, q, g)' => SealedFor(k, q, g)
    BY <1>3, <1>4 DEF SealedFor
  <2>2. QED
    BY <1>1, <1>2, <2>1 DEF FreshInv, NoMoreUnused
<1>9. ASSUME NEW q \in Peers, NEW s \in Sessions, NEW t \in Sessions, Tally(q, s),
             t.phase = s.phase, t.key = s.key, t.in = s.in
      PROVE  /\ t.phase = "established" =>
                 /\ \A k \in Msgs : SealedFor(k, q, t.key)' => (k \in got' <=> seal'[k].n < t.in)
                 /\ t.in > 0 => \E k \in got' : SealedFor(k, q, t.key)' /\ seal'[k].n = t.in - 1
  <2> SUFFICES ASSUME s.phase = "established"
               PROVE  /\ \A k \in Msgs : SealedFor(k, q, s.key)' => (k \in got <=> seal'[k].n < s.in)
                      /\ s.in > 0 => \E k \in got : SealedFor(k, q, s.key)' /\ seal'[k].n = s.in - 1
    BY <1>2, <1>9
  <2>1. s.in \in Nat
    BY DEF Sessions
  <2>2. s.in > 0 => \E k \in got : SealedFor(k, q, s.key) /\ seal[k].n = s.in - 1
    BY <1>9 DEF Tally
  <2>3. \A k \in Msgs \ {m} : SealedFor(k, q, s.key)' <=> SealedFor(k, q, s.key)
    BY <1>3 DEF SealedFor
  <2>4. \A k \in Msgs \ {m} : SealedFor(k, q, s.key)' => (k \in got <=> seal'[k].n < s.in)
    BY <1>3, <1>9, <2>3 DEF Tally
  <2>5. SealedFor(m, q, s.key)' => ~(n < s.in)
    <3> SUFFICES ASSUME p # q, s.key = h, s.in > 0 PROVE ~(n < s.in)
      BY <1>3, <1>5, <2>1 DEF SealedFor
    <3>1. PICK k \in got : SealedFor(k, q, h) /\ seal[k].n = s.in - 1
      BY <2>2
    <3>2. From[k] = p /\ seal[k].key = h
      BY <1>4, <3>1, SamePeer DEF SealedFor
    <3>3. s.in - 1 < n
      BY <1>7, <3>1, <3>2
    <3>4. QED
      BY <1>5, <2>1, <3>3
  <2>6. s.in > 0 => \E k \in got : SealedFor(k, q, s.key)' /\ seal'[k].n = s.in - 1
    BY <1>3, <1>4, <2>2, <2>3
  <2>7. QED
    BY <1>3, <1>4, <2>4, <2>5, <2>6
<1>10. TypeOK'
  BY TaskTypeOK DEF TaskStep
<1>11. TallyInv'
  <2> SUFFICES ASSUME NEW q \in Peers
               PROVE  /\ Tally(q, session[q])' /\ Tally(q, previous[q])'
                      /\ session'[q].phase = "established" /\ previous'[q].phase = "established" =>
                           session'[q].key # previous'[q].key
    BY DEF TallyInv
  <2>1. /\ session[q] \in Sessions /\ session'[q] \in Sessions
        /\ previous[q] \in Sessions /\ previous'[q] = previous[q]
    BY <1>1, <1>2, <1>10 DEF TypeOK
  <2>2. Tally(q, session[q]) /\ Tally(q, previous[q])
    BY <1>1 DEF TallyInv
  <2>3. Tally(q, session[q])'
    BY <1>6, <1>9, <2>1, <2>2 DEF Tally
  <2>4. Tally(q, previous[q])'
    BY <1>9, <2>1, <2>2 DEF Tally
  <2>5. QED
    BY <1>1, <1>6, <2>1, <2>3, <2>4 DEF TallyInv
<1>12. InOrder'
  <2> SUFFICES ASSUME NEW j \in Msgs, NEW k \in Msgs, k \in got, seal'[j] # Unsealed,
                      From[j] = From[k], seal'[j].key = seal'[k].key, seal'[j].n < seal'[k].n
               PROVE  j \in got
    BY <1>2 DEF InOrder, Sealed
  <2>1. seal'[k] = seal[k] /\ seal[k].n \in Nat
    BY <1>1, <1>3, <1>4 DEF TypeOK
  <2>2. j # m
    <3> SUFFICES ASSUME j = m PROVE FALSE
      OBVIOUS
    <3>1. seal[k].key = h /\ n < seal[k].n /\ From[k] = p
      BY <1>3, <2>1
    <3>2. QED
      BY <1>5, <1>7, <2>1, <3>1
  <2>3. QED
    BY <1>1, <1>3, <2>1, <2>2 DEF InOrder, Sealed
<1>13. QED
  BY <1>8, <1>11, <1>12

\* A packet is taken when it is the next one of its session, and only then.
LEMMA ReceiveOrder ==
    ASSUME IInv, OrderInv, NEW p \in Peers, ReceiveData(p)
    PROVE  FreshInv' /\ TallyInv' /\ InOrder'
<1> DEFINE packet == Head(chan[p])
           k == packet.msg
           current == session[p].phase = "established"
           s == IF current THEN session[p] ELSE previous[p]
<1>1. /\ TypeOK /\ Formed /\ KeyInv /\ None \notin Msgs
      /\ FreshInv /\ TallyInv /\ InOrder /\ WireInv /\ NoMoreUnused
  BY Senders, PeerUnused DEF IInv, KeyInv, OrderInv, LoopStep
<1>2. /\ At(p, 1) /\ packet = chan[p][1] /\ packet.kind = "data" /\ packet \in Packets /\ seal' = seal
  BY <1>1, TakeChan DEF ReceiveData, NextTo, At
<1>3. /\ k \in Msgs /\ packet.key \in Msgs /\ packet.n \in Nat
      /\ From[k] # p /\ packet.key = seal[k].key /\ packet.n = seal[k].n
  BY <1>1, <1>2 DEF WireInv, Packets
<1>4. s \in Sessions /\ Tally(p, s)
  BY <1>1 DEF TypeOK, TallyInv
<1>5. CASE ~(s.phase = "established" /\ Decrypts(s, packet))
  <2>1. got' = got /\ session' = session /\ previous' = previous
    BY <1>5 DEF ReceiveData
  <2>2. QED
    BY <1>1, <1>2, <2>1, CarriedSame, CalmOrder
<1>6. CASE s.phase = "established" /\ Decrypts(s, packet)
  <2> DEFINE after == [s EXCEPT !.in = packet.n + 1]
  <2>1. /\ got' = got \cup {k}
        /\ session' = IF current THEN [session EXCEPT ![p] = after] ELSE session
        /\ previous' = IF current THEN previous ELSE [previous EXCEPT ![p] = after]
    BY <1>6 DEF ReceiveData
  <2>2. s.key = seal[k].key /\ s.in = seal[k].n /\ s.key = packet.key /\ s.in \in Nat
    BY <1>3, <1>4, <1>6 DEF Decrypts, Sessions
  <2>3. /\ after \in Sessions /\ after.phase = "established" /\ after.key = s.key
        /\ after.in = s.in + 1
    BY <1>3, <1>4, <1>6, <2>2 DEF Sessions
  <2>4. /\ \A q \in Peers \ {p} : session'[q] = session[q] /\ previous'[q] = previous[q]
        /\ current => session'[p] = after /\ previous'[p] = previous[p]
        /\ ~current => session'[p] = session[p] /\ previous'[p] = after
    BY <1>1, <2>1 DEF TypeOK
  <2> HIDE DEF after
  <2>5. \A j \in Msgs : SealedFor(j, p, s.key) /\ j # k => seal[j].n # s.in
    <3> SUFFICES ASSUME NEW j \in Msgs, SealedFor(j, p, s.key), j # k, seal[j].n = s.in PROVE FALSE
      OBVIOUS
    <3>1. From[j] = From[k] /\ seal[j].key = seal[k].key /\ seal[j].n = seal[k].n
      BY <1>3, <2>2, SamePeer DEF SealedFor
    <3>2. seal[j] = seal[k]
      <4>1. seal[j] = [key |-> seal[j].key, n |-> seal[j].n] /\ seal[k] = [key |-> seal[k].key, n |-> seal[k].n]
        BY <1>1, <1>3 DEF TypeOK
      <4>2. QED
        BY <3>1, <4>1
    <3>3. Sealed(k)
      BY <1>1, <1>3, Constructed DEF Sealed
    <3>4. QED
      BY <1>1, <1>3, <3>1, <3>2, <3>3 DEF KeyInv, NonceUnique
  <2>6. /\ \A j \in Msgs : SealedFor(j, p, s.key) => (j \in got' <=> seal[j].n < s.in + 1)
        /\ k \in got' /\ SealedFor(k, p, s.key) /\ seal[k].n = (s.in + 1) - 1
    <3>1. \A j \in Msgs : SealedFor(j, p, s.key) => (j \in got <=> seal[j].n < s.in)
      BY <1>4, <1>6 DEF Tally
    <3>2. \A j \in Msgs : seal[j].n \in Nat
      BY <1>1, SealTyped
    <3>3. \A j \in Msgs : SealedFor(j, p, s.key) /\ j # k => (j \in got' <=> seal[j].n < s.in + 1)
      BY <2>1, <2>2, <2>5, <3>1, <3>2
    <3>4. k \in got' /\ SealedFor(k, p, s.key) /\ seal[k].n < s.in + 1
      BY <1>3, <2>1, <2>2 DEF SealedFor
    <3>5. seal[k].n = (s.in + 1) - 1
      BY <2>2
    <3>6. QED
      BY <3>3, <3>4, <3>5
  <2>7. /\ \A j \in Msgs : From[j] # p /\ seal'[j].key = after.key =>
              (j \in got' <=> seal'[j].n < after.in)
        /\ \E j \in got' : From[j] # p /\ seal'[j].key = after.key /\ seal'[j].n = after.in - 1
    <3>1. \A j \in Msgs : SealedFor(j, p, s.key) <=> From[j] # p /\ seal'[j].key = after.key
      BY <1>2, <2>3 DEF SealedFor
    <3>2. QED
      BY <1>2, <1>3, <2>3, <2>6, <3>1
  <2>8. \A q \in Peers, t \in Sessions :
          (Tally(q, t) /\ (q = p => t.key # s.key)) =>
             (t.phase = "established" =>
                /\ \A j \in Msgs : SealedFor(j, q, t.key) => (j \in got' <=> seal[j].n < t.in)
                /\ t.in > 0 => \E j \in got' : SealedFor(j, q, t.key) /\ seal[j].n = t.in - 1)
    <3> SUFFICES ASSUME NEW q \in Peers, NEW t \in Sessions, Tally(q, t), q = p => t.key # s.key,
                        t.phase = "established"
                 PROVE  /\ \A j \in Msgs : SealedFor(j, q, t.key) => (j \in got' <=> seal[j].n < t.in)
                        /\ t.in > 0 => \E j \in got' : SealedFor(j, q, t.key) /\ seal[j].n = t.in - 1
      OBVIOUS
    <3>1. ~SealedFor(k, q, t.key)
      <4>1. CASE q = p
        BY <2>2, <4>1 DEF SealedFor
      <4>2. CASE q # p
        BY <1>3, <4>2, Senders, PeersAssumption DEF SealedFor
      <4>3. QED
        BY <4>1, <4>2
    <3>2. QED
      BY <2>1, <3>1 DEF Tally
  <2>9. TallyInv'
    <3> SUFFICES ASSUME NEW q \in Peers
                 PROVE  /\ Tally(q, session[q])' /\ Tally(q, previous[q])'
                        /\ session'[q].phase = "established" /\ previous'[q].phase = "established" =>
                             session'[q].key # previous'[q].key
      BY DEF TallyInv
    <3>1. /\ session[q] \in Sessions /\ previous[q] \in Sessions
          /\ Tally(q, session[q]) /\ Tally(q, previous[q])
          /\ session[q].phase = "established" /\ previous[q].phase = "established" =>
               session[q].key # previous[q].key
      BY <1>1 DEF TypeOK, TallyInv
    <3>2. CASE q # p
      BY <1>2, <2>4, <2>8, <3>1, <3>2 DEF Tally, SealedFor
    <3>3. CASE q = p /\ current
      <4>1. Tally(q, session[q])'
        BY <2>4, <2>7, <3>3 DEF Tally, SealedFor
      <4>2. Tally(q, previous[q])'
        BY <1>2, <2>4, <2>8, <3>1, <3>3 DEF Tally, SealedFor
      <4>3. QED
        BY <2>3, <2>4, <3>1, <3>3, <4>1, <4>2
    <3>4. CASE q = p /\ ~current
      BY <2>4, <2>7, <3>4 DEF Tally, SealedFor
    <3>5. QED
      BY <3>2, <3>3, <3>4
  <2>10. FreshInv'
    <3> SUFFICES ASSUME NEW q \in Peers, NEW h \in Msgs, Unused(q, h)
                 PROVE  /\ previous'[q].phase = "established" => previous'[q].key # h
                        /\ \A j \in got' : ~SealedFor(j, q, h)'
      BY <1>1 DEF FreshInv, NoMoreUnused
    <3>1. /\ previous[q].phase = "established" => previous[q].key # h
          /\ \A j \in got : ~SealedFor(j, q, h)
      BY <1>1 DEF FreshInv
    <3>2. q = p => s.key # h
      BY <1>6, <3>1, UnusedIsNew
    <3>3. ~SealedFor(k, q, h)
      BY <1>3, <2>2, <3>2, Senders, PeersAssumption DEF SealedFor
    <3>4. previous'[q].phase = "established" => previous'[q].key # h
      BY <2>3, <2>4, <3>1, <3>2
    <3>5. QED
      BY <1>2, <2>1, <3>1, <3>3, <3>4 DEF SealedFor
  <2>11. InOrder'
    <3> SUFFICES ASSUME NEW j \in Msgs, NEW i \in Msgs, i \in got', Sealed(j), From[j] = From[i],
                        seal[j].key = seal[i].key, seal[j].n < seal[i].n
                 PROVE  j \in got'
      BY <1>2 DEF InOrder, Sealed
    <3>1. CASE i \in got
      BY <1>1, <2>1, <3>1 DEF InOrder
    <3>2. CASE i = k
      <4>1. SealedFor(j, p, s.key) /\ seal[j].n < s.in /\ seal[j].n \in Nat
        BY <1>1, <1>3, <2>2, <3>2, SealTyped DEF SealedFor
      <4>2. QED
        BY <2>2, <2>6, <4>1
    <3>3. QED
      BY <2>1, <3>1, <3>2
  <2>12. QED
    BY <2>9, <2>10, <2>11
<1>7. QED
  BY <1>5, <1>6

LEMMA TaskOrder ==
    ASSUME IInv, OrderInv, NEW m \in Msgs, TaskStep(m) \/ KeyUnavailable(m)
    PROVE  OrderInv'
<1> DEFINE p == From[m]
<1>1. /\ TypeOK /\ p \in Peers /\ NoMoreUnused
      /\ FreshInv /\ TallyInv /\ InOrder /\ WireInv'
  BY Senders, TaskUnused, TaskWire DEF IInv, OrderInv
<1>2. CASE Encrypt(m) /\ session[p].phase = "established"
  BY <1>1, <1>2, EncryptOrder DEF OrderInv
<1>3. CASE ~(Encrypt(m) /\ session[p].phase = "established")
  <2>1. got' = got /\ seal' = seal
    BY <1>3 DEF TaskStep, KeyUnavailable, Check, Demote, Begin, SetPending, Wait, Encrypt, Send, loop
  <2>2. SessionsCarried
    <3>1. CASE session' = session
      BY <3>1, CarriedSame
    <3>2. CASE session' = [session EXCEPT ![p] = NoSession] \/ session' = [session EXCEPT ![p] = Pending(m)]
      <4>1. /\ session'[p].phase # "established"
            /\ \A q \in Peers \ {p} : session'[q] = session[q]
        BY <1>1, <3>2, Constructed DEF TypeOK
      <4>2. QED
        BY <4>1 DEF SessionsCarried, Alike
    <3>3. QED
      BY <1>3, <3>1, <3>2
      DEF TaskStep, KeyUnavailable, Check, Demote, Begin, SetPending, Wait, Encrypt, Send
  <2>3. PreviousCarried
    <3>1. CASE previous' = previous
      BY <3>1, CarriedSame
    <3>2. CASE previous' = [previous EXCEPT ![p] = NoSession]
      BY <1>1, <3>2, Constructed DEF TypeOK, PreviousCarried, Alike
    <3>3. CASE Demote(m) /\ session[p].phase = "established"
      <4>1. /\ previous'[p] = session[p] /\ session'[p] = NoSession
            /\ \A q \in Peers \ {p} : previous'[q] = previous[q]
        BY <1>1, <3>3 DEF TypeOK, Demote
      <4>2. QED
        BY <3>3, <4>1, Constructed DEF PreviousCarried, Alike
    <3>4. QED
      BY <1>3, <3>1, <3>2, <3>3
      DEF TaskStep, KeyUnavailable, Check, Demote, Begin, SetPending, Wait, Encrypt, Send
  <2>4. QED
    BY <1>1, <2>1, <2>2, <2>3, CalmOrder DEF OrderInv
<1>4. QED
  BY <1>2, <1>3

LEMMA PeerOrder ==
    ASSUME IInv, OrderInv, NEW p \in Peers, LoopStep(p) \/ Age(p) \/ Lose(p) \/ Restart(p)
    PROVE  OrderInv'
<1>1. /\ TypeOK /\ Formed /\ NoMoreUnused
      /\ FreshInv /\ TallyInv /\ InOrder /\ WireInv'
  BY PeerUnused, PeerWire DEF IInv, KeyInv, OrderInv
<1>2. CASE ReceiveData(p)
  BY <1>1, <1>2, ReceiveOrder DEF OrderInv
<1>3. CASE ~ReceiveData(p)
  <2>1. got' = got /\ seal' = seal
    BY <1>3 DEF LoopStep, ReceiveM1, Answer, Commit, ReceiveM2, Age, Lose, Restart, loop
  <2>2. PreviousCarried
    <3>1. CASE previous' = previous
      BY <3>1, CarriedSame
    <3>2. CASE previous' = [previous EXCEPT ![p] = NoSession]
      BY <1>1, <3>2, Constructed DEF TypeOK, PreviousCarried, Alike
    <3>3. QED
      BY <1>3, <3>1, <3>2 DEF LoopStep, ReceiveM1, Answer, Commit, ReceiveM2, Age, Lose, Restart
  <2>3. SessionsCarried
    <3>1. ASSUME NEW h \in Msgs, Unused(p, h), session' = [session EXCEPT ![p] = Established(h)]
          PROVE  SessionsCarried
      <4>1. session'[p] = Established(h) /\ \A q \in Peers \ {p} : session'[q] = session[q]
        BY <1>1, <3>1 DEF TypeOK
      <4>2. session'[p].key = h /\ session'[p].in = 0
        BY <4>1 DEF Established, NoSession
      <4>3. QED
        BY <3>1, <4>1, <4>2 DEF SessionsCarried, Alike
    <3>2. CASE session' = session
      BY <3>2, CarriedSame
    <3>3. CASE Commit(p)
      BY <1>1, <3>1, <3>3 DEF Commit, Formed, Unused
    <3>4. CASE ReceiveM2(p)
      <4>1. ASSUME session[p] = Pending(Head(chan[p]).key) PROVE SessionsCarried
        <5> DEFINE h == Head(chan[p]).key
        <5>1. session[p].phase = "pending" /\ session[p].key = h
          BY <4>1 DEF Pending, NoSession
        <5>2. h \in Msgs
          BY <1>1, <5>1 DEF Formed
        <5>3. QED
          BY <3>1, <3>4, <4>1, <5>1, <5>2 DEF ReceiveM2, Unused
      <4>2. QED
        BY <3>2, <3>4, <4>1 DEF ReceiveM2
    <3>5. CASE Age(p)
      <4>1. session[p] \in Sessions /\ session[p].phase = "established"
        BY <1>1, <3>5 DEF TypeOK, Age, Usable
      <4>2. /\ session'[p].key = session[p].key /\ session'[p].in = session[p].in
            /\ \A q \in Peers \ {p} : session'[q] = session[q]
        BY <1>1, <3>5, <4>1 DEF TypeOK, Age, Sessions
      <4>3. QED
        BY <4>1, <4>2 DEF SessionsCarried, Alike
    <3>6. CASE Restart(p)
      BY <1>1, <3>6, Constructed DEF TypeOK, Restart, SessionsCarried, Alike
    <3>7. QED
      BY <1>3, <3>2, <3>3, <3>4, <3>5, <3>6 DEF LoopStep, ReceiveM1, Answer, Lose
  <2>4. QED
    BY <1>1, <2>1, <2>2, <2>3, CalmOrder DEF OrderInv
<1>4. QED
  BY <1>2, <1>3

\* PeerHandshake!InOrder: of what a daemon encrypts with one session key, the peer receives
\* the messages in that order, whatever the tasks that send them, lost packets, rekeys and
\* restarts do: one that the relay overtook is never taken after a later one
\* (transport.rs, connmgr.rs).
THEOREM InOrderHolds == Spec => []InOrder
<1>1. Init => OrderInv
  <2> SUFFICES ASSUME Init PROVE OrderInv
    OBVIOUS
  <2>1. /\ got = {} /\ \A p \in Peers : /\ session[p] = NoSession /\ previous[p] = NoSession
                                        /\ \A i \in Nat : ~At(p, i)
    BY DEF Init, At
  <2>2. QED
    BY <2>1, Constructed DEF OrderInv, FreshInv, TallyInv, Tally, WireInv, InOrder
<1>2. IInv /\ OrderInv /\ [Next]_vars => OrderInv'
  <2> SUFFICES ASSUME IInv, OrderInv, [Next]_vars PROVE OrderInv'
    OBVIOUS
  <2>1. CASE \E m \in Msgs : TaskStep(m) \/ KeyUnavailable(m)
    BY <2>1, TaskOrder
  <2>2. CASE \E p \in Peers : LoopStep(p) \/ Age(p) \/ Lose(p) \/ Restart(p)
    BY <2>2, PeerOrder
  <2>3. CASE UNCHANGED vars
    <3>1. Formed
      BY DEF IInv, KeyInv
    <3>2. NoMoreUnused
      BY <2>3 DEF vars, NoMoreUnused, Unused, M1At
    <3>3. FreshInv' /\ TallyInv' /\ InOrder'
      BY <2>3, <3>2, CarriedSame, CalmOrder DEF vars, OrderInv
    <3>4. WireInv'
      BY <2>3, WireKept DEF vars, OrderInv, At
    <3>5. QED
      BY <3>3, <3>4 DEF OrderInv
  <2>4. QED
    BY <2>1, <2>2, <2>3 DEF Next
<1>3. OrderInv => InOrder
  BY DEF OrderInv
<1>4. QED
  BY <1>1, <1>2, <1>3, Invariant, PTL DEF Spec
=============================================================================
