--------------------------- MODULE NodeSync_proofs ---------------------------
EXTENDS NodeSync, SequenceTheorems, TLAPS

(* The members of a sequence. *)
Elems(s) == {s[i] : i \in DOMAIN s}

LEMMA ElemsOfEmpty == Elems(<<>>) = {}
  BY DEF Elems

LEMMA ElemsOfAppend ==
  ASSUME NEW S, NEW s \in Seq(S), NEW x \in S
  PROVE  /\ Append(s, x) \in Seq(S)
         /\ Elems(Append(s, x)) = Elems(s) \cup {x}
  <1>1. Append(s, x) \in Seq(S) /\ Len(Append(s, x)) = Len(s) + 1
    BY AppendProperties
  <1>2. \A i \in 1..Len(s) : Append(s, x)[i] = s[i]
    BY AppendProperties
  <1>3. Append(s, x)[Len(s) + 1] = x
    BY AppendProperties
  <1>4. /\ Len(s) \in Nat /\ DOMAIN s = 1..Len(s)
        /\ DOMAIN Append(s, x) = 1..(Len(s) + 1)
    BY <1>1, LenProperties
  <1> QED
    BY <1>1, <1>2, <1>3, <1>4, SMTT(30) DEF Elems

LEMMA ElemsOfConcat ==
  ASSUME NEW S, NEW s \in Seq(S), NEW t \in Seq(S)
  PROVE  /\ s \o t \in Seq(S)
         /\ Elems(s \o t) = Elems(s) \cup Elems(t)
  <1>1. s \o t \in Seq(S) /\ Len(s \o t) = Len(s) + Len(t)
    BY ConcatProperties
  <1>2. \A i \in 1..(Len(s) + Len(t)) :
          (s \o t)[i] = IF i <= Len(s) THEN s[i] ELSE t[i - Len(s)]
    BY ConcatProperties
  <1>3. /\ Len(s) \in Nat /\ Len(t) \in Nat
        /\ DOMAIN s = 1..Len(s) /\ DOMAIN t = 1..Len(t)
        /\ DOMAIN (s \o t) = 1..(Len(s) + Len(t))
    BY <1>1, LenProperties
  <1>4. Elems(s \o t) \subseteq Elems(s) \cup Elems(t)
    <2> SUFFICES ASSUME NEW i \in 1..(Len(s) + Len(t))
                 PROVE  (s \o t)[i] \in Elems(s) \cup Elems(t)
      BY <1>3 DEF Elems
    <2>1. CASE i <= Len(s)
      <3>1. i \in 1..Len(s) /\ (s \o t)[i] = s[i]
        BY <2>1, <1>2, <1>3
      <3> QED BY <3>1, <1>3 DEF Elems
    <2>2. CASE ~(i <= Len(s))
      <3>1. i - Len(s) \in 1..Len(t) /\ (s \o t)[i] = t[i - Len(s)]
        BY <2>2, <1>2, <1>3
      <3> QED BY <3>1, <1>3 DEF Elems
    <2> QED BY <2>1, <2>2
  <1>5. Elems(s) \subseteq Elems(s \o t)
    <2> SUFFICES ASSUME NEW i \in 1..Len(s) PROVE s[i] \in Elems(s \o t)
      BY <1>3 DEF Elems
    <2>1. i \in 1..(Len(s) + Len(t)) /\ (s \o t)[i] = s[i]
      BY <1>2, <1>3
    <2> QED BY <2>1, <1>3 DEF Elems
  <1>6. Elems(t) \subseteq Elems(s \o t)
    <2> SUFFICES ASSUME NEW i \in 1..Len(t) PROVE t[i] \in Elems(s \o t)
      BY <1>3 DEF Elems
    <2>1. Len(s) + i \in 1..(Len(s) + Len(t)) /\ (s \o t)[Len(s) + i] = t[i]
      BY <1>2, <1>3
    <2> QED BY <2>1, <1>3 DEF Elems
  <1> QED BY <1>1, <1>4, <1>5, <1>6

LEMMA ElemsOfTail ==
  ASSUME NEW S, NEW s \in Seq(S), s # <<>>
  PROVE  /\ Head(s) \in S /\ Tail(s) \in Seq(S)
         /\ Head(s) \in Elems(s)
         /\ Elems(Tail(s)) \subseteq Elems(s)
  <1>1. /\ Head(s) \in S /\ Tail(s) \in Seq(S)
        /\ Len(Tail(s)) = Len(s) - 1
        /\ \A i \in 1..Len(Tail(s)) : Tail(s)[i] = s[i + 1]
    BY HeadTailProperties
  <1>2. /\ Len(s) \in Nat /\ Len(s) # 0 /\ DOMAIN s = 1..Len(s)
        /\ DOMAIN Tail(s) = 1..(Len(s) - 1)
    BY <1>1, LenProperties, EmptySeq
  <1>3. Head(s) = s[1]
    BY HeadTailProperties
  <1>4. Head(s) \in Elems(s)
    BY <1>2, <1>3 DEF Elems
  <1>5. Elems(Tail(s)) \subseteq Elems(s)
    <2> SUFFICES ASSUME NEW i \in 1..(Len(s) - 1) PROVE Tail(s)[i] \in Elems(s)
      BY <1>2 DEF Elems
    <2>1. i + 1 \in DOMAIN s /\ Tail(s)[i] = s[i + 1]
      BY <1>1, <1>2
    <2> QED BY <2>1 DEF Elems
  <1> QED BY <1>1, <1>4, <1>5

LEMMA ElemsOfPrefix ==
  ASSUME NEW S, NEW s \in Seq(S), NEW q \in Prefixes(s)
  PROVE  q \in Seq(S) /\ Elems(q) \subseteq Elems(s)
  <1>1. PICK k \in 0..Len(s) : q = SubSeq(s, 1, k)
    BY DEF Prefixes
  <1>2. Len(s) \in Nat /\ DOMAIN s = 1..Len(s) /\ \A i \in 1..Len(s) : s[i] \in S
    BY LenProperties
  <1>3. /\ q \in Seq(S) /\ Len(q) = k
        /\ \A i \in 1..k : q[i] = s[i]
    BY <1>1, <1>2, SubSeqProperties
  <1>4. DOMAIN q = 1..k
    BY <1>3, LenProperties
  <1> QED
    BY <1>2, <1>3, <1>4 DEF Elems

-----------------------------------------------------------------------------
(* Types of the messages and of the operators that produce them. *)

LEMMA MsgTypes ==
  /\ NoEnv \in Envelope
  /\ \A e \in Envelope : WriteMsg(e) \in Msg
  /\ \A d \in Nat : SubscribeMsg(d) \in Msg /\ UnsubscribeMsg(d) \in Msg
  /\ \A us \in SUBSET Update : WriteAck(us) \in Msg
  /\ \A us \in SUBSET Update, d \in Nat : SyncAck(us, d) \in Msg
  BY DEF NoEnv, Envelope, Msg, WriteMsg, SubscribeMsg, UnsubscribeMsg, WriteAck, SyncAck

LEMMA IdleType == Idle \in Task
  BY EmptySeq, MsgTypes DEF Idle, Task

LEMMA ContentIsUpdates ==
  ASSUME NEW log \in Seq(Envelope)
  PROVE  Content(log) \subseteq Update
  <1>1. \A i \in DOMAIN log : log[i] \in Envelope
    BY LenProperties
  <1>2. \A i \in DOMAIN log : log[i].upds \subseteq Update
    BY <1>1 DEF Envelope
  <1> QED BY <1>2 DEF Content

(* What a subscriber is sent are messages; each brings what the log holds. *)
LEMMA ReplayedType ==
  ASSUME NEW log \in Seq(Envelope), NEW d \in Nat
  PROVE  /\ Replayed(log, d) \in Seq(Msg)
         /\ \A m \in Elems(Replayed(log, d)) : m.env.upds \subseteq Content(log)
  <1> DEFINE ws == [i \in 1..Len(log) |-> WriteMsg(log[i])]
             sa == SyncAck(Content(log), d)
             last == <<sa>>
  <1>1. /\ Len(log) \in Nat /\ DOMAIN log = 1..Len(log)
        /\ \A i \in 1..Len(log) : log[i] \in Envelope
    BY LenProperties
  <1>2. \A i \in 1..Len(log) : WriteMsg(log[i]) \in Msg
    BY <1>1, MsgTypes
  <1>3. ws \in Seq(Msg) /\ Elems(ws) = {WriteMsg(log[i]) : i \in 1..Len(log)}
    BY <1>1, <1>2 DEF Elems
  <1>4. sa \in Msg
    BY ContentIsUpdates, MsgTypes
  <1>5. last \in Seq(Msg) /\ Elems(last) = {sa}
    BY <1>4 DEF Elems
  <1>6. Replayed(log, d) = ws \o last
    BY DEF Replayed
  <1>7. /\ Replayed(log, d) \in Seq(Msg)
        /\ Elems(Replayed(log, d)) = Elems(ws) \cup {sa}
    <2> HIDE DEF ws, sa, last
    <2>1. /\ ws \o last \in Seq(Msg)
          /\ Elems(ws \o last) = Elems(ws) \cup Elems(last)
      BY <1>3, <1>5, ElemsOfConcat
    <2> QED BY <2>1, <1>5, <1>6
  <1>8. sa.env.upds \subseteq Content(log)
    BY DEF SyncAck
  <1>9. ASSUME NEW m \in Elems(ws) PROVE m.env.upds \subseteq Content(log)
    <2>1. PICK i \in 1..Len(log) : m = WriteMsg(log[i])
      BY <1>3
    <2>2. m.env.upds = log[i].upds
      BY <2>1 DEF WriteMsg
    <2> QED BY <1>1, <2>2 DEF Content
  <1> QED BY <1>7, <1>8, <1>9

(* Appending an envelope to the mirror adds what it carries. *)
LEMMA LoggedType ==
  ASSUME NEW log \in Seq(Envelope), NEW e \in Envelope
  PROVE  /\ Logged(log, e) \in Seq(Envelope)
         /\ ~e.snapshot => Content(Logged(log, e)) = Content(log) \cup e.upds
  <1>1. CASE e.snapshot
    BY <1>1 DEF Logged
  <1>2. CASE ~e.snapshot
    <2>1. Logged(log, e) = Append(log, e)
      BY <1>2 DEF Logged
    <2>2. \A s \in Seq(Envelope) : Content(s) = UNION {x.upds : x \in Elems(s)}
      BY DEF Content, Elems
    <2>3. Logged(log, e) \in Seq(Envelope) /\ Elems(Logged(log, e)) = Elems(log) \cup {e}
      BY <2>1, ElemsOfAppend
    <2>4. UNION {x.upds : x \in Elems(log) \cup {e}}
            = (UNION {x.upds : x \in Elems(log)}) \cup e.upds
      OBVIOUS
    <2> QED BY <2>2, <2>3, <2>4
  <1>3. e.snapshot \in BOOLEAN
    BY DEF Envelope
  <1> QED BY <1>1, <1>2, <1>3

LEMMA NextUpdateType ==
  ASSUME TypeOK, NEW p \in Peer, NEW u \in NextUpdate(p)
  PROVE  u \in Update /\ u.peer = p /\ u.doc = docNo[p] /\ u \notin written
  BY BoundsAssumption DEF NextUpdate, Update, TypeOK

LEMMA ConnType ==
  /\ MaxConns \in Nat
  /\ \A c \in Conn : c[1] \in Peer /\ c[2] \in 1..MaxConns
  BY BoundsAssumption DEF Conn, MaxConns
(* The queue of a client after ForwardWrite(): at most an ack and a write more. *)
LEMMA ForwardedType ==
  ASSUME NEW s \in Seq(Msg), NEW a, NEW f,
         a = <<>> \/ \E m \in Msg : a = <<m>>,
         f = <<>> \/ \E m \in Msg : f = <<m>>
  PROVE  /\ a \in Seq(Msg) /\ f \in Seq(Msg)
         /\ s \o a \o f \in Seq(Msg)
         /\ Elems(s \o a \o f) = Elems(s) \cup Elems(a) \cup Elems(f)
  <1>1. \A m \in Msg : <<m>> \in Seq(Msg)
    OBVIOUS
  <1>2. a \in Seq(Msg) /\ f \in Seq(Msg)
    BY <1>1, EmptySeq
  <1> DEFINE sa == s \o a
  <1>3. sa \in Seq(Msg) /\ Elems(sa) = Elems(s) \cup Elems(a)
    BY <1>2, ElemsOfConcat
  <1> HIDE DEF sa
  <1>4. sa \o f \in Seq(Msg) /\ Elems(sa \o f) = Elems(sa) \cup Elems(f)
    BY <1>2, <1>3, ElemsOfConcat
  <1> QED BY <1>2, <1>3, <1>4 DEF sa

-----------------------------------------------------------------------------
(* Type correctness: one step per action. *)

LEMMA TypeInit == Init => TypeOK
  BY EmptySeq, IdleType DEF Init, TypeOK, NotBusy, Idle

LEMMA TypeStep == TypeOK /\ [Next]_vars => TypeOK'
  <1> SUFFICES ASSUME TypeOK, [Next]_vars PROVE TypeOK'
    OBVIOUS
  <1> USE DEF spaceVars, linkVars, relayVars, boundVars
  <1>1. ASSUME NEW p \in Peer, SubscribeNode(p) PROVE TypeOK'
    <2>1. SubscribeMsg(docNo[p] + 1) \in Msg
      BY MsgTypes DEF TypeOK
    <2>2. pend' \in [Peer -> SUBSET Msg]
      BY <1>1, <2>1 DEF SubscribeNode, TypeOK
    <2> QED BY <1>1, <2>2 DEF SubscribeNode, TypeOK
  <1>2. ASSUME NEW p \in Peer, UnsubscribeNode(p) PROVE TypeOK'
    <2>1. UnsubscribeMsg(docNo[p]) \in Msg
      BY MsgTypes DEF TypeOK
    <2>2. pend' \in [Peer -> SUBSET Msg]
      BY <1>2, <2>1 DEF UnsubscribeNode, TypeOK
    <2> QED BY <1>2, <2>2 DEF UnsubscribeNode, TypeOK
  <1>3. ASSUME NEW p \in Peer, HandleLocalUpdate(p) PROVE TypeOK'
    <2>1. PICK u \in NextUpdate(p) :
            /\ doc' = [doc EXCEPT ![p] = @ \cup {u}]
            /\ written' = written \cup {u}
            /\ pend' = [pend EXCEPT ![p] =
                          @ \cup {WriteMsg([upds |-> {u}, snapshot |-> FALSE])}]
      BY <1>3 DEF HandleLocalUpdate
    <2>2. u \in Update
      BY NextUpdateType
    <2>3. WriteMsg([upds |-> {u}, snapshot |-> FALSE]) \in Msg
      BY <2>2, MsgTypes DEF Envelope
    <2>4. pend' \in [Peer -> SUBSET Msg]
      BY <2>1, <2>3 DEF TypeOK
    <2>5. doc' \in [Peer -> SUBSET Update] /\ written' \subseteq Update
      BY <2>1, <2>2 DEF TypeOK
    <2> QED BY <1>3, <2>4, <2>5 DEF HandleLocalUpdate, TypeOK
  <1>4. ASSUME NEW p \in Peer, CompactNode(p) PROVE TypeOK'
    <2>1. WriteMsg([upds |-> doc[p], snapshot |-> TRUE]) \in Msg
      BY MsgTypes DEF Envelope, TypeOK
    <2>2. pend' \in [Peer -> SUBSET Msg]
      BY <1>4, <2>1 DEF CompactNode, TypeOK
    <2>3. /\ compacts' = compacts + 1
          /\ UNCHANGED <<attached, docNo, doc, written, synced, busy, acked,
                         linkVars, relayVars, releases, drops, restarts>>
      BY <1>4 DEF CompactNode
    <2> QED BY <2>2, <2>3 DEF TypeOK
  <1>5. ASSUME NEW p \in Peer, Transmit(p) PROVE TypeOK'
    <2>1. PICK m \in pend[p] :
            /\ pend' = [pend EXCEPT ![p] = @ \ {m}]
            /\ \/ rq' = rq
               \/ /\ Current(p) \in Conn
                  /\ rq' = [rq EXCEPT ![Current(p)] = Append(@, m)]
            /\ sendQ' = sendQ \/ sendQ' = [sendQ EXCEPT ![p] = Append(@, m)]
      BY <1>5 DEF Transmit, TypeOK
    <2>2. m \in Msg
      BY DEF TypeOK
    <2>6. \A s \in Seq(Msg) : Append(s, m) \in Seq(Msg)
      BY <2>2, ElemsOfAppend
    <2>3. rq' \in [Conn -> Seq(Msg)]
      <3>1. CASE rq' = rq
        BY <3>1 DEF TypeOK
      <3>2. CASE Current(p) \in Conn /\ rq' = [rq EXCEPT ![Current(p)] = Append(@, m)]
        <4>1. Append(rq[Current(p)], m) \in Seq(Msg)
          BY <3>2, <2>6 DEF TypeOK
        <4> QED BY <3>2, <4>1 DEF TypeOK
      <3> QED BY <2>1, <3>1, <3>2
    <2>4. sendQ' \in [Peer -> Seq(Msg)]
      <3>1. Append(sendQ[p], m) \in Seq(Msg)
        BY <2>6 DEF TypeOK
      <3> QED BY <2>1, <3>1 DEF TypeOK
    <2>5. pend' \in [Peer -> SUBSET Msg]
      BY <2>1 DEF TypeOK
    <2> QED BY <1>5, <2>3, <2>4, <2>5 DEF Transmit, TypeOK
  <1>6. ASSUME NEW p \in Peer, NEW t, Incoming(p, t)
        PROVE  /\ Head(inq[p]) \in Msg
               /\ inq' \in [Peer -> Seq(Msg)]
    BY <1>6, HeadTailProperties DEF Incoming, TypeOK
  <1>7. ASSUME NEW p \in Peer, ReceiveEnvelope(p) PROVE TypeOK'
    <2>1. Head(inq[p]) \in Msg /\ inq' \in [Peer -> Seq(Msg)]
      BY <1>6, <1>7 DEF ReceiveEnvelope
    <2>2. Head(inq[p]).env.upds \subseteq Update
      BY <2>1 DEF Msg, Envelope
    <2>3. busy' \in [Peer -> [upds: SUBSET Update, doc: Nat]]
      BY <1>7, <2>2 DEF ReceiveEnvelope, TypeOK
    <2> QED BY <1>7, <2>1, <2>3 DEF ReceiveEnvelope, TypeOK
  <1>8. ASSUME NEW p \in Peer, ApplyEnvelope(p) PROVE TypeOK'
    <2>1. doc' \in [Peer -> SUBSET Update]
      BY <1>8 DEF ApplyEnvelope, TypeOK
    <2>2. busy' \in [Peer -> [upds: SUBSET Update, doc: Nat]]
      BY <1>8 DEF ApplyEnvelope, TypeOK, NotBusy
    <2> QED BY <1>8, <2>1, <2>2 DEF ApplyEnvelope, TypeOK
  <1>9. ASSUME NEW p \in Peer, ReceiveSyncAck(p) PROVE TypeOK'
    <2>1. inq' \in [Peer -> Seq(Msg)]
      BY <1>6, <1>9 DEF ReceiveSyncAck
    <2> QED BY <1>9, <2>1 DEF ReceiveSyncAck, TypeOK
  <1>10. ASSUME NEW p \in Peer, ReceiveWriteAck(p) PROVE TypeOK'
    <2>1. Head(inq[p]) \in Msg /\ inq' \in [Peer -> Seq(Msg)]
      BY <1>6, <1>10 DEF ReceiveWriteAck
    <2>2. Head(inq[p]).env.upds \subseteq Update
      BY <2>1 DEF Msg, Envelope
    <2> QED BY <1>10, <2>1, <2>2 DEF ReceiveWriteAck, TypeOK
  <1>11. ASSUME NEW p \in Peer, SocketOpen(p) PROVE TypeOK'
    <2>1. <<p, conn[p] + 1>> \in Conn
      BY <1>11, ConnType DEF SocketOpen, Conn, TypeOK
    <2>2. sockets' \subseteq Conn /\ rq' \in [Conn -> Seq(Msg)]
      BY <1>11, <2>1 DEF SocketOpen, Flushed, TypeOK
    <2>3. Resubscription(p) \subseteq Msg
      BY MsgTypes DEF Resubscription, TypeOK
    <2>4. pend' \in [Peer -> SUBSET Msg]
      BY <1>11, <2>3 DEF SocketOpen, TypeOK
    <2>5. sendQ' \in [Peer -> Seq(Msg)]
      BY <1>11, EmptySeq DEF SocketOpen, TypeOK
    <2> QED BY <1>11, <2>2, <2>4, <2>5 DEF SocketOpen, TypeOK
  <1>12. ASSUME NEW p \in Peer, SocketClose(p) PROVE TypeOK'
    <2>1. inq' \in [Peer -> Seq(Msg)]
      BY <1>12, ElemsOfPrefix DEF SocketClose, TypeOK
    <2>2. rq' \in [Conn -> Seq(Msg)]
      <3>1. PICK q \in Prefixes(rq[Current(p)]) :
              rq' = [rq EXCEPT ![Current(p)] = q]
        BY <1>12 DEF SocketClose
      <3>2. CASE Current(p) \in Conn
        <4>1. q \in Seq(Msg)
          BY <3>1, <3>2, ElemsOfPrefix DEF TypeOK
        <4> QED BY <3>1, <4>1 DEF TypeOK
      <3>3. CASE Current(p) \notin Conn
        BY <3>1, <3>3 DEF TypeOK
      <3> QED BY <3>2, <3>3
    <2>3. drops' \in Nat
      BY <1>12 DEF SocketClose, TypeOK
    <2> QED BY <1>12, <2>1, <2>2, <2>3 DEF SocketClose, TypeOK
  <1>13. ASSUME NEW c \in Conn, HubClose(c) PROVE TypeOK'
    BY <1>13 DEF HubClose, TypeOK
  <1>14. CASE RelayRestart
    <2>1. rq' \in [Conn -> Seq(Msg)] /\ task' \in [Conn -> Task]
      BY <1>14, IdleType, EmptySeq DEF RelayRestart
    <2> QED BY <1>14, <2>1 DEF RelayRestart, TypeOK
  <1>15. ASSUME NEW c \in Conn, NEW t, Dispatch(c, t)
         PROVE  /\ Head(rq[c]) \in Msg
                /\ rq' \in [Conn -> Seq(Msg)]
    BY <1>15, HeadTailProperties DEF Dispatch, TypeOK
  <1>16. ASSUME NEW c \in Conn, HandleSubscribe(c) PROVE TypeOK'
    <2>1. Head(rq[c]) \in Msg /\ rq' \in [Conn -> Seq(Msg)]
      BY <1>15, <1>16 DEF HandleSubscribe
    <2>2. Head(rq[c]).n \in Nat
      BY <2>1 DEF Msg
    <2>3. [Idle EXCEPT !.step = "load", !.n = Head(rq[c]).n] \in Task
      BY <2>2, IdleType DEF Task
    <2>4. task' \in [Conn -> Task]
      BY <1>16, <2>3 DEF HandleSubscribe, TypeOK
    <2> QED BY <1>16, <2>1, <2>4 DEF HandleSubscribe, TypeOK
  <1>17. ASSUME NEW c \in Conn, LoadMirror(c) PROVE TypeOK'
    <2>1. task' \in [Conn -> Task]
      BY <1>17, ZenonT(60) DEF LoadMirror, TypeOK, Task
    <2> QED BY <1>17, <2>1 DEF LoadMirror, TypeOK
  <1>18. ASSUME NEW c \in Conn, Replay(c) PROVE TypeOK'
    <2>1. task[c].log \in Seq(Envelope) /\ task[c].n \in Nat /\ c[1] \in Peer
      BY ConnType DEF TypeOK, Task
    <2>2. Replayed(task[c].log, task[c].n) \in Seq(Msg)
      BY <2>1, ReplayedType
    <2>3. inq[c[1]] \o Replayed(task[c].log, task[c].n) \in Seq(Msg)
      BY <2>1, <2>2, ElemsOfConcat DEF TypeOK
    <2>4. inq' \in [Peer -> Seq(Msg)]
      BY <1>18, <2>1, <2>3 DEF Replay, TypeOK
    <2>5. task' \in [Conn -> Task]
      BY <1>18, IdleType DEF Replay, TypeOK
    <2> QED BY <1>18, <2>4, <2>5 DEF Replay, TypeOK
  <1>19. ASSUME NEW c \in Conn, HandleUnsubscribe(c) PROVE TypeOK'
    <2>1. rq' \in [Conn -> Seq(Msg)]
      BY <1>15, <1>19 DEF HandleUnsubscribe
    <2> QED BY <1>19, <2>1 DEF HandleUnsubscribe, TypeOK
  <1>20. ASSUME NEW c \in Conn, AcceptWrite(c) PROVE TypeOK'
    <2> DEFINE e == Head(rq[c]).env
    <2>1. Head(rq[c]) \in Msg /\ rq' \in [Conn -> Seq(Msg)]
      BY <1>15, <1>20 DEF AcceptWrite
    <2>2. e \in Envelope
      BY <2>1 DEF Msg
    <2>3. mirror' \in Seq(Envelope)
      BY <1>20, <2>2, LoggedType DEF AcceptWrite, TypeOK
    <2>4. [Idle EXCEPT !.step = "forward", !.env = e] \in Task
      BY <2>2, IdleType DEF Task
    <2>5. task' \in [Conn -> Task]
      BY <1>20, <2>4 DEF AcceptWrite, TypeOK
    <2> QED BY <1>20, <2>1, <2>3, <2>5 DEF AcceptWrite, TypeOK
  <1>21. ASSUME NEW c \in Conn, ForwardWrite(c) PROVE TypeOK'
    <2>1. task[c].env \in Envelope /\ task[c].env.upds \in SUBSET Update
      BY DEF TypeOK, Task, Envelope
    <2>2. WriteAck(task[c].env.upds) \in Msg /\ WriteMsg(task[c].env) \in Msg
      BY <2>1, MsgTypes
    <2>3. inq' \in [Peer -> Seq(Msg)]
      BY <1>21, <2>2, ForwardedType DEF ForwardWrite, TypeOK
    <2>4. task' \in [Conn -> Task]
      BY <1>21, IdleType DEF ForwardWrite, TypeOK
    <2> QED BY <1>21, <2>3, <2>4 DEF ForwardWrite, TypeOK
  <1>22. CASE UNCHANGED vars
    BY <1>22 DEF vars, TypeOK
  <1> QED
    BY <1>1, <1>2, <1>3, <1>4, <1>5, <1>7, <1>8, <1>9, <1>10, <1>11, <1>12, <1>13,
       <1>14, <1>16, <1>17, <1>18, <1>19, <1>20, <1>21, <1>22
    DEF Next, AppStep, SpaceStep, RelayStep

(***************************************************************************)
(* Every variable keeps its type in every reachable state: connections,    *)
(* messages and tasks are always well formed.                              *)
(***************************************************************************)
THEOREM TypeCorrect == Spec => []TypeOK
  BY TypeInit, TypeStep, PTL DEF Spec
-----------------------------------------------------------------------------
(***************************************************************************)
(* The inductive invariant behind the mirror's promises.  Without          *)
(* compaction the mirror only ever grows, so whatever was put on its way   *)
(* to a Space when it was in the mirror is in the mirror when it arrives.  *)
(***************************************************************************)
Uncompacted ==
  /\ \A p \in Peer : \A m \in pend[p] \cup Elems(sendQ[p]) : ~m.env.snapshot
  /\ \A c \in Conn : \A m \in Elems(rq[c]) : ~m.env.snapshot

DeliveredIsMirrored ==
  /\ \A p \in Peer : \A m \in Elems(inq[p]) : m.env.upds \subseteq Content(mirror)
  /\ \A p \in Peer : busy[p].upds \subseteq Content(mirror)
  /\ \A c \in Conn : /\ Content(task[c].log) \subseteq Content(mirror)
                     /\ task[c].env.upds \subseteq Content(mirror)

SentIsWritten ==
  /\ \A p \in Peer : \A m \in pend[p] \cup Elems(sendQ[p]) : m.env.upds \subseteq written
  /\ \A c \in Conn : \A m \in Elems(rq[c]) : m.env.upds \subseteq written
  /\ Content(mirror) \subseteq written

MirrorInv ==
  /\ Uncompacted /\ DeliveredIsMirrored /\ SentIsWritten
  /\ RemoteIsMirrored /\ AckedIsMirrored

LEMMA MsgContents ==
  /\ NoEnv.upds = {} /\ ~NoEnv.snapshot
  /\ Idle.env = NoEnv /\ Content(Idle.log) = {}
  /\ \A d : SubscribeMsg(d).env = NoEnv /\ UnsubscribeMsg(d).env = NoEnv
  /\ \A e : WriteMsg(e).env = e
  /\ \A us : WriteAck(us).env.upds = us
  BY DEF NoEnv, Idle, Content, SubscribeMsg, UnsubscribeMsg, WriteMsg, WriteAck

LEMMA MirrorInit == Init => MirrorInv
  <1> SUFFICES ASSUME Init PROVE MirrorInv
    OBVIOUS
  <1>1. Content(mirror) = {} /\ Elems(<<>>) = {}
    BY DEF Init, Content, Elems
  <1> QED
    BY <1>1, MsgContents
    DEF Init, MirrorInv, Uncompacted, DeliveredIsMirrored, SentIsWritten,
        RemoteIsMirrored, AckedIsMirrored, NotBusy

LEMMA MirrorStep ==
  ASSUME MaxCompacts = 0, TypeOK, MirrorInv, [Next]_vars
  PROVE  MirrorInv'
  <1> USE DEF spaceVars, linkVars, relayVars, boundVars
  <1> DEFINE M == Content(mirror)
  <1>1. ASSUME NEW p \in Peer, SubscribeNode(p) PROVE MirrorInv'
    <2>1. /\ pend' = [pend EXCEPT ![p] = @ \cup {SubscribeMsg(docNo[p] + 1)}]
          /\ docNo' = [docNo EXCEPT ![p] = @ + 1] /\ doc' = [doc EXCEPT ![p] = {}]
          /\ UNCHANGED <<written, busy, acked, linkVars, relayVars>>
      BY <1>1 DEF SubscribeNode
    <2>2. Uncompacted' /\ SentIsWritten'
      BY <2>1, MsgContents DEF TypeOK, MirrorInv, Uncompacted, SentIsWritten
    <2>3. DeliveredIsMirrored' /\ AckedIsMirrored'
      BY <2>1 DEF MirrorInv, DeliveredIsMirrored, AckedIsMirrored
    <2>4. RemoteIsMirrored'
      BY <2>1 DEF TypeOK, MirrorInv, RemoteIsMirrored, Foreign
    <2> QED BY <2>2, <2>3, <2>4 DEF MirrorInv
  <1>2. ASSUME NEW p \in Peer, UnsubscribeNode(p) PROVE MirrorInv'
    <2>1. /\ pend' = [pend EXCEPT ![p] = @ \cup {UnsubscribeMsg(docNo[p])}]
          /\ doc' = [doc EXCEPT ![p] = {}]
          /\ UNCHANGED <<docNo, written, busy, acked, linkVars, relayVars>>
      BY <1>2 DEF UnsubscribeNode
    <2>2. Uncompacted' /\ SentIsWritten'
      BY <2>1, MsgContents DEF TypeOK, MirrorInv, Uncompacted, SentIsWritten
    <2>3. DeliveredIsMirrored' /\ AckedIsMirrored'
      BY <2>1 DEF MirrorInv, DeliveredIsMirrored, AckedIsMirrored
    <2>4. RemoteIsMirrored'
      BY <2>1 DEF TypeOK, MirrorInv, RemoteIsMirrored, Foreign
    <2> QED BY <2>2, <2>3, <2>4 DEF MirrorInv
  <1>3. ASSUME NEW p \in Peer, HandleLocalUpdate(p) PROVE MirrorInv'
    <2>1. PICK u \in NextUpdate(p) :
            /\ doc' = [doc EXCEPT ![p] = @ \cup {u}]
            /\ written' = written \cup {u}
            /\ pend' = [pend EXCEPT ![p] =
                          @ \cup {WriteMsg([upds |-> {u}, snapshot |-> FALSE])}]
      BY <1>3 DEF HandleLocalUpdate
    <2>2. UNCHANGED <<docNo, busy, acked, linkVars, relayVars>>
      BY <1>3 DEF HandleLocalUpdate
    <2>3. Uncompacted'
      BY <2>1, <2>2, MsgContents DEF TypeOK, MirrorInv, Uncompacted
    <2>4. SentIsWritten'
      BY <2>1, <2>2, MsgContents DEF TypeOK, MirrorInv, SentIsWritten
    <2>5. DeliveredIsMirrored' /\ AckedIsMirrored'
      BY <2>2 DEF MirrorInv, DeliveredIsMirrored, AckedIsMirrored
    <2>6. u.peer = p /\ u.doc = docNo[p]
      BY NextUpdateType
    <2>7. RemoteIsMirrored'
      BY <2>1, <2>2, <2>6 DEF TypeOK, MirrorInv, RemoteIsMirrored, Foreign
    <2> QED BY <2>3, <2>4, <2>5, <2>7 DEF MirrorInv
  <1>4. ASSUME NEW p \in Peer, CompactNode(p) PROVE MirrorInv'
    BY <1>4 DEF CompactNode, TypeOK
  <1>5. ASSUME NEW p \in Peer, Transmit(p) PROVE MirrorInv'
    <2>1. PICK m \in pend[p] :
            /\ pend' = [pend EXCEPT ![p] = @ \ {m}]
            /\ \/ rq' = rq
               \/ /\ Current(p) \in Conn
                  /\ rq' = [rq EXCEPT ![Current(p)] = Append(@, m)]
            /\ sendQ' = sendQ \/ sendQ' = [sendQ EXCEPT ![p] = Append(@, m)]
      BY <1>5 DEF Transmit, TypeOK
    <2>2. UNCHANGED <<docNo, doc, written, busy, acked, inq, task, mirror>>
      BY <1>5 DEF Transmit
    <2>3. \A s \in Seq(Msg) : Elems(Append(s, m)) = Elems(s) \cup {m}
      BY ElemsOfAppend DEF TypeOK
    <2>4. ASSUME NEW q \in Peer
          PROVE  Elems(sendQ'[q]) \subseteq Elems(sendQ[q]) \cup pend[q]
      <3>1. sendQ'[q] = sendQ[q] \/ (q = p /\ sendQ'[q] = Append(sendQ[q], m))
        BY <2>1 DEF TypeOK
      <3> QED BY <2>3, <3>1, ZenonT(60) DEF TypeOK
    <2>5. ASSUME NEW c \in Conn
          PROVE  Elems(rq'[c]) \subseteq Elems(rq[c]) \cup {m}
      <3>1. rq'[c] = rq[c] \/ rq'[c] = Append(rq[c], m)
        BY <2>1 DEF TypeOK
      <3> QED BY <2>3, <3>1 DEF TypeOK
    <2>6. \A q \in Peer : pend'[q] \subseteq pend[q]
      BY <2>1 DEF TypeOK
    <2>7. Uncompacted'
      BY <2>4, <2>5, <2>6 DEF MirrorInv, Uncompacted
    <2>8. SentIsWritten'
      BY <2>2, <2>4, <2>5, <2>6 DEF MirrorInv, SentIsWritten
    <2>9. DeliveredIsMirrored' /\ AckedIsMirrored' /\ RemoteIsMirrored'
      BY <2>2 DEF MirrorInv, DeliveredIsMirrored, AckedIsMirrored, RemoteIsMirrored, Foreign
    <2> QED BY <2>7, <2>8, <2>9 DEF MirrorInv
  <1>6. ASSUME NEW p \in Peer, NEW t, Incoming(p, t)
        PROVE  /\ Head(inq[p]) \in Elems(inq[p])
               /\ \A q \in Peer : Elems(inq'[q]) \subseteq Elems(inq[q])
    <2>1. inq[p] \in Seq(Msg) /\ inq[p] # <<>> /\ inq' = [inq EXCEPT ![p] = Tail(@)]
      BY <1>6 DEF Incoming, TypeOK
    <2>2. Head(inq[p]) \in Elems(inq[p]) /\ Elems(Tail(inq[p])) \subseteq Elems(inq[p])
      BY <2>1, ElemsOfTail
    <2> QED BY <2>1, <2>2 DEF TypeOK
  <1>7. ASSUME NEW p \in Peer, ReceiveEnvelope(p) PROVE MirrorInv'
    <2>1. /\ Head(inq[p]).env.upds \subseteq M
          /\ \A q \in Peer : Elems(inq'[q]) \subseteq Elems(inq[q])
      BY <1>6, <1>7 DEF ReceiveEnvelope, MirrorInv, DeliveredIsMirrored
    <2>2. UNCHANGED <<docNo, doc, written, pend, acked, sendQ, relayVars>>
      BY <1>7 DEF ReceiveEnvelope
    <2>3. \A q \in Peer : busy'[q].upds \subseteq M
      BY <1>7, <2>1 DEF ReceiveEnvelope, TypeOK, MirrorInv, DeliveredIsMirrored
    <2>4. DeliveredIsMirrored'
      BY <2>1, <2>2, <2>3 DEF MirrorInv, DeliveredIsMirrored
    <2> QED
      BY <2>2, <2>4 DEF MirrorInv, Uncompacted, SentIsWritten, RemoteIsMirrored,
                        Foreign, AckedIsMirrored
  <1>8. ASSUME NEW p \in Peer, ApplyEnvelope(p) PROVE MirrorInv'
    <2>1. UNCHANGED <<docNo, written, pend, acked, linkVars, relayVars>>
      BY <1>8 DEF ApplyEnvelope
    <2>2. \A q \in Peer : busy'[q].upds \subseteq M
      BY <1>8 DEF ApplyEnvelope, TypeOK, NotBusy, MirrorInv, DeliveredIsMirrored
    <2>3. \A q \in Peer : doc'[q] \subseteq doc[q] \cup M
      BY <1>8 DEF ApplyEnvelope, TypeOK, MirrorInv, DeliveredIsMirrored
    <2>4. RemoteIsMirrored'
      BY <2>1, <2>3 DEF MirrorInv, RemoteIsMirrored, Foreign
    <2>5. DeliveredIsMirrored'
      BY <2>1, <2>2 DEF MirrorInv, DeliveredIsMirrored
    <2> QED
      BY <2>1, <2>4, <2>5 DEF MirrorInv, Uncompacted, SentIsWritten, AckedIsMirrored
  <1>9. ASSUME NEW p \in Peer, ReceiveSyncAck(p) PROVE MirrorInv'
    <2>1. \A q \in Peer : Elems(inq'[q]) \subseteq Elems(inq[q])
      BY <1>6, <1>9 DEF ReceiveSyncAck
    <2>2. UNCHANGED <<docNo, doc, written, pend, busy, acked, sendQ, relayVars>>
      BY <1>9 DEF ReceiveSyncAck
    <2> QED
      BY <2>1, <2>2 DEF MirrorInv, Uncompacted, DeliveredIsMirrored, SentIsWritten,
                        RemoteIsMirrored, Foreign, AckedIsMirrored
  <1>10. ASSUME NEW p \in Peer, ReceiveWriteAck(p) PROVE MirrorInv'
    <2>1. /\ Head(inq[p]).env.upds \subseteq M
          /\ \A q \in Peer : Elems(inq'[q]) \subseteq Elems(inq[q])
      BY <1>6, <1>10 DEF ReceiveWriteAck, MirrorInv, DeliveredIsMirrored
    <2>2. UNCHANGED <<docNo, doc, written, pend, busy, sendQ, relayVars>>
      BY <1>10 DEF ReceiveWriteAck
    <2>3. AckedIsMirrored'
      BY <1>10, <2>1, <2>2 DEF ReceiveWriteAck, TypeOK, MirrorInv, AckedIsMirrored
    <2> QED
      BY <2>1, <2>2, <2>3 DEF MirrorInv, Uncompacted, DeliveredIsMirrored, SentIsWritten,
                              RemoteIsMirrored, Foreign
  <1>11. ASSUME NEW p \in Peer, SocketOpen(p) PROVE MirrorInv'
    <2> DEFINE c == <<p, conn[p] + 1>>
    <2>1. /\ rq' = [rq EXCEPT ![c] = sendQ[p]]
          /\ sendQ' = [sendQ EXCEPT ![p] = <<>>]
          /\ pend' = [pend EXCEPT ![p] = @ \cup Resubscription(p)]
          /\ UNCHANGED <<docNo, doc, written, busy, acked, inq, task, mirror>>
      BY <1>11 DEF SocketOpen, Flushed
    <2>2. \A m \in Resubscription(p) : m.env = NoEnv
      BY MsgContents DEF Resubscription
    <2>3. \A q \in Peer : Elems(sendQ'[q]) \subseteq Elems(sendQ[q])
      BY <2>1, ElemsOfEmpty DEF TypeOK
    <2>4. \A d \in Conn : rq'[d] = rq[d] \/ rq'[d] = sendQ[p]
      BY <2>1 DEF TypeOK
    <2>5. \A q \in Peer : \A m \in pend'[q] : m \in pend[q] \/ m.env = NoEnv
      BY <2>1, <2>2 DEF TypeOK
    <2>6. Uncompacted'
      BY <2>3, <2>4, <2>5, MsgContents DEF MirrorInv, Uncompacted
    <2>7. SentIsWritten'
      BY <2>1, <2>3, <2>4, <2>5, MsgContents DEF MirrorInv, SentIsWritten
    <2> QED
      BY <2>1, <2>6, <2>7 DEF MirrorInv, DeliveredIsMirrored, RemoteIsMirrored, Foreign,
                              AckedIsMirrored
  <1>12. ASSUME NEW p \in Peer, SocketClose(p) PROVE MirrorInv'
    <2>1. UNCHANGED <<spaceVars, sendQ, task, mirror>>
      BY <1>12 DEF SocketClose
    <2>2. \A q \in Peer : Elems(inq'[q]) \subseteq Elems(inq[q])
      <3>1. PICK q \in Prefixes(inq[p]) : inq' = [inq EXCEPT ![p] = q]
        BY <1>12 DEF SocketClose
      <3>2. Elems(q) \subseteq Elems(inq[p])
        BY ElemsOfPrefix DEF TypeOK
      <3> QED BY <3>1, <3>2 DEF TypeOK
    <2>3. \A c \in Conn : Elems(rq'[c]) \subseteq Elems(rq[c])
      <3>1. PICK q \in Prefixes(rq[Current(p)]) : rq' = [rq EXCEPT ![Current(p)] = q]
        BY <1>12 DEF SocketClose
      <3>2. Current(p) \in Conn => Elems(q) \subseteq Elems(rq[Current(p)])
        BY ElemsOfPrefix DEF TypeOK
      <3> QED BY <3>1, <3>2 DEF TypeOK
    <2> QED
      BY <2>1, <2>2, <2>3 DEF MirrorInv, Uncompacted, DeliveredIsMirrored, SentIsWritten,
                              RemoteIsMirrored, Foreign, AckedIsMirrored
  <1>13. ASSUME NEW c \in Conn, HubClose(c) PROVE MirrorInv'
    BY <1>13 DEF HubClose, MirrorInv, Uncompacted, DeliveredIsMirrored, SentIsWritten,
                 RemoteIsMirrored, Foreign, AckedIsMirrored
  <1>14. CASE RelayRestart
    <2>1. /\ \A c \in Conn : Elems(rq'[c]) = {} /\ task'[c] = Idle
          /\ UNCHANGED <<spaceVars, linkVars, mirror>>
      BY <1>14, ElemsOfEmpty DEF RelayRestart
    <2> QED
      BY <2>1, MsgContents
      DEF MirrorInv, Uncompacted, DeliveredIsMirrored, SentIsWritten,
          RemoteIsMirrored, Foreign, AckedIsMirrored
  <1>15. ASSUME NEW c \in Conn, NEW t, Dispatch(c, t)
         PROVE  /\ Head(rq[c]) \in Msg
                /\ Head(rq[c]) \in Elems(rq[c])
                /\ \A d \in Conn : Elems(rq'[d]) \subseteq Elems(rq[d])
    <2>1. rq[c] \in Seq(Msg) /\ rq[c] # <<>> /\ rq' = [rq EXCEPT ![c] = Tail(@)]
      BY <1>15 DEF Dispatch, TypeOK
    <2>2. /\ Head(rq[c]) \in Msg
          /\ Head(rq[c]) \in Elems(rq[c]) /\ Elems(Tail(rq[c])) \subseteq Elems(rq[c])
      BY <2>1, ElemsOfTail
    <2> QED BY <2>1, <2>2 DEF TypeOK
  <1>16. ASSUME NEW c \in Conn, HandleSubscribe(c) PROVE MirrorInv'
    <2>1. \A d \in Conn : Elems(rq'[d]) \subseteq Elems(rq[d])
      BY <1>15, <1>16 DEF HandleSubscribe
    <2>2. UNCHANGED <<spaceVars, linkVars, mirror>>
      BY <1>16 DEF HandleSubscribe
    <2>3. \A d \in Conn : \/ task'[d] = task[d]
                          \/ task'[d].env = NoEnv /\ task'[d].log = Idle.log
      <3> DEFINE k == [Idle EXCEPT !.step = "load", !.n = Head(rq[c]).n]
      <3>1. k.env = NoEnv /\ k.log = Idle.log
        BY DEF Idle
      <3>2. task' = [task EXCEPT ![c] = k]
        BY <1>16 DEF HandleSubscribe
      <3> HIDE DEF k
      <3>3. \A d \in Conn : task'[d] = IF d = c THEN k ELSE task[d]
        BY <3>2 DEF TypeOK
      <3> QED BY <3>1, <3>3
    <2>4. DeliveredIsMirrored'
      BY <2>2, <2>3, MsgContents DEF MirrorInv, DeliveredIsMirrored
    <2> QED
      BY <2>1, <2>2, <2>4 DEF MirrorInv, Uncompacted, SentIsWritten, RemoteIsMirrored,
                              Foreign, AckedIsMirrored
  <1>17. ASSUME NEW c \in Conn, LoadMirror(c) PROVE MirrorInv'
    <2>1. UNCHANGED <<spaceVars, linkVars, rq, mirror>>
      BY <1>17 DEF LoadMirror
    <2>2. \A d \in Conn : /\ task'[d].env = task[d].env
                          /\ task'[d].log \in {task[d].log, mirror}
      BY <1>17 DEF LoadMirror, TypeOK, Task
    <2>3. DeliveredIsMirrored'
      BY <2>1, <2>2 DEF MirrorInv, DeliveredIsMirrored
    <2> QED
      BY <2>1, <2>3 DEF MirrorInv, Uncompacted, SentIsWritten, RemoteIsMirrored,
                        Foreign, AckedIsMirrored
  <1>18. ASSUME NEW c \in Conn, Replay(c) PROVE MirrorInv'
    <2> DEFINE r == Replayed(task[c].log, task[c].n)
    <2>1. /\ UNCHANGED <<spaceVars, sendQ, rq, mirror>>
          /\ task' = [task EXCEPT ![c] = Idle]
          /\ inq' = inq \/ inq' = [inq EXCEPT ![c[1]] = @ \o r]
      BY <1>18 DEF Replay
    <2>2. task[c].log \in Seq(Envelope) /\ task[c].n \in Nat /\ c[1] \in Peer
      BY ConnType DEF TypeOK, Task
    <2>3. r \in Seq(Msg) /\ \A m \in Elems(r) : m.env.upds \subseteq M
      BY <2>2, ReplayedType DEF MirrorInv, DeliveredIsMirrored
    <2> HIDE DEF r
    <2>4. Elems(inq[c[1]] \o r) = Elems(inq[c[1]]) \cup Elems(r)
      BY <2>2, <2>3, ElemsOfConcat DEF TypeOK
    <2>5. \A p \in Peer : Elems(inq'[p]) \subseteq Elems(inq[p]) \cup Elems(r)
      BY <2>1, <2>2, <2>4 DEF TypeOK
    <2>6. \A d \in Conn : task'[d] \in {task[d], Idle}
      BY <2>1 DEF TypeOK
    <2>7. DeliveredIsMirrored'
      BY <2>1, <2>3, <2>5, <2>6, MsgContents DEF MirrorInv, DeliveredIsMirrored
    <2> QED
      BY <2>1, <2>7 DEF MirrorInv, Uncompacted, SentIsWritten, RemoteIsMirrored,
                        Foreign, AckedIsMirrored
  <1>19. ASSUME NEW c \in Conn, HandleUnsubscribe(c) PROVE MirrorInv'
    <2>1. \A d \in Conn : Elems(rq'[d]) \subseteq Elems(rq[d])
      BY <1>15, <1>19 DEF HandleUnsubscribe
    <2>2. UNCHANGED <<spaceVars, linkVars, task, mirror>>
      BY <1>19 DEF HandleUnsubscribe
    <2> QED
      BY <2>1, <2>2 DEF MirrorInv, Uncompacted, DeliveredIsMirrored, SentIsWritten,
                        RemoteIsMirrored, Foreign, AckedIsMirrored
  <1>20. ASSUME NEW c \in Conn, AcceptWrite(c) PROVE MirrorInv'
    <2> DEFINE e == Head(rq[c]).env
    <2>1. /\ Head(rq[c]) \in Msg /\ Head(rq[c]) \in Elems(rq[c])
          /\ \A d \in Conn : Elems(rq'[d]) \subseteq Elems(rq[d])
      BY <1>15, <1>20 DEF AcceptWrite
    <2>2. e \in Envelope /\ ~e.snapshot /\ e.upds \subseteq written
      BY <2>1 DEF Msg, MirrorInv, Uncompacted, SentIsWritten
    <2>3. /\ mirror' = Logged(mirror, e)
          /\ task' = [task EXCEPT ![c] = [Idle EXCEPT !.step = "forward", !.env = e]]
          /\ UNCHANGED <<spaceVars, linkVars>>
      BY <1>20 DEF AcceptWrite
    <2> HIDE DEF e
    <2>4. Content(mirror') = M \cup e.upds
      BY <2>2, <2>3, LoggedType DEF TypeOK
    <2>5. \A d \in Conn : \/ task'[d] = task[d]
                          \/ task'[d].env = e /\ task'[d].log = Idle.log
      <3> DEFINE k == [Idle EXCEPT !.step = "forward", !.env = e]
      <3>1. k.env = e /\ k.log = Idle.log
        BY DEF Idle
      <3>2. task' = [task EXCEPT ![c] = k]
        BY <2>3
      <3> HIDE DEF k
      <3>3. \A d \in Conn : task'[d] = IF d = c THEN k ELSE task[d]
        BY <3>2 DEF TypeOK
      <3> QED BY <3>1, <3>3
    <2>6. DeliveredIsMirrored'
      BY <2>3, <2>4, <2>5, MsgContents DEF MirrorInv, DeliveredIsMirrored
    <2>7. RemoteIsMirrored' /\ AckedIsMirrored'
      BY <2>3, <2>4 DEF MirrorInv, RemoteIsMirrored, Foreign, AckedIsMirrored
    <2>8. Uncompacted' /\ SentIsWritten'
      BY <2>1, <2>2, <2>3, <2>4 DEF MirrorInv, Uncompacted, SentIsWritten
    <2> QED BY <2>6, <2>7, <2>8 DEF MirrorInv
  <1>21. ASSUME NEW c \in Conn, ForwardWrite(c) PROVE MirrorInv'
    <2> DEFINE e      == task[c].env
               ack(q) == IF q = c[1] /\ Live(c) THEN <<WriteAck(e.upds)>> ELSE <<>>
               fwd(q) == IF q \in Forwardees(c) THEN <<WriteMsg(e)>> ELSE <<>>
    <2>1. /\ UNCHANGED <<spaceVars, sendQ, rq, mirror>>
          /\ task' = [task EXCEPT ![c] = Idle]
          /\ inq' = [q \in Peer |-> inq[q] \o ack(q) \o fwd(q)]
      BY <1>21 DEF ForwardWrite
    <2>2. e \in Envelope /\ e.upds \in SUBSET Update /\ e.upds \subseteq M
      BY DEF TypeOK, Task, Envelope, MirrorInv, DeliveredIsMirrored
    <2>3. WriteAck(e.upds) \in Msg /\ WriteMsg(e) \in Msg
      BY <2>2, MsgTypes
    <2>4. ASSUME NEW q \in Peer, NEW m \in Elems(inq'[q])
          PROVE  m \in Elems(inq[q]) \/ m.env.upds = e.upds
      <3>1. Elems(inq'[q]) = Elems(inq[q]) \cup Elems(ack(q)) \cup Elems(fwd(q))
        BY <2>1, <2>3, ForwardedType DEF TypeOK
      <3>2. /\ Elems(ack(q)) \subseteq {WriteAck(e.upds)}
            /\ Elems(fwd(q)) \subseteq {WriteMsg(e)}
        BY DEF Elems
      <3> QED BY <3>1, <3>2, MsgContents
    <2>5. \A d \in Conn : task'[d] \in {task[d], Idle}
      BY <2>1 DEF TypeOK
    <2>6. DeliveredIsMirrored'
      BY <2>1, <2>2, <2>4, <2>5, MsgContents DEF MirrorInv, DeliveredIsMirrored
    <2> QED
      BY <2>1, <2>6 DEF MirrorInv, Uncompacted, SentIsWritten, RemoteIsMirrored,
                        Foreign, AckedIsMirrored
  <1>22. CASE UNCHANGED vars
    BY <1>22 DEF vars, MirrorInv, Uncompacted, DeliveredIsMirrored, SentIsWritten,
                 RemoteIsMirrored, Foreign, AckedIsMirrored
  <1> QED
    BY <1>1, <1>2, <1>3, <1>4, <1>5, <1>7, <1>8, <1>9, <1>10, <1>11, <1>12, <1>13,
       <1>14, <1>16, <1>17, <1>18, <1>19, <1>20, <1>21, <1>22
    DEF Next, AppStep, SpaceStep, RelayStep

(***************************************************************************)
(* acceptWrite() mirrors before it forwards: whatever a Space shows that   *)
(* it did not write itself is in the relay's file, for any number of       *)
(* Spaces, writes, drops, restarts and re-subscriptions.  compactNode() is *)
(* excluded: it is allowed to drop updates from the file.                  *)
(***************************************************************************)
THEOREM RemoteMirrored ==
  ASSUME MaxCompacts = 0
  PROVE  Spec => []RemoteIsMirrored
  <1>1. TypeOK /\ MirrorInv /\ [Next]_vars => (TypeOK /\ MirrorInv)'
    BY TypeStep, MirrorStep
  <1>2. MirrorInv => RemoteIsMirrored
    BY DEF MirrorInv
  <1> QED BY <1>1, <1>2, TypeInit, MirrorInit, PTL DEF Spec

(* A write-ack means durable: what it acknowledges stays in the relay's file. *)
THEOREM AckedMirrored ==
  ASSUME MaxCompacts = 0
  PROVE  Spec => []AckedIsMirrored
  <1>1. TypeOK /\ MirrorInv /\ [Next]_vars => (TypeOK /\ MirrorInv)'
    BY TypeStep, MirrorStep
  <1>2. MirrorInv => AckedIsMirrored
    BY DEF MirrorInv
  <1> QED BY <1>1, <1>2, TypeInit, MirrorInit, PTL DEF Spec

-----------------------------------------------------------------------------
(* How often a Y.Doc has been built: once more than it was released. *)
DocCount ==
  /\ releases <= MaxReleases
  /\ \A p \in Peer : docNo[p] <= releases + IF attached[p] THEN 1 ELSE 0
  /\ \A p \in Peer : attached[p] => docNo[p] >= 1

LEMMA DocCountInit == Init => DocCount
  BY BoundsAssumption DEF Init, DocCount

LEMMA DocCountStep ==
  ASSUME TypeOK, DocCount, [Next]_vars
  PROVE  DocCount'
  <1> USE DEF spaceVars, linkVars, relayVars, boundVars
  <1>0. /\ attached \in [Peer -> BOOLEAN] /\ docNo \in [Peer -> Nat] /\ releases \in Nat
    BY DEF TypeOK
  <1>1. ASSUME NEW p \in Peer, SubscribeNode(p) PROVE DocCount'
    <2>1. /\ ~attached[p] /\ releases' = releases
          /\ attached' = [attached EXCEPT ![p] = TRUE]
          /\ docNo' = [docNo EXCEPT ![p] = @ + 1]
      BY <1>1 DEF SubscribeNode
    <2>2. \A q \in Peer : /\ attached'[q] = IF q = p THEN TRUE ELSE attached[q]
                          /\ docNo'[q] = IF q = p THEN docNo[q] + 1 ELSE docNo[q]
      BY <1>0, <2>1
    <2> QED BY <1>0, <2>1, <2>2 DEF DocCount
  <1>2. ASSUME NEW p \in Peer, UnsubscribeNode(p) PROVE DocCount'
    <2>1. /\ attached[p] /\ releases' = releases + 1 /\ releases < MaxReleases
          /\ attached' = [attached EXCEPT ![p] = FALSE] /\ docNo' = docNo
      BY <1>2 DEF UnsubscribeNode
    <2>2. \A q \in Peer : attached'[q] = IF q = p THEN FALSE ELSE attached[q]
      BY <1>0, <2>1
    <2> QED BY <1>0, <2>1, <2>2, BoundsAssumption DEF DocCount
  <1>3. CASE UNCHANGED <<attached, docNo, releases>>
    BY <1>3 DEF DocCount
  <1>4. \/ \E p \in Peer : SubscribeNode(p) \/ UnsubscribeNode(p)
        \/ UNCHANGED <<attached, docNo, releases>>
    BY ZenonT(60) DEF Next, AppStep, SpaceStep, RelayStep, HandleLocalUpdate, CompactNode, Transmit,
       ReceiveEnvelope, ApplyEnvelope, ReceiveSyncAck, ReceiveWriteAck, SocketOpen,
       SocketClose, HubClose, RelayRestart, HandleSubscribe, LoadMirror, Replay,
       HandleUnsubscribe, AcceptWrite, ForwardWrite, vars
  <1> QED BY <1>1, <1>2, <1>3, <1>4

(***************************************************************************)
(* Each step of the Spaces and the relay is a step of the shared log, or   *)
(* changes neither what the log nor what a replica holds.                  *)
(***************************************************************************)
LEMMA SharedStep ==
  ASSUME MaxCompacts = 0, TypeOK, DocCount, MirrorInv, [Next]_vars
  PROVE  [Shared!Next]_(Shared!vars)
  <1> USE DEF spaceVars, linkVars, relayVars, boundVars
  <1>1. ASSUME NEW p \in Peer, SubscribeNode(p) \/ UnsubscribeNode(p)
        PROVE  Shared!Next
    <2>1. Shared!Discard(p)
      BY <1>1 DEF SubscribeNode, UnsubscribeNode, Shared!Discard
    <2> QED BY <2>1 DEF Shared!Next
  <1>2. ASSUME NEW p \in Peer, HandleLocalUpdate(p)
        PROVE  Shared!Next
    <2>1. PICK u \in NextUpdate(p) : /\ doc' = [doc EXCEPT ![p] = @ \cup {u}]
                                     /\ written' = written \cup {u}
      BY <1>2 DEF HandleLocalUpdate
    <2>2. u.peer = p /\ u \notin written
      BY NextUpdateType
    <2>3. u \in BoundedUpdate
      BY <1>2, BoundsAssumption
      DEF HandleLocalUpdate, NextUpdate, BoundedUpdate, DocCount, TypeOK
    <2>4. UNCHANGED mirror
      BY <1>2 DEF HandleLocalUpdate
    <2>5. Shared!Write(p, u)
      BY <2>1, <2>2, <2>4 DEF Shared!Write
    <2> QED BY <2>3, <2>5 DEF Shared!Next
  <1>3. ASSUME NEW p \in Peer, ApplyEnvelope(p)
        PROVE  [Shared!Next]_(Shared!vars)
    <2>1. UNCHANGED <<written, mirror>>
      BY <1>3 DEF ApplyEnvelope
    <2>2. CASE doc' = doc
      BY <2>1, <2>2 DEF Shared!vars
    <2>3. CASE doc' = [doc EXCEPT ![p] = @ \cup busy[p].upds]
      <3>1. busy[p].upds \subseteq Content(mirror)
        BY DEF MirrorInv, DeliveredIsMirrored
      <3>2. Shared!Deliver(p, busy[p].upds)
        BY <2>1, <2>3, <3>1 DEF Shared!Deliver
      <3> QED BY <3>1, <3>2 DEF Shared!Next
    <2> QED BY <1>3, <2>2, <2>3 DEF ApplyEnvelope
  <1>4. ASSUME NEW c \in Conn, AcceptWrite(c)
        PROVE  Shared!Next
    <2> DEFINE e == Head(rq[c]).env
    <2>1. rq[c] \in Seq(Msg) /\ rq[c] # <<>>
      BY <1>4 DEF AcceptWrite, Dispatch, TypeOK
    <2>2. Head(rq[c]) \in Msg /\ Head(rq[c]) \in Elems(rq[c])
      BY <2>1, ElemsOfTail
    <2>3. e \in Envelope /\ ~e.snapshot /\ e.upds \subseteq written
      BY <2>2 DEF Msg, MirrorInv, Uncompacted, SentIsWritten
    <2>4. mirror' = Logged(mirror, e) /\ UNCHANGED <<written, doc>>
      BY <1>4 DEF AcceptWrite
    <2> HIDE DEF e
    <2>5. Content(mirror') = Content(mirror) \cup e.upds
      BY <2>3, <2>4, LoggedType DEF TypeOK
    <2>6. Shared!Publish(e.upds)
      BY <2>3, <2>4, <2>5 DEF Shared!Publish
    <2> QED BY <2>3, <2>6 DEF Shared!Next
  <1>5. CASE UNCHANGED <<written, mirror, doc>>
    BY <1>5 DEF Shared!vars
  <1>6. \/ \E p \in Peer : \/ SubscribeNode(p) \/ UnsubscribeNode(p)
                           \/ HandleLocalUpdate(p) \/ ApplyEnvelope(p)
        \/ \E c \in Conn : AcceptWrite(c)
        \/ UNCHANGED <<written, mirror, doc>>
    BY ZenonT(60) DEF Next, AppStep, SpaceStep, RelayStep, CompactNode, Transmit,
       ReceiveEnvelope, ReceiveSyncAck, ReceiveWriteAck, SocketOpen,
       SocketClose, HubClose, RelayRestart, HandleSubscribe, LoadMirror, Replay,
       HandleUnsubscribe, ForwardWrite, vars
  <1> QED BY <1>1, <1>2, <1>3, <1>4, <1>5, <1>6

(***************************************************************************)
(* The Spaces and the relay implement the shared log: the relay's file     *)
(* only gains updates really made, and a Space shows updates of others     *)
(* only once they are in it, through every loss of connections, restart    *)
(* and re-subscription.  compactNode() is excluded: it may drop updates.   *)
(***************************************************************************)
THEOREM ImplementsSharedLog ==
  ASSUME MaxCompacts = 0
  PROVE  Spec => SharedSpec
  <1>1. Init => Shared!Init
    BY DEF Init, Shared!Init, Content
  <1>2. /\ TypeOK /\ DocCount /\ MirrorInv /\ [Next]_vars
           => (TypeOK /\ DocCount /\ MirrorInv)'
        /\ TypeOK /\ DocCount /\ MirrorInv /\ [Next]_vars => [Shared!Next]_(Shared!vars)
    BY TypeStep, DocCountStep, MirrorStep, SharedStep
  <1> QED
    BY <1>1, <1>2, TypeInit, DocCountInit, MirrorInit, PTL DEF Spec, SharedSpec, Shared!Spec

-----------------------------------------------------------------------------
(***************************************************************************)
(* Proofs about the hand-over from catch-up to live forwarding: that a     *)
(* Space in use is subscribed, that nothing falls between what the relay   *)
(* replays and what it forwards, and that a sync-ack is never early.       *)
(***************************************************************************)

(* Nobody asks to be unsubscribed. *)
NoneUnsubscribes ==
  /\ \A p \in Peer : \A m \in pend[p] \cup Elems(sendQ[p]) : m.t # "unsubscribe"
  /\ \A c \in Conn : \A m \in Elems(rq[c]) : m.t # "unsubscribe"

(* The hub has never heard of a connection its client has not opened yet. *)
Fresh ==
  \A c \in Conn : conn[c[1]] < c[2] => task[c] = Idle /\ rq[c] = <<>>

(* Who is being caught up is a subscriber already, unless it is gone. *)
LoadsForSubscribers ==
  \A c \in sockets : task[c].step = "load" => c \in subs

SubscribedInv ==
  NoneUnsubscribes /\ Fresh /\ LoadsForSubscribers /\ AttachedIsSubscribed

-----------------------------------------------------------------------------
(* What p may send: its own updates and, in a snapshot, what it has. *)
Own(p, u) == u.peer = p \/ (MaxCompacts # 0 /\ u \in doc[p])

SentByOwner ==
  /\ \A p \in Peer : \A m \in pend[p] \cup Elems(sendQ[p]) :
       \A u \in m.env.upds : Own(p, u)
  /\ \A c \in Conn : \A m \in Elems(rq[c]) : \A u \in m.env.upds : Own(c[1], u)
  /\ \A c \in Conn : \A u \in task[c].env.upds : Own(c[1], u)

DetachedIsEmpty == \A p \in Peer : ~attached[p] => doc[p] = {}

(* Only a replay has a loaded log. *)
LogIsReplayed == \A c \in Conn : task[c].step # "replay" => task[c].log = <<>>

CatchUpInv == SentByOwner /\ DetachedIsEmpty /\ LogIsReplayed /\ NoMissedUpdate

-----------------------------------------------------------------------------
(* A request, and the sync-ack that answers it, is for this Y.Doc or an *)
(* earlier one.                                                         *)
NumbersKnown ==
  /\ \A p \in Peer : \A m \in pend[p] \cup Elems(sendQ[p]) : m.n <= docNo[p]
  /\ \A c \in Conn : \A m \in Elems(rq[c]) : m.n <= docNo[c[1]]
  /\ \A c \in Conn : task[c].n <= docNo[c[1]]
  /\ \A p \in Peer : \A m \in Elems(inq[p]) : m.n <= docNo[p]

(* What the frames before the i-th bring. *)
Before(q, i) == UNION {q[j].env.upds : j \in {k \in 1..(i - 1) : q[k].t = "write"}}

(* Every sync-ack for Y.Doc d in q speaks of what is in S or comes before it. *)
Answered(q, d, S) ==
  \A i \in DOMAIN q :
    q[i].t = "sync-ack" /\ q[i].n = d => q[i].env.upds \subseteq S \cup Before(q, i)

(* What the current Y.Doc of p has, and what is being verified for it. *)
Taken(p) == doc[p] \cup IF busy[p].doc = docNo[p] THEN busy[p].upds ELSE {}

AcksAreLast == \A p \in Peer : attached[p] => Answered(inq[p], docNo[p], Taken(p))

AckInv == NumbersKnown /\ AcksAreLast

-----------------------------------------------------------------------------
(* What taking the first element leaves of the members of a sequence. *)
LEMMA ElemsOfHeadAndTail ==
  ASSUME NEW S, NEW s \in Seq(S), s # <<>>
  PROVE  Elems(s) = {Head(s)} \cup Elems(Tail(s))
  <1>1. /\ Tail(s) \in Seq(S) /\ Len(Tail(s)) = Len(s) - 1
        /\ \A i \in 1..Len(Tail(s)) : Tail(s)[i] = s[i + 1]
        /\ Head(s) = s[1]
    BY HeadTailProperties
  <1>2. /\ Len(s) \in Nat /\ DOMAIN s = 1..Len(s)
        /\ DOMAIN Tail(s) = 1..(Len(s) - 1)
    BY <1>1, LenProperties
  <1>3. ASSUME NEW i \in 1..Len(s) PROVE s[i] \in {Head(s)} \cup Elems(Tail(s))
    <2>1. CASE i = 1
      BY <2>1, <1>1
    <2>2. CASE i # 1
      <3>1. i - 1 \in 1..(Len(s) - 1) /\ s[i] = Tail(s)[i - 1]
        BY <2>2, <1>1, <1>2
      <3> QED BY <3>1, <1>2 DEF Elems
    <2> QED BY <2>1, <2>2
  <1>4. Elems(s) \subseteq {Head(s)} \cup Elems(Tail(s))
    BY <1>2, <1>3 DEF Elems
  <1> QED BY <1>4, ElemsOfTail

(* Settled(), with the queue as a set of messages. *)
LEMMA SettledMeans ==
  ASSUME NEW p \in Peer
  PROVE  /\ Settled(p) <=> /\ attached[p] /\ conn[p] > 0 /\ up[p] /\ Current(p) \in sockets
                           /\ \A m \in pend[p] : ~InRequests(m)
                           /\ \A m \in Elems(rq[Current(p)]) : ~InRequests(m)
                           /\ task[Current(p)].step # "load"
         /\ Settled(p)' <=> /\ attached'[p] /\ conn'[p] > 0 /\ up'[p]
                            /\ <<p, conn'[p]>> \in sockets'
                            /\ \A m \in pend'[p] : ~InRequests(m)
                            /\ \A m \in Elems(rq'[<<p, conn'[p]>>]) : ~InRequests(m)
                            /\ task'[<<p, conn'[p]>>].step # "load"
  BY DEF Settled, Outstanding, Live, Current, Elems

LEMMA RequestTypes ==
  /\ \A d : InRequests(SubscribeMsg(d)) /\ InRequests(UnsubscribeMsg(d))
  /\ \A e : ~InRequests(WriteMsg(e))
  BY DEF InRequests, SubscribeMsg, UnsubscribeMsg, WriteMsg

(***************************************************************************)
(* How a Space becomes settled: the relay takes up its last request.       *)
(* Every other step leaves it as it is, or unsettles it.                   *)
(***************************************************************************)
LEMMA SettledStep ==
  ASSUME TypeOK, [Next]_vars, NEW p \in Peer, Settled(p)'
  PROVE  /\ conn'[p] = conn[p] /\ Current(p) \in Conn
         /\ \/ Settled(p)
            \/ LoadMirror(Current(p)) \/ HandleUnsubscribe(Current(p))
  <1> USE DEF spaceVars, linkVars, relayVars, boundVars
  <1> DEFINE Goal == /\ conn'[p] = conn[p] /\ Current(p) \in Conn
                     /\ Settled(p) \/ LoadMirror(Current(p)) \/ HandleUnsubscribe(Current(p))
  <1>a. /\ attached'[p] /\ conn'[p] > 0 /\ up'[p] /\ <<p, conn'[p]>> \in sockets'
        /\ \A m \in pend'[p] : ~InRequests(m)
        /\ \A m \in Elems(rq'[<<p, conn'[p]>>]) : ~InRequests(m)
        /\ task'[<<p, conn'[p]>>].step # "load"
    BY SettledMeans
  <1>b. Settled(p) <=> /\ attached[p] /\ conn[p] > 0 /\ up[p] /\ Current(p) \in sockets
                       /\ \A m \in pend[p] : ~InRequests(m)
                       /\ \A m \in Elems(rq[Current(p)]) : ~InRequests(m)
                       /\ task[Current(p)].step # "load"
    BY SettledMeans
  <1>c. Current(p) = <<p, conn[p]>>
    BY DEF Current
  <1>d. sockets \subseteq Conn
    BY DEF TypeOK
  <1>1. ASSUME NEW q \in Peer, SubscribeNode(q) PROVE Goal
    <2>1. CASE q = p
      <3>1. SubscribeMsg(docNo[p] + 1) \in pend'[p]
        BY <1>1, <2>1 DEF SubscribeNode, TypeOK
      <3> QED BY <3>1, <1>a, RequestTypes
    <2>2. CASE q # p
      BY <1>1, <2>2, <1>a, <1>b, <1>c, <1>d DEF SubscribeNode, TypeOK
    <2> QED BY <2>1, <2>2
  <1>2. ASSUME NEW q \in Peer, UnsubscribeNode(q) PROVE Goal
    BY <1>2, <1>a, <1>b, <1>c, <1>d DEF UnsubscribeNode, TypeOK
  <1>3. ASSUME NEW q \in Peer, HandleLocalUpdate(q) PROVE Goal
    <2>1. \A r \in Peer : pend[r] \subseteq pend'[r]
      BY <1>3 DEF HandleLocalUpdate, TypeOK
    <2> QED BY <1>3, <2>1, <1>a, <1>b, <1>c, <1>d DEF HandleLocalUpdate
  <1>4. ASSUME NEW q \in Peer, CompactNode(q) PROVE Goal
    <2>1. \A r \in Peer : pend[r] \subseteq pend'[r]
      BY <1>4 DEF CompactNode, TypeOK
    <2> QED BY <1>4, <2>1, <1>a, <1>b, <1>c, <1>d DEF CompactNode
  <1>5. ASSUME NEW q \in Peer, Transmit(q) PROVE Goal
    <2>1. UNCHANGED <<attached, conn, up, sockets, task>>
      BY <1>5 DEF Transmit
    <2>2. PICK m \in pend[q] :
            /\ pend' = [pend EXCEPT ![q] = @ \ {m}]
            /\ up[q] => rq' = IF Current(q) \in sockets
                                THEN [rq EXCEPT ![Current(q)] = Append(@, m)]
                                ELSE rq
            /\ ~up[q] => rq' = rq
      BY <1>5 DEF Transmit
    <2>3. Current(p) \in Conn /\ Current(p) \in sockets /\ up[p]
      BY <2>1, <1>a, <1>c, <1>d
    <2>4. \A s \in Seq(Msg) : Elems(Append(s, m)) = Elems(s) \cup {m}
      BY ElemsOfAppend DEF TypeOK
    <2>5. CASE q = p
      <3>1. rq'[Current(p)] = Append(rq[Current(p)], m)
        BY <2>2, <2>3, <2>5, <1>c DEF Current, TypeOK
      <3>2. Elems(rq'[Current(p)]) = Elems(rq[Current(p)]) \cup {m}
        BY <3>1, <2>3, <2>4 DEF TypeOK
      <3>3. pend[p] = pend'[p] \cup {m}
        BY <2>2, <2>5 DEF TypeOK
      <3> QED BY <2>1, <2>3, <3>2, <3>3, <1>a, <1>b, <1>c
    <2>6. CASE q # p
      <3>1. Current(q) # Current(p)
        BY <2>6, <1>c DEF Current
      <3>2. rq'[Current(p)] = rq[Current(p)] /\ pend'[p] = pend[p]
        BY <2>2, <2>3, <2>6, <3>1 DEF TypeOK
      <3> QED BY <2>1, <2>3, <3>2, <1>a, <1>b, <1>c
    <2> QED BY <2>5, <2>6
  <1>6. CASE \E q \in Peer : \/ ReceiveEnvelope(q) \/ ApplyEnvelope(q)
                             \/ ReceiveSyncAck(q) \/ ReceiveWriteAck(q)
    <2>1. UNCHANGED <<attached, conn, up, sockets, task, pend, rq>>
      BY <1>6 DEF ReceiveEnvelope, ApplyEnvelope, ReceiveSyncAck, ReceiveWriteAck
    <2> QED BY <2>1, <1>a, <1>b, <1>c, <1>d
  <1>7. ASSUME NEW q \in Peer, SocketOpen(q) PROVE Goal
    <2>1. CASE q = p
      <3>1. attached[p] /\ Resubscription(p) = {SubscribeMsg(docNo[p])}
        BY <1>7, <2>1, <1>a DEF SocketOpen, Resubscription
      <3>2. SubscribeMsg(docNo[p]) \in pend'[p]
        BY <1>7, <2>1, <3>1 DEF SocketOpen, TypeOK
      <3> QED BY <3>2, <1>a, RequestTypes
    <2>2. CASE q # p
      <3>1. /\ UNCHANGED <<attached, task>>
            /\ up'[p] = up[p] /\ conn'[p] = conn[p] /\ pend'[p] = pend[p]
        BY <1>7, <2>2 DEF SocketOpen, TypeOK
      <3>2. Current(p) # <<q, conn[q] + 1>>
        BY <2>2, <1>c
      <3>3. Current(p) \in sockets' => Current(p) \in sockets
        BY <1>7, <3>2 DEF SocketOpen
      <3>4. Current(p) \in Conn => rq'[Current(p)] = rq[Current(p)]
        BY <1>7, <3>2 DEF SocketOpen, TypeOK
      <3> QED BY <3>1, <3>3, <3>4, <1>a, <1>b, <1>c, <1>d
    <2> QED BY <2>1, <2>2
  <1>8. ASSUME NEW q \in Peer, SocketClose(q) PROVE Goal
    <2>1. q # p
      BY <1>8, <1>a DEF SocketClose, TypeOK
    <2>2. /\ UNCHANGED <<attached, task, conn, pend, sockets>> /\ up'[p] = up[p]
      BY <1>8, <2>1 DEF SocketClose, TypeOK
    <2>3. Current(p) # Current(q)
      BY <2>1, <1>c DEF Current
    <2>4. Current(p) \in Conn => rq'[Current(p)] = rq[Current(p)]
      BY <1>8, <2>3 DEF SocketClose, TypeOK
    <2> QED BY <2>2, <2>4, <1>a, <1>b, <1>c, <1>d
  <1>9. ASSUME NEW c \in Conn, HubClose(c) PROVE Goal
    BY <1>9, <1>a, <1>b, <1>c, <1>d DEF HubClose
  <1>10. CASE RelayRestart
    BY <1>10, <1>a DEF RelayRestart
  <1>11. ASSUME NEW c \in Conn, HandleSubscribe(c) \/ LoadMirror(c) \/ Replay(c)
                                \/ HandleUnsubscribe(c) \/ AcceptWrite(c) \/ ForwardWrite(c)
         PROVE  Goal
    <2>1. UNCHANGED <<attached, conn, up, sockets, pend>>
      BY <1>11 DEF HandleSubscribe, LoadMirror, Replay, HandleUnsubscribe, AcceptWrite,
                   ForwardWrite
    <2>2. Current(p) \in Conn
      BY <2>1, <1>a, <1>c, <1>d
    <2>3. CASE c # Current(p)
      <3>1. rq'[Current(p)] = rq[Current(p)] /\ task'[Current(p)] = task[Current(p)]
        BY <1>11, <2>2, <2>3 DEF HandleSubscribe, LoadMirror, Replay, HandleUnsubscribe,
                                 AcceptWrite, ForwardWrite, Dispatch, TypeOK
      <3> QED BY <2>1, <2>2, <3>1, <1>a, <1>b, <1>c
    <2>4. CASE c = Current(p) /\ HandleSubscribe(c)
      <3> DEFINE l == [Idle EXCEPT !.step = "load", !.n = Head(rq[c]).n]
      <3>1. task' = [task EXCEPT ![c] = l]
        BY <2>4 DEF HandleSubscribe
      <3>2. l.step = "load"
        BY DEF Idle
      <3> HIDE DEF l
      <3> QED BY <2>1, <2>2, <2>4, <3>1, <3>2, <1>a, <1>c DEF TypeOK
    <2>5. CASE c = Current(p) /\ Replay(c)
      <3>1. rq' = rq /\ task[Current(p)].step # "load"
        BY <2>5 DEF Replay
      <3> QED BY <2>1, <2>2, <3>1, <1>a, <1>b, <1>c
    <2>6. CASE c = Current(p) /\ AcceptWrite(c)
      <3>1. /\ rq[Current(p)] \in Seq(Msg) /\ rq[Current(p)] # <<>> /\ Head(rq[Current(p)]).t = "write"
            /\ rq'[Current(p)] = Tail(rq[Current(p)]) /\ task[Current(p)] = Idle
        BY <2>2, <2>6 DEF AcceptWrite, Dispatch, TypeOK
      <3>2. Elems(rq[Current(p)]) = {Head(rq[Current(p)])} \cup Elems(rq'[Current(p)])
        BY <3>1, ElemsOfHeadAndTail
      <3>3. ~InRequests(Head(rq[Current(p)])) /\ task[Current(p)].step # "load"
        BY <3>1 DEF InRequests, Idle
      <3> QED BY <2>1, <2>2, <3>2, <3>3, <1>a, <1>b, <1>c
    <2>7. CASE c = Current(p) /\ ForwardWrite(c)
      <3>1. rq' = rq /\ task[Current(p)].step # "load"
        BY <2>7 DEF ForwardWrite
      <3> QED BY <2>1, <2>2, <3>1, <1>a, <1>b, <1>c
    <2>8. CASE c = Current(p) /\ (LoadMirror(c) \/ HandleUnsubscribe(c))
      BY <2>1, <2>2, <2>8
    <2> QED BY <1>11, <2>3, <2>4, <2>5, <2>6, <2>7, <2>8
  <1>12. CASE UNCHANGED vars
    BY <1>12, <1>a, <1>b, <1>c, <1>d DEF vars
  <1>13. Goal
    BY <1>1, <1>2, <1>3, <1>4, <1>5, <1>6, <1>7, <1>8, <1>9, <1>10, <1>11, <1>12
    DEF Next, AppStep, SpaceStep, RelayStep
  <1> QED BY <1>13

-----------------------------------------------------------------------------
(* A Space in use is subscribed. *)

LEMMA IdleMeans == Idle.step = "idle" /\ Idle.log = <<>> /\ Idle.env.upds = {} /\ Idle.n = 0
  BY DEF Idle, NoEnv

LEMMA MsgKinds ==
  /\ \A d : SubscribeMsg(d).t = "subscribe" /\ SubscribeMsg(d).n = d
  /\ \A e : WriteMsg(e).t = "write" /\ WriteMsg(e).n = 0
  /\ \A d : UnsubscribeMsg(d).t = "unsubscribe" /\ UnsubscribeMsg(d).n = d
  /\ \A us : WriteAck(us).t = "write-ack" /\ WriteAck(us).n = 0
  /\ \A us, d : SyncAck(us, d).t = "sync-ack" /\ SyncAck(us, d).n = d
  BY DEF SubscribeMsg, WriteMsg, UnsubscribeMsg, WriteAck, SyncAck

(***************************************************************************)
(* How the queues towards the relay change: every message in them after a  *)
(* step was in them before, or has just been made by the Space of p.       *)
(***************************************************************************)
LEMMA QueueStep ==
  ASSUME TypeOK, [Next]_vars, NEW p \in Peer, NEW m
  PROVE  /\ m \in pend'[p] \cup Elems(sendQ'[p]) =>
              \/ m \in pend[p] \cup Elems(sendQ[p])
              \/ SubscribeNode(p) /\ m = SubscribeMsg(docNo[p] + 1)
              \/ UnsubscribeNode(p) /\ m = UnsubscribeMsg(docNo[p])
              \/ SocketOpen(p) /\ m = SubscribeMsg(docNo[p])
              \/ /\ CompactNode(p)
                 /\ m = WriteMsg([upds |-> doc[p], snapshot |-> TRUE])
              \/ /\ HandleLocalUpdate(p)
                 /\ \E u \in NextUpdate(p) :
                      m = WriteMsg([upds |-> {u}, snapshot |-> FALSE])
         /\ \A c \in Conn : c[1] = p /\ m \in Elems(rq'[c]) =>
              m \in Elems(rq[c]) \cup pend[p] \cup Elems(sendQ[p])
  <1> USE DEF spaceVars, linkVars, relayVars, boundVars
  <1> DEFINE Made == \/ SubscribeNode(p) /\ m = SubscribeMsg(docNo[p] + 1)
                     \/ UnsubscribeNode(p) /\ m = UnsubscribeMsg(docNo[p])
                     \/ SocketOpen(p) /\ m = SubscribeMsg(docNo[p])
                     \/ /\ CompactNode(p)
                        /\ m = WriteMsg([upds |-> doc[p], snapshot |-> TRUE])
                     \/ /\ HandleLocalUpdate(p)
                        /\ \E u \in NextUpdate(p) :
                             m = WriteMsg([upds |-> {u}, snapshot |-> FALSE])
             Sent == m \in pend'[p] \cup Elems(sendQ'[p])
                       => m \in pend[p] \cup Elems(sendQ[p]) \/ Made
             Arrived == \A c \in Conn : c[1] = p /\ m \in Elems(rq'[c])
                          => m \in Elems(rq[c]) \cup pend[p] \cup Elems(sendQ[p])
  <1>1. ASSUME NEW q \in Peer, SubscribeNode(q) PROVE Sent /\ Arrived
    BY <1>1 DEF SubscribeNode, TypeOK
  <1>2. ASSUME NEW q \in Peer, UnsubscribeNode(q) PROVE Sent /\ Arrived
    BY <1>2 DEF UnsubscribeNode, TypeOK
  <1>3. ASSUME NEW q \in Peer, HandleLocalUpdate(q) PROVE Sent /\ Arrived
    <2>1. PICK u \in NextUpdate(q) :
            pend' = [pend EXCEPT ![q] = @ \cup {WriteMsg([upds |-> {u}, snapshot |-> FALSE])}]
      BY <1>3 DEF HandleLocalUpdate
    <2>2. UNCHANGED <<sendQ, rq>>
      BY <1>3 DEF HandleLocalUpdate
    <2> QED BY <1>3, <2>1, <2>2 DEF TypeOK
  <1>4. ASSUME NEW q \in Peer, CompactNode(q) PROVE Sent /\ Arrived
    <2>1. /\ pend' = [pend EXCEPT ![q] =
                        @ \cup {WriteMsg([upds |-> doc[q], snapshot |-> TRUE])}]
          /\ UNCHANGED <<sendQ, rq>>
      BY <1>4 DEF CompactNode
    <2> QED BY <1>4, <2>1 DEF TypeOK
  <1>5. ASSUME NEW q \in Peer, Transmit(q) PROVE Sent /\ Arrived
    <2>1. PICK x \in pend[q] :
            /\ pend' = [pend EXCEPT ![q] = @ \ {x}]
            /\ \/ rq' = rq
               \/ /\ Current(q) \in Conn
                  /\ rq' = [rq EXCEPT ![Current(q)] = Append(@, x)]
            /\ sendQ' = sendQ \/ sendQ' = [sendQ EXCEPT ![q] = Append(@, x)]
      BY <1>5 DEF Transmit, TypeOK
    <2>2. \A s \in Seq(Msg) : Elems(Append(s, x)) = Elems(s) \cup {x}
      BY ElemsOfAppend DEF TypeOK
    <2>3. Sent
      <3>1. sendQ'[p] = sendQ[p] \/ (q = p /\ sendQ'[p] = Append(sendQ[p], x))
        BY <2>1 DEF TypeOK
      <3>2. Elems(sendQ'[p]) \subseteq Elems(sendQ[p]) \cup pend[p]
        <4>1. Elems(Append(sendQ[p], x)) = Elems(sendQ[p]) \cup {x}
          BY <2>2 DEF TypeOK
        <4> QED BY <3>1, <4>1
      <3>3. pend'[p] \subseteq pend[p]
        BY <2>1 DEF TypeOK
      <3> QED BY <3>2, <3>3
    <2>4. ASSUME NEW c \in Conn, c[1] = p, m \in Elems(rq'[c])
          PROVE  m \in Elems(rq[c]) \cup pend[p] \cup Elems(sendQ[p])
      <3>1. CASE rq'[c] = rq[c]
        BY <2>4, <3>1
      <3>2. CASE c = Current(q) /\ rq'[c] = Append(rq[c], x)
        <4>1. q = p
          BY <2>4, <3>2 DEF Current
        <4>2. Elems(rq'[c]) = Elems(rq[c]) \cup {x}
          BY <2>2, <3>2 DEF TypeOK
        <4> QED BY <2>1, <2>4, <4>1, <4>2
      <3> QED BY <2>1, <3>1, <3>2, SMTT(30) DEF TypeOK
    <2> QED BY <2>3, <2>4
  <1>6. ASSUME NEW q \in Peer, SocketOpen(q) PROVE Sent /\ Arrived
    <2> DEFINE d == <<q, conn[q] + 1>>
    <2>1. /\ rq' = [rq EXCEPT ![d] = sendQ[q]]
          /\ sendQ' = [sendQ EXCEPT ![q] = <<>>]
          /\ pend' = [pend EXCEPT ![q] = @ \cup Resubscription(q)]
      BY <1>6 DEF SocketOpen, Flushed
    <2>2. Resubscription(q) \subseteq {SubscribeMsg(docNo[q])}
      BY DEF Resubscription
    <2>3. Elems(sendQ'[p]) \subseteq Elems(sendQ[p])
      BY <2>1, ElemsOfEmpty DEF TypeOK
    <2>4. Sent
      BY <1>6, <2>1, <2>2, <2>3 DEF TypeOK
    <2>5. d[1] = q
      OBVIOUS
    <2> HIDE DEF d
    <2>6. \A c \in Conn : rq'[c] = rq[c] \/ (c[1] = q /\ rq'[c] = sendQ[q])
      BY <2>1, <2>5 DEF TypeOK
    <2> QED BY <2>4, <2>6
  <1>7. ASSUME NEW q \in Peer, SocketClose(q) PROVE Sent /\ Arrived
    <2>1. UNCHANGED <<pend, sendQ>>
      BY <1>7 DEF SocketClose
    <2>2. PICK s \in Prefixes(rq[Current(q)]) : rq' = [rq EXCEPT ![Current(q)] = s]
      BY <1>7 DEF SocketClose
    <2>3. Current(q) \in Conn => Elems(s) \subseteq Elems(rq[Current(q)])
      BY ElemsOfPrefix DEF TypeOK
    <2> QED BY <2>1, <2>2, <2>3 DEF TypeOK
  <1>8. CASE RelayRestart
    BY <1>8, ElemsOfEmpty DEF RelayRestart
  <1>9. ASSUME NEW c \in Conn, HandleSubscribe(c) \/ HandleUnsubscribe(c) \/ AcceptWrite(c)
        PROVE  Sent /\ Arrived
    <2>1. /\ UNCHANGED <<pend, sendQ>>
          /\ rq[c] \in Seq(Msg) /\ rq[c] # <<>> /\ rq' = [rq EXCEPT ![c] = Tail(@)]
      BY <1>9 DEF HandleSubscribe, HandleUnsubscribe, AcceptWrite, Dispatch, TypeOK
    <2>2. Elems(Tail(rq[c])) \subseteq Elems(rq[c])
      BY <2>1, ElemsOfTail
    <2> QED BY <2>1, <2>2 DEF TypeOK
  <1>10. CASE UNCHANGED <<pend, sendQ, rq>>
    BY <1>10
  <1>11. Sent /\ Arrived
    <2>1. \/ \E q \in Peer : \/ SubscribeNode(q) \/ UnsubscribeNode(q)
                             \/ HandleLocalUpdate(q) \/ CompactNode(q) \/ Transmit(q)
                             \/ SocketOpen(q) \/ SocketClose(q)
          \/ RelayRestart
          \/ \E c \in Conn : HandleSubscribe(c) \/ HandleUnsubscribe(c) \/ AcceptWrite(c)
          \/ UNCHANGED <<pend, sendQ, rq>>
      BY DEF Next, AppStep, SpaceStep, RelayStep, ReceiveEnvelope, ApplyEnvelope,
         ReceiveSyncAck, ReceiveWriteAck, HubClose, LoadMirror, Replay, ForwardWrite, vars
    <2> QED BY <2>1, <1>1, <1>2, <1>3, <1>4, <1>5, <1>6, <1>7, <1>8, <1>9, <1>10
  <1> QED BY <1>11

LEMMA SubscribedInit == Init => SubscribedInv
  <1> SUFFICES ASSUME Init PROVE SubscribedInv
    OBVIOUS
  <1> QED
    BY ElemsOfEmpty, SettledMeans
    DEF Init, SubscribedInv, NoneUnsubscribes, Fresh, LoadsForSubscribers,
        AttachedIsSubscribed

(* Without unsubscribeNode() no request of its kind is ever under way. *)
LEMMA NoneUnsubscribesStep ==
  ASSUME MaxReleases = 0, TypeOK, NoneUnsubscribes, [Next]_vars
  PROVE  NoneUnsubscribes'
  <1>1. \A p \in Peer : ~UnsubscribeNode(p)
    BY DEF UnsubscribeNode, TypeOK
  <1>2. ASSUME NEW p \in Peer, NEW m \in pend'[p] \cup Elems(sendQ'[p])
        PROVE  m.t # "unsubscribe"
    <2>1. \/ m \in pend[p] \cup Elems(sendQ[p])
          \/ \E d : m = SubscribeMsg(d)
          \/ \E e : m = WriteMsg(e)
      BY <1>1, <1>2, QueueStep
    <2> QED BY <2>1, MsgKinds DEF NoneUnsubscribes
  <1>3. ASSUME NEW c \in Conn, NEW m \in Elems(rq'[c])
        PROVE  m.t # "unsubscribe"
    <2>1. c[1] \in Peer
      BY ConnType
    <2>2. m \in Elems(rq[c]) \cup pend[c[1]] \cup Elems(sendQ[c[1]])
      BY <2>1, QueueStep
    <2> QED BY <2>1, <2>2 DEF NoneUnsubscribes
  <1> QED BY <1>2, <1>3 DEF NoneUnsubscribes

LEMMA FreshStep ==
  ASSUME TypeOK, Fresh, [Next]_vars
  PROVE  Fresh'
  <1> USE DEF spaceVars, linkVars, relayVars, boundVars
  <1> SUFFICES ASSUME NEW c \in Conn, conn'[c[1]] < c[2]
               PROVE  task'[c] = Idle /\ rq'[c] = <<>>
    BY DEF Fresh
  <1>1. c[1] \in Peer /\ c[2] \in Nat /\ c = <<c[1], c[2]>>
    BY ConnType DEF Conn
  <1>2. conn'[c[1]] \in Nat /\ conn[c[1]] <= conn'[c[1]] /\ conn[c[1]] \in Nat
    <2>1. ASSUME NEW q \in Peer, SocketOpen(q)
          PROVE  conn'[c[1]] \in Nat /\ conn[c[1]] <= conn'[c[1]]
      BY <2>1, <1>1, SMTT(30) DEF SocketOpen, TypeOK
    <2>2. (\E q \in Peer : SocketOpen(q)) \/ conn' = conn
      BY DEF Next, AppStep, SpaceStep, RelayStep, HandleLocalUpdate, CompactNode, Transmit,
         ReceiveEnvelope, ApplyEnvelope, ReceiveSyncAck, ReceiveWriteAck,
         SocketClose, HubClose, RelayRestart, HandleSubscribe, LoadMirror, Replay,
         HandleUnsubscribe, AcceptWrite, ForwardWrite, SubscribeNode, UnsubscribeNode, vars
    <2> QED BY <2>1, <2>2, <1>1 DEF TypeOK
  <1>3. task[c] = Idle /\ rq[c] = <<>>
    BY <1>1, <1>2 DEF Fresh
  <1>4. \A q \in Peer : Current(q) # c
    BY <1>1, <1>2 DEF Current
  <1>5. ASSUME NEW q \in Peer, Transmit(q) PROVE task'[c] = Idle /\ rq'[c] = <<>>
    BY <1>5, <1>3, <1>4 DEF Transmit, TypeOK
  <1>6. ASSUME NEW q \in Peer, SocketOpen(q) PROVE task'[c] = Idle /\ rq'[c] = <<>>
    <2>1. <<q, conn[q] + 1>> # c
      BY <1>6, <1>1 DEF SocketOpen, TypeOK
    <2> QED BY <1>6, <1>3, <2>1 DEF SocketOpen, TypeOK
  <1>7. ASSUME NEW q \in Peer, SocketClose(q) PROVE task'[c] = Idle /\ rq'[c] = <<>>
    BY <1>7, <1>3, <1>4 DEF SocketClose, TypeOK
  <1>8. CASE RelayRestart
    BY <1>8 DEF RelayRestart
  <1>9. ASSUME NEW d \in Conn, RelayStep(d) PROVE task'[c] = Idle /\ rq'[c] = <<>>
    <2>1. d # c
      BY <1>9, <1>3, IdleMeans
      DEF RelayStep, HandleSubscribe, LoadMirror, Replay, HandleUnsubscribe, AcceptWrite,
          ForwardWrite, Dispatch
    <2>2. task'[c] = task[c] /\ rq'[c] = rq[c]
      BY <1>9, <2>1
      DEF RelayStep, HandleSubscribe, LoadMirror, Replay, HandleUnsubscribe, AcceptWrite,
          ForwardWrite, Dispatch, TypeOK
    <2> QED BY <2>2, <1>3
  <1>10. CASE UNCHANGED <<task, rq>>
    BY <1>10, <1>3
  <1>11. \/ \E q \in Peer : Transmit(q) \/ SocketOpen(q) \/ SocketClose(q)
         \/ RelayRestart
         \/ \E d \in Conn : RelayStep(d)
         \/ UNCHANGED <<task, rq>>
    BY DEF Next, AppStep, SpaceStep, HandleLocalUpdate, CompactNode,
       ReceiveEnvelope, ApplyEnvelope, ReceiveSyncAck, ReceiveWriteAck, HubClose,
       SubscribeNode, UnsubscribeNode, vars
  <1> QED BY <1>5, <1>6, <1>7, <1>8, <1>9, <1>10, <1>11

(* Who loses its subscription: connections that are gone, and who asks for it. *)
LEMMA SubscriptionStep ==
  ASSUME TypeOK, NoneUnsubscribes, [Next]_vars, NEW c \in subs, c \in sockets'
  PROVE  c \in subs'
  <1>1. ASSUME NEW d \in Conn PROVE ~HandleUnsubscribe(d)
    <2> SUFFICES ASSUME HandleUnsubscribe(d) PROVE FALSE
      OBVIOUS
    <2>1. rq[d] \in Seq(Msg) /\ rq[d] # <<>> /\ Head(rq[d]).t = "unsubscribe"
      BY DEF HandleUnsubscribe, Dispatch, TypeOK
    <2>2. Head(rq[d]) \in Elems(rq[d])
      BY <2>1, ElemsOfTail
    <2> QED BY <2>1, <2>2 DEF NoneUnsubscribes
  <1> QED
    BY <1>1 DEF spaceVars, linkVars, relayVars, boundVars, Next, AppStep, SpaceStep, RelayStep,
       HandleLocalUpdate, CompactNode, Transmit,
       ReceiveEnvelope, ApplyEnvelope, ReceiveSyncAck, ReceiveWriteAck, SocketOpen,
       SocketClose, HubClose, RelayRestart, HandleSubscribe, LoadMirror, Replay,
       AcceptWrite, ForwardWrite, SubscribeNode, UnsubscribeNode, vars

LEMMA LoadsForSubscribersStep ==
  ASSUME TypeOK, NoneUnsubscribes, Fresh, LoadsForSubscribers, [Next]_vars
  PROVE  LoadsForSubscribers'
  <1> USE DEF spaceVars, linkVars, relayVars, boundVars
  <1> SUFFICES ASSUME NEW c \in sockets', task'[c].step = "load"
               PROVE  c \in subs'
    BY DEF LoadsForSubscribers
  <1>1. sockets \subseteq Conn
    BY DEF TypeOK
  <1>2. ASSUME NEW q \in Peer, SocketOpen(q) PROVE c \in sockets /\ task[c].step = "load"
    <2> DEFINE d == <<q, conn[q] + 1>>
    <2>1. task' = task /\ sockets' = sockets \cup {d}
      BY <1>2 DEF SocketOpen
    <2>2. d \in Conn
      BY <1>2, ConnType DEF SocketOpen, Conn, TypeOK
    <2>3. task[d] = Idle
      BY <2>2 DEF Fresh, TypeOK
    <2> QED BY <2>1, <2>3, IdleMeans
  <1>3. ASSUME NEW d \in Conn, RelayStep(d), ~HandleSubscribe(d)
        PROVE  c \in sockets /\ task[c].step = "load"
    <2>1. sockets' = sockets
      BY <1>3 DEF RelayStep, LoadMirror, Replay, HandleUnsubscribe, AcceptWrite, ForwardWrite
    <2>2. c \in Conn
      BY <2>1, <1>1
    <2>3. CASE LoadMirror(d)
      <3>1. task' = [task EXCEPT ![d].step = "replay", ![d].log = mirror]
        BY <2>3 DEF LoadMirror
      <3>2. task'[d].step = "replay" /\ \A e \in Conn : e # d => task'[e] = task[e]
        BY <3>1 DEF TypeOK, Task
      <3> QED BY <2>1, <2>2, <3>2
    <2>4. CASE Replay(d) \/ ForwardWrite(d)
      BY <2>1, <2>2, <2>4, IdleMeans DEF Replay, ForwardWrite, TypeOK
    <2>5. CASE HandleUnsubscribe(d)
      BY <2>1, <2>5 DEF HandleUnsubscribe
    <2>6. CASE AcceptWrite(d)
      <3> DEFINE k == [Idle EXCEPT !.step = "forward", !.env = Head(rq[d]).env]
      <3>1. task' = [task EXCEPT ![d] = k]
        BY <2>6 DEF AcceptWrite
      <3>2. k.step = "forward"
        BY DEF Idle
      <3> HIDE DEF k
      <3> QED BY <2>1, <2>2, <3>1, <3>2 DEF TypeOK
    <2> QED BY <1>3, <2>3, <2>4, <2>5, <2>6 DEF RelayStep
  <1>4. ASSUME NEW d \in Conn, HandleSubscribe(d)
        PROVE  c \in subs' \/ (c \in sockets /\ task[c].step = "load")
    <2>1. sockets' = sockets /\ subs' = subs \cup {d}
      BY <1>4 DEF HandleSubscribe
    <2>2. \A e \in Conn : e # d => task'[e] = task[e]
      BY <1>4 DEF HandleSubscribe, TypeOK
    <2> QED BY <2>1, <2>2, <1>1
  <1>5. CASE RelayRestart
    BY <1>5 DEF RelayRestart
  <1>6. c \in subs' \/ (c \in sockets /\ task[c].step = "load")
    BY <1>2, <1>3, <1>4, <1>5
    DEF Next, AppStep, SpaceStep, HandleLocalUpdate, CompactNode, Transmit,
       ReceiveEnvelope, ApplyEnvelope, ReceiveSyncAck, ReceiveWriteAck,
       SocketClose, HubClose, SubscribeNode, UnsubscribeNode, vars
  <1> QED BY <1>6, SubscriptionStep DEF LoadsForSubscribers

LEMMA SubscribedStep ==
  ASSUME MaxReleases = 0, TypeOK, SubscribedInv, [Next]_vars
  PROVE  SubscribedInv'
  <1>1. NoneUnsubscribes /\ Fresh /\ LoadsForSubscribers /\ AttachedIsSubscribed
    BY DEF SubscribedInv
  <1>2. NoneUnsubscribes' /\ Fresh' /\ LoadsForSubscribers'
    BY <1>1, NoneUnsubscribesStep, FreshStep, LoadsForSubscribersStep
  <1>3. ASSUME NEW p \in Peer, Settled(p)' PROVE Current(p)' \in subs'
    <2>1. /\ Current(p)' = Current(p) /\ Current(p) \in Conn
          /\ Settled(p) \/ LoadMirror(Current(p)) \/ HandleUnsubscribe(Current(p))
      BY <1>3, SettledStep DEF Current
    <2>2. Current(p) \in sockets'
      BY <1>3, <2>1, SettledMeans DEF Current
    <2>3. CASE Settled(p)
      <3>1. Current(p) \in subs
        BY <1>1, <2>3 DEF AttachedIsSubscribed
      <3> QED BY <1>1, <2>1, <2>2, <3>1, SubscriptionStep
    <2>4. CASE LoadMirror(Current(p))
      <3>1. /\ task[Current(p)].step = "load" /\ subs' = subs /\ sockets' = sockets
        BY <2>4 DEF LoadMirror, relayVars
      <3> QED BY <1>1, <2>1, <2>2, <3>1 DEF LoadsForSubscribers
    <2>5. CASE HandleUnsubscribe(Current(p))
      <3>1. /\ rq[Current(p)] \in Seq(Msg) /\ rq[Current(p)] # <<>>
            /\ Head(rq[Current(p)]).t = "unsubscribe"
        BY <2>1, <2>5 DEF HandleUnsubscribe, Dispatch, TypeOK
      <3>2. Head(rq[Current(p)]) \in Elems(rq[Current(p)])
        BY <3>1, ElemsOfTail
      <3> QED BY <1>1, <2>1, <3>1, <3>2 DEF NoneUnsubscribes
    <2> QED BY <2>1, <2>3, <2>4, <2>5
  <1>4. AttachedIsSubscribed'
    BY <1>3 DEF AttachedIsSubscribed
  <1> QED BY <1>2, <1>4 DEF SubscribedInv

(***************************************************************************)
(* Once its requests are carried out, a Space that uses the Node is among  *)
(* relay.subscribers: neither the teardown of an older connection nor a    *)
(* restart of the relay takes its subscription, for any number of Spaces,  *)
(* drops and restarts.  unsubscribeNode() is excluded: its request may be  *)
(* signed later than that of the subscription that follows it.             *)
(***************************************************************************)
THEOREM SubscriptionHolds ==
  ASSUME MaxReleases = 0
  PROVE  Spec => []AttachedIsSubscribed
  <1>1. TypeOK /\ SubscribedInv /\ [Next]_vars => (TypeOK /\ SubscribedInv)'
    BY TypeStep, SubscribedStep
  <1>2. SubscribedInv => AttachedIsSubscribed
    BY DEF SubscribedInv
  <1> QED BY <1>1, <1>2, TypeInit, SubscribedInit, PTL DEF Spec

-----------------------------------------------------------------------------
(* Nothing falls between catch-up and live forwarding. *)

(* How the chain of a connection moves on. *)
LEMMA TaskStep ==
  ASSUME TypeOK, [Next]_vars, NEW c \in Conn
  PROVE  \/ task'[c] \in {task[c], Idle}
         \/ /\ HandleSubscribe(c)
            /\ task'[c].step = "load" /\ task'[c].log = <<>> /\ task'[c].env = NoEnv
            /\ Head(rq[c]) \in Elems(rq[c]) /\ task'[c].n = Head(rq[c]).n
         \/ /\ LoadMirror(c) /\ task[c].step = "load"
            /\ task'[c].step = "replay" /\ task'[c].log = mirror
            /\ task'[c].env = task[c].env /\ task'[c].n = task[c].n
         \/ /\ AcceptWrite(c)
            /\ task'[c].step = "forward" /\ task'[c].log = <<>> /\ task'[c].n = 0
            /\ Head(rq[c]) \in Elems(rq[c]) /\ task'[c].env = Head(rq[c]).env
  <1> USE DEF spaceVars, linkVars, relayVars, boundVars
  <1> DEFINE Goal == \/ task'[c] \in {task[c], Idle}
                     \/ /\ HandleSubscribe(c)
                        /\ task'[c].step = "load" /\ task'[c].log = <<>>
                        /\ task'[c].env = NoEnv
                        /\ Head(rq[c]) \in Elems(rq[c]) /\ task'[c].n = Head(rq[c]).n
                     \/ /\ LoadMirror(c) /\ task[c].step = "load"
                        /\ task'[c].step = "replay" /\ task'[c].log = mirror
                        /\ task'[c].env = task[c].env /\ task'[c].n = task[c].n
                     \/ /\ AcceptWrite(c)
                        /\ task'[c].step = "forward" /\ task'[c].log = <<>>
                        /\ task'[c].n = 0
                        /\ Head(rq[c]) \in Elems(rq[c]) /\ task'[c].env = Head(rq[c]).env
  <1>1. ASSUME NEW d \in Conn, RelayStep(d), d # c PROVE task'[c] = task[c]
    BY <1>1 DEF RelayStep, HandleSubscribe, LoadMirror, Replay, HandleUnsubscribe, AcceptWrite,
                ForwardWrite, TypeOK
  <1>2. CASE HandleSubscribe(c)
    <2> DEFINE k == [Idle EXCEPT !.step = "load", !.n = Head(rq[c]).n]
    <2>1. task' = [task EXCEPT ![c] = k]
      BY <1>2 DEF HandleSubscribe
    <2>2. k.step = "load" /\ k.log = <<>> /\ k.env = NoEnv /\ k.n = Head(rq[c]).n
      BY DEF Idle
    <2>3. Head(rq[c]) \in Elems(rq[c])
      BY <1>2, ElemsOfTail DEF HandleSubscribe, Dispatch, TypeOK
    <2> HIDE DEF k
    <2>4. task'[c] = k
      BY <2>1 DEF TypeOK
    <2> QED BY <1>2, <2>2, <2>3, <2>4
  <1>3. CASE LoadMirror(c)
    BY <1>3 DEF LoadMirror, TypeOK, Task
  <1>4. CASE Replay(c) \/ ForwardWrite(c)
    BY <1>4 DEF Replay, ForwardWrite, TypeOK
  <1>5. CASE HandleUnsubscribe(c)
    BY <1>5 DEF HandleUnsubscribe
  <1>6. CASE AcceptWrite(c)
    <2> DEFINE k == [Idle EXCEPT !.step = "forward", !.env = Head(rq[c]).env]
    <2>1. task' = [task EXCEPT ![c] = k]
      BY <1>6 DEF AcceptWrite
    <2>2. k.step = "forward" /\ k.log = <<>> /\ k.env = Head(rq[c]).env /\ k.n = 0
      BY DEF Idle
    <2>3. Head(rq[c]) \in Elems(rq[c])
      BY <1>6, ElemsOfTail DEF AcceptWrite, Dispatch, TypeOK
    <2> HIDE DEF k
    <2>4. task'[c] = k
      BY <2>1 DEF TypeOK
    <2> QED BY <1>6, <2>2, <2>3, <2>4
  <1>7. CASE RelayRestart
    BY <1>7 DEF RelayRestart
  <1>8. CASE task' = task
    BY <1>8
  <1>9. (\E d \in Conn : RelayStep(d)) \/ RelayRestart \/ task' = task
    BY DEF Next, AppStep, SpaceStep, HandleLocalUpdate, CompactNode, Transmit,
       ReceiveEnvelope, ApplyEnvelope, ReceiveSyncAck, ReceiveWriteAck, SocketOpen,
       SocketClose, HubClose, SubscribeNode, UnsubscribeNode, vars
  <1>10. CASE RelayStep(c)
    BY <1>2, <1>3, <1>4, <1>5, <1>6, <1>10 DEF RelayStep
  <1> QED BY <1>1, <1>7, <1>8, <1>9, <1>10

(* A Y.Doc forgets only when its Node is released. *)
LEMMA DocKeeps ==
  ASSUME TypeOK, DetachedIsEmpty, [Next]_vars, NEW p \in Peer, ~UnsubscribeNode(p)
  PROVE  doc[p] \subseteq doc'[p]
  <1> USE DEF spaceVars, linkVars, relayVars, boundVars
  <1>1. ASSUME NEW q \in Peer, SubscribeNode(q) PROVE doc[p] \subseteq doc'[p]
    BY <1>1 DEF SubscribeNode, DetachedIsEmpty, TypeOK
  <1>2. ASSUME NEW q \in Peer, UnsubscribeNode(q) PROVE doc[p] \subseteq doc'[p]
    BY <1>2 DEF UnsubscribeNode, TypeOK
  <1>3. ASSUME NEW q \in Peer, HandleLocalUpdate(q) PROVE doc[p] \subseteq doc'[p]
    BY <1>3 DEF HandleLocalUpdate, TypeOK
  <1>4. ASSUME NEW q \in Peer, ApplyEnvelope(q) PROVE doc[p] \subseteq doc'[p]
    BY <1>4 DEF ApplyEnvelope, TypeOK
  <1>5. \/ \E q \in Peer : \/ SubscribeNode(q) \/ UnsubscribeNode(q)
                           \/ HandleLocalUpdate(q) \/ ApplyEnvelope(q)
        \/ doc' = doc
    BY DEF Next, AppStep, SpaceStep, RelayStep, CompactNode, Transmit,
       ReceiveEnvelope, ReceiveSyncAck, ReceiveWriteAck, SocketOpen,
       SocketClose, HubClose, RelayRestart, HandleSubscribe, LoadMirror, Replay,
       HandleUnsubscribe, AcceptWrite, ForwardWrite, vars
  <1> QED BY <1>1, <1>2, <1>3, <1>4, <1>5

LEMMA DetachedIsEmptyStep ==
  ASSUME TypeOK, DetachedIsEmpty, [Next]_vars
  PROVE  DetachedIsEmpty'
  <1> USE DEF spaceVars, linkVars, relayVars, boundVars
  <1>1. ASSUME NEW q \in Peer, SubscribeNode(q) \/ UnsubscribeNode(q)
        PROVE  DetachedIsEmpty'
    BY <1>1 DEF SubscribeNode, UnsubscribeNode, DetachedIsEmpty, TypeOK
  <1>2. ASSUME NEW q \in Peer, HandleLocalUpdate(q) \/ ApplyEnvelope(q)
        PROVE  DetachedIsEmpty'
    BY <1>2 DEF HandleLocalUpdate, ApplyEnvelope, DetachedIsEmpty, TypeOK
  <1>3. CASE UNCHANGED <<doc, attached>>
    BY <1>3 DEF DetachedIsEmpty
  <1>4. \/ \E q \in Peer : \/ SubscribeNode(q) \/ UnsubscribeNode(q)
                           \/ HandleLocalUpdate(q) \/ ApplyEnvelope(q)
        \/ UNCHANGED <<doc, attached>>
    BY DEF Next, AppStep, SpaceStep, RelayStep, CompactNode, Transmit,
       ReceiveEnvelope, ReceiveSyncAck, ReceiveWriteAck, SocketOpen,
       SocketClose, HubClose, RelayRestart, HandleSubscribe, LoadMirror, Replay,
       HandleUnsubscribe, AcceptWrite, ForwardWrite, vars
  <1> QED BY <1>1, <1>2, <1>3, <1>4

LEMMA LogIsReplayedStep ==
  ASSUME TypeOK, LogIsReplayed, [Next]_vars
  PROVE  LogIsReplayed'
  <1> SUFFICES ASSUME NEW c \in Conn, task'[c].step # "replay"
               PROVE  task'[c].log = <<>>
    BY DEF LogIsReplayed
  <1> QED BY TaskStep, IdleMeans DEF LogIsReplayed

(* What is under way from p stays its own, or what it has. *)
LEMMA SentByOwnerStep ==
  ASSUME MaxCompacts = 0 \/ MaxReleases = 0,
         TypeOK, SentByOwner, DetachedIsEmpty, [Next]_vars
  PROVE  SentByOwner'
  <1>1. ASSUME NEW p \in Peer, NEW u, Own(p, u) PROVE Own(p, u)'
    <2>1. CASE u.peer = p
      BY <2>1 DEF Own
    <2>2. CASE MaxCompacts # 0 /\ u \in doc[p]
      <3>1. ~UnsubscribeNode(p)
        BY <2>2 DEF UnsubscribeNode, TypeOK
      <3> QED BY <2>2, <3>1, DocKeeps DEF Own
    <2> QED BY <1>1, <2>1, <2>2 DEF Own
  <1>2. ASSUME NEW p \in Peer, NEW m \in pend'[p] \cup Elems(sendQ'[p]), NEW u \in m.env.upds
        PROVE  Own(p, u)'
    <2>1. CASE m \in pend[p] \cup Elems(sendQ[p])
      BY <2>1, <1>1 DEF SentByOwner
    <2>2. CASE \E d : m = SubscribeMsg(d) \/ m = UnsubscribeMsg(d)
      BY <2>2, MsgContents
    <2>3. CASE CompactNode(p) /\ m = WriteMsg([upds |-> doc[p], snapshot |-> TRUE])
      <3>1. u \in doc[p] /\ MaxCompacts # 0
        BY <2>3, MsgContents, BoundsAssumption DEF CompactNode, TypeOK
      <3> QED BY <3>1, <1>1 DEF Own
    <2>4. CASE \E v \in NextUpdate(p) : m = WriteMsg([upds |-> {v}, snapshot |-> FALSE])
      BY <2>4, MsgContents, NextUpdateType DEF Own
    <2> QED BY <1>2, <2>1, <2>2, <2>3, <2>4, QueueStep
  <1>3. ASSUME NEW c \in Conn, NEW m \in Elems(rq'[c]), NEW u \in m.env.upds
        PROVE  Own(c[1], u)'
    <2>1. c[1] \in Peer
      BY ConnType
    <2>2. m \in Elems(rq[c]) \cup pend[c[1]] \cup Elems(sendQ[c[1]])
      BY <2>1, QueueStep
    <2> QED BY <2>1, <2>2, <1>1 DEF SentByOwner
  <1>4. ASSUME NEW c \in Conn, NEW u \in task'[c].env.upds
        PROVE  Own(c[1], u)'
    <2>1. c[1] \in Peer
      BY ConnType
    <2>2. u \in task[c].env.upds \/ \E m \in Elems(rq[c]) : u \in m.env.upds
      BY TaskStep, IdleMeans, MsgContents
    <2> QED BY <2>1, <2>2, <1>1 DEF SentByOwner
  <1> QED BY <1>2, <1>3, <1>4 DEF SentByOwner

(* OnTheWay(), with the queue as a set of messages. *)
LEMMA OnTheWayMeans ==
  ASSUME NEW p \in Peer, NEW u
  PROVE  /\ u \in OnTheWay(p) <=>
              \/ u \in doc[p]
              \/ \E m \in Elems(inq[p]) : m.t = "write" /\ u \in m.env.upds
              \/ busy[p].doc = docNo[p] /\ u \in busy[p].upds
              \/ u \in Content(task[Current(p)].log)
              \/ \E c \in Conn : task[c].step = "forward" /\ u \in task[c].env.upds
         /\ u \in OnTheWay(p)' <=>
              \/ u \in doc'[p]
              \/ \E m \in Elems(inq'[p]) : m.t = "write" /\ u \in m.env.upds
              \/ busy'[p].doc = docNo'[p] /\ u \in busy'[p].upds
              \/ u \in Content(task'[<<p, conn'[p]>>].log)
              \/ \E c \in Conn : task'[c].step = "forward" /\ u \in task'[c].env.upds
  <1>1. \A q : Carried(q) = UNION {m.env.upds : m \in {x \in Elems(q) : x.t = "write"}}
    BY DEF Carried, Elems
  <1> DEFINE Now == UNION ({doc[p], Carried(inq[p])}
                      \cup {IF busy[p].doc = docNo[p] THEN busy[p].upds ELSE {}}
                      \cup {Content(task[Current(p)].log)}
                      \cup {task[c].env.upds : c \in {d \in Conn : task[d].step = "forward"}})
             Then == UNION ({doc'[p], Carried(inq'[p])}
                      \cup {IF busy'[p].doc = docNo'[p] THEN busy'[p].upds ELSE {}}
                      \cup {Content(task'[<<p, conn'[p]>>].log)}
                      \cup {task'[c].env.upds : c \in {d \in Conn : task'[d].step = "forward"}})
  <1>2. u \in Now <=>
              \/ u \in doc[p]
              \/ u \in Carried(inq[p])
              \/ busy[p].doc = docNo[p] /\ u \in busy[p].upds
              \/ u \in Content(task[Current(p)].log)
              \/ \E c \in Conn : task[c].step = "forward" /\ u \in task[c].env.upds
    BY Zenon
  <1>3. u \in Then <=>
              \/ u \in doc'[p]
              \/ u \in Carried(inq'[p])
              \/ busy'[p].doc = docNo'[p] /\ u \in busy'[p].upds
              \/ u \in Content(task'[<<p, conn'[p]>>].log)
              \/ \E c \in Conn : task'[c].step = "forward" /\ u \in task'[c].env.upds
    BY Zenon
  <1>4. OnTheWay(p) = Now
    BY Zenon DEF OnTheWay
  <1>5. OnTheWay(p)' = Then
    BY Zenon DEF OnTheWay, Current, Carried, Content
  <1>6. \A q : u \in Carried(q) <=> \E m \in Elems(q) : m.t = "write" /\ u \in m.env.upds
    BY <1>1
  <1> HIDE DEF Now, Then
  <1> QED BY <1>2, <1>3, <1>4, <1>5, <1>6

(* A replay brings all that was loaded. *)
LEMMA ReplayedCarries ==
  ASSUME NEW log \in Seq(Envelope), NEW d \in Nat, NEW u \in Content(log)
  PROVE  \E m \in Elems(Replayed(log, d)) : m.t = "write" /\ u \in m.env.upds
  <1> DEFINE ws == [i \in 1..Len(log) |-> WriteMsg(log[i])]
             last == <<SyncAck(Content(log), d)>>
  <1>1. Len(log) \in Nat /\ DOMAIN log = 1..Len(log) /\ \A i \in 1..Len(log) : log[i] \in Envelope
    BY LenProperties
  <1>2. PICK i \in 1..Len(log) : u \in log[i].upds
    BY <1>1 DEF Content
  <1>3. ws \in Seq(Msg) /\ WriteMsg(log[i]) \in Elems(ws)
    <2>1. \A j \in 1..Len(log) : WriteMsg(log[j]) \in Msg
      BY <1>1, MsgTypes
    <2> QED BY <1>1, <2>1 DEF Elems
  <1>4. last \in Seq(Msg)
    <2>1. SyncAck(Content(log), d) \in Msg
      BY ContentIsUpdates, MsgTypes
    <2> QED BY <2>1
  <1> HIDE DEF ws, last
  <1>5. Elems(ws \o last) = Elems(ws) \cup Elems(last)
    BY <1>3, <1>4, ElemsOfConcat
  <1>6. Replayed(log, d) = ws \o last
    BY DEF Replayed, ws, last
  <1> QED BY <1>2, <1>3, <1>5, <1>6, MsgContents, MsgKinds

(***************************************************************************)
(* What is on its way to a settled subscriber stays on its way: from the   *)
(* relay's chains to the queue, from the queue to verification, from there *)
(* to the Y.Doc.                                                           *)
(***************************************************************************)
LEMMA OnTheWayStep ==
  ASSUME TypeOK, SentByOwner, LogIsReplayed, DetachedIsEmpty, [Next]_vars,
         NEW p \in Peer, Settled(p), Settled(p)', Current(p) \in subs,
         NEW u \in OnTheWay(p), u.peer # p
  PROVE  u \in OnTheWay(p)'
  <1> USE DEF spaceVars, linkVars, relayVars, boundVars
  <1> DEFINE There == \/ u \in doc'[p]
                      \/ \E m \in Elems(inq'[p]) : m.t = "write" /\ u \in m.env.upds
                      \/ busy'[p].doc = docNo'[p] /\ u \in busy'[p].upds
                      \/ u \in Content(task'[Current(p)].log)
                      \/ \E c \in Conn : task'[c].step = "forward" /\ u \in task'[c].env.upds
  <1>a. \/ u \in doc[p]
        \/ \E m \in Elems(inq[p]) : m.t = "write" /\ u \in m.env.upds
        \/ busy[p].doc = docNo[p] /\ u \in busy[p].upds
        \/ u \in Content(task[Current(p)].log)
        \/ \E c \in Conn : task[c].step = "forward" /\ u \in task[c].env.upds
    BY OnTheWayMeans
  <1>b. /\ conn'[p] = conn[p] /\ Current(p) \in Conn /\ Current(p) = <<p, conn[p]>>
        /\ u \in OnTheWay(p)' <=> There
    BY SettledStep, OnTheWayMeans DEF Current
  <1>c. /\ attached[p] /\ attached'[p] /\ up[p] /\ up'[p]
        /\ Current(p) \in sockets /\ Current(p) \in sockets' /\ Live(Current(p))
    BY <1>b, SettledMeans DEF Live, Current
  <1>d. \A c \in Conn : task[c].step # "replay" => Content(task[c].log) = {}
    BY DEF LogIsReplayed, Content
  <1> SUFFICES There
    BY <1>b
  <1>1. ASSUME NEW q \in Peer, SubscribeNode(q) \/ UnsubscribeNode(q) PROVE There
    <2>1. q # p
      BY <1>1, <1>c DEF SubscribeNode, UnsubscribeNode, TypeOK
    <2>2. /\ doc'[p] = doc[p] /\ docNo'[p] = docNo[p] /\ UNCHANGED <<inq, busy, task>>
      BY <1>1, <2>1 DEF SubscribeNode, UnsubscribeNode, TypeOK
    <2> QED BY <2>2, <1>a
  <1>2. ASSUME NEW q \in Peer, HandleLocalUpdate(q) PROVE There
    <2>1. doc[p] \subseteq doc'[p] /\ UNCHANGED <<inq, busy, task, docNo>>
      BY <1>2 DEF HandleLocalUpdate, TypeOK
    <2> QED BY <2>1, <1>a
  <1>3. CASE UNCHANGED <<doc, inq, busy, docNo, task>>
    BY <1>3, <1>a
  <1>4. ASSUME NEW q \in Peer, ReceiveEnvelope(q) PROVE There
    <2>1. UNCHANGED <<doc, docNo, task>>
      BY <1>4 DEF ReceiveEnvelope
    <2>2. CASE q # p
      <3>1. inq'[p] = inq[p] /\ busy'[p] = busy[p]
        BY <1>4, <2>2 DEF ReceiveEnvelope, Incoming, TypeOK
      <3> QED BY <2>1, <3>1, <1>a
    <2>3. CASE q = p
      <3>1. /\ inq[p] \in Seq(Msg) /\ inq[p] # <<>> /\ inq'[p] = Tail(inq[p])
            /\ busy[p] = NotBusy
            /\ busy'[p] = [upds |-> Head(inq[p]).env.upds, doc |-> docNo[p]]
        BY <1>4, <2>3, <1>c DEF ReceiveEnvelope, Incoming, TypeOK
      <3>2. Elems(inq[p]) = {Head(inq[p])} \cup Elems(inq'[p])
        BY <3>1, ElemsOfHeadAndTail
      <3>3. busy[p].upds = {}
        BY <3>1 DEF NotBusy
      <3> QED BY <2>1, <3>1, <3>2, <3>3, <1>a
    <2> QED BY <2>2, <2>3
  <1>5. ASSUME NEW q \in Peer, ApplyEnvelope(q) PROVE There
    <2>1. UNCHANGED <<docNo, task, inq>>
      BY <1>5 DEF ApplyEnvelope
    <2>2. CASE q # p
      <3>1. doc'[p] = doc[p] /\ busy'[p] = busy[p]
        BY <1>5, <2>2 DEF ApplyEnvelope, TypeOK
      <3> QED BY <2>1, <3>1, <1>a
    <2>3. CASE q = p
      <3>1. /\ doc[p] \subseteq doc'[p]
            /\ busy[p].doc = docNo[p] => busy[p].upds \subseteq doc'[p]
        BY <1>5, <2>3, <1>c DEF ApplyEnvelope, TypeOK
      <3> QED BY <2>1, <3>1, <1>a
    <2> QED BY <2>2, <2>3
  <1>6. ASSUME NEW q \in Peer, ReceiveSyncAck(q) \/ ReceiveWriteAck(q) PROVE There
    <2>1. UNCHANGED <<doc, docNo, task, busy>>
      BY <1>6 DEF ReceiveSyncAck, ReceiveWriteAck
    <2>2. CASE q # p
      <3>1. inq'[p] = inq[p]
        BY <1>6, <2>2 DEF ReceiveSyncAck, ReceiveWriteAck, Incoming, TypeOK
      <3> QED BY <2>1, <3>1, <1>a
    <2>3. CASE q = p
      <3>1. /\ inq[p] \in Seq(Msg) /\ inq[p] # <<>> /\ inq'[p] = Tail(inq[p])
            /\ Head(inq[p]).t # "write"
        BY <1>6, <2>3 DEF ReceiveSyncAck, ReceiveWriteAck, Incoming, TypeOK
      <3>2. Elems(inq[p]) = {Head(inq[p])} \cup Elems(inq'[p])
        BY <3>1, ElemsOfHeadAndTail
      <3> QED BY <2>1, <3>1, <3>2, <1>a
    <2> QED BY <2>2, <2>3
  <1>7. ASSUME NEW q \in Peer, SocketClose(q) PROVE There
    <2>1. UNCHANGED <<doc, docNo, task, busy>>
      BY <1>7 DEF SocketClose
    <2>2. q # p
      BY <1>7, <1>c DEF SocketClose, TypeOK
    <2>3. inq'[p] = inq[p]
      BY <1>7, <2>2 DEF SocketClose, TypeOK
    <2> QED BY <2>1, <2>3, <1>a
  <1>8. CASE RelayRestart
    BY <1>8, <1>c DEF RelayRestart
  <1>9. ASSUME NEW c \in Conn, HandleSubscribe(c) \/ AcceptWrite(c) PROVE There
    <2>1. UNCHANGED <<doc, docNo, inq, busy>>
      BY <1>9 DEF HandleSubscribe, AcceptWrite
    <2>2. task[c].step # "forward" /\ Content(task[c].log) = {}
      BY <1>9, <1>d, IdleMeans DEF HandleSubscribe, AcceptWrite, Dispatch
    <2>3. \A d \in Conn : d # c => task'[d] = task[d]
      BY <1>9 DEF HandleSubscribe, AcceptWrite, TypeOK
    <2> QED BY <2>1, <2>2, <2>3, <1>a, <1>b
  <1>10. ASSUME NEW c \in Conn, LoadMirror(c) PROVE There
    <2>1. UNCHANGED <<doc, docNo, inq, busy>>
      BY <1>10 DEF LoadMirror
    <2>2. task[c].step # "forward" /\ Content(task[c].log) = {}
      BY <1>10, <1>d DEF LoadMirror
    <2>3. \A d \in Conn : d # c => task'[d] = task[d]
      BY <1>10 DEF LoadMirror, TypeOK
    <2> QED BY <2>1, <2>2, <2>3, <1>a, <1>b
  <1>11. ASSUME NEW c \in Conn, Replay(c) PROVE There
    <2> DEFINE r == Replayed(task[c].log, task[c].n)
    <2>1. /\ UNCHANGED <<doc, docNo, busy>>
          /\ task[c].step = "replay" /\ \A d \in Conn : d # c => task'[d] = task[d]
          /\ IF Live(c) THEN inq' = [inq EXCEPT ![c[1]] = @ \o r] ELSE inq' = inq
      BY <1>11 DEF Replay, TypeOK
    <2>2. task[c].log \in Seq(Envelope) /\ task[c].n \in Nat /\ c[1] \in Peer
      BY ConnType DEF TypeOK, Task
    <2>3. r \in Seq(Msg) /\ \A v \in Content(task[c].log) :
                              \E m \in Elems(r) : m.t = "write" /\ v \in m.env.upds
      BY <2>2, ReplayedType, ReplayedCarries
    <2> HIDE DEF r
    <2>4. Elems(inq[c[1]] \o r) = Elems(inq[c[1]]) \cup Elems(r)
      BY <2>2, <2>3, ElemsOfConcat DEF TypeOK
    <2>5. Elems(inq[p]) \subseteq Elems(inq'[p])
      BY <2>1, <2>2, <2>4 DEF TypeOK
    <2>6. ASSUME c = Current(p), u \in Content(task[c].log)
          PROVE  \E m \in Elems(inq'[p]) : m.t = "write" /\ u \in m.env.upds
      <3>1. c[1] = p
        BY <2>6 DEF Current
      <3>2. Elems(inq'[p]) = Elems(inq[p]) \cup Elems(r)
        BY <2>1, <2>4, <2>6, <3>1, <1>c DEF TypeOK
      <3> QED BY <2>3, <2>6, <3>2
    <2>7. task[c].step # "forward"
      BY <2>1
    <2> QED BY <2>1, <2>5, <2>6, <2>7, <1>a, <1>b
  <1>12. ASSUME NEW c \in Conn, ForwardWrite(c) PROVE There
    <2> DEFINE e      == task[c].env
               ack(q) == IF q = c[1] /\ Live(c) THEN <<WriteAck(e.upds)>> ELSE <<>>
               fwd(q) == IF q \in Forwardees(c) THEN <<WriteMsg(e)>> ELSE <<>>
    <2>1. /\ UNCHANGED <<doc, docNo, busy>>
          /\ \A d \in Conn : d # c => task'[d] = task[d]
          /\ inq' = [q \in Peer |-> inq[q] \o ack(q) \o fwd(q)]
          /\ task[c].step = "forward"
      BY <1>12 DEF ForwardWrite, TypeOK
    <2>2. e \in Envelope /\ e.upds \in SUBSET Update
      BY DEF TypeOK, Task, Envelope
    <2>3. WriteAck(e.upds) \in Msg /\ WriteMsg(e) \in Msg
      BY <2>2, MsgTypes
    <2>4. Elems(inq'[p]) = Elems(inq[p]) \cup Elems(ack(p)) \cup Elems(fwd(p))
      BY <2>1, <2>3, ForwardedType DEF TypeOK
    <2>5. Content(task[c].log) = {}
      BY <2>1, <1>d
    <2>6. ASSUME u \in e.upds PROVE There
      <3>1. CASE c = Current(p)
        <4>1. Own(p, u)
          BY <3>1, <2>6 DEF SentByOwner, Current
        <4>2. u \in doc[p]
          BY <4>1 DEF Own
        <4> QED BY <4>2, <2>1
      <3>2. CASE c # Current(p)
        <4>1. p \in Forwardees(c)
          BY <3>2, <1>c DEF Forwardees
        <4>2. WriteMsg(e) \in Elems(fwd(p))
          BY <4>1 DEF Elems
        <4>3. WriteMsg(e).t = "write" /\ u \in WriteMsg(e).env.upds
          BY <2>6, MsgKinds, MsgContents
        <4> QED BY <4>2, <4>3, <2>4
      <3> QED BY <3>1, <3>2
    <2> HIDE DEF ack, fwd
    <2> QED BY <2>1, <2>4, <2>5, <2>6, <1>a, <1>b
  <1>13. \/ \E q \in Peer : \/ SubscribeNode(q) \/ UnsubscribeNode(q) \/ HandleLocalUpdate(q)
                            \/ ReceiveEnvelope(q) \/ ApplyEnvelope(q) \/ ReceiveSyncAck(q)
                            \/ ReceiveWriteAck(q) \/ SocketClose(q)
         \/ RelayRestart
         \/ \E c \in Conn : HandleSubscribe(c) \/ AcceptWrite(c) \/ LoadMirror(c)
                            \/ Replay(c) \/ ForwardWrite(c)
         \/ UNCHANGED <<doc, inq, busy, docNo, task>>
    BY DEF Next, AppStep, SpaceStep, RelayStep, CompactNode, Transmit, SocketOpen, HubClose,
       HandleUnsubscribe, vars
  <1> HIDE DEF There
  <1> QED BY <1>1, <1>2, <1>3, <1>4, <1>5, <1>6, <1>7, <1>8, <1>9, <1>10, <1>11, <1>12, <1>13

(* What the mirror gains is about to be forwarded. *)
LEMMA MirrorGains ==
  ASSUME TypeOK, [Next]_vars, NEW u, u \in Content(mirror'), u \notin Content(mirror)
  PROVE  \E c \in Conn : task'[c].step = "forward" /\ u \in task'[c].env.upds
  <1>1. PICK c \in Conn : AcceptWrite(c)
    <2>1. mirror' # mirror
      OBVIOUS
    <2> QED
      BY <2>1 DEF spaceVars, linkVars, relayVars, boundVars, Next, AppStep, SpaceStep,
         RelayStep, SubscribeNode, UnsubscribeNode, HandleLocalUpdate, CompactNode, Transmit,
         ReceiveEnvelope, ApplyEnvelope, ReceiveSyncAck, ReceiveWriteAck, SocketOpen,
         SocketClose, HubClose, RelayRestart, HandleSubscribe, LoadMirror, Replay,
         HandleUnsubscribe, ForwardWrite, vars
  <1> DEFINE e == Head(rq[c]).env
             k == [Idle EXCEPT !.step = "forward", !.env = e]
  <1>2. mirror' = Logged(mirror, e) /\ task' = [task EXCEPT ![c] = k]
    BY <1>1 DEF AcceptWrite
  <1>3. k.step = "forward" /\ k.env = e
    BY DEF Idle
  <1> HIDE DEF k
  <1>4. task'[c].step = "forward" /\ task'[c].env = e
    BY <1>2, <1>3 DEF TypeOK
  <1>5. e \in Envelope
    <2>1. rq[c] \in Seq(Msg) /\ rq[c] # <<>>
      BY <1>1 DEF AcceptWrite, Dispatch, TypeOK
    <2>2. Head(rq[c]) \in Msg
      BY <2>1, ElemsOfTail
    <2> QED BY <2>2 DEF Msg
  <1> HIDE DEF e
  <1>6. Content(mirror') \subseteq Content(mirror) \cup e.upds
    <2>1. CASE e.snapshot
      <3>1. mirror' = <<e>>
        BY <1>2, <2>1 DEF Logged
      <3> QED BY <3>1 DEF Content
    <2>2. CASE ~e.snapshot
      BY <1>2, <1>5, <2>2, LoggedType DEF TypeOK
    <2> QED BY <1>5, <2>1, <2>2 DEF Envelope
  <1> QED BY <1>4, <1>6

LEMMA NoMissedUpdateStep ==
  ASSUME TypeOK, CatchUpInv, [Next]_vars
  PROVE  NoMissedUpdate'
  <1> SUFFICES ASSUME NEW p \in Peer, Settled(p)', Current(p)' \in subs',
                      NEW u \in Content(mirror'), u.peer # p
               PROVE  u \in OnTheWay(p)'
    BY DEF NoMissedUpdate
  <1>1. /\ Current(p)' = Current(p) /\ Current(p) \in Conn /\ Current(p) = <<p, conn'[p]>>
        /\ Settled(p) \/ LoadMirror(Current(p)) \/ HandleUnsubscribe(Current(p))
    BY SettledStep DEF Current
  <1>2. CASE u \notin Content(mirror)
    BY <1>2, MirrorGains, OnTheWayMeans
  <1>3. CASE LoadMirror(Current(p))
    <2>1. task'[Current(p)].log = mirror /\ mirror' = mirror
      BY <1>1, <1>3 DEF LoadMirror, relayVars, TypeOK, Task
    <2> QED BY <1>1, <2>1, OnTheWayMeans
  <1>4. CASE HandleUnsubscribe(Current(p))
    BY <1>1, <1>4 DEF HandleUnsubscribe
  <1>5. CASE Settled(p) /\ Current(p) \in subs /\ u \in Content(mirror)
    <2>1. u \in OnTheWay(p)
      BY <1>5 DEF CatchUpInv, NoMissedUpdate
    <2> QED BY <1>5, <2>1, OnTheWayStep DEF CatchUpInv
  <1>6. CASE Settled(p) /\ Current(p) \notin subs
    <2>1. \/ subs' \subseteq subs
          \/ \E c \in Conn : HandleSubscribe(c) /\ subs' = subs \cup {c}
      BY DEF spaceVars, linkVars, relayVars, boundVars, Next, AppStep, SpaceStep,
         RelayStep, SubscribeNode, UnsubscribeNode, HandleLocalUpdate, CompactNode, Transmit,
         ReceiveEnvelope, ApplyEnvelope, ReceiveSyncAck, ReceiveWriteAck, SocketOpen,
         SocketClose, HubClose, RelayRestart, HandleSubscribe, LoadMirror, Replay,
         HandleUnsubscribe, AcceptWrite, ForwardWrite, vars
    <2> DEFINE c == Current(p)
    <2>2. HandleSubscribe(c)
      BY <1>1, <1>6, <2>1
    <2> HIDE DEF c
    <2> DEFINE l == [Idle EXCEPT !.step = "load", !.n = Head(rq[c]).n]
    <2>3. task' = [task EXCEPT ![c] = l]
      BY <2>2 DEF HandleSubscribe
    <2>4. l.step = "load"
      BY DEF Idle
    <2> HIDE DEF l
    <2>5. task'[Current(p)].step = "load"
      BY <1>1, <2>3, <2>4 DEF TypeOK, c
    <2> QED BY <1>1, <2>5, SettledMeans
  <1> QED BY <1>1, <1>2, <1>3, <1>4, <1>5, <1>6

LEMMA CatchUpInit == Init => CatchUpInv
  <1> SUFFICES ASSUME Init PROVE CatchUpInv
    OBVIOUS
  <1> QED
    BY ElemsOfEmpty, IdleMeans, SettledMeans
    DEF Init, CatchUpInv, SentByOwner, DetachedIsEmpty, LogIsReplayed, NoMissedUpdate

LEMMA CatchUpStep ==
  ASSUME MaxCompacts = 0 \/ MaxReleases = 0, TypeOK, CatchUpInv, [Next]_vars
  PROVE  CatchUpInv'
  BY SentByOwnerStep, DetachedIsEmptyStep, LogIsReplayedStep, NoMissedUpdateStep DEF CatchUpInv

(***************************************************************************)
(* handleSubscribe() registers before it loads: for a Space that is        *)
(* subscribed and has no request under way, every update of another peer   *)
(* in the relay's file is in its Y.Doc or on its way there, whatever the   *)
(* interleaving of the chains, the drops and the restarts, for any number  *)
(* of Spaces.  Releases and compactions are not both allowed: a snapshot   *)
(* sealed before its Space released the Node may hold what the new Y.Doc   *)
(* does not, and its sender is not forwarded to.                           *)
(***************************************************************************)
THEOREM NothingFallsBetween ==
  ASSUME MaxCompacts = 0 \/ MaxReleases = 0
  PROVE  Spec => []NoMissedUpdate
  <1>1. TypeOK /\ CatchUpInv /\ [Next]_vars => (TypeOK /\ CatchUpInv)'
    BY TypeStep, CatchUpStep
  <1>2. CatchUpInv => NoMissedUpdate
    BY DEF CatchUpInv
  <1> QED BY <1>1, <1>2, TypeInit, CatchUpInit, PTL DEF Spec

-----------------------------------------------------------------------------
(* A sync-ack is never early. *)

(* Numbers of requests: of what is sent, and of the Y.Docs. *)
LEMMA DocNoGrows ==
  ASSUME TypeOK, [Next]_vars, NEW p \in Peer
  PROVE  /\ docNo[p] \in Nat /\ docNo'[p] \in Nat /\ docNo[p] <= docNo'[p]
         /\ docNo'[p] # docNo[p] => docNo'[p] = docNo[p] + 1 /\ SubscribeNode(p)
  <1>1. ASSUME NEW q \in Peer, SubscribeNode(q)
        PROVE  /\ docNo[p] \in Nat /\ docNo'[p] \in Nat /\ docNo[p] <= docNo'[p]
               /\ docNo'[p] # docNo[p] => docNo'[p] = docNo[p] + 1 /\ SubscribeNode(p)
    <2>1. docNo' = [docNo EXCEPT ![q] = @ + 1] /\ docNo \in [Peer -> Nat]
      BY <1>1 DEF SubscribeNode, TypeOK
    <2>2. CASE q = p
      BY <1>1, <2>1, <2>2
    <2>3. CASE q # p
      BY <2>1, <2>3
    <2> QED BY <2>2, <2>3
  <1>2. (\E q \in Peer : SubscribeNode(q)) \/ docNo' = docNo
    BY DEF spaceVars, linkVars, relayVars, boundVars, Next, AppStep, SpaceStep,
       RelayStep, UnsubscribeNode, HandleLocalUpdate, CompactNode, Transmit,
       ReceiveEnvelope, ApplyEnvelope, ReceiveSyncAck, ReceiveWriteAck, SocketOpen,
       SocketClose, HubClose, RelayRestart, HandleSubscribe, LoadMirror, Replay,
       HandleUnsubscribe, AcceptWrite, ForwardWrite, vars
  <1> QED BY <1>1, <1>2 DEF TypeOK

(* How the queue towards a Space changes. *)
LEMMA InqStep ==
  ASSUME TypeOK, [Next]_vars, NEW p \in Peer
  PROVE  \/ inq'[p] = inq[p]
         \/ inq'[p] \in Prefixes(inq[p])
         \/ /\ inq[p] # <<>> /\ inq'[p] = Tail(inq[p])
            /\ ReceiveEnvelope(p) \/ Head(inq[p]).t # "write"
         \/ \E c \in Conn : c[1] = p /\ inq'[p] = inq[p] \o Replayed(task[c].log, task[c].n)
         \/ \E s \in Seq(Msg) : /\ inq'[p] = inq[p] \o s
                                /\ \A m \in Elems(s) : m.t # "sync-ack" /\ m.n = 0
  <1> USE DEF spaceVars, linkVars, relayVars, boundVars
  <1> DEFINE Goal ==
        \/ inq'[p] = inq[p]
        \/ inq'[p] \in Prefixes(inq[p])
        \/ /\ inq[p] # <<>> /\ inq'[p] = Tail(inq[p])
           /\ ReceiveEnvelope(p) \/ Head(inq[p]).t # "write"
        \/ \E c \in Conn : c[1] = p /\ inq'[p] = inq[p] \o Replayed(task[c].log, task[c].n)
        \/ \E s \in Seq(Msg) : /\ inq'[p] = inq[p] \o s
                               /\ \A m \in Elems(s) : m.t # "sync-ack" /\ m.n = 0
  <1> SUFFICES Goal
    OBVIOUS
  <1>1. ASSUME NEW q \in Peer,
               ReceiveEnvelope(q) \/ ReceiveSyncAck(q) \/ ReceiveWriteAck(q)
        PROVE  Goal
    <2>1. /\ inq' = [inq EXCEPT ![q] = Tail(@)] /\ inq[q] # <<>>
          /\ ReceiveEnvelope(q) \/ Head(inq[q]).t # "write"
      BY <1>1 DEF ReceiveEnvelope, ReceiveSyncAck, ReceiveWriteAck, Incoming
    <2> QED BY <2>1 DEF TypeOK
  <1>2. ASSUME NEW q \in Peer, SocketClose(q) PROVE Goal
    BY <1>2 DEF SocketClose, TypeOK
  <1>3. ASSUME NEW c \in Conn, Replay(c) PROVE Goal
    BY <1>3 DEF Replay, TypeOK
  <1>4. ASSUME NEW c \in Conn, ForwardWrite(c) PROVE Goal
    <2> DEFINE e      == task[c].env
               ack(q) == IF q = c[1] /\ Live(c) THEN <<WriteAck(e.upds)>> ELSE <<>>
               fwd(q) == IF q \in Forwardees(c) THEN <<WriteMsg(e)>> ELSE <<>>
    <2>1. inq' = [q \in Peer |-> inq[q] \o ack(q) \o fwd(q)]
      BY <1>4 DEF ForwardWrite
    <2>2. e \in Envelope /\ e.upds \in SUBSET Update
      BY DEF TypeOK, Task, Envelope
    <2>3. WriteAck(e.upds) \in Msg /\ WriteMsg(e) \in Msg
      BY <2>2, MsgTypes
    <2>4. ack(p) \in Seq(Msg) /\ fwd(p) \in Seq(Msg)
      BY <2>3, EmptySeq
    <2>5. Elems(ack(p)) \subseteq {WriteAck(e.upds)} /\ Elems(fwd(p)) \subseteq {WriteMsg(e)}
      BY DEF Elems
    <2>6. inq[p] \in Seq(Msg)
      BY DEF TypeOK
    <2>7. inq'[p] = inq[p] \o ack(p) \o fwd(p)
      BY <2>1
    <2> HIDE DEF ack, fwd
    <2> DEFINE s == ack(p) \o fwd(p)
    <2>8. s \in Seq(Msg) /\ Elems(s) = Elems(ack(p)) \cup Elems(fwd(p))
      BY <2>4, ElemsOfConcat
    <2>9. inq'[p] = inq[p] \o s
      <3>1. \A a, b, x \in Seq(Msg) : (a \o b) \o x = a \o (b \o x)
        BY ConcatAssociative
      <3> QED BY <2>4, <2>6, <2>7, <3>1, Zenon
    <2> HIDE DEF s
    <2>10. \A m \in Elems(s) : m.t # "sync-ack" /\ m.n = 0
      BY <2>5, <2>8, MsgKinds
    <2> QED BY <2>8, <2>9, <2>10
  <1>5. CASE inq' = inq
    BY <1>5
  <1>6. \/ \E q \in Peer : ReceiveEnvelope(q) \/ ReceiveSyncAck(q) \/ ReceiveWriteAck(q)
                           \/ SocketClose(q)
        \/ \E c \in Conn : Replay(c) \/ ForwardWrite(c)
        \/ inq' = inq
    BY DEF Next, AppStep, SpaceStep, RelayStep, SubscribeNode, UnsubscribeNode,
       HandleLocalUpdate, CompactNode, Transmit, ApplyEnvelope, SocketOpen,
       HubClose, RelayRestart, HandleSubscribe, LoadMirror,
       HandleUnsubscribe, AcceptWrite, vars
  <1> HIDE DEF Goal
  <1> QED BY <1>1, <1>2, <1>3, <1>4, <1>5, <1>6

(* A replay in detail: the loaded envelopes, then the sync-ack for all of them. *)
LEMMA ReplayedMeans ==
  ASSUME NEW log \in Seq(Envelope), NEW d \in Nat
  PROVE  /\ Replayed(log, d) \in Seq(Msg) /\ Len(Replayed(log, d)) = Len(log) + 1
         /\ \A i \in 1..Len(log) : Replayed(log, d)[i] = WriteMsg(log[i])
         /\ Replayed(log, d)[Len(log) + 1] = SyncAck(Content(log), d)
  <1> DEFINE ws == [i \in 1..Len(log) |-> WriteMsg(log[i])]
             last == <<SyncAck(Content(log), d)>>
  <1>1. Len(log) \in Nat /\ \A i \in 1..Len(log) : log[i] \in Envelope
    BY LenProperties
  <1>2. ws \in Seq(Msg) /\ Len(ws) = Len(log) /\ \A i \in 1..Len(log) : ws[i] = WriteMsg(log[i])
    <2>1. \A j \in 1..Len(log) : WriteMsg(log[j]) \in Msg
      BY <1>1, MsgTypes
    <2> QED BY <1>1, <2>1
  <1>3. last \in Seq(Msg) /\ Len(last) = 1 /\ last[1] = SyncAck(Content(log), d)
    <2>1. SyncAck(Content(log), d) \in Msg
      BY ContentIsUpdates, MsgTypes
    <2> QED BY <2>1
  <1>4. Replayed(log, d) = ws \o last
    BY DEF Replayed
  <1> HIDE DEF ws, last
  <1>5. /\ ws \o last \in Seq(Msg) /\ Len(ws \o last) = Len(log) + 1
        /\ \A i \in 1..(Len(log) + 1) :
             (ws \o last)[i] = IF i <= Len(log) THEN ws[i] ELSE last[i - Len(log)]
    <2>1. /\ ws \o last \in Seq(Msg) /\ Len(ws \o last) = Len(ws) + Len(last)
          /\ \A i \in 1..(Len(ws) + Len(last)) :
               (ws \o last)[i] = IF i <= Len(ws) THEN ws[i] ELSE last[i - Len(ws)]
      <3>1. ws \in Seq(Msg) /\ last \in Seq(Msg)
        BY <1>2, <1>3
      <3> QED BY <3>1, ConcatProperties
    <2> QED BY <2>1, <1>2, <1>3
  <1>6. \A i \in 1..Len(log) : (ws \o last)[i] = WriteMsg(log[i])
    BY <1>1, <1>2, <1>5
  <1>7. (ws \o last)[Len(log) + 1] = SyncAck(Content(log), d)
    <2>1. Len(log) + 1 - Len(log) = 1 /\ ~(Len(log) + 1 <= Len(log))
      BY <1>1
    <2>2. (ws \o last)[Len(log) + 1] = last[Len(log) + 1 - Len(log)]
      BY <1>1, <1>5, <2>1
    <2> QED BY <1>3, <2>1, <2>2
  <1> QED BY <1>4, <1>5, <1>6, <1>7

-----------------------------------------------------------------------------
(* What queue operations do to Answered(). *)

LEMMA AnsweredReplay ==
  ASSUME NEW log \in Seq(Envelope), NEW n \in Nat, NEW d
  PROVE  Answered(Replayed(log, n), d, {})
  <1> DEFINE r == Replayed(log, n)
  <1>1. /\ r \in Seq(Msg) /\ Len(r) = Len(log) + 1 /\ Len(log) \in Nat
        /\ \A i \in 1..Len(log) : r[i] = WriteMsg(log[i])
        /\ r[Len(log) + 1] = SyncAck(Content(log), n)
    BY ReplayedMeans, LenProperties
  <1> HIDE DEF r
  <1>2. DOMAIN r = 1..(Len(log) + 1) /\ DOMAIN log = 1..Len(log)
    BY <1>1, LenProperties
  <1>3. ASSUME NEW i \in 1..(Len(log) + 1), r[i].t = "sync-ack"
        PROVE  r[i].env.upds \subseteq Before(r, i)
    <2>1. i = Len(log) + 1
      BY <1>1, <1>3, MsgKinds
    <2>2. r[i].env.upds = Content(log)
      BY <1>1, <2>1 DEF SyncAck
    <2>3. ASSUME NEW u \in Content(log) PROVE u \in Before(r, i)
      <3>1. PICK j \in 1..Len(log) : u \in log[j].upds
        BY <1>2 DEF Content
      <3>2. j \in 1..(i - 1) /\ r[j].t = "write" /\ u \in r[j].env.upds
        BY <1>1, <2>1, <3>1, MsgKinds, MsgContents
      <3> QED BY <3>2 DEF Before
    <2> QED BY <2>2, <2>3
  <1>4. Answered(r, d, {})
    BY <1>2, <1>3 DEF Answered
  <1> QED BY <1>4 DEF r

LEMMA AnsweredConcat ==
  ASSUME NEW q \in Seq(Msg), NEW r \in Seq(Msg), NEW d, NEW S,
         Answered(q, d, S), Answered(r, d, {})
  PROVE  Answered(q \o r, d, S)
  <1> DEFINE s == q \o r
  <1>1. /\ s \in Seq(Msg) /\ Len(s) = Len(q) + Len(r)
        /\ Len(q) \in Nat /\ Len(r) \in Nat
        /\ \A i \in 1..(Len(q) + Len(r)) : s[i] = IF i <= Len(q) THEN q[i] ELSE r[i - Len(q)]
    BY ConcatProperties, LenProperties
  <1> HIDE DEF s
  <1>2. /\ DOMAIN s = 1..(Len(q) + Len(r)) /\ DOMAIN q = 1..Len(q) /\ DOMAIN r = 1..Len(r)
    BY <1>1, LenProperties
  <1>3. ASSUME NEW i \in 1..(Len(q) + Len(r)), s[i].t = "sync-ack", s[i].n = d
        PROVE  s[i].env.upds \subseteq S \cup Before(s, i)
    <2>1. CASE i <= Len(q)
      <3>1. i \in 1..Len(q) /\ s[i] = q[i] /\ \A j \in 1..(i - 1) : s[j] = q[j]
        BY <1>1, <2>1
      <3>2. q[i].env.upds \subseteq S \cup Before(q, i)
        BY <1>2, <1>3, <3>1 DEF Answered
      <3>3. Before(q, i) = Before(s, i)
        BY <3>1 DEF Before
      <3> QED BY <3>1, <3>2, <3>3
    <2>2. CASE ~(i <= Len(q))
      <3> DEFINE k == i - Len(q)
      <3>1. k \in 1..Len(r) /\ s[i] = r[k]
        BY <1>1, <2>2
      <3>2. r[k].env.upds \subseteq Before(r, k)
        BY <1>2, <1>3, <3>1 DEF Answered
      <3>3. ASSUME NEW u \in Before(r, k) PROVE u \in Before(s, i)
        <4>1. PICK j \in 1..(k - 1) : r[j].t = "write" /\ u \in r[j].env.upds
          BY <3>3 DEF Before
        <4>2. /\ Len(q) + j \in 1..(i - 1) /\ Len(q) + j \in 1..(Len(q) + Len(r))
              /\ ~(Len(q) + j <= Len(q)) /\ Len(q) + j - Len(q) = j
          BY <1>1, <2>2, <3>1, <4>1
        <4>3. s[Len(q) + j] = r[j]
          BY <1>1, <4>2
        <4> QED BY <4>1, <4>2, <4>3 DEF Before
      <3> QED BY <3>1, <3>2, <3>3
    <2> QED BY <2>1, <2>2
  <1>4. Answered(s, d, S)
    BY <1>2, <1>3 DEF Answered
  <1> QED BY <1>4 DEF s

LEMMA AnsweredTail ==
  ASSUME NEW q \in Seq(Msg), q # <<>>, NEW d, NEW S, NEW T, Answered(q, d, S),
         S \subseteq T, Head(q).t = "write" => Head(q).env.upds \subseteq T
  PROVE  Answered(Tail(q), d, T)
  <1> DEFINE r == Tail(q)
  <1>1. /\ r \in Seq(Msg) /\ Len(r) = Len(q) - 1 /\ Head(q) = q[1]
        /\ \A i \in 1..Len(r) : r[i] = q[i + 1]
    BY HeadTailProperties
  <1> HIDE DEF r
  <1>2. /\ Len(q) \in Nat /\ DOMAIN q = 1..Len(q) /\ DOMAIN r = 1..(Len(q) - 1)
    BY <1>1, LenProperties
  <1>3. ASSUME NEW i \in 1..(Len(q) - 1), r[i].t = "sync-ack", r[i].n = d
        PROVE  r[i].env.upds \subseteq T \cup Before(r, i)
    <2>1. r[i] = q[i + 1] /\ i + 1 \in 1..Len(q)
      BY <1>1, <1>2
    <2>2. r[i].env.upds \subseteq S \cup Before(q, i + 1)
      BY <1>2, <1>3, <2>1 DEF Answered
    <2>3. ASSUME NEW u \in Before(q, i + 1) PROVE u \in T \cup Before(r, i)
      <3>1. PICK j \in 1..i : q[j].t = "write" /\ u \in q[j].env.upds
        BY <1>2, <2>3 DEF Before
      <3>2. CASE j = 1
        BY <1>1, <3>1, <3>2
      <3>3. CASE j # 1
        <4>1. j - 1 \in 1..(i - 1) /\ j - 1 \in 1..Len(r) /\ r[j - 1] = q[j]
          BY <1>1, <1>2, <3>1, <3>3
        <4> QED BY <3>1, <4>1 DEF Before
      <3> QED BY <3>2, <3>3
    <2> QED BY <2>2, <2>3
  <1>4. Answered(r, d, T)
    BY <1>2, <1>3 DEF Answered
  <1> QED BY <1>4 DEF r

LEMMA AnsweredPrefix ==
  ASSUME NEW q \in Seq(Msg), NEW r \in Prefixes(q), NEW d, NEW S, Answered(q, d, S)
  PROVE  Answered(r, d, S)
  <1>1. PICK k \in 0..Len(q) : r = SubSeq(q, 1, k)
    BY DEF Prefixes
  <1>2. Len(q) \in Nat /\ DOMAIN q = 1..Len(q) /\ \A i \in 1..Len(q) : q[i] \in Msg
    BY LenProperties
  <1>3. r \in Seq(Msg) /\ Len(r) = k /\ \A i \in 1..k : r[i] = q[i]
    BY <1>1, <1>2, SubSeqProperties
  <1>4. DOMAIN r = 1..k
    BY <1>3, LenProperties
  <1>5. ASSUME NEW i \in 1..k, r[i].t = "sync-ack", r[i].n = d
        PROVE  r[i].env.upds \subseteq S \cup Before(r, i)
    <2>1. i \in DOMAIN q /\ r[i] = q[i] /\ \A j \in 1..(i - 1) : r[j] = q[j]
      BY <1>2, <1>3
    <2>2. Before(r, i) = Before(q, i)
      BY <2>1 DEF Before
    <2> QED BY <1>5, <2>1, <2>2 DEF Answered
  <1> QED BY <1>4, <1>5 DEF Answered

(* The first message in the queue is answered by the Y.Doc alone. *)
LEMMA AnsweredHead ==
  ASSUME NEW q \in Seq(Msg), q # <<>>, NEW d, NEW S, Answered(q, d, S),
         Head(q).t = "sync-ack", Head(q).n = d
  PROVE  Head(q).env.upds \subseteq S
  <1>1. Head(q) = q[1] /\ 1 \in DOMAIN q
    BY HeadTailProperties, LenProperties, EmptySeq
  <1>2. Before(q, 1) = {}
    BY DEF Before
  <1> QED BY <1>1, <1>2 DEF Answered

-----------------------------------------------------------------------------
LEMMA AckInit == Init => AckInv
  <1> SUFFICES ASSUME Init PROVE AckInv
    OBVIOUS
  <1> QED
    BY ElemsOfEmpty, IdleMeans, ConnType
    DEF Init, AckInv, NumbersKnown, AcksAreLast

(* What is queued are messages, and their numbers are numbers. *)
LEMMA QueuedAreMessages ==
  ASSUME NEW s \in Seq(Msg), NEW m \in Elems(s)
  PROVE  m \in Msg /\ m.n \in Nat
  <1>1. m \in Msg
    BY LenProperties DEF Elems
  <1> QED BY <1>1 DEF Msg

LEMMA NumbersKnownStep ==
  ASSUME TypeOK, NumbersKnown, [Next]_vars
  PROVE  NumbersKnown'
  <1>1. \A p \in Peer : docNo[p] \in Nat /\ docNo'[p] \in Nat /\ docNo[p] <= docNo'[p]
    BY DocNoGrows
  <1>2. ASSUME NEW p \in Peer, NEW m \in pend'[p] \cup Elems(sendQ'[p])
        PROVE  m.n <= docNo'[p]
    <2>1. CASE m \in pend[p] \cup Elems(sendQ[p])
      <3>1. m.n <= docNo[p] /\ m \in Msg
        BY <2>1, LenProperties DEF NumbersKnown, Elems, TypeOK
      <3> QED BY <3>1, <1>1 DEF Msg
    <2>2. CASE SubscribeNode(p) /\ m = SubscribeMsg(docNo[p] + 1)
      <3>1. docNo'[p] = docNo[p] + 1 /\ m.n = docNo[p] + 1
        BY <2>2, MsgKinds DEF SubscribeNode, TypeOK
      <3> QED BY <3>1, <1>1
    <2>3. CASE m = SubscribeMsg(docNo[p]) \/ m = UnsubscribeMsg(docNo[p])
      BY <2>3, <1>1, MsgKinds
    <2>4. CASE \E e : m = WriteMsg(e)
      BY <2>4, <1>1, MsgKinds
    <2> QED BY <1>2, <2>1, <2>2, <2>3, <2>4, QueueStep
  <1>3. ASSUME NEW c \in Conn, NEW m \in Elems(rq'[c])
        PROVE  m.n <= docNo'[c[1]]
    <2>1. c[1] \in Peer
      BY ConnType
    <2>2. m \in Elems(rq[c]) \cup pend[c[1]] \cup Elems(sendQ[c[1]])
      BY <2>1, QueueStep
    <2>3. m.n <= docNo[c[1]]
      BY <2>1, <2>2 DEF NumbersKnown
    <2>4. m \in Msg
      BY <2>1, <2>2, QueuedAreMessages DEF TypeOK
    <2> QED BY <2>1, <2>3, <2>4, <1>1 DEF Msg
  <1>4. ASSUME NEW c \in Conn
        PROVE  task'[c].n <= docNo'[c[1]]
    <2>1. c[1] \in Peer /\ task[c].n \in Nat /\ \A m \in Elems(rq[c]) : m \in Msg
      BY ConnType, LenProperties DEF TypeOK, Task, Elems
    <2>2. /\ task[c].n <= docNo[c[1]]
          /\ \A m \in Elems(rq[c]) : m.n <= docNo[c[1]] /\ m.n \in Nat
      BY <2>1 DEF NumbersKnown, Msg
    <2>3. task'[c].n = task[c].n \/ task'[c].n = 0 \/ \E m \in Elems(rq[c]) : task'[c].n = m.n
      BY TaskStep, IdleMeans
    <2> QED BY <2>1, <2>2, <2>3, <1>1
  <1>5. ASSUME NEW p \in Peer, NEW m \in Elems(inq'[p])
        PROVE  m.n <= docNo'[p]
    <2>1. inq[p] \in Seq(Msg)
      BY DEF TypeOK
    <2>2. CASE m \in Elems(inq[p])
      <3>1. m.n <= docNo[p] /\ m \in Msg
        BY <2>1, <2>2, LenProperties DEF NumbersKnown, Elems
      <3> QED BY <3>1, <1>1 DEF Msg
    <2>3. CASE inq'[p] = inq[p]
      BY <1>5, <2>2, <2>3
    <2>4. CASE inq'[p] \in Prefixes(inq[p])
      BY <1>5, <2>1, <2>2, <2>4, ElemsOfPrefix
    <2>5. CASE inq[p] # <<>> /\ inq'[p] = Tail(inq[p])
      BY <1>5, <2>1, <2>2, <2>5, ElemsOfTail
    <2>6. ASSUME NEW c \in Conn, c[1] = p,
                 inq'[p] = inq[p] \o Replayed(task[c].log, task[c].n)
          PROVE  m.n <= docNo'[p]
      <3> DEFINE r == Replayed(task[c].log, task[c].n)
      <3>1. task[c].log \in Seq(Envelope) /\ task[c].n \in Nat /\ task[c].n <= docNo[p]
        BY <2>6 DEF TypeOK, Task, NumbersKnown
      <3>2. /\ r \in Seq(Msg) /\ Len(r) = Len(task[c].log) + 1
            /\ \A i \in 1..Len(task[c].log) : r[i] = WriteMsg(task[c].log[i])
            /\ r[Len(task[c].log) + 1] = SyncAck(Content(task[c].log), task[c].n)
        BY <3>1, ReplayedMeans
      <3> HIDE DEF r
      <3>3. Elems(inq[p] \o r) = Elems(inq[p]) \cup Elems(r)
        BY <2>1, <3>2, ElemsOfConcat
      <3>4. \A x \in Elems(r) : x.n = 0 \/ x.n = task[c].n
        <4>1. DOMAIN r = 1..(Len(task[c].log) + 1) /\ Len(task[c].log) \in Nat
          BY <3>1, <3>2, LenProperties
        <4>2. ASSUME NEW i \in 1..(Len(task[c].log) + 1) PROVE r[i].n = 0 \/ r[i].n = task[c].n
          <5>1. i \in 1..Len(task[c].log) \/ i = Len(task[c].log) + 1
            BY <4>1
          <5> QED BY <3>2, <5>1, MsgKinds
        <4> QED BY <4>1, <4>2 DEF Elems
      <3>5. m \in Elems(inq[p]) \/ m.n = 0 \/ m.n = task[c].n
        BY <1>5, <2>6, <3>3, <3>4 DEF r
      <3> QED BY <2>2, <3>1, <3>5, <1>1
    <2>7. ASSUME NEW s \in Seq(Msg), inq'[p] = inq[p] \o s,
                 \A x \in Elems(s) : x.t # "sync-ack" /\ x.n = 0
          PROVE  m.n <= docNo'[p]
      <3>1. m \in Elems(inq[p]) \/ m.n = 0
        BY <1>5, <2>1, <2>7, ElemsOfConcat
      <3> QED BY <2>2, <3>1, <1>1
    <2> QED BY <2>3, <2>4, <2>5, <2>6, <2>7, InqStep
  <1> QED BY <1>2, <1>3, <1>4, <1>5 DEF NumbersKnown

(* A Y.Doc in use keeps what it took, until it is released. *)
LEMMA TakenGrows ==
  ASSUME TypeOK, [Next]_vars, NEW p \in Peer, attached[p], attached'[p]
  PROVE  /\ docNo'[p] = docNo[p] /\ Taken(p) \subseteq Taken(p)'
         /\ ReceiveEnvelope(p) => Head(inq[p]).env.upds \subseteq Taken(p)'
  <1> USE DEF spaceVars, linkVars, relayVars, boundVars
  <1> DEFINE Keeps == /\ docNo'[p] = docNo[p] /\ Taken(p) \subseteq Taken(p)'
             Takes == ReceiveEnvelope(p) => Head(inq[p]).env.upds \subseteq Taken(p)'
  <1>1. ASSUME NEW q \in Peer, SubscribeNode(q) \/ UnsubscribeNode(q) PROVE Keeps
    <2>1. q # p
      BY <1>1 DEF SubscribeNode, UnsubscribeNode, TypeOK
    <2>2. docNo'[p] = docNo[p] /\ doc'[p] = doc[p] /\ busy' = busy
      BY <1>1, <2>1 DEF SubscribeNode, UnsubscribeNode, TypeOK
    <2> QED BY <2>2 DEF Taken
  <1>2. ASSUME NEW q \in Peer, HandleLocalUpdate(q) PROVE Keeps
    <2>1. docNo' = docNo /\ doc[p] \subseteq doc'[p] /\ busy' = busy
      BY <1>2 DEF HandleLocalUpdate, TypeOK
    <2> QED BY <2>1 DEF Taken
  <1>3. ASSUME NEW q \in Peer, ApplyEnvelope(q) PROVE Keeps
    <2>1. docNo' = docNo
      BY <1>3 DEF ApplyEnvelope
    <2>2. CASE q # p
      <3>1. doc'[p] = doc[p] /\ busy'[p] = busy[p]
        BY <1>3, <2>2 DEF ApplyEnvelope, TypeOK
      <3> QED BY <2>1, <3>1 DEF Taken
    <2>3. CASE q = p
      <3>1. /\ doc[p] \subseteq doc'[p]
            /\ busy[p].doc = docNo[p] => busy[p].upds \subseteq doc'[p]
        BY <1>3, <2>3 DEF ApplyEnvelope, TypeOK
      <3> QED BY <2>1, <3>1 DEF Taken
    <2> QED BY <2>2, <2>3
  <1>4. ASSUME NEW q \in Peer, ReceiveEnvelope(q) PROVE Keeps
    <2>1. docNo' = docNo /\ doc' = doc /\ busy[q] = NotBusy
      BY <1>4 DEF ReceiveEnvelope, Incoming
    <2>2. q # p => busy'[p] = busy[p]
      BY <1>4 DEF ReceiveEnvelope, TypeOK
    <2> QED BY <2>1, <2>2 DEF Taken, NotBusy
  <1>5. Takes
    <2> SUFFICES ASSUME ReceiveEnvelope(p) PROVE Head(inq[p]).env.upds \subseteq Taken(p)'
      OBVIOUS
    <2>1. /\ docNo' = docNo
          /\ busy'[p] = [upds |-> Head(inq[p]).env.upds, doc |-> docNo[p]]
      BY DEF ReceiveEnvelope, TypeOK
    <2> QED BY <2>1 DEF Taken
  <1>6. ASSUME UNCHANGED <<doc, docNo, busy>> PROVE Keeps
    <2>1. Taken(p)' = Taken(p)
      BY <1>6 DEF Taken
    <2> QED BY <1>6, <2>1
  <1>7. \/ \E q \in Peer : \/ SubscribeNode(q) \/ UnsubscribeNode(q) \/ HandleLocalUpdate(q)
                           \/ ReceiveEnvelope(q) \/ ApplyEnvelope(q)
        \/ UNCHANGED <<doc, docNo, busy>>
    BY DEF Next, AppStep, SpaceStep, RelayStep, CompactNode, Transmit,
       ReceiveSyncAck, ReceiveWriteAck, SocketOpen,
       SocketClose, HubClose, RelayRestart, HandleSubscribe, LoadMirror, Replay,
       HandleUnsubscribe, AcceptWrite, ForwardWrite, vars
  <1>8. Keeps
    BY <1>1, <1>2, <1>3, <1>4, <1>6, <1>7
  <1> QED BY <1>5, <1>8

LEMMA AcksAreLastStep ==
  ASSUME TypeOK, AckInv, [Next]_vars
  PROVE  AcksAreLast'
  <1> USE DEF spaceVars, linkVars, relayVars, boundVars
  <1> SUFFICES ASSUME NEW p \in Peer, attached'[p]
               PROVE  Answered(inq'[p], docNo'[p], Taken(p)')
    BY DEF AcksAreLast, Answered, Before
  <1>1. inq[p] \in Seq(Msg)
    BY DEF TypeOK
  <1>2. CASE ~attached[p]
    <2>1. SubscribeNode(p)
      BY <1>2 DEF Next, AppStep, SpaceStep, RelayStep, SubscribeNode, UnsubscribeNode,
         HandleLocalUpdate, CompactNode, Transmit, ReceiveEnvelope, ApplyEnvelope,
         ReceiveSyncAck, ReceiveWriteAck, SocketOpen,
         SocketClose, HubClose, RelayRestart, HandleSubscribe, LoadMirror, Replay,
         HandleUnsubscribe, AcceptWrite, ForwardWrite, vars, TypeOK
    <2>2. inq' = inq /\ docNo'[p] = docNo[p] + 1 /\ docNo[p] \in Nat
      BY <2>1 DEF SubscribeNode, TypeOK
    <2>3. \A m \in Elems(inq[p]) : m.n <= docNo[p] /\ m.n \in Nat
      BY <1>1, QueuedAreMessages DEF AckInv, NumbersKnown
    <2>4. \A m \in Elems(inq[p]) : m.n # docNo'[p]
      BY <2>2, <2>3
    <2> QED BY <2>2, <2>4 DEF Answered, Elems
  <1>3. CASE attached[p]
    <2>1. /\ docNo'[p] = docNo[p] /\ Taken(p) \subseteq Taken(p)'
          /\ ReceiveEnvelope(p) => Head(inq[p]).env.upds \subseteq Taken(p)'
      BY <1>3, TakenGrows
    <2>2. Answered(inq[p], docNo[p], Taken(p))
      BY <1>3 DEF AckInv, AcksAreLast
    <2> DEFINE d == docNo[p]
               T == Taken(p)'
    <2>3. Answered(inq[p], d, T)
      BY <2>1, <2>2 DEF Answered
    <2>4. CASE inq'[p] = inq[p]
      BY <2>1, <2>3, <2>4
    <2>5. CASE inq'[p] \in Prefixes(inq[p])
      <3> HIDE DEF d, T
      <3>1. Answered(inq'[p], d, T)
        BY <1>1, <2>3, <2>5, AnsweredPrefix
      <3> QED BY <2>1, <3>1 DEF d, T
    <2>6. CASE /\ inq[p] # <<>> /\ inq'[p] = Tail(inq[p])
               /\ ReceiveEnvelope(p) \/ Head(inq[p]).t # "write"
      <3>1. Head(inq[p]).t = "write" => Head(inq[p]).env.upds \subseteq T
        BY <2>1, <2>6
      <3> HIDE DEF d, T
      <3>2. Answered(Tail(inq[p]), d, T)
        BY <1>1, <2>3, <2>6, <3>1, AnsweredTail
      <3> QED BY <2>1, <2>6, <3>2 DEF d, T
    <2>7. ASSUME NEW s \in Seq(Msg), inq'[p] = inq[p] \o s, Answered(s, d, {})
          PROVE  Answered(inq'[p], docNo'[p], T)
      <3> HIDE DEF d, T
      <3>1. Answered(inq[p] \o s, d, T)
        BY <1>1, <2>3, <2>7, AnsweredConcat
      <3> QED BY <2>1, <2>7, <3>1 DEF d
    <2>8. ASSUME NEW c \in Conn, inq'[p] = inq[p] \o Replayed(task[c].log, task[c].n)
          PROVE  Answered(inq'[p], docNo'[p], T)
      <3>1. task[c].log \in Seq(Envelope) /\ task[c].n \in Nat
        BY DEF TypeOK, Task
      <3>2. /\ Replayed(task[c].log, task[c].n) \in Seq(Msg)
            /\ Answered(Replayed(task[c].log, task[c].n), d, {})
        BY <3>1, ReplayedType, AnsweredReplay
      <3> HIDE DEF d, T
      <3> QED BY <2>7, <2>8, <3>2
    <2>9. ASSUME NEW s \in Seq(Msg), inq'[p] = inq[p] \o s,
                 \A m \in Elems(s) : m.t # "sync-ack" /\ m.n = 0
          PROVE  Answered(inq'[p], docNo'[p], T)
      <3>1. Answered(s, d, {})
        BY <2>9 DEF Answered, Elems
      <3> HIDE DEF d, T
      <3> QED BY <2>7, <2>9, <3>1
    <2> QED BY <2>4, <2>5, <2>6, <2>8, <2>9, InqStep
  <1> QED BY <1>2, <1>3

LEMMA AckStep ==
  ASSUME TypeOK, AckInv, [Next]_vars
  PROVE  AckInv'
  BY NumbersKnownStep, AcksAreLastStep DEF AckInv

(***************************************************************************)
(* isNodeSynced() tells the truth: when the sync-ack of the request made   *)
(* for the current Y.Doc is handled, all that the relay had mirrored when  *)
(* it answered is in that Y.Doc, for any number of Spaces, writes,         *)
(* compactions, releases, drops and restarts.                              *)
(***************************************************************************)
THEOREM SyncAckNeverEarly == Spec => SyncAckComplete
  <1> DEFINE Truth == \A p \in Peer :
               (ReceiveSyncAck(p) /\ attached[p] /\ Head(inq[p]).n = docNo[p])
                 => Head(inq[p]).env.upds \subseteq doc[p]
  <1>1. TypeOK /\ AckInv /\ [Next]_vars => (TypeOK /\ AckInv)'
    BY TypeStep, AckStep
  <1>2. TypeOK /\ AckInv => Truth
    <2> SUFFICES ASSUME TypeOK, AckInv, NEW p \in Peer, ReceiveSyncAck(p), attached[p],
                        Head(inq[p]).n = docNo[p]
                 PROVE  Head(inq[p]).env.upds \subseteq doc[p]
      OBVIOUS
    <2>1. /\ inq[p] \in Seq(Msg) /\ inq[p] # <<>> /\ Head(inq[p]).t = "sync-ack"
          /\ busy[p] = NotBusy
      BY DEF ReceiveSyncAck, Incoming, TypeOK
    <2>2. Answered(inq[p], docNo[p], Taken(p))
      BY DEF AckInv, AcksAreLast
    <2>3. Head(inq[p]).env.upds \subseteq Taken(p)
      BY <2>1, <2>2, AnsweredHead
    <2> QED BY <2>1, <2>3 DEF Taken, NotBusy
  <1>3. Init => TypeOK /\ AckInv
    BY TypeInit, AckInit
  <1>4. Spec => [][Truth]_vars
    BY <1>1, <1>2, <1>3, PTL DEF Spec
  <1> QED BY <1>4 DEF SyncAckComplete
=============================================================================
