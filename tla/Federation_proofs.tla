-------------------------- MODULE Federation_proofs --------------------------
(***************************************************************************)
(* Proofs about Federation, for any downstream relays, envelopes and       *)
(* restarts.                                                               *)
(***************************************************************************)
EXTENDS Federation, FiniteSetTheorems, SequenceTheorems, TLAPS

(* The upstream federates with nobody, a relay is not a user, and the      *)
(* request to subscribe is no envelope.                                    *)
Topology ==
  /\ Upstream \notin Downstream /\ User \notin Relay /\ Demand \notin Envelope
  /\ IsFiniteSet(Envelope) /\ Snapshot \subseteq Envelope /\ MaxRestarts \in Nat

-----------------------------------------------------------------------------
(* The inductive invariant. *)

Job == {NoTask, <<"replay", Demand>>} \cup ({"append", "forward"} \X written)

Types ==
  /\ written \subseteq Envelope /\ promised \subseteq written /\ crossed \subseteq written
  /\ log \in [Relay -> SUBSET written] /\ shown \in [Relay -> SUBSET written]
  /\ covers \in [Snapshot -> SUBSET written]
  /\ subs \in [Relay -> SUBSET ({User} \cup Downstream)]
  /\ \A r \in Relay : subs[r] \subseteq Conn(r)
  /\ DOMAIN task = Relay /\ \A r \in Relay : task[r] \in [Conn(r) -> Job]
  /\ ingesting \in [Downstream -> SUBSET ({"append", "forward"} \X written)]
  /\ up \in [Downstream -> Seq(written \cup {Demand})] /\ down \in [Downstream -> Seq(written)]
  /\ federated \in [Downstream -> BOOLEAN] /\ signing \subseteq Downstream
  /\ restarts \in 0..MaxRestarts

(* The mirror of r has write v: as itself or in a snapshot. *)
Has(r, v) == \E e \in log[r] : v \in Carried(e)

(* An envelope that a relay is still to mirror, or has yet to pass on. *)
Moving(e) ==
  \/ \E r \in Relay : \E c \in Conn(r) : task[r][c] \in {<<"append", e>>, <<"forward", e>>}
  \/ \E d \in Downstream :
       e \in Range(up[d]) \/ e \in Range(down[d]) \/ <<"append", e>> \in ingesting[d]

(* The snapshots on their way have all that they do not cross with. *)
CrossInv == \A s \in Snapshot : Moving(s) => written \ crossed \subseteq Carried(s)

(* A user has what it writes. *)
Writes(r, e) == task[r][User] \in {<<"append", e>>, <<"forward", e>>}
OwnIsShown == \A r \in Relay, e \in Envelope : Writes(r, e) => Carried(e) \subseteq shown[r]

(* What a relay sends up is in its own mirror. *)
SendsUp(d, e) ==
  \/ task[d][User] = <<"forward", e>> \/ e \in Range(up[d])
  \/ task[Upstream][d] \in {<<"append", e>>, <<"forward", e>>}
SentUpIsMirrored ==
  \A d \in Downstream, e \in Envelope :
    SendsUp(d, e) => \A v \in Carried(e) \ crossed : Has(d, v)

(* A relay that federates has asked the upstream, or is about to. *)
Asking(d) == d \in signing \/ Demand \in Range(up[d])
AsksOrFollows == \A d \in Downstream : federated[d] => Asking(d) \/ d \in subs[Upstream]

(* What the upstream mirrors is at d, or will be replayed or forwarded to it. *)
Awaits(d) == Asking(d) \/ task[Upstream][d] = <<"replay", Demand>>
Brings(d, e) ==
  \/ \E c \in Conn(Upstream) : c # d /\ task[Upstream][c] = <<"forward", e>>
  \/ e \in Range(down[d]) \/ <<"append", e>> \in ingesting[d]
ComesDown(d, v) == Awaits(d) \/ \E e \in Envelope : v \in Carried(e) /\ Brings(d, e)

DownInv ==
  \A d \in Downstream : federated[d] =>
    \A v : Has(Upstream, v) /\ v \notin crossed => Has(d, v) \/ ComesDown(d, v)

(* What a relay mirrors is with its user, or will be replayed or forwarded. *)
Due(r) == task[r][User] = <<"replay", Demand>>
Shows(r, e) ==
  \/ \E c \in Conn(r) : task[r][c] = <<"forward", e>>
  \/ r \in Downstream /\ <<"forward", e>> \in ingesting[r]
ComesOut(r, v) == Due(r) \/ \E e \in Envelope : v \in Carried(e) /\ Shows(r, e)

OutInv ==
  \A r \in Relay : User \in subs[r] =>
    \A v : Has(r, v) => v \in shown[r] \/ ComesOut(r, v)

(* What was promised is mirrored upstream or on its way there. *)
GoesUp(w) ==
  \E d \in Downstream :
    \/ federated[d] /\ task[d][User] = <<"forward", w>>
    \/ w \in Range(up[d]) \/ task[Upstream][d] = <<"append", w>>

UpInv == restarts = 0 => \A w \in promised \ crossed : Has(Upstream, w) \/ GoesUp(w)

IInv ==
  /\ Types /\ CrossInv /\ OwnIsShown /\ SentUpIsMirrored /\ AsksOrFollows
  /\ DownInv /\ OutInv /\ UpInv

-----------------------------------------------------------------------------
(* Relays, connections and queues. *)

LEMMA Shape ==
  ASSUME Topology
  PROVE  /\ Upstream \in Relay /\ \A r \in Relay : User \in Conn(r)
         /\ Conn(Upstream) = {User} \cup Downstream
         /\ \A d \in Downstream : d \in Relay /\ d # Upstream /\ d # User /\ Conn(d) = {User}
         /\ \A r \in Relay : r = Upstream \/ r \in Downstream
BY DEF Topology, Relay, Conn

LEMMA RangeOfTail ==
  ASSUME NEW S, NEW q \in Seq(S), q # <<>>
  PROVE  /\ Head(q) \in S /\ Tail(q) \in Seq(S)
         /\ Range(q) = {Head(q)} \cup Range(Tail(q))
  <1>1. /\ Len(q) \in Nat \ {0} /\ Tail(q) \in Seq(S) /\ Head(q) \in S
        /\ Len(Tail(q)) = Len(q) - 1 /\ Head(q) = q[1]
        /\ \A i \in 1..Len(Tail(q)) : Tail(q)[i] = q[i + 1]
    BY HeadTailProperties, EmptySeq, LenProperties
  <1>2. Range(q) = {q[i] : i \in 1..Len(q)}
    BY RangeEquality
  <1>3. Range(Tail(q)) = {Tail(q)[i] : i \in 1..Len(Tail(q))}
    BY <1>1, RangeEquality
  <1>4. ASSUME NEW i \in 1..Len(q) PROVE q[i] \in {Head(q)} \cup Range(Tail(q))
    <2>1. CASE i = 1
      BY <1>1, <2>1
    <2>2. CASE i # 1
      <3>1. i - 1 \in 1..Len(Tail(q)) /\ (i - 1) + 1 = i
        BY <1>1, <2>2
      <3>2. Tail(q)[i - 1] = q[i]
        BY <1>1, <3>1
      <3>3. QED
        BY <1>3, <3>1, <3>2
    <2>3. QED
      BY <2>1, <2>2
  <1>5. ASSUME NEW i \in 1..Len(Tail(q)) PROVE Tail(q)[i] \in Range(q)
    <2>1. i + 1 \in 1..Len(q)
      BY <1>1
    <2>2. QED
      BY <1>1, <1>2, <2>1
  <1>6. Head(q) \in Range(q)
    BY <1>1, <1>2
  <1>7. QED
    BY <1>1, <1>2, <1>3, <1>4, <1>5, <1>6

LEMMA RangeOfAppend ==
  ASSUME NEW S, NEW q \in Seq(S), NEW x \in S
  PROVE  Append(q, x) \in Seq(S) /\ Range(Append(q, x)) = Range(q) \cup {x}
  <1>1. <<x>> \in Seq(S) /\ Append(q, x) = q \o <<x>>
    BY AppendIsConcat
  <1>2. Len(<<x>>) = 1 /\ <<x>>[1] = x /\ DOMAIN <<x>> = 1..1
    OBVIOUS
  <1>3. Range(<<x>>) = {x}
    BY <1>2 DEF Range
  <1>4. Range(q \o <<x>>) = Range(q) \cup Range(<<x>>)
    BY <1>1, RangeConcatenation, ZenonT(60)
  <1>5. Append(q, x) \in Seq(S)
    OBVIOUS
  <1>6. QED
    BY <1>1, <1>3, <1>4, <1>5

(* A finite set makes a sequence of just its elements. *)
LEMMA SetToSeqRange ==
  ASSUME NEW S, IsFiniteSet(S)
  PROVE  SetToSeq(S) \in Seq(S) /\ Range(SetToSeq(S)) = S
  <1> DEFINE n == Cardinality(S)
             f == SetToSeq(S)
  <1>1. n \in Nat /\ ExistsBijection(1..n, S)
    BY FS_CardinalityType
  <1>2. \E g \in [1..n -> S] : IsInjective(g)
    BY <1>1 DEF ExistsBijection, Bijection, Injection
  <1>3. f \in [1..n -> S] /\ IsInjective(f)
    BY <1>2 DEF SetToSeq
  <1>4. IsFiniteSet(1..n) /\ Cardinality(1..n) = n
    BY <1>1, FS_Interval
  <1> HIDE DEF n, f
  <1>5. f \in Injection(1..n, S)
    BY <1>3 DEF Injection
  <1>6. Cardinality(1..n) = Cardinality(S)
    BY <1>4 DEF n
  <1>7. f \in Surjection(1..n, S)
    BY <1>5, <1>6, FS_Injection
  <1>8. Range(f) = S
    BY <1>3, <1>7 DEF Surjection, Range
  <1>9. f \in Seq(S)
    BY <1>1, <1>3
  <1>10. QED
    BY <1>8, <1>9 DEF f

-----------------------------------------------------------------------------
(* What envelopes carry, and what a snapshot leaves of a mirror. *)

LEMMA CarriedIsWritten ==
  ASSUME Types
  PROVE  /\ \A e \in written : e \in Carried(e) /\ Carried(e) \subseteq written
         /\ \A r \in Relay : \A v : Has(r, v) => v \in written
  <1>1. ASSUME NEW e \in written PROVE e \in Carried(e) /\ Carried(e) \subseteq written
    <2>1. CASE e \in Snapshot
      BY <2>1 DEF Carried, Types
    <2>2. CASE e \notin Snapshot
      BY <2>2 DEF Carried
    <2>3. QED
      BY <2>1, <2>2
  <1>2. \A r \in Relay : log[r] \subseteq written
    BY DEF Types
  <1>3. QED
    BY <1>1, <1>2 DEF Has

LEMMA HasIsContent ==
  ASSUME NEW r, NEW v
  PROVE  Has(r, v) <=> v \in Content(log[r])
BY DEF Has, Content

LEMMA MovingIsUnderWay ==
  ASSUME Types, NEW e
  PROVE  Moving(e) <=> UnderWay(e)
  <1>1. ASSUME NEW S, NEW q \in Seq(S) PROVE Contains(q, e) <=> e \in Range(q)
    <2>1. Range(q) = {q[i] : i \in 1..Len(q)}
      BY RangeEquality
    <2>2. QED
      BY <2>1 DEF Contains
  <1>2. \A d \in Downstream :
          /\ Contains(up[d], e) <=> e \in Range(up[d])
          /\ Contains(down[d], e) <=> e \in Range(down[d])
    <2>1. \A d \in Downstream : up[d] \in Seq(written \cup {Demand}) /\ down[d] \in Seq(written)
      BY DEF Types
    <2>2. QED
      BY <1>1, <2>1
  <1>3. QED
    BY <1>2 DEF Moving, UnderWay

(* Mirroring an envelope on its way loses only what crosses with it. *)
LEMMA MirroredHas ==
  ASSUME Types, CrossInv, UNCHANGED covers, NEW q \in Relay, NEW w \in written, Moving(w),
         log' = [log EXCEPT ![q] = Mirrored(@, w)]
  PROVE  /\ log' \in [Relay -> SUBSET written]
         /\ \A e : Carried(e)' = Carried(e)
         /\ \A v \in Carried(w) : Has(q, v)'
         /\ \A v : Has(q, v) /\ v \notin crossed => Has(q, v)'
         /\ \A v : Has(q, v)' => Has(q, v) \/ v \in Carried(w)
         /\ \A r \in Relay \ {q} : \A v : Has(r, v)' <=> Has(r, v)
  <1>1. /\ log \in [Relay -> SUBSET written]
        /\ Mirrored(log[q], w) \in SUBSET written /\ w \in Mirrored(log[q], w)
        /\ \A e \in Mirrored(log[q], w) : e = w \/ e \in log[q]
    BY DEF Types, Mirrored
  <1>2. /\ log' \in [Relay -> SUBSET written]
        /\ log'[q] = Mirrored(log[q], w) /\ \A r \in Relay \ {q} : log'[r] = log[r]
    BY <1>1
  <1>3. \A e : Carried(e)' = Carried(e)
    BY DEF Carried
  <1>4. \A r, v : Has(r, v)' <=> \E e \in log'[r] : v \in Carried(e)
    BY <1>3 DEF Has
  <1>5. \A v \in Carried(w) : Has(q, v)'
    BY <1>1, <1>2, <1>4
  <1>6. ASSUME NEW v, Has(q, v), v \notin crossed PROVE Has(q, v)'
    <2>1. CASE w \in Snapshot
      <3>1. v \in written \ crossed
        BY <1>6, CarriedIsWritten
      <3>2. v \in Carried(w)
        BY <2>1, <3>1 DEF CrossInv
      <3>3. QED
        BY <1>5, <3>2
    <2>2. CASE w \notin Snapshot
      <3>1. log[q] \subseteq log'[q]
        BY <1>2, <2>2 DEF Mirrored
      <3>2. QED
        BY <1>4, <1>6, <3>1 DEF Has
    <2>3. QED
      BY <2>1, <2>2
  <1>7. \A v : Has(q, v)' => Has(q, v) \/ v \in Carried(w)
    BY <1>1, <1>2, <1>4 DEF Has
  <1>8. \A r \in Relay \ {q} : \A v : Has(r, v)' <=> Has(r, v)
    BY <1>2, <1>4 DEF Has
  <1>9. QED
    BY <1>2, <1>3, <1>5, <1>6, <1>7, <1>8

LEMMA SameContent ==
  ASSUME UNCHANGED <<log, covers>>
  PROVE  /\ \A e : Carried(e)' = Carried(e)
         /\ \A r, v : Has(r, v)' <=> Has(r, v)
  <1>1. \A e : Carried(e)' = Carried(e)
    BY DEF Carried
  <1>2. \A r, v : Has(r, v)' <=> \E e \in log[r] : v \in Carried(e)
    BY <1>1 DEF Has
  <1>3. QED
    BY <1>1, <1>2 DEF Has

-----------------------------------------------------------------------------
(* What the helpers of the actions do, point by point. *)

LEMMA GotoAt ==
  ASSUME Types, NEW r \in Relay, NEW c \in Conn(r), NEW t, Goto(r, c, t)
  PROVE  /\ DOMAIN task' = Relay
         /\ \A q \in Relay : \A x \in Conn(q) :
              task'[q][x] = IF q = r /\ x = c THEN t ELSE task[q][x]
         /\ \A J : Job \subseteq J /\ t \in J => \A q \in Relay : task'[q] \in [Conn(q) -> J]
  <1>1. task' = [task EXCEPT ![r] = [task[r] EXCEPT ![c] = t]]
    BY DEF Goto
  <1>2. DOMAIN task = Relay /\ \A q \in Relay : task[q] \in [Conn(q) -> Job]
    BY DEF Types
  <1>3. /\ DOMAIN task' = Relay
        /\ \A q \in Relay : task'[q] = IF q = r THEN [task[r] EXCEPT ![c] = t] ELSE task[q]
    BY <1>1, <1>2
  <1>4. \A q \in Relay : \A x \in Conn(q) :
          task'[q][x] = IF q = r /\ x = c THEN t ELSE task[q][x]
    BY <1>2, <1>3
  <1>5. ASSUME NEW J, Job \subseteq J, t \in J, NEW q \in Relay
        PROVE  task'[q] \in [Conn(q) -> J]
    <2>1. task[q] \in [Conn(q) -> J]
      BY <1>2, <1>5
    <2>2. CASE q = r
      BY <1>3, <1>5, <2>1, <2>2
    <2>3. CASE q # r
      BY <1>3, <2>1, <2>3
    <2>4. QED
      BY <2>2, <2>3
  <1>6. QED
    BY <1>3, <1>4, <1>5

LEMMA DeliveredAt ==
  ASSUME Topology, Types, NEW r \in Relay, NEW cs, NEW ws \in SUBSET written,
         Delivered(r, cs, ws)
  PROVE  /\ shown' \in [Relay -> SUBSET written] /\ down' \in [Downstream -> Seq(written)]
         /\ \A q \in Relay :
              shown'[q] = IF q = r /\ User \in cs THEN shown[q] \cup Content(ws) ELSE shown[q]
         /\ \A d \in Downstream : Range(down'[d]) =
              IF r = Upstream /\ d \in cs THEN Range(down[d]) \cup ws ELSE Range(down[d])
  <1>1. /\ shown' = IF User \in cs THEN [shown EXCEPT ![r] = @ \cup Content(ws)] ELSE shown
        /\ down' = [d \in Downstream |->
                      IF r = Upstream /\ d \in cs THEN down[d] \o SetToSeq(ws) ELSE down[d]]
    BY DEF Delivered
  <1>2. /\ shown \in [Relay -> SUBSET written] /\ down \in [Downstream -> Seq(written)]
        /\ IsFiniteSet(ws)
    BY FS_Subset DEF Types, Topology
  <1>3. SetToSeq(ws) \in Seq(written) /\ Range(SetToSeq(ws)) = ws
    <2>1. SetToSeq(ws) \in Seq(ws) /\ Range(SetToSeq(ws)) = ws
      BY <1>2, SetToSeqRange
    <2>2. QED
      BY <2>1, SeqMonotonic
  <1>4. \A d \in Downstream :
          /\ down[d] \o SetToSeq(ws) \in Seq(written)
          /\ Range(down[d] \o SetToSeq(ws)) = Range(down[d]) \cup ws
    BY <1>2, <1>3, ConcatProperties, RangeConcatenation
  <1>5. Content(ws) \subseteq written
    BY CarriedIsWritten DEF Content
  <1>6. /\ shown' \in [Relay -> SUBSET written]
        /\ \A q \in Relay :
             shown'[q] = IF q = r /\ User \in cs THEN shown[q] \cup Content(ws) ELSE shown[q]
    BY <1>1, <1>2, <1>5
  <1>7. down' \in [Downstream -> Seq(written)]
    BY <1>1, <1>2, <1>4
  <1>8. \A d \in Downstream : Range(down'[d]) =
          IF r = Upstream /\ d \in cs THEN Range(down[d]) \cup ws ELSE Range(down[d])
    BY <1>1, <1>4
  <1>9. QED
    BY <1>6, <1>7, <1>8

-----------------------------------------------------------------------------
(* How the parts of the invariant are kept. *)

LEMMA CrossKept ==
  ASSUME CrossInv, written' = written, crossed \subseteq crossed',
         \A s \in Snapshot : Moving(s)' => \/ Moving(s) /\ Carried(s)' = Carried(s)
                                          \/ written \ crossed' \subseteq Carried(s)'
  PROVE  CrossInv'
BY DEF CrossInv

LEMMA OwnKept ==
  ASSUME OwnIsShown,
         \A r \in Relay : shown[r] \subseteq shown'[r],
         \A r \in Relay, e \in Envelope :
           Writes(r, e)' => \/ Writes(r, e) /\ Carried(e)' = Carried(e)
                           \/ Carried(e)' \subseteq shown'[r]
  PROVE  OwnIsShown'
BY DEF OwnIsShown

LEMMA SentKept ==
  ASSUME SentUpIsMirrored, crossed \subseteq crossed',
         \A d \in Downstream : \A v : Has(d, v) /\ v \notin crossed' => Has(d, v)',
         \A d \in Downstream, e \in Envelope :
           SendsUp(d, e)' => \/ SendsUp(d, e) /\ Carried(e)' = Carried(e)
                            \/ \A v \in Carried(e)' : Has(d, v) \/ Has(d, v)'
  PROVE  SentUpIsMirrored'
  <1>1. SUFFICES ASSUME NEW d \in Downstream, NEW e \in Envelope, SendsUp(d, e)',
                        NEW v, v \in Carried(e)', v \notin crossed'
                 PROVE  Has(d, v)'
    BY DEF SentUpIsMirrored
  <1>2. CASE SendsUp(d, e) /\ Carried(e)' = Carried(e)
    <2>1. v \in Carried(e) \ crossed
      BY <1>1, <1>2
    <2>2. Has(d, v)
      BY <1>2, <2>1 DEF SentUpIsMirrored
    <2>3. QED
      BY <1>1, <2>2
  <1>3. CASE \A x \in Carried(e)' : Has(d, x) \/ Has(d, x)'
    BY <1>1, <1>3
  <1>4. QED
    BY <1>1, <1>2, <1>3

LEMMA DownKept ==
  ASSUME DownInv, crossed \subseteq crossed',
         \A d \in Downstream : federated'[d] => federated[d] \/ Awaits(d)',
         \A d \in Downstream : federated'[d] /\ Awaits(d) =>
           Awaits(d)' \/ \A v : Has(Upstream, v)' => Has(d, v)' \/ ComesDown(d, v)',
         \A d \in Downstream, e \in Envelope : federated[d] /\ federated'[d] /\ Brings(d, e) =>
           \/ Awaits(d)' \/ (Carried(e)' = Carried(e) /\ Brings(d, e)')
           \/ \A v \in Carried(e) : Has(d, v)',
         \A d \in Downstream : \A v : Has(d, v) /\ v \notin crossed' => Has(d, v)',
         \A d \in Downstream : \A v : Has(Upstream, v)' /\ v \notin crossed' =>
           Has(Upstream, v) \/ Has(d, v)' \/ ComesDown(d, v)'
  PROVE  DownInv'
  <1>1. SUFFICES ASSUME NEW d \in Downstream, federated'[d],
                        NEW v, Has(Upstream, v)', v \notin crossed',
                        ~ Has(d, v)', ~ Awaits(d)'
                 PROVE  ComesDown(d, v)'
    BY DEF DownInv, ComesDown
  <1>2. federated[d] /\ v \notin crossed /\ ~ Has(d, v)
    BY <1>1
  <1>3. CASE Has(Upstream, v)
    <2>1. Has(d, v) \/ ComesDown(d, v)
      BY <1>2, <1>3 DEF DownInv
    <2>2. CASE Awaits(d)
      BY <1>1, <2>2
    <2>3. CASE \E e \in Envelope : v \in Carried(e) /\ Brings(d, e)
      <3>1. PICK e \in Envelope : v \in Carried(e) /\ Brings(d, e)
        BY <2>3
      <3>2. Carried(e)' = Carried(e) /\ Brings(d, e)'
        BY <1>1, <1>2, <3>1
      <3>3. QED
        BY <3>1, <3>2 DEF ComesDown
    <2>4. QED
      BY <1>2, <2>1, <2>2, <2>3 DEF ComesDown
  <1>4. QED
    BY <1>1, <1>3

LEMMA OutKept ==
  ASSUME OutInv,
         \A r \in Relay : shown[r] \subseteq shown'[r],
         \A r \in Relay : User \in subs'[r] => User \in subs[r] \/ Due(r)',
         \A r \in Relay : User \in subs'[r] /\ Due(r) =>
           Due(r)' \/ \A v : Has(r, v)' => v \in shown'[r],
         \A r \in Relay, e \in Envelope : User \in subs[r] /\ User \in subs'[r] /\ Shows(r, e) =>
           (Carried(e)' = Carried(e) /\ Shows(r, e)') \/ Carried(e) \subseteq shown'[r],
         \A r \in Relay : \A v : Has(r, v)' => Has(r, v) \/ ComesOut(r, v)'
  PROVE  OutInv'
  <1>1. SUFFICES ASSUME NEW r \in Relay, User \in subs'[r], NEW v, Has(r, v)',
                        v \notin shown'[r], ~ Due(r)'
                 PROVE  ComesOut(r, v)'
    BY DEF OutInv, ComesOut
  <1>2. User \in subs[r] /\ v \notin shown[r]
    BY <1>1
  <1>3. CASE Has(r, v)
    <2>1. ComesOut(r, v)
      BY <1>2, <1>3 DEF OutInv
    <2>2. CASE Due(r)
      BY <1>1, <2>2
    <2>3. CASE \E e \in Envelope : v \in Carried(e) /\ Shows(r, e)
      <3>1. PICK e \in Envelope : v \in Carried(e) /\ Shows(r, e)
        BY <2>3
      <3>2. Carried(e)' = Carried(e) /\ Shows(r, e)'
        BY <1>1, <1>2, <3>1
      <3>3. QED
        BY <3>1, <3>2 DEF ComesOut
    <2>4. QED
      BY <2>1, <2>2, <2>3 DEF ComesOut
  <1>4. QED
    BY <1>1, <1>3

LEMMA UpKept ==
  ASSUME UpInv, crossed \subseteq crossed', restarts' = restarts,
         \A v \in promised' : v \in promised \/ GoesUp(v)',
         \A v \in promised : GoesUp(v) => GoesUp(v)' \/ Has(Upstream, v)',
         \A v : Has(Upstream, v) /\ v \notin crossed' => Has(Upstream, v)'
  PROVE  UpInv'
BY DEF UpInv

-----------------------------------------------------------------------------
(* The inductive invariant holds initially, and each action keeps it. *)

LEMMA InvInit ==
  ASSUME Topology
  PROVE  Init => IInv
  <1>1. SUFFICES ASSUME Init PROVE IInv
    OBVIOUS
  <1>2. \A S : <<>> \in Seq(S)
    BY EmptySeq
  <1>3. Range(<<>>) = {}
    BY DEF Range
  <1>4. Types
    <2>1. /\ DOMAIN task = Relay /\ \A r \in Relay : task[r] \in [Conn(r) -> Job]
      BY <1>1 DEF Init, Job
    <2>2. /\ written = {} /\ promised = {} /\ crossed = {} /\ restarts \in 0..MaxRestarts
          /\ signing = {}
          /\ log \in [Relay -> SUBSET written] /\ shown \in [Relay -> SUBSET written]
          /\ covers \in [Snapshot -> SUBSET written]
          /\ subs \in [Relay -> SUBSET ({User} \cup Downstream)]
          /\ federated \in [Downstream -> BOOLEAN]
          /\ \A r \in Relay : subs[r] = {}
      BY <1>1 DEF Init, Topology
    <2>3. /\ ingesting \in [Downstream -> SUBSET ({"append", "forward"} \X written)]
          /\ up \in [Downstream -> Seq(written \cup {Demand})]
          /\ down \in [Downstream -> Seq(written)]
      BY <1>1, <1>2 DEF Init
    <2>4. QED
      BY <2>1, <2>2, <2>3 DEF Types
  <1>5. /\ \A r \in Relay : log[r] = {} /\ subs[r] = {}
        /\ \A r \in Relay : \A c \in Conn(r) : task[r][c] = NoTask
        /\ \A d \in Downstream : /\ Range(up[d]) = {} /\ Range(down[d]) = {}
                                 /\ ingesting[d] = {} /\ federated[d] = FALSE
        /\ promised = {}
    BY <1>1, <1>3 DEF Init
  <1>6. CrossInv
    BY <1>5 DEF CrossInv, Moving, NoTask
  <1>7. OwnIsShown
    BY <1>5, Shape DEF OwnIsShown, Writes, NoTask
  <1>8. SentUpIsMirrored
    BY <1>5, Shape DEF SentUpIsMirrored, SendsUp, NoTask
  <1>9. AsksOrFollows /\ DownInv /\ OutInv /\ UpInv
    BY <1>5 DEF AsksOrFollows, DownInv, OutInv, UpInv
  <1>10. QED
    BY <1>4, <1>6, <1>7, <1>8, <1>9 DEF IInv

LEMMA UserWritesKeeps ==
  ASSUME Topology, IInv, NEW r \in Relay, NEW w \in Envelope, UserWrites(r, w)
  PROVE  IInv'
  <1>1. /\ Types /\ CrossInv /\ OwnIsShown /\ SentUpIsMirrored /\ AsksOrFollows
        /\ DownInv /\ OutInv /\ UpInv
    BY DEF IInv
  <1>2. /\ task[r][User] = NoTask /\ w \notin written /\ written' = written \cup {w}
        /\ shown' = [shown EXCEPT ![r] = @ \cup {w}]
        /\ Goto(r, User, <<"append", w>>) /\ User \in Conn(r)
        /\ UNCHANGED <<log, subs, ingesting, federated, signing, up, down, promised, restarts>>
    BY Shape DEF UserWrites, linkVars
  <1>3. /\ covers' = [s \in Snapshot |-> IF s = w THEN shown[r] ELSE covers[s]]
        /\ crossed' = crossed
             \cup (IF w \in Snapshot THEN written \ shown[r] ELSE {})
             \cup (IF \E s \in Snapshot : UnderWay(s) THEN {w} ELSE {})
    BY DEF UserWrites
  <1>4. /\ DOMAIN task' = Relay
        /\ \A q \in Relay : \A x \in Conn(q) :
             task'[q][x] = IF q = r /\ x = User THEN <<"append", w>> ELSE task[q][x]
        /\ \A q \in Relay : task'[q] \in [Conn(q) -> Job']
    <2>1. Job \subseteq Job' /\ <<"append", w>> \in Job'
      BY <1>2 DEF Job
    <2>2. QED
      BY <1>1, <1>2, <2>1, GotoAt
  <1>5. /\ written \subseteq written' /\ written' \subseteq Envelope
        /\ crossed \subseteq crossed' /\ crossed' \subseteq written'
    BY <1>1, <1>2, <1>3 DEF Types
  <1>6. Types'
    <2>1. Seq(written \cup {Demand}) \subseteq Seq(written' \cup {Demand})
      BY <1>5, SeqMonotonic
    <2>2. Seq(written) \subseteq Seq(written')
      BY <1>5, SeqMonotonic
    <2>3. up' \in [Downstream -> Seq(written' \cup {Demand})] /\ down' \in [Downstream -> Seq(written')]
      BY <1>1, <1>2, <2>1, <2>2 DEF Types
    <2>4. log' \in [Relay -> SUBSET written'] /\ shown' \in [Relay -> SUBSET written']
      BY <1>1, <1>2, <1>5 DEF Types
    <2>5. covers' \in [Snapshot -> SUBSET written']
      BY <1>1, <1>3, <1>5 DEF Types
    <2>6. ingesting' \in [Downstream -> SUBSET ({"append", "forward"} \X written')]
      BY <1>1, <1>2, <1>5 DEF Types
    <2>7. QED
      BY <1>1, <1>2, <1>4, <1>5, <2>3, <2>4, <2>5, <2>6 DEF Types
  <1>7. \A q \in Relay : shown'[q] = IF q = r THEN shown[q] \cup {w} ELSE shown[q]
    BY <1>1, <1>2 DEF Types
  (* What was written carries what it did; the new envelope is nowhere yet. *)
  <1>8. /\ \A e \in written : Carried(e)' = Carried(e)
        /\ Carried(w)' \subseteq {w} \cup shown[r]
        /\ w \in Snapshot => Carried(w)' = {w} \cup shown[r]
    <2>1. \A e \in Snapshot : covers'[e] = IF e = w THEN shown[r] ELSE covers[e]
      BY <1>3
    <2>2. QED
      BY <1>2, <2>1 DEF Carried
  <1>9. \A q \in Relay : \A v : Has(q, v)' <=> Has(q, v)
    <2>1. \A q \in Relay : log[q] \subseteq written /\ log'[q] = log[q]
      BY <1>1, <1>2 DEF Types
    <2>2. QED
      BY <1>8, <2>1 DEF Has
  <1>10. \A q \in Relay : \A x \in Conn(q) : task[q][x] \in Job
    BY <1>1 DEF Types
  <1>11. \A e \in Envelope :
           /\ \A q \in Relay : Writes(q, e) \/ Shows(q, e) => e \in written
           /\ \A d \in Downstream : SendsUp(d, e) \/ Brings(d, e) => e \in written
           /\ Moving(e) => e \in written
    <2>1. \A q \in Relay : \A x \in Conn(q), e \in Envelope :
            task[q][x] \in {<<"append", e>>, <<"forward", e>>} => e \in written
      BY <1>10 DEF Job, NoTask
    <2>2. \A d \in Downstream : Range(up[d]) \subseteq written \cup {Demand}
                                /\ Range(down[d]) \subseteq written
      <3>1. \A d \in Downstream : up[d] \in Seq(written \cup {Demand}) /\ down[d] \in Seq(written)
        BY <1>1 DEF Types
      <3>2. QED
        BY <3>1, RangeEquality
    <2>3. \A d \in Downstream : ingesting[d] \subseteq {"append", "forward"} \X written
      BY <1>1 DEF Types
    <2>4. \A q \in Relay, e \in Envelope : Writes(q, e) \/ Shows(q, e) => e \in written
      BY <2>1, <2>3, Shape DEF Writes, Shows
    <2>5. \A d \in Downstream, e \in Envelope : SendsUp(d, e) \/ Brings(d, e) => e \in written
      BY <2>1, <2>2, <2>3, Shape DEF SendsUp, Brings, Topology
    <2>6. \A e \in Envelope : Moving(e) => e \in written
      BY <2>1, <2>2, <2>3 DEF Moving, Topology
    <2>7. QED
      BY <2>4, <2>5, <2>6
  <1>12. CrossInv'
    <2>1. SUFFICES ASSUME NEW s \in Snapshot, Moving(s)', NEW v \in written' \ crossed'
                   PROVE  v \in Carried(s)'
      BY DEF CrossInv
    <2>2. CASE s = w
      BY <1>2, <1>3, <1>8, <2>1, <2>2
    <2>3. CASE s # w
      <3>1. Moving(s)
        BY <1>2, <1>4, <2>1, <2>3 DEF Moving
      <3>2. v \in written \ crossed
        BY <1>1, <1>2, <1>3, <2>1, <3>1, MovingIsUnderWay
      <3>3. s \in written
        BY <1>11, <3>1 DEF Topology
      <3>4. QED
        BY <1>1, <1>8, <3>1, <3>2, <3>3 DEF CrossInv
    <2>4. QED
      BY <2>2, <2>3
  <1>13. OwnIsShown'
    <2>1. ASSUME NEW q \in Relay, NEW e \in Envelope, Writes(q, e)'
          PROVE  (Writes(q, e) /\ Carried(e)' = Carried(e)) \/ Carried(e)' \subseteq shown'[q]
      <3>1. CASE q = r
        <4>1. task'[q][User] = <<"append", w>>
          BY <1>2, <1>4, <3>1
        <4>2. e = w
          BY <2>1, <4>1 DEF Writes
        <4>3. QED
          BY <1>7, <1>8, <3>1, <4>2
      <3>2. CASE q # r
        <4>1. Writes(q, e)
          BY <1>4, <2>1, <3>2, Shape DEF Writes
        <4>2. QED
          BY <1>8, <1>11, <4>1
      <3>3. QED
        BY <3>1, <3>2
    <2>2. \A q \in Relay : shown[q] \subseteq shown'[q]
      BY <1>7
    <2>3. QED
      BY <1>1, <2>1, <2>2, OwnKept
  <1>14. SentUpIsMirrored'
    <2>1. \A d \in Downstream, e \in Envelope : SendsUp(d, e)' => SendsUp(d, e)
      BY <1>2, <1>4, Shape DEF SendsUp
    <2>2. \A d \in Downstream, e \in Envelope :
            SendsUp(d, e)' => SendsUp(d, e) /\ Carried(e)' = Carried(e)
      BY <1>8, <1>11, <2>1
    <2>3. QED
      BY <1>1, <1>5, <1>9, <2>2, Shape, SentKept
  <1>15. AsksOrFollows'
    BY <1>1, <1>2 DEF AsksOrFollows, Asking
  <1>16. DownInv'
    <2>1. \A d \in Downstream : Awaits(d) => Awaits(d)'
      BY <1>2, <1>4, Shape DEF Awaits, Asking
    <2>2. \A d \in Downstream, e \in Envelope : Brings(d, e) => Brings(d, e)'
      BY <1>2, <1>4, Shape DEF Brings, NoTask
    <2>3. \A d \in Downstream, e \in Envelope :
            Brings(d, e) => Carried(e)' = Carried(e) /\ Brings(d, e)'
      BY <1>8, <1>11, <2>2
    <2>4. QED
      BY <1>1, <1>2, <1>5, <1>9, <2>1, <2>3, Shape, DownKept
  <1>17. OutInv'
    <2>1. \A q \in Relay : shown[q] \subseteq shown'[q] /\ (Due(q) => Due(q)')
      BY <1>2, <1>4, <1>7, Shape DEF Due, NoTask
    <2>2. \A q \in Relay, e \in Envelope : Shows(q, e) => Shows(q, e)'
      BY <1>2, <1>4, Shape DEF Shows, NoTask
    <2>3. \A q \in Relay, e \in Envelope :
            Shows(q, e) => Carried(e)' = Carried(e) /\ Shows(q, e)'
      BY <1>8, <1>11, <2>2
    <2>4. QED
      BY <1>1, <1>2, <1>9, <2>1, <2>3, OutKept
  <1>18. UpInv'
    <2>1. \A v : GoesUp(v) => GoesUp(v)'
      BY <1>2, <1>4, Shape DEF GoesUp, NoTask
    <2>2. QED
      BY <1>1, <1>2, <1>5, <1>9, <2>1, Shape, UpKept
  <1>19. QED
    BY <1>6, <1>12, <1>13, <1>14, <1>15, <1>16, <1>17, <1>18 DEF IInv

LEMMA UserSubscribesKeeps ==
  ASSUME Topology, IInv, NEW r \in Relay, UserSubscribes(r)
  PROVE  IInv'
  <1>1. /\ Types /\ CrossInv /\ OwnIsShown /\ SentUpIsMirrored /\ AsksOrFollows
        /\ DownInv /\ OutInv /\ UpInv
    BY DEF IInv
  <1>2. /\ task[r][User] = NoTask /\ subs' = [subs EXCEPT ![r] = @ \cup {User}]
        /\ Goto(r, User, <<"replay", Demand>>) /\ User \in Conn(r)
        /\ federated' = [d \in Downstream |-> federated[d] \/ d = r]
        /\ signing' = signing \cup {d \in Downstream : d = r /\ ~federated[d]}
        /\ UNCHANGED <<log, covers, ingesting, up, down, written, shown, promised, crossed, restarts>>
    BY Shape DEF UserSubscribes, Registered
  <1>3. /\ DOMAIN task' = Relay
        /\ \A q \in Relay : \A x \in Conn(q) :
             task'[q][x] = IF q = r /\ x = User THEN <<"replay", Demand>> ELSE task[q][x]
        /\ \A q \in Relay : task'[q] \in [Conn(q) -> Job]
    <2>1. <<"replay", Demand>> \in Job
      BY DEF Job
    <2>2. QED
      BY <1>1, <1>2, <2>1, GotoAt
  <1>4. /\ \A q \in Relay : subs'[q] = IF q = r THEN subs[q] \cup {User} ELSE subs[q]
        /\ \A d \in Downstream : federated'[d] => federated[d] \/ d \in signing'
        /\ \A d \in Downstream : federated[d] => federated'[d]
        /\ signing \subseteq signing'
    BY <1>1, <1>2 DEF Types
  <1>5. Types'
    <2>1. federated' \in [Downstream -> BOOLEAN] /\ signing' \subseteq Downstream
      BY <1>1, <1>2 DEF Types
    <2>2. /\ subs' \in [Relay -> SUBSET ({User} \cup Downstream)]
          /\ \A q \in Relay : subs'[q] \subseteq Conn(q)
      BY <1>1, <1>2, <1>4 DEF Types
    <2>3. Job' = Job
      BY <1>2 DEF Job
    <2>4. QED
      BY <1>1, <1>2, <1>3, <2>1, <2>2, <2>3 DEF Types
  <1>6. (\A e : Carried(e)' = Carried(e)) /\ (\A q, v : Has(q, v)' <=> Has(q, v))
    BY <1>2, SameContent
  <1>7. CrossInv'
    <2>1. \A s \in Snapshot : Moving(s)' => Moving(s)
      BY <1>2, <1>3 DEF Moving
    <2>2. QED
      BY <1>1, <1>2, <1>6, <2>1, CrossKept
  <1>8. OwnIsShown'
    <2>1. \A q \in Relay, e \in Envelope : Writes(q, e)' => Writes(q, e)
      BY <1>3, Shape DEF Writes
    <2>2. QED
      BY <1>1, <1>2, <1>6, <2>1, OwnKept
  <1>9. SentUpIsMirrored'
    <2>1. \A d \in Downstream, e \in Envelope : SendsUp(d, e)' => SendsUp(d, e)
      BY <1>2, <1>3, Shape DEF SendsUp
    <2>2. QED
      BY <1>1, <1>2, <1>6, <2>1, SentKept
  <1>10. AsksOrFollows'
    BY <1>1, <1>2, <1>4, Shape DEF AsksOrFollows, Asking
  <1>11. DownInv'
    <2>1. \A d \in Downstream : /\ Awaits(d) => Awaits(d)'
                                /\ federated'[d] => federated[d] \/ Awaits(d)'
      BY <1>2, <1>3, <1>4, Shape DEF Awaits, Asking
    <2>2. \A d \in Downstream, e \in Envelope : Brings(d, e) => Brings(d, e)'
      BY <1>2, <1>3, Shape DEF Brings, NoTask
    <2>3. QED
      BY <1>1, <1>2, <1>6, <2>1, <2>2, DownKept
  <1>12. OutInv'
    <2>1. \A q \in Relay : /\ shown[q] \subseteq shown'[q]
                           /\ Due(q) => Due(q)'
                           /\ User \in subs'[q] => User \in subs[q] \/ Due(q)'
      BY <1>2, <1>3, <1>4, Shape DEF Due
    <2>2. \A q \in Relay, e \in Envelope : Shows(q, e) => Shows(q, e)'
      BY <1>2, <1>3, Shape DEF Shows, NoTask
    <2>3. QED
      BY <1>1, <1>6, <2>1, <2>2, OutKept
  <1>13. UpInv'
    <2>1. \A v : GoesUp(v) => GoesUp(v)'
      BY <1>2, <1>3, <1>4, Shape DEF GoesUp, NoTask
    <2>2. QED
      BY <1>1, <1>2, <1>6, <2>1, UpKept
  <1>14. QED
    BY <1>5, <1>7, <1>8, <1>9, <1>10, <1>11, <1>12, <1>13 DEF IInv

LEMMA AskUpstreamKeeps ==
  ASSUME Topology, IInv, NEW r \in Downstream, AskUpstream(r)
  PROVE  IInv'
  <1>1. /\ Types /\ CrossInv /\ OwnIsShown /\ SentUpIsMirrored /\ AsksOrFollows
        /\ DownInv /\ OutInv /\ UpInv
    BY DEF IInv
  <1>2. /\ r \in signing /\ signing' = signing \ {r} /\ up' = [up EXCEPT ![r] = Append(@, Demand)]
        /\ UNCHANGED <<log, covers, subs, task, ingesting, federated, down, written, shown,
                       promised, crossed, restarts>>
    BY DEF AskUpstream
  <1>3. /\ Append(up[r], Demand) \in Seq(written \cup {Demand})
        /\ Range(Append(up[r], Demand)) = Range(up[r]) \cup {Demand}
    <2>1. up[r] \in Seq(written \cup {Demand})
      BY <1>1 DEF Types
    <2>2. QED
      BY <2>1, RangeOfAppend
  <1>4. \A d \in Downstream :
          Range(up'[d]) = IF d = r THEN Range(up[d]) \cup {Demand} ELSE Range(up[d])
    BY <1>1, <1>2, <1>3 DEF Types
  <1>5. Types'
    <2>1. up' \in [Downstream -> Seq(written \cup {Demand})] /\ Job' = Job
      BY <1>1, <1>2, <1>3 DEF Types, Job
    <2>2. QED
      BY <1>1, <1>2, <2>1 DEF Types
  <1>6. (\A e : Carried(e)' = Carried(e)) /\ (\A q, v : Has(q, v)' <=> Has(q, v))
    BY <1>2, SameContent
  <1>7. \A d \in Downstream, v \in Envelope : v \in Range(up'[d]) <=> v \in Range(up[d])
    BY <1>4 DEF Topology
  <1>8. CrossInv'
    <2>1. \A s \in Snapshot : Moving(s)' => Moving(s)
      BY <1>2, <1>7 DEF Moving, Topology
    <2>2. QED
      BY <1>1, <1>2, <1>6, <2>1, CrossKept
  <1>9. OwnIsShown'
    BY <1>1, <1>2, <1>6 DEF OwnIsShown, Writes
  <1>10. SentUpIsMirrored'
    <2>1. \A d \in Downstream, e \in Envelope : SendsUp(d, e)' => SendsUp(d, e)
      BY <1>2, <1>7 DEF SendsUp
    <2>2. QED
      BY <1>1, <1>2, <1>6, <2>1, SentKept
  <1>11. \A d \in Downstream : Asking(d) => Asking(d)'
    <2>1. signing' = signing \ {r}
      BY <1>2
    <2>2. QED
      BY <1>4, <2>1 DEF Asking
  <1>12. AsksOrFollows'
    BY <1>1, <1>2, <1>11 DEF AsksOrFollows
  <1>13. DownInv'
    <2>1. \A d \in Downstream : Awaits(d) => Awaits(d)'
      BY <1>2, <1>11 DEF Awaits
    <2>2. \A d \in Downstream, e \in Envelope : Brings(d, e) => Brings(d, e)'
      BY <1>2 DEF Brings
    <2>3. QED
      BY <1>1, <1>2, <1>6, <2>1, <2>2, DownKept
  <1>14. OutInv'
    <2>1. /\ \A q \in Relay : Due(q) => Due(q)'
          /\ \A q \in Relay, e \in Envelope : Shows(q, e) => Shows(q, e)'
      BY <1>2 DEF Due, Shows
    <2>2. QED
      BY <1>1, <1>2, <1>6, <2>1, OutKept
  <1>15. UpInv'
    <2>1. \A v \in promised : GoesUp(v) => GoesUp(v)'
      BY <1>1, <1>2, <1>7 DEF GoesUp, Types
    <2>2. QED
      BY <1>1, <1>2, <1>6, <2>1, UpKept
  <1>16. QED
    BY <1>5, <1>8, <1>9, <1>10, <1>12, <1>13, <1>14, <1>15 DEF IInv

LEMMA MirrorKeeps ==
  ASSUME Topology, IInv, NEW r \in Relay, NEW c \in Conn(r), NEW w \in Envelope, Mirror(r, c, w)
  PROVE  IInv'
  <1>1. /\ Types /\ CrossInv /\ OwnIsShown /\ SentUpIsMirrored /\ AsksOrFollows
        /\ DownInv /\ OutInv /\ UpInv
    BY DEF IInv
  <1>2. /\ task[r][c] = <<"append", w>> /\ Goto(r, c, <<"forward", w>>)
        /\ UNCHANGED <<covers, subs, ingesting, federated, signing, up, down, written, shown,
                       crossed, restarts>>
    BY DEF Mirror, linkVars
  <1>3. /\ log' = [log EXCEPT ![r] = Mirrored(@, w)]
        /\ promised' = IF r \in Downstream /\ federated[r] THEN promised \cup {w} ELSE promised
    BY DEF Mirror
  <1>4. w \in written
    <2>1. task[r] \in [Conn(r) -> Job]
      BY <1>1 DEF Types
    <2>2. <<"append", w>> \in Job
      BY <1>2, <2>1
    <2>3. QED
      BY <2>2 DEF Job, NoTask
  <1>5. /\ DOMAIN task' = Relay
        /\ \A q \in Relay : \A x \in Conn(q) :
             task'[q][x] = IF q = r /\ x = c THEN <<"forward", w>> ELSE task[q][x]
        /\ \A q \in Relay : task'[q] \in [Conn(q) -> Job]
    <2>1. <<"forward", w>> \in Job
      BY <1>4 DEF Job
    <2>2. QED
      BY <1>1, <1>2, <2>1, GotoAt
  <1>6. /\ log' \in [Relay -> SUBSET written]
        /\ \A e : Carried(e)' = Carried(e)
        /\ \A v \in Carried(w) : Has(r, v)'
        /\ \A v : Has(r, v) /\ v \notin crossed => Has(r, v)'
        /\ \A v : Has(r, v)' => Has(r, v) \/ v \in Carried(w)
        /\ \A q \in Relay \ {r} : \A v : Has(q, v)' <=> Has(q, v)
    <2>1. Moving(w)
      BY <1>2 DEF Moving
    <2>2. UNCHANGED covers
      BY <1>2
    <2>3. QED
      BY <1>1, <1>3, <1>4, <2>1, <2>2, MirroredHas
  <1>7. Types'
    <2>1. promised' \subseteq written
      BY <1>1, <1>3, <1>4 DEF Types
    <2>2. Job' = Job
      BY <1>2 DEF Job
    <2>3. QED
      BY <1>1, <1>2, <1>5, <1>6, <2>1, <2>2 DEF Types
  <1>8. \A q \in Relay : \A v : Has(q, v) /\ v \notin crossed' => Has(q, v)'
    BY <1>2, <1>6
  <1>9. CrossInv'
    <2>1. ASSUME NEW s \in Snapshot, Moving(s)' PROVE Moving(s)
      <3>1. CASE \E q \in Relay : \E x \in Conn(q) : task'[q][x] \in {<<"append", s>>, <<"forward", s>>}
        <4>1. PICK q \in Relay : \E x \in Conn(q) : task'[q][x] \in {<<"append", s>>, <<"forward", s>>}
          BY <3>1
        <4>2. PICK x \in Conn(q) : task'[q][x] \in {<<"append", s>>, <<"forward", s>>}
          BY <4>1
        <4>3. CASE q = r /\ x = c
          <5>1. s = w
            BY <1>5, <4>2, <4>3
          <5>2. QED
            BY <1>2, <5>1 DEF Moving
        <4>4. CASE ~ (q = r /\ x = c)
          <5>1. task[q][x] \in {<<"append", s>>, <<"forward", s>>}
            BY <1>5, <4>2, <4>4
          <5>2. QED
            BY <5>1 DEF Moving
        <4>5. QED
          BY <4>3, <4>4
      <3>2. QED
        BY <1>2, <2>1, <3>1 DEF Moving
    <2>2. QED
      BY <1>1, <1>2, <1>6, <2>1, CrossKept
  <1>10. OwnIsShown'
    <2>1. ASSUME NEW q \in Relay, NEW e \in Envelope, Writes(q, e)' PROVE Writes(q, e)
      <3>1. CASE q = r /\ c = User
        <4>1. e = w
          BY <1>5, <2>1, <3>1, Shape DEF Writes
        <4>2. QED
          BY <1>2, <3>1, <4>1 DEF Writes
      <3>2. CASE ~ (q = r /\ c = User)
        BY <1>5, <2>1, <3>2, Shape DEF Writes
      <3>3. QED
        BY <3>1, <3>2
    <2>2. QED
      BY <1>1, <1>2, <1>6, <2>1, OwnKept
  <1>11. SentUpIsMirrored'
    <2>1. ASSUME NEW d \in Downstream, NEW e \in Envelope, SendsUp(d, e)', ~ SendsUp(d, e)
          PROVE  \A v \in Carried(e)' : Has(d, v)'
      <3>1. d = r /\ c = User /\ e = w
        <4>1. task'[Upstream][d] \in {<<"append", e>>, <<"forward", e>>}
              => task[Upstream][d] \in {<<"append", e>>, <<"forward", e>>}
          BY <1>2, <1>5, Shape
        <4>2. task'[d][User] = <<"forward", e>>
          BY <1>2, <2>1, <4>1 DEF SendsUp
        <4>3. QED
          BY <1>5, <2>1, <4>2, Shape DEF SendsUp
      <3>2. QED
        BY <1>6, <3>1
    <2>2. QED
      BY <1>1, <1>2, <1>6, <1>8, <2>1, Shape, SentKept
  <1>12. AsksOrFollows'
    BY <1>1, <1>2 DEF AsksOrFollows, Asking
  <1>13. DownInv'
    <2>1. \A d \in Downstream : Awaits(d) => Awaits(d)'
      BY <1>2, <1>5, Shape DEF Awaits, Asking
    <2>2. \A d \in Downstream, e \in Envelope : Brings(d, e) => Brings(d, e)'
      BY <1>2, <1>5, Shape DEF Brings
    <2>3. ASSUME NEW d \in Downstream, NEW v, Has(Upstream, v)', v \notin crossed',
                 ~ Has(Upstream, v)
          PROVE  Has(d, v)' \/ ComesDown(d, v)'
      <3>1. r = Upstream /\ v \in Carried(w) /\ v \notin crossed
        BY <1>2, <1>6, <2>3, Shape
      <3>2. CASE c = d
        <4>1. SendsUp(d, w)
          BY <1>2, <3>1, <3>2 DEF SendsUp
        <4>2. Has(d, v)
          BY <1>1, <3>1, <4>1 DEF SentUpIsMirrored
        <4>3. QED
          BY <1>8, <2>3, <4>2, Shape
      <3>3. CASE c # d
        <4>1. Brings(d, w)'
          <5>1. c \in Conn(Upstream) /\ task'[Upstream][c] = <<"forward", w>>
            BY <1>5, <3>1
          <5>2. QED
            BY <3>3, <5>1 DEF Brings
        <4>2. v \in Carried(w)'
          BY <1>6, <3>1
        <4>3. QED
          BY <4>1, <4>2 DEF ComesDown
      <3>4. QED
        BY <3>2, <3>3
    <2>4. QED
      BY <1>1, <1>2, <1>6, <1>8, <2>1, <2>2, <2>3, Shape, DownKept
  <1>14. OutInv'
    <2>1. \A q \in Relay : /\ shown[q] \subseteq shown'[q]
                           /\ Due(q) => Due(q)'
      BY <1>2, <1>5, Shape DEF Due
    <2>2. \A q \in Relay, e \in Envelope : Shows(q, e) => Shows(q, e)'
      BY <1>2, <1>5, Shape DEF Shows
    <2>3. Shows(r, w)'
      BY <1>5 DEF Shows
    <2>4. \A q \in Relay : \A v : Has(q, v)' => Has(q, v) \/ ComesOut(q, v)'
      BY <1>6, <2>3 DEF ComesOut
    <2>5. QED
      BY <1>1, <1>2, <1>6, <2>1, <2>2, <2>4, OutKept
  <1>15. UpInv'
    <2>1. ASSUME NEW v \in promised, GoesUp(v) PROVE GoesUp(v)' \/ Has(Upstream, v)'
      <3>1. PICK d \in Downstream : \/ federated[d] /\ task[d][User] = <<"forward", v>>
                                    \/ v \in Range(up[d]) \/ task[Upstream][d] = <<"append", v>>
        BY <2>1 DEF GoesUp
      <3>2. CASE task[Upstream][d] = <<"append", v>>
        <4>1. CASE r = Upstream /\ c = d
          <5>1. v = w
            BY <1>2, <3>2, <4>1
          <5>2. v \in Carried(w)
            BY <1>1, <1>4, <5>1, CarriedIsWritten
          <5>3. QED
            BY <1>6, <4>1, <5>2
        <4>2. CASE ~ (r = Upstream /\ c = d)
          BY <1>5, <3>2, <4>2, Shape DEF GoesUp
        <4>3. QED
          BY <4>1, <4>2
      <3>3. CASE v \in Range(up[d])
        BY <1>2, <3>3 DEF GoesUp
      <3>4. CASE federated[d] /\ task[d][User] = <<"forward", v>>
        BY <1>2, <1>5, <3>4, Shape DEF GoesUp
      <3>5. QED
        BY <3>1, <3>2, <3>3, <3>4
    <2>2. r \in Downstream /\ federated[r] => GoesUp(w)'
      BY <1>2, <1>5, Shape DEF GoesUp
    <2>3. \A v \in promised' : v \in promised \/ GoesUp(v)'
      BY <1>3, <2>2
    <2>4. QED
      BY <1>1, <1>2, <1>8, <2>1, <2>3, Shape, UpKept
  <1>16. QED
    BY <1>7, <1>9, <1>10, <1>11, <1>12, <1>13, <1>14, <1>15 DEF IInv

LEMMA ForwardKeeps ==
  ASSUME Topology, IInv, NEW r \in Relay, NEW c \in Conn(r), NEW w \in Envelope, Forward(r, c, w)
  PROVE  IInv'
  <1>1. /\ Types /\ CrossInv /\ OwnIsShown /\ SentUpIsMirrored /\ AsksOrFollows
        /\ DownInv /\ OutInv /\ UpInv
    BY DEF IInv
  <1>2. /\ task[r][c] = <<"forward", w>> /\ Goto(r, c, NoTask) /\ Delivered(r, subs[r] \ {c}, {w})
        /\ UNCHANGED <<log, covers, subs, ingesting, federated, signing, written, promised,
                       crossed, restarts>>
    BY DEF Forward
  <1>3. up' = [d \in Downstream |-> IF d = r /\ Forwards(r) THEN Append(up[d], w) ELSE up[d]]
    BY DEF Forward
  <1>4. w \in written
    <2>1. task[r] \in [Conn(r) -> Job]
      BY <1>1 DEF Types
    <2>2. <<"forward", w>> \in Job
      BY <1>2, <2>1
    <2>3. QED
      BY <2>2 DEF Job, NoTask
  <1>5. /\ DOMAIN task' = Relay
        /\ \A q \in Relay : \A x \in Conn(q) :
             task'[q][x] = IF q = r /\ x = c THEN NoTask ELSE task[q][x]
        /\ \A q \in Relay : task'[q] \in [Conn(q) -> Job]
    <2>1. NoTask \in Job
      BY DEF Job
    <2>2. QED
      BY <1>1, <1>2, <2>1, GotoAt
  <1>6. /\ shown' \in [Relay -> SUBSET written] /\ down' \in [Downstream -> Seq(written)]
        /\ \A q \in Relay :
             shown'[q] = IF q = r /\ User \in subs[r] \ {c} THEN shown[q] \cup Carried(w) ELSE shown[q]
        /\ \A d \in Downstream : Range(down'[d]) =
             IF r = Upstream /\ d \in subs[r] \ {c} THEN Range(down[d]) \cup {w} ELSE Range(down[d])
    <2>1. {w} \in SUBSET written /\ Delivered(r, subs[r] \ {c}, {w}) /\ Content({w}) = Carried(w)
      BY <1>2, <1>4 DEF Content
    <2>2. \A X : Delivered(r, X, {w}) =>
            /\ shown' \in [Relay -> SUBSET written] /\ down' \in [Downstream -> Seq(written)]
            /\ \A q \in Relay :
                 shown'[q] = IF q = r /\ User \in X THEN shown[q] \cup Content({w}) ELSE shown[q]
            /\ \A d \in Downstream : Range(down'[d]) =
                 IF r = Upstream /\ d \in X THEN Range(down[d]) \cup {w} ELSE Range(down[d])
      BY <1>1, <2>1, DeliveredAt
    <2>3. QED
      BY <2>1, <2>2
  <1>7. /\ up' \in [Downstream -> Seq(written \cup {Demand})]
        /\ \A d \in Downstream : Range(up'[d]) =
             IF d = r /\ federated[r] THEN Range(up[d]) \cup {w} ELSE Range(up[d])
    <2>1. \A d \in Downstream : up[d] \in Seq(written \cup {Demand}) /\ w \in written \cup {Demand}
      BY <1>1, <1>4 DEF Types
    <2>2. \A d \in Downstream : /\ Append(up[d], w) \in Seq(written \cup {Demand})
                                /\ Range(Append(up[d], w)) = Range(up[d]) \cup {w}
      BY <2>1, RangeOfAppend
    <2>3. QED
      BY <1>3, <2>1, <2>2 DEF Forwards
  <1>8. Types'
    <2>1. Job' = Job
      BY <1>2 DEF Job
    <2>2. QED
      BY <1>1, <1>2, <1>5, <1>6, <1>7, <2>1 DEF Types
  <1>9. (\A e : Carried(e)' = Carried(e)) /\ (\A q, v : Has(q, v)' <=> Has(q, v))
    BY <1>2, SameContent
  <1>10. \A q \in Relay : shown[q] \subseteq shown'[q]
    BY <1>6
  <1>11. CrossInv'
    <2>1. ASSUME NEW s \in Snapshot, Moving(s)' PROVE Moving(s)
      <3>1. CASE s = w
        BY <1>2, <3>1 DEF Moving
      <3>2. CASE s # w
        <4>1. \A d \in Downstream : /\ s \in Range(up'[d]) => s \in Range(up[d])
                                    /\ s \in Range(down'[d]) => s \in Range(down[d])
          BY <1>6, <1>7, <3>2
        <4>2. \A q \in Relay : \A x \in Conn(q) :
                task'[q][x] \in {<<"append", s>>, <<"forward", s>>}
                => task[q][x] \in {<<"append", s>>, <<"forward", s>>}
          BY <1>5 DEF NoTask
        <4>3. QED
          BY <1>2, <2>1, <4>1, <4>2 DEF Moving
      <3>3. QED
        BY <3>1, <3>2
    <2>2. QED
      BY <1>1, <1>2, <1>9, <2>1, CrossKept
  <1>12. OwnIsShown'
    <2>1. \A q \in Relay, e \in Envelope : Writes(q, e)' => Writes(q, e)
      BY <1>5, Shape DEF Writes, NoTask
    <2>2. QED
      BY <1>1, <1>9, <1>10, <2>1, OwnKept
  <1>13. SentUpIsMirrored'
    <2>1. ASSUME NEW d \in Downstream, NEW e \in Envelope, SendsUp(d, e)' PROVE SendsUp(d, e)
      <3>1. CASE e \in Range(up'[d]) /\ e \notin Range(up[d])
        <4>1. d = r /\ e = w
          BY <1>7, <3>1
        <4>2. c = User
          BY <4>1, Shape
        <4>3. QED
          BY <1>2, <4>1, <4>2 DEF SendsUp
      <3>2. CASE ~ (e \in Range(up'[d]) /\ e \notin Range(up[d]))
        BY <1>5, <2>1, <3>2, Shape DEF SendsUp, NoTask
      <3>3. QED
        BY <3>1, <3>2
    <2>2. QED
      BY <1>1, <1>2, <1>9, <2>1, SentKept
  <1>14. \A d \in Downstream : Asking(d) => Asking(d)'
    BY <1>2, <1>7 DEF Asking
  <1>15. AsksOrFollows'
    BY <1>1, <1>2, <1>14 DEF AsksOrFollows
  <1>16. DownInv'
    <2>1. \A d \in Downstream : Awaits(d) => Awaits(d)'
      BY <1>2, <1>5, <1>14, Shape DEF Awaits
    <2>2. ASSUME NEW d \in Downstream, NEW e \in Envelope, federated[d], Brings(d, e)
          PROVE  Awaits(d)' \/ Brings(d, e)'
      <3>1. CASE \E x \in Conn(Upstream) : x # d /\ task[Upstream][x] = <<"forward", e>>
        <4>1. PICK x \in Conn(Upstream) : x # d /\ task[Upstream][x] = <<"forward", e>>
          BY <3>1
        <4>2. CASE r = Upstream /\ x = c
          <5>1. e = w
            BY <1>2, <4>1, <4>2
          <5>2. Asking(d) \/ d \in subs[Upstream] \ {c}
            BY <1>1, <2>2, <4>1, <4>2 DEF AsksOrFollows
          <5>3. QED
            BY <1>6, <1>14, <4>2, <5>1, <5>2 DEF Brings, Awaits
        <4>3. CASE ~ (r = Upstream /\ x = c)
          <5>1. task'[Upstream][x] = <<"forward", e>>
            BY <1>5, <4>1, <4>3, Shape
          <5>2. QED
            BY <4>1, <5>1 DEF Brings
        <4>4. QED
          BY <4>2, <4>3
      <3>2. CASE e \in Range(down[d]) \/ <<"append", e>> \in ingesting[d]
        BY <1>2, <1>6, <3>2 DEF Brings
      <3>3. QED
        BY <2>2, <3>1, <3>2 DEF Brings
    <2>3. \A d \in Downstream, e \in Envelope : federated[d] /\ federated'[d] /\ Brings(d, e) =>
            \/ Awaits(d)' \/ (Carried(e)' = Carried(e) /\ Brings(d, e)')
            \/ \A v \in Carried(e) : Has(d, v)'
      <3>1. SUFFICES ASSUME NEW d \in Downstream, NEW e \in Envelope, federated[d], Brings(d, e)
                     PROVE  Awaits(d)' \/ (Carried(e)' = Carried(e) /\ Brings(d, e)')
        OBVIOUS
      <3>2. Awaits(d)' \/ Brings(d, e)'
        BY <2>2, <3>1
      <3>3. Carried(e)' = Carried(e)
        BY <1>9
      <3>4. QED
        BY <3>2, <3>3
    <2>4. QED
      BY <1>1, <1>2, <1>9, <2>1, <2>3, DownKept
  <1>17. OutInv'
    <2>1. \A q \in Relay : Due(q) => Due(q)'
      BY <1>2, <1>5, Shape DEF Due
    <2>2. ASSUME NEW q \in Relay, User \in subs[q], NEW e \in Envelope, Shows(q, e)
          PROVE  Shows(q, e)' \/ Carried(e) \subseteq shown'[q]
      <3>1. CASE \E x \in Conn(q) : task[q][x] = <<"forward", e>>
        <4>1. PICK x \in Conn(q) : task[q][x] = <<"forward", e>>
          BY <3>1
        <4>2. CASE q = r /\ x = c
          <5>1. e = w
            BY <1>2, <4>1, <4>2
          <5>2. CASE c = User
            <6>1. Writes(q, e)
              BY <4>1, <4>2, <5>2 DEF Writes
            <6>2. Carried(e) \subseteq shown[q]
              BY <1>1, <6>1 DEF OwnIsShown
            <6>3. QED
              BY <1>10, <6>2
          <5>3. CASE c # User
            BY <1>6, <2>2, <4>2, <5>1, <5>3
          <5>4. QED
            BY <5>2, <5>3
        <4>3. CASE ~ (q = r /\ x = c)
          <5>1. task'[q][x] = <<"forward", e>>
            BY <1>5, <4>1, <4>3
          <5>2. QED
            BY <4>1, <5>1 DEF Shows
        <4>4. QED
          BY <4>2, <4>3
      <3>2. CASE q \in Downstream /\ <<"forward", e>> \in ingesting[q]
        BY <1>2, <3>2 DEF Shows
      <3>3. QED
        BY <2>2, <3>1, <3>2 DEF Shows
    <2>3. QED
      BY <1>1, <1>2, <1>9, <1>10, <2>1, <2>2, OutKept
  <1>18. UpInv'
    <2>1. ASSUME NEW v \in promised, GoesUp(v) PROVE GoesUp(v)'
      <3>1. PICK d \in Downstream : \/ federated[d] /\ task[d][User] = <<"forward", v>>
                                    \/ v \in Range(up[d]) \/ task[Upstream][d] = <<"append", v>>
        BY <2>1 DEF GoesUp
      <3>2. CASE v \in Range(up[d])
        <4>1. v \in Range(up'[d])
          BY <1>7, <3>2
        <4>2. QED
          BY <4>1 DEF GoesUp
      <3>3. CASE task[Upstream][d] = <<"append", v>>
        <4>1. task'[Upstream][d] = <<"append", v>>
          BY <1>2, <1>5, <3>3, Shape
        <4>2. QED
          BY <4>1 DEF GoesUp
      <3>4. CASE federated[d] /\ task[d][User] = <<"forward", v>>
        <4>1. CASE d = r /\ c = User
          <5>1. v = w
            BY <1>2, <3>4, <4>1
          <5>2. v \in Range(up'[d])
            BY <1>7, <3>4, <4>1, <5>1
          <5>3. QED
            BY <5>2 DEF GoesUp
        <4>2. CASE ~ (d = r /\ c = User)
          <5>1. federated'[d] /\ task'[d][User] = <<"forward", v>>
            BY <1>2, <1>5, <3>4, <4>2, Shape
          <5>2. QED
            BY <5>1 DEF GoesUp
        <4>3. QED
          BY <4>1, <4>2
      <3>5. QED
        BY <3>1, <3>2, <3>3, <3>4
    <2>2. QED
      BY <1>1, <1>2, <1>9, <2>1, UpKept
  <1>19. QED
    BY <1>8, <1>11, <1>12, <1>13, <1>15, <1>16, <1>17, <1>18 DEF IInv

LEMMA ReplayKeeps ==
  ASSUME Topology, IInv, NEW r \in Relay, NEW c \in Conn(r), Replay(r, c)
  PROVE  IInv'
  <1>1. /\ Types /\ CrossInv /\ OwnIsShown /\ SentUpIsMirrored /\ AsksOrFollows
        /\ DownInv /\ OutInv /\ UpInv
    BY DEF IInv
  <1>2. /\ task[r][c] = <<"replay", Demand>> /\ Goto(r, c, NoTask) /\ Delivered(r, {c}, log[r])
        /\ UNCHANGED <<log, covers, subs, ingesting, federated, signing, up, written, promised,
                       restarts>>
    BY DEF Replay
  <1>3. crossed' = IF c = User THEN crossed
                   ELSE crossed \cup UNION {written \ Carried(s) : s \in log[r] \cap Snapshot}
    BY DEF Replay
  <1>4. /\ crossed \subseteq crossed' /\ crossed' \subseteq written
        /\ c # User => \A s \in log[r] \cap Snapshot : written \ Carried(s) \subseteq crossed'
    BY <1>1, <1>3 DEF Types
  <1>5. /\ DOMAIN task' = Relay
        /\ \A q \in Relay : \A x \in Conn(q) :
             task'[q][x] = IF q = r /\ x = c THEN NoTask ELSE task[q][x]
        /\ \A q \in Relay : task'[q] \in [Conn(q) -> Job]
    <2>1. NoTask \in Job
      BY DEF Job
    <2>2. QED
      BY <1>1, <1>2, <2>1, GotoAt
  <1>6. /\ shown' \in [Relay -> SUBSET written] /\ down' \in [Downstream -> Seq(written)]
        /\ \A q \in Relay :
             shown'[q] = IF q = r /\ User \in {c} THEN shown[q] \cup Content(log[r]) ELSE shown[q]
        /\ \A d \in Downstream : Range(down'[d]) =
             IF r = Upstream /\ d \in {c} THEN Range(down[d]) \cup log[r] ELSE Range(down[d])
    <2>1. log[r] \in SUBSET written
      BY <1>1 DEF Types
    <2>2. QED
      BY <1>1, <1>2, <2>1, DeliveredAt
  <1>7. Types'
    <2>1. Job' = Job
      BY <1>2 DEF Job
    <2>2. QED
      BY <1>1, <1>2, <1>4, <1>5, <1>6, <2>1 DEF Types
  <1>8. (\A e : Carried(e)' = Carried(e)) /\ (\A q, v : Has(q, v)' <=> Has(q, v))
    BY <1>2, SameContent
  <1>9. \A q \in Relay : shown[q] \subseteq shown'[q]
    BY <1>6
  <1>10. CrossInv'
    <2>1. ASSUME NEW s \in Snapshot, Moving(s)', ~ Moving(s)
          PROVE  written \ crossed' \subseteq Carried(s)
      <3>1. \A q \in Relay : \A x \in Conn(q) :
              task'[q][x] \in {<<"append", s>>, <<"forward", s>>}
              => task[q][x] \in {<<"append", s>>, <<"forward", s>>}
        BY <1>5 DEF NoTask
      <3>2. PICK d \in Downstream : s \in Range(down'[d]) /\ s \notin Range(down[d])
        BY <1>2, <2>1, <3>1 DEF Moving
      <3>3. s \in log[r] /\ c = d
        BY <1>6, <3>2
      <3>4. QED
        BY <1>4, <3>3, Shape
    <2>2. QED
      BY <1>1, <1>2, <1>4, <1>8, <2>1, CrossKept
  <1>11. OwnIsShown'
    <2>1. \A q \in Relay, e \in Envelope : Writes(q, e)' => Writes(q, e)
      BY <1>5, Shape DEF Writes, NoTask
    <2>2. QED
      BY <1>1, <1>8, <1>9, <2>1, OwnKept
  <1>12. SentUpIsMirrored'
    <2>1. \A d \in Downstream, e \in Envelope : SendsUp(d, e)' => SendsUp(d, e)
      BY <1>2, <1>5, Shape DEF SendsUp, NoTask
    <2>2. QED
      BY <1>1, <1>4, <1>8, <2>1, SentKept
  <1>13. AsksOrFollows'
    BY <1>1, <1>2 DEF AsksOrFollows, Asking
  <1>14. DownInv'
    <2>1. ASSUME NEW d \in Downstream, Awaits(d), ~ Awaits(d)', NEW v, Has(Upstream, v)
          PROVE  ComesDown(d, v)'
      <3>1. r = Upstream /\ c = d
        BY <1>2, <1>5, <2>1, Shape DEF Awaits, Asking
      <3>2. PICK e \in log[Upstream] : v \in Carried(e)
        BY <2>1 DEF Has
      <3>3. e \in Range(down'[d]) /\ e \in Envelope
        BY <1>1, <1>6, <3>1 DEF Types
      <3>4. Brings(d, e)'
        BY <3>3 DEF Brings
      <3>5. v \in Carried(e)'
        BY <1>8, <3>2
      <3>6. QED
        BY <3>3, <3>4, <3>5 DEF ComesDown
    <2>2. \A d \in Downstream : federated'[d] /\ Awaits(d) =>
            Awaits(d)' \/ \A v : Has(Upstream, v)' => Has(d, v)' \/ ComesDown(d, v)'
      BY <1>8, <2>1
    <2>3. \A d \in Downstream, e \in Envelope : Brings(d, e) => Brings(d, e)'
      <3>1. \A d \in Downstream : Range(down[d]) \subseteq Range(down'[d])
        BY <1>6
      <3>2. \A x \in Conn(Upstream), e \in Envelope :
              task[Upstream][x] = <<"forward", e>> => task'[Upstream][x] = <<"forward", e>>
        BY <1>2, <1>5, Shape
      <3>3. QED
        BY <1>2, <3>1, <3>2 DEF Brings
    <2>4. QED
      BY <1>1, <1>2, <1>4, <1>8, <2>2, <2>3, DownKept
  <1>15. OutInv'
    <2>1. ASSUME NEW q \in Relay, Due(q), ~ Due(q)', NEW v, Has(q, v) PROVE v \in shown'[q]
      <3>1. q = r /\ c = User
        BY <1>2, <1>5, <2>1, Shape DEF Due
      <3>2. QED
        BY <1>6, <2>1, <3>1, HasIsContent
    <2>2. \A q \in Relay : User \in subs'[q] /\ Due(q) =>
            Due(q)' \/ \A v : Has(q, v)' => v \in shown'[q]
      BY <1>8, <2>1
    <2>3. \A q \in Relay, e \in Envelope : Shows(q, e) => Shows(q, e)'
      BY <1>2, <1>5, Shape DEF Shows
    <2>4. QED
      BY <1>1, <1>2, <1>8, <1>9, <2>2, <2>3, OutKept
  <1>16. UpInv'
    <2>1. \A v : GoesUp(v) => GoesUp(v)'
      BY <1>2, <1>5, Shape DEF GoesUp
    <2>2. QED
      BY <1>1, <1>2, <1>4, <1>8, <2>1, UpKept
  <1>17. QED
    BY <1>7, <1>10, <1>11, <1>12, <1>13, <1>14, <1>15, <1>16 DEF IInv

LEMMA HandleUpKeeps ==
  ASSUME Topology, IInv, NEW d \in Downstream, HandleUp(d)
  PROVE  IInv'
  <1> DEFINE h == Head(up[d])
             t == IF h = Demand THEN <<"replay", Demand>> ELSE <<"append", h>>
  <1>1. /\ Types /\ CrossInv /\ OwnIsShown /\ SentUpIsMirrored /\ AsksOrFollows
        /\ DownInv /\ OutInv /\ UpInv
    BY DEF IInv
  <1>2. /\ up[d] # <<>> /\ up' = [up EXCEPT ![d] = Tail(@)] /\ Goto(Upstream, d, t)
        /\ subs' = IF h = Demand THEN [subs EXCEPT ![Upstream] = @ \cup {d}] ELSE subs
    BY DEF HandleUp
  <1>3. /\ task[Upstream][d] = NoTask /\ d \in Conn(Upstream)
        /\ UNCHANGED <<log, covers, ingesting, federated, signing, down, written, shown, promised,
                       crossed, restarts>>
    BY Shape DEF HandleUp
  <1>4. /\ h \in written \cup {Demand} /\ Tail(up[d]) \in Seq(written \cup {Demand})
        /\ Range(up[d]) = {h} \cup Range(Tail(up[d]))
    <2>1. up[d] \in Seq(written \cup {Demand})
      BY <1>1 DEF Types
    <2>2. QED
      BY <1>2, <2>1, RangeOfTail
  <1> HIDE DEF h
  <1>5. /\ up' \in [Downstream -> Seq(written \cup {Demand})]
        /\ \A e \in Downstream :
             Range(up'[e]) = IF e = d THEN Range(Tail(up[d])) ELSE Range(up[e])
    BY <1>1, <1>2, <1>4 DEF Types
  <1>6. /\ DOMAIN task' = Relay
        /\ \A q \in Relay : \A x \in Conn(q) :
             task'[q][x] = IF q = Upstream /\ x = d THEN t ELSE task[q][x]
        /\ \A q \in Relay : task'[q] \in [Conn(q) -> Job]
    <2>1. t \in Job
      BY <1>4 DEF Job
    <2>2. QED
      BY <1>1, <1>2, <1>3, <2>1, GotoAt, Shape
  <1>7. /\ subs' \in [Relay -> SUBSET ({User} \cup Downstream)]
        /\ \A q \in Relay :
             subs'[q] = IF q = Upstream /\ h = Demand THEN subs[q] \cup {d} ELSE subs[q]
    BY <1>1, <1>2 DEF Types
  <1>8. Types'
    <2>1. Job' = Job
      BY <1>3 DEF Job
    <2>2. \A q \in Relay : subs'[q] \subseteq Conn(q)
      <3>1. \A q \in Relay : subs[q] \subseteq Conn(q)
        BY <1>1 DEF Types
      <3>2. d \in Conn(Upstream)
        BY <1>3
      <3>3. QED
        BY <1>7, <3>1, <3>2
    <2>3. QED
      BY <1>1, <1>3, <1>5, <1>6, <1>7, <2>1, <2>2 DEF Types
  <1>9. \A q \in Relay : task'[q][User] = task[q][User]
    BY <1>6, Shape
  <1>10. (\A e : Carried(e)' = Carried(e)) /\ (\A q, v : Has(q, v)' <=> Has(q, v))
    BY <1>3, SameContent
  (* A write whose append begins came up the link. *)
  <1>11. ASSUME NEW e \in Envelope, NEW q \in Relay, NEW x \in Conn(q),
                task'[q][x] \in {<<"append", e>>, <<"forward", e>>}
         PROVE  \/ task[q][x] \in {<<"append", e>>, <<"forward", e>>}
                \/ q = Upstream /\ x = d /\ e \in Range(up[d])
    <2>1. CASE q = Upstream /\ x = d
      <3>1. t \in {<<"append", e>>, <<"forward", e>>}
        BY <1>3, <1>6, <1>11, <2>1, Shape
      <3>2. e = h
        BY <3>1
      <3>3. QED
        BY <1>4, <2>1, <3>2
    <2>2. CASE ~ (q = Upstream /\ x = d)
      BY <1>6, <1>11, <2>2
    <2>3. QED
      BY <2>1, <2>2
  <1>12. \A e \in Downstream : Range(up'[e]) \subseteq Range(up[e])
    BY <1>4, <1>5
  <1>13. CrossInv'
    <2>1. ASSUME NEW s \in Snapshot, Moving(s)' PROVE Moving(s)
      <3>1. s \in Envelope
        BY DEF Topology
      <3>2. CASE \E q \in Relay : \E x \in Conn(q) : task'[q][x] \in {<<"append", s>>, <<"forward", s>>}
        <4>1. PICK q \in Relay : \E x \in Conn(q) : task'[q][x] \in {<<"append", s>>, <<"forward", s>>}
          BY <3>2
        <4>2. PICK x \in Conn(q) : task'[q][x] \in {<<"append", s>>, <<"forward", s>>}
          BY <4>1
        <4>3. QED
          BY <1>11, <3>1, <4>2 DEF Moving
      <3>3. QED
        BY <1>3, <1>12, <2>1, <3>2 DEF Moving
    <2>2. QED
      BY <1>1, <1>3, <1>10, <2>1, CrossKept
  <1>14. OwnIsShown'
    <2>1. \A q \in Relay, e \in Envelope : Writes(q, e)' => Writes(q, e)
      BY <1>9 DEF Writes
    <2>2. QED
      BY <1>1, <1>3, <1>10, <2>1, OwnKept
  <1>15. SentUpIsMirrored'
    <2>1. ASSUME NEW x \in Downstream, NEW e \in Envelope, SendsUp(x, e)' PROVE SendsUp(x, e)
      <3>1. CASE task'[x][User] = <<"forward", e>>
        BY <1>9, <3>1, Shape DEF SendsUp
      <3>2. CASE e \in Range(up'[x])
        BY <1>12, <3>2 DEF SendsUp
      <3>3. CASE task'[Upstream][x] \in {<<"append", e>>, <<"forward", e>>}
        BY <1>11, <3>3, Shape DEF SendsUp
      <3>4. QED
        BY <2>1, <3>1, <3>2, <3>3 DEF SendsUp
    <2>2. QED
      BY <1>1, <1>3, <1>10, <2>1, SentKept
  (* What was asked for is now being replayed. *)
  <1>16. \A e \in Downstream :
           Asking(e) => \/ Asking(e)'
                        \/ e \in subs'[Upstream] /\ task'[Upstream][e] = <<"replay", Demand>>
    <2>1. SUFFICES ASSUME NEW e \in Downstream, Asking(e), ~ Asking(e)'
                   PROVE  e \in subs'[Upstream] /\ task'[Upstream][e] = <<"replay", Demand>>
      OBVIOUS
    <2>2. Demand \in Range(up[e]) /\ Demand \notin Range(up'[e])
      BY <1>3, <2>1 DEF Asking
    <2>3. e = d /\ h = Demand
      BY <1>4, <1>5, <2>2
    <2>4. QED
      BY <1>3, <1>6, <1>7, <2>3, Shape
  <1>17. AsksOrFollows'
    <2>1. subs[Upstream] \subseteq subs'[Upstream]
      BY <1>7, Shape
    <2>2. QED
      BY <1>1, <1>3, <1>16, <2>1 DEF AsksOrFollows
  (* Nothing a connection of the upstream was doing is given up. *)
  <1>18. \A x \in Conn(Upstream) : task[Upstream][x] # NoTask
                                   => task'[Upstream][x] = task[Upstream][x]
    BY <1>3, <1>6, Shape
  <1>19. DownInv'
    <2>1. \A e \in Downstream : Awaits(e) => Awaits(e)'
      <3>1. \A e \in Downstream : task[Upstream][e] = <<"replay", Demand>>
                                  => task'[Upstream][e] = <<"replay", Demand>>
        BY <1>18, Shape DEF NoTask
      <3>2. QED
        BY <1>16, <3>1 DEF Awaits
    <2>2. \A x \in Downstream, e \in Envelope : Brings(x, e) => Brings(x, e)'
      <3>1. \A x \in Conn(Upstream), e \in Envelope :
              task[Upstream][x] = <<"forward", e>> => task'[Upstream][x] = <<"forward", e>>
        BY <1>18 DEF NoTask
      <3>2. QED
        BY <1>3, <3>1 DEF Brings
    <2>3. QED
      BY <1>1, <1>3, <1>10, <2>1, <2>2, DownKept
  <1>20. OutInv'
    <2>1. \A q \in Relay : User \in subs'[q] => User \in subs[q]
      BY <1>1, <1>7, Shape DEF Types
    <2>2. \A q \in Relay : Due(q) => Due(q)'
      BY <1>9 DEF Due
    <2>3. \A q \in Relay, e \in Envelope : Shows(q, e) => Shows(q, e)'
      <3>1. \A q \in Relay : \A x \in Conn(q), e \in Envelope :
              task[q][x] = <<"forward", e>> => task'[q][x] = <<"forward", e>>
        BY <1>3, <1>6 DEF NoTask
      <3>2. QED
        BY <1>3, <3>1 DEF Shows
    <2>4. QED
      BY <1>1, <1>3, <1>10, <2>1, <2>2, <2>3, OutKept
  <1>21. UpInv'
    <2>1. ASSUME NEW v \in promised, GoesUp(v) PROVE GoesUp(v)'
      <3>1. PICK e \in Downstream : \/ federated[e] /\ task[e][User] = <<"forward", v>>
                                    \/ v \in Range(up[e]) \/ task[Upstream][e] = <<"append", v>>
        BY <2>1 DEF GoesUp
      <3>2. CASE federated[e] /\ task[e][User] = <<"forward", v>>
        <4>1. federated'[e] /\ task'[e][User] = <<"forward", v>>
          BY <1>3, <1>9, <3>2, Shape
        <4>2. QED
          BY <4>1 DEF GoesUp
      <3>3. CASE task[Upstream][e] = <<"append", v>>
        <4>1. task'[Upstream][e] = <<"append", v>>
          BY <1>18, <3>3, Shape DEF NoTask
        <4>2. QED
          BY <4>1 DEF GoesUp
      <3>4. CASE v \in Range(up[e])
        <4>1. v \in Range(up'[e]) \/ (e = d /\ v = h)
          BY <1>4, <1>5, <3>4
        <4>2. v # Demand
          BY <1>1 DEF Types, Topology
        <4>3. CASE e = d /\ v = h
          <5>1. task'[Upstream][e] = <<"append", v>>
            BY <1>3, <1>6, <4>2, <4>3, Shape
          <5>2. QED
            BY <5>1 DEF GoesUp
        <4>4. QED
          BY <4>1, <4>3 DEF GoesUp
      <3>5. QED
        BY <3>1, <3>2, <3>3, <3>4
    <2>2. QED
      BY <1>1, <1>3, <1>10, <2>1, UpKept
  <1>22. QED
    BY <1>8, <1>13, <1>14, <1>15, <1>17, <1>19, <1>20, <1>21 DEF IInv

LEMMA HandleDownKeeps ==
  ASSUME Topology, IInv, NEW d \in Downstream, HandleDown(d)
  PROVE  IInv'
  <1> DEFINE h == Head(down[d])
  <1>1. /\ Types /\ CrossInv /\ OwnIsShown /\ SentUpIsMirrored /\ AsksOrFollows
        /\ DownInv /\ OutInv /\ UpInv
    BY DEF IInv
  <1>2. /\ down[d] # <<>> /\ down' = [down EXCEPT ![d] = Tail(@)]
        /\ ingesting' = [ingesting EXCEPT ![d] = @ \cup {<<"append", h>>}]
    BY DEF HandleDown
  <1>3. UNCHANGED <<log, covers, subs, task, federated, signing, up, written, shown, promised,
                    crossed, restarts>>
    BY DEF HandleDown
  <1>4. /\ h \in written /\ Tail(down[d]) \in Seq(written)
        /\ Range(down[d]) = {h} \cup Range(Tail(down[d]))
    <2>1. down[d] \in Seq(written)
      BY <1>1 DEF Types
    <2>2. QED
      BY <1>2, <2>1, RangeOfTail
  <1> HIDE DEF h
  <1>5. /\ down' \in [Downstream -> Seq(written)]
        /\ ingesting' \in [Downstream -> SUBSET ({"append", "forward"} \X written)]
        /\ \A e \in Downstream :
             /\ Range(down'[e]) = IF e = d THEN Range(Tail(down[d])) ELSE Range(down[e])
             /\ ingesting'[e] = IF e = d THEN ingesting[e] \cup {<<"append", h>>} ELSE ingesting[e]
    <2>1. /\ down' \in [Downstream -> Seq(written)]
          /\ \A e \in Downstream :
               Range(down'[e]) = IF e = d THEN Range(Tail(down[d])) ELSE Range(down[e])
      BY <1>1, <1>2, <1>4 DEF Types
    <2>2. <<"append", h>> \in {"append", "forward"} \X written
      BY <1>4
    <2>3. /\ ingesting' \in [Downstream -> SUBSET ({"append", "forward"} \X written)]
          /\ \A e \in Downstream :
               ingesting'[e] = IF e = d THEN ingesting[e] \cup {<<"append", h>>} ELSE ingesting[e]
      BY <1>1, <1>2, <2>2 DEF Types
    <2>4. QED
      BY <2>1, <2>3
  <1>6. Types'
    <2>1. Job' = Job
      BY <1>3 DEF Job
    <2>2. QED
      BY <1>1, <1>3, <1>5, <2>1 DEF Types
  <1>7. (\A e : Carried(e)' = Carried(e)) /\ (\A q, v : Has(q, v)' <=> Has(q, v))
    BY <1>3, SameContent
  <1>8. OwnIsShown' /\ SentUpIsMirrored' /\ AsksOrFollows'
    BY <1>1, <1>3, <1>7
    DEF OwnIsShown, Writes, SentUpIsMirrored, SendsUp, AsksOrFollows, Asking
  <1>9. \A e \in Downstream, v \in Envelope :
          /\ v \in Range(down'[e]) \/ <<"append", v>> \in ingesting'[e]
             <=> v \in Range(down[e]) \/ <<"append", v>> \in ingesting[e]
          /\ <<"forward", v>> \in ingesting[e] => <<"forward", v>> \in ingesting'[e]
    <2>1. SUFFICES ASSUME NEW e \in Downstream, NEW v \in Envelope
                   PROVE  /\ v \in Range(down'[e]) \/ <<"append", v>> \in ingesting'[e]
                             <=> v \in Range(down[e]) \/ <<"append", v>> \in ingesting[e]
                          /\ <<"forward", v>> \in ingesting[e] => <<"forward", v>> \in ingesting'[e]
      OBVIOUS
    <2>2. CASE e = d
      <3>1. /\ Range(down'[e]) \cup {h} = Range(down[e])
            /\ ingesting'[e] = ingesting[e] \cup {<<"append", h>>}
        BY <1>4, <1>5, <2>2
      <3>2. <<"append", v>> \in ingesting'[e] <=> v = h \/ <<"append", v>> \in ingesting[e]
        BY <3>1
      <3>3. v \in Range(down[e]) <=> v = h \/ v \in Range(down'[e])
        BY <3>1
      <3>4. QED
        BY <3>1, <3>2, <3>3
    <2>3. CASE e # d
      BY <1>5, <2>3
    <2>4. QED
      BY <2>2, <2>3
  <1>10. CrossInv'
    <2>1. \A s \in Snapshot : Moving(s)' => Moving(s)
      BY <1>3, <1>9 DEF Moving, Topology
    <2>2. QED
      BY <1>1, <1>3, <1>7, <2>1, CrossKept
  <1>11. DownInv'
    <2>1. \A e \in Downstream : Awaits(e) => Awaits(e)'
      BY <1>3 DEF Awaits, Asking
    <2>2. \A x \in Downstream, e \in Envelope : Brings(x, e) => Brings(x, e)'
      BY <1>3, <1>9 DEF Brings
    <2>3. QED
      BY <1>1, <1>3, <1>7, <2>1, <2>2, DownKept
  <1>12. OutInv'
    <2>1. /\ \A q \in Relay : Due(q) => Due(q)'
          /\ \A q \in Relay, e \in Envelope : Shows(q, e) => Shows(q, e)'
      BY <1>3, <1>9 DEF Due, Shows
    <2>2. QED
      BY <1>1, <1>3, <1>7, <2>1, OutKept
  <1>13. UpInv'
    <2>1. \A v : GoesUp(v) => GoesUp(v)'
      BY <1>3 DEF GoesUp
    <2>2. QED
      BY <1>1, <1>3, <1>7, <2>1, UpKept
  <1>14. QED
    BY <1>6, <1>8, <1>10, <1>11, <1>12, <1>13 DEF IInv

LEMMA MirrorFederatedKeeps ==
  ASSUME Topology, IInv, NEW d \in Downstream, NEW w \in Envelope, MirrorFederated(d, w)
  PROVE  IInv'
  <1>1. /\ Types /\ CrossInv /\ OwnIsShown /\ SentUpIsMirrored /\ AsksOrFollows
        /\ DownInv /\ OutInv /\ UpInv
    BY DEF IInv
  <1>2. /\ <<"append", w>> \in ingesting[d]
        /\ ingesting' =
             [ingesting EXCEPT ![d] = (@ \ {<<"append", w>>}) \cup {<<"forward", w>>}]
        /\ log' = [log EXCEPT ![d] = Mirrored(@, w)]
    BY DEF MirrorFederated
  <1>3. UNCHANGED <<covers, subs, task, federated, signing, up, down, written, shown, promised,
                    crossed, restarts>>
    BY DEF MirrorFederated, linkVars
  <1>4. w \in written
    <2>1. <<"append", w>> \in {"append", "forward"} \X written
      BY <1>1, <1>2 DEF Types
    <2>2. QED
      BY <2>1
  <1>5. /\ ingesting' \in [Downstream -> SUBSET ({"append", "forward"} \X written)]
        /\ \A e \in Downstream : e # d => ingesting'[e] = ingesting[e]
        /\ ingesting'[d] = (ingesting[d] \ {<<"append", w>>}) \cup {<<"forward", w>>}
    BY <1>1, <1>2, <1>4 DEF Types
  <1>6. /\ log' \in [Relay -> SUBSET written]
        /\ \A e : Carried(e)' = Carried(e)
        /\ \A v \in Carried(w) : Has(d, v)'
        /\ \A v : Has(d, v) /\ v \notin crossed => Has(d, v)'
        /\ \A v : Has(d, v)' => Has(d, v) \/ v \in Carried(w)
        /\ \A q \in Relay \ {d} : \A v : Has(q, v)' <=> Has(q, v)
    <2>1. Moving(w) /\ d \in Relay
      BY <1>2, Shape DEF Moving
    <2>2. UNCHANGED covers
      BY <1>3
    <2>3. QED
      BY <1>1, <1>2, <1>4, <2>1, <2>2, MirroredHas
  <1>7. Types'
    <2>1. Job' = Job
      BY <1>3 DEF Job
    <2>2. QED
      BY <1>1, <1>3, <1>5, <1>6, <2>1 DEF Types
  <1>8. /\ \A v : Has(Upstream, v)' <=> Has(Upstream, v)
        /\ \A q \in Relay : \A v : Has(q, v) /\ v \notin crossed' => Has(q, v)'
    BY <1>3, <1>6, Shape
  <1>9. \A e \in Downstream, v \in Envelope :
          /\ <<"append", v>> \in ingesting'[e] => <<"append", v>> \in ingesting[e]
          /\ <<"append", v>> \in ingesting[e] =>
               <<"append", v>> \in ingesting'[e] \/ (e = d /\ v = w)
          /\ <<"forward", v>> \in ingesting[e] => <<"forward", v>> \in ingesting'[e]
    BY <1>5
  <1>10. CrossInv'
    <2>1. \A s \in Snapshot : Moving(s)' => Moving(s)
      BY <1>3, <1>9 DEF Moving, Topology
    <2>2. QED
      BY <1>1, <1>3, <1>6, <2>1, CrossKept
  <1>11. OwnIsShown' /\ AsksOrFollows'
    BY <1>1, <1>3, <1>6 DEF OwnIsShown, Writes, AsksOrFollows, Asking
  <1>12. SentUpIsMirrored'
    <2>1. \A x \in Downstream, e \in Envelope : SendsUp(x, e)' => SendsUp(x, e)
      BY <1>3 DEF SendsUp
    <2>2. QED
      BY <1>1, <1>3, <1>6, <1>8, <2>1, Shape, SentKept
  <1>13. DownInv'
    <2>1. \A e \in Downstream : Awaits(e) => Awaits(e)'
      BY <1>3 DEF Awaits, Asking
    <2>2. ASSUME NEW x \in Downstream, NEW e \in Envelope, Brings(x, e)
          PROVE  Brings(x, e)' \/ \A v \in Carried(e) : Has(x, v)'
      <3>1. CASE x = d /\ e = w
        BY <1>6, <3>1
      <3>2. CASE ~ (x = d /\ e = w)
        BY <1>3, <1>9, <2>2, <3>2 DEF Brings
      <3>3. QED
        BY <3>1, <3>2
    <2>3. QED
      BY <1>1, <1>3, <1>6, <1>8, <2>1, <2>2, Shape, DownKept
  <1>14. OutInv'
    <2>1. /\ \A q \in Relay : Due(q) => Due(q)'
          /\ \A q \in Relay, e \in Envelope : Shows(q, e) => Shows(q, e)'
      BY <1>3, <1>9 DEF Due, Shows
    <2>2. Shows(d, w)'
      BY <1>5 DEF Shows
    <2>3. \A q \in Relay : \A v : Has(q, v)' => Has(q, v) \/ ComesOut(q, v)'
      BY <1>6, <2>2 DEF ComesOut
    <2>4. QED
      BY <1>1, <1>3, <1>6, <2>1, <2>3, OutKept
  <1>15. UpInv'
    <2>1. \A v : GoesUp(v) => GoesUp(v)'
      BY <1>3 DEF GoesUp
    <2>2. QED
      BY <1>1, <1>3, <1>8, <2>1, UpKept
  <1>16. QED
    BY <1>7, <1>10, <1>11, <1>12, <1>13, <1>14, <1>15 DEF IInv

LEMMA ForwardFederatedKeeps ==
  ASSUME Topology, IInv, NEW d \in Downstream, NEW w \in Envelope, ForwardFederated(d, w)
  PROVE  IInv'
  <1>1. /\ Types /\ CrossInv /\ OwnIsShown /\ SentUpIsMirrored /\ AsksOrFollows
        /\ DownInv /\ OutInv /\ UpInv
    BY DEF IInv
  <1>2. /\ <<"forward", w>> \in ingesting[d]
        /\ ingesting' = [ingesting EXCEPT ![d] = @ \ {<<"forward", w>>}]
    BY DEF ForwardFederated
  <1>3. UNCHANGED <<log, covers, subs, task, federated, signing, up, written, promised, crossed,
                    restarts>>
    BY DEF ForwardFederated
  <1>4. {w} \in SUBSET written /\ Content({w}) = Carried(w)
    <2>1. <<"forward", w>> \in {"append", "forward"} \X written
      BY <1>1, <1>2 DEF Types
    <2>2. QED
      BY <2>1 DEF Content
  <1>5. /\ ingesting' \in [Downstream -> SUBSET ({"append", "forward"} \X written)]
        /\ \A e \in Downstream : e # d => ingesting'[e] = ingesting[e]
        /\ ingesting'[d] = ingesting[d] \ {<<"forward", w>>}
    BY <1>1, <1>2 DEF Types
  <1>6. /\ shown' \in [Relay -> SUBSET written] /\ down' \in [Downstream -> Seq(written)]
        /\ \A q \in Relay :
             shown'[q] = IF q = d /\ User \in subs[d] THEN shown[q] \cup Carried(w) ELSE shown[q]
        /\ \A e \in Downstream : Range(down'[e]) = Range(down[e])
    <2>1. Delivered(d, subs[d], {w}) /\ d \in Relay /\ d # Upstream
      BY Shape DEF ForwardFederated
    <2>2. \A X : Delivered(d, X, {w}) =>
            /\ shown' \in [Relay -> SUBSET written] /\ down' \in [Downstream -> Seq(written)]
            /\ \A q \in Relay :
                 shown'[q] = IF q = d /\ User \in X THEN shown[q] \cup Content({w}) ELSE shown[q]
            /\ \A e \in Downstream : Range(down'[e]) =
                 IF d = Upstream /\ e \in X THEN Range(down[e]) \cup {w} ELSE Range(down[e])
      BY <1>1, <1>4, <2>1, DeliveredAt
    <2>3. QED
      BY <1>4, <2>1, <2>2
  <1>7. Types'
    <2>1. Job' = Job
      BY <1>3 DEF Job
    <2>2. QED
      BY <1>1, <1>3, <1>5, <1>6, <2>1 DEF Types
  <1>8. (\A e : Carried(e)' = Carried(e)) /\ (\A q, v : Has(q, v)' <=> Has(q, v))
    BY <1>3, SameContent
  <1>9. \A q \in Relay : shown[q] \subseteq shown'[q]
    BY <1>6
  <1>10. \A e \in Downstream, v \in Envelope :
           <<"append", v>> \in ingesting'[e] <=> <<"append", v>> \in ingesting[e]
    BY <1>5
  <1>11. CrossInv'
    <2>1. \A s \in Snapshot : Moving(s)' => Moving(s)
      BY <1>3, <1>6, <1>10 DEF Moving, Topology
    <2>2. QED
      BY <1>1, <1>3, <1>8, <2>1, CrossKept
  <1>12. OwnIsShown'
    <2>1. \A q \in Relay, e \in Envelope : Writes(q, e)' => Writes(q, e)
      BY <1>3 DEF Writes
    <2>2. QED
      BY <1>1, <1>8, <1>9, <2>1, OwnKept
  <1>13. SentUpIsMirrored' /\ AsksOrFollows'
    BY <1>1, <1>3, <1>8 DEF SentUpIsMirrored, SendsUp, AsksOrFollows, Asking
  <1>14. DownInv'
    <2>1. \A e \in Downstream : Awaits(e) => Awaits(e)'
      BY <1>3 DEF Awaits, Asking
    <2>2. \A x \in Downstream, e \in Envelope : Brings(x, e) => Brings(x, e)'
      BY <1>3, <1>6, <1>10 DEF Brings
    <2>3. QED
      BY <1>1, <1>3, <1>8, <2>1, <2>2, DownKept
  <1>15. OutInv'
    <2>1. \A q \in Relay : Due(q) => Due(q)'
      BY <1>3 DEF Due
    <2>2. ASSUME NEW q \in Relay, User \in subs[q], NEW e \in Envelope, Shows(q, e)
          PROVE  Shows(q, e)' \/ Carried(e) \subseteq shown'[q]
      <3>1. CASE q = d /\ e = w
        BY <1>6, <2>2, <3>1
      <3>2. CASE ~ (q = d /\ e = w)
        <4>1. q \in Downstream /\ <<"forward", e>> \in ingesting[q]
              => <<"forward", e>> \in ingesting'[q]
          BY <1>5, <3>2
        <4>2. QED
          BY <1>3, <2>2, <4>1 DEF Shows
      <3>3. QED
        BY <3>1, <3>2
    <2>3. QED
      BY <1>1, <1>3, <1>8, <1>9, <2>1, <2>2, OutKept
  <1>16. UpInv'
    <2>1. \A v : GoesUp(v) => GoesUp(v)'
      BY <1>3 DEF GoesUp
    <2>2. QED
      BY <1>1, <1>3, <1>8, <2>1, UpKept
  <1>17. QED
    BY <1>7, <1>11, <1>12, <1>13, <1>14, <1>15, <1>16 DEF IInv

LEMMA RestartKeeps ==
  ASSUME Topology, IInv, NEW d \in Downstream, Restart(d)
  PROVE  IInv'
  <1> DEFINE left == IF task[Upstream][d][1] = "replay" THEN NoTask ELSE task[Upstream][d]
  <1>1. /\ Types /\ CrossInv /\ OwnIsShown /\ SentUpIsMirrored /\ AsksOrFollows
        /\ DownInv /\ OutInv /\ UpInv
    BY DEF IInv
  <1>2. /\ restarts' = restarts + 1 /\ restarts < MaxRestarts
        /\ subs' = [subs EXCEPT ![d] = {}, ![Upstream] = @ \ {d}]
        /\ task' = [task EXCEPT ![d][User] = NoTask, ![Upstream][d] = left]
        /\ ingesting' = [ingesting EXCEPT ![d] = {}]
        /\ federated' = [federated EXCEPT ![d] = FALSE] /\ signing' = signing \ {d}
        /\ up' = [up EXCEPT ![d] = <<>>] /\ down' = [down EXCEPT ![d] = <<>>]
    BY DEF Restart
  <1>3. UNCHANGED <<log, covers, written, shown, promised, crossed>>
    BY DEF Restart
  <1>4. d \in Relay /\ d # Upstream /\ Upstream \in Relay /\ User \in Conn(d) /\ d \in Conn(Upstream)
    BY Shape
  <1>5. left \in Job /\ \A v : left = <<"forward", v>> <=> task[Upstream][d] = <<"forward", v>>
    <2>1. task[Upstream] \in [Conn(Upstream) -> Job]
      BY <1>1, <1>4 DEF Types
    <2>2. task[Upstream][d] \in Job
      BY <1>4, <2>1
    <2>3. \A v : <<"forward", v>>[1] # "replay" /\ NoTask # <<"forward", v>>
      BY DEF NoTask
    <2>4. QED
      BY <2>2, <2>3 DEF Job
  <1>6. \A v : left = <<"append", v>> => task[Upstream][d] = <<"append", v>>
    BY DEF NoTask
  <1> HIDE DEF left
  <1>7. /\ DOMAIN task' = Relay
        /\ \A q \in Relay : \A x \in Conn(q) :
             task'[q][x] = IF q = d /\ x = User THEN NoTask
                           ELSE IF q = Upstream /\ x = d THEN left ELSE task[q][x]
        /\ \A q \in Relay : task'[q] \in [Conn(q) -> Job]
    <2>1. DOMAIN task = Relay /\ \A q \in Relay : task[q] \in [Conn(q) -> Job]
      BY <1>1 DEF Types
    <2>2. /\ DOMAIN task' = Relay
          /\ \A q \in Relay : task'[q] = IF q = d THEN [task[d] EXCEPT ![User] = NoTask]
                                         ELSE IF q = Upstream THEN [task[Upstream] EXCEPT ![d] = left]
                                         ELSE task[q]
      BY <1>2, <1>4, <2>1
    <2>3. NoTask \in Job
      BY DEF Job
    <2>4. \A q \in Relay : task'[q] \in [Conn(q) -> Job]
      BY <1>5, <2>1, <2>2, <2>3
    <2>5. QED
      BY <1>4, <2>1, <2>2, <2>4
  <1>8. /\ subs' \in [Relay -> SUBSET ({User} \cup Downstream)]
        /\ \A q \in Relay : subs'[q] = IF q = d THEN {}
                                       ELSE IF q = Upstream THEN subs[q] \ {d} ELSE subs[q]
    BY <1>1, <1>2, <1>4 DEF Types
  <1>9. /\ ingesting' \in [Downstream -> SUBSET ({"append", "forward"} \X written)]
        /\ federated' \in [Downstream -> BOOLEAN] /\ signing' \subseteq Downstream
        /\ up' \in [Downstream -> Seq(written \cup {Demand})] /\ down' \in [Downstream -> Seq(written)]
    BY <1>1, <1>2, EmptySeq DEF Types
  <1>10. /\ restarts' \in 0..MaxRestarts /\ restarts' # 0
    BY <1>1, <1>2 DEF Types, Topology
  <1>11. /\ ~ federated'[d] /\ signing' = signing \ {d} /\ ingesting'[d] = {}
         /\ Range(up'[d]) = {} /\ Range(down'[d]) = {}
         /\ \A e \in Downstream : e # d => /\ federated'[e] = federated[e] /\ up'[e] = up[e]
                                           /\ down'[e] = down[e] /\ ingesting'[e] = ingesting[e]
    <2>1. Range(<<>>) = {}
      BY DEF Range
    <2>2. QED
      BY <1>1, <1>2, <2>1 DEF Types
  <1>12. Types'
    <2>1. Job' = Job
      BY <1>3 DEF Job
    <2>2. \A q \in Relay : subs'[q] \subseteq Conn(q)
      BY <1>1, <1>8 DEF Types
    <2>3. QED
      BY <1>1, <1>3, <1>7, <1>8, <1>9, <1>10, <2>1, <2>2 DEF Types
  <1>13. (\A e : Carried(e)' = Carried(e)) /\ (\A q, v : Has(q, v)' <=> Has(q, v))
    BY <1>3, SameContent
  <1>14. \A q \in Relay : \A x \in Conn(q), v \in Envelope :
           /\ task'[q][x] = <<"forward", v>> => task[q][x] = <<"forward", v>>
           /\ task'[q][x] = <<"append", v>> => task[q][x] = <<"append", v>>
    BY <1>5, <1>6, <1>7 DEF NoTask
  <1>15. CrossInv'
    <2>1. \A e \in Downstream : /\ Range(up'[e]) \subseteq Range(up[e])
                                /\ Range(down'[e]) \subseteq Range(down[e])
                                /\ ingesting'[e] \subseteq ingesting[e]
      BY <1>11
    <2>2. \A s \in Snapshot : Moving(s)' => Moving(s)
      BY <1>14, <2>1 DEF Moving, Topology
    <2>3. QED
      BY <1>1, <1>3, <1>13, <2>2, CrossKept
  <1>16. OwnIsShown'
    <2>1. \A q \in Relay, e \in Envelope : Writes(q, e)' => Writes(q, e)
      BY <1>14, Shape DEF Writes
    <2>2. QED
      BY <1>1, <1>3, <1>13, <2>1, OwnKept
  <1>17. SentUpIsMirrored'
    <2>1. \A x \in Downstream, e \in Envelope : SendsUp(x, e)' => SendsUp(x, e)
      BY <1>11, <1>14, Shape DEF SendsUp
    <2>2. QED
      BY <1>1, <1>3, <1>13, <2>1, SentKept
  <1>18. \A e \in Downstream : e # d => (Asking(e) <=> Asking(e)')
    BY <1>11 DEF Asking
  <1>19. AsksOrFollows'
    BY <1>1, <1>4, <1>8, <1>11, <1>18 DEF AsksOrFollows
  <1>20. DownInv'
    <2>1. \A e \in Downstream : federated'[e] => federated[e] /\ e # d
      BY <1>11
    <2>2. \A e \in Downstream : e # d /\ Awaits(e) => Awaits(e)'
      BY <1>4, <1>7, <1>18, Shape DEF Awaits
    <2>3. ASSUME NEW x \in Downstream, x # d, NEW e \in Envelope, Brings(x, e)
          PROVE  Brings(x, e)'
      <3>1. CASE \E y \in Conn(Upstream) : y # x /\ task[Upstream][y] = <<"forward", e>>
        <4>1. PICK y \in Conn(Upstream) : y # x /\ task[Upstream][y] = <<"forward", e>>
          BY <3>1
        <4>2. task'[Upstream][y] = <<"forward", e>>
          BY <1>4, <1>5, <1>7, <4>1
        <4>3. QED
          BY <4>1, <4>2 DEF Brings
      <3>2. CASE e \in Range(down[x]) \/ <<"append", e>> \in ingesting[x]
        BY <1>11, <2>3, <3>2 DEF Brings
      <3>3. QED
        BY <2>3, <3>1, <3>2 DEF Brings
    <2>4. QED
      BY <1>1, <1>3, <1>13, <2>1, <2>2, <2>3, DownKept
  <1>21. OutInv'
    <2>1. \A q \in Relay : User \in subs'[q] => q # d /\ User \in subs[q]
      BY <1>8
    <2>2. \A q \in Relay : q # d /\ Due(q) => Due(q)'
      BY <1>7, Shape DEF Due
    <2>3. ASSUME NEW q \in Relay, q # d, NEW e \in Envelope, Shows(q, e) PROVE Shows(q, e)'
      <3>1. CASE \E x \in Conn(q) : task[q][x] = <<"forward", e>>
        <4>1. \E x \in Conn(q) : task'[q][x] = <<"forward", e>>
          BY <1>5, <1>7, <2>3, <3>1
        <4>2. QED
          BY <4>1 DEF Shows
      <3>2. CASE q \in Downstream /\ <<"forward", e>> \in ingesting[q]
        BY <1>11, <2>3, <3>2 DEF Shows
      <3>3. QED
        BY <2>3, <3>1, <3>2 DEF Shows
    <2>4. QED
      BY <1>1, <1>3, <1>13, <2>1, <2>2, <2>3, OutKept
  <1>22. UpInv'
    BY <1>10 DEF UpInv
  <1>23. QED
    BY <1>12, <1>15, <1>16, <1>17, <1>19, <1>20, <1>21, <1>22 DEF IInv

LEMMA InvStep ==
  ASSUME Topology
  PROVE  IInv /\ [Next]_vars => IInv'
  <1>1. SUFFICES ASSUME IInv, [Next]_vars PROVE IInv'
    OBVIOUS
  <1>2. CASE UNCHANGED vars
    <2>1. UNCHANGED <<log, covers, subs, task, ingesting, federated, signing, up, down,
                      written, shown, promised, crossed, restarts>>
      BY <1>2 DEF vars, linkVars
    <2>2. (\A e : Carried(e)' = Carried(e)) /\ (\A q, v : Has(q, v)' <=> Has(q, v))
      BY <2>1, SameContent
    <2>3. /\ Types' /\ CrossInv' /\ OwnIsShown' /\ SentUpIsMirrored'
      BY <1>1, <2>1, <2>2
      DEF IInv, Types, Job, CrossInv, Moving, OwnIsShown, Writes, SentUpIsMirrored, SendsUp
    <2>4. /\ AsksOrFollows' /\ UpInv'
      BY <1>1, <2>1, <2>2 DEF IInv, AsksOrFollows, UpInv, Asking, GoesUp
    <2>5. DownInv' /\ OutInv'
      BY <1>1, <2>1, <2>2
      DEF IInv, DownInv, OutInv, Asking, Awaits, Brings, ComesDown, Due, Shows, ComesOut
    <2>6. QED
      BY <2>3, <2>4, <2>5 DEF IInv
  <1>3. ASSUME NEW r \in Relay, UserSubscribes(r) \/ \E w \in Envelope : UserWrites(r, w)
        PROVE  IInv'
    BY <1>1, <1>3, UserSubscribesKeeps, UserWritesKeeps
  <1>4. ASSUME NEW r \in Relay, NEW c \in Conn(r),
               Replay(r, c) \/ \E w \in Envelope : Mirror(r, c, w) \/ Forward(r, c, w)
        PROVE  IInv'
    BY <1>1, <1>4, ReplayKeeps, MirrorKeeps, ForwardKeeps
  <1>5. ASSUME NEW d \in Downstream,
               \/ AskUpstream(d) \/ HandleUp(d) \/ HandleDown(d) \/ Restart(d)
               \/ \E w \in Envelope : MirrorFederated(d, w) \/ ForwardFederated(d, w)
        PROVE  IInv'
    BY <1>1, <1>5, AskUpstreamKeeps, HandleUpKeeps, HandleDownKeeps, RestartKeeps,
       MirrorFederatedKeeps, ForwardFederatedKeeps
  <1>6. QED
    BY <1>1, <1>2, <1>3, <1>4, <1>5 DEF Next

-----------------------------------------------------------------------------
(* What the invariant says. *)

LEMMA InvIsTyped == ASSUME Topology PROVE IInv => TypeOK
  <1>1. SUFFICES ASSUME IInv PROVE TypeOK
    OBVIOUS
  <1>2. Types
    BY <1>1 DEF IInv
  <1>3. /\ log \in [Relay -> SUBSET Envelope] /\ shown \in [Relay -> SUBSET Envelope]
        /\ covers \in [Snapshot -> SUBSET Envelope]
    BY <1>2 DEF Types
  <1>4. ASSUME NEW r \in Relay
        PROVE  /\ subs[r] \subseteq Conn(r)
               /\ task[r] \in [Conn(r) ->
                    {NoTask, <<"replay", Demand>>} \cup Step("append") \cup Step("forward")]
    <2>1. Job \subseteq {NoTask, <<"replay", Demand>>} \cup Step("append") \cup Step("forward")
      BY <1>2 DEF Types, Job, Step
    <2>2. task[r] \in [Conn(r) -> Job] /\ subs[r] \subseteq Conn(r)
      BY <1>2 DEF Types
    <2>3. QED
      BY <2>1, <2>2
  <1>5. ASSUME NEW d \in Downstream
        PROVE  /\ ingesting[d] \subseteq Step("append") \cup Step("forward")
               /\ ToSet(up[d]) \subseteq Envelope \cup {Demand} /\ ToSet(down[d]) \subseteq Envelope
    <2>1. ingesting[d] \subseteq {"append", "forward"} \X Envelope
      BY <1>2 DEF Types
    <2>2. up[d] \in Seq(written \cup {Demand}) /\ down[d] \in Seq(written)
      BY <1>2 DEF Types
    <2>3. ToSet(up[d]) \subseteq written \cup {Demand} /\ ToSet(down[d]) \subseteq written
      BY <2>2 DEF ToSet
    <2>4. ingesting[d] \subseteq Step("append") \cup Step("forward")
      BY <2>1 DEF Step
    <2>5. QED
      BY <1>2, <2>3, <2>4 DEF Types
  <1>6. QED
    BY <1>2, <1>3, <1>4, <1>5 DEF TypeOK, Types

LEMMA InvGoesBothWays == ASSUME Topology PROVE IInv => BothDirections
  <1>1. SUFFICES ASSUME IInv, Quiet
                 PROVE  /\ \A d \in Downstream : federated[d] =>
                             Content(log[Upstream]) \ crossed \subseteq Content(log[d])
                        /\ \A r \in Relay : User \in subs[r] => Content(log[r]) \subseteq shown[r]
                        /\ restarts = 0 => promised \ crossed \subseteq Content(log[Upstream])
    BY DEF BothDirections
  <1>2. DownInv /\ OutInv /\ UpInv
    BY <1>1 DEF IInv
  <1>3. /\ signing = {} /\ \A r \in Relay : \A c \in Conn(r) : task[r][c] = NoTask
        /\ \A d \in Downstream : /\ Range(up[d]) = {} /\ Range(down[d]) = {}
                                 /\ ingesting[d] = {}
    <2>1. Range(<<>>) = {}
      BY DEF Range
    <2>2. QED
      BY <1>1, <2>1 DEF Quiet
  <1>4. \A d \in Downstream : \A v : ~ ComesDown(d, v)
    <2>1. \A d \in Downstream : ~ Awaits(d)
      BY <1>3, Shape DEF Awaits, Asking, NoTask
    <2>2. \A d \in Downstream, e \in Envelope : ~ Brings(d, e)
      BY <1>3, Shape DEF Brings, NoTask
    <2>3. QED
      BY <2>1, <2>2 DEF ComesDown
  <1>5. \A r \in Relay : \A v : ~ ComesOut(r, v)
    <2>1. \A r \in Relay : ~ Due(r)
      BY <1>3, Shape DEF Due, NoTask
    <2>2. \A r \in Relay, e \in Envelope : ~ Shows(r, e)
      BY <1>3, Shape DEF Shows, NoTask
    <2>3. QED
      BY <2>1, <2>2 DEF ComesOut
  <1>6. \A v : ~ GoesUp(v)
    BY <1>3, Shape DEF GoesUp, NoTask
  <1>7. \A d \in Downstream : federated[d] =>
          \A v : Has(Upstream, v) /\ v \notin crossed => Has(d, v)
    BY <1>2, <1>4 DEF DownInv
  <1>8. \A r \in Relay : User \in subs[r] => \A v : Has(r, v) => v \in shown[r]
    BY <1>2, <1>5 DEF OutInv
  <1>9. restarts = 0 => \A v \in promised \ crossed : Has(Upstream, v)
    BY <1>2, <1>6 DEF UpInv
  <1>10. \A r, v : Has(r, v) <=> v \in Content(log[r])
    BY HasIsContent
  <1>11. QED
    BY <1>7, <1>8, <1>9, <1>10

LEMMA AlwaysInv == ASSUME Topology PROVE Spec => []IInv
  <1>1. Init => IInv
    BY InvInit
  <1>2. IInv /\ [Next]_vars => IInv'
    BY InvStep
  <1>3. QED
    BY <1>1, <1>2, PTL DEF Spec

(* The variables keep their types: relay.js and federation.js queue nothing *)
(* on a link but envelopes and the one request to subscribe.                *)
THEOREM TypeCorrect == ASSUME Topology PROVE Spec => []TypeOK
  <1>1. IInv => TypeOK
    BY InvIsTyped
  <1>2. QED
    BY <1>1, AlwaysInv, PTL

(* "BIDIRECTIONAL once federated" (federation.js:28), as far as snapshots   *)
(* leave it so: a write that crosses with no snapshot, and that is replayed *)
(* to no relay beside an older one, survives every replacement of a mirror  *)
(* (acceptWrite(), relay.js:848), in whatever order ingestFederated() takes *)
(* in what comes down a link, since any snapshot still on its way has it.   *)
(* So with nothing under way a federated relay has it if its upstream does, *)
(* whether it was written before, between or after request, replay and      *)
(* restarts; users have been shown what their relay has; and what they      *)
(* wrote since is upstream unless a restart cut it off.                     *)
THEOREM FederatedBothWays == ASSUME Topology PROVE Spec => []BothDirections
  <1>1. IInv => BothDirections
    BY InvGoesBothWays
  <1>2. QED
    BY <1>1, AlwaysInv, PTL
=============================================================================
