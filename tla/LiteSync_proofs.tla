--------------------------- MODULE LiteSync_proofs ---------------------------
(***************************************************************************)
(* Proofs about LiteSync, for any devices, envelopes, sessions and bounds. *)
(***************************************************************************)
EXTENDS LiteSync, FiniteSetTheorems, SequenceTheorems, WellFoundedInduction, TLAPS

-----------------------------------------------------------------------------
(* The inductive invariant, by groups of variables. *)

(* What the mirror says of envelopes while it holds those in `st`. *)
Told(st) == {m \in Msg : m.ids \subseteq st}

DurableOK ==
  /\ held \in [Client -> SUBSET Rec] /\ outbox \in [Client -> SUBSET Rec]
  /\ pending \in [Client -> BOOLEAN] /\ store \in SUBSET Rec
  /\ \A c \in Client : outbox[c] \subseteq held[c]

(* What a client ingests has come from the mirror's store. *)
ClientOK ==
  /\ active \in [Client -> BOOLEAN] /\ sess \in [Client -> [Slot -> Session]]
  /\ greet \in [Client -> {"none", "announcing", "done"}]
  /\ local \in [Client -> SUBSET Rec] /\ pipe \in [Client -> SUBSET store]

(* The mirror sends and acks what it has stored. *)
LinkOK ==
  /\ link \in [Client -> {"down", "up", "dead"}] /\ hiDone \in [Client -> BOOLEAN]
  /\ toM \in [Client -> Seq(Msg)] /\ toC \in [Client -> Seq(Told(store))]

MirrorOK ==
  /\ peers \in SUBSET Client /\ pipeM \subseteq Rec \X (Client \cup {Other})
  /\ fresh \subseteq store \X (Client \cup {Other})

(* Each dead link is of a fault that counts. *)
FaultOK ==
  /\ breaks \in 0..MaxBreaks /\ reloads \in 0..MaxReloads
  /\ restarts \in 0..MaxRestarts /\ timeouts \in 0..MaxTimeouts
  /\ stale \in [Client -> Nat] /\ \A c \in Client : stale[c] <= breaks + reloads

IInv == DurableOK /\ ClientOK /\ LinkOK /\ MirrorOK /\ FaultOK /\ SentIsMirrored

-----------------------------------------------------------------------------
(* Frames and sequences of them. *)

LEMMA PlainIsMsg ==
  ASSUME NEW ids \in SUBSET Rec, NEW t \in {"hi", "hello", "rec", "ack", "want"}
  PROVE  /\ Plain(t, ids) \in Msg /\ Plain(t, ids).ids = ids
         /\ \A st : ids \subseteq st => Plain(t, ids) \in Told(st)
BY DEF Plain, Msg, Told

LEMMA ToldGrows ==
  ASSUME NEW st, NEW more, st \subseteq more, NEW s \in Seq(Told(st))
  PROVE  s \in Seq(Told(more))
  <1>1. Told(st) \subseteq Told(more)
    BY DEF Told
  <1>2. QED
    BY <1>1, SeqMonotonic

LEMMA ToldIsMsg ==
  ASSUME NEW st, NEW s \in Seq(Told(st))
  PROVE  s \in Seq(Msg)
  <1>1. Told(st) \subseteq Msg
    BY DEF Told
  <1>2. QED
    BY <1>1, SeqMonotonic

(* A finite set makes a sequence of its elements. *)
LEMMA SetToSeqElements ==
  ASSUME NEW S, IsFiniteSet(S)
  PROVE  SetToSeq(S) \in Seq(S)
  <1> DEFINE n == Cardinality(S)
  <1>1. n \in Nat /\ ExistsBijection(1..n, S)
    BY FS_CardinalityType
  <1>2. \E f \in [1..n -> S] : IsInjective(f)
    BY <1>1 DEF ExistsBijection, Bijection, Injection
  <1>3. SetToSeq(S) \in [1..n -> S]
    BY <1>2 DEF SetToSeq
  <1> HIDE DEF n
  <1>4. QED
    BY <1>1, <1>3

LEMMA RecsAreTold ==
  ASSUME NEW ids \in SUBSET Rec, NEW st, ids \subseteq st
  PROVE  Recs(ids) \in Seq(Told(st)) /\ Recs(ids) \in Seq(Msg)
  <1> DEFINE S == {Plain("rec", {r}) : r \in ids}
             f == [r \in ids |-> Plain("rec", {r})]
  <1>1. IsFiniteSet(ids)
    BY FS_Subset, BoundsAssumption
  <1>2. f \in Surjection(ids, S)
    BY DEF Surjection
  <1>3. IsFiniteSet(S)
    BY <1>1, <1>2, FS_Surjection
  <1>4. \A r \in ids : Plain("rec", {r}) \in Told(st)
    BY PlainIsMsg
  <1>5. S \subseteq Told(st)
    BY <1>4
  <1>6. Recs(ids) \in Seq(S)
    BY <1>3, SetToSeqElements DEF Recs
  <1>7. Recs(ids) \in Seq(Told(st))
    BY <1>5, <1>6, SeqMonotonic
  <1>8. QED
    BY <1>7, ToldIsMsg

(* Leaving out a frame leaves frames. *)
LEMMA WithoutElements ==
  ASSUME NEW S, NEW frames \in Seq(S), NEW s
  PROVE  Without(frames, s) \in Seq(S)
  <1>1. CASE \E i \in 1..Len(frames) : frames[i].s = s
    <2> DEFINE i == CHOOSE j \in 1..Len(frames) : frames[j].s = s
               front == SubSeq(frames, 1, i - 1)
               rest == SubSeq(frames, i + 1, Len(frames))
    <2>1. i \in 1..Len(frames) /\ Len(frames) \in Nat
      BY <1>1
    <2>2. Without(frames, s) = front \o rest
      BY <1>1 DEF Without, RemoveAt
    <2> HIDE DEF i
    <2>3. \A k \in 1..Len(frames) : frames[k] \in S
      BY ElementOfSeq
    <2>4. front \in Seq(S) /\ rest \in Seq(S)
      BY <2>1, <2>3, SubSeqProperties
    <2>5. QED
      BY <2>2, <2>4, ConcatProperties
  <1>2. CASE ~ \E i \in 1..Len(frames) : frames[i].s = s
    BY <1>2 DEF Without
  <1>3. QED
    BY <1>1, <1>2

-----------------------------------------------------------------------------
(* Queues. *)

LEMMA SentFrames ==
  ASSUME LinkOK, NEW c \in Client, NEW frames \in Seq(Msg)
  PROVE  Sent(c, frames) \in [Client -> Seq(Msg)]
  <1>1. toM[c] \o frames \in Seq(Msg)
    BY ConcatProperties DEF LinkOK
  <1>2. QED
    BY <1>1 DEF Sent, LinkOK

LEMMA RepliedFrames ==
  ASSUME NEW c \in Client, NEW S, NEW q \in [Client -> Seq(S)], NEW frames \in Seq(S)
  PROVE  [q EXCEPT ![c] = @ \o frames] \in [Client -> Seq(S)]
  <1>1. q[c] \o frames \in Seq(S)
    BY ConcatProperties
  <1>2. QED
    BY <1>1

LEMMA QueueTail ==
  ASSUME NEW c \in Client, NEW S, NEW q \in [Client -> Seq(S)], q[c] # <<>>
  PROVE  /\ Head(q[c]) \in S
         /\ [q EXCEPT ![c] = Tail(@)] \in [Client -> Seq(S)]
  <1>1. Head(q[c]) \in S /\ Tail(q[c]) \in Seq(S)
    BY HeadTailProperties
  <1>2. QED
    BY <1>1

LEMMA AckFrames ==
  ASSUME NEW c \in Client \cup {Other}, NEW r \in store, store \subseteq Rec, MirrorOK,
         NEW q \in [Client -> Seq(Told(store))]
  PROVE  AckTo(c, r, q) \in [Client -> Seq(Told(store))]
  <1>1. CASE CanAck(c)
    <2>1. c \in Client
      BY <1>1 DEF CanAck, MirrorOK
    <2>2. Plain("ack", {r}) \in Told(store)
      BY PlainIsMsg
    <2>3. Append(q[c], Plain("ack", {r})) \in Seq(Told(store))
      BY <2>1, <2>2
    <2>4. QED
      BY <1>1, <2>1, <2>3 DEF AckTo
  <1>2. CASE ~ CanAck(c)
    BY <1>2 DEF AckTo
  <1>3. QED
    BY <1>1, <1>2

LEMMA ReadingTypes ==
  ASSUME IInv
  PROVE  TypeOK
  <1>1. toC \in [Client -> Seq(Msg)]
    BY ToldIsMsg DEF IInv, LinkOK
  <1>2. stale \in [Client -> 0 .. MaxBreaks + MaxReloads]
    BY BoundsAssumption DEF IInv, FaultOK
  <1>3. QED
    BY <1>1, <1>2 DEF IInv, DurableOK, ClientOK, LinkOK, MirrorOK, FaultOK, TypeOK

-----------------------------------------------------------------------------
(* The steps of a client. *)

LEMMA WriteStep ==
  ASSUME IInv, NEW c \in Client, NEW r \in Rec, Write(c, r)
  PROVE  IInv'
  <1>1. /\ held' = [held EXCEPT ![c] = @ \cup {r}]
        /\ outbox' = [outbox EXCEPT ![c] = @ \cup {r}]
        /\ local' = [local EXCEPT ![c] = @ \cup {r}]
        /\ UNCHANGED <<pending, store, active, sess, greet, pipe, linkVars, mirrorVars,
                       boundVars>>
    BY DEF Write, Queued
  <1>2. DurableOK' /\ SentIsMirrored'
    BY <1>1 DEF IInv, DurableOK, SentIsMirrored
  <1>3. ClientOK'
    BY <1>1 DEF IInv, ClientOK
  <1>4. LinkOK' /\ MirrorOK' /\ FaultOK'
    BY <1>1 DEF IInv, LinkOK, MirrorOK, FaultOK, linkVars, mirrorVars, boundVars
  <1>5. QED
    BY <1>2, <1>3, <1>4 DEF IInv

LEMMA ForwardStep ==
  ASSUME IInv, NEW c \in Client, NEW r \in Rec, Forward(c, r)
  PROVE  IInv'
  <1>1. Recs({r}) \in Seq(Msg)
    BY RecsAreTold
  <1>2. toM' \in [Client -> Seq(Msg)]
    BY <1>1, SentFrames DEF Forward, IInv, LinkOK
  <1>3. /\ local' = [local EXCEPT ![c] = @ \ {r}]
        /\ UNCHANGED <<durableVars, active, sess, greet, pipe, link, hiDone, toC, stale,
                       mirrorVars, boundVars>>
    BY DEF Forward
  <1>4. DurableOK' /\ SentIsMirrored'
    BY <1>3 DEF IInv, DurableOK, SentIsMirrored, durableVars
  <1>5. ClientOK'
    BY <1>3 DEF IInv, ClientOK, durableVars
  <1>6. LinkOK' /\ MirrorOK' /\ FaultOK'
    BY <1>2, <1>3 DEF IInv, LinkOK, MirrorOK, FaultOK, durableVars, mirrorVars, boundVars
  <1>7. QED
    BY <1>4, <1>5, <1>6 DEF IInv

LEMMA ConnectStep ==
  ASSUME IInv, NEW c \in Client, Connect(c) \/ HandleHi(c)
  PROVE  IInv'
  <1>1. UNCHANGED <<durableVars, clientVars, stale, pipeM, fresh, boundVars>>
    BY DEF Connect, HandleHi, mirrorVars
  <1>2. LinkOK' /\ MirrorOK'
    <2>1. CASE Connect(c)
      <3>1. <<Plain("hi", {})>> \in Seq(Msg)
        BY PlainIsMsg
      <3>2. QED
        BY <1>1, <2>1, <3>1 DEF Connect, IInv, LinkOK, MirrorOK, mirrorVars, durableVars
    <2>2. CASE HandleHi(c)
      <3>1. <<Plain("hello", {})>> \in Seq(Told(store))
        BY PlainIsMsg
      <3>2. toC' \in [Client -> Seq(Told(store))]
        BY <2>2, <3>1, RepliedFrames DEF HandleHi, Replied, IInv, LinkOK
      <3>3. toM' \in [Client -> Seq(Msg)]
        BY <2>2, QueueTail DEF HandleHi, IInv, LinkOK
      <3>4. QED
        BY <1>1, <2>2, <3>2, <3>3 DEF HandleHi, IInv, LinkOK, MirrorOK, durableVars
    <2>3. QED
      BY <2>1, <2>2
  <1>3. DurableOK' /\ ClientOK' /\ FaultOK' /\ SentIsMirrored'
    BY <1>1 DEF IInv, DurableOK, ClientOK, FaultOK, SentIsMirrored, durableVars, clientVars,
       boundVars
  <1>4. QED
    BY <1>2, <1>3 DEF IInv

(* Arithmetic of FaultOK: one more fault allows one more dead link. *)
LEMMA OneMore ==
  ASSUME NEW x \in Nat, NEW y \in Nat, NEW a \in Nat, NEW b \in Nat,
         NEW k \in Nat, NEW l \in Nat, x <= a + b, y <= x + 1, k + l = a + b + 1
  PROVE  y <= k + l
  OBVIOUS

(* Links that break, on either side. *)
LEMMA CutStep ==
  ASSUME IInv, NEW c \in Client, Break(c) \/ Reload(c)
  PROVE  IInv'
  <1>1. PICK to \in {"dead", "down"} : Cut(c, to)
    BY DEF Break, Reload
  <1>2. UNCHANGED <<durableVars, mirrorVars, restarts, timeouts>>
    BY DEF Break, Reload
  <1>3. /\ breaks' + reloads' = breaks + reloads + 1
        /\ breaks' \in 0..MaxBreaks /\ reloads' \in 0..MaxReloads
    BY BoundsAssumption DEF Break, Reload, IInv, FaultOK
  <1>4. FaultOK'
    <2>1. stale' \in [Client -> Nat] /\ \A d \in Client : stale'[d] <= stale[d] + 1
      BY <1>1 DEF Cut, IInv, FaultOK
    <2>2. ASSUME NEW d \in Client PROVE stale'[d] <= breaks' + reloads'
      <3>1. /\ stale[d] \in Nat /\ stale'[d] \in Nat /\ stale[d] <= breaks + reloads
            /\ stale'[d] <= stale[d] + 1
        BY <2>1 DEF IInv, FaultOK
      <3>2. breaks \in Nat /\ reloads \in Nat /\ breaks' \in Nat /\ reloads' \in Nat
        BY <1>3, BoundsAssumption DEF IInv, FaultOK
      <3>3. breaks' + reloads' = breaks + reloads + 1
        BY <1>3
      <3>4. QED
        BY <3>1, <3>2, <3>3, OneMore
    <2>3. QED
      BY <1>2, <1>3, <2>1, <2>2 DEF IInv, FaultOK
  <1>5. LinkOK'
    <2>1. <<>> \in Seq(Msg) /\ <<>> \in Seq(Told(store))
      BY EmptySeq
    <2>2. QED
      BY <1>1, <1>2, <2>1 DEF Cut, IInv, LinkOK, durableVars
  <1>6. ClientOK'
    <2>1. CASE Break(c)
      BY <1>2, <2>1 DEF Break, IInv, ClientOK, clientVars, durableVars
    <2>2. CASE Reload(c)
      <3>1. [s \in Slot |-> NoSession] \in [Slot -> Session]
        BY DEF NoSession, Session
      <3>2. QED
        BY <1>2, <2>2, <3>1 DEF Reload, IInv, ClientOK, durableVars
    <2>3. QED
      BY <2>1, <2>2
  <1>7. DurableOK' /\ MirrorOK' /\ SentIsMirrored'
    BY <1>2 DEF IInv, DurableOK, MirrorOK, SentIsMirrored, durableVars, mirrorVars
  <1>8. QED
    BY <1>4, <1>5, <1>6, <1>7 DEF IInv

LEMMA ClientDownStep ==
  ASSUME IInv, NEW c \in Client, ClientDown(c)
  PROVE  IInv'
  <1>1. UNCHANGED <<durableVars, local, pipe, hiDone, toM, toC, stale, mirrorVars, boundVars>>
    BY DEF ClientDown
  <1>2. ClientOK'
    <2>1. [s \in Slot |-> IF sess[c][s].step = "load" THEN sess[c][s] ELSE NoSession]
            \in [Slot -> Session]
      BY DEF IInv, ClientOK, NoSession, Session
    <2>2. sess' \in [Client -> [Slot -> Session]]
      BY <2>1 DEF ClientDown, IInv, ClientOK
    <2>3. active' \in [Client -> BOOLEAN]
      BY DEF ClientDown, IInv, ClientOK
    <2>4. QED
      BY <1>1, <2>2, <2>3 DEF ClientDown, IInv, ClientOK, durableVars
  <1>3. LinkOK'
    BY <1>1 DEF ClientDown, IInv, LinkOK, durableVars
  <1>4. DurableOK' /\ MirrorOK' /\ FaultOK' /\ SentIsMirrored'
    BY <1>1 DEF IInv, DurableOK, MirrorOK, FaultOK, SentIsMirrored, durableVars,
       mirrorVars, boundVars
  <1>5. QED
    BY <1>2, <1>3, <1>4 DEF IInv

LEMMA MirrorCloseStep ==
  ASSUME IInv, NEW c \in Client, MirrorClose(c)
  PROVE  IInv'
  <1>1. /\ UNCHANGED <<durableVars, clientVars, link, hiDone, toM, toC, pipeM, fresh, boundVars>>
        /\ stale[c] > 0 /\ stale' = [stale EXCEPT ![c] = @ - 1] /\ peers' = peers \ {c}
    BY DEF MirrorClose
  <1>2. FaultOK'
    BY <1>1, BoundsAssumption DEF IInv, FaultOK, boundVars
  <1>3. DurableOK' /\ ClientOK' /\ LinkOK' /\ MirrorOK' /\ SentIsMirrored'
    BY <1>1 DEF IInv, DurableOK, ClientOK, LinkOK, MirrorOK, SentIsMirrored, durableVars,
       clientVars
  <1>4. QED
    BY <1>2, <1>3 DEF IInv

LEMMA RestartStep ==
  ASSUME IInv, MirrorRestart
  PROVE  IInv'
  <1>1. UNCHANGED <<durableVars, clientVars, breaks, reloads, timeouts>>
    BY DEF MirrorRestart
  <1>2. LinkOK' /\ MirrorOK'
    <2>1. <<>> \in Seq(Msg) /\ <<>> \in Seq(Told(store))
      BY EmptySeq
    <2>2. QED
      BY <1>1, <2>1 DEF MirrorRestart, IInv, LinkOK, MirrorOK, durableVars
  <1>3. FaultOK'
    BY <1>1, BoundsAssumption DEF MirrorRestart, IInv, FaultOK
  <1>4. DurableOK' /\ ClientOK' /\ SentIsMirrored'
    BY <1>1 DEF IInv, DurableOK, ClientOK, SentIsMirrored, durableVars, clientVars
  <1>5. QED
    BY <1>2, <1>3, <1>4 DEF IInv

-----------------------------------------------------------------------------
(* Sessions. *)

LEMMA StartedTypes ==
  ASSUME IInv, NEW c \in Client, Started(c)
  PROVE  /\ sess' \in [Client -> [Slot -> Session]]
         /\ pending' \in [Client -> BOOLEAN] /\ active' \in [Client -> BOOLEAN]
  <1>1. PICK s \in Slot :
          sess' = [sess EXCEPT ![c][s] = [step |-> "load", items |-> held[c], wait |-> {}]]
    BY DEF Started
  <1>2. [step |-> "load", items |-> held[c], wait |-> {}] \in Session
    BY DEF Session, IInv, DurableOK
  <1>3. sess' \in [Client -> [Slot -> Session]]
    BY <1>1, <1>2 DEF IInv, ClientOK
  <1>4. QED
    BY <1>3 DEF Started, IInv, ClientOK, DurableOK

LEMMA FinishedTypes ==
  ASSUME IInv, NEW c \in Client, NEW S, NEW complete \in BOOLEAN, Finished(c, S, complete)
  PROVE  pending' \in [Client -> BOOLEAN] /\ active' \in [Client -> BOOLEAN]
BY DEF Finished, IInv, ClientOK, DurableOK

LEMMA NewSession ==
  ASSUME IInv, NEW c \in Client, NEW s \in Slot, NEW x \in Session
  PROVE  [sess EXCEPT ![c][s] = x] \in [Client -> [Slot -> Session]]
BY DEF IInv, ClientOK

(* hello, the outbox, a reconcile that starts or starts again. *)
LEMMA HelloStep ==
  ASSUME IInv, NEW c \in Client, ReceiveHello(c) \/ GreetMirror(c) \/ Retry(c)
  PROVE  IInv'
  <1>1. UNCHANGED <<held, outbox, store, local, pipe, link, hiDone, stale, mirrorVars, boundVars>>
    BY DEF ReceiveHello, GreetMirror, Retry, durableVars, linkVars
  <1>2. /\ sess' \in [Client -> [Slot -> Session]]
        /\ pending' \in [Client -> BOOLEAN] /\ active' \in [Client -> BOOLEAN]
    <2>1. CASE Started(c)
      BY <2>1, StartedTypes
    <2>2. CASE UNCHANGED <<sess, pending, active>>
      BY <2>2 DEF IInv, ClientOK, DurableOK
    <2>3. QED
      BY <2>1, <2>2 DEF ReceiveHello, GreetMirror, Retry, durableVars
  <1>3. greet' \in [Client -> {"none", "announcing", "done"}]
    BY DEF ReceiveHello, GreetMirror, Retry, IInv, ClientOK
  <1>4. toM' \in [Client -> Seq(Msg)]
    <2>1. Unacked(c) \in SUBSET Rec
      BY DEF Unacked, IInv, DurableOK
    <2>2. Recs(Unacked(c)) \in Seq(Msg)
      BY <2>1, RecsAreTold
    <2>3. Sent(c, Recs(Unacked(c))) \in [Client -> Seq(Msg)]
      BY <2>2, SentFrames DEF IInv
    <2>4. QED
      BY <2>3 DEF ReceiveHello, GreetMirror, Retry, linkVars, IInv, LinkOK
  <1>5. toC' \in [Client -> Seq(Told(store))]
    <2>1. CASE ReceiveHello(c)
      BY <2>1, QueueTail DEF ReceiveHello, IInv, LinkOK
    <2>2. CASE GreetMirror(c) \/ Retry(c)
      BY <2>2 DEF GreetMirror, Retry, linkVars, IInv, LinkOK
    <2>3. QED
      BY <2>1, <2>2
  <1>6. QED
    BY <1>1, <1>2, <1>3, <1>4, <1>5 DEF IInv, DurableOK, ClientOK, LinkOK, MirrorOK, FaultOK,
       SentIsMirrored, mirrorVars, boundVars

LEMMA SendNegStep ==
  ASSUME IInv, NEW c \in Client, NEW s \in Slot, SendNeg(c, s)
  PROVE  IInv'
  <1>1. UNCHANGED <<held, outbox, store, greet, local, pipe, link, hiDone, toC, stale,
                    mirrorVars, boundVars>>
    BY DEF SendNeg
  <1>2. /\ sess' \in [Client -> [Slot -> Session]]
        /\ pending' \in [Client -> BOOLEAN] /\ active' \in [Client -> BOOLEAN]
        /\ toM' \in [Client -> Seq(Msg)]
    <2>1. CASE Linked(c)
      <3>1. [t |-> "neg", ids |-> {}, s |-> s] \in Msg
        BY DEF Msg
      <3>2. <<[t |-> "neg", ids |-> {}, s |-> s]>> \in Seq(Msg)
        BY <3>1
      <3>3. toM' \in [Client -> Seq(Msg)]
        BY <2>1, <3>2, SentFrames DEF SendNeg, IInv
      <3>4. sess' \in [Client -> [Slot -> Session]]
        <4>1. [sess[c][s] EXCEPT !.step = "neg"] \in Session
          <5>1. sess[c][s] \in Session
            BY DEF IInv, ClientOK
          <5>2. QED
            BY <5>1 DEF Session
        <4>2. sess' = [sess EXCEPT ![c][s] = [sess[c][s] EXCEPT !.step = "neg"]]
          BY <2>1 DEF SendNeg
        <4>3. QED
          BY <4>1, <4>2, NewSession
      <3>5. QED
        BY <2>1, <3>3, <3>4 DEF SendNeg, IInv, ClientOK, DurableOK
    <2>2. CASE ~ Linked(c)
      <3>1. NoSession \in Session
        BY DEF NoSession, Session
      <3>2. /\ sess' = [sess EXCEPT ![c][s] = NoSession]
            /\ Finished(c, {s}, FALSE) /\ toM' = toM
        BY <2>2 DEF SendNeg
      <3>3. sess' \in [Client -> [Slot -> Session]]
        BY <3>1, <3>2, NewSession
      <3>4. pending' \in [Client -> BOOLEAN] /\ active' \in [Client -> BOOLEAN]
        BY <3>2, FinishedTypes
      <3>5. QED
        BY <3>2, <3>3, <3>4 DEF IInv, LinkOK
    <2>3. QED
      BY <2>1, <2>2
  <1>3. QED
    BY <1>1, <1>2 DEF IInv, DurableOK, ClientOK, LinkOK, MirrorOK, FaultOK,
       SentIsMirrored, mirrorVars, boundVars

LEMMA TimeoutStep ==
  ASSUME IInv, NEW c \in Client, NEW s \in Slot, Timeout(c, s)
  PROVE  IInv'
  <1>1. UNCHANGED <<held, outbox, store, greet, local, pipe, link, hiDone, stale, mirrorVars,
                    breaks, reloads, restarts>>
    BY DEF Timeout
  <1>2. NoSession \in Session
    BY DEF NoSession, Session
  <1>3. /\ sess' \in [Client -> [Slot -> Session]]
        /\ pending' \in [Client -> BOOLEAN] /\ active' \in [Client -> BOOLEAN]
    BY <1>2, NewSession, FinishedTypes DEF Timeout
  <1>4. toM' \in [Client -> Seq(Msg)] /\ toC' \in [Client -> Seq(Told(store))]
    <2>1. Without(toM[c], s) \in Seq(Msg) /\ Without(toC[c], s) \in Seq(Told(store))
      BY WithoutElements DEF IInv, LinkOK
    <2>2. QED
      BY <2>1 DEF Timeout, IInv, LinkOK
  <1>5. timeouts' \in 0..MaxTimeouts
    BY BoundsAssumption DEF Timeout, IInv, FaultOK
  <1>6. QED
    BY <1>1, <1>3, <1>4, <1>5 DEF IInv, DurableOK, ClientOK, LinkOK, MirrorOK, FaultOK,
       SentIsMirrored, mirrorVars

-----------------------------------------------------------------------------
(* Frames that arrive. *)

(* At the client: what the frame names, the mirror has stored. *)
LEMMA HeadTold ==
  ASSUME IInv, NEW c \in Client, toC[c] # <<>>
  PROVE  /\ Head(toC[c]) \in Msg /\ Head(toC[c]).ids \subseteq store
         /\ [toC EXCEPT ![c] = Tail(@)] \in [Client -> Seq(Told(store))]
  <1>1. /\ Head(toC[c]) \in Told(store)
        /\ [toC EXCEPT ![c] = Tail(@)] \in [Client -> Seq(Told(store))]
    BY QueueTail DEF IInv, LinkOK
  <1>2. QED
    BY <1>1 DEF Told

LEMMA ReceiveNegrStep ==
  ASSUME IInv, NEW c \in Client, ReceiveNegr(c)
  PROVE  IInv'
  <1> DEFINE s == Head(toC[c]).s
             have == sess[c][s].items \ Head(toC[c]).ids
             need == Head(toC[c]).ids \ sess[c][s].items
             want == [t |-> "want", ids |-> need, s |-> 0]
             out == Recs(have) \o IF need = {} THEN <<>> ELSE <<want>>
  <1>1. /\ toC[c] # <<>> /\ Head(toC[c]).t = "negr"
        /\ toC' = [toC EXCEPT ![c] = Tail(@)]
        /\ toM' = Sent(c, out)
        /\ UNCHANGED <<held, outbox, store, greet, local, pipe, link, hiDone, stale,
                       mirrorVars, boundVars>>
    BY DEF ReceiveNegr
  <1>2. /\ Head(toC[c]) \in Msg /\ Head(toC[c]).ids \subseteq store
        /\ toC' \in [Client -> Seq(Told(store))]
    BY <1>1, HeadTold
  <1>3. s \in Slot /\ sess[c][s] \in Session /\ store \subseteq Rec
    BY <1>1, <1>2 DEF Msg, IInv, ClientOK, DurableOK
  <1>4. have \in SUBSET Rec /\ need \in SUBSET Rec
    BY <1>2, <1>3 DEF Session
  <1>5. toM' \in [Client -> Seq(Msg)]
    <2>1. Recs(have) \in Seq(Msg)
      BY <1>4, RecsAreTold
    <2>2. want \in Msg
      BY <1>4 DEF Msg
    <2>3. (IF need = {} THEN <<>> ELSE <<want>>) \in Seq(Msg)
      BY <2>2
    <2>4. out \in Seq(Msg)
      BY <2>1, <2>3, ConcatProperties
    <2>5. QED
      BY <1>1, <2>4, SentFrames DEF IInv
  <1>6. /\ sess' \in [Client -> [Slot -> Session]]
        /\ pending' \in [Client -> BOOLEAN] /\ active' \in [Client -> BOOLEAN]
    <2>1. CASE need = {}
      <3>1. sess' = [sess EXCEPT ![c][s] = NoSession] /\ Finished(c, {s}, TRUE)
        BY <2>1 DEF ReceiveNegr
      <3>2. NoSession \in Session
        BY DEF NoSession, Session
      <3>3. sess' \in [Client -> [Slot -> Session]]
        BY <1>3, <3>1, <3>2, NewSession
      <3>4. QED
        BY <3>1, <3>3, FinishedTypes
    <2>2. CASE need # {}
      <3> DEFINE x == [sess[c][s] EXCEPT !.step = "want", !.wait = need]
      <3>1. /\ sess' = [sess EXCEPT ![c][s].step = "want", ![c][s].wait = need]
            /\ UNCHANGED <<pending, active>>
        BY <2>2 DEF ReceiveNegr
      <3>2. x \in Session
        BY <1>3, <1>4 DEF Session
      <3>3. sess' = [sess EXCEPT ![c][s] = x]
        BY <1>3, <3>1 DEF IInv, ClientOK, Session
      <3> HIDE DEF x
      <3>4. sess' \in [Client -> [Slot -> Session]]
        BY <1>3, <3>2, <3>3, NewSession
      <3>5. QED
        BY <3>1, <3>4 DEF IInv, DurableOK, ClientOK
    <2>3. QED
      BY <2>1, <2>2
  <1>7. QED
    BY <1>1, <1>2, <1>5, <1>6 DEF IInv, DurableOK, ClientOK, LinkOK, MirrorOK, FaultOK,
       SentIsMirrored, mirrorVars, boundVars

LEMMA ReceiveRecStep ==
  ASSUME IInv, NEW c \in Client, ReceiveRec(c)
  PROVE  IInv'
  <1>1. /\ UNCHANGED <<durableVars, active, sess, greet, local, link, hiDone, toM, stale,
                       mirrorVars, boundVars>>
        /\ toC' \in [Client -> Seq(Told(store))]
        /\ pipe' \in [Client -> SUBSET store]
    BY HeadTold DEF ReceiveRec, IInv, ClientOK
  <1>2. DurableOK' /\ ClientOK' /\ SentIsMirrored'
    BY <1>1 DEF IInv, DurableOK, ClientOK, SentIsMirrored, durableVars
  <1>3. LinkOK' /\ MirrorOK' /\ FaultOK'
    BY <1>1 DEF IInv, LinkOK, MirrorOK, FaultOK, durableVars, mirrorVars, boundVars
  <1>4. QED
    BY <1>2, <1>3 DEF IInv

(* A device may hold its own envelope again: then the mirror has it. *)
LEMMA CommitRecStep ==
  ASSUME IInv, NEW c \in Client, NEW r \in Rec, CommitRec(c, r)
  PROVE  IInv'
  <1> DEFINE settled == {s \in Slot : sess[c][s].wait = {r}}
             after == [s \in Slot |-> IF s \in settled THEN NoSession
                                      ELSE [sess[c][s] EXCEPT !.wait = sess[c][s].wait \ {r}]]
  <1>1. /\ r \in pipe[c] /\ pipe' = [pipe EXCEPT ![c] = @ \ {r}]
        /\ held' = [held EXCEPT ![c] = @ \cup {r}]
        /\ sess' = [sess EXCEPT ![c] = after]
        /\ Finished(c, settled, TRUE)
        /\ UNCHANGED <<outbox, store, greet, local, linkVars, mirrorVars, boundVars>>
    BY DEF CommitRec
  <1>2. r \in store
    BY <1>1 DEF IInv, ClientOK
  <1>3. after \in [Slot -> Session]
    <2>1. ASSUME NEW s \in Slot PROVE after[s] \in Session
      <3>1. sess[c][s] \in Session
        BY DEF IInv, ClientOK
      <3>2. QED
        BY <3>1 DEF Session, NoSession
    <2>2. QED
      BY <2>1
  <1> HIDE DEF after, settled
  <1>4. pending' \in [Client -> BOOLEAN] /\ active' \in [Client -> BOOLEAN]
    BY <1>1, FinishedTypes
  <1>5. DurableOK' /\ SentIsMirrored'
    BY <1>1, <1>2, <1>4 DEF IInv, DurableOK, SentIsMirrored
  <1>6. ClientOK'
    BY <1>1, <1>3, <1>4 DEF IInv, ClientOK
  <1>7. LinkOK' /\ MirrorOK' /\ FaultOK'
    BY <1>1 DEF IInv, LinkOK, MirrorOK, FaultOK, linkVars, mirrorVars, boundVars
  <1>8. QED
    BY <1>5, <1>6, <1>7 DEF IInv

(* An ack names what is stored: nothing leaves the outbox before. *)
LEMMA ReceiveAckStep ==
  ASSUME IInv, NEW c \in Client, ReceiveAck(c)
  PROVE  IInv'
  <1> DEFINE acked == Acknowledged(c, Head(toC[c]).ids)
  <1>1. /\ outbox' = [outbox EXCEPT ![c] = @ \ acked]
        /\ UNCHANGED <<held, pending, store, clientVars, link, hiDone, toM, stale, mirrorVars,
                       boundVars>>
    BY DEF ReceiveAck
  <1>2. acked \subseteq store /\ toC' \in [Client -> Seq(Told(store))]
    BY HeadTold DEF ReceiveAck, Acknowledged
  <1> HIDE DEF acked
  <1>3. DurableOK' /\ SentIsMirrored'
    BY <1>1, <1>2 DEF IInv, DurableOK, SentIsMirrored
  <1>4. ClientOK' /\ LinkOK' /\ MirrorOK' /\ FaultOK'
    BY <1>1, <1>2 DEF IInv, ClientOK, LinkOK, MirrorOK, FaultOK, clientVars, mirrorVars,
       boundVars
  <1>5. QED
    BY <1>3, <1>4 DEF IInv

-----------------------------------------------------------------------------
(* The steps of the mirror. *)

LEMMA AnswerStep ==
  ASSUME IInv, NEW c \in Client, HandleNeg(c) \/ HandleWant(c)
  PROVE  IInv'
  <1>1. /\ toM[c] # <<>> /\ toM' = [toM EXCEPT ![c] = Tail(@)]
        /\ UNCHANGED <<durableVars, clientVars, link, hiDone, stale, mirrorVars, boundVars>>
    BY DEF HandleNeg, HandleWant
  <1>2. Head(toM[c]) \in Msg /\ toM' \in [Client -> Seq(Msg)]
    BY <1>1, QueueTail DEF IInv, LinkOK
  <1>3. store \in SUBSET Rec
    BY DEF IInv, DurableOK
  <1>4. PICK frames \in Seq(Told(store)) : toC' = Replied(c, frames)
    <2>1. CASE HandleNeg(c)
      <3> DEFINE reply == [t |-> "negr", ids |-> store, s |-> Head(toM[c]).s]
      <3>1. Head(toM[c]).s \in Slot
        BY <1>2, <2>1 DEF HandleNeg, Msg
      <3>2. reply \in Told(store)
        BY <1>3, <3>1 DEF Told, Msg
      <3>3. <<reply>> \in Seq(Told(store))
        BY <3>2
      <3>4. QED
        BY <2>1, <3>3 DEF HandleNeg
    <2>2. CASE HandleWant(c)
      <3>1. Recs(Head(toM[c]).ids \cap store) \in Seq(Told(store))
        BY <1>3, RecsAreTold
      <3>2. QED
        BY <2>2, <3>1 DEF HandleWant
    <2>3. QED
      BY <2>1, <2>2
  <1>5. toC' \in [Client -> Seq(Told(store))]
    BY <1>4, RepliedFrames DEF Replied, IInv, LinkOK
  <1>6. DurableOK' /\ ClientOK' /\ SentIsMirrored'
    BY <1>1 DEF IInv, DurableOK, ClientOK, SentIsMirrored, durableVars, clientVars
  <1>7. LinkOK' /\ MirrorOK' /\ FaultOK'
    BY <1>1, <1>2, <1>5 DEF IInv, LinkOK, MirrorOK, FaultOK, durableVars, mirrorVars, boundVars
  <1>8. QED
    BY <1>6, <1>7 DEF IInv

(* An envelope comes in, from a client or from elsewhere. *)
LEMMA IngestStep ==
  ASSUME IInv,
         (\E c \in Client : HandleRec(c)) \/ (\E r \in Rec : Arrive(r))
  PROVE  IInv'
  <1>1. UNCHANGED <<durableVars, clientVars, link, hiDone, toC, stale, peers, fresh, boundVars>>
    BY DEF HandleRec, Arrive, linkVars
  <1>2. /\ toM' \in [Client -> Seq(Msg)]
        /\ pipeM' \subseteq Rec \X (Client \cup {Other})
    <2>1. ASSUME NEW c \in Client, HandleRec(c)
          PROVE  /\ toM' \in [Client -> Seq(Msg)]
                 /\ pipeM' \subseteq Rec \X (Client \cup {Other})
      <3>1. Head(toM[c]) \in Msg /\ toM' \in [Client -> Seq(Msg)]
        BY <2>1, QueueTail DEF HandleRec, IInv, LinkOK
      <3>2. Head(toM[c]).ids \subseteq Rec
        BY <3>1 DEF Msg
      <3>3. QED
        BY <2>1, <3>1, <3>2 DEF HandleRec, IInv, MirrorOK
    <2>2. ASSUME NEW r \in Rec, Arrive(r)
          PROVE  /\ toM' \in [Client -> Seq(Msg)]
                 /\ pipeM' \subseteq Rec \X (Client \cup {Other})
      BY <2>2 DEF Arrive, linkVars, IInv, LinkOK, MirrorOK
    <2>3. QED
      BY <2>1, <2>2
  <1>3. DurableOK' /\ ClientOK' /\ SentIsMirrored'
    BY <1>1 DEF IInv, DurableOK, ClientOK, SentIsMirrored, durableVars, clientVars
  <1>4. LinkOK' /\ MirrorOK' /\ FaultOK'
    BY <1>1, <1>2 DEF IInv, LinkOK, MirrorOK, FaultOK, durableVars, boundVars
  <1>5. QED
    BY <1>3, <1>4 DEF IInv

(* The mirror stores: what it has told stays true. *)
LEMMA StoreStep ==
  ASSUME IInv, NEW r \in Rec, NEW c \in Client \cup {Other}, Store(r, c)
  PROVE  IInv'
  <1>1. /\ store' = store \cup {r} /\ pipeM' \subseteq pipeM
        /\ UNCHANGED <<held, outbox, pending, clientVars, link, hiDone, toM, stale, peers,
                       boundVars>>
    BY DEF Store
  <1>2. store \subseteq store' /\ store' \in SUBSET Rec
    BY <1>1 DEF IInv, DurableOK
  <1>3. /\ toC' \in [Client -> Seq(Told(store'))]
        /\ fresh' \subseteq store' \X (Client \cup {Other})
    <2>1. toC \in [Client -> Seq(Told(store'))]
      BY <1>2, ToldGrows DEF IInv, LinkOK
    <2>2. CASE r \in store
      <3>1. store' = store /\ toC' = AckTo(c, r, toC) /\ fresh' = fresh
        BY <1>1, <2>2 DEF Store
      <3>2. AckTo(c, r, toC) \in [Client -> Seq(Told(store))]
        BY <2>2, AckFrames DEF IInv, DurableOK, LinkOK
      <3>3. fresh' \subseteq store' \X (Client \cup {Other})
        BY <3>1 DEF IInv, MirrorOK
      <3>4. QED
        BY <3>1, <3>2, <3>3, Zenon
    <2>3. CASE r \notin store
      <3>1. toC' = toC /\ fresh' = fresh \cup {<<r, c>>}
        BY <2>3 DEF Store
      <3>2. toC' \in [Client -> Seq(Told(store'))]
        BY <2>1, <3>1, Zenon
      <3>3. fresh' \subseteq store' \X (Client \cup {Other})
        BY <1>1, <3>1 DEF IInv, MirrorOK
      <3>4. QED
        BY <3>2, <3>3, Zenon
    <2>4. QED
      BY <2>2, <2>3
  <1>4. DurableOK' /\ SentIsMirrored'
    BY <1>1, <1>2 DEF IInv, DurableOK, SentIsMirrored
  <1>5. ClientOK'
    BY <1>1, <1>2 DEF IInv, ClientOK, clientVars
  <1>6. LinkOK' /\ MirrorOK' /\ FaultOK'
    BY <1>1, <1>3 DEF IInv, LinkOK, MirrorOK, FaultOK, boundVars
  <1>7. QED
    BY <1>4, <1>5, <1>6 DEF IInv

LEMMA DeliverStep ==
  ASSUME IInv, NEW r \in Rec, NEW c \in Client \cup {Other}, Deliver(r, c)
  PROVE  IInv'
  <1> DEFINE routed == [d \in Client |->
               IF d \in Routed(c) THEN Append(toC[d], Plain("rec", {r})) ELSE toC[d]]
  <1>1. /\ <<r, c>> \in fresh /\ fresh' = fresh \ {<<r, c>>}
        /\ toC' = AckTo(c, r, routed)
        /\ UNCHANGED <<durableVars, clientVars, link, hiDone, toM, stale, peers, pipeM, boundVars>>
    BY DEF Deliver
  <1>2. r \in store /\ store \subseteq Rec
    BY <1>1 DEF IInv, MirrorOK, DurableOK
  <1>3. routed \in [Client -> Seq(Told(store))]
    <2>1. Plain("rec", {r}) \in Told(store)
      BY <1>2, PlainIsMsg
    <2>2. ASSUME NEW d \in Client PROVE routed[d] \in Seq(Told(store))
      BY <2>1 DEF IInv, LinkOK
    <2>3. QED
      BY <2>2
  <1> HIDE DEF routed
  <1>4. toC' \in [Client -> Seq(Told(store))]
    BY <1>1, <1>2, <1>3, AckFrames DEF IInv
  <1>5. DurableOK' /\ ClientOK' /\ SentIsMirrored'
    BY <1>1 DEF IInv, DurableOK, ClientOK, SentIsMirrored, durableVars, clientVars
  <1>6. LinkOK' /\ MirrorOK' /\ FaultOK'
    BY <1>1, <1>4 DEF IInv, LinkOK, MirrorOK, FaultOK, durableVars, boundVars
  <1>7. QED
    BY <1>5, <1>6 DEF IInv

-----------------------------------------------------------------------------
LEMMA InvInit == Init => IInv
  <1>1. SUFFICES ASSUME Init PROVE IInv
    OBVIOUS
  <1>2. [s \in Slot |-> NoSession] \in [Slot -> Session]
    BY DEF NoSession, Session
  <1>3. <<>> \in Seq(Msg) /\ <<>> \in Seq(Told({}))
    BY EmptySeq
  <1>4. DurableOK /\ ClientOK /\ LinkOK
    BY <1>1, <1>2, <1>3 DEF Init, DurableOK, ClientOK, LinkOK
  <1>5. MirrorOK /\ FaultOK /\ SentIsMirrored
    BY <1>1, BoundsAssumption DEF Init, MirrorOK, FaultOK, SentIsMirrored
  <1>6. QED
    BY <1>4, <1>5 DEF IInv

LEMMA InvStep == IInv /\ [Next]_vars => IInv'
  <1>1. SUFFICES ASSUME IInv, [Next]_vars PROVE IInv'
    OBVIOUS
  <1>2. ASSUME NEW c \in Client, ClientStep(c) PROVE IInv'
    BY <1>1, <1>2, ForwardStep, CommitRecStep, ConnectStep, ClientDownStep, HelloStep,
       ReceiveNegrStep, ReceiveRecStep, ReceiveAckStep, SendNegStep DEF ClientStep
  <1>3. CASE MirrorStep
    BY <1>1, <1>3, ConnectStep, AnswerStep, IngestStep, MirrorCloseStep, StoreStep, DeliverStep
       DEF MirrorStep
  <1>4. CASE Environment
    BY <1>1, <1>4, IngestStep, WriteStep, CutStep, TimeoutStep, RestartStep DEF Environment
  <1>5. CASE UNCHANGED vars
    BY <1>1, <1>5 DEF vars, durableVars, clientVars, linkVars, mirrorVars, boundVars, IInv,
       DurableOK, ClientOK, LinkOK, MirrorOK, FaultOK, SentIsMirrored
  <1>6. QED
    BY <1>1, <1>2, <1>3, <1>4, <1>5 DEF Next, System

LEMMA Invariance == Spec => []IInv
  <1>1. Init => IInv
    BY InvInit
  <1>2. IInv /\ [Next]_vars => IInv'
    BY InvStep
  <1>3. QED
    BY <1>1, <1>2, PTL DEF Spec

(* Every variable keeps its type, and nothing is queued that is not held. *)
THEOREM TypeCorrect == Spec => []TypeOK
  <1>1. IInv => TypeOK
    BY ReadingTypes
  <1>2. QED
    BY Invariance, <1>1, PTL

(***************************************************************************)
(* "A stored local record always has its outbox entry" (sync.js:361) until *)
(* the mirror has it, for any devices, sessions and faults: an ack names   *)
(* what is stored, and no restart or reload takes either away.             *)
(***************************************************************************)
THEOREM WritesAreKept == Spec => []SentIsMirrored
  <1>1. IInv => SentIsMirrored
    BY DEF IInv
  <1>2. QED
    BY Invariance, <1>1, PTL

-----------------------------------------------------------------------------
(***************************************************************************)
(* A watching device misses nothing: once its greeting is over and no      *)
(* reconcile is pending, each envelope of the mirror is held by it or on   *)
(* its way to it - for any devices, envelopes, sessions and faults, as     *)
(* long as the mirror hears of a dead link before the client is back.      *)
(***************************************************************************)

(* The inductive invariant, on top of IInv. *)

(* What c holds or gets. *)
Covered(c) == held[c] \cup Underway(c)

(* Nothing has come back over the link, or there is none. *)
Unheard(c) == link[c] = "down" \/ (link[c] = "up" /\ ~ hiDone[c])

(* A link starts with nothing of the last one left: its hi comes first, and *)
(* the mirror knows the peer from then until the link is cut.               *)
Phase(c) ==
  /\ link[c] # "up" => toM[c] = <<>> /\ toC[c] = <<>> /\ ~ hiDone[c]
  /\ link[c] = "up" /\ ~ hiDone[c] => toC[c] = <<>> /\ toM[c] # <<>> /\ Head(toM[c]).t = "hi"
  /\ link[c] = "up" => stale[c] = 0
  /\ hiDone[c] => c \in peers
  /\ Unheard(c) => greet[c] = "none" /\ \A s \in Slot : sess[c][s].wait = {}
  /\ \A s \in Slot : sess[c][s].step = "load" => sess[c][s].wait = {}

(* Whatever the mirror got from c, c holds: it need not be sent back. *)
Holder(c) ==
  /\ local[c] \subseteq held[c]
  /\ \A s \in Slot : sess[c][s].items \subseteq held[c]
  /\ \A m \in Range(toM[c]) : m.t = "rec" => m.ids \subseteq held[c]
  /\ \A e \in pipeM : e[2] = c => e[1] \in held[c]

(* What an exchange has not covered has been forwarded since, and what it *)
(* has found missing is what its session waits for.                       *)
ExchangeCovers(c) ==
  Reaches(c) =>
    /\ \A m \in Range(toC[c]) : m.t = "negr" => store \subseteq m.ids \cup Covered(c)
    /\ \A s \in Slot :
         sess[c][s].wait # {} => store \subseteq sess[c][s].wait \cup Covered(c)

CatchUpInv ==
  /\ \A c \in Client : Phase(c) /\ Holder(c) /\ ExchangeCovers(c)
  /\ NothingMissed

-----------------------------------------------------------------------------
(* The frames of a queue. *)

LEMMA RangeOfTail ==
  ASSUME NEW S, NEW q \in Seq(S), q # <<>>
  PROVE  /\ Range(q) = {Head(q)} \cup Range(Tail(q))
         /\ Head(q) \in Range(q)
  <1>1. Len(q) \in Nat \ {0} /\ Tail(q) \in Seq(S) /\ Len(Tail(q)) = Len(q) - 1
    BY HeadTailProperties, EmptySeq, LenProperties
  <1>2. Range(q) = {q[i] : i \in 1 .. Len(q)}
    BY RangeEquality
  <1>3. Range(Tail(q)) = {Tail(q)[i] : i \in 1 .. Len(Tail(q))}
    BY <1>1, RangeEquality
  <1>4. Head(q) = q[1] /\ \A i \in 1 .. Len(Tail(q)) : Tail(q)[i] = q[i + 1]
    BY <1>1
  <1>5. ASSUME NEW i \in 1 .. Len(q) PROVE q[i] \in {Head(q)} \cup Range(Tail(q))
    <2>1. CASE i = 1
      BY <2>1, <1>4
    <2>2. CASE i # 1
      <3>1. i - 1 \in 1 .. Len(Tail(q)) /\ (i - 1) + 1 = i
        BY <2>2, <1>1
      <3>2. Tail(q)[i - 1] = q[i]
        BY <3>1, <1>4
      <3>3. QED
        BY <3>1, <3>2, <1>3
    <2>3. QED
      BY <2>1, <2>2
  <1>6. ASSUME NEW i \in 1 .. Len(Tail(q)) PROVE Tail(q)[i] \in Range(q)
    <2>1. i + 1 \in 1 .. Len(q)
      BY <1>1
    <2>2. QED
      BY <2>1, <1>2, <1>4
  <1>7. Head(q) \in Range(q)
    BY <1>1, <1>2, <1>4
  <1>8. QED
    BY <1>2, <1>3, <1>5, <1>6, <1>7

LEMMA RangeOfOne ==
  ASSUME NEW x
  PROVE  Range(<<x>>) = {x} /\ Range(<<>>) = {}
  <1>1. Len(<<x>>) = 1 /\ <<x>>[1] = x /\ DOMAIN <<x>> = 1 .. 1
    OBVIOUS
  <1>2. DOMAIN <<>> = {}
    OBVIOUS
  <1>3. QED
    BY <1>1, <1>2 DEF Range

LEMMA RangeOfAppend ==
  ASSUME NEW S, NEW q \in Seq(S), NEW x \in S
  PROVE  Range(Append(q, x)) = Range(q) \cup {x}
  <1>1. <<x>> \in Seq(S) /\ Append(q, x) = q \o <<x>>
    BY AppendIsConcat
  <1>2. Range(<<x>>) = {x}
    BY RangeOfOne
  <1>3. Range(q \o <<x>>) = Range(q) \cup Range(<<x>>)
    BY <1>1, RangeConcatenation, ZenonT(60)
  <1>4. QED
    BY <1>1, <1>2, <1>3

(* A queue that something is added to starts as before. *)
LEMMA HeadOfConcat ==
  ASSUME NEW S, NEW q \in Seq(S), NEW more \in Seq(S), q # <<>>
  PROVE  q \o more # <<>> /\ Head(q \o more) = Head(q)
  <1>1. Len(q) \in Nat \ {0} /\ Len(more) \in Nat
    BY HeadTailProperties, EmptySeq, LenProperties
  <1>2. /\ q \o more \in Seq(S) /\ Len(q \o more) = Len(q) + Len(more)
        /\ (q \o more)[1] = q[1]
    BY <1>1, ConcatProperties
  <1>3. q \o more # <<>>
    BY <1>1, <1>2, EmptySeq
  <1>4. QED
    BY <1>2, <1>3

(* Recs makes rec frames of the envelopes named, and all of them.  *)
LEMMA RecsNames ==
  ASSUME NEW ids \in SUBSET Rec, NEW m \in Range(Recs(ids))
  PROVE  m.t = "rec" /\ m.ids \subseteq ids
  <1> DEFINE S == {Plain("rec", {r}) : r \in ids}
             f == [r \in ids |-> Plain("rec", {r})]
  <1>1. IsFiniteSet(ids)
    BY FS_Subset, BoundsAssumption
  <1>2. f \in Surjection(ids, S)
    BY DEF Surjection
  <1>3. IsFiniteSet(S)
    BY <1>1, <1>2, FS_Surjection
  <1>4. Recs(ids) \in Seq(S)
    BY <1>3, SetToSeqElements DEF Recs
  <1>5. m \in S
    BY <1>4, RangeOfSeq
  <1>6. QED
    BY <1>5 DEF Plain

(* Only frames of session s are left out. *)
LEMMA WithoutFrames ==
  ASSUME NEW S, NEW q \in Seq(S), NEW s
  PROVE  /\ Range(Without(q, s)) \subseteq Range(q)
         /\ \A m \in Range(q) : m.s # s => m \in Range(Without(q, s))
         /\ q = <<>> => Without(q, s) = <<>>
         /\ q # <<>> /\ Head(q).s # s => Without(q, s) # <<>> /\ Head(Without(q, s)) = Head(q)
  <1>1. CASE \E i \in 1..Len(q) : q[i].s = s
    <2> DEFINE i == CHOOSE j \in 1..Len(q) : q[j].s = s
               front == SubSeq(q, 1, i - 1)
               rest == SubSeq(q, i + 1, Len(q))
    <2>1. i \in 1..Len(q) /\ q[i].s = s /\ Len(q) \in Nat
      BY <1>1
    <2>2. Without(q, s) = front \o rest
      BY <1>1 DEF Without, RemoveAt
    <2> HIDE DEF i
    <2>3. \A k \in 1..Len(q) : q[k] \in S
      BY ElementOfSeq
    <2>4. /\ front \in Seq(S) /\ Len(front) = i - 1
          /\ \A k \in 1 .. i - 1 : front[k] = q[k]
      BY <2>1, <2>3, SubSeqProperties
    <2>5. /\ rest \in Seq(S) /\ Len(rest) = Len(q) - i
          /\ \A k \in 1 .. Len(q) - i : rest[k] = q[i + k]
      BY <2>1, <2>3, SubSeqProperties
    <2> HIDE DEF front, rest
    <2>6. Range(front \o rest) = Range(front) \cup Range(rest)
      BY <2>4, <2>5, RangeConcatenation
    <2>7. Range(q) = {q[k] : k \in 1 .. Len(q)}
      BY RangeEquality
    <2>8. /\ Range(front) = {front[k] : k \in 1 .. i - 1}
          /\ Range(rest) = {rest[k] : k \in 1 .. Len(q) - i}
      BY <2>4, <2>5, RangeEquality
    <2>9. Range(front) \subseteq Range(q) /\ Range(rest) \subseteq Range(q)
      <3>1. \A k \in 1 .. i - 1 : k \in 1 .. Len(q)
        BY <2>1
      <3>2. \A k \in 1 .. Len(q) - i : i + k \in 1 .. Len(q)
        BY <2>1
      <3>3. QED
        BY <3>1, <3>2, <2>4, <2>5, <2>7, <2>8
    <2>10. ASSUME NEW m \in Range(q), m.s # s PROVE m \in Range(front \o rest)
      <3>1. PICK k \in 1 .. Len(q) : m = q[k]
        BY <2>7
      <3>2. k # i
        BY <3>1, <2>1, <2>10
      <3>3. CASE k < i
        <4>1. k \in 1 .. i - 1
          BY <3>3, <2>1
        <4>2. QED
          BY <4>1, <3>1, <2>4, <2>6, <2>8
      <3>4. CASE k > i
        <4>1. k - i \in 1 .. Len(q) - i /\ i + (k - i) = k
          BY <3>4, <2>1
        <4>2. rest[k - i] = q[k]
          BY <4>1, <2>5
        <4>3. QED
          BY <4>1, <4>2, <3>1, <2>6, <2>8
      <3>5. QED
        BY <3>2, <3>3, <3>4, <2>1
    <2>11. q # <<>>
      BY <2>1, EmptySeq
    <2>12. ASSUME Head(q).s # s
           PROVE  front \o rest # <<>> /\ Head(front \o rest) = Head(q)
      <3>1. Head(q) = q[1]
        BY <2>11
      <3>2. i # 1
        BY <3>1, <2>1, <2>12
      <3>3. 1 \in 1 .. i - 1
        BY <3>2, <2>1
      <3>4. front # <<>> /\ Head(front) = q[1]
        BY <3>3, <2>1, <2>4, EmptySeq
      <3>5. QED
        BY <3>1, <3>4, <2>4, <2>5, HeadOfConcat
    <2>13. QED
      BY <2>2, <2>6, <2>9, <2>10, <2>11, <2>12
  <1>2. CASE ~ \E i \in 1..Len(q) : q[i].s = s
    BY <1>2 DEF Without
  <1>3. QED
    BY <1>1, <1>2

-----------------------------------------------------------------------------
(* Which steps of whom touch what of a client. *)

(* The steps that are about client c alone. *)
Own(c) ==
  \/ \E r \in Rec : Write(c, r) \/ Forward(c, r) \/ CommitRec(c, r)
  \/ Connect(c) \/ ClientDown(c) \/ Break(c) \/ Reload(c)
  \/ ReceiveHello(c) \/ GreetMirror(c) \/ Retry(c)
  \/ ReceiveNegr(c) \/ ReceiveRec(c) \/ ReceiveAck(c)
  \/ \E s \in Slot : SendNeg(c, s) \/ Timeout(c, s)
  \/ HandleHi(c) \/ HandleNeg(c) \/ HandleWant(c) \/ HandleRec(c) \/ MirrorClose(c)

(* What the steps of others leave alone. *)
Same(c) ==
  /\ held'[c] = held[c] /\ outbox'[c] = outbox[c] /\ pending'[c] = pending[c]
  /\ sess'[c] = sess[c] /\ greet'[c] = greet[c] /\ local'[c] = local[c] /\ pipe'[c] = pipe[c]
  /\ link'[c] = link[c] /\ hiDone'[c] = hiDone[c] /\ toM'[c] = toM[c] /\ stale'[c] = stale[c]

LEMMA NextCases ==
  ASSUME Next
  PROVE  \/ \E c \in Client : Own(c)
         \/ MirrorRestart
         \/ \E r \in Rec : Arrive(r)
         \/ \E r \in Rec, c \in Client \cup {Other} : Store(r, c) \/ Deliver(r, c)
BY DEF Next, System, MirrorStep, ClientStep, Environment, Own

LEMMA SentAt ==
  ASSUME IInv, NEW c \in Client, NEW frames
  PROVE  /\ Sent(c, frames)[c] = IF Arrives(c) THEN toM[c] \o frames ELSE toM[c]
         /\ \A d \in Client : d # c => Sent(c, frames)[d] = toM[d]
BY DEF Sent, IInv, LinkOK

(* A step of one client leaves the others alone. *)
LEMMA OthersSame ==
  ASSUME IInv, NEW c \in Client, NEW d \in Client, d # c, Own(d)
  PROVE  /\ Same(c) /\ toC'[c] = toC[c]
         /\ c \in peers' <=> c \in peers
         /\ \A e : e[2] = c => (e \in pipeM' <=> e \in pipeM)
         /\ fresh' = fresh /\ store' = store
  <1> USE DEF IInv, DurableOK, ClientOK, LinkOK, FaultOK, Same, durableVars, clientVars,
              linkVars, mirrorVars, boundVars
  <1>1. CASE \E r \in Rec : Write(d, r) \/ Forward(d, r)
    BY <1>1, SentAt DEF Write, Forward
  <1>2. CASE \E r \in Rec : CommitRec(d, r)
    BY <1>2 DEF CommitRec, Finished
  <1>3. CASE Connect(d) \/ ClientDown(d) \/ MirrorClose(d)
    BY <1>3 DEF Connect, ClientDown, MirrorClose
  <1>4. CASE Break(d) \/ Reload(d)
    BY <1>4, SMTT(30) DEF Break, Reload, Cut
  <1>5. CASE ReceiveHello(d) \/ ReceiveRec(d) \/ ReceiveAck(d)
    BY <1>5 DEF ReceiveHello, ReceiveRec, ReceiveAck
  <1>6. CASE GreetMirror(d)
    <2>1. toM'[c] = toM[c]
      BY <1>6, SentAt DEF GreetMirror
    <2>2. sess'[c] = sess[c] /\ pending'[c] = pending[c]
      <3>1. CASE Started(d)
        BY <3>1 DEF Started
      <3>2. CASE UNCHANGED <<sess, pending, active>>
        BY <3>2
      <3>3. QED
        BY <3>1, <3>2, <1>6 DEF GreetMirror
    <2>3. QED
      BY <2>1, <2>2, <1>6 DEF GreetMirror
  <1>7. CASE Retry(d)
    BY <1>7 DEF Retry, Started
  <1>8. CASE ReceiveNegr(d)
    <2>1. toM'[c] = toM[c]
      <3>1. PICK frames : toM' = Sent(d, frames)
        BY <1>8 DEF ReceiveNegr
      <3>2. QED
        BY <3>1, SentAt
    <2>2. sess'[c] = sess[c] /\ pending'[c] = pending[c]
      <3> DEFINE t == Head(toC[d]).s
                 need == Head(toC[d]).ids \ sess[d][t].items
      <3>1. CASE need = {}
        <4>1. sess' = [sess EXCEPT ![d][t] = NoSession] /\ Finished(d, {t}, TRUE)
          BY <1>8, <3>1 DEF ReceiveNegr
        <4> HIDE DEF t
        <4>2. QED
          BY <4>1 DEF Finished
      <3>2. CASE need # {}
        <4>1. /\ sess' = [sess EXCEPT ![d][t].step = "want", ![d][t].wait = need]
              /\ UNCHANGED <<pending, active>>
          BY <1>8, <3>2 DEF ReceiveNegr
        <4> HIDE DEF t, need
        <4>2. QED
          BY <4>1
      <3>3. QED
        BY <3>1, <3>2
    <2>3. QED
      BY <2>1, <2>2, <1>8 DEF ReceiveNegr
  <1>9. CASE \E s \in Slot : SendNeg(d, s)
    BY <1>9, SentAt DEF SendNeg, Finished
  <1>10. CASE \E s \in Slot : Timeout(d, s)
    BY <1>10 DEF Timeout, Finished
  <1>11. CASE HandleHi(d) \/ HandleNeg(d) \/ HandleWant(d)
    BY <1>11 DEF HandleHi, HandleNeg, HandleWant, Replied
  <1>12. CASE HandleRec(d)
    BY <1>12 DEF HandleRec
  <1>13. QED
    BY <1>1, <1>2, <1>3, <1>4, <1>5, <1>6, <1>7, <1>8, <1>9, <1>10, <1>11, <1>12 DEF Own

(* An ack goes to who sent the envelope, if it can be reached. *)
LEMMA AckAt ==
  ASSUME NEW c, NEW r \in Rec, NEW q \in [Client -> Seq(Msg)], NEW d \in Client
  PROVE  \/ AckTo(c, r, q)[d] = q[d]
         \/ Reaches(d) /\ AckTo(c, r, q)[d] = Append(q[d], Plain("ack", {r}))
BY DEF AckTo, CanAck

(* What the mirror does with envelopes it ingests only adds to the queues, *)
(* and only where the peer can be reached.                                 *)
LEMMA MirrorAdds ==
  ASSUME IInv, NEW c \in Client, NEW r \in Rec, NEW d \in Client \cup {Other},
         Store(r, d) \/ Deliver(r, d)
  PROVE  /\ Same(c) /\ peers' = peers /\ pipeM' \subseteq pipeM
         /\ toC'[c] = toC[c] \/ Reaches(c)
         /\ Range(toC[c]) \subseteq Range(toC'[c])
         /\ \A m \in Range(toC'[c]) : m \in Range(toC[c]) \/ m.t \in {"rec", "ack"}
  <1> DEFINE routed == [e \in Client |->
               IF e \in Routed(d) THEN Append(toC[e], Plain("rec", {r})) ELSE toC[e]]
  <1>1. Same(c) /\ peers' = peers /\ pipeM' \subseteq pipeM
    BY DEF Store, Deliver, Same, durableVars, clientVars
  <1>2. /\ Plain("rec", {r}) \in Msg /\ Plain("ack", {r}) \in Msg
        /\ Plain("rec", {r}).t = "rec" /\ Plain("ack", {r}).t = "ack"
    BY PlainIsMsg DEF Plain
  <1>3. toC \in [Client -> Seq(Msg)]
    BY ToldIsMsg DEF IInv, LinkOK
  <1>4. routed \in [Client -> Seq(Msg)] /\ \A e \in Client : e \in Routed(d) => Reaches(e)
    BY <1>2, <1>3 DEF Routed
  <1>5. /\ Range(routed[c]) = Range(toC[c])
              \cup IF c \in Routed(d) THEN {Plain("rec", {r})} ELSE {}
        /\ routed[c] = toC[c] \/ Reaches(c)
    BY <1>2, <1>3, <1>4, RangeOfAppend
  <1> HIDE DEF routed
  <1>6. toC' = toC \/ toC' = AckTo(d, r, toC) \/ toC' = AckTo(d, r, routed)
    BY DEF Store, Deliver, routed
  <1>7. ASSUME NEW q \in [Client -> Seq(Msg)], toC' = AckTo(d, r, q)
        PROVE  /\ toC'[c] = q[c] \/ Reaches(c)
               /\ Range(q[c]) \subseteq Range(toC'[c])
               /\ \A m \in Range(toC'[c]) : m \in Range(q[c]) \/ m.t = "ack"
    <2>1. CASE AckTo(d, r, q)[c] = q[c]
      BY <2>1, <1>7
    <2>2. CASE Reaches(c) /\ AckTo(d, r, q)[c] = Append(q[c], Plain("ack", {r}))
      <3>1. Range(Append(q[c], Plain("ack", {r}))) = Range(q[c]) \cup {Plain("ack", {r})}
        BY <1>2, RangeOfAppend
      <3>2. QED
        BY <3>1, <2>2, <1>2, <1>7
    <2>3. QED
      BY <2>1, <2>2, AckAt, ZenonT(60)
  <1>8. CASE toC' = toC
    BY <1>1, <1>8
  <1>9. CASE toC' = AckTo(d, r, toC)
    BY <1>1, <1>3, <1>7, <1>9
  <1>10. CASE toC' = AckTo(d, r, routed)
    BY <1>1, <1>2, <1>4, <1>5, <1>7, <1>10
  <1>11. QED
    BY <1>6, <1>8, <1>9, <1>10

(* What a step makes of a session. *)
LEMMA SessionMoves ==
  ASSUME IInv, NEW c \in Client, Own(c), NEW s \in Slot
  PROVE  /\ sess'[c][s].items \subseteq sess[c][s].items \cup held[c]
         /\ \/ sess'[c][s].wait = {}
            \/ sess'[c][s].wait = sess[c][s].wait
            \/ \E r \in Rec : /\ CommitRec(c, r)
                              /\ sess'[c][s].wait = sess[c][s].wait \ {r}
            \/ /\ ReceiveNegr(c) /\ s = Head(toC[c]).s
               /\ sess'[c][s].wait = Head(toC[c]).ids \ sess[c][s].items
         /\ sess'[c][s].step = "load" =>
              \/ sess'[c][s].wait = {}
              \/ sess[c][s].step = "load" /\ sess'[c][s].wait \subseteq sess[c][s].wait
  <1> DEFINE now == sess[c][s]
             next == sess'[c][s]
  <1>1. now \in Session /\ sess \in [Client -> [Slot -> Session]] /\ DOMAIN sess[c] = Slot
    BY DEF IInv, ClientOK
  <1>2. /\ NoSession.step = "idle" /\ NoSession.items = {} /\ NoSession.wait = {}
    BY DEF NoSession
  <1>3. CASE next = now \/ next = NoSession
    BY <1>1, <1>2, <1>3
  <1>4. CASE Started(c)
    <2>1. next = now \/ next = [step |-> "load", items |-> held[c], wait |-> {}]
      BY <1>1, <1>4 DEF Started
    <2>2. QED
      BY <1>3, <2>1
  <1>5. CASE \E r \in Rec : CommitRec(c, r)
    <2>1. PICK r \in Rec : CommitRec(c, r)
      BY <1>5
    <2>2. next = NoSession \/ next = [now EXCEPT !.wait = now.wait \ {r}]
      BY <1>1, <2>1 DEF CommitRec
    <2>3. CASE next = [now EXCEPT !.wait = now.wait \ {r}]
      <3>1. /\ next.wait = now.wait \ {r} /\ next.step = now.step /\ next.items = now.items
        BY <1>1, <2>3 DEF Session
      <3>2. QED
        BY <3>1, <2>1
    <2>4. QED
      BY <1>3, <2>2, <2>3
  <1>6. CASE \E t \in Slot : SendNeg(c, t)
    <2>1. next = now \/ next = NoSession \/ next = [now EXCEPT !.step = "neg"]
      <3>1. PICK t \in Slot : SendNeg(c, t)
        BY <1>6
      <3>2. \/ sess' = [sess EXCEPT ![c][t] = NoSession]
            \/ sess' = [sess EXCEPT ![c][t].step = "neg"]
        BY <3>1 DEF SendNeg
      <3>3. CASE s = t
        BY <3>2, <3>3, <1>1
      <3>4. CASE s # t
        BY <3>2, <3>4, <1>1
      <3>5. QED
        BY <3>3, <3>4
    <2>2. CASE next = [now EXCEPT !.step = "neg"]
      <3>1. next.wait = now.wait /\ next.step = "neg" /\ next.items = now.items
        BY <1>1, <2>2 DEF Session
      <3>2. QED
        BY <3>1
    <2>3. QED
      BY <1>3, <2>1, <2>2
  <1>7. CASE ReceiveNegr(c)
    <2> DEFINE t == Head(toC[c]).s
               need == Head(toC[c]).ids \ sess[c][t].items
    <2>1. t \in Slot
      BY <1>7, HeadTold DEF ReceiveNegr, Msg
    <2>2. \/ sess' = [sess EXCEPT ![c][t] = NoSession]
          \/ sess' = [sess EXCEPT ![c][t].step = "want", ![c][t].wait = need]
      BY <1>7 DEF ReceiveNegr
    <2>3. CASE s # t \/ sess' = [sess EXCEPT ![c][t] = NoSession]
      <3>1. next = now \/ next = NoSession
        BY <1>1, <2>1, <2>2, <2>3, ZenonT(60)
      <3>2. QED
        BY <1>3, <3>1
    <2>4. CASE s = t /\ sess' = [sess EXCEPT ![c][t].step = "want", ![c][t].wait = need]
      <3>1. next = [now EXCEPT !.step = "want", !.wait = Head(toC[c]).ids \ now.items]
        BY <1>1, <2>1, <2>4
      <3>2. /\ next.step = "want" /\ next.items = now.items
            /\ next.wait = Head(toC[c]).ids \ now.items
        BY <1>1, <3>1 DEF Session
      <3>3. QED
        BY <3>2, <2>4, <1>7
    <2>5. QED
      BY <2>2, <2>3, <2>4
  <1>8. CASE ClientDown(c) \/ Reload(c) \/ \E t \in Slot : Timeout(c, t)
    <2>1. next = now \/ next = NoSession
      <3>1. CASE ClientDown(c)
        BY <1>1, <3>1 DEF ClientDown
      <3>2. CASE Reload(c)
        BY <1>1, <3>2 DEF Reload
      <3>3. CASE \E t \in Slot : Timeout(c, t)
        <4>1. PICK t \in Slot : sess' = [sess EXCEPT ![c][t] = NoSession]
          BY <3>3 DEF Timeout
        <4>2. QED
          BY <1>1, <4>1
      <3>4. QED
        BY <1>8, <3>1, <3>2, <3>3
    <2>2. QED
      BY <1>3, <2>1
  <1>9. CASE UNCHANGED sess
    BY <1>3, <1>9
  <1>10. \/ UNCHANGED sess \/ Started(c) \/ ClientDown(c) \/ Reload(c) \/ ReceiveNegr(c)
         \/ (\E r \in Rec : CommitRec(c, r)) \/ \E t \in Slot : SendNeg(c, t) \/ Timeout(c, t)
    BY DEF Own, Write, Forward, Connect, Break, ReceiveHello, GreetMirror, Retry, ReceiveRec,
       ReceiveAck, HandleHi, HandleNeg, HandleWant, HandleRec, MirrorClose, clientVars
  <1>11. QED
    BY <1>4, <1>5, <1>6, <1>7, <1>8, <1>9, <1>10

-----------------------------------------------------------------------------
(* A link from its hi to its end. *)

(* What is sent over a link follows its hi. *)
LEMMA SentKeepsHead ==
  ASSUME IInv, NEW c \in Client, NEW frames \in Seq(Msg), toM' = Sent(c, frames)
  PROVE  /\ ~ Arrives(c) => toM'[c] = toM[c]
         /\ toM[c] # <<>> => toM'[c] # <<>> /\ Head(toM'[c]) = Head(toM[c])
  <1>1. toM[c] \in Seq(Msg)
    BY DEF IInv, LinkOK
  <1>2. toM'[c] = IF Arrives(c) THEN toM[c] \o frames ELSE toM[c]
    BY SentAt
  <1>3. QED
    BY <1>1, <1>2, HeadOfConcat

(* What a client sends in rec frames it holds. *)
LEMMA SendsHeld ==
  ASSUME IInv, NEW c \in Client, Holder(c),
         \/ \E r \in Rec : Forward(c, r)
         \/ GreetMirror(c) \/ ReceiveNegr(c) \/ \E s \in Slot : SendNeg(c, s)
  PROVE  \/ toM' = toM
         \/ \E frames \in Seq(Msg) :
              /\ toM' = Sent(c, frames)
              /\ \A m \in Range(frames) : m.t = "rec" => m.ids \subseteq held[c]
  <1>1. CASE \E r \in Rec : Forward(c, r)
    <2>1. PICK r \in Rec : Forward(c, r)
      BY <1>1
    <2>2. Recs({r}) \in Seq(Msg) /\ \A m \in Range(Recs({r})) : m.ids \subseteq held[c]
      BY <2>1, RecsAreTold, RecsNames DEF Forward, Holder
    <2>3. QED
      BY <2>1, <2>2 DEF Forward
  <1>2. CASE GreetMirror(c)
    <2>1. Unacked(c) \in SUBSET Rec /\ Unacked(c) \subseteq held[c]
      BY DEF Unacked, IInv, DurableOK
    <2>2. /\ Recs(Unacked(c)) \in Seq(Msg)
          /\ \A m \in Range(Recs(Unacked(c))) : m.ids \subseteq held[c]
      BY <2>1, RecsAreTold, RecsNames
    <2>3. QED
      BY <1>2, <2>2 DEF GreetMirror
  <1>3. CASE ReceiveNegr(c)
    <2> DEFINE s == Head(toC[c]).s
               have == sess[c][s].items \ Head(toC[c]).ids
               need == Head(toC[c]).ids \ sess[c][s].items
               want == [t |-> "want", ids |-> need, s |-> 0]
               last == IF need = {} THEN <<>> ELSE <<want>>
    <2>1. toC[c] # <<>> /\ Head(toC[c]).t = "negr" /\ toM' = Sent(c, Recs(have) \o last)
      BY <1>3 DEF ReceiveNegr
    <2>2. Head(toC[c]) \in Msg /\ s \in Slot /\ sess[c][s] \in Session
      <3>1. Head(toC[c]) \in Msg
        BY <2>1, HeadTold
      <3>2. s \in Slot
        BY <2>1, <3>1 DEF Msg
      <3>3. sess \in [Client -> [Slot -> Session]]
        BY DEF IInv, ClientOK
      <3>4. QED
        BY <3>1, <3>2, <3>3
    <2>3. have \in SUBSET Rec /\ need \in SUBSET Rec /\ have \subseteq held[c]
      BY <2>2 DEF Session, Msg, Holder
    <2>4. want \in Msg /\ want.t = "want"
      BY <2>3 DEF Msg
    <2> HIDE DEF have, need, want
    <2>5. Recs(have) \in Seq(Msg) /\ \A m \in Range(Recs(have)) : m.ids \subseteq held[c]
      BY <2>3, RecsAreTold, RecsNames
    <2>6. last \in Seq(Msg) /\ \A m \in Range(last) : m.t = "want"
      BY <2>4, RangeOfOne
    <2> HIDE DEF last
    <2>7. /\ Recs(have) \o last \in Seq(Msg)
          /\ Range(Recs(have) \o last) = Range(Recs(have)) \cup Range(last)
      BY <2>5, <2>6, ConcatProperties, RangeConcatenation
    <2>8. \A m \in Range(Recs(have) \o last) : m.t = "rec" => m.ids \subseteq held[c]
      BY <2>5, <2>6, <2>7
    <2>9. QED
      BY <2>1, <2>7, <2>8
  <1>4. CASE \E s \in Slot : SendNeg(c, s)
    <2>1. PICK s \in Slot : SendNeg(c, s)
      BY <1>4
    <2> DEFINE neg == [t |-> "neg", ids |-> {}, s |-> s]
    <2>2. neg \in Msg /\ neg.t = "neg"
      BY DEF Msg
    <2>3. toM' = toM \/ toM' = Sent(c, <<neg>>)
      BY <2>1 DEF SendNeg
    <2> HIDE DEF neg
    <2>4. <<neg>> \in Seq(Msg) /\ \A m \in Range(<<neg>>) : m.t = "neg"
      BY <2>2, RangeOfOne
    <2>5. QED
      BY <2>3, <2>4
  <1>5. QED
    BY <1>1, <1>2, <1>3, <1>4

(* The link, the queues and what the mirror knows of the peer. *)
LEMMA LinkStep ==
  ASSUME IInv, PromptClose = TRUE, NEW c \in Client, Phase(c), Holder(c), Own(c)
  PROVE  /\ link'[c] # "up" => toM'[c] = <<>> /\ toC'[c] = <<>> /\ ~ hiDone'[c]
         /\ link'[c] = "up" /\ ~ hiDone'[c] =>
              toC'[c] = <<>> /\ toM'[c] # <<>> /\ Head(toM'[c]).t = "hi"
         /\ link'[c] = "up" => stale'[c] = 0
         /\ hiDone'[c] => c \in peers'
  <1> USE DEF Phase, durableVars, clientVars, linkVars, mirrorVars, boundVars
  <1>1. /\ link \in [Client -> {"down", "up", "dead"}] /\ hiDone \in [Client -> BOOLEAN]
        /\ toM \in [Client -> Seq(Msg)] /\ toC \in [Client -> Seq(Msg)]
        /\ stale \in [Client -> Nat] /\ peers \subseteq Client
        /\ sess \in [Client -> [Slot -> Session]]
    BY ToldIsMsg DEF IInv, ClientOK, LinkOK, MirrorOK, FaultOK
  <1>2. CASE UNCHANGED <<link, hiDone, toM, toC, stale, peers>>
    BY <1>2
  <1>3. CASE /\ UNCHANGED <<link, hiDone, toC, stale, peers>>
             /\ \E frames \in Seq(Msg) : toM' = Sent(c, frames)
    BY <1>3, SentKeepsHead DEF Arrives
  <1>4. CASE /\ UNCHANGED <<link, hiDone, stale, peers>> /\ toC[c] # <<>>
             /\ toC' = [toC EXCEPT ![c] = Tail(@)]
             /\ toM' = toM \/ \E frames \in Seq(Msg) : toM' = Sent(c, frames)
    BY <1>1, <1>4, SentKeepsHead DEF Arrives
  <1>5. CASE /\ UNCHANGED <<link, hiDone, stale, peers>>
             /\ toM[c] # <<>> /\ Head(toM[c]).t # "hi"
    BY <1>1, <1>5
  <1>6. CASE Connect(c)
    <2>1. /\ link[c] = "down" /\ stale[c] = 0
          /\ link' = [link EXCEPT ![c] = "up"]
          /\ toM' = [toM EXCEPT ![c] = <<Plain("hi", {})>>]
          /\ UNCHANGED <<hiDone, toC, stale, peers>>
      BY <1>6 DEF Connect
    <2>2. Plain("hi", {}).t = "hi" /\ <<Plain("hi", {})>> # <<>>
      BY DEF Plain
    <2>3. QED
      BY <1>1, <2>1, <2>2
  <1>7. CASE HandleHi(c)
    <2>1. /\ toM[c] # <<>> /\ hiDone' = [hiDone EXCEPT ![c] = TRUE] /\ peers' = peers \cup {c}
          /\ UNCHANGED <<link, stale>>
      BY <1>7 DEF HandleHi
    <2>2. QED
      BY <1>1, <2>1
  <1>8. CASE ClientDown(c)
    <2>1. /\ link[c] = "dead" /\ link' = [link EXCEPT ![c] = "down"]
          /\ UNCHANGED <<hiDone, toM, toC, stale, peers>>
      BY <1>8 DEF ClientDown
    <2>2. QED
      BY <1>1, <2>1
  <1>9. CASE Break(c) \/ Reload(c)
    <2>1. PICK to \in {"dead", "down"} : Cut(c, to)
      BY <1>9 DEF Break, Reload
    <2>2. QED
      BY <1>1, <2>1 DEF Cut
  <1>10. CASE MirrorClose(c)
    <2>1. stale[c] > 0 /\ UNCHANGED <<link, hiDone, toM, toC>>
      BY <1>10 DEF MirrorClose
    <2>2. link[c] # "up" /\ ~ hiDone[c]
      BY <1>1, <2>1
    <2>3. QED
      BY <2>1, <2>2
  <1>11. CASE \E s \in Slot : Timeout(c, s)
    <2>1. PICK s \in Slot : Timeout(c, s)
      BY <1>11
    <2>2. /\ UNCHANGED <<link, hiDone, stale, peers>>
          /\ toM'[c] = Without(toM[c], s) /\ toC'[c] = Without(toC[c], s)
      BY <1>1, <2>1 DEF Timeout
    <2>3. toM[c] # <<>> /\ Head(toM[c]).t = "hi" => Head(toM[c]).s # s
      <3>1. s # 0
        BY BoundsAssumption
      <3>2. toM[c] # <<>> => Head(toM[c]) \in Msg
        BY <1>1, HeadTailProperties
      <3>3. QED
        BY <3>1, <3>2 DEF Msg
    <2>4. /\ toM[c] = <<>> => toM'[c] = <<>>
          /\ toC[c] = <<>> => toC'[c] = <<>>
          /\ toM[c] # <<>> /\ Head(toM[c]).t = "hi" =>
               toM'[c] # <<>> /\ Head(toM'[c]) = Head(toM[c])
      BY <1>1, <2>2, <2>3, WithoutFrames
    <2>5. QED
      BY <2>2, <2>4
  <1>12. CASE (\E r \in Rec : Write(c, r) \/ CommitRec(c, r)) \/ Retry(c)
    BY <1>2, <1>12 DEF Write, CommitRec, Retry
  <1>13. CASE \/ \E r \in Rec : Forward(c, r)
              \/ GreetMirror(c) \/ \E s \in Slot : SendNeg(c, s)
    <2>1. UNCHANGED <<link, hiDone, toC, stale, peers>>
      BY <1>13 DEF Forward, GreetMirror, SendNeg
    <2>2. QED
      BY <1>2, <1>3, <1>13, <2>1, SendsHeld
  <1>14. CASE ReceiveHello(c) \/ ReceiveNegr(c) \/ ReceiveRec(c) \/ ReceiveAck(c)
    <2>1. /\ UNCHANGED <<link, hiDone, stale, peers>> /\ toC[c] # <<>>
          /\ toC' = [toC EXCEPT ![c] = Tail(@)]
          /\ toM' = toM \/ ReceiveNegr(c)
      BY <1>14 DEF ReceiveHello, ReceiveNegr, ReceiveRec, ReceiveAck
    <2>2. QED
      BY <1>4, <2>1, SendsHeld
  <1>15. CASE HandleNeg(c) \/ HandleWant(c) \/ HandleRec(c)
    BY <1>5, <1>15 DEF HandleNeg, HandleWant, HandleRec
  <1>16. QED
    BY <1>6, <1>7, <1>8, <1>9, <1>10, <1>11, <1>12, <1>13, <1>14, <1>15 DEF Own

(* What is left of a session and of the greeting when a link starts. *)
LEMMA QuietStep ==
  ASSUME IInv, NEW c \in Client, Phase(c), Own(c)
  PROVE  /\ Unheard(c)' => greet'[c] = "none" /\ \A s \in Slot : sess'[c][s].wait = {}
         /\ \A s \in Slot : sess'[c][s].step = "load" => sess'[c][s].wait = {}
  <1> USE DEF durableVars, clientVars, linkVars, mirrorVars, boundVars
  <1>1. /\ link \in [Client -> {"down", "up", "dead"}] /\ hiDone \in [Client -> BOOLEAN]
        /\ greet \in [Client -> {"none", "announcing", "done"}]
        /\ sess \in [Client -> [Slot -> Session]]
    BY DEF IInv, ClientOK, LinkOK
  <1>2. \A s \in Slot : sess'[c][s].step = "load" => sess'[c][s].wait = {}
    <2>1. ASSUME NEW s \in Slot, sess'[c][s].step = "load" PROVE sess'[c][s].wait = {}
      BY <2>1, SessionMoves DEF Phase
    <2>2. QED
      BY <2>1
  <1>3. ASSUME Unheard(c), ~ ReceiveNegr(c), NEW s \in Slot PROVE sess'[c][s].wait = {}
    BY <1>3, SessionMoves DEF Phase
  <1>4. toC[c] # <<>> \/ greet[c] # "none" => ~ Unheard(c)
    BY DEF Phase, Unheard
  <1>5. CASE ReceiveHello(c) \/ GreetMirror(c) \/ ReceiveNegr(c)
    <2>1. UNCHANGED <<link, hiDone>> /\ ~ Unheard(c)
      BY <1>4, <1>5 DEF ReceiveHello, GreetMirror, ReceiveNegr
    <2>2. QED
      BY <1>2, <2>1 DEF Unheard
  <1>6. CASE HandleHi(c)
    <2>1. link'[c] = "up" /\ hiDone'[c] = TRUE
      BY <1>1, <1>6 DEF HandleHi, Phase
    <2>2. QED
      BY <1>2, <2>1 DEF Unheard
  <1>7. CASE Break(c)
    <2>1. link'[c] = "dead"
      BY <1>1, <1>7 DEF Break, Cut
    <2>2. QED
      BY <1>2, <2>1 DEF Unheard
  <1>8. CASE ClientDown(c)
    <2>1. greet'[c] = "none"
      BY <1>1, <1>8 DEF ClientDown
    <2>2. ASSUME NEW s \in Slot PROVE sess'[c][s].wait = {}
      BY <1>1, <1>8 DEF ClientDown, Phase, NoSession
    <2>3. QED
      BY <1>2, <2>1, <2>2
  <1>9. CASE Reload(c)
    <2>1. greet'[c] = "none" /\ \A s \in Slot : sess'[c][s].wait = {}
      BY <1>1, <1>9 DEF Reload, NoSession
    <2>2. QED
      BY <1>2, <2>1
  <1>10. CASE /\ UNCHANGED greet /\ ~ ReceiveNegr(c)
              /\ link'[c] = link[c] \/ link[c] = "down"
              /\ hiDone'[c] = hiDone[c]
    <2>1. Unheard(c)' => Unheard(c)
      BY <1>10 DEF Unheard
    <2>2. Unheard(c)' => \A s \in Slot : sess'[c][s].wait = {}
      BY <1>3, <1>10, <2>1
    <2>3. Unheard(c)' => greet'[c] = "none"
      BY <1>10, <2>1 DEF Phase
    <2>4. QED
      BY <1>2, <2>2, <2>3
  <1>11. CASE \/ \E r \in Rec : Write(c, r) \/ Forward(c, r) \/ CommitRec(c, r)
              \/ Connect(c) \/ Retry(c) \/ ReceiveRec(c) \/ ReceiveAck(c)
              \/ \E s \in Slot : SendNeg(c, s) \/ Timeout(c, s)
              \/ HandleNeg(c) \/ HandleWant(c) \/ HandleRec(c) \/ MirrorClose(c)
    <2>1. /\ UNCHANGED <<greet, hiDone>>
          /\ link'[c] = link[c] \/ link[c] = "down"
      BY <1>11 DEF Write, Forward, CommitRec, Connect, Retry, ReceiveRec, ReceiveAck, SendNeg,
         Timeout, HandleNeg, HandleWant, HandleRec, MirrorClose
    <2>2. CASE ReceiveNegr(c)
      BY <1>5, <2>2
    <2>3. QED
      BY <1>10, <2>1, <2>2
  <1>12. QED
    BY <1>5, <1>6, <1>7, <1>8, <1>9, <1>11 DEF Own

LEMMA PhaseStep ==
  ASSUME IInv, PromptClose = TRUE, NEW c \in Client, Phase(c), Holder(c), [Next]_vars
  PROVE  Phase(c)'
  <1>1. CASE Own(c)
    BY <1>1, LinkStep, QuietStep DEF Phase
  <1>2. CASE Same(c) /\ (c \in peers => c \in peers') /\ (toC'[c] = toC[c] \/ Reaches(c))
    <2>1. Unheard(c)' <=> Unheard(c)
      BY <1>2 DEF Same, Unheard
    <2>2. toC'[c] = toC[c] \/ (link[c] = "up" /\ hiDone[c])
      BY <1>2 DEF Reaches, Arrives
    <2>3. QED
      BY <1>2, <2>1, <2>2 DEF Phase, Same
  <1>3. CASE \E d \in Client : d # c /\ Own(d)
    BY <1>2, <1>3, OthersSame
  <1>4. CASE (\E r \in Rec : Arrive(r)) \/ UNCHANGED vars
    <2>1. Same(c) /\ toC' = toC /\ peers' = peers
      BY <1>4 DEF Arrive, Same, vars, durableVars, clientVars, linkVars, mirrorVars
    <2>2. QED
      BY <1>2, <2>1
  <1>5. CASE \E r \in Rec, d \in Client \cup {Other} : Store(r, d) \/ Deliver(r, d)
    BY <1>2, <1>5, MirrorAdds
  <1>6. CASE MirrorRestart
    <2>1. link'[c] = IF link[c] # "down" THEN "dead" ELSE "down"
      BY <1>6 DEF MirrorRestart, Linked
    <2>2. /\ toM'[c] = <<>> /\ toC'[c] = <<>> /\ ~ hiDone'[c]
          /\ greet' = greet /\ sess' = sess
      BY <1>6 DEF MirrorRestart, clientVars
    <2>3. Unheard(c)' => Unheard(c)
      BY <2>1 DEF Unheard
    <2>4. QED
      BY <2>1, <2>2, <2>3 DEF Phase
  <1>7. QED
    BY <1>1, <1>3, <1>4, <1>5, <1>6, NextCases

-----------------------------------------------------------------------------
(* What the mirror has from a client, the client holds. *)

LEMMA HeldGrows ==
  ASSUME IInv, NEW c \in Client, [Next]_vars
  PROVE  held[c] \subseteq held'[c]
  <1> USE DEF durableVars
  <1>1. CASE Own(c)
    <2>1. CASE \E r \in Rec : Write(c, r) \/ CommitRec(c, r)
      <3>1. \E r \in Rec : held' = [held EXCEPT ![c] = @ \cup {r}]
        BY <2>1 DEF Write, CommitRec
      <3>2. QED
        BY <3>1 DEF IInv, DurableOK
    <2>2. \/ \E r \in Rec : Write(c, r) \/ CommitRec(c, r)
          \/ held' = held
      BY <1>1 DEF Own, Forward, Connect, ClientDown, Break, Reload, ReceiveHello, GreetMirror,
         Retry, ReceiveNegr, ReceiveRec, ReceiveAck, SendNeg, Timeout, HandleHi, HandleNeg,
         HandleWant, HandleRec, MirrorClose
    <2>3. QED
      BY <2>1, <2>2
  <1>2. CASE \E d \in Client : d # c /\ Own(d)
    BY <1>2, OthersSame DEF Same
  <1>3. CASE (\E r \in Rec : Arrive(r)) \/ MirrorRestart \/ UNCHANGED vars
    BY <1>3 DEF Arrive, MirrorRestart, vars
  <1>4. CASE \E r \in Rec, d \in Client \cup {Other} : Store(r, d) \/ Deliver(r, d)
    BY <1>4, MirrorAdds DEF Same
  <1>5. QED
    BY <1>1, <1>2, <1>3, <1>4, NextCases

(* The frames and the ingests that come from a client. *)
LEMMA HolderQueue ==
  ASSUME IInv, NEW c \in Client, Holder(c), Own(c)
  PROVE  /\ \A m \in Range(toM'[c]) : m.t = "rec" => m.ids \subseteq held[c]
         /\ \A e \in pipeM' : e[2] = c => e[1] \in held[c]
  <1> USE DEF durableVars, clientVars, linkVars, mirrorVars, boundVars
  <1>1. toM \in [Client -> Seq(Msg)] /\ toM[c] \in Seq(Msg)
    BY DEF IInv, LinkOK
  <1>2. /\ \A m \in Range(toM[c]) : m.t = "rec" => m.ids \subseteq held[c]
        /\ \A e \in pipeM : e[2] = c => e[1] \in held[c]
    BY DEF Holder
  <1>3. CASE pipeM' = pipeM /\ Range(toM'[c]) \subseteq Range(toM[c])
    BY <1>2, <1>3
  <1>4. CASE /\ pipeM' = pipeM
             /\ \E frames \in Seq(Msg) :
                  /\ toM' = Sent(c, frames)
                  /\ \A m \in Range(frames) : m.t = "rec" => m.ids \subseteq held[c]
    <2>1. PICK frames \in Seq(Msg) :
                  /\ toM' = Sent(c, frames)
                  /\ \A m \in Range(frames) : m.t = "rec" => m.ids \subseteq held[c]
      BY <1>4
    <2>2. toM'[c] = toM[c] \/ toM'[c] = toM[c] \o frames
      BY <2>1, SentAt
    <2>3. Range(toM[c] \o frames) = Range(toM[c]) \cup Range(frames)
      BY <1>1, RangeConcatenation
    <2>4. QED
      BY <1>2, <1>4, <2>1, <2>2, <2>3
  <1>5. CASE HandleHi(c) \/ HandleNeg(c) \/ HandleWant(c) \/ HandleRec(c)
    <2>1. toM[c] # <<>> /\ toM'[c] = Tail(toM[c])
      BY <1>1, <1>5 DEF HandleHi, HandleNeg, HandleWant, HandleRec
    <2>2. Head(toM[c]) \in Range(toM[c]) /\ Range(Tail(toM[c])) \subseteq Range(toM[c])
      BY <1>1, <2>1, RangeOfTail
    <2>3. \/ pipeM' = pipeM
          \/ Head(toM[c]).t = "rec" /\ pipeM' = pipeM \cup (Head(toM[c]).ids \X {c})
      BY <1>5 DEF HandleHi, HandleNeg, HandleWant, HandleRec
    <2>4. \A e \in pipeM' : e[2] = c => e[1] \in held[c]
      BY <1>2, <2>2, <2>3
    <2>5. QED
      BY <1>2, <2>1, <2>2, <2>4
  <1>6. CASE Connect(c)
    <2>1. toM'[c] = <<Plain("hi", {})>> /\ pipeM' = pipeM
      BY <1>1, <1>6 DEF Connect
    <2>2. \A m \in Range(toM'[c]) : m.t = "hi"
      BY <2>1, RangeOfOne DEF Plain
    <2>3. QED
      BY <1>2, <2>1, <2>2
  <1>7. CASE Break(c) \/ Reload(c)
    <2>1. toM'[c] = <<>> /\ pipeM' = pipeM
      BY <1>1, <1>7 DEF Break, Reload, Cut
    <2>2. QED
      BY <1>2, <2>1, RangeOfOne
  <1>8. CASE \E s \in Slot : Timeout(c, s)
    <2>1. PICK s \in Slot : toM'[c] = Without(toM[c], s) /\ pipeM' = pipeM
      BY <1>1, <1>8 DEF Timeout
    <2>2. QED
      BY <1>1, <1>3, <2>1, WithoutFrames
  <1>9. CASE \/ \E r \in Rec : Forward(c, r)
             \/ GreetMirror(c) \/ ReceiveNegr(c) \/ \E s \in Slot : SendNeg(c, s)
    <2>1. pipeM' = pipeM
      BY <1>9 DEF Forward, GreetMirror, ReceiveNegr, SendNeg
    <2>2. QED
      BY <1>3, <1>4, <1>9, <2>1, SendsHeld
  <1>10. CASE \/ \E r \in Rec : Write(c, r) \/ CommitRec(c, r)
              \/ ClientDown(c) \/ ReceiveHello(c) \/ Retry(c) \/ ReceiveRec(c)
              \/ ReceiveAck(c) \/ MirrorClose(c)
    <2>1. toM' = toM /\ pipeM' = pipeM
      BY <1>10 DEF Write, CommitRec, ClientDown, ReceiveHello, Retry, ReceiveRec, ReceiveAck,
         MirrorClose
    <2>2. QED
      BY <1>3, <2>1
  <1>11. QED
    BY <1>5, <1>6, <1>7, <1>8, <1>9, <1>10 DEF Own

LEMMA HolderStep ==
  ASSUME IInv, NEW c \in Client, Holder(c), [Next]_vars
  PROVE  Holder(c)'
  <1>1. held[c] \subseteq held'[c]
    BY HeldGrows
  <1>2. CASE Own(c)
    <2>1. local'[c] \subseteq held'[c]
      <3>1. CASE \E r \in Rec : Write(c, r)
        BY <3>1 DEF Write, Holder, IInv, DurableOK, ClientOK
      <3>2. CASE (\E r \in Rec : Forward(c, r)) \/ Reload(c)
        BY <1>1, <3>2, ZenonT(60) DEF Forward, Reload, Holder, IInv, ClientOK
      <3>3. CASE local' = local
        BY <1>1, <3>3 DEF Holder
      <3>4. \/ \E r \in Rec : Write(c, r) \/ Forward(c, r)
            \/ Reload(c) \/ local' = local
        BY <1>2 DEF Own, CommitRec, Connect, ClientDown, Break, ReceiveHello, GreetMirror,
           Retry, ReceiveNegr, ReceiveRec, ReceiveAck, SendNeg, Timeout, HandleHi, HandleNeg,
           HandleWant, HandleRec, MirrorClose, clientVars
      <3>5. QED
        BY <3>1, <3>2, <3>3, <3>4
    <2>2. ASSUME NEW s \in Slot PROVE sess'[c][s].items \subseteq held'[c]
      BY <1>1, <1>2, SessionMoves DEF Holder
    <2>3. QED
      BY <1>1, <1>2, <2>1, <2>2, HolderQueue DEF Holder
  <1>3. CASE Same(c) /\ \A e : e[2] = c => (e \in pipeM' => e \in pipeM)
    BY <1>3 DEF Same, Holder
  <1>4. CASE \E d \in Client : d # c /\ Own(d)
    BY <1>3, <1>4, OthersSame
  <1>5. CASE \E r \in Rec : Arrive(r)
    <2>1. Same(c) /\ \E r \in Rec : pipeM' = pipeM \cup {<<r, Other>>}
      BY <1>5 DEF Arrive, Same, durableVars, clientVars, linkVars
    <2>2. c # Other
      BY BoundsAssumption
    <2>3. \A e : e[2] = c => (e \in pipeM' => e \in pipeM)
      BY <2>1, <2>2
    <2>4. QED
      BY <1>3, <2>1, <2>3
  <1>6. CASE \E r \in Rec, d \in Client \cup {Other} : Store(r, d) \/ Deliver(r, d)
    BY <1>3, <1>6, MirrorAdds
  <1>7. CASE MirrorRestart
    <2>1. toM'[c] = <<>> /\ pipeM' = {} /\ UNCHANGED <<local, held, sess>>
      BY <1>7 DEF MirrorRestart, clientVars, durableVars
    <2>2. QED
      BY <2>1, RangeOfOne DEF Holder
  <1>8. CASE UNCHANGED vars
    BY <1>8 DEF vars, durableVars, clientVars, linkVars, mirrorVars, Holder
  <1>9. QED
    BY <1>2, <1>4, <1>5, <1>6, <1>7, <1>8, NextCases

-----------------------------------------------------------------------------
(* What is covered stays covered, and what is stored is covered. *)

LEMMA NamedIn ==
  ASSUME NEW q, NEW x
  PROVE  x \in UNION {m.ids : m \in {f \in Range(q) : f.t = "rec"}}
           <=> \E m \in Range(q) : m.t = "rec" /\ x \in m.ids
OBVIOUS

LEMMA FreshIn ==
  ASSUME NEW S, NEW c, NEW x
  PROVE  x \in {e[1] : e \in {f \in S : f[2] # c}} <=> \E e \in S : e[2] # c /\ x = e[1]
OBVIOUS

LEMMA CoveredMeans ==
  ASSUME NEW c, NEW x
  PROVE  /\ x \in Covered(c) <=>
              \/ x \in held[c] \cup pipe[c]
              \/ \E m \in Range(toC[c]) : m.t = "rec" /\ x \in m.ids
              \/ \E e \in fresh : e[2] # c /\ x = e[1]
         /\ x \in Covered(c)' <=>
              \/ x \in held'[c] \cup pipe'[c]
              \/ \E m \in Range(toC'[c]) : m.t = "rec" /\ x \in m.ids
              \/ \E e \in fresh' : e[2] # c /\ x = e[1]
BY NamedIn, FreshIn DEF Covered, Underway

(* The frames a client gets: a rec frame stays until it is received, and *)
(* a negr frame names the whole store when it is sent.                   *)
LEMMA FramesStep ==
  ASSUME IInv, NEW c \in Client, Own(c), Reaches(c)'
  PROVE  /\ \A m \in Range(toC[c]) : m.t = "rec" =>
              m \in Range(toC'[c]) \/ (ReceiveRec(c) /\ m = Head(toC[c]))
         /\ \A m \in Range(toC'[c]) : m.t = "negr" => m \in Range(toC[c]) \/ m.ids = store
  <1> USE DEF linkVars
  <1>1. toC \in [Client -> Seq(Msg)] /\ toC[c] \in Seq(Msg)
    BY ToldIsMsg DEF IInv, LinkOK
  <1>2. CASE toC' = toC
    BY <1>2
  <1>3. CASE ReceiveHello(c) \/ ReceiveNegr(c) \/ ReceiveAck(c) \/ ReceiveRec(c)
    <2>1. toC[c] # <<>> /\ toC' = [toC EXCEPT ![c] = Tail(@)]
      BY <1>3 DEF ReceiveHello, ReceiveNegr, ReceiveAck, ReceiveRec
    <2>2. toC'[c] = Tail(toC[c])
      BY <1>1, <2>1
    <2>3. Range(toC[c]) = {Head(toC[c])} \cup Range(toC'[c])
      BY <1>1, <2>1, <2>2, RangeOfTail
    <2>4. ReceiveRec(c) \/ Head(toC[c]).t # "rec"
      BY <1>3 DEF ReceiveHello, ReceiveNegr, ReceiveAck
    <2>5. QED
      BY <2>3, <2>4
  <1>4. ASSUME NEW more \in Seq(Msg), toC' = Replied(c, more),
               \A m \in Range(more) : m.t = "negr" => m.ids = store
        PROVE  /\ Range(toC[c]) \subseteq Range(toC'[c])
               /\ \A m \in Range(toC'[c]) :
                    m.t = "negr" => m \in Range(toC[c]) \/ m.ids = store
    <2>1. toC'[c] = toC[c] \o more
      BY <1>1, <1>4 DEF Replied
    <2>2. Range(toC'[c]) = Range(toC[c]) \cup Range(more)
      BY <1>1, <2>1, RangeConcatenation
    <2>3. QED
      BY <1>4, <2>2
  <1>5. CASE HandleHi(c)
    <2>1. /\ <<Plain("hello", {})>> \in Seq(Msg)
          /\ \A m \in Range(<<Plain("hello", {})>>) : m.t = "hello"
      <3>1. Plain("hello", {}) \in Msg /\ Plain("hello", {}).t = "hello"
        BY PlainIsMsg DEF Plain
      <3>2. QED
        BY <3>1, RangeOfOne
    <2>2. toC' = Replied(c, <<Plain("hello", {})>>)
      BY <1>5 DEF HandleHi
    <2>3. QED
      BY <1>4, <2>1, <2>2
  <1>6. CASE HandleNeg(c)
    <2> DEFINE reply == [t |-> "negr", ids |-> store, s |-> Head(toM[c]).s]
    <2>1. toM[c] # <<>> /\ Head(toM[c]).t = "neg" /\ toC' = Replied(c, <<reply>>)
      BY <1>6 DEF HandleNeg
    <2>2. Head(toM[c]) \in Msg
      BY <2>1, QueueTail DEF IInv, LinkOK
    <2>3. reply \in Msg /\ reply.ids = store
      BY <2>1, <2>2 DEF Msg, IInv, DurableOK
    <2> HIDE DEF reply
    <2>4. <<reply>> \in Seq(Msg) /\ \A m \in Range(<<reply>>) : m.ids = store
      BY <2>3, RangeOfOne
    <2>5. QED
      BY <1>4, <2>1, <2>4
  <1>7. CASE HandleWant(c)
    <2> DEFINE ids == Head(toM[c]).ids \cap store
    <2>1. ids \in SUBSET Rec
      BY DEF IInv, DurableOK
    <2>2. toC' = Replied(c, Recs(ids))
      BY <1>7 DEF HandleWant
    <2> HIDE DEF ids
    <2>3. Recs(ids) \in Seq(Msg) /\ \A m \in Range(Recs(ids)) : m.t = "rec"
      BY <2>1, RecsAreTold, RecsNames
    <2>4. QED
      BY <1>4, <2>2, <2>3
  <1>8. CASE \E s \in Slot : Timeout(c, s)
    <2>1. PICK s \in Slot : toC'[c] = Without(toC[c], s)
      BY <1>1, <1>8 DEF Timeout
    <2>2. /\ Range(toC'[c]) \subseteq Range(toC[c])
          /\ \A m \in Range(toC[c]) : m.s # s => m \in Range(toC'[c])
      BY <1>1, <2>1, WithoutFrames
    <2>3. \A m \in Range(toC[c]) : m.t = "rec" => m.s = 0
      BY <1>1, RangeOfSeq DEF Msg
    <2>4. s # 0
      BY BoundsAssumption
    <2>5. QED
      BY <2>2, <2>3, <2>4
  <1>9. ~ Break(c) /\ ~ Reload(c)
    BY DEF Break, Reload, Cut, Reaches, Arrives, IInv, LinkOK
  <1>10. CASE \/ \E r \in Rec : Write(c, r) \/ Forward(c, r) \/ CommitRec(c, r)
              \/ Connect(c) \/ ClientDown(c) \/ GreetMirror(c) \/ Retry(c)
              \/ \E s \in Slot : SendNeg(c, s)
              \/ HandleRec(c) \/ MirrorClose(c)
    BY <1>2, <1>10 DEF Write, Forward, CommitRec, Connect, ClientDown, GreetMirror, Retry,
       SendNeg, HandleRec, MirrorClose
  <1>11. QED
    BY <1>3, <1>4, <1>5, <1>6, <1>7, <1>8, <1>9, <1>10 DEF Own

(* Of a client's own steps. *)
LEMMA OwnCovered ==
  ASSUME IInv, NEW c \in Client, Own(c), Reaches(c)'
  PROVE  /\ store' = store /\ fresh' = fresh
         /\ Covered(c) \subseteq Covered(c)'
  <1> USE DEF durableVars, clientVars, linkVars, mirrorVars, boundVars
  <1>1. store' = store /\ fresh' = fresh
    BY DEF Own, Write, Forward, CommitRec, Connect, ClientDown, Break, Reload, ReceiveHello,
       GreetMirror, Retry, ReceiveNegr, ReceiveRec, ReceiveAck, SendNeg, Timeout, HandleHi,
       HandleNeg, HandleWant, HandleRec, MirrorClose
  <1>2. held[c] \subseteq held'[c]
    <2>1. [Next]_vars \/ \E r \in Rec : held' = [held EXCEPT ![c] = @ \cup {r}]
      BY DEF Own, Next, System, MirrorStep, ClientStep, Environment
    <2>2. QED
      BY <2>1, HeldGrows DEF IInv, DurableOK
  <1>3. pipe[c] \subseteq pipe'[c] \cup held'[c]
    <2>1. CASE \E r \in Rec : CommitRec(c, r)
      <3>1. \E r \in Rec : /\ pipe' = [pipe EXCEPT ![c] = @ \ {r}]
                           /\ held' = [held EXCEPT ![c] = @ \cup {r}]
        BY <2>1 DEF CommitRec
      <3>2. QED
        BY <3>1 DEF IInv, DurableOK, ClientOK
    <2>2. CASE ReceiveRec(c)
      BY <2>2 DEF ReceiveRec, IInv, ClientOK
    <2>3. ~ Reload(c)
      BY DEF Reload, Cut, Reaches, Arrives, IInv, LinkOK
    <2>4. (\E r \in Rec : CommitRec(c, r)) \/ ReceiveRec(c) \/ pipe' = pipe
      BY <2>3 DEF Own, Write, Forward, Connect, ClientDown, Break, ReceiveHello,
         GreetMirror, Retry, ReceiveNegr, ReceiveAck, SendNeg, Timeout, HandleHi,
         HandleNeg, HandleWant, HandleRec, MirrorClose
    <2>5. QED
      BY <2>1, <2>2, <2>4
  <1>4. ReceiveRec(c) => Head(toC[c]).ids \subseteq pipe'[c]
    BY DEF ReceiveRec, IInv, ClientOK
  <1>5. ASSUME NEW x \in Covered(c) PROVE x \in Covered(c)'
    <2>1. CASE x \in held[c] \cup pipe[c]
      BY <1>2, <1>3, <2>1, CoveredMeans
    <2>2. CASE \E m \in Range(toC[c]) : m.t = "rec" /\ x \in m.ids
      BY <1>4, <2>2, FramesStep, CoveredMeans
    <2>3. CASE \E e \in fresh : e[2] # c /\ x = e[1]
      BY <1>1, <2>3, CoveredMeans
    <2>4. QED
      BY <2>1, <2>2, <2>3, CoveredMeans
  <1>6. QED
    BY <1>1, <1>5

(* Of the mirror's: what it forgets to be fresh it has forwarded. *)
LEMMA MirrorCovered ==
  ASSUME IInv, NEW c \in Client, Holder(c), c \in peers, Reaches(c),
         NEW r \in Rec, NEW d \in Client \cup {Other}, Store(r, d) \/ Deliver(r, d)
  PROVE  Covered(c) \subseteq Covered(c)' /\ store' \subseteq store \cup Covered(c)'
  <1>1. /\ Same(c) /\ Range(toC[c]) \subseteq Range(toC'[c])
    BY MirrorAdds
  <1>2. ASSUME NEW x \in Covered(c), fresh \subseteq fresh' PROVE x \in Covered(c)'
    BY <1>1, <1>2, CoveredMeans DEF Same
  <1>3. CASE Store(r, d)
    <2>1. fresh \subseteq fresh' /\ store' = store \cup {r}
      BY <1>3 DEF Store
    <2>2. ASSUME r \notin store PROVE r \in Covered(c)'
      <3>1. <<r, d>> \in pipeM /\ <<r, d>> \in fresh'
        BY <1>3, <2>2 DEF Store
      <3>2. CASE d = c
        <4>1. r \in held[c]
          BY <3>1, <3>2 DEF Holder
        <4>2. QED
          BY <4>1, <1>1, CoveredMeans DEF Same
      <3>3. CASE d # c
        <4>1. <<r, d>>[2] # c /\ <<r, d>>[1] = r
          BY <3>3
        <4>2. QED
          BY <3>1, <4>1, CoveredMeans
      <3>4. QED
        BY <3>2, <3>3
    <2>3. QED
      BY <1>2, <2>1, <2>2
  <1>4. CASE Deliver(r, d)
    <2>1. store' = store /\ fresh' = fresh \ {<<r, d>>}
      BY <1>4 DEF Deliver, durableVars
    <2>2. CASE d = c
      <3>1. \A x : (\E e \in fresh : e[2] # c /\ x = e[1])
                     => \E e \in fresh' : e[2] # c /\ x = e[1]
        BY <2>1, <2>2
      <3>2. QED
        BY <1>1, <2>1, <3>1, CoveredMeans, SMTT(30) DEF Same
    <2>3. CASE d # c
      <3>1. /\ Plain("rec", {r}) \in Msg /\ Plain("rec", {r}).t = "rec"
            /\ Plain("rec", {r}).ids = {r}
        BY PlainIsMsg DEF Plain
      <3>2. toC \in [Client -> Seq(Msg)]
        BY ToldIsMsg DEF IInv, LinkOK
      <3>3. toC'[c] = Append(toC[c], Plain("rec", {r}))
        <4> DEFINE routed == [e \in Client |->
                     IF e \in Routed(d) THEN Append(toC[e], Plain("rec", {r})) ELSE toC[e]]
        <4>1. toC' = AckTo(d, r, routed)
          BY <1>4 DEF Deliver
        <4>2. c \in Routed(d)
          BY <2>3 DEF Routed
        <4>3. routed[c] = Append(toC[c], Plain("rec", {r})) /\ routed \in [Client -> Seq(Msg)]
          <5>1. \A e \in Client : Append(toC[e], Plain("rec", {r})) \in Seq(Msg)
            BY <3>1, <3>2
          <5>2. QED
            BY <3>2, <4>2, <5>1
        <4> HIDE DEF routed
        <4>4. toC'[c] = routed[c]
          BY <4>1, <4>3, <2>3 DEF AckTo
        <4>5. QED
          BY <4>3, <4>4
      <3>4. Plain("rec", {r}) \in Range(toC'[c])
        BY <3>1, <3>2, <3>3, RangeOfAppend
      <3>5. r \in Covered(c)'
        BY <3>1, <3>4, CoveredMeans
      <3>6. ASSUME NEW x \in Covered(c), x # r PROVE x \in Covered(c)'
        BY <1>1, <2>1, <3>6, CoveredMeans DEF Same
      <3>7. QED
        BY <2>1, <3>5, <3>6
    <2>4. QED
      BY <2>2, <2>3
  <1>5. QED
    BY <1>3, <1>4

LEMMA CoveredStep ==
  ASSUME IInv, NEW c \in Client, Phase(c), Holder(c), Reaches(c), Reaches(c)', [Next]_vars
  PROVE  Covered(c) \subseteq Covered(c)' /\ store' \subseteq store \cup Covered(c)'
  <1>1. CASE Own(c)
    BY <1>1, OwnCovered
  <1>2. CASE /\ Same(c) /\ toC'[c] = toC[c] /\ fresh' = fresh /\ store' = store
    BY <1>2, CoveredMeans DEF Same
  <1>3. CASE \E d \in Client : d # c /\ Own(d)
    BY <1>2, <1>3, OthersSame
  <1>4. CASE (\E r \in Rec : Arrive(r)) \/ UNCHANGED vars
    <2>1. Same(c) /\ toC' = toC /\ fresh' = fresh /\ store' = store
      BY <1>4 DEF Arrive, Same, vars, durableVars, clientVars, linkVars, mirrorVars
    <2>2. QED
      BY <1>2, <2>1
  <1>5. CASE \E r \in Rec, d \in Client \cup {Other} : Store(r, d) \/ Deliver(r, d)
    <2>1. c \in peers
      BY DEF Reaches, Phase
    <2>2. QED
      BY <1>5, <2>1, MirrorCovered
  <1>6. ~ MirrorRestart
    BY DEF MirrorRestart, Reaches
  <1>7. QED
    BY <1>1, <1>3, <1>4, <1>5, <1>6, NextCases

(* A client is reached again by the hi of a new link, with nothing left of *)
(* the last one.                                                           *)
LEMMA ReachedByHi ==
  ASSUME IInv, NEW c \in Client, Phase(c), ~ Reaches(c), Reaches(c)', [Next]_vars
  PROVE  HandleHi(c) /\ Unheard(c) /\ toC[c] = <<>>
  <1>1. /\ link \in [Client -> {"down", "up", "dead"}] /\ hiDone \in [Client -> BOOLEAN]
    BY DEF IInv, LinkOK
  <1>2. ~ Same(c)
    BY DEF Same, Reaches, Arrives
  <1>3. Own(c)
    <2>1. ~ \E d \in Client : d # c /\ Own(d)
      BY <1>2, OthersSame
    <2>2. ~ ((\E r \in Rec : Arrive(r)) \/ UNCHANGED vars)
      BY <1>2 DEF Arrive, Same, vars, durableVars, clientVars, linkVars
    <2>3. ~ \E r \in Rec, d \in Client \cup {Other} : Store(r, d) \/ Deliver(r, d)
      BY <1>2, MirrorAdds
    <2>4. ~ MirrorRestart
      BY DEF MirrorRestart, Reaches
    <2>5. QED
      BY <2>1, <2>2, <2>3, <2>4, NextCases
  <1>4. ~ Connect(c)
    BY <1>1 DEF Connect, Phase, Reaches, Arrives
  <1>5. ~ ClientDown(c) /\ ~ Break(c) /\ ~ Reload(c)
    BY <1>1 DEF ClientDown, Break, Reload, Cut, Reaches, Arrives
  <1>6. HandleHi(c)
    <2>1. ~ UNCHANGED <<link, hiDone>>
      BY DEF Reaches, Arrives
    <2>2. QED
      BY <1>3, <1>4, <1>5, <2>1 DEF Own, Write, Forward, CommitRec, ReceiveHello, GreetMirror,
         Retry, ReceiveNegr, ReceiveRec, ReceiveAck, SendNeg, Timeout, HandleNeg, HandleWant,
         HandleRec, MirrorClose, linkVars
  <1>7. link[c] = "up" /\ ~ hiDone[c]
    <2>1. link' = link /\ toM[c] # <<>>
      BY <1>6 DEF HandleHi
    <2>2. link[c] = "up"
      BY <2>1 DEF Reaches, Arrives
    <2>3. QED
      BY <2>2 DEF Reaches, Arrives
  <1>8. QED
    BY <1>6, <1>7 DEF Unheard, Phase

LEMMA ExchangeStep ==
  ASSUME IInv, NEW c \in Client, Phase(c), Holder(c), ExchangeCovers(c), [Next]_vars
  PROVE  ExchangeCovers(c)'
  <1>1. SUFFICES ASSUME Reaches(c)'
                 PROVE  /\ \A m \in Range(toC'[c]) :
                             m.t = "negr" => store' \subseteq m.ids \cup Covered(c)'
                        /\ \A s \in Slot : sess'[c][s].wait # {} =>
                             store' \subseteq sess'[c][s].wait \cup Covered(c)'
    BY DEF ExchangeCovers
  <1>2. CASE ~ Reaches(c)
    <2>1. HandleHi(c) /\ Unheard(c) /\ toC[c] = <<>>
      BY <1>1, <1>2, ReachedByHi
    <2>2. \A m \in Range(toC'[c]) : m.t # "negr"
      <3>1. toC'[c] = <<>> \o <<Plain("hello", {})>>
        BY <2>1 DEF HandleHi, Replied, IInv, LinkOK
      <3>2. Plain("hello", {}) \in Msg /\ Plain("hello", {}).t = "hello"
        BY PlainIsMsg DEF Plain
      <3>3. toC'[c] = <<Plain("hello", {})>>
        BY <3>1, <3>2
      <3>4. QED
        BY <3>2, <3>3, RangeOfOne
    <2>3. \A s \in Slot : sess'[c][s].wait = {}
      BY <2>1 DEF HandleHi, clientVars, Phase
    <2>4. QED
      BY <2>2, <2>3
  <1>3. CASE Reaches(c)
    <2>1. Covered(c) \subseteq Covered(c)' /\ store' \subseteq store \cup Covered(c)'
      BY <1>1, <1>3, CoveredStep
    <2>2. /\ \A m \in Range(toC[c]) : m.t = "negr" => store \subseteq m.ids \cup Covered(c)
          /\ \A s \in Slot :
               sess[c][s].wait # {} => store \subseteq sess[c][s].wait \cup Covered(c)
      BY <1>3 DEF ExchangeCovers
    <2>3. CASE Own(c)
      <3>1. store' = store /\ held[c] \subseteq Covered(c) /\ held'[c] \subseteq Covered(c)'
        BY <1>1, <2>3, OwnCovered, CoveredMeans
      <3>2. \A m \in Range(toC'[c]) : m.t = "negr" => store' \subseteq m.ids \cup Covered(c)'
        BY <1>1, <2>1, <2>2, <2>3, <3>1, FramesStep
      <3>3. ASSUME NEW s \in Slot, sess'[c][s].wait # {}
            PROVE  store' \subseteq sess'[c][s].wait \cup Covered(c)'
        <4>1. CASE sess'[c][s].wait = sess[c][s].wait
          BY <2>1, <2>2, <3>1, <3>3, <4>1
        <4>2. CASE \E r \in Rec : /\ CommitRec(c, r)
                                 /\ sess'[c][s].wait = sess[c][s].wait \ {r}
          <5>1. PICK r \in Rec : /\ held' = [held EXCEPT ![c] = @ \cup {r}]
                                 /\ sess'[c][s].wait = sess[c][s].wait \ {r}
            BY <4>2 DEF CommitRec
          <5>2. r \in Covered(c)'
            BY <3>1, <5>1 DEF IInv, DurableOK
          <5>3. QED
            BY <2>1, <2>2, <3>1, <3>3, <5>1, <5>2
        <4>3. CASE /\ ReceiveNegr(c) /\ s = Head(toC[c]).s
                   /\ sess'[c][s].wait = Head(toC[c]).ids \ sess[c][s].items
          <5>1. toC[c] # <<>> /\ Head(toC[c]).t = "negr"
            BY <4>3 DEF ReceiveNegr
          <5>2. Head(toC[c]) \in Range(toC[c])
            BY <5>1, RangeOfTail DEF IInv, LinkOK
          <5>3. store \subseteq Head(toC[c]).ids \cup Covered(c)
            BY <2>2, <5>1, <5>2
          <5>4. sess[c][s].items \subseteq Covered(c)
            BY <3>1 DEF Holder
          <5>5. QED
            BY <2>1, <3>1, <4>3, <5>3, <5>4
        <4>4. QED
          BY <2>3, <3>3, <4>1, <4>2, <4>3, SessionMoves
      <3>4. QED
        BY <3>2, <3>3
    <2>4. CASE /\ Same(c)
               /\ \A m \in Range(toC'[c]) : m \in Range(toC[c]) \/ m.t \in {"rec", "ack"}
      BY <2>1, <2>2, <2>4 DEF Same
    <2>5. CASE \E d \in Client : d # c /\ Own(d)
      BY <2>4, <2>5, OthersSame
    <2>6. CASE (\E r \in Rec : Arrive(r)) \/ UNCHANGED vars
      <3>1. Same(c) /\ toC' = toC
        BY <2>6 DEF Arrive, Same, vars, durableVars, clientVars, linkVars
      <3>2. QED
        BY <2>4, <3>1
    <2>7. CASE \E r \in Rec, d \in Client \cup {Other} : Store(r, d) \/ Deliver(r, d)
      BY <2>4, <2>7, MirrorAdds
    <2>8. ~ MirrorRestart
      BY <1>1 DEF MirrorRestart, Reaches
    <2>9. QED
      BY <2>3, <2>5, <2>6, <2>7, <2>8, NextCases
  <1>4. QED
    BY <1>2, <1>3

-----------------------------------------------------------------------------
(* The marker goes when a session completes, and only then. *)

LEMMA MarkerGoes ==
  ASSUME IInv, NEW c \in Client, pending[c], ~ pending'[c], [Next]_vars
  PROVE  /\ Own(c)
         /\ \/ /\ ReceiveNegr(c)
               /\ Head(toC[c]).ids \subseteq sess[c][Head(toC[c]).s].items
            \/ \E r \in Rec, s \in Slot : CommitRec(c, r) /\ sess[c][s].wait = {r}
  <1>1. pending \in [Client -> BOOLEAN] /\ ~ UNCHANGED pending /\ ~ Same(c)
    BY DEF IInv, DurableOK, Same
  <1>2. Own(c)
    <2>1. ~ \E d \in Client : d # c /\ Own(d)
      BY <1>1, OthersSame
    <2>2. ~ ((\E r \in Rec : Arrive(r)) \/ MirrorRestart \/ UNCHANGED vars)
      BY <1>1 DEF Arrive, MirrorRestart, vars, durableVars
    <2>3. ~ \E r \in Rec, d \in Client \cup {Other} : Store(r, d) \/ Deliver(r, d)
      BY <1>1, MirrorAdds
    <2>4. QED
      BY <2>1, <2>2, <2>3, NextCases
  <1>3. ~ Started(c)
    BY <1>1 DEF Started
  <1>4. \A S : ~ Finished(c, S, FALSE)
    BY <1>1 DEF Finished
  <1>5. CASE ReceiveNegr(c)
    <2>1. Head(toC[c]).ids \ sess[c][Head(toC[c]).s].items = {}
      BY <1>1, <1>5 DEF ReceiveNegr
    <2>2. QED
      BY <1>2, <1>5, <2>1
  <1>6. CASE \E r \in Rec : CommitRec(c, r)
    <2>1. PICK r \in Rec : CommitRec(c, r)
      BY <1>6
    <2>2. Finished(c, {s \in Slot : sess[c][s].wait = {r}}, TRUE)
      BY <2>1 DEF CommitRec
    <2>3. {s \in Slot : sess[c][s].wait = {r}} # {}
      BY <1>1, <2>2 DEF Finished
    <2>4. QED
      BY <1>2, <2>1, <2>3
  <1>7. ReceiveNegr(c) \/ \E r \in Rec : CommitRec(c, r)
    BY <1>1, <1>2, <1>3, <1>4 DEF Own, Write, Forward, Connect, ClientDown, Break, Reload,
       ReceiveHello, GreetMirror, Retry, ReceiveRec, ReceiveAck, SendNeg, Timeout, HandleHi,
       HandleNeg, HandleWant, HandleRec, MirrorClose, durableVars
  <1>8. QED
    BY <1>5, <1>6, <1>7

(* A greeting ends with a marker: a watching device reconciles. *)
LEMMA GreetingMarks ==
  ASSUME IInv, NEW c \in Watcher, greet[c] # "done", greet'[c] = "done", [Next]_vars
  PROVE  pending'[c]
  <1>1. /\ c \in Client /\ greet \in [Client -> {"none", "announcing", "done"}]
        /\ ~ UNCHANGED greet /\ ~ Same(c)
    BY BoundsAssumption DEF IInv, ClientOK, Same
  <1>2. Own(c)
    <2>1. ~ \E d \in Client : d # c /\ Own(d)
      BY <1>1, OthersSame
    <2>2. ~ ((\E r \in Rec : Arrive(r)) \/ MirrorRestart \/ UNCHANGED vars)
      BY <1>1 DEF Arrive, MirrorRestart, vars, clientVars
    <2>3. ~ \E r \in Rec, d \in Client \cup {Other} : Store(r, d) \/ Deliver(r, d)
      BY <1>1, MirrorAdds
    <2>4. QED
      BY <2>1, <2>2, <2>3, NextCases
  <1>3. GreetMirror(c)
    <2>1. ~ ClientDown(c) /\ ~ Reload(c) /\ ~ ReceiveHello(c)
      BY <1>1 DEF ClientDown, Reload, ReceiveHello
    <2>2. QED
      BY <1>1, <1>2, <2>1 DEF Own, Write, Forward, CommitRec, Connect, Break, Retry, ReceiveNegr,
         ReceiveRec, ReceiveAck, SendNeg, Timeout, HandleHi, HandleNeg, HandleWant, HandleRec,
         MirrorClose, clientVars
  <1>4. Started(c)
    BY <1>3 DEF GreetMirror
  <1>5. QED
    BY <1>1, <1>4 DEF Started, IInv, DurableOK

LEMMA NothingMissedStep ==
  ASSUME IInv, \A c \in Client : Phase(c) /\ Holder(c) /\ ExchangeCovers(c), NothingMissed,
         [Next]_vars
  PROVE  NothingMissed'
  <1>1. SUFFICES ASSUME NEW c \in Watcher, Reaches(c)', greet'[c] = "done", ~ pending'[c]
                 PROVE  store' \subseteq Covered(c)'
    BY DEF NothingMissed, Covered
  <1>2. c \in Client /\ Phase(c) /\ Holder(c) /\ ExchangeCovers(c)
    BY BoundsAssumption
  <1>3. greet[c] = "done"
    BY <1>1, GreetingMarks
  <1>4. Reaches(c)
    <2>1. SUFFICES ASSUME ~ Reaches(c) PROVE FALSE
      OBVIOUS
    <2>2. Unheard(c)
      BY <1>1, <1>2, <2>1, ReachedByHi
    <2>3. QED
      BY <1>2, <1>3, <2>2 DEF Phase
  <1>5. Covered(c) \subseteq Covered(c)' /\ store' \subseteq store \cup Covered(c)'
    BY <1>1, <1>2, <1>4, CoveredStep
  <1>6. CASE ~ pending[c]
    <2>1. store \subseteq Covered(c)
      BY <1>3, <1>4, <1>6 DEF NothingMissed, Covered
    <2>2. QED
      BY <1>5, <2>1
  <1>7. CASE pending[c]
    <2>1. held[c] \subseteq Covered(c) /\ held'[c] \subseteq Covered(c)'
      BY CoveredMeans
    <2>2. CASE /\ ReceiveNegr(c)
               /\ Head(toC[c]).ids \subseteq sess[c][Head(toC[c]).s].items
      <3>1. toC[c] # <<>> /\ Head(toC[c]).t = "negr"
        BY <2>2 DEF ReceiveNegr
      <3>2. Head(toC[c]) \in Range(toC[c]) /\ Head(toC[c]).s \in Slot
        <4>1. Head(toC[c]) \in Msg
          BY <1>2, <3>1, HeadTold
        <4>2. Head(toC[c]).s \in Slot
          BY <3>1, <4>1 DEF Msg
        <4>3. QED
          BY <1>2, <3>1, <4>2, RangeOfTail DEF IInv, LinkOK
      <3>3. store \subseteq Head(toC[c]).ids \cup Covered(c)
        BY <1>2, <1>4, <3>1, <3>2 DEF ExchangeCovers
      <3>4. Head(toC[c]).ids \subseteq held[c]
        BY <1>2, <2>2, <3>2 DEF Holder
      <3>5. QED
        BY <1>5, <2>1, <3>3, <3>4
    <2>3. CASE \E r \in Rec, s \in Slot : CommitRec(c, r) /\ sess[c][s].wait = {r}
      <3>1. PICK r \in Rec, s \in Slot : CommitRec(c, r) /\ sess[c][s].wait = {r}
        BY <2>3
      <3>2. store \subseteq {r} \cup Covered(c)
        BY <1>2, <1>4, <3>1 DEF ExchangeCovers
      <3>3. r \in held'[c]
        BY <1>2, <3>1 DEF CommitRec, IInv, DurableOK
      <3>4. QED
        BY <1>5, <2>1, <3>2, <3>3
    <2>4. QED
      BY <1>1, <1>2, <1>7, <2>2, <2>3, MarkerGoes
  <1>8. QED
    BY <1>6, <1>7

-----------------------------------------------------------------------------
LEMMA CatchUpInit == Init => CatchUpInv
  <1>1. SUFFICES ASSUME Init PROVE CatchUpInv
    OBVIOUS
  <1>2. ASSUME NEW c \in Client PROVE Phase(c) /\ Holder(c) /\ ExchangeCovers(c)
    <2>1. Range(toM[c]) = {} /\ Range(toC[c]) = {} /\ pipeM = {}
      BY <1>1, RangeOfOne DEF Init
    <2>2. Phase(c)
      BY <1>1 DEF Init, Phase, NoSession
    <2>3. Holder(c) /\ ExchangeCovers(c)
      BY <1>1, <2>1 DEF Init, Holder, ExchangeCovers, NoSession
    <2>4. QED
      BY <2>2, <2>3
  <1>3. NothingMissed
    BY <1>1 DEF Init, NothingMissed
  <1>4. QED
    BY <1>2, <1>3 DEF CatchUpInv

LEMMA CatchUpStep ==
  ASSUME PromptClose = TRUE
  PROVE  IInv /\ CatchUpInv /\ [Next]_vars => CatchUpInv'
  <1>1. SUFFICES ASSUME IInv, CatchUpInv, [Next]_vars PROVE CatchUpInv'
    OBVIOUS
  <1>2. ASSUME NEW c \in Client PROVE (Phase(c) /\ Holder(c) /\ ExchangeCovers(c))'
    BY <1>1, PhaseStep, HolderStep, ExchangeStep DEF CatchUpInv
  <1>3. NothingMissed'
    BY <1>1, NothingMissedStep DEF CatchUpInv
  <1>4. QED
    BY <1>2, <1>3 DEF CatchUpInv

(***************************************************************************)
(* A watching client that has been greeted, runs no reconcile and has none *)
(* pending gets every envelope of the mirror (sync.js reconciles at each   *)
(* hello, envelopes.js forwards what is new to each peer it knows): it     *)
(* holds it, is ingesting it, has it on the wire, or the mirror is about   *)
(* to forward it.  For any devices, envelopes, sessions and faults, when   *)
(* the mirror hears of a dead link before the client is back.              *)
(***************************************************************************)
THEOREM WatchersCatchUp ==
  ASSUME PromptClose = TRUE
  PROVE  Spec => []NothingMissed
  <1>1. Init => CatchUpInv
    BY CatchUpInit
  <1>2. IInv /\ CatchUpInv /\ [Next]_vars => CatchUpInv'
    BY CatchUpStep
  <1>3. CatchUpInv => NothingMissed
    BY DEF CatchUpInv
  <1>4. QED
    BY Invariance, <1>1, <1>2, <1>3, PTL DEF Spec

-----------------------------------------------------------------------------
(***************************************************************************)
(* The Negentropy exchange itself: the one round of a session above stands *)
(* for as many messages as it takes.                                       *)
(***************************************************************************)
CONSTANTS NItems, TsOf, Buckets, Limits
VARIABLES limit, items, turn, msg, have, need, rounds

Neg == INSTANCE LiteReconcile

LEMMA SameCount == \A S : Neg!Cardinality(S) = Cardinality(S)
  BY DEF Neg!Cardinality, Cardinality

(* What the constants are: items in the order of their time stamps, at     *)
(* least one bucket, limits that are lengths.                              *)
Sorted ==
  /\ NItems \in Nat /\ TsOf \in [Neg!Item -> Nat]
  /\ \A i, j \in Neg!Item : i <= j => TsOf[i] <= TsOf[j]
  /\ Buckets \in Nat \ {0} /\ Limits \subseteq Nat

-----------------------------------------------------------------------------
(* Sets of items. *)

LEMMA HasMin == ASSUME NEW S, S \subseteq Nat, S # {} PROVE \E m \in S : \A x \in S : m <= x
  <1> DEFINE Lt == OpToRel(<, Nat)
  <1>1. IsWellFoundedOn(Lt, Nat)
    BY NatLessThanWellFounded
  <1>2. \A x, y \in Nat : y < x => <<y, x>> \in Lt
    BY DEF OpToRel
  <1> HIDE DEF Lt
  <1>3. PICK m \in S : \A y \in S : ~ (<<y, m>> \in Lt)
    BY <1>1, WFMin
  <1>4. m \in Nat /\ \A y \in S : y \in Nat /\ ~ (y < m)
    BY <1>2, <1>3
  <1>5. \A y \in S : m <= y
    BY <1>4
  <1>6. QED
    BY <1>3, <1>5

LEMMA LeastIs ==
  ASSUME NEW S, S \subseteq Nat, S # {}
  PROVE  Neg!Least(S) \in S /\ \A j \in S : Neg!Least(S) <= j
  <1>1. \E i \in S : \A j \in S : i <= j
    BY HasMin
  <1>2. QED
    BY <1>1 DEF Neg!Least

LEMMA HasMax ==
  ASSUME NEW S, NEW b \in Nat, S \subseteq 0..b, S # {}
  PROVE  \E m \in S : \A x \in S : x <= m
  <1> DEFINE T == {b - x : x \in S}
  <1>1. T \subseteq Nat /\ T # {}
    <2>1. ASSUME NEW x \in S PROVE b - x \in Nat
      BY <2>1
    <2>2. QED
      BY <2>1
  <1>2. PICK t \in T : \A u \in T : t <= u
    BY <1>1, HasMin
  <1>3. PICK m \in S : t = b - m
    BY <1>2
  <1>4. \A x \in S : b - m <= b - x
    BY <1>2, <1>3
  <1>5. \A x \in S : x <= m
    BY <1>4
  <1>6. QED
    BY <1>5

LEMMA ItemsAre ==
  ASSUME Sorted, NEW S, S \subseteq Neg!Item
  PROVE  /\ IsFiniteSet(S) /\ Cardinality(S) \in Nat /\ S \subseteq Nat
         /\ \A R : R \subseteq S
              => IsFiniteSet(R) /\ Cardinality(R) \in Nat /\ Cardinality(R) <= Cardinality(S)
  <1>1. IsFiniteSet(Neg!Item)
    BY FS_Interval DEF Sorted, Neg!Item
  <1>2. IsFiniteSet(S)
    BY <1>1, FS_Subset
  <1>3. S \subseteq Nat
    BY DEF Neg!Item
  <1>4. QED
    BY <1>2, <1>3, FS_Subset, FS_CardinalityType

UpTo(S, i) == {j \in S : j <= i}

(* The first n of a set are an initial segment of it, with n elements. *)
LEMMA FirstIs ==
  ASSUME Sorted, NEW S, S \subseteq Neg!Item, NEW n \in Nat
  PROVE  /\ Neg!First(S, n) \subseteq S
         /\ \A i \in Neg!First(S, n), j \in S : j <= i => j \in Neg!First(S, n)
  <1>1. Neg!First(S, n) = {i \in S : Cardinality(UpTo(S, i)) <= n}
    BY SameCount DEF Neg!First, UpTo
  <1>2. \A i \in S : UpTo(S, i) \subseteq Neg!Item
    BY DEF UpTo
  <1>3. SUFFICES ASSUME NEW i \in Neg!First(S, n), NEW j \in S, j <= i PROVE j \in Neg!First(S, n)
    BY <1>1
  <1>4. i \in S /\ UpTo(S, j) \subseteq UpTo(S, i)
    BY <1>1, <1>3, ItemsAre DEF UpTo
  <1>5. /\ Cardinality(UpTo(S, j)) <= Cardinality(UpTo(S, i))
        /\ Cardinality(UpTo(S, j)) \in Nat /\ Cardinality(UpTo(S, i)) \in Nat
    BY <1>2, <1>4, ItemsAre
  <1>6. QED
    BY <1>1, <1>5

LEMMA FirstGrows ==
  ASSUME Sorted, NEW S, S \subseteq Neg!Item, NEW m \in Nat, NEW n \in Nat, m <= n
  PROVE  Neg!First(S, m) \subseteq Neg!First(S, n)
  <1>1. \A i \in S : UpTo(S, i) \subseteq Neg!Item /\ Cardinality(UpTo(S, i)) \in Nat
    <2>1. \A i \in S : UpTo(S, i) \subseteq Neg!Item
      BY DEF UpTo
    <2>2. QED
      BY <2>1, ItemsAre
  <1>2. QED
    BY <1>1, SameCount DEF Neg!First, UpTo

LEMMA FirstCounts ==
  ASSUME Sorted, NEW S, S \subseteq Neg!Item, NEW n \in Nat
  PROVE  /\ n <= Cardinality(S) => Cardinality(Neg!First(S, n)) = n
         /\ Cardinality(S) <= n => Neg!First(S, n) = S
  <1> DEFINE F == Neg!First(S, n)
  <1>1. F = {i \in S : Cardinality(UpTo(S, i)) <= n}
    BY SameCount DEF Neg!First, UpTo
  <1>2. F \subseteq S /\ \A i \in F, j \in S : j <= i => j \in F
    BY FirstIs
  <1>3. /\ F \subseteq Nat /\ S \subseteq Nat /\ Cardinality(F) \in Nat /\ Cardinality(S) \in Nat
        /\ IsFiniteSet(F) /\ IsFiniteSet(S)
    BY <1>2, ItemsAre
  <1>4. \A i \in S : /\ UpTo(S, i) \subseteq S /\ IsFiniteSet(UpTo(S, i))
                     /\ Cardinality(UpTo(S, i)) \in Nat /\ Cardinality(UpTo(S, i)) <= Cardinality(S)
    BY ItemsAre DEF UpTo
  <1> HIDE DEF F
  <1>5. Cardinality(S) <= n => F = S
    <2>1. SUFFICES ASSUME Cardinality(S) <= n PROVE F = S
      OBVIOUS
    <2>2. ASSUME NEW i \in S PROVE Cardinality(UpTo(S, i)) <= n
      BY <1>3, <1>4, <2>1
    <2>3. QED
      BY <1>1, <2>2
  <1>6. Cardinality(F) <= n
    <2>1. CASE F = {}
      BY <2>1, FS_EmptySet
    <2>2. CASE F # {}
      <3>1. NItems \in Nat /\ F \subseteq 0..NItems
        BY <1>2, <1>3 DEF Sorted, Neg!Item
      <3>2. PICK i \in F : \A x \in F : x <= i
        BY <2>2, <3>1, HasMax
      <3>3. F \subseteq UpTo(S, i) /\ Cardinality(UpTo(S, i)) <= n
        BY <1>1, <1>2, <3>2 DEF UpTo
      <3>4. Cardinality(F) <= Cardinality(UpTo(S, i))
        BY <1>2, <1>4, <3>2, <3>3, FS_Subset
      <3>5. QED
        BY <1>2, <1>3, <1>4, <3>2, <3>3, <3>4
    <2>3. QED
      BY <2>1, <2>2
  <1>7. n <= Cardinality(S) => n <= Cardinality(F)
    <2>1. SUFFICES ASSUME n <= Cardinality(S), F # S PROVE n <= Cardinality(F)
      BY <1>3
    <2>2. S \ F # {} /\ S \ F \subseteq Nat
      BY <1>2, <1>3, <2>1
    <2>3. PICK i \in S \ F : \A j \in S \ F : i <= j
      BY <2>2, HasMin
    <2>4. Cardinality(UpTo(S, i)) > n
      BY <1>1, <1>4, <2>3
    <2>5. UpTo(S, i) \subseteq F \cup {i}
      <3>1. SUFFICES ASSUME NEW j \in UpTo(S, i), j \notin F PROVE j = i
        OBVIOUS
      <3>2. j \in S /\ j <= i /\ i \in S
        BY <2>3 DEF UpTo
      <3>3. i <= j
        BY <2>3, <3>1, <3>2
      <3>4. i \in Nat /\ j \in Nat
        BY <1>3, <3>2
      <3>5. QED
        BY <3>2, <3>3, <3>4
    <2>6. IsFiniteSet(F \cup {i}) /\ Cardinality(F \cup {i}) = Cardinality(F) + 1
      BY <1>3, <2>3, FS_AddElement
    <2>7. Cardinality(UpTo(S, i)) <= Cardinality(F \cup {i})
      BY <2>5, <2>6, FS_Subset
    <2>8. QED
      BY <1>3, <1>4, <2>3, <2>4, <2>6, <2>7
  <1>8. QED
    BY <1>3, <1>5, <1>6, <1>7 DEF F

-----------------------------------------------------------------------------
(* Buckets. *)

LEMMA Divides ==
  ASSUME NEW n \in Nat, NEW d \in Nat \ {0}
  PROVE  /\ n \div d \in Nat /\ n % d \in Nat /\ n % d < d
         /\ n = d * (n \div d) + (n % d)
         /\ d * 2 <= n => 1 <= n \div d
  <1>1. /\ n \div d \in Nat /\ n % d \in Nat /\ n % d < d
        /\ n = d * (n \div d) + (n % d)
    BY SMT
  <1>2. ASSUME d * 2 <= n, n \div d = 0 PROVE FALSE
    <2>1. d * (n \div d) = 0
      BY <1>2
    <2>2. QED
      BY <1>1, <1>2, <2>1
  <1>3. QED
    BY <1>1, <1>2

Even(n, b) == b * (n \div Buckets) + (IF b <= n % Buckets THEN b ELSE n % Buckets)

(* The first b buckets have an even share of the items. *)
LEMMA EndsAre ==
  ASSUME Sorted, NEW n \in Nat
  PROVE  \A b \in 0..Buckets : Neg!BucketEnds(n)[b] = Even(n, b)
  <1> DEFINE Q == n \div Buckets
             R == n % Buckets
             Step(f) == [b \in 0..Buckets |->
                          IF b = 0 THEN 0 ELSE f[b - 1] + Q + (IF b <= R THEN 1 ELSE 0)]
             C == [b \in 0..Buckets |-> Even(n, b)]
             E == Neg!BucketEnds(n)
  <1>1. Q \in Nat /\ R \in Nat /\ Buckets \in Nat \ {0}
    BY Divides DEF Sorted
  <1>2. ASSUME NEW b \in 0..Buckets
        PROVE  Even(n, b) = IF b = 0 THEN 0 ELSE Even(n, b - 1) + Q + (IF b <= R THEN 1 ELSE 0)
    <2>1. CASE b = 0
      <3>1. 0 * Q = 0
        BY <1>1
      <3>2. QED
        BY <1>1, <2>1, <3>1 DEF Even
    <2>2. CASE b # 0
      <3>1. b * Q = (b - 1) * Q + Q
        <4>1. PICK c \in Nat : b = c + 1
          <5>1. b - 1 \in Nat /\ b = (b - 1) + 1
            BY <1>1, <2>2
          <5>2. QED
            BY <5>1
        <4>2. b - 1 = c
          BY <4>1
        <4> HIDE DEF Q
        <4>3. (c + 1) * Q = c * Q + Q
          BY <1>1, <4>1
        <4>4. QED
          BY <4>1, <4>2, <4>3
      <3>2. b * Q \in Nat /\ (b - 1) * Q \in Nat
        BY <1>1, <2>2
      <3>3. b \in Nat /\ b - 1 \in Nat
        BY <1>1, <2>2
      <3>4. (IF b <= R THEN b ELSE R)
            = (IF b - 1 <= R THEN b - 1 ELSE R) + (IF b <= R THEN 1 ELSE 0)
        BY <1>1, <2>2
      <3>5. Even(n, b) = b * Q + (IF b <= R THEN b ELSE R)
        BY DEF Even
      <3>6. Even(n, b - 1) = (b - 1) * Q + (IF b - 1 <= R THEN b - 1 ELSE R)
        BY DEF Even
      <3> HIDE DEF Q, R
      <3>7. QED
        BY <1>1, <2>2, <3>1, <3>2, <3>3, <3>4, <3>5, <3>6
    <2>3. QED
      BY <2>1, <2>2
  <1>3. C = Step(C)
    <2>1. ASSUME NEW b \in 0..Buckets PROVE C[b] = Step(C)[b]
      <3>1. CASE b = 0
        BY <1>2, <3>1
      <3>2. CASE b # 0
        <4>1. b - 1 \in 0..Buckets
          BY <1>1, <3>2
        <4>2. QED
          BY <1>2, <3>2, <4>1
      <3>3. QED
        BY <3>1, <3>2
    <2>2. QED
      BY <2>1
  <1>4. E = CHOOSE f : f = Step(f)
    BY DEF Neg!BucketEnds
  <1>5. E = Step(E)
    BY <1>3, <1>4
  <1>6. \A b \in 0..Buckets : E[b] = IF b = 0 THEN 0 ELSE E[b - 1] + Q + (IF b <= R THEN 1 ELSE 0)
    BY <1>5
  <1> HIDE DEF E, Q, R
  <1> DEFINE Wrong == {b \in 0..Buckets : E[b] # Even(n, b)}
  <1>7. SUFFICES ASSUME Wrong # {} PROVE FALSE
    BY DEF E
  <1>8. Wrong \subseteq Nat
    OBVIOUS
  <1>9. PICK b \in Wrong : \A x \in Wrong : b <= x
    BY <1>7, <1>8, HasMin
  <1>10. b \in 0..Buckets /\ E[b] # Even(n, b) /\ b \in Nat
    BY <1>9
  <1>11. CASE b = 0
    BY <1>2, <1>6, <1>10, <1>11
  <1>12. CASE b # 0
    <2>1. b - 1 \in 0..Buckets /\ ~ (b <= b - 1)
      BY <1>1, <1>10, <1>12
    <2>2. E[b - 1] = Even(n, b - 1)
      BY <1>9, <2>1
    <2>3. QED
      BY <1>2, <1>6, <1>10, <1>12, <2>2
  <1>13. QED
    BY <1>11, <1>12

(* With two items a bucket, none is empty; together they hold them all. *)
LEMMA BucketsFill ==
  ASSUME Sorted, NEW n \in Nat, Buckets * 2 <= n
  PROVE  /\ Neg!BucketEnds(n)[0] = 0 /\ Neg!BucketEnds(n)[Buckets] = n
         /\ \A b \in 0..Buckets : Neg!BucketEnds(n)[b] \in Nat /\ Neg!BucketEnds(n)[b] <= n
         /\ \A b \in 1..Buckets : Neg!BucketEnds(n)[b - 1] < Neg!BucketEnds(n)[b]
         /\ \A a, b \in 0..Buckets : a <= b => Neg!BucketEnds(n)[a] <= Neg!BucketEnds(n)[b]
  <1> DEFINE Q == n \div Buckets
             R == n % Buckets
             E == Neg!BucketEnds(n)
             Lesser(b) == IF b <= R THEN b ELSE R
  <1>1. /\ Q \in Nat /\ R \in Nat /\ Buckets \in Nat \ {0} /\ R < Buckets
        /\ n = Buckets * Q + R /\ 1 <= Q
    BY Divides DEF Sorted
  <1>2. \A b \in 0..Buckets : E[b] = b * Q + Lesser(b)
    BY EndsAre DEF Even
  <1> HIDE DEF E, Q, R
  <1>3. ASSUME NEW a \in 0..Buckets, NEW b \in 0..Buckets, a <= b
        PROVE  /\ a * Q \in Nat /\ b * Q \in Nat /\ a * Q + (b - a) <= b * Q
    <2>1. a * Q \in Nat /\ b * Q \in Nat
      BY <1>1
    <2>2. PICK d \in Nat : b = a + d
      <3>1. b - a \in Nat /\ b = a + (b - a)
        BY <1>1, <1>3
      <3>2. QED
        BY <3>1
    <2>3. PICK q \in Nat : Q = q + 1
      <3>1. Q - 1 \in Nat /\ Q = (Q - 1) + 1
        BY <1>1
      <3>2. QED
        BY <3>1
    <2>4. b * Q = a * Q + d * q + d
      BY <1>1, <2>2, <2>3
    <2>5. d * q \in Nat
      BY <2>2, <2>3
    <2>6. QED
      BY <1>1, <2>1, <2>2, <2>4, <2>5
  <1>4. \A b \in 0..Buckets : Lesser(b) \in Nat
    BY <1>1
  <1>5. \A a, b \in 0..Buckets : a <= b => Lesser(a) <= Lesser(b)
    BY <1>1
  <1>6. \A b \in 0..Buckets : E[b] \in Nat
    BY <1>2, <1>3, <1>4
  <1>7. ASSUME NEW a \in 0..Buckets, NEW b \in 0..Buckets, a <= b
        PROVE  E[a] + (b - a) <= E[b]
    <2>1. /\ a * Q \in Nat /\ b * Q \in Nat /\ a * Q + (b - a) <= b * Q
          /\ Lesser(a) \in Nat /\ Lesser(b) \in Nat /\ Lesser(a) <= Lesser(b)
      BY <1>3, <1>4, <1>5, <1>7
    <2>2. E[a] = a * Q + Lesser(a) /\ E[b] = b * Q + Lesser(b)
      BY <1>2
    <2>3. a \in Nat /\ b \in Nat
      BY <1>1
    <2> HIDE DEF Lesser
    <2>4. QED
      BY <2>1, <2>2, <2>3
  <1>8. E[0] = 0 /\ E[Buckets] = n
    <2>1. 0 \in 0..Buckets /\ Buckets \in 0..Buckets /\ 0 * Q = 0
      BY <1>1
    <2>2. Lesser(0) = 0 /\ Lesser(Buckets) = R
      BY <1>1
    <2>3. QED
      BY <1>1, <1>2, <2>1, <2>2
  <1>9. \A a, b \in 0..Buckets : a <= b => E[a] <= E[b]
    <2>1. SUFFICES ASSUME NEW a \in 0..Buckets, NEW b \in 0..Buckets, a <= b PROVE E[a] <= E[b]
      OBVIOUS
    <2>2. E[a] + (b - a) <= E[b]
      BY <1>7, <2>1
    <2>3. a \in Nat /\ b \in Nat /\ E[a] \in Nat /\ E[b] \in Nat
      BY <1>1, <1>6
    <2>4. QED
      BY <2>1, <2>2, <2>3
  <1>10. \A b \in 1..Buckets : E[b - 1] < E[b]
    <2>1. SUFFICES ASSUME NEW b \in 1..Buckets PROVE E[b - 1] < E[b]
      OBVIOUS
    <2>2. b - 1 \in 0..Buckets /\ b \in 0..Buckets /\ b - 1 <= b /\ b - (b - 1) = 1
      BY <1>1
    <2>3. E[b - 1] + (b - (b - 1)) <= E[b]
      BY <1>7, <2>2
    <2>4. E[b - 1] \in Nat /\ E[b] \in Nat
      BY <1>6, <2>2
    <2>5. QED
      BY <2>2, <2>3, <2>4
  <1>11. \A b \in 0..Buckets : E[b] <= n
    <2>1. Buckets \in 0..Buckets /\ \A b \in 0..Buckets : b <= Buckets
      BY <1>1
    <2>2. QED
      BY <1>8, <1>9, <2>1
  <1>12. QED
    BY <1>6, <1>8, <1>9, <1>10, <1>11 DEF E

-----------------------------------------------------------------------------
(* Messages. *)

Mode == {"skip", "fingerprint", "ids"}
Spans == [upto : 1..Neg!Infinity, mode : Mode, ids : SUBSET Neg!Item]

(* Where a range of a message begins, and where the message ends. *)
Low(low, m, k) == IF k = 1 THEN low ELSE m[k - 1].upto
End(low, m) == IF m = <<>> THEN low ELSE m[Len(m)].upto

(* Ranges of the modes M carry the items of S that lie in them. *)
Exact(S, low, m, M) ==
  \A k \in DOMAIN m : m[k].mode \in M => m[k].ids = Neg!Within(S, Low(low, m, k), m[k].upto)

(* A range that is not skipped holds i. *)
Covers(low, m, i) ==
  \E k \in DOMAIN m : m[k].mode # "skip" /\ Low(low, m, k) <= i /\ i < m[k].upto

LEMMA Reached ==
  ASSUME Sorted, NEW m \in Seq(Spans), NEW low \in Nat, NEW i \in Nat,
         \A k \in DOMAIN m : m[k].mode # "skip", low <= i, i < End(low, m)
  PROVE  Covers(low, m, i)
  <1> DEFINE K == {k \in DOMAIN m : i < m[k].upto}
  <1>1. m # <<>>
    BY DEF End
  <1>2. Len(m) \in Nat /\ DOMAIN m = 1..Len(m) /\ Len(m) \in DOMAIN m
    BY <1>1
  <1>3. Len(m) \in K /\ K \subseteq Nat
    BY <1>1, <1>2 DEF End
  <1>4. PICK k \in K : \A x \in K : k <= x
    BY <1>3, HasMin
  <1>5. k \in 1..Len(m) /\ i < m[k].upto /\ m[k].mode # "skip"
    BY <1>2, <1>4
  <1>6. Low(low, m, k) <= i
    <2>1. CASE k = 1
      BY <2>1 DEF Low
    <2>2. CASE k # 1
      <3>1. k - 1 \in DOMAIN m /\ ~ (k <= k - 1)
        BY <1>2, <1>5, <2>2
      <3>2. ~ (i < m[k - 1].upto)
        BY <1>4, <3>1
      <3>3. m[k - 1] \in Spans
        BY <3>1
      <3>4. m[k - 1].upto \in Nat
        BY <3>3 DEF Spans, Neg!Infinity, Sorted
      <3>5. QED
        BY <2>2, <3>2, <3>4 DEF Low
    <2>3. QED
      BY <2>1, <2>2
  <1>7. QED
    BY <1>2, <1>5, <1>6 DEF Covers

LEMMA Appended ==
  ASSUME NEW a \in Seq(Spans), NEW b \in Seq(Spans), NEW low
  PROVE  /\ a \o b \in Seq(Spans)
         /\ End(low, a \o b) = End(End(low, a), b)
         /\ \A S, M : Exact(S, low, a, M) /\ Exact(S, End(low, a), b, M) => Exact(S, low, a \o b, M)
         /\ \A i : Covers(low, a, i) \/ Covers(End(low, a), b, i) => Covers(low, a \o b, i)
  <1> DEFINE c == a \o b
  <1>1. /\ c \in Seq(Spans) /\ Len(c) = Len(a) + Len(b) /\ Len(a) \in Nat /\ Len(b) \in Nat
        /\ DOMAIN c = 1..Len(c) /\ DOMAIN a = 1..Len(a) /\ DOMAIN b = 1..Len(b)
    OBVIOUS
  <1>2. \A k \in 1..Len(a) : c[k] = a[k]
    OBVIOUS
  <1>3. \A k \in 1..Len(b) : c[Len(a) + k] = b[k]
    OBVIOUS
  <1>4. /\ a = <<>> <=> Len(a) = 0
        /\ b = <<>> <=> Len(b) = 0
        /\ c = <<>> <=> Len(c) = 0
    BY <1>1
  <1> HIDE DEF c
  <1>5. End(low, c) = End(End(low, a), b)
    <2>1. CASE Len(b) = 0
      <3>1. Len(c) = Len(a)
        BY <1>1, <2>1
      <3>2. CASE Len(a) = 0
        BY <1>4, <2>1, <3>1, <3>2 DEF End
      <3>3. CASE Len(a) # 0
        <4>1. c[Len(a)] = a[Len(a)]
          BY <1>1, <1>2, <3>3
        <4>2. QED
          BY <1>4, <2>1, <3>1, <3>3, <4>1 DEF End
      <3>4. QED
        BY <3>2, <3>3
    <2>2. CASE Len(b) # 0
      <3>1. c[Len(c)] = b[Len(b)] /\ Len(c) # 0
        BY <1>1, <1>3, <2>2
      <3>2. QED
        BY <1>4, <2>2, <3>1 DEF End
    <2>3. QED
      BY <2>1, <2>2
  <1>6. \A k \in 1..Len(a) : Low(low, c, k) = Low(low, a, k)
    BY <1>1, <1>2 DEF Low
  <1>7. ASSUME NEW k \in 1..Len(b) PROVE Low(low, c, Len(a) + k) = Low(End(low, a), b, k)
    <2>1. CASE k = 1
      <3>1. CASE Len(a) = 0
        BY <1>4, <2>1, <3>1 DEF Low, End
      <3>2. CASE Len(a) # 0
        <4>1. c[Len(a)] = a[Len(a)] /\ Len(a) + k # 1 /\ (Len(a) + k) - 1 = Len(a)
          BY <1>1, <1>2, <2>1, <3>2
        <4>2. QED
          BY <1>4, <2>1, <3>2, <4>1 DEF Low, End
      <3>3. QED
        BY <3>1, <3>2
    <2>2. CASE k # 1
      <3>1. k - 1 \in 1..Len(b) /\ (Len(a) + k) - 1 = Len(a) + (k - 1) /\ Len(a) + k # 1
        BY <1>1, <2>2
      <3>2. c[Len(a) + (k - 1)] = b[k - 1]
        BY <1>3, <3>1
      <3>3. QED
        BY <2>2, <3>1, <3>2 DEF Low
    <2>3. QED
      BY <2>1, <2>2
  <1>8. ASSUME NEW k \in 1..Len(c)
        PROVE  k \in 1..Len(a) \/ \E j \in 1..Len(b) : k = Len(a) + j
    <2>1. CASE k <= Len(a)
      BY <2>1
    <2>2. CASE ~ (k <= Len(a))
      <3>1. k - Len(a) \in 1..Len(b) /\ k = Len(a) + (k - Len(a))
        BY <1>1, <2>2
      <3>2. QED
        BY <3>1
    <2>3. QED
      BY <2>1, <2>2
  <1>9. ASSUME NEW S, NEW M, Exact(S, low, a, M), Exact(S, End(low, a), b, M)
        PROVE  Exact(S, low, c, M)
    <2>1. SUFFICES ASSUME NEW k \in 1..Len(c), c[k].mode \in M
                   PROVE  c[k].ids = Neg!Within(S, Low(low, c, k), c[k].upto)
      BY <1>1 DEF Exact
    <2>2. CASE k \in 1..Len(a)
      BY <1>1, <1>2, <1>6, <1>9, <2>1, <2>2 DEF Exact
    <2>3. ASSUME NEW j \in 1..Len(b), k = Len(a) + j
          PROVE  c[k].ids = Neg!Within(S, Low(low, c, k), c[k].upto)
      <3>1. c[k] = b[j] /\ Low(low, c, k) = Low(End(low, a), b, j)
        BY <1>3, <1>7, <2>3
      <3>2. QED
        BY <1>1, <1>9, <2>1, <3>1 DEF Exact
    <2>4. QED
      BY <1>8, <2>2, <2>3
  <1>10. ASSUME NEW i, Covers(low, a, i) PROVE Covers(low, c, i)
    <2>1. PICK k \in DOMAIN a : a[k].mode # "skip" /\ Low(low, a, k) <= i /\ i < a[k].upto
      BY <1>10 DEF Covers
    <2>2. k \in DOMAIN c
      BY <1>1
    <2>3. c[k].mode # "skip" /\ Low(low, c, k) <= i /\ i < c[k].upto
      BY <1>1, <1>2, <1>6, <2>1
    <2>4. QED
      BY <2>2, <2>3 DEF Covers
  <1>11. ASSUME NEW i, Covers(End(low, a), b, i) PROVE Covers(low, c, i)
    <2>1. PICK k \in DOMAIN b : b[k].mode # "skip" /\ Low(End(low, a), b, k) <= i /\ i < b[k].upto
      BY <1>11 DEF Covers
    <2>2. Len(a) + k \in DOMAIN c
      BY <1>1
    <2>3. c[Len(a) + k].mode # "skip" /\ Low(low, c, Len(a) + k) <= i /\ i < c[Len(a) + k].upto
      BY <1>1, <1>3, <1>7, <2>1
    <2>4. QED
      BY <2>2, <2>3 DEF Covers
  <1>12. QED
    BY <1>1, <1>5, <1>9, <1>10, <1>11 DEF c

(* getMinimalBound() *)
LEMMA MinimalBoundIs ==
  ASSUME Sorted, NEW prev \in Neg!Item, NEW curr \in Neg!Item, prev < curr
  PROVE  /\ Neg!MinimalBound(prev, curr) \in Neg!Item
         /\ prev < Neg!MinimalBound(prev, curr) /\ Neg!MinimalBound(prev, curr) <= curr
  <1> DEFINE T == {i \in Neg!Item : TsOf[i] = TsOf[curr]}
  <1>1. CASE TsOf[prev] = TsOf[curr]
    BY <1>1, ItemsAre DEF Neg!MinimalBound, Neg!Item, Sorted
  <1>2. CASE TsOf[prev] # TsOf[curr]
    <2>1. T \subseteq Neg!Item /\ T \subseteq Nat /\ curr \in T
      BY DEF Neg!Item
    <2>2. Neg!Least(T) \in T /\ \A j \in T : Neg!Least(T) <= j
      BY <2>1, LeastIs
    <2>3. Neg!MinimalBound(prev, curr) = Neg!Least(T)
      BY <1>2 DEF Neg!MinimalBound
    <2> DEFINE l == Neg!Least(T)
    <2>4. l \in Neg!Item /\ TsOf[l] = TsOf[curr] /\ l <= curr
      BY <2>1, <2>2
    <2> HIDE DEF l
    <2>5. /\ l \in Nat /\ prev \in Nat /\ curr \in Nat
          /\ TsOf[l] \in Nat /\ TsOf[prev] \in Nat /\ TsOf[curr] \in Nat
      BY <2>4 DEF Sorted, Neg!Item
    <2>6. prev < l
      <3>1. SUFFICES ASSUME l <= prev PROVE FALSE
        BY <2>5
      <3>2. prev <= curr
        BY <2>5
      <3>3. TsOf[l] <= TsOf[prev] /\ TsOf[prev] <= TsOf[curr]
        BY <2>4, <3>1, <3>2 DEF Sorted
      <3>4. QED
        BY <1>2, <2>4, <2>5, <3>3
    <2>7. QED
      BY <2>3, <2>4, <2>6 DEF l
  <1>3. QED
    BY <1>1, <1>2

Most(S) == CHOOSE i \in S : \A j \in S : j <= i

(* splitRange(): the ranges reach as far as the one they stand for, none   *)
(* is skipped, and each has exactly the items that lie in it.              *)
SplitIsFor(S, low, upto) ==
  LET m == Neg!Split(Neg!Within(S, low, upto), upto)
  IN  /\ m \in Seq(Spans) /\ m # <<>> /\ End(low, m) = upto
      /\ \A k \in DOMAIN m : m[k].mode # "skip"
      /\ Exact(S, low, m, Mode)

LEMMA SplitIs ==
  ASSUME Sorted, NEW S, S \subseteq Neg!Item, NEW low \in 1..Neg!Infinity,
         NEW upto \in 1..Neg!Infinity
  PROVE  SplitIsFor(S, low, upto)
  <1> DEFINE own == Neg!Within(S, low, upto)
             n == Cardinality(own)
             e == Neg!BucketEnds(n)
             F(b) == Neg!First(own, e[b])
             bucket(b) == Neg!First(own, e[b]) \ Neg!First(own, e[b - 1])
             least(b) == Neg!Least(bucket(b))
             most(b) == Most(bucket(b))
             bound(b) == IF b = Buckets THEN upto
                         ELSE Neg!MinimalBound(most(b), Neg!Least(bucket(b + 1)))
             m == Neg!Split(own, upto)
             B == Buckets
  <1>1. /\ own \subseteq Neg!Item /\ own \subseteq S /\ own \subseteq Nat /\ n \in Nat
        /\ B \in Nat \ {0}
        /\ low \in Nat /\ upto \in Nat /\ NItems \in Nat
    BY ItemsAre DEF Neg!Within, Sorted, Neg!Infinity
  <1>2. CASE n < B * 2
    <2>1. m = <<Neg!Span(upto, "ids", own)>>
      BY <1>2, SameCount DEF Neg!Split
    <2>2. Neg!Span(upto, "ids", own) \in Spans
      BY <1>1 DEF Neg!Span, Spans, Mode
    <2>3. /\ Len(m) = 1 /\ DOMAIN m = {1} /\ m[1] = Neg!Span(upto, "ids", own) /\ m # <<>>
          /\ m \in Seq(Spans)
      BY <2>1, <2>2
    <2>4. End(low, m) = upto /\ \A k \in DOMAIN m : m[k].mode # "skip"
      BY <2>3 DEF End, Neg!Span
    <2>5. Exact(S, low, m, Mode)
      BY <2>3 DEF Exact, Low, Neg!Span
    <2>6. QED
      BY <2>3, <2>4, <2>5 DEF SplitIsFor
  <1>3. CASE ~ (n < B * 2)
    <2>1. B * 2 <= n
      BY <1>1, <1>3
    <2> HIDE DEF n
    <2>2. /\ e[0] = 0 /\ e[B] = n
          /\ \A b \in 0..B : e[b] \in Nat /\ e[b] <= n
          /\ \A b \in 1..B : e[b - 1] < e[b]
          /\ \A a, b \in 0..B : a <= b => e[a] <= e[b]
      BY <1>1, <2>1, BucketsFill
    <2> HIDE DEF e
    <2>3. \A b \in 0..B : /\ F(b) \subseteq own /\ Cardinality(F(b)) = e[b]
                          /\ \A i \in F(b), j \in own : j <= i => j \in F(b)
      <3>1. SUFFICES ASSUME NEW b \in 0..B
                     PROVE  /\ F(b) \subseteq own /\ Cardinality(F(b)) = e[b]
                            /\ \A i \in F(b), j \in own : j <= i => j \in F(b)
        OBVIOUS
      <3>2. e[b] \in Nat /\ e[b] <= Cardinality(own)
        BY <2>2 DEF n
      <3> HIDE DEF own
      <3>3. QED
        BY <1>1, <3>2, FirstIs, FirstCounts
    <2>4. F(0) = {} /\ F(B) = own
      <3>1. 0 \in 0..B /\ B \in 0..B
        BY <1>1
      <3>2. Cardinality(F(0)) = 0 /\ F(0) \subseteq own
        BY <2>2, <2>3, <3>1
      <3>3. IsFiniteSet(F(0))
        BY <1>1, <3>2, ItemsAre
      <3>4. F(0) = {}
        BY <3>2, <3>3, FS_EmptySet
      <3>5. n <= e[B] /\ e[B] \in Nat
        BY <1>1, <2>2, <3>1
      <3> HIDE DEF own
      <3>6. F(B) = own
        BY <1>1, <3>5, FirstCounts DEF n
      <3>7. QED
        BY <3>4, <3>6
    <2>5. \A a, b \in 0..B : a <= b => F(a) \subseteq F(b)
      <3>1. SUFFICES ASSUME NEW a \in 0..B, NEW b \in 0..B, a <= b PROVE F(a) \subseteq F(b)
        OBVIOUS
      <3>2. e[a] \in Nat /\ e[b] \in Nat /\ e[a] <= e[b]
        BY <2>2, <3>1
      <3> HIDE DEF own
      <3>3. QED
        BY <1>1, <3>2, FirstGrows
    <2>6. \A b \in 1..B : b \in 0..B /\ b - 1 \in 0..B /\ bucket(b) = F(b) \ F(b - 1)
      BY <1>1
    <2>7. \A b \in 1..B : bucket(b) # {} /\ bucket(b) \subseteq own
      <3>1. SUFFICES ASSUME NEW b \in 1..B PROVE bucket(b) # {} /\ bucket(b) \subseteq own
        OBVIOUS
      <3>2. b \in 0..B /\ b - 1 \in 0..B /\ e[b - 1] < e[b]
        BY <2>2, <2>6
      <3>3. /\ F(b) \subseteq own /\ Cardinality(F(b)) = e[b]
            /\ Cardinality(F(b - 1)) = e[b - 1] /\ F(b - 1) \subseteq own
        BY <2>3, <3>2
      <3>4. F(b) # {} /\ F(b) # F(b - 1) /\ e[b] \in Nat /\ e[b - 1] \in Nat
        <4>1. e[b] \in Nat /\ e[b - 1] \in Nat
          BY <2>2, <3>2
        <4>2. F(b) # F(b - 1)
          BY <3>2, <3>3, <4>1
        <4>3. F(b) # {}
          BY <3>2, <3>3, <4>1, FS_EmptySet
        <4>4. QED
          BY <4>1, <4>2, <4>3
      <3>5. ~ (F(b) \subseteq F(b - 1))
        <4>1. b - 1 <= b
          BY <1>1
        <4>2. F(b - 1) \subseteq F(b)
          BY <2>5, <3>2, <4>1
        <4>3. QED
          BY <3>4, <4>2
      <3>6. QED
        BY <3>3, <3>5
    <2> HIDE DEF bucket, F
    <2>8. \A b \in 1..B : /\ most(b) \in bucket(b) /\ \A j \in bucket(b) : j <= most(b)
                          /\ least(b) \in bucket(b) /\ \A j \in bucket(b) : least(b) <= j
      <3>1. SUFFICES ASSUME NEW b \in 1..B
                     PROVE  /\ most(b) \in bucket(b) /\ \A j \in bucket(b) : j <= most(b)
                            /\ least(b) \in bucket(b) /\ \A j \in bucket(b) : least(b) <= j
        OBVIOUS
      <3>2. bucket(b) \subseteq 0..NItems /\ bucket(b) \subseteq Nat /\ bucket(b) # {}
        BY <1>1, <2>7 DEF Neg!Item
      <3>3. \E x \in bucket(b) : \A j \in bucket(b) : j <= x
        BY <1>1, <3>2, HasMax
      <3>4. least(b) \in bucket(b) /\ \A j \in bucket(b) : least(b) <= j
        BY <3>2, LeastIs
      <3>5. QED
        BY <3>3, <3>4 DEF Most
    <2> HIDE DEF most, least
    <2>9. ASSUME NEW b \in 1..B, NEW i \in F(b), NEW j \in own, j \notin F(b) PROVE i < j
      <3>1. b \in 0..B /\ i \in own
        BY <2>3, <2>6
      <3>2. ~ (j <= i)
        BY <2>3, <2>9, <3>1
      <3>3. QED
        BY <1>1, <2>9, <3>1, <3>2
    <2>10. \A b \in 1..B : b # B => b + 1 \in 1..B /\ (b + 1) - 1 = b
      BY <1>1
    <2>11. \A b \in 1..B : b # B =>
             /\ bound(b) \in Neg!Item /\ most(b) < bound(b) /\ bound(b) <= least(b + 1)
      <3>1. SUFFICES ASSUME NEW b \in 1..B, b # B
                     PROVE  bound(b) \in Neg!Item /\ most(b) < bound(b) /\ bound(b) <= least(b + 1)
        OBVIOUS
      <3>2. b + 1 \in 1..B /\ most(b) \in F(b) /\ least(b + 1) \in own \ F(b)
        BY <2>6, <2>7, <2>8, <2>10, <3>1
      <3>3. most(b) \in own /\ most(b) < least(b + 1)
        BY <2>7, <2>8, <2>9, <3>2
      <3>4. most(b) \in Neg!Item /\ least(b + 1) \in Neg!Item
        BY <1>1, <3>2, <3>3
      <3>5. bound(b) = Neg!MinimalBound(most(b), least(b + 1))
        BY <3>1 DEF least
      <3> HIDE DEF bound
      <3>6. QED
        BY <3>3, <3>4, <3>5, MinimalBoundIs
    <2>12. \A b \in 1..B : bound(b) \in 1..Neg!Infinity
      BY <1>1, <2>11 DEF Neg!Item, Neg!Infinity
    <2>13. m = [b \in 1..B |-> Neg!Span(bound(b), "fingerprint", bucket(b))]
      <3>1. Neg!Cardinality(own) = n
        BY SameCount DEF n
      <3>2. ~ (Neg!Cardinality(own) < B * 2)
        BY <1>3, <3>1
      <3> DEFINE c == Neg!Cardinality(own)
                 E == Neg!BucketEnds(c)
                 K(b) == Neg!First(own, E[b]) \ Neg!First(own, E[b - 1])
                 N(b) == IF b = Buckets THEN upto
                         ELSE Neg!MinimalBound(Most(K(b)), Neg!Least(K(b + 1)))
      <3>3. m = [b \in 1..B |-> Neg!Span(N(b), "fingerprint", K(b))]
        BY <3>2 DEF Neg!Split, m, Most
      <3> HIDE DEF c
      <3>4. c = n
        BY <3>1 DEF c
      <3>5. \A b : K(b) = bucket(b)
        BY <3>4 DEF bucket, F, e
      <3> HIDE DEF K
      <3>6. ASSUME NEW b \in 1..B PROVE N(b) = bound(b)
        BY <3>5 DEF most, bound
      <3> HIDE DEF N
      <3>7. QED
        BY <3>3, <3>5, <3>6
    <2>14. bound(B) = upto
      OBVIOUS
    <2> HIDE DEF bound, m
    (* The first b buckets are what lies below the bound of the last of them. *)
    <2>15. \A b \in 1..B : F(b) = {i \in own : i < bound(b)}
      <3>1. SUFFICES ASSUME NEW b \in 1..B, NEW i \in own PROVE i \in F(b) <=> i < bound(b)
        BY <2>3, <2>6
      <3>2. CASE b = B
        BY <2>4, <2>14, <3>2 DEF Neg!Within
      <3>3. CASE b # B
        <4>1. /\ bound(b) \in Nat /\ most(b) < bound(b) /\ bound(b) <= least(b + 1)
              /\ most(b) \in Nat /\ least(b + 1) \in Nat /\ i \in Nat
              /\ b + 1 \in 1..B /\ (b + 1) - 1 = b
          BY <1>1, <2>7, <2>8, <2>10, <2>11, <3>3 DEF Neg!Item
        <4>2. ASSUME i \in F(b) PROVE i < bound(b)
          <5>1. i <= most(b)
            <6>1. CASE i \in bucket(b)
              BY <2>8, <6>1
            <6>2. CASE i \notin bucket(b)
              <7>1. i \in F(b - 1) /\ b - 1 \in 0..B
                BY <2>6, <4>2, <6>2
              <7>2. most(b) \in own /\ most(b) \notin F(b - 1)
                BY <2>6, <2>7, <2>8
              <7>3. ~ (most(b) <= i)
                BY <2>3, <7>1, <7>2
              <7>4. QED
                BY <4>1, <7>3
            <6>3. QED
              BY <6>1, <6>2
          <5>2. QED
            BY <4>1, <5>1
        <4>3. ASSUME i \notin F(b) PROVE bound(b) <= i
          <5>1. least(b + 1) <= i
            <6>1. CASE i \in bucket(b + 1)
              BY <2>8, <4>1, <6>1
            <6>2. CASE i \notin bucket(b + 1)
              <7>1. i \notin F(b + 1)
                BY <2>6, <4>1, <4>3, <6>2
              <7>2. least(b + 1) \in F(b + 1)
                BY <2>6, <2>8, <4>1
              <7>3. least(b + 1) < i
                BY <2>9, <4>1, <7>1, <7>2
              <7>4. QED
                BY <4>1, <7>3
            <6>3. QED
              BY <6>1, <6>2
          <5>2. QED
            BY <4>1, <5>1
        <4>4. QED
          BY <4>1, <4>2, <4>3
      <3>4. QED
        BY <3>2, <3>3
    <2>16. /\ Len(m) = B /\ DOMAIN m = 1..B /\ m # <<>> /\ m \in Seq(Spans)
           /\ \A k \in 1..B : m[k] = Neg!Span(bound(k), "fingerprint", bucket(k))
      <3>1. \A b \in 1..B : Neg!Span(bound(b), "fingerprint", bucket(b)) \in Spans
        BY <1>1, <2>7, <2>12 DEF Neg!Span, Spans, Mode
      <3>2. m \in [1..B -> Spans] /\ DOMAIN m = 1..B
        BY <2>13, <3>1
      <3>3. m \in Seq(Spans)
        BY <1>1, <3>2
      <3>4. Len(m) = B
        BY <1>1, <3>2, <3>3
      <3>5. QED
        BY <1>1, <2>13, <3>2, <3>3, <3>4
    <2>17. End(low, m) = upto /\ \A k \in DOMAIN m : m[k].mode # "skip"
      BY <1>1, <2>14, <2>16 DEF End, Neg!Span
    <2>18. ASSUME NEW k \in 1..B PROVE bucket(k) = Neg!Within(S, Low(low, m, k), bound(k))
      <3>1. bucket(k) = {i \in own : i < bound(k)} \ F(k - 1)
        BY <2>6, <2>15
      <3>2. own = {i \in S : low <= i /\ i < upto}
        BY DEF Neg!Within
      <3>3. \A i \in S : i \in Nat
        BY DEF Neg!Item
      <3>4. bound(k) \in Nat /\ bound(k) <= upto
        <4>1. CASE k = B
          BY <1>1, <2>14, <4>1
        <4>2. CASE k # B
          <5>1. bound(k) <= least(k + 1) /\ least(k + 1) \in own /\ bound(k) \in Nat
            BY <2>7, <2>8, <2>10, <2>11, <4>2 DEF Neg!Item
          <5>2. least(k + 1) < upto /\ least(k + 1) \in Nat
            BY <3>2, <3>3, <5>1
          <5>3. QED
            BY <1>1, <5>1, <5>2
        <4>3. QED
          BY <4>1, <4>2
      <3>5. CASE k = 1
        <4>1. F(k - 1) = {} /\ Low(low, m, k) = low
          BY <2>4, <3>5 DEF Low
        <4>2. ASSUME NEW i \in S PROVE i \in bucket(k) <=> low <= i /\ i < bound(k)
          BY <1>1, <3>1, <3>2, <3>3, <3>4, <4>1
        <4>3. bucket(k) \subseteq S
          BY <1>1, <2>7
        <4>4. QED
          BY <4>1, <4>2, <4>3 DEF Neg!Within
      <3>6. CASE k # 1
        <4>1. k - 1 \in 1..B /\ k - 1 # B /\ (k - 1) + 1 = k
          BY <1>1, <3>6
        <4>2. F(k - 1) = {i \in own : i < bound(k - 1)}
          BY <2>15, <4>1
        <4>3. Low(low, m, k) = bound(k - 1)
          BY <2>16, <3>6, <4>1 DEF Low, Neg!Span
        <4>4. bound(k - 1) \in Nat /\ low <= bound(k - 1)
          <5>1. most(k - 1) \in own /\ most(k - 1) < bound(k - 1) /\ bound(k - 1) \in Nat
            BY <2>7, <2>8, <2>11, <4>1 DEF Neg!Item
          <5>2. low <= most(k - 1) /\ most(k - 1) \in Nat
            BY <3>2, <3>3, <5>1
          <5>3. QED
            BY <1>1, <5>1, <5>2
        <4>5. ASSUME NEW i \in S PROVE i \in bucket(k) <=> bound(k - 1) <= i /\ i < bound(k)
          <5>1. i \in Nat
            BY <3>3
          <5>2. i \in own <=> low <= i /\ i < upto
            BY <3>2
          <5>3. i \in bucket(k) <=> i \in own /\ i < bound(k) /\ ~ (i < bound(k - 1))
            BY <3>1, <4>2
          <5> HIDE DEF own
          <5>4. QED
            BY <1>1, <3>4, <4>4, <5>1, <5>2, <5>3
        <4>6. bucket(k) \subseteq S
          BY <1>1, <2>7
        <4>7. QED
          BY <4>3, <4>5, <4>6 DEF Neg!Within
      <3>7. QED
        BY <3>5, <3>6
    <2>19. Exact(S, low, m, Mode)
      BY <2>16, <2>18 DEF Exact, Neg!Span
    <2>20. QED
      BY <2>16, <2>17, <2>19 DEF SplitIsFor, m
  <1>4. QED
    BY <1>2, <1>3

-----------------------------------------------------------------------------
(* The loop over the ranges of a message. *)

OtherSide(side) == IF side = "initiator" THEN "responder" ELSE "initiator"
Exacts == IF limit = 0 THEN {"fingerprint", "ids"} ELSE {"ids"}
Lacks(s, t) == items[s] \ items[t]
Differ == Lacks("initiator", "responder") \cup Lacks("responder", "initiator")
Known(h, n) ==
  h \subseteq Lacks("initiator", "responder") /\ n \subseteq Lacks("responder", "initiator")

AccRec == [low : 1..Neg!Infinity, prev : 1..Neg!Infinity, skip : BOOLEAN, len : Nat, over : BOOLEAN,
           out : Seq(Spans), have : SUBSET Neg!Item, need : SUBSET Neg!Item]

(* The message that side has to answer is right about the sender's items. *)
Ready(side) ==
  /\ limit \in Nat /\ items \in [Neg!Side -> SUBSET Neg!Item] /\ side \in Neg!Side
  /\ msg \in Seq(Spans) /\ Exact(items[OtherSide(side)], 1, msg, Exacts)
  /\ Known(have, need)

(* Of the ranges so far, nothing that differs is lost without a limit. *)
Kept(a, k) ==
  limit = 0 =>
    \A i \in Differ, j \in 1..k :
      msg[j].mode # "skip" /\ Low(1, msg, j) <= i /\ i < msg[j].upto
        => i \in a.have \cup a.need \/ Covers(1, a.out, i)

(* The loop is where the message is, and has not passed the limit. *)
OnTrack(a, k) ==
  /\ a.low = Low(1, msg, k + 1) /\ a.prev = a.low
  /\ limit # 0 => a.len <= limit
  /\ ~a.skip => End(1, a.out) = a.low

AccOK(side, a, k) ==
  /\ a \in AccRec
  /\ Known(a.have, a.need) /\ have \subseteq a.have /\ need \subseteq a.need
  /\ Exact(items[side], 1, a.out, Exacts)
  /\ side = "responder" => a.have = have /\ a.need = need
  /\ limit = 0 => ~a.over
  /\ ~a.over => OnTrack(a, k)
  /\ Kept(a, k)

LEMMA LengthIs ==
  ASSUME Sorted, NEW o \in Seq(Spans)
  PROVE  Neg!Length(o) \in Nat /\ (o = <<>> => Neg!Length(o) = 0)
  <1> DEFINE K == {j \in DOMAIN o : o[j].mode = "ids"}
             U == UNION {o[k].ids : k \in K}
  <1>1. \A k \in K : o[k].ids \subseteq Neg!Item
    <2>1. SUFFICES ASSUME NEW k \in DOMAIN o PROVE o[k].ids \in SUBSET Neg!Item
      OBVIOUS
    <2>2. o[k] \in Spans
      OBVIOUS
    <2>3. QED
      BY <2>2 DEF Spans
  <1>2. U \subseteq Neg!Item
    BY <1>1
  <1>3. Cardinality(U) \in Nat
    BY <1>2, ItemsAre
  <1>4. Neg!Length(o) = Len(o) + Cardinality(U)
    BY SameCount DEF Neg!Length
  <1>5. ASSUME o = <<>> PROVE Len(o) = 0 /\ U = {}
    <2>1. Len(o) = 0 /\ DOMAIN o = {}
      BY <1>5
    <2>2. K = {}
      BY <2>1
    <2> HIDE DEF K
    <2>3. QED
      BY <2>1, <2>2
  <1> HIDE DEF U
  <1>6. Len(o) \in Nat /\ Cardinality({}) = 0
    BY FS_EmptySet
  <1>7. Neg!Length(o) \in Nat
    BY <1>3, <1>4, <1>6
  <1>8. ASSUME o = <<>> PROVE Neg!Length(o) = 0
    <2>1. Len(o) = 0 /\ Cardinality(U) = 0
      BY <1>5, <1>6, <1>8
    <2> HIDE DEF K
    <2>2. QED
      BY <1>4, <2>1
  <1>9. QED
    BY <1>7, <1>8

(* The ids that fit are those below the bound the list is given; a list    *)
(* that was cut uses the room there was.                                   *)
ListedFor(S, low, upto, room) ==
  LET own == Neg!Within(S, low, upto)
      listed == Neg!First(own, Neg!Fitting(Cardinality(own), room))
      end == Neg!EndBound(upto, own \ listed)
  IN  /\ listed \subseteq own /\ end \in 1..Neg!Infinity /\ listed = Neg!Within(S, low, end)
      /\ end = upto \/ (limit # 0 /\ Cardinality(listed) = room)

LEMMA Listed ==
  ASSUME Sorted, NEW S, S \subseteq Neg!Item, NEW low \in 1..Neg!Infinity,
         NEW upto \in 1..Neg!Infinity, NEW room \in Nat,
         limit \in Nat
  PROVE  ListedFor(S, low, upto, room)
  <1> DEFINE own == Neg!Within(S, low, upto)
             n == Cardinality(own)
             f == Neg!Fitting(n, room)
             listed == Neg!First(own, f)
             rest == own \ listed
             end == Neg!EndBound(upto, rest)
  <1>1. own \subseteq Neg!Item /\ own \subseteq Nat /\ n \in Nat
    BY ItemsAre DEF Neg!Within
  <1>2. own = {i \in S : low <= i /\ i < upto}
    BY DEF Neg!Within
  <1>3. low \in Nat /\ upto \in Nat /\ \A i \in S : i \in Nat
    BY DEF Sorted, Neg!Infinity, Neg!Item
  <1>4. f \in Nat /\ f <= n /\ (f # n => limit # 0 /\ f = room)
    BY <1>1 DEF Neg!Fitting
  <1> HIDE DEF f, own
  <1>5. listed \subseteq own /\ \A i \in listed, j \in own : j <= i => j \in listed
    BY <1>1, <1>4, FirstIs
  <1>6. Cardinality(listed) = f
    BY <1>1, <1>4, FirstCounts DEF n
  <1> HIDE DEF listed
  <1>7. CASE rest = {}
    <2>1. end = upto /\ listed = own
      BY <1>5, <1>7 DEF Neg!EndBound
    <2>2. QED
      BY <1>5, <2>1 DEF own, listed, f, ListedFor
  <1>8. CASE rest # {}
    <2>1. rest \subseteq own /\ rest \subseteq Nat
      BY <1>1
    <2>2. Neg!Least(rest) \in rest /\ \A j \in rest : Neg!Least(rest) <= j
      BY <1>8, <2>1, LeastIs
    <2>3. end = Neg!Least(rest)
      BY <1>8 DEF Neg!EndBound
    <2> HIDE DEF end
    <2>4. end \in own /\ end \notin listed /\ end \in Nat /\ end \in Neg!Item
      BY <1>1, <2>1, <2>2, <2>3
    <2>5. end \in 1..Neg!Infinity
      BY <2>4 DEF Neg!Item, Neg!Infinity, Sorted
    <2>6. end < upto
      BY <1>2, <2>4
    <2>7. ASSUME NEW i \in S PROVE i \in listed <=> low <= i /\ i < end
      <3>1. i \in Nat
        BY <1>3
      <3>2. ASSUME i \in listed PROVE low <= i /\ i < end
        <4>1. low <= i /\ ~ (end <= i)
          BY <1>2, <1>5, <2>4, <3>2
        <4>2. QED
          BY <2>4, <3>1, <4>1
      <3>3. ASSUME low <= i, i < end PROVE i \in listed
        <4>1. i < upto
          BY <1>3, <2>4, <2>6, <3>1, <3>3
        <4>2. i \in own
          BY <1>2, <3>3, <4>1
        <4>3. ~ (end <= i)
          BY <2>4, <3>1, <3>3
        <4>4. QED
          BY <2>2, <2>3, <4>2, <4>3
      <3>4. QED
        BY <3>2, <3>3
    <2>8. listed \subseteq S
      BY <1>2, <1>5
    <2>9. listed = Neg!Within(S, low, end)
      BY <2>7, <2>8 DEF Neg!Within
    <2>10. listed # own
      BY <1>8
    <2>11. f # n
      <3>1. ASSUME f = n PROVE FALSE
        <4>1. listed = own
          BY <1>1, <1>4, <3>1, FirstCounts DEF n, listed
        <4>2. QED
          BY <2>10, <4>1
      <3>2. QED
        BY <3>1
    <2>12. QED
      BY <1>4, <1>5, <1>6, <2>5, <2>9, <2>11 DEF own, listed, f, end, ListedFor
  <1>9. QED
    BY <1>7, <1>8

LEMMA LengthOf ==
  ASSUME Sorted, NEW o \in Seq(Spans), NEW j \in DOMAIN o, o[j].mode = "ids"
  PROVE  1 + Cardinality(o[j].ids) <= Neg!Length(o)
  <1> DEFINE K == {i \in DOMAIN o : o[i].mode = "ids"}
             U == UNION {o[i].ids : i \in K}
  <1>1. ASSUME NEW i \in DOMAIN o PROVE o[i].ids \in SUBSET Neg!Item
    <2>1. o[i] \in Spans
      OBVIOUS
    <2>2. QED
      BY <2>1 DEF Spans
  <1>2. U \subseteq Neg!Item
    BY <1>1
  <1>3. o[j].ids \subseteq U
    OBVIOUS
  <1>4. Neg!Length(o) = Len(o) + Cardinality(U)
    BY SameCount DEF Neg!Length
  <1> HIDE DEF U
  <1>5. /\ Cardinality(U) \in Nat /\ Cardinality(o[j].ids) \in Nat
        /\ Cardinality(o[j].ids) <= Cardinality(U)
    BY <1>2, <1>3, ItemsAre
  <1>6. Len(o) \in Nat /\ 1 <= Len(o)
    OBVIOUS
  <1>7. QED
    BY <1>4, <1>5, <1>6

LEMMA RangeAnswered ==
  ASSUME Sorted, NEW side, Ready(side), NEW k \in 1..Len(msg), NEW a, AccOK(side, a, k - 1)
  PROVE  AccOK(side, Neg!Answer(side, a, msg[k]), k)
  <1> DEFINE r == msg[k]
             all == items[side]
             own == Neg!Within(all, a.low, r.upto)
             splits == r.mode = "fingerprint" /\ r.ids # own
             lists == r.mode = "ids" /\ side = "responder"
             finds == r.mode = "ids" /\ side = "initiator"
             skipped == IF a.skip /\ (splits \/ lists) THEN <<Neg!Span(a.prev, "skip", {})>>
                        ELSE <<>>
             listed == Neg!First(own, Neg!Fitting(Cardinality(own), limit - a.len + 1))
             end == IF lists THEN Neg!EndBound(r.upto, own \ listed) ELSE r.upto
             middle == IF splits THEN Neg!Split(own, r.upto)
                       ELSE IF lists THEN <<Neg!Span(end, "ids", listed)>> ELSE <<>>
             o == skipped \o middle
             len == a.len + Neg!Length(o)
             over == Neg!Exceeded(len)
             tail == IF over
                     THEN <<Neg!Span(Neg!Infinity, "fingerprint", Neg!Within(all, end, Neg!Infinity))>>
                     ELSE <<>>
             before == IF over /\ ~lists THEN a.out ELSE a.out \o o
             x == Neg!Answer(side, a, r)
             from == End(1, a.out)
  <1>1. /\ limit \in Nat /\ all \subseteq Neg!Item /\ items \in [Neg!Side -> SUBSET Neg!Item]
        /\ side \in Neg!Side
        /\ msg \in Seq(Spans) /\ Len(msg) \in Nat /\ k \in DOMAIN msg
        /\ r \in Spans /\ Exact(items[OtherSide(side)], 1, msg, Exacts) /\ (k - 1) + 1 = k
        /\ k \in Nat
    BY DEF Ready
  <1>2. /\ r.upto \in 1..Neg!Infinity /\ r.mode \in Mode /\ r.ids \subseteq Neg!Item
        /\ Neg!Infinity \in 1..Neg!Infinity /\ 1 \in 1..Neg!Infinity
    BY <1>1 DEF Spans, Neg!Infinity, Sorted
  <1>3. /\ a \in AccRec
        /\ Known(a.have, a.need) /\ have \subseteq a.have /\ need \subseteq a.need
        /\ Exact(all, 1, a.out, Exacts)
        /\ side = "responder" => a.have = have /\ a.need = need
        /\ limit = 0 => ~a.over
        /\ ~a.over => OnTrack(a, k - 1)
        /\ Kept(a, k - 1)
    BY DEF AccOK
  <1>4. /\ a.low \in 1..Neg!Infinity /\ a.prev \in 1..Neg!Infinity /\ a.skip \in BOOLEAN
        /\ a.len \in Nat
        /\ a.over \in BOOLEAN /\ a.out \in Seq(Spans) /\ a.have \subseteq Neg!Item
        /\ a.need \subseteq Neg!Item
    BY <1>3 DEF AccRec
  <1>5. CASE a.over
    <2>1. x = a
      BY <1>5 DEF Neg!Answer
    <2>2. Kept(a, k)
      BY <1>3, <1>5 DEF Kept
    <2> HIDE DEF x
    <2>3. AccOK(side, x, k)
      BY <1>3, <1>5, <2>1, <2>2 DEF AccOK
    <2>4. QED
      BY <2>3 DEF x
  <1>6. CASE ~a.over
    <2>1. x = [low |-> end, prev |-> r.upto, skip |-> ~splits /\ ~lists, len |-> len, over |-> over,
               out |-> before \o tail,
               have |-> a.have \cup (IF finds THEN own \ r.ids ELSE {}),
               need |-> a.need \cup (IF finds THEN r.ids \ own ELSE {})]
      BY <1>6, SameCount DEF Neg!Answer
    <2>2. /\ a.low = Low(1, msg, k) /\ a.prev = a.low
          /\ limit # 0 => a.len <= limit
          /\ ~a.skip => from = a.low
      BY <1>1, <1>3, <1>6 DEF OnTrack
    <2>3. Low(1, msg, k + 1) = r.upto
      <3>1. k + 1 # 1 /\ (k + 1) - 1 = k
        BY <1>1
      <3>2. QED
        BY <3>1 DEF Low
    <2>4. own \subseteq Neg!Item /\ IsFiniteSet(own) /\ Cardinality(own) \in Nat
      <3>1. own \subseteq Neg!Item
        BY <1>1 DEF Neg!Within
      <3>2. QED
        BY <3>1, ItemsAre
    <2>5. /\ "skip" \notin Exacts /\ Exacts \subseteq Mode
      BY DEF Exacts, Mode
    <2>6. ASSUME lists
          PROVE  /\ listed \subseteq own /\ end \in 1..Neg!Infinity
                 /\ listed = Neg!Within(all, a.low, end)
                 /\ end = r.upto \/ (limit # 0 /\ Cardinality(listed) = limit - a.len + 1)
      <3>1. PICK room \in Nat :
              /\ Neg!Fitting(Cardinality(own), limit - a.len + 1) = Neg!Fitting(Cardinality(own), room)
              /\ limit # 0 => room = limit - a.len + 1
        <4>1. CASE limit = 0
          <5>1. Neg!Fitting(Cardinality(own), limit - a.len + 1) = Neg!Fitting(Cardinality(own), 0)
            BY <4>1 DEF Neg!Fitting
          <5>2. QED
            BY <4>1, <5>1
        <4>2. CASE limit # 0
          <5>1. limit \in Nat /\ a.len \in Nat /\ a.len <= limit
            BY <1>1, <1>4, <2>2, <4>2
          <5>2. limit - a.len + 1 \in Nat
            BY <5>1
          <5>3. QED
            BY <5>2
        <4>3. QED
          BY <4>1, <4>2
      <3>2. listed = Neg!First(own, Neg!Fitting(Cardinality(own), room))
        BY <3>1
      <3>3. end = Neg!EndBound(r.upto, own \ Neg!First(own, Neg!Fitting(Cardinality(own), room)))
        BY <2>6, <3>2
      <3> HIDE DEF end, listed, all, r
      <3>4. ListedFor(all, a.low, r.upto, room)
        BY <1>1, <1>2, <1>4, Listed
      <3>5. QED
        BY <3>1, <3>2, <3>3, <3>4 DEF ListedFor
    <2>7. end \in 1..Neg!Infinity /\ (~lists => end = r.upto) /\ (limit = 0 => end = r.upto)
      <3>1. CASE lists
        BY <2>6, <3>1
      <3>2. CASE ~lists
        BY <1>2, <3>2
      <3>3. QED
        BY <3>1, <3>2
    <2>8. ASSUME splits \/ lists
          PROVE  /\ middle \in Seq(Spans) /\ Exact(all, a.low, middle, Exacts)
                 /\ End(a.low, middle) = end
                 /\ \A j \in DOMAIN middle : middle[j].mode # "skip"
      <3>1. CASE splits
        <4>1. SplitIsFor(all, a.low, r.upto)
          BY <1>1, <1>2, <1>4, SplitIs
        <4>2. middle = Neg!Split(own, r.upto) /\ end = r.upto
          BY <2>7, <3>1
        <4> HIDE DEF middle, end
        <4>3. /\ middle \in Seq(Spans) /\ End(a.low, middle) = end
              /\ \A j \in DOMAIN middle : middle[j].mode # "skip"
              /\ Exact(all, a.low, middle, Mode)
          BY <4>1, <4>2 DEF SplitIsFor
        <4>4. Exact(all, a.low, middle, Exacts)
          BY <2>5, <4>3 DEF Exact
        <4>5. QED
          BY <4>3, <4>4
      <3>2. CASE ~splits
        <4>1. lists
          BY <2>8, <3>2
        <4>2. middle = <<Neg!Span(end, "ids", listed)>>
          BY <3>2, <4>1
        <4>3. /\ listed \subseteq own /\ end \in 1..Neg!Infinity
              /\ listed = Neg!Within(all, a.low, end)
          BY <2>6, <4>1
        <4> HIDE DEF middle, end, listed, own
        <4>4. Neg!Span(end, "ids", listed) \in Spans
          BY <2>4, <4>3 DEF Neg!Span, Spans, Mode
        <4>5. /\ middle \in Seq(Spans) /\ middle # <<>> /\ Len(middle) = 1 /\ DOMAIN middle = {1}
              /\ middle[1] = Neg!Span(end, "ids", listed)
          BY <4>2, <4>4
        <4>6. QED
          BY <4>3, <4>5 DEF Exact, End, Low, Neg!Span
      <3>3. QED
        BY <3>1, <3>2
    <2>9. /\ skipped \in Seq(Spans) /\ Exact(all, from, skipped, Exacts)
          /\ splits \/ lists => End(from, skipped) = a.low
      <3>1. CASE a.skip /\ (splits \/ lists)
        <4>1. skipped = <<Neg!Span(a.prev, "skip", {})>>
          BY <3>1
        <4> HIDE DEF skipped
        <4>2. Neg!Span(a.prev, "skip", {}) \in Spans
          BY <1>4 DEF Neg!Span, Spans, Mode
        <4>3. /\ skipped \in Seq(Spans) /\ skipped # <<>> /\ Len(skipped) = 1
              /\ DOMAIN skipped = {1}
              /\ skipped[1] = Neg!Span(a.prev, "skip", {})
          BY <4>1, <4>2
        <4>4. QED
          BY <2>2, <2>5, <4>3 DEF Exact, End, Neg!Span
      <3>2. CASE ~ (a.skip /\ (splits \/ lists))
        <4>1. skipped = <<>>
          BY <3>2
        <4>2. splits \/ lists => ~a.skip
          BY <3>2
        <4> HIDE DEF skipped, splits, lists
        <4>3. /\ skipped \in Seq(Spans) /\ Exact(all, from, skipped, Exacts)
              /\ End(from, skipped) = from
          BY <4>1 DEF Exact, End
        <4>4. QED
          BY <2>2, <4>2, <4>3
      <3>3. QED
        BY <3>1, <3>2
    <2>10. CASE splits \/ lists
      <3>1. /\ o \in Seq(Spans) /\ End(from, o) = end /\ Exact(all, from, o, Exacts)
            /\ \A i \in Nat : a.low <= i /\ i < end => Covers(from, o, i)
        <4> HIDE DEF skipped, middle, end, from, splits, lists
        <4>1. /\ o \in Seq(Spans)
              /\ End(from, o) = End(End(from, skipped), middle)
              /\ \A S, M : Exact(S, from, skipped, M) /\ Exact(S, End(from, skipped), middle, M)
                   => Exact(S, from, o, M)
              /\ \A i : Covers(from, skipped, i) \/ Covers(End(from, skipped), middle, i)
                   => Covers(from, o, i)
          BY <2>8, <2>9, <2>10, Appended
        <4> HIDE DEF o
        <4>2. End(from, skipped) = a.low
          BY <2>9, <2>10
        <4>3. ASSUME NEW i \in Nat, a.low <= i, i < end PROVE Covers(from, o, i)
          <5>1. a.low \in Nat
            BY <1>4
          <5>2. i < End(a.low, middle)
            BY <2>8, <2>10, <4>3
          <5>3. Covers(a.low, middle, i)
            BY <2>8, <2>10, <4>3, <5>1, <5>2, Reached
          <5>4. QED
            BY <4>1, <4>2, <5>3
        <4>4. QED
          BY <2>8, <2>9, <2>10, <4>1, <4>2, <4>3
      <3> HIDE DEF o
      <3>2. /\ a.out \o o \in Seq(Spans) /\ End(1, a.out \o o) = end
            /\ Exact(all, 1, a.out \o o, Exacts)
            /\ \A i : Covers(1, a.out, i) \/ Covers(from, o, i) => Covers(1, a.out \o o, i)
        <4>1. /\ a.out \o o \in Seq(Spans)
              /\ End(1, a.out \o o) = End(End(1, a.out), o)
              /\ \A S, M : Exact(S, 1, a.out, M) /\ Exact(S, End(1, a.out), o, M)
                   => Exact(S, 1, a.out \o o, M)
              /\ \A i : Covers(1, a.out, i) \/ Covers(End(1, a.out), o, i)
                   => Covers(1, a.out \o o, i)
          BY <1>4, <3>1, Appended
        <4>2. Exact(all, 1, a.out, Exacts) /\ Exact(all, End(1, a.out), o, Exacts)
          BY <1>3, <3>1
        <4>3. QED
          BY <3>1, <4>1, <4>2
      <3>3. len \in Nat
        BY <1>4, <3>1, LengthIs
      <3>4. over \in BOOLEAN /\ (limit = 0 => ~over) /\ (~over /\ limit # 0 => len <= limit)
        BY <1>1, <3>3 DEF Neg!Exceeded
      (* A list that was cut is over the limit. *)
      <3>5. end # r.upto => over
        <4>1. SUFFICES ASSUME end # r.upto PROVE over
          OBVIOUS
        <4>2. lists
          BY <2>7, <4>1
        <4>3. limit # 0 /\ Cardinality(listed) = limit - a.len + 1
          BY <2>6, <4>1, <4>2
        <4>4. middle = <<Neg!Span(end, "ids", listed)>>
          BY <4>2
        <4>5. Len(o) \in DOMAIN o /\ o[Len(o)] = Neg!Span(end, "ids", listed)
          <5> HIDE DEF middle, end, listed, skipped
          <5>1. o = skipped \o <<Neg!Span(end, "ids", listed)>> /\ skipped \in Seq(Spans)
            BY <2>9, <4>4 DEF o
          <5>2. QED
            BY <5>1
        <4>6. o[Len(o)].mode = "ids" /\ o[Len(o)].ids = listed
          BY <4>5 DEF Neg!Span
        <4>7. 1 + Cardinality(o[Len(o)].ids) <= Neg!Length(o)
          BY <3>1, <4>5, <4>6, LengthOf
        <4> HIDE DEF listed, end
        <4>8. Neg!Length(o) \in Nat /\ 1 + (limit - a.len + 1) <= Neg!Length(o)
          BY <3>1, <4>3, <4>6, <4>7, LengthIs
        <4>9. QED
          BY <1>1, <1>4, <4>3, <4>8 DEF Neg!Exceeded
      <3> HIDE DEF len, over
      <3>6. before \in Seq(Spans) /\ Exact(all, 1, before, Exacts)
        BY <1>3, <1>4, <3>2
      <3>7. /\ tail \in Seq(Spans) /\ Exact(all, End(1, before), tail, Exacts)
            /\ ~over => tail = <<>> /\ before = a.out \o o
        <4>1. CASE over
          <5> DEFINE t == Neg!Span(Neg!Infinity, "fingerprint", Neg!Within(all, end, Neg!Infinity))
          <5>1. tail = <<t>> /\ limit # 0
            BY <3>4, <4>1
          <5>2. t \in Spans
            BY <1>1, <1>2 DEF Neg!Span, Spans, Mode, Neg!Within
          <5>3. t.mode = "fingerprint"
            BY DEF Neg!Span
          <5> HIDE DEF t, tail, before
          <5>4. tail \in Seq(Spans) /\ DOMAIN tail = {1} /\ tail[1] = t
            BY <5>1, <5>2
          <5>5. "fingerprint" \notin Exacts
            BY <5>1 DEF Exacts
          <5>6. QED
            BY <4>1, <5>3, <5>4, <5>5 DEF Exact
        <4>2. CASE ~over
          <5>1. tail = <<>> /\ before = a.out \o o
            BY <4>2
          <5>2. tail \in Seq(Spans) /\ Exact(all, End(1, before), tail, Exacts)
            BY <5>1 DEF Exact
          <5>3. QED
            BY <5>1, <5>2
        <4>3. QED
          BY <4>1, <4>2
      <3> HIDE DEF tail, before
      <3>8. /\ before \o tail \in Seq(Spans) /\ Exact(all, 1, before \o tail, Exacts)
            /\ ~over => before \o tail = a.out \o o
        <4>1. /\ before \o tail \in Seq(Spans)
              /\ \A S, M : Exact(S, 1, before, M) /\ Exact(S, End(1, before), tail, M)
                   => Exact(S, 1, before \o tail, M)
          BY <3>6, <3>7, Appended
        <4>2. ASSUME ~over PROVE before \o tail = a.out \o o
          <5>1. tail = <<>> /\ before = a.out \o o
            BY <3>7, <4>2
          <5>2. QED
            BY <3>2, <5>1
        <4>3. QED
          BY <3>6, <3>7, <4>1, <4>2
      <3> DEFINE h == a.have \cup (IF finds THEN own \ r.ids ELSE {})
                 n == a.need \cup (IF finds THEN r.ids \ own ELSE {})
      <3>9. /\ x.low = end /\ x.prev = r.upto /\ x.skip = FALSE /\ x.len = len /\ x.over = over
            /\ x.out = before \o tail /\ x.have = a.have /\ x.need = a.need /\ x \in AccRec
        <4>1. ~finds
          BY <2>10
        <4>2. (~splits /\ ~lists) = FALSE
          BY <2>10
        <4> HIDE DEF finds, end, splits, lists, x
        <4>3. x = [low |-> end, prev |-> r.upto, skip |-> FALSE, len |-> len, over |-> over,
                   out |-> before \o tail, have |-> a.have, need |-> a.need]
          BY <2>1, <4>1, <4>2 DEF tail, before
        <4>4. QED
          BY <1>2, <1>4, <2>7, <3>3, <3>4, <3>8, <4>3 DEF AccRec, len
      <3> HIDE DEF x
      <3>10. ~x.over => OnTrack(x, k)
        <4>1. SUFFICES ASSUME ~over PROVE OnTrack(x, k)
          BY <3>9
        <4>2. end = r.upto
          BY <3>5, <4>1
        <4>3. End(1, x.out) = end
          BY <3>2, <3>8, <3>9, <4>1
        <4> HIDE DEF end
        <4>4. QED
          BY <2>3, <3>4, <3>9, <4>1, <4>2, <4>3 DEF OnTrack, len
      <3>11. Kept(x, k)
        <4>1. SUFFICES ASSUME limit = 0, NEW i \in Differ, NEW j \in 1..k,
                              msg[j].mode # "skip", Low(1, msg, j) <= i, i < msg[j].upto
                       PROVE  i \in a.have \cup a.need \/ Covers(1, x.out, i)
          BY <3>9 DEF Kept
        <4>2. x.out = a.out \o o /\ end = r.upto
          BY <2>7, <3>4, <3>8, <3>9, <4>1
        <4>3. CASE j = k
          <5>1. i \in Nat
            BY <1>1, ItemsAre DEF Differ, Lacks, Neg!Side, Neg!Item
          <5>2. a.low <= i /\ i < end
            BY <2>2, <4>1, <4>2, <4>3
          <5>3. QED
            BY <3>1, <3>2, <4>2, <5>1, <5>2
        <4>4. CASE j # k
          <5>1. j \in 1..(k - 1)
            BY <1>1, <4>4
          <5>2. i \in a.have \cup a.need \/ Covers(1, a.out, i)
            BY <1>3, <4>1, <5>1 DEF Kept
          <5>3. QED
            BY <3>2, <4>2, <5>2
        <4>5. QED
          BY <4>3, <4>4
      <3>12. AccOK(side, x, k)
        BY <1>3, <3>4, <3>8, <3>9, <3>10, <3>11 DEF AccOK
      <3>13. QED
        BY <3>12 DEF x
    <2>11. CASE ~splits /\ ~lists
      <3>1. o = <<>> /\ end = r.upto
        <4>1. skipped = <<>> /\ middle = <<>>
          BY <2>11
        <4>2. QED
          BY <2>7, <2>11, <4>1
      <3>2. len = a.len
        <4>1. <<>> \in Seq(Spans)
          OBVIOUS
        <4>2. Neg!Length(<<>>) = 0
          BY <4>1, LengthIs
        <4> HIDE DEF o
        <4>3. QED
          BY <1>4, <3>1, <4>2
      <3>3. over = FALSE
        BY <1>1, <1>4, <2>2, <3>2 DEF Neg!Exceeded
      <3> DEFINE h == a.have \cup (IF finds THEN own \ r.ids ELSE {})
                 n == a.need \cup (IF finds THEN r.ids \ own ELSE {})
      <3>4. before \o tail = a.out
        <4>1. tail = <<>>
          BY <3>3
        <4>2. before = a.out \o o
          BY <3>3
        <4> HIDE DEF tail, before, o
        <4>3. QED
          BY <1>4, <3>1, <4>1, <4>2
      <3>5. x = [low |-> r.upto, prev |-> r.upto, skip |-> TRUE, len |-> a.len, over |-> FALSE,
                 out |-> a.out, have |-> h, need |-> n]
        <4>1. (~splits /\ ~lists) = TRUE
          BY <2>11
        <4> HIDE DEF x, len, over, before, tail, splits, lists, end, h, n
        <4>2. QED
          BY <2>1, <3>1, <3>2, <3>3, <3>4, <4>1 DEF h, n
      <3>6. own \subseteq Neg!Item /\ h \subseteq Neg!Item /\ n \subseteq Neg!Item
        BY <1>2, <1>4, <2>4
      <3>7. a.have \subseteq h /\ a.need \subseteq n
        OBVIOUS
      <3>8. side = "responder" => h = a.have /\ n = a.need
        OBVIOUS
      <3>9. r.mode \in Exacts => r.ids = Neg!Within(items[OtherSide(side)], a.low, r.upto)
        BY <1>1, <2>2 DEF Exact
      <3>10. Known(h, n)
        <4>1. CASE finds
          <5>1. side = "initiator" /\ r.mode \in Exacts /\ OtherSide(side) = "responder"
            BY <4>1 DEF Exacts, OtherSide
          <5>2. r.ids = Neg!Within(items["responder"], a.low, r.upto)
            BY <3>9, <5>1
          <5>3. own = Neg!Within(items["initiator"], a.low, r.upto)
            BY <5>1
          <5>4. own \ r.ids \subseteq Lacks("initiator", "responder")
            BY <5>2, <5>3 DEF Lacks, Neg!Within
          <5>5. r.ids \ own \subseteq Lacks("responder", "initiator")
            BY <5>2, <5>3 DEF Lacks, Neg!Within
          <5>6. QED
            BY <1>3, <5>4, <5>5 DEF Known
        <4>2. CASE ~finds
          BY <1>3, <4>2 DEF Known
        <4>3. QED
          BY <4>1, <4>2
      <3>11. ASSUME limit = 0, NEW i \in Differ, r.mode # "skip", a.low <= i, i < r.upto
             PROVE  i \in h \cup n
        <4>1. r.mode \in Exacts
          BY <1>2, <3>11 DEF Exacts, Mode
        <4>2. r.ids = Neg!Within(items[OtherSide(side)], a.low, r.upto)
          BY <3>9, <4>1
        <4>3. i \in own <=> i \in items[side]
          BY <3>11 DEF Neg!Within
        <4>4. i \in r.ids <=> i \in items[OtherSide(side)]
          BY <3>11, <4>2 DEF Neg!Within
        <4>5. i \in items[side] <=> i \notin items[OtherSide(side)]
          BY <1>1, <3>11 DEF Differ, Lacks, OtherSide, Neg!Side
        <4>6. r.ids # own
          BY <4>3, <4>4, <4>5
        <4>7. r.mode = "ids"
          BY <1>2, <2>11, <3>11, <4>6 DEF Mode
        <4>8. finds
          BY <1>1, <2>11, <4>7 DEF Neg!Side
        <4>9. QED
          BY <4>3, <4>4, <4>5, <4>8
      <3> HIDE DEF h, n, x
      <3>12. /\ x.low = r.upto /\ x.prev = r.upto /\ x.skip = TRUE /\ x.len = a.len
             /\ x.over = FALSE
             /\ x.out = a.out /\ x.have = h /\ x.need = n /\ x \in AccRec
        BY <1>2, <1>4, <3>5, <3>6 DEF AccRec
      <3>13. OnTrack(x, k)
        BY <2>2, <2>3, <3>12 DEF OnTrack
      <3>14. Kept(x, k)
        <4>1. SUFFICES ASSUME limit = 0, NEW i \in Differ, NEW j \in 1..k,
                              msg[j].mode # "skip", Low(1, msg, j) <= i, i < msg[j].upto
                       PROVE  i \in h \cup n \/ Covers(1, a.out, i)
          BY <3>12 DEF Kept
        <4>2. CASE j = k
          BY <2>2, <3>11, <4>1, <4>2
        <4>3. CASE j # k
          <5>1. j \in 1..(k - 1)
            BY <1>1, <4>3
          <5>2. i \in a.have \cup a.need \/ Covers(1, a.out, i)
            BY <1>3, <4>1, <5>1 DEF Kept
          <5>3. QED
            BY <3>7, <5>2
        <4>4. QED
          BY <4>2, <4>3
      <3>15. /\ have \subseteq h /\ need \subseteq n
             /\ side = "responder" => h = have /\ n = need
        BY <1>3, <3>7, <3>8
      <3>16. AccOK(side, x, k)
        BY <1>3, <3>10, <3>12, <3>13, <3>14, <3>15 DEF AccOK
      <3>17. QED
        BY <3>16 DEF x
    <2>12. QED
      BY <2>10, <2>11
  <1>7. QED
    BY <1>5, <1>6

Start == [low |-> 1, prev |-> 1, skip |-> FALSE, len |-> 0, over |-> FALSE, out |-> <<>>,
          have |-> have, need |-> need]

(* What the loop has after each range, up to the n-th. *)
Runs(side, f, n) == f[0] = Start /\ \A k \in 1..n : f[k] = Neg!Answer(side, f[k - 1], msg[k])

LEMMA Choice == ASSUME NEW e PROVE (CHOOSE x \in {e} : TRUE) = e
  OBVIOUS

LEMMA LoopRuns ==
  ASSUME msg \in Seq(Spans), NEW side
  PROVE  \E f : Runs(side, f, Len(msg))
  <1> DEFINE L == Len(msg)
             Wrong == {n \in 0..L : ~ (\E f : Runs(side, f, n))}
  <1>1. L \in Nat
    OBVIOUS
  <1>2. SUFFICES ASSUME Wrong # {} PROVE FALSE
    BY <1>1
  <1>3. Wrong \subseteq Nat
    BY <1>1
  <1>4. PICK n \in Wrong : \A m \in Wrong : n <= m
    BY <1>2, <1>3, HasMin
  <1>5. n \in 0..L /\ ~ (\E f : Runs(side, f, n)) /\ n \in Nat
    BY <1>1, <1>4
  <1>6. CASE n = 0
    <2>1. Runs(side, [k \in {0} |-> Start], n)
      BY <1>6 DEF Runs
    <2>2. QED
      BY <1>5, <2>1
  <1>7. CASE n # 0
    <2>1. n - 1 \in 0..L /\ ~ (n <= n - 1)
      BY <1>1, <1>5, <1>7
    <2>2. \E f : Runs(side, f, n - 1)
      BY <1>4, <2>1
    <2>3. PICK f : Runs(side, f, n - 1)
      BY <2>2
    <2> DEFINE last == Neg!Answer(side, f[n - 1], msg[n])
               g == [k \in 0..n |-> IF k = n THEN last ELSE f[k]]
    <2> HIDE DEF last
    <2>4. g[0] = Start
      BY <1>5, <1>7, <2>3 DEF Runs
    <2>5. ASSUME NEW k \in 1..n PROVE g[k] = Neg!Answer(side, g[k - 1], msg[k])
      <3>1. k \in 0..n /\ k - 1 \in 0..n /\ k - 1 # n
        BY <1>5
      <3>2. g[k - 1] = f[k - 1]
        BY <3>1
      <3>3. CASE k = n
        <4>1. g[k] = last
          BY <3>1, <3>3
        <4>2. QED
          BY <3>2, <3>3, <4>1 DEF last
      <3>4. CASE k # n
        <4>1. g[k] = f[k] /\ k \in 1..(n - 1)
          BY <1>5, <3>1, <3>4
        <4>2. f[k] = Neg!Answer(side, f[k - 1], msg[k])
          BY <2>3, <4>1 DEF Runs
        <4> HIDE DEF g
        <4>3. QED
          BY <3>2, <4>1, <4>2
      <3>5. QED
        BY <3>3, <3>4
    <2> HIDE DEF g
    <2>6. Runs(side, g, n)
      BY <2>4, <2>5 DEF Runs
    <2>7. QED
      BY <1>5, <2>6
  <1>8. QED
    BY <1>6, <1>7

LEMMA AnsweredRuns ==
  ASSUME msg \in Seq(Spans), NEW side
  PROVE  \E f : Runs(side, f, Len(msg)) /\ Neg!Answered(side) = f[Len(msg)]
  <1> DEFINE L == Len(msg)
             G(f) == [k \in 0..L |->
                       IF k = 0 THEN Start
                       ELSE CHOOSE x \in {Neg!Answer(side, a, msg[k]) : a \in {f[k - 1]}} : TRUE]
             after == CHOOSE f : f = G(f)
  <1>1. L \in Nat
    OBVIOUS
  <1>2. PICK f : Runs(side, f, L)
    BY LoopRuns
  <1>3. ASSUME NEW g, NEW k
        PROVE  (CHOOSE x \in {Neg!Answer(side, a, msg[k]) : a \in {g[k - 1]}} : TRUE)
               = Neg!Answer(side, g[k - 1], msg[k])
    <2> DEFINE e == Neg!Answer(side, g[k - 1], msg[k])
    <2>1. {Neg!Answer(side, a, msg[k]) : a \in {g[k - 1]}} = {e}
      OBVIOUS
    <2> HIDE DEF e
    <2>2. (CHOOSE x \in {e} : TRUE) = e
      BY Choice
    <2>3. QED
      BY <2>1, <2>2 DEF e
  <1> DEFINE F == [k \in 0..L |-> f[k]]
  <1>4. F = G(F)
    <2>1. ASSUME NEW k \in 0..L PROVE F[k] = G(F)[k]
      <3>1. CASE k = 0
        BY <1>2, <3>1 DEF Runs
      <3>2. CASE k # 0
        <4>1. k \in 1..L /\ k - 1 \in 0..L
          BY <1>1, <3>2
        <4>2. F[k] = f[k] /\ F[k - 1] = f[k - 1]
          BY <4>1
        <4>3. f[k] = Neg!Answer(side, f[k - 1], msg[k])
          BY <1>2, <4>1 DEF Runs
        <4>4. G(F)[k] = CHOOSE x \in {Neg!Answer(side, a, msg[k]) : a \in {F[k - 1]}} : TRUE
          BY <3>2
        <4> HIDE DEF F, G
        <4>5. QED
          BY <1>3, <4>2, <4>3, <4>4
      <3>3. QED
        BY <3>1, <3>2
    <2> HIDE DEF F
    <2>2. DOMAIN F = 0..L /\ F = [k \in 0..L |-> F[k]]
      BY DEF F
    <2>3. G(F) = [k \in 0..L |-> G(F)[k]]
      OBVIOUS
    <2> HIDE DEF G
    <2>4. QED
      BY <2>1, <2>2, <2>3
  <1> HIDE DEF F
  <1>5. after = G(after)
    <2> HIDE DEF G
    <2>1. QED
      BY <1>4
  <1>6. Neg!Answered(side) = after[L]
    BY DEF Neg!Answered, Start
  <1> HIDE DEF after
  <1>7. after[0] = Start
    <2>1. 0 \in 0..L
      BY <1>1
    <2>2. G(after)[0] = Start
      BY <2>1
    <2> HIDE DEF G
    <2>3. QED
      BY <1>5, <2>2
  <1>8. ASSUME NEW k \in 1..L PROVE after[k] = Neg!Answer(side, after[k - 1], msg[k])
    <2>1. k \in 0..L /\ k # 0
      BY <1>1
    <2>2. G(after)[k] = CHOOSE x \in {Neg!Answer(side, a, msg[k]) : a \in {after[k - 1]}} : TRUE
      BY <2>1
    <2> HIDE DEF G
    <2>3. QED
      BY <1>3, <1>5, <2>2
  <1>9. Runs(side, after, L)
    BY <1>7, <1>8 DEF Runs
  <1>10. QED
    BY <1>6, <1>9

LEMMA AnsweredIs ==
  ASSUME Sorted, NEW side, Ready(side)
  PROVE  AccOK(side, Neg!Answered(side), Len(msg))
  <1>1. msg \in Seq(Spans) /\ Len(msg) \in Nat
    BY DEF Ready
  <1>2. PICK f : Runs(side, f, Len(msg)) /\ Neg!Answered(side) = f[Len(msg)]
    BY <1>1, AnsweredRuns
  <1>3. AccOK(side, f[0], 0)
    <2>1. f[0] = Start
      BY <1>2 DEF Runs
    <2>2. have \subseteq Neg!Item /\ need \subseteq Neg!Item /\ Known(have, need) /\ limit \in Nat
      BY DEF Ready, Known, Lacks, Neg!Side
    <2>3. 1 \in 1..Neg!Infinity /\ <<>> \in Seq(Spans)
      BY DEF Neg!Infinity, Sorted
    <2>4. Start \in AccRec
      BY <2>2, <2>3 DEF Start, AccRec
    <2>5. /\ Start.low = 1 /\ Start.prev = 1 /\ Start.skip = FALSE /\ Start.len = 0
          /\ Start.over = FALSE
          /\ Start.out = <<>> /\ Start.have = have /\ Start.need = need
      BY DEF Start
    <2>6. Exact(items[side], 1, <<>>, Exacts) /\ End(1, <<>>) = 1 /\ Low(1, msg, 0 + 1) = 1
      BY DEF Exact, End, Low
    <2>7. OnTrack(Start, 0)
      BY <2>2, <2>5, <2>6 DEF OnTrack
    <2>8. Kept(Start, 0)
      BY DEF Kept
    <2> HIDE DEF Start
    <2>9. AccOK(side, Start, 0)
      BY <2>2, <2>4, <2>5, <2>6, <2>7, <2>8 DEF AccOK
    <2>10. QED
      BY <2>1, <2>9
  <1> DEFINE Wrong == {k \in 0..Len(msg) : ~AccOK(side, f[k], k)}
  <1>4. Wrong = {}
    <2>1. SUFFICES ASSUME Wrong # {} PROVE FALSE
      OBVIOUS
    <2>2. Wrong \subseteq Nat
      BY <1>1
    <2>3. PICK k \in Wrong : \A j \in Wrong : k <= j
      BY <2>1, <2>2, HasMin
    <2>4. k \in 0..Len(msg) /\ ~AccOK(side, f[k], k) /\ k # 0
      BY <1>3, <2>3
    <2>5. k \in 1..Len(msg) /\ k - 1 \in 0..Len(msg) /\ ~ (k <= k - 1)
      BY <1>1, <2>4
    <2>6. AccOK(side, f[k - 1], k - 1)
      BY <2>3, <2>5
    <2>7. f[k] = Neg!Answer(side, f[k - 1], msg[k])
      BY <1>2, <2>5 DEF Runs
    <2>8. PICK a : a = f[k - 1]
      OBVIOUS
    <2>9. AccOK(side, a, k - 1)
      BY <2>6, <2>8
    <2>10. AccOK(side, Neg!Answer(side, a, msg[k]), k)
      BY <2>5, <2>9, RangeAnswered
    <2>11. QED
      BY <2>4, <2>7, <2>8, <2>10
  <1>5. Len(msg) \in 0..Len(msg)
    BY <1>1
  <1>6. QED
    BY <1>2, <1>4, <1>5

-----------------------------------------------------------------------------
(* The session. *)

Sender == IF turn = "responder" THEN "initiator" ELSE "responder"

(* What has been found is true; the message in flight is right about its   *)
(* sender's items; and without a limit whatever differs and has not been   *)
(* found lies in a range of it that is not skipped.                        *)
ReconcileInv ==
  /\ limit \in Nat /\ items \in [Neg!Side -> SUBSET Neg!Item] /\ turn \in Neg!Side \cup {"done"}
  /\ msg \in Seq(Spans) /\ Known(have, need)
  /\ turn \in Neg!Side => Exact(items[OtherSide(turn)], 1, msg, Exacts)
  /\ turn = "done" => msg = <<>>
  /\ limit = 0 => \A i \in Differ : i \in have \cup need \/ Covers(1, msg, i)

LEMMA ReconcileInit ==
  ASSUME Sorted, Neg!Init
  PROVE  ReconcileInv
  <1> DEFINE S == items["initiator"]
  <1>1. /\ limit \in Nat /\ items \in [Neg!Side -> SUBSET Neg!Item] /\ turn = "responder"
        /\ msg = Neg!Split(S, Neg!Infinity) /\ have = {} /\ need = {}
    BY DEF Neg!Init, Sorted
  <1>2. S \subseteq Neg!Item /\ 1 \in 1..Neg!Infinity /\ Neg!Infinity \in 1..Neg!Infinity
    BY <1>1 DEF Neg!Side, Neg!Infinity, Sorted
  <1>3. SplitIsFor(S, 1, Neg!Infinity)
    BY <1>2, SplitIs
  <1>4. Neg!Within(S, 1, Neg!Infinity) = S
    BY <1>2 DEF Neg!Within, Neg!Item, Neg!Infinity, Sorted
  <1>5. /\ msg \in Seq(Spans) /\ msg # <<>> /\ End(1, msg) = Neg!Infinity
        /\ \A k \in DOMAIN msg : msg[k].mode # "skip"
        /\ Exact(S, 1, msg, Mode)
    BY <1>1, <1>3, <1>4 DEF SplitIsFor
  <1>6. Exact(items[OtherSide(turn)], 1, msg, Exacts)
    BY <1>1, <1>5 DEF Exact, OtherSide, Exacts, Mode
  <1>7. ASSUME NEW i \in Differ PROVE Covers(1, msg, i)
    <2>1. i \in Neg!Item
      BY <1>1 DEF Differ, Lacks, Neg!Side
    <2>2. i \in Nat /\ 1 <= i /\ i < Neg!Infinity /\ 1 \in Nat
      BY <2>1 DEF Neg!Item, Neg!Infinity, Sorted
    <2>3. QED
      BY <1>5, <2>2, Reached
  <1>8. QED
    BY <1>1, <1>5, <1>6, <1>7 DEF ReconcileInv, Known, Neg!Side

LEMMA ReconcileStep ==
  ASSUME Sorted, ReconcileInv, [Neg!Next]_Neg!vars
  PROVE  ReconcileInv'
  <1>1. CASE UNCHANGED Neg!vars
    BY <1>1 DEF Neg!vars, ReconcileInv, Known, Lacks, Differ, Exact, Exacts, Covers, OtherSide, Low
  <1>2. ASSUME NEW side \in Neg!Side, turn = side
        PROVE  LET a == Neg!Answered(side)
               IN  /\ a.out \in Seq(Spans) /\ Known(a.have, a.need)
                   /\ Exact(items[side], 1, a.out, Exacts)
                   /\ side = "responder" => a.have = have /\ a.need = need
                   /\ limit = 0 => \A i \in Differ : i \in a.have \cup a.need \/ Covers(1, a.out, i)
    <2>1. Ready(side)
      BY <1>2 DEF ReconcileInv, Ready
    <2>2. PICK a : a = Neg!Answered(side)
      OBVIOUS
    <2>3. AccOK(side, a, Len(msg))
      BY <2>1, <2>2, AnsweredIs
    <2>4. /\ a \in AccRec /\ Known(a.have, a.need) /\ Exact(items[side], 1, a.out, Exacts)
          /\ side = "responder" => a.have = have /\ a.need = need
          /\ have \subseteq a.have /\ need \subseteq a.need /\ Kept(a, Len(msg))
      BY <2>3 DEF AccOK
    <2>5. a.out \in Seq(Spans)
      BY <2>4 DEF AccRec
    <2>6. ASSUME limit = 0, NEW i \in Differ PROVE i \in a.have \cup a.need \/ Covers(1, a.out, i)
      <3>1. CASE i \in have \cup need
        BY <2>4, <3>1
      <3>2. CASE Covers(1, msg, i)
        <4>1. PICK j \in DOMAIN msg : msg[j].mode # "skip" /\ Low(1, msg, j) <= i /\ i < msg[j].upto
          BY <3>2 DEF Covers
        <4>2. j \in 1..Len(msg)
          BY DEF ReconcileInv
        <4>3. QED
          BY <2>4, <2>6, <4>1, <4>2 DEF Kept
      <3>3. QED
        BY <2>6, <3>1, <3>2 DEF ReconcileInv
    <2>7. QED
      BY <2>2, <2>4, <2>5, <2>6
  <1>3. CASE Neg!Respond
    <2>1. PICK a : a = Neg!Answered("responder")
      OBVIOUS
    <2>2. /\ turn = "responder" /\ turn' = "initiator" /\ msg' = a.out
          /\ limit' = limit /\ items' = items /\ have' = have /\ need' = need
      BY <1>3, <2>1 DEF Neg!Respond
    <2>3. /\ a.out \in Seq(Spans) /\ Known(a.have, a.need)
          /\ Exact(items["responder"], 1, a.out, Exacts)
          /\ a.have = have /\ a.need = need
          /\ limit = 0 => \A i \in Differ : i \in a.have \cup a.need \/ Covers(1, a.out, i)
      BY <1>2, <2>1, <2>2 DEF Neg!Side
    <2>4. Exacts' = Exacts /\ Differ' = Differ /\ Known(have, need)' /\ limit' \in Nat
          /\ items' \in [Neg!Side -> SUBSET Neg!Item]
      BY <2>2 DEF Exacts, Differ, Known, Lacks, ReconcileInv
    <2>5. OtherSide("initiator") = "responder"
      BY DEF OtherSide
    <2>6. QED
      BY <2>2, <2>3, <2>4, <2>5 DEF ReconcileInv, Exact, Covers, Low, OtherSide, Neg!Side
  <1>4. CASE Neg!Continue
    <2>1. PICK a : a = Neg!Answered("initiator")
      OBVIOUS
    <2>2. /\ turn = "initiator" /\ have' = a.have /\ need' = a.need /\ msg' = a.out
          /\ turn' = IF a.out = <<>> THEN "done" ELSE "responder"
          /\ limit' = limit /\ items' = items
      BY <1>4, <2>1 DEF Neg!Continue
    <2>3. /\ a.out \in Seq(Spans) /\ Known(a.have, a.need)
          /\ Exact(items["initiator"], 1, a.out, Exacts)
          /\ limit = 0 => \A i \in Differ : i \in a.have \cup a.need \/ Covers(1, a.out, i)
      BY <1>2, <2>1, <2>2 DEF Neg!Side
    <2>4. Exacts' = Exacts /\ Differ' = Differ /\ Known(have, need)' /\ limit' \in Nat
          /\ items' \in [Neg!Side -> SUBSET Neg!Item]
      BY <2>2, <2>3 DEF Exacts, Differ, Known, Lacks, ReconcileInv
    <2>5. OtherSide("responder") = "initiator"
      BY DEF OtherSide
    <2>6. QED
      BY <2>2, <2>3, <2>4, <2>5 DEF ReconcileInv, Exact, Covers, Low, OtherSide, Neg!Side
  <1>5. QED
    BY <1>1, <1>3, <1>4 DEF Neg!Next

LEMMA ReconcileFinds ==
  ASSUME ReconcileInv
  PROVE  Neg!DifferenceFound
  <1>1. SUFFICES ASSUME turn = "done"
                 PROVE  /\ have \subseteq Lacks("initiator", "responder")
                        /\ need \subseteq Lacks("responder", "initiator")
                        /\ limit = 0 => /\ have = Lacks("initiator", "responder")
                                        /\ need = Lacks("responder", "initiator")
    BY DEF Neg!DifferenceFound, Lacks
  <1>2. msg = <<>> /\ Known(have, need)
    BY <1>1 DEF ReconcileInv
  <1>3. ASSUME NEW i PROVE ~Covers(1, msg, i)
    BY <1>2 DEF Covers
  <1>4. ASSUME limit = 0, NEW i \in Differ PROVE i \in have \cup need
    BY <1>3, <1>4 DEF ReconcileInv
  <1>5. QED
    BY <1>2, <1>4 DEF Known, Differ, Lacks

(***************************************************************************)
(* What a Negentropy session that ends has found is true, with a frame     *)
(* limit or without; without one it is the whole difference                *)
(* (negentropy.js reconcile, splitRange): for any two sets of items, any   *)
(* time stamps, also equal ones, and any number of buckets.  With a limit  *)
(* the message stays right about the ids it lists, and that is all: the    *)
(* rest's fingerprint need not begin where the range before it ends.       *)
(***************************************************************************)
THEOREM SessionsFindTheDifference ==
  ASSUME Sorted
  PROVE  Neg!Spec => []Neg!DifferenceFound
  <1>1. Neg!Init => ReconcileInv
    BY ReconcileInit
  <1>2. ReconcileInv /\ [Neg!Next]_Neg!vars => ReconcileInv'
    BY ReconcileStep
  <1>3. ReconcileInv => Neg!DifferenceFound
    BY ReconcileFinds
  <1>4. QED
    BY <1>1, <1>2, <1>3, PTL DEF Neg!Spec
=============================================================================
