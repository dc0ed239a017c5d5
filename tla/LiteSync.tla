------------------------------ MODULE LiteSync ------------------------------
(***************************************************************************)
(* Qu Lite: how the envelopes of ONE space travel between the devices of   *)
(* its members and a mirror (packages/lite/src/sync/sync.js, envelopes.js, *)
(* net/link.js, net/ws.js, mirror.js).                                     *)
(*                                                                         *)
(* A client keeps every local write in its outbox until the mirror acks    *)
(* it, pushes it again whenever the mirror says hello, and reconciles the  *)
(* space with the mirror: a marker says in storage that a reconcile has    *)
(* begun and has not completed.  The mirror forwards what is new to it to  *)
(* every peer it believes connected.                                       *)
(*                                                                         *)
(* Every client knows one mirror and reconciles the whole space, with      *)
(* ackFrom 'mirror'.  What devices outside Client write reaches the mirror *)
(* at any time.  What an envelope is does not matter here (see LiteStore): *)
(* it is an id, accepted by everybody, never dropped.  A                   *)
(* Negentropy exchange is one round: the responder's item set meets the    *)
(* initiator's, and both sides' differences come out (see LiteReconcile).  *)
(***************************************************************************)
EXTENDS Naturals, SequencesExt

CONSTANTS
  Client,       \* the members' devices
  Watcher,      \* those whose application watches the space, also after a reload
  Rec,          \* the envelopes that get written
  Author,       \* Rec -> Client or Other
  Other,        \* any device outside Client
  Slot,         \* concurrent sessions of a client; 0 marks a frame of none
  PromptClose,  \* the mirror hears of a dead link before the client is back
  MaxBreaks,    \* bound: connections that break
  MaxReloads,   \* bound: reloads of a client
  MaxRestarts,  \* bound: restarts of the mirror
  MaxTimeouts   \* bound: sessions that time out

ASSUME BoundsAssumption ==
  /\ MaxBreaks \in Nat /\ MaxReloads \in Nat /\ MaxRestarts \in Nat /\ MaxTimeouts \in Nat
  /\ IsFiniteSet(Rec) /\ Watcher \subseteq Client /\ Other \notin Client
  /\ Slot \subseteq Nat \ {0}

Msg == [t: {"hi", "hello", "rec", "ack", "want"}, ids: SUBSET Rec, s: {0}]
  \cup [t: {"neg", "negr"}, ids: SUBSET Rec, s: Slot]
Plain(type, ids) == [t |-> type, ids |-> ids, s |-> 0]

Session == [step: {"idle", "load", "neg", "want"},
            items: SUBSET Rec,    \* what the client held when it began
            wait: SUBSET Rec]     \* wanted and not yet processed
NoSession == [step |-> "idle", items |-> {}, wait |-> {}]

VARIABLES
  held,      \* client -> rec/<sid>/ on that device
  outbox,    \* client -> sync/out/<sid>/
  pending,   \* client -> sync/pending/<mirror>/ has the scope
  active,    \* client -> the scope is in `active`
  sess,      \* client -> slot -> a session it initiates
  greet,     \* client -> the mirror's hello: none, being handled, done
  link,      \* client -> down, up, or dead and not noticed
  hiDone,    \* client -> the mirror has read the hi of the current link
  local,     \* client -> local writes committed and not yet forwarded
  pipe,      \* client -> envelopes it is ingesting
  toM, toC,  \* client -> frames on its link, in each direction
  store,     \* rec/<sid>/ at the mirror
  peers,     \* the mirror's `peers`
  stale,     \* client -> dead links of it the mirror has not noticed
  pipeM,     \* <<envelope, client>> the mirror is ingesting
  fresh,     \* those it has committed, and not yet forwarded and acked
  breaks, reloads, restarts, timeouts

durableVars == <<held, outbox, pending, store>>
clientVars  == <<active, sess, greet, local, pipe>>
linkVars    == <<link, hiDone, toM, toC, stale>>
mirrorVars  == <<peers, pipeM, fresh>>
boundVars   == <<breaks, reloads, restarts, timeouts>>
vars == <<durableVars, clientVars, linkVars, mirrorVars, boundVars>>

-----------------------------------------------------------------------------
(* The client's `peers` has the mirror; frames get across; both ends greeted. *)
Linked(c)  == link[c] # "down"
Arrives(c) == link[c] = "up"
Reaches(c) == Arrives(c) /\ hiDone[c]

Recs(ids) == SetToSeq({Plain("rec", {r}) : r \in ids})
Sent(c, frames) == IF Arrives(c) THEN [toM EXCEPT ![c] = @ \o frames] ELSE toM
Replied(c, frames) == [toC EXCEPT ![c] = @ \o frames]

(* A session has a frame on the wire at most; when it is over, it is ignored. *)
Without(frames, s) ==
  IF \E i \in 1..Len(frames) : frames[i].s = s
  THEN RemoveAt(frames, CHOOSE i \in 1..Len(frames) : frames[i].s = s) ELSE frames

-----------------------------------------------------------------------------
(* Plausible bugs in the operators of the next section, for mutation runs. *)

NothingPushed(c) == {}               \* hello does not flush the outbox
NeverRetried(c) == FALSE             \* no retry timer
NotQueued(c, r) == outbox[c]         \* the batch lacks the outbox entry
FinishedAnyway(c, S, complete) ==    \* a reconcile that failed drops its marker
  active' = [active EXCEPT ![c] = @ /\ S = {}] /\ pending' = [pending EXCEPT ![c] = @ /\ S = {}]
QueuedAsEntry(c, r) == outbox[c] \cup {Rec}   \* the key holds another value
-----------------------------------------------------------------------------
(* qu.write.stored: the outbox entry in the batch of the record. *)
Queued(c, r) == outbox[c] \cup {r}

(* flushOutbox(): what hello pushes again. *)
Unacked(c) == outbox[c] \cap held[c]

(* ingest(): the clients a new envelope is forwarded to. *)
Routed(from) == {c \in peers : c # from /\ Reaches(c)}

(* ack: the entries that leave the outbox. *)
Acknowledged(c, ids) == IF greet[c] = "done" THEN outbox[c] \cap ids ELSE {}

(* flushAcks(): the mirror acks what it has settled, to a peer it knows. *)
CanAck(c) == c \in peers /\ Reaches(c)

(* resumePending(): a reconcile that has begun and not completed. *)
Resumable(c) == pending[c] /\ ~active[c]

-----------------------------------------------------------------------------
TypeOK ==
  /\ held \in [Client -> SUBSET Rec] /\ outbox \in [Client -> SUBSET Rec]
  /\ pending \in [Client -> BOOLEAN] /\ active \in [Client -> BOOLEAN]
  /\ sess \in [Client -> [Slot -> Session]]
  /\ greet \in [Client -> {"none", "announcing", "done"}]
  /\ link \in [Client -> {"down", "up", "dead"}] /\ hiDone \in [Client -> BOOLEAN]
  /\ local \in [Client -> SUBSET Rec] /\ pipe \in [Client -> SUBSET Rec]
  /\ toM \in [Client -> Seq(Msg)] /\ toC \in [Client -> Seq(Msg)]
  /\ store \in SUBSET Rec /\ peers \in SUBSET Client
  /\ stale \in [Client -> 0 .. MaxBreaks + MaxReloads]
  /\ pipeM \cup fresh \subseteq Rec \X (Client \cup {Other})
  /\ \A c \in Client : outbox[c] \subseteq held[c]

Init ==
  /\ held = [c \in Client |-> {}] /\ outbox = [c \in Client |-> {}]
  /\ pending = [c \in Client |-> FALSE] /\ active = [c \in Client |-> FALSE]
  /\ sess = [c \in Client |-> [s \in Slot |-> NoSession]]
  /\ greet = [c \in Client |-> "none"]
  /\ link = [c \in Client |-> "down"] /\ hiDone = [c \in Client |-> FALSE]
  /\ local = [c \in Client |-> {}] /\ pipe = [c \in Client |-> {}]
  /\ toM = [c \in Client |-> <<>>] /\ toC = [c \in Client |-> <<>>]
  /\ store = {} /\ peers = {} /\ stale = [c \in Client |-> 0]
  /\ pipeM = {} /\ fresh = {}
  /\ breaks = 0 /\ reloads = 0 /\ restarts = 0 /\ timeouts = 0

-----------------------------------------------------------------------------
(* Writing: the record and its outbox entry in one batch, then the forward. *)
Write(c, r) ==
  /\ Author[r] = c /\ r \notin held[c]
  /\ held' = [held EXCEPT ![c] = @ \cup {r}]
  /\ outbox' = [outbox EXCEPT ![c] = Queued(c, r)]
  /\ local' = [local EXCEPT ![c] = @ \cup {r}]
  /\ UNCHANGED <<pending, store, active, sess, greet, pipe, linkVars, mirrorVars, boundVars>>

Forward(c, r) ==
  /\ r \in local[c]
  /\ local' = [local EXCEPT ![c] = @ \ {r}]
  /\ toM' = IF Linked(c) THEN Sent(c, Recs({r})) ELSE toM
  /\ UNCHANGED <<durableVars, active, sess, greet, pipe, link, hiDone, toC, stale,
                 mirrorVars, boundVars>>

-----------------------------------------------------------------------------
(* Links.  Connecting sends hi; the mirror answers with its hi and hello. *)
Connect(c) ==
  /\ link[c] = "down" /\ (PromptClose => stale[c] = 0)
  /\ link' = [link EXCEPT ![c] = "up"]
  /\ toM' = [toM EXCEPT ![c] = <<Plain("hi", {})>>]
  /\ UNCHANGED <<durableVars, clientVars, hiDone, toC, stale, mirrorVars, boundVars>>

HandleHi(c) ==
  /\ toM[c] # <<>> /\ Head(toM[c]).t = "hi"
  /\ hiDone' = [hiDone EXCEPT ![c] = TRUE] /\ peers' = peers \cup {c}
  /\ toM' = [toM EXCEPT ![c] = Tail(@)]
  /\ toC' = Replied(c, <<Plain("hello", {})>>)
  /\ UNCHANGED <<durableVars, clientVars, link, stale, pipeM, fresh, boundVars>>

(* The connection of c is gone; whoever had it open has yet to notice. *)
Cut(c, to) ==
  /\ link' = [link EXCEPT ![c] = to]
  /\ hiDone' = [hiDone EXCEPT ![c] = FALSE]
  /\ toM' = [toM EXCEPT ![c] = <<>>] /\ toC' = [toC EXCEPT ![c] = <<>>]
  /\ stale' = [stale EXCEPT ![c] = @ + IF hiDone[c] THEN 1 ELSE 0]

Break(c) ==
  /\ link[c] = "up" /\ breaks < MaxBreaks /\ breaks' = breaks + 1
  /\ Cut(c, "dead")
  /\ UNCHANGED <<durableVars, clientVars, mirrorVars, reloads, restarts, timeouts>>

(* net.peer.down at the client: its sessions fail, those still loading do not. *)
ClientDown(c) ==
  /\ link[c] = "dead"
  /\ link' = [link EXCEPT ![c] = "down"] /\ greet' = [greet EXCEPT ![c] = "none"]
  /\ sess' = [sess EXCEPT ![c] = [s \in Slot |-> IF @[s].step = "load" THEN @[s] ELSE NoSession]]
  /\ active' = [active EXCEPT ![c] = @ /\ \A s \in Slot : sess[c][s].step \in {"idle", "load"}]
  /\ UNCHANGED <<durableVars, local, pipe, hiDone, toM, toC, stale, mirrorVars, boundVars>>

(* net.peer.down at the mirror, by the name of the peer, whichever link it was. *)
MirrorClose(c) ==
  /\ stale[c] > 0
  /\ stale' = [stale EXCEPT ![c] = @ - 1] /\ peers' = peers \ {c}
  /\ UNCHANGED <<durableVars, clientVars, link, hiDone, toM, toC, pipeM, fresh, boundVars>>

(* The page reloads, or the device restarts: storage and nothing else stays. *)
Reload(c) ==
  /\ reloads < MaxReloads /\ reloads' = reloads + 1
  /\ Cut(c, "down")
  /\ active' = [active EXCEPT ![c] = FALSE] /\ greet' = [greet EXCEPT ![c] = "none"]
  /\ sess' = [sess EXCEPT ![c] = [s \in Slot |-> NoSession]]
  /\ local' = [local EXCEPT ![c] = {}] /\ pipe' = [pipe EXCEPT ![c] = {}]
  /\ UNCHANGED <<durableVars, mirrorVars, breaks, restarts, timeouts>>

MirrorRestart ==
  /\ restarts < MaxRestarts /\ restarts' = restarts + 1
  /\ link' = [c \in Client |-> IF Linked(c) THEN "dead" ELSE "down"]
  /\ hiDone' = [c \in Client |-> FALSE] /\ stale' = [c \in Client |-> 0]
  /\ toM' = [c \in Client |-> <<>>] /\ toC' = [c \in Client |-> <<>>]
  /\ peers' = {} /\ pipeM' = {} /\ fresh' = {}
  /\ UNCHANGED <<durableVars, clientVars, breaks, reloads, timeouts>>

-----------------------------------------------------------------------------
(* Sessions.  reconcileWith(): the marker first, then the item set. *)
Started(c) ==
  /\ \E s \in Slot :
       /\ sess[c][s].step = "idle"
       /\ \A t \in Slot : t < s => sess[c][t].step # "idle"
       /\ sess' = [sess EXCEPT ![c][s] = [step |-> "load", items |-> held[c], wait |-> {}]]
  /\ pending' = [pending EXCEPT ![c] = TRUE] /\ active' = [active EXCEPT ![c] = TRUE]

(* finish() of the sessions S: the marker stays unless one of them completed. *)
Finished(c, S, complete) ==
  /\ active' = [active EXCEPT ![c] = @ /\ S = {}]
  /\ pending' = [pending EXCEPT ![c] = @ /\ (S = {} \/ ~complete)]

(* hello of the mirror: the envelope layer announces its grants first. *)
ReceiveHello(c) ==
  /\ toC[c] # <<>> /\ Head(toC[c]).t = "hello"
  /\ toC' = [toC EXCEPT ![c] = Tail(@)] /\ greet' = [greet EXCEPT ![c] = "announcing"]
  /\ UNCHANGED <<durableVars, active, sess, local, pipe, link, hiDone, toM, stale,
                 mirrorVars, boundVars>>

(* Then the outbox, then what is pending or watched. *)
GreetMirror(c) ==
  /\ greet[c] = "announcing"
  /\ greet' = [greet EXCEPT ![c] = "done"]
  /\ toM' = Sent(c, Recs(Unacked(c)))
  /\ IF c \in Watcher \/ Resumable(c) THEN Started(c) ELSE UNCHANGED <<sess, pending, active>>
  /\ UNCHANGED <<held, outbox, store, local, pipe, link, hiDone, toC, stale, mirrorVars, boundVars>>

Retry(c) ==
  /\ Linked(c) /\ Resumable(c) /\ Started(c)
  /\ UNCHANGED <<held, outbox, store, greet, local, pipe, linkVars, mirrorVars, boundVars>>

(* The item set is loaded; the link may be gone by now. *)
SendNeg(c, s) ==
  /\ sess[c][s].step = "load"
  /\ IF Linked(c)
     THEN /\ sess' = [sess EXCEPT ![c][s].step = "neg"]
          /\ toM' = Sent(c, <<[t |-> "neg", ids |-> {}, s |-> s]>>)
          /\ UNCHANGED <<pending, active>>
     ELSE /\ sess' = [sess EXCEPT ![c][s] = NoSession]
          /\ Finished(c, {s}, FALSE) /\ UNCHANGED toM
  /\ UNCHANGED <<held, outbox, store, greet, local, pipe, link, hiDone, toC, stale,
                 mirrorVars, boundVars>>

HandleNeg(c) ==
  /\ toM[c] # <<>> /\ Head(toM[c]).t = "neg"
  /\ toM' = [toM EXCEPT ![c] = Tail(@)]
  /\ toC' = Replied(c, <<[t |-> "negr", ids |-> store, s |-> Head(toM[c]).s]>>)
  /\ UNCHANGED <<durableVars, clientVars, link, hiDone, stale, mirrorVars, boundVars>>

(* The differences are known: push what the mirror lacks, want the rest. *)
ReceiveNegr(c) ==
  /\ toC[c] # <<>> /\ Head(toC[c]).t = "negr"
  /\ LET s == Head(toC[c]).s
         have == sess[c][s].items \ Head(toC[c]).ids
         need == Head(toC[c]).ids \ sess[c][s].items
         want == [t |-> "want", ids |-> need, s |-> 0]
     IN  /\ toC' = [toC EXCEPT ![c] = Tail(@)]
         /\ IF need = {}
            THEN sess' = [sess EXCEPT ![c][s] = NoSession] /\ Finished(c, {s}, TRUE)
            ELSE /\ sess' = [sess EXCEPT ![c][s].step = "want", ![c][s].wait = need]
                 /\ UNCHANGED <<pending, active>>
         /\ toM' = Sent(c, Recs(have) \o IF need = {} THEN <<>> ELSE <<want>>)
  /\ UNCHANGED <<held, outbox, store, greet, local, pipe, link, hiDone, stale,
                 mirrorVars, boundVars>>

HandleWant(c) ==
  /\ toM[c] # <<>> /\ Head(toM[c]).t = "want"
  /\ toM' = [toM EXCEPT ![c] = Tail(@)]
  /\ toC' = Replied(c, Recs(Head(toM[c]).ids \cap store))
  /\ UNCHANGED <<durableVars, clientVars, link, hiDone, stale, mirrorVars, boundVars>>

Timeout(c, s) ==
  /\ sess[c][s].step \in {"neg", "want"} /\ timeouts < MaxTimeouts /\ timeouts' = timeouts + 1
  /\ sess' = [sess EXCEPT ![c][s] = NoSession] /\ Finished(c, {s}, FALSE)
  /\ toM' = [toM EXCEPT ![c] = Without(@, s)] /\ toC' = [toC EXCEPT ![c] = Without(@, s)]
  /\ UNCHANGED <<held, outbox, store, greet, local, pipe, link, hiDone, stale, mirrorVars,
                 breaks, reloads, restarts>>

-----------------------------------------------------------------------------
(* Records arrive at the client; the commit settles the sessions that wait. *)
ReceiveRec(c) ==
  /\ toC[c] # <<>> /\ Head(toC[c]).t = "rec"
  /\ toC' = [toC EXCEPT ![c] = Tail(@)]
  /\ pipe' = [pipe EXCEPT ![c] = @ \cup Head(toC[c]).ids]
  /\ UNCHANGED <<durableVars, active, sess, greet, local, link, hiDone, toM, stale,
                 mirrorVars, boundVars>>

CommitRec(c, r) ==
  LET settled == {s \in Slot : sess[c][s].wait = {r}}
  IN  /\ r \in pipe[c]
      /\ pipe' = [pipe EXCEPT ![c] = @ \ {r}]
      /\ held' = [held EXCEPT ![c] = @ \cup {r}]
      /\ sess' = [sess EXCEPT ![c] = [s \in Slot |->
                    IF s \in settled THEN NoSession
                    ELSE [sess[c][s] EXCEPT !.wait = sess[c][s].wait \ {r}]]]
      /\ Finished(c, settled, TRUE)
      /\ UNCHANGED <<outbox, store, greet, local, linkVars, mirrorVars, boundVars>>

ReceiveAck(c) ==
  /\ toC[c] # <<>> /\ Head(toC[c]).t = "ack"
  /\ toC' = [toC EXCEPT ![c] = Tail(@)]
  /\ outbox' = [outbox EXCEPT ![c] = @ \ Acknowledged(c, Head(toC[c]).ids)]
  /\ UNCHANGED <<held, pending, store, clientVars, link, hiDone, toM, stale, mirrorVars, boundVars>>

(* ... and at the mirror: one ingest per id, then forward and ack. *)
HandleRec(c) ==
  /\ toM[c] # <<>> /\ Head(toM[c]).t = "rec"
  /\ toM' = [toM EXCEPT ![c] = Tail(@)]
  /\ pipeM' = pipeM \cup (Head(toM[c]).ids \X {c})
  /\ UNCHANGED <<durableVars, clientVars, link, hiDone, toC, stale, peers, fresh, boundVars>>

AckTo(c, r, out) == IF CanAck(c) THEN [out EXCEPT ![c] = Append(@, Plain("ack", {r}))] ELSE out

(* An envelope of another device comes in, over a link of its own. *)
Arrive(r) ==
  /\ Author[r] = Other /\ r \notin store /\ \A e \in pipeM : e[1] # r
  /\ pipeM' = pipeM \cup {<<r, Other>>}
  /\ UNCHANGED <<durableVars, clientVars, linkVars, peers, fresh, boundVars>>

Store(r, c) ==
  /\ <<r, c>> \in pipeM /\ \A e \in fresh : e[1] # r
  /\ pipeM' = pipeM \ {<<r, c>>}
  /\ store' = store \cup {r}
  /\ IF r \in store THEN toC' = AckTo(c, r, toC) /\ UNCHANGED fresh
                    ELSE fresh' = fresh \cup {<<r, c>>} /\ UNCHANGED toC
  /\ UNCHANGED <<held, outbox, pending, clientVars, link, hiDone, toM, stale, peers, boundVars>>

Deliver(r, c) ==
  /\ <<r, c>> \in fresh
  /\ fresh' = fresh \ {<<r, c>>}
  /\ toC' = AckTo(c, r, [d \in Client |->
                IF d \in Routed(c) THEN Append(toC[d], Plain("rec", {r})) ELSE toC[d]])
  /\ UNCHANGED <<durableVars, clientVars, link, hiDone, toM, stale, peers, pipeM, boundVars>>

-----------------------------------------------------------------------------
ClientStep(c) ==
  \/ \E r \in Rec : Forward(c, r) \/ CommitRec(c, r)
  \/ Connect(c) \/ ClientDown(c)
  \/ ReceiveHello(c) \/ GreetMirror(c) \/ ReceiveNegr(c) \/ ReceiveRec(c) \/ ReceiveAck(c)
  \/ Retry(c) \/ \E s \in Slot : SendNeg(c, s)

MirrorStep ==
  \/ \E c \in Client : HandleHi(c) \/ HandleNeg(c) \/ HandleWant(c) \/ HandleRec(c) \/ MirrorClose(c)
  \/ \E r \in Rec, c \in Client \cup {Other} : Store(r, c) \/ Deliver(r, c)

System == MirrorStep \/ \E c \in Client : ClientStep(c)

Environment ==
  \/ \E r \in Rec : Arrive(r) \/ \E c \in Client : Write(c, r)
  \/ \E c \in Client : Break(c) \/ Reload(c)
  \/ \E c \in Client, s \in Slot : Timeout(c, s)
  \/ MirrorRestart

Next == System \/ Environment

Spec     == Init /\ [][Next]_vars
LiveSpec == Spec /\ WF_vars(System)

-----------------------------------------------------------------------------
(* "a stored local record always has its outbox entry" until a mirror has   *)
(* it (sync.js:361): nobody else would ever get it.                         *)
SentIsMirrored ==
  \A c \in Client, r \in Rec : Author[r] = c /\ r \in held[c] => r \in outbox[c] \cup store

(* A watching client that has been greeted, runs no reconcile and has none  *)
(* pending gets every envelope of the mirror: it holds it, is ingesting it, *)
(* has it on the wire, or the mirror is about to forward it.                *)
Underway(c) ==
  pipe[c] \cup (UNION {m.ids : m \in {f \in Range(toC[c]) : f.t = "rec"}})
          \cup {e[1] : e \in {f \in fresh : f[2] # c}}

NothingMissed ==
  \A c \in Watcher :
    Reaches(c) /\ greet[c] = "done" /\ ~pending[c] => store \subseteq held[c] \cup Underway(c)

(* Every write leaves the outbox in the end, whatever broke on the way.     *)
OutboxDrains == \A c \in Client : <>[](outbox[c] = {})

(* Every watching client ends up with all the mirror has.                   *)
Delivered == <>[](\A c \in Watcher : store \subseteq held[c])
=============================================================================
