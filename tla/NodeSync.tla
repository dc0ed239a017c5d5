------------------------------ MODULE NodeSync ------------------------------
(***************************************************************************)
(* Synchronisation of ONE Node between the Spaces of a set of members and  *)
(* one relay with a durable mirror (packages/space-core/src/space.js,      *)
(* packages/space-transport/src/relay.js, ws-client-transport.js,          *)
(* ws-server-hub.js).                                                      *)
(*                                                                         *)
(* The Node's Kind has acl.write 'members' and every peer is a member, so  *)
(* every signature check succeeds; the Spaces run without a storage        *)
(* adapter (storage = null), the relay with a file store.  Membership,     *)
(* grants, presence and local storage are other modules.                   *)
(*                                                                         *)
(* Data: a Yjs update is named by the Y.Doc that produced it (each new     *)
(* Y.Doc draws a fresh clientID, so peer and document number) and its      *)
(* clock.  An envelope is the set of updates its bytes carry and the       *)
(* snapshot flag.  Left out: encryption, notify hints, debug events and    *)
(* the seq of a write-ack (relay.mirrorCount), which nothing reads.        *)
(*                                                                         *)
(* Every await on WebCrypto or on the file system is a step of its own.    *)
(***************************************************************************)
EXTENDS Naturals, Sequences, FiniteSets

CONSTANTS
  Peer,         \* the members, each one Space on one WsClientTransport
  Writer,       \* those of them whose application writes
  MaxReleases,  \* bound: calls of unsubscribeNode() in a behaviour
  MaxWrites,    \* bound: local updates in a behaviour
  MaxCompacts,  \* bound: calls of compactNode() in a behaviour
  MaxDrops,     \* bound: connections lost in a behaviour
  MaxRestarts,  \* bound: restarts of the relay process
  MaxEvents     \* bound: writes, releases, compactions and restarts together

ASSUME WriterAssumption == Writer \subseteq Peer

ASSUME BoundsAssumption ==
  /\ MaxReleases \in Nat /\ MaxWrites \in Nat
  /\ MaxCompacts \in Nat /\ MaxDrops \in Nat /\ MaxRestarts \in Nat
  /\ MaxEvents \in Nat

Update   == [peer: Peer, doc: Nat, clk: Nat]
Envelope == [upds: SUBSET Update, snapshot: BOOLEAN]
NoEnv    == [upds |-> {}, snapshot |-> FALSE]

(***************************************************************************)
(* n is, for subscribe, unsubscribe and sync-ack, the number of the Y.Doc  *)
(* the request was made for, and env.upds of an ack what it acknowledges.  *)
(* Neither is on the wire: no action branches on them, properties do.      *)
(***************************************************************************)
Msg == [t: {"write", "subscribe", "unsubscribe", "sync-ack", "write-ack"},
        env: Envelope, n: Nat]

WriteMsg(e)       == [t |-> "write", env |-> e, n |-> 0]
SubscribeMsg(d)   == [t |-> "subscribe", env |-> NoEnv, n |-> d]
UnsubscribeMsg(d) == [t |-> "unsubscribe", env |-> NoEnv, n |-> d]
SyncAck(us, d)    == [t |-> "sync-ack",
                      env |-> [upds |-> us, snapshot |-> FALSE], n |-> d]
WriteAck(us)      == [t |-> "write-ack",
                      env |-> [upds |-> us, snapshot |-> FALSE], n |-> 0]

(***************************************************************************)
(* A connection: ws-server-hub.js draws a new peerId for every socket.     *)
(* A peer opens a new one only after a drop or a restart of the relay.     *)
(***************************************************************************)
MaxConns == 1 + MaxDrops + MaxRestarts
Conn == Peer \X (1..MaxConns)

Task == [step: {"idle", "load", "replay", "forward"},
         env: Envelope, log: Seq(Envelope), n: Nat]
Idle == [step |-> "idle", env |-> NoEnv, log |-> <<>>, n |-> 0]

VARIABLES
  attached,     \* Space._nodes.has(id)
  docNo,        \* Y.Docs this Space has built for the Node so far
  doc,          \* updates given to the current Y.Doc (integrated or pending)
  written,      \* every local update any Y.Doc has produced (history)
  synced,       \* Space._syncedNodes.has(id)
  pend,         \* messages whose seal or signature is not computed yet
  busy,         \* envelope _handleIncoming() is verifying, with its Y.Doc
  acked,        \* updates whose write-ack this peer has received (history)
  up,           \* the client's socket is OPEN
  conn,         \* number of the client's current connection
  sendQ,        \* WsClientTransport._sendQueue
  inq,          \* frames to the client, and Space._incomingQueue
  sockets,      \* the hub's open sockets
  rq,           \* frames of a connection, and its chain in relay.peerQueues
  task,         \* what that chain is awaiting
  subs,         \* relay.subscribers.get(id)
  mirror,       \* the mirror's log of the Node, in the file store
  releases, compacts, drops, restarts   \* counters of the bounds

spaceVars == <<attached, docNo, doc, written, synced, pend, busy, acked>>
linkVars  == <<up, conn, sendQ, inq>>
relayVars == <<sockets, rq, task, subs, mirror>>
boundVars == <<releases, compacts, drops, restarts>>
Events == Cardinality(written) + releases + compacts + restarts
vars      == <<spaceVars, linkVars, relayVars, boundVars>>

-----------------------------------------------------------------------------
(* What a log, or a sequence of messages, brings a Y.Doc that applies it. *)
Content(log) == UNION {log[i].upds : i \in DOMAIN log}
Carried(q)   == UNION {q[i].env.upds : i \in {j \in DOMAIN q : q[j].t = "write"}}

(* Yjs integrates an update once all earlier ones of its clientID are there. *)
Integrated(us) ==
  {u \in us : \A k \in 1..(u.clk - 1) :
                [peer |-> u.peer, doc |-> u.doc, clk |-> k] \in us}

(* The update the current Y.Doc of p produces next. *)
NextUpdate(p) ==
  {u \in [peer: {p}, doc: {docNo[p]}, clk: 1..MaxWrites] :
     /\ u \notin written
     /\ \A k \in 1..(u.clk - 1) : [peer |-> p, doc |-> docNo[p], clk |-> k] \in written}

Current(p) == <<p, conn[p]>>

(* deliverTo() reaches the client: both ends of the socket are open. *)
Live(c) == c \in sockets /\ up[c[1]] /\ conn[c[1]] = c[2]

NotBusy == [upds |-> {}, doc |-> 0]

-----------------------------------------------------------------------------
(* Plausible bugs in the operators of the next section, for mutation runs. *)

QueueReset(p) == <<>>                        \* the queue is emptied unsent
NeverLogged(log, e) == log                   \* the write is not stored
LoggedAsMessage(log, e) == Append(log, WriteMsg(e))  \* stored with its wrapper
NoResubscription(p) == {}                    \* reconnects without re-subscribing

(* The sync-ack overtakes the envelopes it speaks for. *)
AckedFirst(log, d) ==
  <<SyncAck(Content(log), d)>> \o [i \in 1..Len(log) |-> WriteMsg(log[i])]

(* "Nothing to replay" is not reported. *)
SilentWhenEmpty(log, d) ==
  IF log = <<>> THEN <<>>
  ELSE [i \in 1..Len(log) |-> WriteMsg(log[i])] \o <<SyncAck(Content(log), d)>>

(* A subscriber is not forwarded to while it is being caught up. *)
ForwardedWhenIdle(c) ==
  {q \in Peer : /\ Current(q) \in subs /\ Live(Current(q)) /\ Current(q) # c
                /\ task[Current(q)] = Idle}

-----------------------------------------------------------------------------
(* 'open': the frames the queue is flushed as. *)
Flushed(p) == sendQ[p]

(* The mirror's log once a write is in it: storage.replace() or .append(). *)
Logged(log, e) == IF e.snapshot THEN <<e>> ELSE Append(log, e)

(* What a subscriber is sent: the envelopes in order, the sync-ack last. *)
Replayed(log, d) ==
  [i \in 1..Len(log) |-> WriteMsg(log[i])] \o <<SyncAck(Content(log), d)>>

(* The peers a write from connection c is forwarded to. *)
Forwardees(c) ==
  {q \in Peer : Current(q) \in subs /\ Live(Current(q)) /\ Current(q) # c}

(* _handleTransportStatus(): the requests a fresh connection starts with. *)
Resubscription(p) == IF attached[p] THEN {SubscribeMsg(docNo[p])} ELSE {}

TypeOK ==
  /\ attached \in [Peer -> BOOLEAN]
  /\ docNo \in [Peer -> Nat]
  /\ doc \in [Peer -> SUBSET Update]
  /\ written \subseteq Update
  /\ synced \in [Peer -> BOOLEAN]
  /\ pend \in [Peer -> SUBSET Msg]
  /\ busy \in [Peer -> [upds: SUBSET Update, doc: Nat]]
  /\ acked \in [Peer -> SUBSET Update]
  /\ up \in [Peer -> BOOLEAN]
  /\ conn \in [Peer -> Nat]
  /\ sendQ \in [Peer -> Seq(Msg)]
  /\ inq \in [Peer -> Seq(Msg)]
  /\ sockets \subseteq Conn
  /\ rq \in [Conn -> Seq(Msg)]
  /\ task \in [Conn -> Task]
  /\ subs \subseteq Conn
  /\ mirror \in Seq(Envelope)
  /\ releases \in Nat
  /\ compacts \in Nat
  /\ drops \in Nat
  /\ restarts \in Nat

Init ==
  /\ attached = [p \in Peer |-> FALSE]
  /\ docNo = [p \in Peer |-> 0]
  /\ doc = [p \in Peer |-> {}]
  /\ written = {}
  /\ synced = [p \in Peer |-> FALSE]
  /\ pend = [p \in Peer |-> {}]
  /\ busy = [p \in Peer |-> NotBusy]
  /\ acked = [p \in Peer |-> {}]
  /\ up = [p \in Peer |-> FALSE]
  /\ conn = [p \in Peer |-> 0]
  /\ sendQ = [p \in Peer |-> <<>>]
  /\ inq = [p \in Peer |-> <<>>]
  /\ sockets = {}
  /\ rq = [c \in Conn |-> <<>>]
  /\ task = [c \in Conn |-> Idle]
  /\ subs = {}
  /\ mirror = <<>>
  /\ releases = 0
  /\ compacts = 0
  /\ drops = 0
  /\ restarts = 0

-----------------------------------------------------------------------------
(* The Space: calls of the application. *)

(* subscribeNode(), and createNode() up to its first write. *)
SubscribeNode(p) ==
  /\ ~attached[p]
  /\ attached' = [attached EXCEPT ![p] = TRUE]
  /\ docNo' = [docNo EXCEPT ![p] = @ + 1]
  /\ doc' = [doc EXCEPT ![p] = {}]
  /\ pend' = [pend EXCEPT ![p] = @ \cup {SubscribeMsg(docNo[p] + 1)}]
  /\ UNCHANGED <<written, synced, busy, acked, linkVars, relayVars, boundVars>>

(* unsubscribeNode(): the handle goes at once, the request after signing. *)
UnsubscribeNode(p) ==
  /\ attached[p] /\ releases < MaxReleases /\ Events < MaxEvents
  /\ releases' = releases + 1
  /\ attached' = [attached EXCEPT ![p] = FALSE]
  /\ doc' = [doc EXCEPT ![p] = {}]
  /\ synced' = [synced EXCEPT ![p] = FALSE]
  /\ pend' = [pend EXCEPT ![p] = @ \cup {UnsubscribeMsg(docNo[p])}]
  /\ UNCHANGED <<docNo, written, busy, acked, linkVars, relayVars, compacts,
                 drops, restarts>>

(* A field write: Yjs updates the Y.Doc, _handleLocalUpdate() starts to seal. *)
HandleLocalUpdate(p) ==
  /\ p \in Writer /\ attached[p] /\ Cardinality(written) < MaxWrites /\ Events < MaxEvents
  /\ \E u \in NextUpdate(p) :
       /\ doc' = [doc EXCEPT ![p] = @ \cup {u}]
       /\ written' = written \cup {u}
       /\ pend' = [pend EXCEPT ![p] =
                     @ \cup {WriteMsg([upds |-> {u}, snapshot |-> FALSE])}]
  /\ UNCHANGED <<attached, docNo, synced, busy, acked, linkVars, relayVars, boundVars>>

(* compactNode(): the state is encoded now, the envelope is sealed later. *)
CompactNode(p) ==
  /\ attached[p] /\ compacts < MaxCompacts /\ Events < MaxEvents
  /\ pend' = [pend EXCEPT ![p] =
                @ \cup {WriteMsg([upds |-> doc[p], snapshot |-> TRUE])}]
  /\ compacts' = compacts + 1
  /\ UNCHANGED <<attached, docNo, doc, written, synced, busy, acked,
                 linkVars, relayVars, releases, drops, restarts>>

(***************************************************************************)
(* A seal or a signature is done and transport.send() takes the message.   *)
(* WebCrypto computes concurrent requests in any order.  A frame sent on a *)
(* socket whose other end is gone is lost.                                 *)
(***************************************************************************)
Transmit(p) ==
  \E m \in pend[p] :
    /\ pend' = [pend EXCEPT ![p] = @ \ {m}]
    /\ IF up[p]
         THEN /\ rq' = IF Current(p) \in sockets
                         THEN [rq EXCEPT ![Current(p)] = Append(@, m)]
                         ELSE rq
              /\ UNCHANGED sendQ
         ELSE /\ sendQ' = [sendQ EXCEPT ![p] = Append(@, m)]
              /\ UNCHANGED rq
    /\ UNCHANGED <<attached, docNo, doc, written, synced, busy, acked, up, conn, inq,
                   sockets, task, subs, mirror, boundVars>>

-----------------------------------------------------------------------------
(* The Space: _handleIncoming(), one message at a time in arrival order. *)

Incoming(p, t) ==
  /\ busy[p] = NotBusy
  /\ inq[p] # <<>> /\ Head(inq[p]).t = t
  /\ inq' = [inq EXCEPT ![p] = Tail(@)]

(* The Node is looked up before the await of verifyEnvelope()/openUpdate(). *)
ReceiveEnvelope(p) ==
  /\ Incoming(p, "write")
  /\ busy' = IF attached[p]
               THEN [busy EXCEPT ![p] = [upds |-> Head(inq[p]).env.upds, doc |-> docNo[p]]]
               ELSE busy
  /\ UNCHANGED <<attached, docNo, doc, written, synced, pend, acked,
                 up, conn, sendQ, relayVars, boundVars>>

(* Y.applyUpdate() on the Y.Doc looked up then, attached still or not. *)
ApplyEnvelope(p) ==
  /\ busy[p] # NotBusy
  /\ doc' = IF attached[p] /\ busy[p].doc = docNo[p]
              THEN [doc EXCEPT ![p] = @ \cup busy[p].upds]
              ELSE doc
  /\ busy' = [busy EXCEPT ![p] = NotBusy]
  /\ UNCHANGED <<attached, docNo, written, synced, pend, acked,
                 linkVars, relayVars, boundVars>>

ReceiveSyncAck(p) ==
  /\ Incoming(p, "sync-ack")
  /\ synced' = [synced EXCEPT ![p] = @ \/ attached[p]]
  /\ UNCHANGED <<attached, docNo, doc, written, pend, busy, acked,
                 up, conn, sendQ, relayVars, boundVars>>

ReceiveWriteAck(p) ==
  /\ Incoming(p, "write-ack")
  /\ acked' = [acked EXCEPT ![p] = @ \cup Head(inq[p]).env.upds]
  /\ UNCHANGED <<attached, docNo, doc, written, synced, pend, busy,
                 up, conn, sendQ, relayVars, boundVars>>

-----------------------------------------------------------------------------
(* The link: WsClientTransport on one side, the hub on the other. *)

(* 'open': flush the queue, then _handleTransportStatus() re-subscribes. *)
SocketOpen(p) ==
  /\ ~up[p] /\ conn[p] < MaxConns
  /\ LET c == <<p, conn[p] + 1>>
     IN  /\ sockets' = sockets \cup {c}
         /\ rq' = [rq EXCEPT ![c] = Flushed(p)]
  /\ up' = [up EXCEPT ![p] = TRUE]
  /\ conn' = [conn EXCEPT ![p] = @ + 1]
  /\ sendQ' = [sendQ EXCEPT ![p] = <<>>]
  /\ pend' = [pend EXCEPT ![p] = @ \cup Resubscription(p)]
  /\ UNCHANGED <<attached, docNo, doc, written, synced, busy, acked, inq,
                 task, subs, mirror, boundVars>>

Prefixes(q) == {SubSeq(q, 1, k) : k \in 0..Len(q)}

(* The client's socket closes: in either direction what had not arrived is lost. *)
SocketClose(p) ==
  /\ up[p]
  /\ IF Current(p) \in sockets
       THEN drops < MaxDrops /\ drops' = drops + 1
       ELSE UNCHANGED drops
  /\ up' = [up EXCEPT ![p] = FALSE]
  /\ \E q \in Prefixes(inq[p]) : inq' = [inq EXCEPT ![p] = q]
  /\ \E q \in Prefixes(rq[Current(p)]) : rq' = [rq EXCEPT ![Current(p)] = q]
  /\ UNCHANGED <<spaceVars, conn, sendQ, sockets, task, subs, mirror,
                 releases, compacts, restarts>>

(* The hub sees the close: registerDisconnect()'s handler drops the subscriber. *)
HubClose(c) ==
  /\ c \in sockets /\ ~Live(c)
  /\ sockets' = sockets \ {c}
  /\ subs' = subs \ {c}
  /\ UNCHANGED <<spaceVars, linkVars, rq, task, mirror, boundVars>>

(* The relay process restarts: only the file store survives. *)
RelayRestart ==
  /\ restarts < MaxRestarts /\ Events < MaxEvents
  /\ restarts' = restarts + 1
  /\ sockets' = {}
  /\ rq' = [c \in Conn |-> <<>>]
  /\ task' = [c \in Conn |-> Idle]
  /\ subs' = {}
  /\ UNCHANGED <<spaceVars, linkVars, mirror, releases, compacts, drops>>

-----------------------------------------------------------------------------
(* The relay: the chain of one connection, relay.peerQueues. *)

Dispatch(c, t) ==
  /\ task[c] = Idle
  /\ rq[c] # <<>> /\ Head(rq[c]).t = t
  /\ rq' = [rq EXCEPT ![c] = Tail(@)]

(* handleSubscribe() after QuCrypto.verify(): subscriber first, then load. *)
HandleSubscribe(c) ==
  /\ Dispatch(c, "subscribe")
  /\ subs' = subs \cup {c}
  /\ task' = [task EXCEPT ![c] = [Idle EXCEPT !.step = "load", !.n = Head(rq[c]).n]]
  /\ UNCHANGED <<spaceVars, linkVars, sockets, mirror, boundVars>>

(* nodeStorage.load(nodeId) reads the file. *)
LoadMirror(c) ==
  /\ task[c].step = "load"
  /\ task' = [task EXCEPT ![c].step = "replay", ![c].log = mirror]
  /\ UNCHANGED <<spaceVars, linkVars, sockets, rq, subs, mirror, boundVars>>

(* The loaded envelopes in order, then the sync-ack, in one synchronous run. *)
Replay(c) ==
  /\ task[c].step = "replay"
  /\ inq' = IF Live(c)
              THEN [inq EXCEPT ![c[1]] = @ \o Replayed(task[c].log, task[c].n)]
              ELSE inq
  /\ task' = [task EXCEPT ![c] = Idle]
  /\ UNCHANGED <<spaceVars, up, conn, sendQ, sockets, rq, subs, mirror,
                 boundVars>>

HandleUnsubscribe(c) ==
  /\ Dispatch(c, "unsubscribe")
  /\ subs' = subs \ {c}
  /\ UNCHANGED <<spaceVars, linkVars, sockets, task, mirror, boundVars>>

(* handleWrite()/acceptWrite() up to the write reaching the mirror's file. *)
AcceptWrite(c) ==
  /\ Dispatch(c, "write")
  /\ LET e == Head(rq[c]).env
     IN  /\ mirror' = Logged(mirror, e)
         /\ task' = [task EXCEPT ![c] = [Idle EXCEPT !.step = "forward", !.env = e]]
  /\ UNCHANGED <<spaceVars, linkVars, sockets, subs, boundVars>>

(* acceptWrite() after the await: write-ack, then forward to subscribers. *)
ForwardWrite(c) ==
  /\ task[c].step = "forward"
  /\ LET e      == task[c].env
         ack(q) == IF q = c[1] /\ Live(c) THEN <<WriteAck(e.upds)>> ELSE <<>>
         fwd(q) == IF q \in Forwardees(c) THEN <<WriteMsg(e)>> ELSE <<>>
     IN  inq' = [q \in Peer |-> inq[q] \o ack(q) \o fwd(q)]
  /\ task' = [task EXCEPT ![c] = Idle]
  /\ UNCHANGED <<spaceVars, up, conn, sendQ, sockets, rq, subs, mirror, boundVars>>

-----------------------------------------------------------------------------
SpaceStep(p) ==
  \/ Transmit(p) \/ ReceiveEnvelope(p) \/ ApplyEnvelope(p)
  \/ ReceiveSyncAck(p) \/ ReceiveWriteAck(p)

RelayStep(c) ==
  \/ HandleSubscribe(c) \/ LoadMirror(c) \/ Replay(c)
  \/ HandleUnsubscribe(c) \/ AcceptWrite(c) \/ ForwardWrite(c)

AppStep(p) ==
  \/ SubscribeNode(p) \/ UnsubscribeNode(p) \/ HandleLocalUpdate(p) \/ CompactNode(p)

Next ==
  \/ \E p \in Peer : AppStep(p) \/ SpaceStep(p) \/ SocketOpen(p) \/ SocketClose(p)
  \/ \E c \in Conn : RelayStep(c) \/ HubClose(c)
  \/ RelayRestart

Spec == Init /\ [][Next]_vars

(***************************************************************************)
(* Promises settle, timers fire and frames on an open socket arrive; a     *)
(* closed client reconnects, the hub hears of every close and a client of  *)
(* a relay restart: the system does not stop while it has a step to take.  *)
(* Which one it takes first is left open, and nothing obliges the          *)
(* application to call, a healthy connection to break or the relay to      *)
(* restart.                                                                *)
(***************************************************************************)
SystemStep ==
  \/ \E p \in Peer :
       \/ SpaceStep(p) \/ SocketOpen(p)
       \/ Current(p) \notin sockets /\ SocketClose(p)
  \/ \E c \in Conn : RelayStep(c) \/ HubClose(c)

FairSpec == Spec /\ WF_vars(SystemStep)

-----------------------------------------------------------------------------
(* Properties. *)

(***************************************************************************)
(* acceptWrite() mirrors before it forwards: whatever a Y.Doc holds that   *)
(* it did not produce itself is in the relay's file, so a restart of the   *)
(* relay never leaves a reader ahead of what a later subscriber is told.   *)
(* (Without compaction: compactNode() is allowed to drop it, see README.)  *)
(***************************************************************************)
Foreign(p, u) == u.peer # p \/ u.doc # docNo[p]

RemoteIsMirrored ==
  \A p \in Peer : \A u \in doc[p] : Foreign(p, u) => u \in Content(mirror)

(* A write-ack means durable: no restart or reconnection unmirrors the write. *)
AckedIsMirrored == \A p \in Peer : acked[p] \subseteq Content(mirror)

(***************************************************************************)
(* The Spaces and the relay implement the shared log of SharedLog.tla: the *)
(* mirror is the log and the attached Y.Docs are the replicas.             *)
(***************************************************************************)
BoundedUpdate == [peer: Peer, doc: 1..(MaxReleases + 1), clk: 1..MaxWrites]

Shared == INSTANCE SharedLog WITH
            Update <- BoundedUpdate, log <- Content(mirror), replica <- doc
SharedSpec == Shared!Spec

(* Subscribe and unsubscribe requests of p the relay has not carried out. *)
InRequests(m) == m.t \in {"subscribe", "unsubscribe"}
Outstanding(p) ==
  \/ \E m \in pend[p] : InRequests(m)
  \/ \E i \in DOMAIN rq[Current(p)] : InRequests(rq[Current(p)][i])
  \/ task[Current(p)].step = "load"

(* A Node in use on a working connection whose requests are all answered. *)
Settled(p) ==
  attached[p] /\ conn[p] > 0 /\ Live(Current(p)) /\ ~Outstanding(p)

(***************************************************************************)
(* Once its requests are carried out, a Space that uses the Node is one of *)
(* relay.subscribers: the re-subscription after a drop or a restart is     *)
(* never undone by the teardown of an older connection.                    *)
(***************************************************************************)
AttachedIsSubscribed == \A p \in Peer : Settled(p) => Current(p) \in subs

(* Updates on their way to the current Y.Doc of p. *)
OnTheWay(p) ==
  UNION ({doc[p], Carried(inq[p])}
    \cup {IF busy[p].doc = docNo[p] THEN busy[p].upds ELSE {}}
    \cup {Content(task[Current(p)].log)}
    \cup {task[c].env.upds : c \in {d \in Conn : task[d].step = "forward"}})

(***************************************************************************)
(* The hand-over from catch-up to live forwarding has no gap: subscribing  *)
(* before loading means a write is in the loaded log, or is forwarded, or  *)
(* both, whatever the interleaving of the two connections' chains.         *)
(***************************************************************************)
NoMissedUpdate ==
  \A p \in Peer :
    Settled(p) /\ Current(p) \in subs =>
      {u \in Content(mirror) : u.peer # p} \subseteq OnTheWay(p)

(***************************************************************************)
(* isNodeSynced() tells the truth: when the sync-ack of the request made   *)
(* for this Y.Doc arrives, everything mirrored as of that subscribe is in. *)
(***************************************************************************)
SyncAckComplete ==
  [][\A p \in Peer :
       (ReceiveSyncAck(p) /\ attached[p] /\ Head(inq[p]).n = docNo[p])
         => Head(inq[p]).env.upds \subseteq doc[p]]_vars

(***************************************************************************)
(* What the comments of isNodeSynced() and of the sync-ack case claim: no  *)
(* ack, however late, flags a Y.Doc it does not speak for.                 *)
(***************************************************************************)
SyncFlagHonest ==
  [][\A p \in Peer :
       ReceiveSyncAck(p) /\ attached[p] => Head(inq[p]).env.upds \subseteq doc[p]]_vars

(* The mirror never loses an update it has accepted. *)
MirrorGrows == [][Content(mirror) \subseteq Content(mirror')]_vars

(***************************************************************************)
(* The next three are stated with <>[]: the bounds let the application     *)
(* call, and connections break, finitely often, and what is asked is what  *)
(* holds for good once that is over.                                       *)
(***************************************************************************)
(* What the relay mirrors reaches every user, across a restart of the relay. *)
MirroredReachesUsers ==
  <>[](\A p \in Peer : attached[p] =>
         {u \in Content(mirror) : u.peer # p} \subseteq doc[p])

(* A Space that uses the Node is eventually told that it is synced. *)
EventuallySynced == <>[](\A p \in Peer : attached[p] => synced[p])

(* Every local write is integrated by every Space that uses the Node, as *)
(* long as the relay stays up.                                           *)
WrittenReachesUsers ==
  [](restarts = 0) => <>[](\A p \in Peer : attached[p] => written \subseteq Integrated(doc[p]))

(***************************************************************************)
(* What ws-client-transport.js and the guide (docs/v5-space-core-guide.md, *)
(* 15) say of the send queue: nothing in it is dropped, it waits for the   *)
(* next open.                                                              *)
(***************************************************************************)
QueuedReachesMirror ==
  \A p \in Peer : \A u \in BoundedUpdate :
    u \in Carried(sendQ[p]) ~> u \in Content(mirror)
=============================================================================
