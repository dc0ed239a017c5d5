----------------------------- MODULE Federation -----------------------------
(***************************************************************************)
(* Relays that federate with an upstream relay by subscribing to it as a   *)
(* client does (space-transport/src/federation.js; relay.js acceptWrite,   *)
(* ingestFederated, handleSubscribe).                                      *)
(*                                                                         *)
(* One Node; every relay has one local user.  The first local subscriber   *)
(* makes a relay subscribe upstream, once; from then on it sends what its  *)
(* own peers write, and takes in what the upstream mirrors or forwards.    *)
(* Links are FIFO; what comes down a link is taken in concurrently, what   *)
(* comes up it is handled one by one.  A user may write a snapshot of what *)
(* it has (compactNode()); a relay that mirrors one drops its log for it.  *)
(* Links that break are left out: a link is never subscribed again         *)
(* (README.md).                                                            *)
(***************************************************************************)
EXTENDS Naturals, SequencesExt

CONSTANTS
  Upstream,    \* the relay the others federate with
  Downstream,  \* those others
  Envelope,    \* envelopes, all authorized everywhere
  Snapshot,    \* those of them that are snapshots
  MaxRestarts  \* bound: restarts of downstream relays

Relay == {Upstream} \cup Downstream
User == "user"
Conn(r) == {User} \cup IF r = Upstream THEN Downstream ELSE {}
Demand == "subscribe"        \* the one frame that is no envelope
NoTask == <<"none", Demand>>

VARIABLES
  log,        \* relay -> its mirror of the Node
  covers,     \* snapshot -> the writes that its author had when making it
  subs,       \* relay -> connections in subscribers
  task,       \* relay -> connection -> what its chain awaits, and for which write
  ingesting,  \* downstream relay -> ingestFederated() calls under way
  federated,  \* downstream relay -> has the Node in federatedNodeIds
  signing,    \* downstream relays whose upstream request is being signed
  up, down,   \* downstream relay -> frames on its link
  written,    \* writes the users have made
  shown,      \* relay -> what its user has
  promised,   \* writes accepted from a user of a federated relay (history)
  crossed,    \* writes a snapshot may overtake without having them (history)
  restarts

linkVars == <<federated, signing, up, down>>
vars ==
  <<log, covers, subs, task, ingesting, linkVars, written, shown, promised, crossed, restarts>>

-----------------------------------------------------------------------------
(* Plausible bugs in the operator of the next section, for mutation runs. *)

OnceAsked(r) == r \in Downstream /\ federated[r] /\ r \notin signing
-----------------------------------------------------------------------------
(* on('relay.write.local'): what the relay's own peers write goes up. *)
Forwards(r) == r \in Downstream /\ federated[r]

-----------------------------------------------------------------------------
Step(s) == {s} \X Envelope
TypeOK ==
  /\ log \in [Relay -> SUBSET Envelope] /\ shown \in [Relay -> SUBSET Envelope]
  /\ covers \in [Snapshot -> SUBSET Envelope]
  /\ \A r \in Relay :
       /\ subs[r] \subseteq Conn(r)
       /\ task[r] \in [Conn(r) ->
                        {NoTask, <<"replay", Demand>>} \cup Step("append") \cup Step("forward")]
  /\ \A r \in Downstream :
       /\ ingesting[r] \subseteq Step("append") \cup Step("forward")
       /\ ToSet(up[r]) \subseteq Envelope \cup {Demand} /\ ToSet(down[r]) \subseteq Envelope
  /\ federated \in [Downstream -> BOOLEAN] /\ signing \subseteq Downstream
  /\ written \subseteq Envelope /\ promised \subseteq written /\ crossed \subseteq written
  /\ restarts \in 0..MaxRestarts

Init ==
  /\ log = [r \in Relay |-> {}] /\ subs = [r \in Relay |-> {}] /\ shown = [r \in Relay |-> {}]
  /\ covers = [s \in Snapshot |-> {}]
  /\ task = [r \in Relay |-> [c \in Conn(r) |-> NoTask]]
  /\ ingesting = [r \in Downstream |-> {}]
  /\ federated = [r \in Downstream |-> FALSE] /\ signing = {}
  /\ up = [r \in Downstream |-> <<>>] /\ down = [r \in Downstream |-> <<>>]
  /\ written = {} /\ promised = {} /\ crossed = {} /\ restarts = 0

Goto(r, c, t) == task' = [task EXCEPT ![r][c] = t]

(* The writes an envelope brings: itself, and what a snapshot covers. *)
Carried(w) == {w} \cup IF w \in Snapshot THEN covers[w] ELSE {}
Content(ws) == UNION {Carried(w) : w \in ws}

(* acceptWrite(): a snapshot replaces the mirror, anything else joins it. *)
Mirrored(mirror, w) == IF w \in Snapshot THEN {w} ELSE mirror \cup {w}

(* An envelope is with a relay that is to mirror it, or on its way to one. *)
UnderWay(w) ==
  \/ \E r \in Relay : \E c \in Conn(r) : task[r][c] \in {<<"append", w>>, <<"forward", w>>}
  \/ \E d \in Downstream :
       Contains(up[d], w) \/ Contains(down[d], w) \/ <<"append", w>> \in ingesting[d]

(* hub.deliverTo(): envelopes ws to the connections cs of r. *)
Delivered(r, cs, ws) ==
  /\ shown' = IF User \in cs THEN [shown EXCEPT ![r] = @ \cup Content(ws)] ELSE shown
  /\ down' = [d \in Downstream |->
                IF r = Upstream /\ d \in cs THEN down[d] \o SetToSeq(ws) ELSE down[d]]

-----------------------------------------------------------------------------
(* The users.  A snapshot covers what its author has, and crosses with     *)
(* every other write; a write crosses with the snapshots under way.        *)
UserWrites(r, w) ==
  /\ task[r][User] = NoTask /\ w \notin written
  /\ written' = written \cup {w} /\ shown' = [shown EXCEPT ![r] = @ \cup {w}]
  /\ covers' = [s \in Snapshot |-> IF s = w THEN shown[r] ELSE covers[s]]
  /\ crossed' = crossed
       \cup (IF w \in Snapshot THEN written \ shown[r] ELSE {})
       \cup (IF \E s \in Snapshot : UnderWay(s) THEN {w} ELSE {})
  /\ Goto(r, User, <<"append", w>>)
  /\ UNCHANGED <<log, subs, ingesting, linkVars, promised, restarts>>

(* handleSubscribe() of connection c: registered, then announced on the bus; *)
(* subscribeUpstream() asks once and signs first.                           *)
Registered(r, c) ==
  /\ subs' = [subs EXCEPT ![r] = @ \cup {c}] /\ Goto(r, c, <<"replay", Demand>>)
  /\ federated' = [d \in Downstream |-> federated[d] \/ d = r]
  /\ signing' = signing \cup {d \in Downstream : d = r /\ ~federated[d]}

UserSubscribes(r) ==
  /\ task[r][User] = NoTask /\ User \notin subs[r]
  /\ Registered(r, User)
  /\ UNCHANGED <<log, covers, ingesting, up, down, written, shown, promised, crossed, restarts>>

AskUpstream(r) ==
  /\ r \in signing /\ signing' = signing \ {r}
  /\ up' = [up EXCEPT ![r] = Append(@, Demand)]
  /\ UNCHANGED <<log, covers, subs, task, ingesting, federated, down, written, shown, promised,
                 crossed, restarts>>

-----------------------------------------------------------------------------
(* acceptWrite() of a peer's write, and the replay of a subscription: what *)
(* comes down with a snapshot may be taken in before it.                   *)
Mirror(r, c, w) ==
  /\ task[r][c] = <<"append", w>> /\ Goto(r, c, <<"forward", w>>)
  /\ log' = [log EXCEPT ![r] = Mirrored(@, w)]
  /\ promised' = IF r \in Downstream /\ federated[r] THEN promised \cup {w} ELSE promised
  /\ UNCHANGED <<covers, subs, ingesting, linkVars, written, shown, crossed, restarts>>

Forward(r, c, w) ==
  /\ task[r][c] = <<"forward", w>> /\ Goto(r, c, NoTask)
  /\ Delivered(r, subs[r] \ {c}, {w})
  /\ up' = [d \in Downstream |-> IF d = r /\ Forwards(r) THEN Append(up[d], w) ELSE up[d]]
  /\ UNCHANGED <<log, covers, subs, ingesting, federated, signing, written, promised, crossed,
                 restarts>>

Replay(r, c) ==
  /\ task[r][c] = <<"replay", Demand>> /\ Goto(r, c, NoTask)
  /\ Delivered(r, {c}, log[r])
  /\ crossed' = IF c = User THEN crossed
                ELSE crossed \cup UNION {written \ Carried(s) : s \in log[r] \cap Snapshot}
  /\ UNCHANGED <<log, covers, subs, ingesting, federated, signing, up, written, promised,
                 restarts>>

-----------------------------------------------------------------------------
(* The link: what comes up is handled as any peer's messages are. *)
HandleUp(d) ==
  /\ up[d] # <<>> /\ task[Upstream][d] = NoTask /\ up' = [up EXCEPT ![d] = Tail(@)]
  /\ IF Head(up[d]) = Demand
     THEN subs' = [subs EXCEPT ![Upstream] = @ \cup {d}] /\ Goto(Upstream, d, <<"replay", Demand>>)
     ELSE UNCHANGED subs /\ Goto(Upstream, d, <<"append", Head(up[d])>>)
  /\ UNCHANGED <<log, covers, ingesting, federated, signing, down, written, shown, promised,
                 crossed, restarts>>

(* What comes down is handed to ingestFederated(), which nobody awaits. *)
HandleDown(d) ==
  /\ down[d] # <<>> /\ down' = [down EXCEPT ![d] = Tail(@)]
  /\ ingesting' = [ingesting EXCEPT ![d] = @ \cup {<<"append", Head(down[d])>>}]
  /\ UNCHANGED <<log, covers, subs, task, federated, signing, up, written, shown, promised,
                 crossed, restarts>>

MirrorFederated(d, w) ==
  /\ <<"append", w>> \in ingesting[d]
  /\ ingesting' = [ingesting EXCEPT ![d] = (@ \ {<<"append", w>>}) \cup {<<"forward", w>>}]
  /\ log' = [log EXCEPT ![d] = Mirrored(@, w)]
  /\ UNCHANGED <<covers, subs, task, linkVars, written, shown, promised, crossed, restarts>>

(* Never sent up again: it has no local author. *)
ForwardFederated(d, w) ==
  /\ <<"forward", w>> \in ingesting[d]
  /\ ingesting' = [ingesting EXCEPT ![d] = @ \ {<<"forward", w>>}]
  /\ Delivered(d, subs[d], {w})
  /\ UNCHANGED <<log, covers, subs, task, federated, signing, up, written, promised, crossed,
                 restarts>>

(* A downstream relay restarts: its mirror stays, its link is a new one; the *)
(* upstream goes on with a write it has begun to accept.                    *)
Restart(d) ==
  /\ restarts < MaxRestarts /\ restarts' = restarts + 1
  /\ subs' = [subs EXCEPT ![d] = {}, ![Upstream] = @ \ {d}]
  /\ task' = [task EXCEPT ![d][User] = NoTask,
                          ![Upstream][d] = IF @[1] = "replay" THEN NoTask ELSE @]
  /\ ingesting' = [ingesting EXCEPT ![d] = {}]
  /\ federated' = [federated EXCEPT ![d] = FALSE] /\ signing' = signing \ {d}
  /\ up' = [up EXCEPT ![d] = <<>>] /\ down' = [down EXCEPT ![d] = <<>>]
  /\ UNCHANGED <<log, covers, written, shown, promised, crossed>>

Next ==
  \/ \E r \in Relay : UserSubscribes(r) \/ \E w \in Envelope : UserWrites(r, w)
  \/ \E r \in Relay : \E c \in Conn(r) :
       Replay(r, c) \/ \E w \in Envelope : Mirror(r, c, w) \/ Forward(r, c, w)
  \/ \E d \in Downstream :
       \/ AskUpstream(d) \/ HandleUp(d) \/ HandleDown(d) \/ Restart(d)
       \/ \E w \in Envelope : MirrorFederated(d, w) \/ ForwardFederated(d, w)

Spec == Init /\ [][Next]_vars

-----------------------------------------------------------------------------
Quiet ==
  /\ signing = {} /\ \A r \in Relay : \A c \in Conn(r) : task[r][c] = NoTask
  /\ \A d \in Downstream : up[d] = <<>> /\ down[d] = <<>> /\ ingesting[d] = {}

(***************************************************************************)
(* "BIDIRECTIONAL once federated" (federation.js:28): with nothing under   *)
(* way, a federated relay has all that its upstream has, and so show its   *)
(* users; and what its users wrote since its first subscriber is upstream, *)
(* unless a restart cut it off on the link.  Not so for a write that a     *)
(* snapshot crosses, replacing a mirror (relay.js:848) which had it: one   *)
(* its author had not seen, one made while a snapshot is under way, and    *)
(* one replayed to a relay together with an older snapshot, because        *)
(* nothing keeps what comes down a link in order.                          *)
(***************************************************************************)
BothDirections ==
  Quiet =>
    /\ \A d \in Downstream :
         federated[d] => Content(log[Upstream]) \ crossed \subseteq Content(log[d])
    /\ \A r \in Relay : User \in subs[r] => Content(log[r]) \subseteq shown[r]
    /\ restarts = 0 => promised \ crossed \subseteq Content(log[Upstream])
=============================================================================
