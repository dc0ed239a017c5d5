---------------------------- MODULE WriteAccess ----------------------------
(***************************************************************************)
(* Who may write a Node, decided twice: by the relay before it mirrors and *)
(* forwards an envelope, and again by every Space that receives it         *)
(* (relay.js handleGrant, buildWriteAcl, handleWrite, addMember,           *)
(* removeMember, handleSubscribe; space.js _isAuthorizedWriter,            *)
(* _applyGrant, _handleIncoming, _hydrateFromStorage).                     *)
(*                                                                         *)
(* One Node, under one of three write ACLs.  A grant must be known wherever*)
(* a write is checked before that write arrives: a refused envelope is not *)
(* asked for again, and Yjs holds back whatever depends on it.             *)
(*                                                                         *)
(* Signatures verify.  handleWrite() is one step here; what happens        *)
(* between its check, the mirror and the forward is NodeSync's subject.    *)
(***************************************************************************)
EXTENDS Naturals, Sequences, FiniteSets

CONSTANTS
  Peer,        \* identities, each with one Space
  Reader,      \* those of them that use the Node, and may reload
  Owner,       \* the identity the Node's id commits to
  Modes,       \* the write ACLs to consider: "content", "named", "members"
  MaxWrites,   \* bound: writes
  MaxGrants,   \* bound: grants
  MaxLeaves,   \* bound: members removed
  MaxReloads,  \* bound: Spaces that reload
  MaxRestarts, \* bound: restarts of the relay
  MaxFails,    \* bound: appends of a grant that fail
  MaxEvents    \* bound: all of these together

Write == [by: Peer, n: 1..MaxWrites, early: BOOLEAN]
NoOne == "no one"

Msg == [t: {"grant", "member-left", "write", "subscribe", "sync-ack"},
        who: Peer \cup {NoOne}, w: SUBSET Write]
Control(type, who) == [t |-> type, who |-> who, w |-> {}]
WriteMsg(w) == [t |-> "write", who |-> NoOne, w |-> {w}]

VARIABLES
  mode,      \* acl.write of the Node's Kind
  granted,   \* the relay's `grants`, in memory
  grantLog,  \* grant:<nodeId> in its storage
  members,   \* its memberPubs
  log,       \* its mirror of the Node
  subs,      \* its subscribers
  chain,     \* peer -> messages of its connection not yet handled
  step,      \* peer -> where the head of its chain has got to
  known,     \* Space -> _grants
  mates,     \* Space -> _members
  doc,       \* Space -> writes in its Y.Doc
  disk,      \* Space -> its own storage
  inbox,     \* Space -> _incomingQueue
  asked,     \* Space -> its subscribe request has been sent, or answered
  refusals,  \* appends that failed (history)
  count      \* the counters of the bounds

relayVars == <<granted, grantLog, members, log, subs>>
spaceVars == <<known, mates, doc, disk>>
wireVars  == <<chain, step, inbox, asked>>
vars == <<mode, relayVars, spaceVars, wireVars, refusals, count>>

Total == count.writes + count.grants + count.leaves + count.reloads + count.restarts
May(kind, max) == count[kind] < max /\ Total < MaxEvents
Counted(kind) == count' = [count EXCEPT ![kind] = @ + 1]

-----------------------------------------------------------------------------
(* Plausible bugs in the operators of the next section, for mutation runs. *)

EnvelopesFirst(p) == {}                \* the replay leaves the grants out
MeantForAll(p) == Peer \cup {NoOne}    \* mistyped grants
-----------------------------------------------------------------------------
(* buildWriteAcl() and _isAuthorizedWriter(): the two are the same function *)
(* of the grants and the members each side knows.                           *)
Authorized(p, grants, pubs) ==
  \/ mode = "members" /\ p \in pubs
  \/ mode = "named" /\ (p = Owner \/ p \in grants)
  \/ mode = "content" /\ p \in grants

(* handleSubscribe(): the grants a new subscriber is sent. *)
Replayed(p) == grantLog

-----------------------------------------------------------------------------
TypeOK ==
  /\ mode \in Modes
  /\ granted \subseteq Peer /\ grantLog \subseteq Peer /\ members \subseteq Peer
  /\ log \subseteq Write /\ subs \subseteq Peer
  /\ \A p \in Peer :
       /\ known[p] \subseteq Peer /\ mates[p] \subseteq Peer
       /\ doc[p] \subseteq Write /\ disk[p] \subseteq Write
       /\ \A i \in DOMAIN chain[p] : chain[p][i] \in Msg
       /\ \A i \in DOMAIN inbox[p] : inbox[p][i] \in Msg
       /\ step[p] \in {"head", "append", "grants", "envelopes"}
       /\ asked[p] \in {"no", "yes", "answered"}

Init ==
  /\ mode \in Modes
  /\ granted = {} /\ grantLog = {} /\ members = Peer /\ log = {} /\ subs = {}
  /\ chain = [p \in Peer |-> <<>>] /\ step = [p \in Peer |-> "head"]
  /\ known = [p \in Peer |-> {}] /\ mates = [p \in Peer |-> Peer]
  /\ doc = [p \in Peer |-> {}] /\ disk = [p \in Peer |-> {}]
  /\ inbox = [p \in Peer |-> <<>>] /\ asked = [p \in Peer |-> "no"]
  /\ refusals = 0
  /\ count = [writes |-> 0, grants |-> 0, leaves |-> 0, reloads |-> 0, restarts |-> 0]

Sent(p, m) == chain' = [chain EXCEPT ![p] = Append(@, m)]
Told(ps, m) == [p \in Peer |-> IF p \in ps THEN Append(inbox[p], m) ELSE inbox[p]]

-----------------------------------------------------------------------------
(* The Spaces.  A grant is applied at home at once, then sent. *)
GrantWriter(p) ==
  /\ mode # "members" /\ May("grants", MaxGrants) /\ Counted("grants")
  /\ known' = [known EXCEPT ![Owner] = @ \cup {p}]
  /\ Sent(Owner, Control("grant", p))
  /\ UNCHANGED <<mode, relayVars, mates, doc, disk, step, inbox, asked, refusals>>

(* A local write is not checked; early: its author has not seen its grant. *)
LocalWrite(p) ==
  /\ May("writes", MaxWrites) /\ Counted("writes")
  /\ LET w == [by |-> p, n |-> count.writes + 1, early |-> ~Authorized(p, known[p], mates[p])]
     IN  /\ doc' = [doc EXCEPT ![p] = @ \cup {w}]
         /\ disk' = [disk EXCEPT ![p] = @ \cup {w}]
         /\ Sent(p, WriteMsg(w))
  /\ UNCHANGED <<mode, relayVars, known, mates, step, inbox, asked, refusals>>

Subscribe(p) ==
  /\ p \in Reader /\ asked[p] = "no" /\ asked' = [asked EXCEPT ![p] = "yes"]
  /\ Sent(p, Control("subscribe", NoOne))
  /\ UNCHANGED <<mode, relayVars, spaceVars, step, inbox, refusals, count>>

(* _handleIncoming(), one message at a time. *)
Receive(p) ==
  /\ inbox[p] # <<>>
  /\ inbox' = [inbox EXCEPT ![p] = Tail(@)]
  /\ LET m == Head(inbox[p])
         accepted == {w \in m.w : Authorized(w.by, known[p], mates[p])}
     IN  /\ known' = IF m.t = "grant" THEN [known EXCEPT ![p] = @ \cup {m.who}] ELSE known
         /\ mates' = IF m.t = "member-left" THEN [mates EXCEPT ![p] = @ \ {m.who}] ELSE mates
         /\ doc' = [doc EXCEPT ![p] = @ \cup accepted]
         /\ disk' = [disk EXCEPT ![p] = @ \cup accepted]
         /\ asked' = IF m.t = "sync-ack" THEN [asked EXCEPT ![p] = "answered"] ELSE asked
  /\ UNCHANGED <<mode, relayVars, chain, step, refusals, count>>

(* The page reloads: a new Space, members fetched anew, no grants; the Node *)
(* is hydrated from what the storage holds and this Space may accept.       *)
Reload(p) ==
  /\ p \in Reader /\ May("reloads", MaxReloads) /\ Counted("reloads")
  /\ known' = [known EXCEPT ![p] = {}] /\ mates' = [mates EXCEPT ![p] = members]
  /\ doc' = [doc EXCEPT ![p] = {w \in disk[p] : Authorized(w.by, {}, members)}]
  /\ chain' = [chain EXCEPT ![p] = <<>>] /\ step' = [step EXCEPT ![p] = "head"]
  /\ inbox' = [inbox EXCEPT ![p] = <<>>] /\ asked' = [asked EXCEPT ![p] = "no"]
  /\ subs' = subs \ {p}
  /\ UNCHANGED <<mode, granted, grantLog, members, log, disk, refusals>>

-----------------------------------------------------------------------------
(* The relay: one chain per connection, the chains interleave at each await. *)
Handles(p, type, at) == chain[p] # <<>> /\ Head(chain[p]).t = type /\ step[p] = at
Goto(p, at) == step' = [step EXCEPT ![p] = at] /\ UNCHANGED chain
Done(p) == step' = [step EXCEPT ![p] = "head"] /\ chain' = [chain EXCEPT ![p] = Tail(@)]

HandleGrant(p) ==
  /\ Handles(p, "grant", "head")
  /\ granted' = granted \cup {Head(chain[p]).who}
  /\ Goto(p, "append")
  /\ UNCHANGED <<mode, grantLog, members, log, subs, spaceVars, inbox, asked, refusals, count>>

(* The continuation of append() runs before anybody can have read the grant *)
(* and acted on it: stored and told in one step.                            *)
StoreGrant(p) ==
  /\ Handles(p, "grant", "append") /\ Done(p)
  /\ grantLog' = grantLog \cup {Head(chain[p]).who}
  /\ inbox' = Told(Peer \ {p}, Head(chain[p]))
  /\ UNCHANGED <<mode, granted, members, log, subs, spaceVars, asked, refusals, count>>

(* append() rejects: the chain goes on with the next message. *)
StoreGrantFails(p) ==
  /\ Handles(p, "grant", "append") /\ refusals < MaxFails
  /\ refusals' = refusals + 1 /\ Done(p)
  /\ UNCHANGED <<mode, relayVars, spaceVars, inbox, asked, count>>

HandleWrite(p) ==
  /\ Handles(p, "write", "head") /\ Done(p)
  /\ LET m == Head(chain[p]) IN
       IF Authorized(p, granted, members)
       THEN log' = log \cup m.w /\ inbox' = Told(subs \ {p}, m)
       ELSE UNCHANGED <<log, inbox>>
  /\ UNCHANGED <<mode, granted, grantLog, members, subs, spaceVars, asked, refusals, count>>

(* Subscribed first; then the grants are loaded, then the envelopes. *)
HandleSubscribe(p) ==
  /\ Handles(p, "subscribe", "head")
  /\ subs' = IF mode = "members" /\ p \notin members THEN subs ELSE subs \cup {p}
  /\ IF mode = "members" /\ p \notin members THEN Done(p) ELSE Goto(p, "grants")
  /\ UNCHANGED <<mode, granted, grantLog, members, log, spaceVars, inbox, asked, refusals, count>>

ReplayGrants(p) ==
  /\ Handles(p, "subscribe", "grants") /\ Goto(p, "envelopes")
  /\ \E q \in [1..Cardinality(Replayed(p)) -> Replayed(p)] :
       /\ \A x \in Replayed(p) : \E i \in DOMAIN q : q[i] = x
       /\ inbox' = [inbox EXCEPT ![p] = @ \o [i \in DOMAIN q |-> Control("grant", q[i])]]
  /\ UNCHANGED <<mode, relayVars, spaceVars, asked, refusals, count>>

ReplayEnvelopes(p) ==
  /\ Handles(p, "subscribe", "envelopes") /\ Done(p)
  /\ inbox' = [inbox EXCEPT ![p] = @ \o <<[t |-> "write", who |-> NoOne, w |-> log],
                                          Control("sync-ack", NoOne)>>]
  /\ UNCHANGED <<mode, relayVars, spaceVars, asked, refusals, count>>

(* removeMember(): told to every connected peer. *)
RemoveMember(p) ==
  /\ mode = "members" /\ p \in members /\ May("leaves", MaxLeaves) /\ Counted("leaves")
  /\ members' = members \ {p}
  /\ inbox' = Told(Peer, Control("member-left", p))
  /\ UNCHANGED <<mode, granted, grantLog, log, subs, spaceVars, chain, step, asked, refusals>>

(* Memory is gone, storage stays; every Space connects and subscribes anew. *)
Restart ==
  /\ May("restarts", MaxRestarts) /\ Counted("restarts")
  /\ granted' = {} /\ subs' = {}
  /\ chain' = [p \in Peer |-> <<>>] /\ step' = [p \in Peer |-> "head"]
  /\ inbox' = [p \in Peer |-> <<>>] /\ asked' = [p \in Peer |-> "no"]
  /\ UNCHANGED <<mode, grantLog, members, log, spaceVars, refusals>>

Next ==
  \/ \E p \in Peer :
       \/ GrantWriter(p) \/ LocalWrite(p) \/ Subscribe(p) \/ Receive(p) \/ Reload(p)
       \/ HandleGrant(p) \/ StoreGrant(p) \/ StoreGrantFails(p)
       \/ HandleWrite(p) \/ HandleSubscribe(p) \/ ReplayGrants(p) \/ ReplayEnvelopes(p)
       \/ RemoveMember(p)
  \/ Restart

Spec == Init /\ [][Next]_vars

-----------------------------------------------------------------------------
(* A Space whose subscription has been answered, with nothing in its queue. *)
Settled(p) == asked[p] = "answered" /\ inbox[p] = <<>>

(***************************************************************************)
(* "grant-then-write" is never seen as write-then-grant (grant.js, WRITE-  *)
(* BEFORE-GRANT IS A TRAP): what the relay mirrors of an author who had    *)
(* seen its own grant is in every settled Space, whenever that Space       *)
(* subscribed, and after restarts and reloads.  A grant whose append fails *)
(* is the exception (relay.js:675), and so is a member since removed.      *)
(***************************************************************************)
ReadersAccept ==
  refusals = 0 =>
    \A p \in Peer : Settled(p) =>
      {w \in log : ~w.early /\ w.by \in members \cup {p}} \subseteq doc[p]
=============================================================================
