--------------------------- MODULE RelayPresence ---------------------------
(***************************************************************************)
(* Who is online, as the relay knows it and as watching Spaces are told    *)
(* (relay.js handleHello, handleWatchPresence, handlePresenceVisibility,   *)
(* the disconnect handler; presence-tracker.js; space.js _livePresence).   *)
(*                                                                         *)
(* A member may be connected twice, from two tabs, and its hello is        *)
(* verified asynchronously: it can be handled after the connection has     *)
(* gone.  A declaration of visibility is verified too, on the chain of the *)
(* connection it came over.                                                *)
(***************************************************************************)
EXTENDS Naturals, Sequences, FiniteSets

CONSTANTS
  Member,     \* identities
  Conn,       \* connections, over all time
  Of,         \* Conn -> Member
  Watching,   \* <<connection, member>>: who may watch whom
  MaxDeclared, \* bound: declarations of visibility
  MaxWatches   \* bound: requests to watch

Nobody == "nobody"
State  == {"on", "off"}
Told   == [who: Member, online: State]
Declaration == [who: Member, public: BOOLEAN, ts: 1..MaxDeclared]

VARIABLES
  conn,      \* Conn -> "new", "open", "closed"
  hello,     \* connections whose hello is being verified
  connOf,    \* PresenceTracker.#peerIdByPub
  memberOn,  \* PresenceTracker.#pubByPeerId
  visible,   \* presenceVisibility
  watchers,  \* presenceWatchers
  pushed,    \* Conn -> pushes on their way to that Space
  live,      \* Conn -> Member -> _livePresence of that Space
  declared,  \* declarations made and not yet handled
  clock,     \* time stamp of the latest declaration
  watches,   \* requests to watch so far
  wished,    \* Member -> what it declared last (history)
  latest,    \* Member -> the connection whose hello was handled last (history)
  current    \* <<conn, member>>: told since the member became visible (history)

vars == <<conn, hello, connOf, memberOn, visible, watchers, pushed, live, declared, clock,
          watches, wished, latest, current>>

-----------------------------------------------------------------------------
(* Plausible bugs in the operators of the next section, for mutation runs. *)

KeptOn(m, c) == memberOn                 \* the older tab keeps its entry
PubAfterDisconnect(c) == Nobody          \* read when the tracker has forgotten
AnyOrder(d) == TRUE                      \* time stamps are not compared
-----------------------------------------------------------------------------
(* setOnline(): the entry of an older connection of m goes. *)
Displaced(m, c) ==
  [d \in Conn |-> IF d = connOf[m] /\ d # c THEN Nobody ELSE memberOn[d]]

(* The member the disconnect handler names, read before the tracker forgets. *)
Leaver(c) == memberOn[c]

(* handlePresenceVisibility(): only a newer declaration counts. *)
Newer(d) == d.ts > visible[d.who].ts

Push(m, on) == [who |-> m, online |-> IF on THEN "on" ELSE "off"]

-----------------------------------------------------------------------------
TypeOK ==
  /\ conn \in [Conn -> {"new", "open", "closed"}] /\ hello \subseteq Conn
  /\ connOf \in [Member -> Conn \cup {Nobody}]
  /\ memberOn \in [Conn -> Member \cup {Nobody}]
  /\ visible \in [Member -> [public: BOOLEAN, ts: 0..MaxDeclared]]
  /\ watchers \in [Member -> SUBSET Conn]
  /\ \A c \in Conn : \A i \in DOMAIN pushed[c] : pushed[c][i] \in Told
  /\ live \in [Conn -> [Member -> State \cup {"unknown"}]]
  /\ declared \subseteq Declaration /\ clock \in 0..MaxDeclared /\ watches \in 0..MaxWatches
  /\ wished \in [Member -> BOOLEAN]
  /\ latest \in [Member -> Conn \cup {Nobody}] /\ current \subseteq Conn \X Member

Init ==
  /\ conn = [c \in Conn |-> "new"] /\ hello = {}
  /\ connOf = [m \in Member |-> Nobody] /\ memberOn = [c \in Conn |-> Nobody]
  /\ visible = [m \in Member |-> [public |-> FALSE, ts |-> 0]]
  /\ watchers = [m \in Member |-> {}]
  /\ pushed = [c \in Conn |-> <<>>]
  /\ live = [c \in Conn |-> [m \in Member |-> "unknown"]]
  /\ declared = {} /\ clock = 0 /\ watches = 0
  /\ wished = [m \in Member |-> FALSE]
  /\ latest = [m \in Member |-> Nobody] /\ current = {}

Online(m) == connOf[m] # Nobody

(* broadcastLivePresence(); what is sent to a closed connection goes nowhere. *)
Broadcast(m, on) ==
  LET ws == IF visible[m].public THEN watchers[m] ELSE {}
  IN  /\ pushed' = [c \in Conn |-> IF c \in ws /\ conn[c] = "open"
                                   THEN Append(pushed[c], Push(m, on)) ELSE pushed[c]]
      /\ current' = current \cup {<<c, m>> : c \in ws}

-----------------------------------------------------------------------------
Open(c) ==
  /\ conn[c] = "new" /\ conn' = [conn EXCEPT ![c] = "open"]
  /\ hello' = hello \cup {c}
  /\ UNCHANGED <<connOf, memberOn, visible, watchers, pushed, live, declared, clock,
                 wished, latest, current, watches>>

(* The signature is verified; the connection may have closed meanwhile. *)
HandleHello(c) ==
  /\ c \in hello /\ hello' = hello \ {c}
  /\ connOf' = [connOf EXCEPT ![Of[c]] = c]
  /\ memberOn' = [Displaced(Of[c], c) EXCEPT ![c] = Of[c]]
  /\ latest' = [latest EXCEPT ![Of[c]] = c]
  /\ Broadcast(Of[c], TRUE)
  /\ UNCHANGED <<conn, visible, watchers, live, declared, clock, watches, wished>>

Disconnect(c) ==
  /\ conn[c] = "open" /\ conn' = [conn EXCEPT ![c] = "closed"]
  /\ connOf' = [m \in Member |-> IF memberOn[c] = m THEN Nobody ELSE connOf[m]]
  /\ memberOn' = [memberOn EXCEPT ![c] = Nobody]
  /\ watchers' = [m \in Member |-> watchers[m] \ {c}]
  /\ LET m == Leaver(c)
         ws == IF m # Nobody /\ visible[m].public THEN watchers[m] ELSE {}
     IN  pushed' = [d \in Conn |-> IF d = c THEN <<>>
                      ELSE IF d \in ws /\ conn[d] = "open" THEN Append(pushed[d], Push(m, FALSE))
                      ELSE pushed[d]]
  /\ current' = {e \in current : e[1] # c}
  /\ UNCHANGED <<hello, visible, live, declared, clock, wished, latest, watches>>

Watch(c, m) ==
  /\ conn[c] = "open" /\ c \notin watchers[m] /\ <<c, m>> \in Watching
  /\ watches < MaxWatches /\ watches' = watches + 1
  /\ watchers' = [watchers EXCEPT ![m] = @ \cup {c}]
  /\ IF visible[m].public
     THEN /\ pushed' = [pushed EXCEPT ![c] = Append(@, Push(m, Online(m)))]
          /\ current' = current \cup {<<c, m>>}
     ELSE UNCHANGED <<pushed, current>>
  /\ UNCHANGED <<conn, hello, connOf, memberOn, visible, live, declared, clock, wished, latest>>

Unwatch(c, m) ==
  /\ conn[c] = "open" /\ c \in watchers[m]
  /\ watchers' = [watchers EXCEPT ![m] = @ \ {c}]
  /\ current' = current \ {<<c, m>>}
  /\ UNCHANGED <<conn, hello, connOf, memberOn, visible, pushed, live, declared, clock, wished, latest, watches>>

(* declareOnlineVisibility(), on any device of m. *)
Declare(m, public) ==
  /\ clock < MaxDeclared /\ clock' = clock + 1
  /\ declared' = declared \cup {[who |-> m, public |-> public, ts |-> clock + 1]}
  /\ wished' = [wished EXCEPT ![m] = public]
  /\ UNCHANGED <<conn, hello, connOf, memberOn, visible, watchers, pushed, live, latest, current, watches>>

(* Those of one identity may be handled in either order.  Watchers are not told. *)
HandleVisibility(d) ==
  /\ d \in declared /\ declared' = declared \ {d}
  /\ IF Newer(d)
     THEN /\ visible' = [visible EXCEPT ![d.who] = [public |-> d.public, ts |-> d.ts]]
          /\ current' = IF d.public THEN current ELSE {e \in current : e[2] # d.who}
     ELSE UNCHANGED <<visible, current>>
  /\ UNCHANGED <<conn, hello, connOf, memberOn, watchers, pushed, live, clock, wished, latest, watches>>

(* presence-online, presence-offline at the watching Space. *)
Receive(c) ==
  /\ pushed[c] # <<>> /\ pushed' = [pushed EXCEPT ![c] = Tail(@)]
  /\ live' = [live EXCEPT ![c][Head(pushed[c]).who] = Head(pushed[c]).online]
  /\ UNCHANGED <<conn, hello, connOf, memberOn, visible, watchers, declared, clock,
                 wished, latest, current, watches>>

Next ==
  \/ \E c \in Conn : Open(c) \/ HandleHello(c) \/ Disconnect(c) \/ Receive(c)
  \/ \E c \in Conn, m \in Member : Watch(c, m) \/ Unwatch(c, m)
  \/ \E m \in Member, public \in BOOLEAN : Declare(m, public)
  \/ \E d \in declared : HandleVisibility(d)

Spec == Init /\ [][Next]_vars

-----------------------------------------------------------------------------
(***************************************************************************)
(* A Space that watches a member and has been told of it since it is       *)
(* visible has, once its queue is empty, the same answer as the relay, in  *)
(* whatever order tabs open and close around it.                           *)
(***************************************************************************)
WatchersAgree ==
  \A c \in Conn, m \in Member :
    <<c, m>> \in current /\ pushed[c] = <<>> => (live[c][m] = "on") = Online(m)

(* Closing an older tab does not set a member offline that has a newer one. *)
NewestTabCounts ==
  \A m \in Member : \A c \in Conn : latest[m] = c /\ conn[c] = "open" => connOf[m] = c

(***************************************************************************)
(* In whatever order a member's declarations are verified, with all of     *)
(* them handled the relay goes by the one made last: a member that has     *)
(* withdrawn is not shown.                                                 *)
(***************************************************************************)
LastDeclarationCounts ==
  \A m \in Member : (\A d \in declared : d.who # m) => visible[m].public = wished[m]
=============================================================================
