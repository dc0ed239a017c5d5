----------------------------- MODULE SpaceCache -----------------------------
(***************************************************************************)
(* How the callers of one Space share its Nodes: reference counts, the     *)
(* warm cache, hydration from the Space's own storage, what becomes of a   *)
(* local write, and the snapshots that replace a Node's log (space.js      *)
(* useNode, _releaseNode, _goWarm, _evictWarmOverCap, _teardownWarmNode,   *)
(* unsubscribeNode, _hydrateFromStorage, _handleLocalUpdate, compactNode,  *)
(* the envelope branch of _handleIncoming).                                *)
(*                                                                         *)
(* A Y.Doc is told from the next one of the same id by a generation.  What *)
(* the relay makes of subscribe and unsubscribe is NodeSync's subject, and *)
(* so is what it sends; of that, only another Space's snapshots matter     *)
(* here, because they take writes out of this Space's storage.             *)
(***************************************************************************)
EXTENDS SequencesExt

CONSTANTS
  Id,        \* Nodes
  Group,     \* those of them that are group Nodes
  Used,      \* bound: those of them that are used
  WrittenTo, \* bound: those of them that are written to and compacted
  Caller,    \* callers of useNode()
  WarmCaps,  \* settings of maxWarmNodes to consider; warmNodeTTL = 0 is 0 here
  MaxGens,   \* bound: Y.Docs built for one id, over all time
  MaxRefs,   \* bound: references counted; those of a group Node only grow
  MaxWrites, \* bound: local writes
  MaxFails,  \* bound: storage that fails to load
  MaxCrashes \* bound: processes that stop
\* bound: one compactNode() at a time (see snaps)

ASSUME BoundsAssumption ==
  /\ MaxGens \in Nat /\ MaxRefs \in Nat /\ MaxWrites \in Nat
  /\ MaxFails \in Nat /\ MaxCrashes \in Nat
  /\ Group \subseteq Id /\ Used \subseteq Id /\ WrittenTo \subseteq Id
  /\ WarmCaps \subseteq Nat /\ IsFiniteSet(Caller)

None == 0
Idle == [step |-> "idle", id |-> None, gen |-> 0]
Call ==
  [step: {"hydrating", "applying", "asking", "held"}, id: Id, gen: 1..MaxGens] \cup {Idle}

(* A snapshot of a Node under way: one being sealed for storage, or one    *)
(* received, whose envelope is opened before it is applied and stored.     *)
NoSnap == [step |-> "none", id |-> None, gen |-> 0, covers |-> {}]
Snap ==
  [step: {"opening", "replacing"}, id: Id, gen: 1..MaxGens, covers: SUBSET (1..MaxWrites)]
    \cup {NoSnap}

VARIABLES
  cap,     \* maxWarmNodes
  node,    \* id -> generation of the attached Y.Doc, 0: none (_nodes)
  gens,    \* id -> generations built so far
  skip,    \* id -> _skipReSeal of the attached one
  refs,    \* _refCounts
  warm,    \* _warmSince, in insertion order
  timers,  \* ids that have a warm timer
  call,    \* user -> its useNode() call or the handle it holds
  writes,  \* write -> what has become of it
  at,      \* write -> its Node
  doc,     \* id -> writes the attached Y.Doc has
  log,     \* id -> writes that replaying its log in storage gives
  snaps,   \* the compactNode() under way, and the snapshot _handleIncoming() is at
  fails, crashes

(* History, read by the properties only. *)
VARIABLES
  leaked,  \* id -> useNode() calls of this process that failed and still count
  raced    \* writes that a snapshot of their Node may leave out (see SentIsStored)

cacheVars == <<cap, node, gens, skip, refs, warm, timers, call, leaked>>
writeVars == <<writes, at, doc, log, snaps, raced>>
vars == <<cacheVars, writeVars, fails, crashes>>

(* The writes made to a Node so far. *)
WritesTo(id) == {w \in 1..MaxWrites : at[w] = id}

UnderWay(id) == \E k \in DOMAIN snaps : snaps[k] # NoSnap /\ snaps[k].id = id

(* The sequence without x, which it has once or not at all. *)
Removed(s, x) ==
  IF Contains(s, x) THEN RemoveAt(s, CHOOSE i \in 1..Len(s) : s[i] = x) ELSE s

-----------------------------------------------------------------------------
(* Plausible bugs in the operators of the next section, for mutation runs. *)

TimerKept(id) == timers                        \* re-acquiring leaves the timer
SentFirst(w) == "sealing"                      \* sent while the append is pending
NotEvicted(s) == <<>>                          \* no cap on warm Nodes
-----------------------------------------------------------------------------
(* useNode(): the timer a warm Node's next user clears. *)
TimersCleared(id) == timers \ {id}

(* _goWarm(): the timer it arms. *)
TimersArmed(id) == timers \cup {id}

(* _evictWarmOverCap(): the oldest, until the cap is met. *)
OverCap(s) == IF Len(s) > cap THEN SubSeq(s, 1, Len(s) - cap) ELSE <<>>

(* _handleLocalUpdate(): the state a write must have reached to be sent. *)
SendableAt(w) == "stored"

-----------------------------------------------------------------------------
TypeOK ==
  /\ cap \in WarmCaps /\ node \in [Id -> 0..MaxGens] /\ gens \in [Id -> 0..MaxGens]
  /\ skip \in [Id -> BOOLEAN]
  /\ refs \in [Id -> 0..MaxRefs] /\ leaked \in [Id -> 0..MaxFails]
  /\ warm \in Seq(Id)
  /\ timers \subseteq Id /\ call \in [Caller -> Call]
  /\ writes \in [1..MaxWrites -> {"none", "sealing", "stored", "sent", "unsealed", "gone"}]
  /\ at \in [1..MaxWrites -> Id \cup {None}]
  /\ doc \in [Id -> SUBSET (1..MaxWrites)] /\ log \in [Id -> SUBSET (1..MaxWrites)]
  /\ snaps \in [{"own", "incoming"} -> Snap]
  /\ raced \subseteq 1..MaxWrites
  /\ fails \in 0..MaxFails /\ crashes \in 0..MaxCrashes

Init ==
  /\ cap \in WarmCaps
  /\ node = [id \in Id |-> 0] /\ gens = [id \in Id |-> 0]
  /\ skip = [id \in Id |-> FALSE]
  /\ refs = [id \in Id |-> 0] /\ leaked = [id \in Id |-> 0]
  /\ warm = <<>> /\ timers = {}
  /\ call = [u \in Caller |-> Idle]
  /\ writes = [w \in 1..MaxWrites |-> "none"] /\ at = [w \in 1..MaxWrites |-> None]
  /\ doc = [id \in Id |-> {}] /\ log = [id \in Id |-> {}]
  /\ snaps = [k \in {"own", "incoming"} |-> NoSnap] /\ raced = {}
  /\ fails = 0 /\ crashes = 0

-----------------------------------------------------------------------------
(* useNode() up to its first await.  A warm Node is taken back. *)
UseNode(u, id) ==
  /\ call[u] = Idle /\ refs[id] < MaxRefs
  /\ warm' = Removed(warm, id) /\ timers' = TimersCleared(id)
  /\ refs' = [refs EXCEPT ![id] = @ + 1]
  /\ \/ /\ node[id] = 0 /\ gens[id] < MaxGens
        /\ gens' = [gens EXCEPT ![id] = @ + 1]
        /\ node' = [node EXCEPT ![id] = gens[id] + 1]
        /\ skip' = [skip EXCEPT ![id] = TRUE]
        /\ call' = [call EXCEPT ![u] = [step |-> "hydrating", id |-> id, gen |-> gens[id] + 1]]
     \/ /\ node[id] # 0                \* as it is, or after a fresh subscribe
        /\ \E s \in {"held", "asking"} :
             call' = [call EXCEPT ![u] = [step |-> s, id |-> id, gen |-> node[id]]]
        /\ UNCHANGED <<node, gens, skip>>
  /\ UNCHANGED <<cap, leaked, writeVars, fails, crashes>>

(* _hydrateFromStorage(): the log has been read, and is being applied.     *)
(* What a former Y.Doc was given and is still being sealed is not in it.   *)
ReadLog(u) ==
  /\ call[u].step = "hydrating" /\ call' = [call EXCEPT ![u].step = "applying"]
  /\ LET id == call[u].id
     IN  /\ doc' = [doc EXCEPT ![id] = @ \cup log[id]]
         /\ raced' = raced \cup {w \in WritesTo(id) : writes[w] = "sealing"}
  /\ UNCHANGED <<cap, node, gens, skip, refs, warm, timers, leaked,
                 writes, at, log, snaps, fails, crashes>>

(* All of it is applied; the subscribe request is signed. *)
Hydrated(u) ==
  /\ call[u].step = "applying"
  /\ skip' = [skip EXCEPT ![call[u].id] = FALSE]
  /\ call' = [call EXCEPT ![u].step = "asking"]
  /\ UNCHANGED <<cap, node, gens, refs, warm, timers, leaked, writeVars, fails, crashes>>

(* useNode() rejects: the count stays, and so does the half-built Node. *)
LoadFails(u) ==
  /\ call[u].step \in {"hydrating", "applying"} /\ fails < MaxFails /\ fails' = fails + 1
  /\ call' = [call EXCEPT ![u] = Idle]
  /\ leaked' = [leaked EXCEPT ![call[u].id] = @ + 1]
  /\ UNCHANGED <<cap, node, gens, skip, refs, warm, timers, writeVars, crashes>>

Resolve(u) ==
  /\ call[u].step = "asking" /\ call' = [call EXCEPT ![u].step = "held"]
  /\ UNCHANGED <<cap, node, gens, skip, refs, warm, timers, leaked, writeVars, fails, crashes>>

(* unsubscribeNode() of the ids of a set. *)
Detached(ids) ==
  /\ node' = [id \in Id |-> IF id \in ids THEN 0 ELSE node[id]]
  /\ doc' = [id \in Id |-> IF id \in ids THEN {} ELSE doc[id]]

(* release(): a group Node is kept whatever the count. *)
Release(u) ==
  /\ call[u].step = "held" /\ call' = [call EXCEPT ![u] = Idle]
  /\ LET id == call[u].id
         grown == Append(Removed(warm, id), id)
         evicted == OverCap(grown)
         last == refs[id] <= 1
         gone == {x \in Id : Contains(evicted, x)}
     IN  IF id \in Group THEN UNCHANGED <<node, doc, refs, warm, timers>>
         ELSE /\ refs' = [refs EXCEPT ![id] = IF last THEN 0 ELSE @ - 1]
              /\ IF last
                 THEN /\ warm' = SubSeq(grown, Len(evicted) + 1, Len(grown))
                      /\ timers' = (IF id \in gone THEN timers ELSE TimersArmed(id)) \ gone
                      /\ Detached(gone)
                 ELSE UNCHANGED <<node, doc, warm, timers>>
  /\ UNCHANGED <<cap, gens, skip, leaked, writes, at, log, snaps, raced, fails, crashes>>

(* The warm timer: _teardownWarmNode(). *)
Expire(id) ==
  /\ id \in timers
  /\ timers' = timers \ {id} /\ warm' = Removed(warm, id)
  /\ Detached({id})
  /\ UNCHANGED <<cap, gens, skip, refs, call, leaked, writes, at, log, snaps, raced,
                 fails, crashes>>

-----------------------------------------------------------------------------
(* A write through a handle, _handleLocalUpdate() up to its first await. *)
Write(u, w) ==
  /\ call[u].step = "held" /\ call[u].id \in WrittenTo /\ writes[w] = "none"
  /\ \A v \in 1 .. w - 1 : writes[v] # "none"
  /\ LET id == call[u].id
     IN  /\ at' = [at EXCEPT ![w] = id]
         /\ writes' = [writes EXCEPT ![w] =
              IF skip[id] /\ node[id] = call[u].gen THEN "unsealed" ELSE "sealing"]
         /\ doc' = [doc EXCEPT ![id] = IF node[id] = call[u].gen THEN @ \cup {w} ELSE @]
         /\ raced' = IF UnderWay(id) THEN raced \cup {w} ELSE raced
  /\ UNCHANGED <<cacheVars, log, snaps, fails, crashes>>

(* append() of the sealed envelope returns. *)
Store(w) ==
  /\ writes[w] = "sealing" /\ writes' = [writes EXCEPT ![w] = "stored"]
  /\ log' = [log EXCEPT ![at[w]] = @ \cup {w}]
  /\ UNCHANGED <<cacheVars, at, doc, snaps, raced, fails, crashes>>

Send(w) ==
  /\ writes[w] = SendableAt(w) /\ writes' = [writes EXCEPT ![w] = "sent"]
  /\ UNCHANGED <<cacheVars, at, doc, log, snaps, raced, fails, crashes>>

(* compactNode(): the Y.Doc is encoded at once, whether or not all of its  *)
(* log has been applied, and sealed before it replaces the log.            *)
Encode(id) ==
  /\ node[id] # 0 /\ snaps["own"] = NoSnap
  /\ \E covered \in SUBSET doc[id] :
       /\ skip[id] \/ covered = doc[id]
       /\ snaps' = [snaps EXCEPT !["own"] =
            [step |-> "replacing", id |-> id, gen |-> node[id], covers |-> covered]]
       /\ raced' = IF skip[id] THEN raced \cup (WritesTo(id) \ covered) ELSE raced
  /\ UNCHANGED <<cacheVars, writes, at, doc, log, fails, crashes>>

(* _handleIncoming() of another Space's snapshot, of which the relay may   *)
(* have sent any of this Space's writes before it was made.                *)
Receive(id) ==
  /\ node[id] # 0 /\ snaps["incoming"] = NoSnap
  /\ \E covered \in SUBSET {w \in WritesTo(id) : writes[w] = "sent"} :
       /\ snaps' = [snaps EXCEPT !["incoming"] =
            [step |-> "opening", id |-> id, gen |-> node[id], covers |-> covered]]
       /\ raced' = raced \cup (WritesTo(id) \ covered)
  /\ UNCHANGED <<cacheVars, writes, at, doc, log, fails, crashes>>

(* ... is applied to the Y.Doc found when it came, attached still or not. *)
Apply ==
  /\ snaps["incoming"].step = "opening"
  /\ LET s == snaps["incoming"]
     IN  doc' = IF node[s.id] = s.gen THEN [doc EXCEPT ![s.id] = @ \cup s.covers] ELSE doc
  /\ snaps' = [snaps EXCEPT !["incoming"].step = "replacing"]
  /\ UNCHANGED <<cacheVars, writes, at, log, raced, fails, crashes>>

(* storage.replace() returns, for either kind. *)
Replace(k) ==
  /\ snaps[k].step = "replacing"
  /\ log' = [log EXCEPT ![snaps[k].id] = snaps[k].covers]
  /\ snaps' = [snaps EXCEPT ![k] = NoSnap]
  /\ UNCHANGED <<cacheVars, writes, at, doc, raced, fails, crashes>>

(* The process stops: storage stays, and what has been sent is out. *)
Crash ==
  /\ crashes < MaxCrashes /\ crashes' = crashes + 1
  /\ node' = [id \in Id |-> 0] /\ skip' = [id \in Id |-> FALSE]
  /\ refs' = [id \in Id |-> 0] /\ leaked' = [id \in Id |-> 0]
  /\ warm' = <<>> /\ timers' = {}
  /\ call' = [u \in Caller |-> Idle]
  /\ writes' = [w \in 1..MaxWrites |->
       IF writes[w] \in {"none", "sent"} THEN writes[w] ELSE "gone"]
  /\ doc' = [id \in Id |-> {}] /\ snaps' = [k \in {"own", "incoming"} |-> NoSnap]
  /\ UNCHANGED <<cap, gens, at, log, raced, fails>>

Next ==
  \/ \E u \in Caller, id \in Used : UseNode(u, id)
  \/ \E u \in Caller : ReadLog(u) \/ Hydrated(u) \/ LoadFails(u) \/ Resolve(u) \/ Release(u)
  \/ \E u \in Caller, w \in 1..MaxWrites : Write(u, w)
  \/ \E w \in 1..MaxWrites : Store(w) \/ Send(w)
  \/ \E id \in Id : Expire(id)
  \/ \E id \in WrittenTo : Encode(id) \/ Receive(id)
  \/ Apply
  \/ \E k \in {"own", "incoming"} : Replace(k)
  \/ Crash

Spec == Init /\ [][Next]_vars

-----------------------------------------------------------------------------
(***************************************************************************)
(* "Independent call sites can each useNode()/release() without racing     *)
(* each other's unsubscribe" (space.js:1083): the Y.Doc a caller holds is  *)
(* the one its Space feeds, whatever others release, whichever timer fires *)
(* and whatever the cap evicts.                                            *)
(***************************************************************************)
HeldIsAttached == \A u \in Caller : call[u] # Idle => node[call[u].id] = call[u].gen

(***************************************************************************)
(* Nothing stays subscribed for nobody: for an attached Node there is a    *)
(* caller that holds its handle or awaits it, or it is warm, within the    *)
(* cap, with a timer that will end it.  Two kinds of Node are excepted:    *)
(* group Nodes, which stay by design, and one whose load has failed in     *)
(* this process: useNode() has counted a caller it then throws at          *)
(* (space.js:1103-1109), so the count never comes down and nothing frees   *)
(* the Node.                                                               *)
(***************************************************************************)
FreedOrWarm ==
  /\ Len(warm) <= cap
  /\ \A id \in Id \ Group :
       node[id] # 0 /\ leaked[id] = 0 =>
         \/ \E u \in Caller : call[u] # Idle /\ call[u].id = id
         \/ Contains(warm, id) /\ id \in timers

(***************************************************************************)
(* A process that stops between two steps of a write never leaves others   *)
(* with an update its own author has lost: what was sent is in the log the *)
(* next Space hydrates from, through releases, reloads and the snapshots   *)
(* that replace that log.  Not so for a write made while a snapshot of its *)
(* Node is under way, one still being sealed when a later Y.Doc of its     *)
(* Node reads the log, and one left out by the snapshot of a Y.Doc that is *)
(* not loaded or of another Space: those are `raced`.                      *)
(***************************************************************************)
SentIsStored ==
  \A w \in 1..MaxWrites : writes[w] = "sent" /\ w \notin raced => w \in log[at[w]]
=============================================================================
