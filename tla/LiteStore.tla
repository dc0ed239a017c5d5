----------------------------- MODULE LiteStore -----------------------------
(***************************************************************************)
(* What ONE member's device stores of one Qu Lite space, and how envelopes *)
(* get in and out of it (packages/lite/src/envelopes.js, records.js,       *)
(* writeset.js, gc.js; who defers, and when it is retried, members.js).    *)
(*                                                                         *)
(* Envelopes arrive in any order, several at a time, more than once, and   *)
(* each is ingested by an asynchronous pipeline of its own that reads the  *)
(* store, awaits, and ends in one atomic batch under the commit lock of    *)
(* the space.  An envelope is a version of a keyed entry, a log entry, or  *)
(* a drop list.  Everybody is honest: a drop list names versions that are  *)
(* superseded, and log entries (compaction.js), with their true authors.   *)
(*                                                                         *)
(* The store survives a restart; pipelines, timers and reindex() do not.   *)
(* Left out: envelopes that are refused and those that change nothing      *)
(* (duplicates), the read cache, forwarding, scrub() and forget().         *)
(***************************************************************************)
EXTENDS Naturals, FiniteSets

CONSTANTS
  Entry,     \* ids of the versions and log entries ever written
  DropList,  \* ids of the drop lists ever written
  Key,       \* paths and keys of keyed entries
  NoKey,     \* the key of a log entry
  None,      \* no id
  KeyOf,     \* Entry -> Key, or NoKey
  Version,   \* Entry -> rank of (hlc, author)
  Deleted,   \* the entries that are tombstones
  Targets,   \* DropList -> the entries it drops
  Unknown,   \* envelopes whose author's membership arrives later, if at all
  Faults     \* whether commits fail and the device restarts

Id == Entry \cup DropList

Newer(e, f) == KeyOf[e] = KeyOf[f] /\ Version[e] > Version[f]

ASSUME IdAssumption ==
  /\ Entry \cap DropList = {}
  /\ None \notin Id /\ NoKey \notin Key
  /\ Unknown \subseteq Id /\ Deleted \subseteq Entry /\ Faults \in BOOLEAN

ASSUME EntryAssumption ==
  /\ KeyOf \in [Entry -> Key \cup {NoKey}]
  /\ Version \in [Entry -> Nat]
  /\ \A e \in Deleted : KeyOf[e] # NoKey
  /\ \A e, f \in Entry : KeyOf[e] = KeyOf[f] /\ Version[e] = Version[f] => e = f

(* compaction.js drops log entries and versions that a newer one replaced. *)
ASSUME TargetAssumption ==
  /\ Targets \in [DropList -> SUBSET Entry]
  /\ \A d \in DropList : \A e \in Targets[d] :
       KeyOf[e] = NoKey \/ \E f \in Entry : Newer(f, e)

Task == [step: {"idle", "targets", "admit", "commit"},
         todo: SUBSET Entry,      \* targets applyDropList() has yet to look at
         drop: SUBSET Entry,      \* targets it will mark gone
         held: SUBSET Entry,      \* those whose envelope it will remove
         defer: BOOLEAN]          \* admit() could not decide yet
Idle == [step |-> "idle", todo |-> {}, drop |-> {}, held |-> {}, defer |-> FALSE]

VARIABLES
  rec,       \* ids of the sealed envelopes held: rec/<sid>/<id>
  sx,        \* sync index: sx/<sid>/<shard>/<ts>-<id>
  gone,      \* entry -> the drop list that dropped it: gone/<sid>/<id>
  head,      \* key -> current version: head/<sid>/...
  loc,       \* loc/<sid>/<id>: not indexed, listed in idx/, or kept unlisted
  deferred,  \* defer/<sid>/<id>
  task,      \* id -> its ingest pipeline
  known,     \* the membership of the authors of Unknown has arrived
  due,       \* members.js: the timer that calls reindex() is set
  queue,     \* reindex(): keys of defer/ it still has to visit
  fetched    \* reindex(): the envelope it has read, waiting for the lock

storeVars == <<rec, sx, gone, head, loc, deferred>>
vars == <<storeVars, task, known, due, queue, fetched>>

-----------------------------------------------------------------------------
(* Plausible bugs in the operators of the next section, for mutation runs. *)

(* The version order is the order of arrival. *)
NeverSuperseded(e) == FALSE

(* index() forgets to demote the version it replaces. *)
NoDemotion(e) == {}

(* unindex() returns early, as demote() does, for a version that is not listed. *)
UnindexedIfListed(drop) ==
  [e \in Entry |-> IF e \in drop /\ loc[e] = "listed" THEN "none" ELSE loc[e]]

(* The drop list that commits while an envelope is in flight is overlooked. *)
NotRechecked(e) == FALSE

(* expire() forgets the markers of the list it removes. *)
NoMarkers(d) == {}

(* loc/ is written with the wrong marker. *)
LocOfHead(e) == "head"

-----------------------------------------------------------------------------
(* index(): a newer version, or the very same, does not lose to itself. *)
Superseded(e) ==
  LET h == head[KeyOf[e]]
  IN  KeyOf[e] # NoKey /\ h # None /\ h # e /\ ~Newer(e, h)

(* demote(): the version e replaces leaves idx/ and keeps its loc/. *)
Demoted(e) ==
  IF KeyOf[e] = NoKey \/ Superseded(e) THEN {}
  ELSE {f \in Entry \ {e} : head[KeyOf[e]] = f /\ loc[f] = "listed"}

LocOf(e) == IF Superseded(e) \/ e \in Deleted THEN "kept" ELSE "listed"

IndexedHead(e) ==
  IF KeyOf[e] = NoKey \/ Superseded(e) THEN head
  ELSE [head EXCEPT ![KeyOf[e]] = e]

IndexedLoc(e) ==
  [f \in Entry |-> IF f = e THEN LocOf(e) ELSE IF f \in Demoted(e) THEN "kept" ELSE loc[f]]

(* unindex(), for each target of a drop list. *)
UnindexedHead(drop) ==
  [k \in Key |-> IF head[k] \in drop /\ loc[head[k]] # "none" THEN None ELSE head[k]]

UnindexedLoc(drop) == [e \in Entry |-> IF e \in drop THEN "none" ELSE loc[e]]

(* The marker is read again inside the commit lock. *)
DroppedMeanwhile(e) == gone[e] # None

(* expire(): the entries that drop list d, and no later one, marked. *)
MarkedBy(d) == {e \in Entry : gone[e] = d}

(* judge(): without the author's membership nothing can be decided. *)
Undecided(i) == i \in Unknown /\ ~known

TypeOK ==
  /\ rec \subseteq Id
  /\ sx \in [Id -> {"none", "held", "dropped"}]
  /\ gone \in [Entry -> DropList \cup {None}]
  /\ head \in [Key -> Entry \cup {None}]
  /\ loc \in [Entry -> {"none", "listed", "kept"}]
  /\ deferred \subseteq Id
  /\ task \in [Id -> Task]
  /\ known \in BOOLEAN
  /\ due \in BOOLEAN
  /\ queue \subseteq Id
  /\ fetched \in Id \cup {None}

Init ==
  /\ rec = {}
  /\ sx = [i \in Id |-> "none"]
  /\ gone = [e \in Entry |-> None]
  /\ head = [k \in Key |-> None]
  /\ loc = [e \in Entry |-> "none"]
  /\ deferred = {}
  /\ task = [i \in Id |-> Idle]
  /\ known = FALSE
  /\ due = FALSE
  /\ queue = {}
  /\ fetched = None

-----------------------------------------------------------------------------
(* ingest(): the pipeline of one envelope. *)

(***************************************************************************)
(* Up to verifyEnvelope(): neither a duplicate nor dropped before.  A      *)
(* second copy waits in inFlight, and then is one or the other.            *)
(***************************************************************************)
IngestEntry(e) ==
  /\ task[e] = Idle /\ e \notin rec /\ gone[e] = None
  /\ task' = [task EXCEPT ![e].step = "admit"]
  /\ UNCHANGED <<storeVars, known, due, queue, fetched>>

IngestDropList(d) ==
  /\ task[d] = Idle /\ d \notin rec
  /\ task' = [task EXCEPT ![d].step = "targets", ![d].todo = Targets[d]]
  /\ UNCHANGED <<storeVars, known, due, queue, fetched>>

(* applyDropList(): one entry, read outside the commit lock. *)
ReadTarget(d, e) ==
  /\ task[d].step = "targets" /\ e \in task[d].todo
  /\ task' = [task EXCEPT
       ![d].todo = @ \ {e},
       ![d].drop = IF gone[e] = None THEN @ \cup {e} ELSE @,
       ![d].held = IF gone[e] = None /\ e \in rec THEN @ \cup {e} ELSE @,
       ![d].step = IF task[d].todo = {e} THEN "admit" ELSE @]
  /\ UNCHANGED <<storeVars, known, due, queue, fetched>>

(* emit('qu.envelope.stored'): admit() opens the record and has it judged. *)
Admit(i) ==
  /\ task[i].step = "admit"
  /\ task' = [task EXCEPT ![i].step = "commit", ![i].defer = Undecided(i)]
  /\ UNCHANGED <<storeVars, known, due, queue, fetched>>

(* exclusive(): the locked() decisions and the batch of a version or log entry. *)
CommitEntry(e) ==
  /\ task[e].step = "commit"
  /\ task' = [task EXCEPT ![e] = Idle]
  /\ IF DroppedMeanwhile(e)
       THEN UNCHANGED storeVars
       ELSE /\ rec' = rec \cup {e}
            /\ sx' = [sx EXCEPT ![e] = "held"]
            /\ IF task[e].defer
                 THEN deferred' = deferred \cup {e} /\ UNCHANGED <<head, loc>>
                 ELSE /\ deferred' = deferred \ {e}
                      /\ head' = IndexedHead(e)
                      /\ loc' = IndexedLoc(e)
            /\ UNCHANGED gone
  /\ UNCHANGED <<known, due, queue, fetched>>

(* The same for a drop list: its targets leave, indexes included. *)
CommitDropList(d) ==
  /\ task[d].step = "commit"
  /\ task' = [task EXCEPT ![d] = Idle]
  /\ LET drop == task[d].drop
     IN  /\ rec' = (rec \ task[d].held) \cup {d}
         /\ sx' = [i \in Id |-> IF i = d THEN "held"
                                ELSE IF i \in drop THEN "dropped" ELSE sx[i]]
         /\ gone' = [e \in Entry |-> IF e \in drop THEN d ELSE gone[e]]
         /\ head' = UnindexedHead(drop)
         /\ loc' = UnindexedLoc(drop)
         /\ deferred' = (deferred \ (drop \cup {d}))
                          \cup (IF task[d].defer THEN {d} ELSE {})
  /\ UNCHANGED <<known, due, queue, fetched>>

(* The batch is refused by the driver: status 'failed', nothing is written. *)
CommitFails(i) ==
  /\ Faults /\ task[i].step = "commit"
  /\ task' = [task EXCEPT ![i] = Idle]
  /\ UNCHANGED <<storeVars, known, due, queue, fetched>>

(* expire(): a drop list past the horizon leaves with its markers. *)
Expire(d) ==
  /\ d \in rec
  /\ rec' = rec \ {d}
  /\ sx' = [i \in Id |-> IF i = d \/ i \in MarkedBy(d) THEN "none" ELSE sx[i]]
  /\ gone' = [e \in Entry |-> IF e \in MarkedBy(d) THEN None ELSE gone[e]]
  /\ deferred' = deferred \ {d}
  /\ UNCHANGED <<head, loc, task, known, due, queue, fetched>>

-----------------------------------------------------------------------------
(* Deferred envelopes. *)

(* onRecord(): the member list has changed, a timer will call reindex(). *)
LearnMembers ==
  /\ ~known
  /\ known' = TRUE
  /\ due' = TRUE
  /\ UNCHANGED <<storeVars, task, queue, fetched>>

(* reindex() takes the keys of defer/ once, at its start. *)
StartReindex ==
  /\ due
  /\ due' = FALSE
  /\ queue' = deferred
  /\ UNCHANGED <<storeVars, task, known, fetched>>

(* It reads the envelope before it asks for the lock, and drops a stray key. *)
ReindexRead(i) ==
  /\ fetched = None /\ i \in queue
  /\ queue' = queue \ {i}
  /\ IF i \in rec
       THEN fetched' = i /\ UNCHANGED deferred
       ELSE deferred' = deferred \ {i} /\ UNCHANGED fetched
  /\ UNCHANGED <<rec, sx, gone, head, loc, task, known, due>>

(* step(): admit() again, inside the lock, and the batch. *)
ReindexCommit ==
  /\ fetched # None
  /\ fetched' = None
  /\ IF Undecided(fetched)
       THEN deferred' = deferred \cup {fetched} /\ UNCHANGED <<head, loc>>
       ELSE /\ deferred' = deferred \ {fetched}
            /\ IF fetched \in Entry
                 THEN head' = IndexedHead(fetched) /\ loc' = IndexedLoc(fetched)
                 ELSE UNCHANGED <<head, loc>>
  /\ UNCHANGED <<rec, sx, gone, task, known, due, queue>>

Restart ==
  /\ Faults
  /\ task' = [i \in Id |-> Idle]
  /\ due' = FALSE
  /\ queue' = {}
  /\ fetched' = None
  /\ UNCHANGED <<storeVars, known>>

-----------------------------------------------------------------------------
IngestStep ==
  \/ \E d \in DropList : \E e \in Entry : ReadTarget(d, e)
  \/ \E i \in Id : Admit(i)
  \/ \E e \in Entry : CommitEntry(e)
  \/ \E d \in DropList : CommitDropList(d)

ReindexStep == StartReindex \/ (\E i \in Id : ReindexRead(i)) \/ ReindexCommit

Next ==
  \/ \E e \in Entry : IngestEntry(e)
  \/ \E d \in DropList : IngestDropList(d) \/ Expire(d)
  \/ IngestStep
  \/ ReindexStep
  \/ \E i \in Id : CommitFails(i)
  \/ LearnMembers
  \/ Restart

Spec == Init /\ [][Next]_vars

(* Awaited storage operations settle and timers fire; nothing else must happen. *)
FairSpec == Spec /\ WF_vars(IngestStep) /\ WF_vars(ReindexStep)

-----------------------------------------------------------------------------
(* Properties. *)

Newest(e) == KeyOf[e] # NoKey /\ \A f \in Entry : ~Newer(f, e)

(***************************************************************************)
(* Last write wins: once the newest version is in and decided, it is what  *)
(* get() reads - whatever arrived, or was dropped, or expired, before or   *)
(* after it, and however the pipelines interleaved.  So devices that hold  *)
(* the same envelopes agree, and a tombstone is never undone.              *)
(***************************************************************************)
NewestIsHead ==
  \A e \in Entry : Newest(e) /\ e \in rec /\ e \notin deferred => head[KeyOf[e]] = e

(* query() shows no version of a keyed entry but its current one. *)
OneListed ==
  \A e \in Entry : KeyOf[e] # NoKey /\ loc[e] = "listed" => head[KeyOf[e]] = e

(***************************************************************************)
(* What the sync index claims can be sent: reconcile offers no id for      *)
(* which bytesFor() has neither the envelope nor the drop list.            *)
(***************************************************************************)
Servable(i) == i \in rec \/ (i \in Entry /\ gone[i] \in rec)
ClaimIsServable == \A i \in Id : sx[i] # "none" => Servable(i)

(***************************************************************************)
(* Nothing comes back: an entry with a gone marker is not readable, though *)
(* its own pipeline, or another copy of it, was under way when the drop    *)
(* list committed.  (For entries that were never deferred, see README.)    *)
(***************************************************************************)
DroppedIsUnread == \A e \in Entry \ Unknown : gone[e] # None => loc[e] = "none"

(* A readable entry's envelope is held. (The same restriction.) *)
ReadableIsHeld == \A e \in Entry \ Unknown : loc[e] # "none" => e \in rec

(* gc.js: "The target envelope is removed, its sync-index entry stays". *)
DroppedIsRemoved == \A e \in Entry : gone[e] # None => e \notin rec

(* README of lite: what is deferred "is re-checked automatically". *)
DeferredIsDecided ==
  \A i \in Id : (i \in deferred /\ known) ~> i \notin deferred
=============================================================================
