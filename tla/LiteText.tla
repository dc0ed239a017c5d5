------------------------------ MODULE LiteText ------------------------------
(***************************************************************************)
(* Qu Lite: collaborative text (packages/lite/src/text.js).                *)
(*                                                                         *)
(* The text is an RGA: a character has the id <<counter, site>> and the id *)
(* of the character it was typed after.  Edits become batches, a member's  *)
(* whole state becomes its snapshot, and a drop list then removes its own  *)
(* batches.  All three are records: of a snapshot key the newest counts,   *)
(* and a dropped batch is gone also where it arrives later (LiteStore).    *)
(*                                                                         *)
(* An operation inserts or deletes one character here; a run of the code   *)
(* is as many of them.  A record is named by its time h: clocks agree.     *)
(***************************************************************************)
EXTENDS Naturals, SequencesExt

CONSTANTS
  Device,     \* where the text is open
  Rank,       \* Device -> 1..Cardinality(Device): how their sites compare
  AuthorOf,   \* Device -> the identity it signs with
  MaxCost,    \* bound: two for each character inserted or deleted, one for each record
  MaxReopens  \* bound: texts closed, or processes stopped, and opened again

Start == <<0, 0>>

VARIABLES
  recs,     \* all records written
  held,     \* device -> records it has
  doc,      \* device -> its TextCrdt
  queue,    \* device -> operations not yet written
  own,      \* device -> times of own batches since its last snapshot
  dropping, \* device -> times of the batches compact() is about to drop
  opens,    \* device -> sessions so far
  edits,    \* operations so far
  early     \* a drop list arrived before the snapshot it relies on (history)

vars == <<recs, held, doc, queue, own, dropping, opens, edits, early>>

Ins(id, ref) == [t |-> "i", id |-> id, ref |-> ref]
Del(id) == [t |-> "d", id |-> id, ref |-> Start]
Empty == [chars |-> <<>>, pending |-> <<>>, dead |-> {}, clock |-> 0]

Ids(d) == {d.chars[i].id : i \in DOMAIN d.chars}
Greater(a, b) == a[1] > b[1] \/ (a[1] = b[1] /\ a[2] > b[2])
Larger(m, n) == IF m > n THEN m ELSE n

-----------------------------------------------------------------------------
(* Plausible bugs in the operators of the next section, for mutation runs. *)

RightAfter(chars, i, id) == i                     \* greater ids are not skipped
WithoutTombstones(d) == SelectSeq(d.chars, LAMBDA e : e.id \notin d.dead)
-----------------------------------------------------------------------------
(* The position for id that is not before i: greater ids are skipped. *)
Position(chars, i, id) ==
  CHOOSE j \in i .. Len(chars) + 1 :
    /\ j > Len(chars) \/ ~Greater(chars[j].id, id)
    /\ \A k \in i .. j - 1 : Greater(chars[k].id, id)

(* runs(): the characters of a snapshot. *)
Runs(d) == d.chars

-----------------------------------------------------------------------------
(* #integrate(), or kept pending; #retry(); apply(). *)
Integrate(d, e) ==
  IF e.id \in Ids(d) THEN d
  ELSE IF e.ref # Start /\ e.ref \notin Ids(d) THEN [d EXCEPT !.pending = Append(@, e)]
  ELSE LET i == IF e.ref = Start THEN 1 ELSE 1 + CHOOSE k \in DOMAIN d.chars : d.chars[k].id = e.ref
       IN  [d EXCEPT !.chars = InsertAt(@, Position(@, i, e.id), e), !.clock = Larger(@, e.id[1])]

Pass(d, k) == FoldLeft(Integrate, [d EXCEPT !.pending = <<>>], d.pending)
Retry(d) == FoldLeft(Pass, d, d.pending)

Apply(d, op) ==
  IF op.t = "i" THEN Retry(Integrate(d, op))
  ELSE [d EXCEPT !.dead = @ \cup {op.id}, !.clock = Larger(@, op.id[1])]

(* open(): operations in counter order, inserts first. *)
Before(a, b) == Greater(b.id, a.id) \/ (a.id = b.id /\ a.t = "i" /\ b.t = "d")
InOrder(ops) ==
  [k \in 1..Cardinality(ops) |->
     CHOOSE op \in ops : Cardinality({o \in ops : Before(o, op)}) = k - 1]

(* applyRecord(): those of a batch in counter order, otherwise as they were made. *)
Earlier(ops, i, j) ==
  ops[i].id[1] < ops[j].id[1] \/ (ops[i].id[1] = ops[j].id[1] /\ i < j)
InCounterOrder(ops) ==
  [k \in DOMAIN ops |->
     ops[CHOOSE i \in DOMAIN ops : Cardinality({j \in DOMAIN ops : Earlier(ops, j, i)}) = k - 1]]

(* opsOfRuns(): each character of a snapshot, then that it is deleted. *)
OpsOf(d, e) == IF e.id \in d.dead THEN <<e, Del(e.id)>> ELSE <<e>>
OpsOfRuns(d) == FoldLeft(LAMBDA ops, e : ops \o OpsOf(d, e), <<>>, Runs(d))

Visible(chars, dead) == SelectSeq(chars, LAMBDA e : e.id \notin dead)
Text(d) == Visible(d.chars, d.dead)

-----------------------------------------------------------------------------
Dropped(rs) == UNION {r.targets : r \in rs}
Batches(rs) == {r \in rs : r.t = "batch" /\ r.h \notin Dropped(rs)}
Heads(rs) == {r \in rs : r.t = "snap" /\ \A s \in rs :
                s.t = "snap" /\ AuthorOf[s.by] = AuthorOf[r.by] => s.h <= r.h}

(* open(): every member's snapshot and the batches they do not cover. *)
Load(rs) == FoldLeft(Apply, Empty, InOrder(UNION {ToSet(r.ops) : r \in Heads(rs) \cup Batches(rs)}))

Record == [t: {"batch", "snap", "drop"}, by: Device, h: 1..MaxCost,
           ops: Seq([t: {"i", "d"}, id: Nat \X Nat, ref: Nat \X Nat]), targets: SUBSET (1..MaxCost)]

TypeOK ==
  /\ recs \subseteq Record /\ \A d \in Device : held[d] \subseteq recs
  /\ \A d \in Device : /\ own[d] \subseteq 1..MaxCost /\ dropping[d] \subseteq 1..MaxCost
                       /\ doc[d].clock \in 0..MaxCost /\ Len(queue[d]) <= MaxCost
  /\ opens \in [Device -> 0..MaxReopens] /\ edits \in 0..MaxCost /\ early \in BOOLEAN

Init ==
  /\ recs = {} /\ held = [d \in Device |-> {}] /\ doc = [d \in Device |-> Empty]
  /\ queue = [d \in Device |-> <<>>] /\ own = [d \in Device |-> {}]
  /\ dropping = [d \in Device |-> {}]
  /\ opens = [d \in Device |-> 0] /\ edits = 0 /\ early = FALSE

-----------------------------------------------------------------------------
(* Every session has a site of its own. *)
Site(d) == Rank[d] + opens[d] * Cardinality(Device)

Edited(d, op) ==
  /\ 2 * edits + 2 + Cardinality(recs) <= MaxCost /\ edits' = edits + 1
  /\ doc' = [doc EXCEPT ![d] = Apply(@, op)] /\ queue' = [queue EXCEPT ![d] = Append(@, op)]
  /\ UNCHANGED <<recs, held, own, dropping, opens, early>>

(* insert(): after a visible character, or at the start. *)
Shown(d) == Ids(doc[d]) \ doc[d].dead
Insert(d) ==
  \E left \in {Start} \cup Shown(d) : Edited(d, Ins(<<doc[d].clock + 1, Site(d)>>, left))

Delete(d) == \E id \in Shown(d) : Edited(d, Del(id))

Now == Cardinality(recs) + 1
Writes(d, type, ops, targets) ==
  /\ 2 * edits + Now <= MaxCost
  /\ LET r == [t |-> type, by |-> d, h |-> Now, ops |-> ops, targets |-> targets]
     IN  recs' = recs \cup {r} /\ held' = [held EXCEPT ![d] = @ \cup {r}]

(* flush() *)
Flush(d) ==
  /\ queue[d] # <<>> /\ queue' = [queue EXCEPT ![d] = <<>>]
  /\ Writes(d, "batch", queue[d], {}) /\ own' = [own EXCEPT ![d] = @ \cup {Now}]
  /\ UNCHANGED <<doc, dropping, opens, edits, early>>

(* compact() after its flush: the snapshot, then the drop list. *)
Snapshot(d) ==
  /\ queue[d] = <<>> /\ dropping[d] = {} /\ own[d] # {}
  /\ Writes(d, "snap", OpsOfRuns(doc[d]), {})
  /\ dropping' = [dropping EXCEPT ![d] = own[d]] /\ own' = [own EXCEPT ![d] = {}]
  /\ UNCHANGED <<doc, queue, opens, edits, early>>

DropOwn(d) ==
  /\ dropping[d] # {} /\ dropping' = [dropping EXCEPT ![d] = {}]
  /\ Writes(d, "drop", <<>>, dropping[d])
  /\ UNCHANGED <<doc, queue, own, opens, edits, early>>

(* A record arrives: a batch that is not gone, or a snapshot that is newest. *)
Deliver(d, r) ==
  /\ r \notin held[d] /\ held' = [held EXCEPT ![d] = @ \cup {r}]
  /\ doc' = IF r \in Batches(held[d] \cup {r}) \cup Heads(held[d] \cup {r})
            THEN [doc EXCEPT ![d] = FoldLeft(Apply, @, IF r.t = "batch" THEN InCounterOrder(r.ops) ELSE r.ops)]
            ELSE doc
  /\ early' = (early \/ (r.t = "drop" /\ \E s \in recs \ held[d] :
                          s.t = "snap" /\ s.by = r.by /\ s.h < r.h))
  /\ UNCHANGED <<recs, queue, own, dropping, opens, edits>>

Total(f) == FoldFunction(+, 0, f)

(* What was not flushed is lost; the text is built from what is held. *)
Reopen(d) ==
  /\ held[d] # {} /\ Total(opens) < MaxReopens /\ opens' = [opens EXCEPT ![d] = @ + 1]
  /\ doc' = [doc EXCEPT ![d] = Load(held[d])]
  /\ queue' = [queue EXCEPT ![d] = <<>>] /\ dropping' = [dropping EXCEPT ![d] = {}]
  /\ own' = [own EXCEPT ![d] = {r.h : r \in {b \in Batches(held[d]) : AuthorOf[b.by] = AuthorOf[d]}}]
  /\ UNCHANGED <<recs, held, edits, early>>

Next ==
  \/ \E d \in Device :
       Insert(d) \/ Delete(d) \/ Flush(d) \/ Snapshot(d) \/ DropOwn(d) \/ Reopen(d)
  \/ \E d \in Device, r \in recs : Deliver(d, r)

Spec == Init /\ [][Next]_vars

-----------------------------------------------------------------------------
(***************************************************************************)
(* "Replicas that see the same ops in any order end with the same text"    *)
(* (README.md:329), whether they saw them one by one, in batches or from   *)
(* snapshots, and whether or not they were opened again in between.        *)
(***************************************************************************)
TextConverges ==
  \A d, e \in Device :
    Ids(doc[d]) = Ids(doc[e]) /\ doc[d].dead = doc[e].dead => Text(doc[d]) = Text(doc[e])

(***************************************************************************)
(* "Nothing is lost, whoever compacts when" (README.md:338): whoever holds *)
(* every record and opens the text has every edit that was ever flushed,   *)
(* unless a drop list overtook its author's snapshot on the way.           *)
(***************************************************************************)
Flushed == UNION {ToSet(r.ops) : r \in {s \in recs : s.t = "batch"}}
NothingLost ==
  ~early => \A d \in Device : held[d] = recs =>
    LET t == Load(recs)
    IN  \A op \in Flushed : IF op.t = "i" THEN op.id \in Ids(t) ELSE op.id \in t.dead
=============================================================================
