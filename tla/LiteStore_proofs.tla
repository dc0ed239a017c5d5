-------------------------- MODULE LiteStore_proofs --------------------------
(***************************************************************************)
(* Proofs about LiteStore, for any entries, drop lists and keys.           *)
(***************************************************************************)
EXTENDS LiteStore, TLAPS

-----------------------------------------------------------------------------
(* The inductive invariant. *)

(* A pipeline plans to drop what its list names, and removes no more than that. *)
PlanInv ==
  \A d \in DropList :
    /\ task[d].drop \subseteq Targets[d]
    /\ task[d].todo \subseteq Targets[d]
    /\ task[d].held \subseteq task[d].drop

(* A marker names a drop list that is held and lists the entry. *)
MarkerInv ==
  \A e \in Entry : gone[e] # None => gone[e] \in rec /\ e \in Targets[gone[e]]

(* Only what may be undecided is ever deferred or retried. *)
DeferInv ==
  /\ deferred \subseteq Unknown
  /\ queue \subseteq Unknown
  /\ fetched \in Unknown \cup {None}
  /\ \A i \in Id : task[i].defer => i \in Unknown

(* A head is an indexed version of its key. *)
HeadInv ==
  \A k \in Key : head[k] # None => KeyOf[head[k]] = k /\ loc[head[k]] # "none"

(* The newest version, once indexed, is the head; once decided, is indexed. *)
NewestInv ==
  \A e \in Entry : Newest(e) =>
    /\ loc[e] # "none" => head[KeyOf[e]] = e
    /\ e \in rec /\ e \notin deferred => loc[e] # "none"

IInv ==
  /\ TypeOK /\ PlanInv /\ MarkerInv /\ DeferInv /\ HeadInv /\ NewestInv
  /\ OneListed /\ ClaimIsServable /\ DroppedIsUnread /\ ReadableIsHeld

-----------------------------------------------------------------------------
(* What index() does to the indexes. *)

(* Types, and that the entry itself ends up indexed. *)
LEMMA IndexType ==
  ASSUME TypeOK, NEW e \in Entry
  PROVE  /\ IndexedHead(e) \in [Key -> Entry \cup {None}]
         /\ IndexedLoc(e) \in [Entry -> {"none", "listed", "kept"}]
         /\ \A f \in Entry : IndexedLoc(e)[f] = "none" <=> f # e /\ loc[f] = "none"
  <1> USE EntryAssumption
  <1>1. head \in [Key -> Entry \cup {None}] /\ loc \in [Entry -> {"none", "listed", "kept"}]
    BY DEF TypeOK
  <1>2. KeyOf[e] \in Key \cup {NoKey}
    OBVIOUS
  <1>3. IndexedHead(e) \in [Key -> Entry \cup {None}]
    BY <1>1, <1>2 DEF IndexedHead
  <1>4. \A f \in Demoted(e) : f \in Entry \ {e} /\ loc[f] = "listed"
    BY DEF Demoted
  <1>5. LocOf(e) \in {"listed", "kept"}
    BY DEF LocOf
  <1>6. IndexedLoc(e) \in [Entry -> {"none", "listed", "kept"}]
    BY <1>1, <1>5 DEF IndexedLoc
  <1>7. \A f \in Entry : IndexedLoc(e)[f] = "none" <=> f # e /\ loc[f] = "none"
    BY <1>1, <1>4, <1>5 DEF IndexedLoc
  <1>8. QED
    BY <1>3, <1>6, <1>7

(* The newest version of a key beats, or is, whatever is the head. *)
LEMMA NewestWins ==
  ASSUME TypeOK, HeadInv, NEW e \in Entry, Newest(e)
  PROVE  ~Superseded(e)
  <1> USE EntryAssumption, IdAssumption
  <1> SUFFICES ASSUME Superseded(e) PROVE FALSE
    OBVIOUS
  <1> DEFINE h == head[KeyOf[e]]
  <1>1. KeyOf[e] \in Key
    BY DEF Newest
  <1>2. h # None /\ h # e /\ ~Newer(e, h)
    BY DEF Superseded
  <1>3. h \in Entry /\ KeyOf[h] = KeyOf[e]
    BY <1>1, <1>2 DEF TypeOK, HeadInv
  <1>4. ~Newer(h, e)
    BY <1>3 DEF Newest
  <1>5. Version[e] # Version[h] /\ Version[e] \in Nat /\ Version[h] \in Nat
    BY <1>2, <1>3
  <1>6. QED
    BY <1>2, <1>3, <1>4, <1>5 DEF Newer

(* ... and no other version of its key replaces it. *)
LEMMA NewestStays ==
  ASSUME TypeOK, HeadInv, NEW e \in Entry, NEW f \in Entry, Newest(e), f # e,
         KeyOf[f] = KeyOf[e], head[KeyOf[e]] = e
  PROVE  Superseded(f)
  <1>1. ~Newer(f, e)
    BY DEF Newest
  <1>2. e # None
    BY IdAssumption DEF Id
  <1>3. QED
    BY <1>1, <1>2 DEF Superseded, Newest

(* The parts of the invariant that index() could break, it keeps. *)
LEMMA IndexStep ==
  ASSUME TypeOK, HeadInv, NEW e \in Entry,
         \A f \in Entry : Newest(f) /\ loc[f] # "none" => head[KeyOf[f]] = f,
         OneListed,
         head' = IndexedHead(e), loc' = IndexedLoc(e)
  PROVE  /\ HeadInv'
         /\ \A f \in Entry : Newest(f) /\ loc'[f] # "none" => head'[KeyOf[f]] = f
         /\ OneListed'
  <1> USE EntryAssumption, IdAssumption
  <1>1. head \in [Key -> Entry \cup {None}] /\ loc \in [Entry -> {"none", "listed", "kept"}]
    BY DEF TypeOK
  <1>2. \A f \in Entry : loc'[f] = "none" <=> f # e /\ loc[f] = "none"
    BY IndexType
  <1>3. CASE KeyOf[e] = NoKey \/ Superseded(e)
    <2>1. head' = head
      BY <1>3 DEF IndexedHead
    <2>2. \A f \in Entry : f # e => loc'[f] = loc[f]
      BY <1>3 DEF IndexedLoc, Demoted
    <2>3. HeadInv'
      BY <1>1, <1>2, <2>1 DEF HeadInv
    <2>4. \A f \in Entry : Newest(f) /\ loc'[f] # "none" => head'[KeyOf[f]] = f
      BY <1>2, <1>3, <2>1, NewestWins DEF Newest
    <2>5. KeyOf[e] # NoKey => loc'[e] = "kept"
      BY <1>3 DEF IndexedLoc, LocOf
    <2>6. OneListed'
      BY <2>1, <2>2, <2>5 DEF OneListed
    <2>7. QED
      BY <2>3, <2>4, <2>6
  <1>4. CASE KeyOf[e] \in Key /\ ~Superseded(e)
    <2>1. head' = [head EXCEPT ![KeyOf[e]] = e]
      BY <1>4 DEF IndexedHead
    <2>2. e # None
      BY DEF Id
    <2>3. HeadInv'
      BY <1>1, <1>2, <1>4, <2>1, <2>2 DEF HeadInv
    <2>4. \A f \in Entry : Newest(f) /\ loc'[f] # "none" => head'[KeyOf[f]] = f
      <3> SUFFICES ASSUME NEW f \in Entry, Newest(f), loc'[f] # "none", f # e
                   PROVE  head'[KeyOf[f]] = f
        BY <1>1, <1>4, <2>1
      <3>1. head[KeyOf[f]] = f
        BY <1>2
      <3>2. KeyOf[f] # KeyOf[e]
        BY <1>4, <3>1, NewestStays
      <3>3. QED
        BY <1>1, <2>1, <3>1, <3>2 DEF Newest
    <2>5. OneListed'
      <3> SUFFICES ASSUME NEW f \in Entry, KeyOf[f] # NoKey, loc'[f] = "listed", f # e
                   PROVE  head'[KeyOf[f]] = f
        BY <1>1, <1>4, <2>1 DEF OneListed
      <3>1. f \notin Demoted(e) /\ loc[f] = "listed"
        BY DEF IndexedLoc
      <3>2. head[KeyOf[f]] = f
        BY <3>1 DEF OneListed
      <3>3. KeyOf[f] # KeyOf[e]
        BY <1>4, <3>1, <3>2 DEF Demoted
      <3>4. QED
        BY <1>1, <2>1, <3>2, <3>3
    <2>6. QED
      BY <2>3, <2>4, <2>5
  <1>5. QED
    BY <1>3, <1>4

-----------------------------------------------------------------------------
(* Type correctness. *)

LEMMA TypeInit == Init => TypeOK
  <1> USE IdAssumption, EntryAssumption, TargetAssumption
  <1> SUFFICES ASSUME Init PROVE TypeOK
    OBVIOUS
  <1>1. Idle \in Task
    BY DEF Idle, Task
  <1>2. QED
    BY <1>1 DEF Init, TypeOK

LEMMA TypeStep ==
  ASSUME TypeOK, [Next]_vars
  PROVE  TypeOK'
  <1> USE IdAssumption, EntryAssumption, TargetAssumption
  <1>1. Idle \in Task
    BY DEF Idle, Task
  <1>2. ASSUME NEW e \in Entry, IngestEntry(e) PROVE TypeOK'
    <2> DEFINE t == [task[e] EXCEPT !.step = "admit"]
    <2>1. e \in Id /\ task[e] \in Task
      BY DEF TypeOK, Id
    <2>2. t \in Task
      BY <2>1 DEF Task
    <2>3. task' = [task EXCEPT ![e] = t]
      BY <1>2 DEF IngestEntry
    <2> HIDE DEF t
    <2>4. task' \in [Id -> Task]
      BY <2>1, <2>2, <2>3 DEF TypeOK
    <2>5. QED
      BY <1>2, <2>4 DEF IngestEntry, TypeOK, storeVars
  <1>3. ASSUME NEW d \in DropList, IngestDropList(d) PROVE TypeOK'
    <2> DEFINE t == [task[d] EXCEPT !.step = "targets", !.todo = Targets[d]]
    <2>1. d \in Id /\ task[d] \in Task /\ Targets[d] \subseteq Entry
      BY DEF TypeOK, Id
    <2>2. t \in Task
      BY <2>1 DEF Task
    <2>3. task' = [task EXCEPT ![d] = t]
      BY <1>3, <2>1 DEF IngestDropList, TypeOK, Task
    <2> HIDE DEF t
    <2>4. task' \in [Id -> Task]
      BY <2>1, <2>2, <2>3 DEF TypeOK
    <2>5. QED
      BY <1>3, <2>4 DEF IngestDropList, TypeOK, storeVars
  <1>4. ASSUME NEW d \in DropList, NEW e \in Entry, ReadTarget(d, e) PROVE TypeOK'
    <2> DEFINE t == [task[d] EXCEPT
                       !.todo = @ \ {e},
                       !.drop = IF gone[e] = None THEN @ \cup {e} ELSE @,
                       !.held = IF gone[e] = None /\ e \in rec THEN @ \cup {e} ELSE @,
                       !.step = IF task[d].todo = {e} THEN "admit" ELSE @]
    <2>1. d \in Id /\ task[d] \in Task
      BY DEF TypeOK, Id
    <2>2. t \in Task
      BY <2>1 DEF Task
    <2>3. task' = [task EXCEPT ![d] = t]
      BY <1>4, <2>1 DEF ReadTarget, TypeOK, Task
    <2> HIDE DEF t
    <2>4. task' \in [Id -> Task]
      BY <2>1, <2>2, <2>3 DEF TypeOK
    <2>5. QED
      BY <1>4, <2>4 DEF ReadTarget, TypeOK, storeVars
  <1>5. ASSUME NEW i \in Id, Admit(i) PROVE TypeOK'
    <2>1. Undecided(i) \in BOOLEAN
      BY DEF Undecided
    <2> DEFINE t == [task[i] EXCEPT !.step = "commit", !.defer = Undecided(i)]
    <2>2. task[i] \in Task
      BY DEF TypeOK
    <2>3. t \in Task
      BY <2>1, <2>2 DEF Task
    <2>4. task' = [task EXCEPT ![i] = t]
      BY <1>5 DEF Admit, TypeOK, Task
    <2> HIDE DEF t
    <2>5. task' \in [Id -> Task]
      BY <2>3, <2>4 DEF TypeOK
    <2>6. QED
      BY <1>5, <2>5 DEF Admit, TypeOK, storeVars
  <1>6. ASSUME NEW e \in Entry, CommitEntry(e) PROVE TypeOK'
    <2>1. task' \in [Id -> Task]
      BY <1>1, <1>6 DEF CommitEntry, TypeOK
    <2>2. IndexedHead(e) \in [Key -> Entry \cup {None}]
          /\ IndexedLoc(e) \in [Entry -> {"none", "listed", "kept"}]
      BY IndexType
    <2>3. CASE DroppedMeanwhile(e)
      BY <1>6, <2>1, <2>3 DEF CommitEntry, TypeOK, storeVars
    <2>4. CASE ~DroppedMeanwhile(e)
      <3>1. rec' \subseteq Id /\ sx' \in [Id -> {"none", "held", "dropped"}]
        BY <1>6, <2>4 DEF CommitEntry, TypeOK, Id
      <3>2. deferred' \subseteq Id /\ gone' = gone
        BY <1>6, <2>4 DEF CommitEntry, TypeOK, Id
      <3>3. /\ head' \in [Key -> Entry \cup {None}]
            /\ loc' \in [Entry -> {"none", "listed", "kept"}]
        BY <1>6, <2>2, <2>4 DEF CommitEntry, TypeOK
      <3>4. QED
        BY <1>6, <2>1, <3>1, <3>2, <3>3 DEF CommitEntry, TypeOK
    <2>5. QED
      BY <2>3, <2>4
  <1>7. ASSUME NEW d \in DropList, CommitDropList(d) PROVE TypeOK'
    <2>1. d \in Id /\ task[d] \in Task
      BY DEF TypeOK, Id
    <2>2. task' \in [Id -> Task]
      BY <1>1, <1>7 DEF CommitDropList, TypeOK
    <2>3. rec' \subseteq Id /\ sx' \in [Id -> {"none", "held", "dropped"}]
      BY <1>7, <2>1 DEF CommitDropList, TypeOK
    <2>4. gone' \in [Entry -> DropList \cup {None}] /\ deferred' \subseteq Id
      BY <1>7, <2>1 DEF CommitDropList, TypeOK
    <2>5. head' \in [Key -> Entry \cup {None}] /\ loc' \in [Entry -> {"none", "listed", "kept"}]
      BY <1>7, <2>1 DEF CommitDropList, TypeOK, UnindexedHead, UnindexedLoc
    <2>6. QED
      BY <1>7, <2>2, <2>3, <2>4, <2>5 DEF CommitDropList, TypeOK
  <1>8. ASSUME NEW i \in Id, CommitFails(i) PROVE TypeOK'
    BY <1>1, <1>8 DEF CommitFails, TypeOK, storeVars
  <1>9. ASSUME NEW d \in DropList, Expire(d) PROVE TypeOK'
    BY <1>9 DEF Expire, TypeOK
  <1>10. CASE LearnMembers
    BY <1>10 DEF LearnMembers, TypeOK, storeVars
  <1>11. CASE StartReindex
    BY <1>11 DEF StartReindex, TypeOK, storeVars
  <1>12. ASSUME NEW i \in Id, ReindexRead(i) PROVE TypeOK'
    BY <1>12 DEF ReindexRead, TypeOK
  <1>13. CASE ReindexCommit
    <2>1. fetched \in Id
      BY <1>13 DEF ReindexCommit, TypeOK
    <2>2. deferred' \subseteq Id /\ fetched' \in Id \cup {None}
      BY <1>13, <2>1 DEF ReindexCommit, TypeOK
    <2>3. /\ head' \in [Key -> Entry \cup {None}]
          /\ loc' \in [Entry -> {"none", "listed", "kept"}]
      BY <1>13, <2>1, IndexType DEF ReindexCommit, TypeOK
    <2>4. QED
      BY <1>13, <2>2, <2>3 DEF ReindexCommit, TypeOK
  <1>14. CASE Restart
    BY <1>1, <1>14 DEF Restart, TypeOK, storeVars
  <1>15. CASE UNCHANGED vars
    BY <1>15 DEF vars, storeVars, TypeOK
  <1>16. QED
    BY <1>2, <1>3, <1>4, <1>5, <1>6, <1>7, <1>8, <1>9, <1>10, <1>11, <1>12, <1>13,
       <1>14, <1>15 DEF Next, IngestStep, ReindexStep

(* Every variable keeps its type, for any entries, drop lists and keys. *)
THEOREM TypeCorrect == Spec => []TypeOK
  <1>1. TypeOK /\ [Next]_vars => TypeOK'
    BY TypeStep
  <1>2. QED
    BY TypeInit, <1>1, PTL DEF Spec
-----------------------------------------------------------------------------
(* The steps that leave the store alone. *)

(* The parts of IInv about the store, and those about what is under way. *)
StoreInv ==
  /\ MarkerInv /\ HeadInv /\ NewestInv
  /\ OneListed /\ ClaimIsServable /\ DroppedIsUnread /\ ReadableIsHeld

LEMMA StoreUnchanged ==
  ASSUME StoreInv, UNCHANGED storeVars
  PROVE  StoreInv'
  BY DEF StoreInv, storeVars, MarkerInv, HeadInv, NewestInv, OneListed, ClaimIsServable,
         Servable, DroppedIsUnread, ReadableIsHeld

(* A pipeline that ends plans nothing any more. *)
LEMMA IdlePlan ==
  ASSUME TypeOK, PlanInv, DeferInv, NEW i \in Id, task' = [task EXCEPT ![i] = Idle]
  PROVE  PlanInv' /\ \A j \in Id : task'[j].defer => j \in Unknown
  <1> USE IdAssumption, TargetAssumption
  <1>1. \A j \in Id : task'[j] = IF j = i THEN Idle ELSE task[j]
    BY DEF TypeOK
  <1>2. PlanInv'
    BY <1>1 DEF PlanInv, Idle, Id
  <1>3. \A j \in Id : task'[j].defer => j \in Unknown
    BY <1>1 DEF DeferInv, Idle
  <1>4. QED
    BY <1>2, <1>3

-----------------------------------------------------------------------------
(* Commits. *)

LEMMA CommitEntryStep ==
  ASSUME IInv, NEW e \in Entry, CommitEntry(e)
  PROVE  PlanInv' /\ DeferInv' /\ StoreInv'
  <1> USE IdAssumption, EntryAssumption, TargetAssumption
  <1>1. TypeOK /\ PlanInv /\ DeferInv /\ StoreInv
    BY DEF IInv, StoreInv
  <1>2. e \in Id /\ task' = [task EXCEPT ![e] = Idle]
    BY DEF CommitEntry, Id
  <1>3. PlanInv' /\ \A j \in Id : task'[j].defer => j \in Unknown
    BY <1>1, <1>2, IdlePlan
  <1>4. CASE DroppedMeanwhile(e)
    <2>1. UNCHANGED storeVars /\ UNCHANGED <<queue, fetched>>
      BY <1>4 DEF CommitEntry
    <2>2. StoreInv'
      BY <1>1, <2>1, StoreUnchanged
    <2>3. DeferInv'
      BY <1>1, <1>3, <2>1 DEF DeferInv, storeVars
    <2>4. QED
      BY <1>3, <2>2, <2>3
  <1>5. CASE ~DroppedMeanwhile(e)
    <2>1. /\ rec' = rec \cup {e} /\ gone' = gone /\ gone[e] = None
          /\ UNCHANGED <<queue, fetched>>
      BY <1>5 DEF CommitEntry, DroppedMeanwhile
    <2>2. sx' = [sx EXCEPT ![e] = "held"]
      BY <1>5 DEF CommitEntry
    <2>3. MarkerInv'
      BY <1>1, <2>1 DEF StoreInv, MarkerInv
    <2>4. ClaimIsServable'
      BY <1>1, <2>1, <2>2 DEF StoreInv, ClaimIsServable, Servable, TypeOK
    <2>5. CASE task[e].defer
      <3>1. deferred' = deferred \cup {e} /\ UNCHANGED <<head, loc>>
        BY <1>5, <2>5 DEF CommitEntry
      <3>2. e \in Unknown
        BY <1>1, <1>2, <2>5 DEF DeferInv
      <3>3. DeferInv'
        BY <1>1, <1>3, <2>1, <3>1, <3>2 DEF DeferInv
      <3>4. HeadInv' /\ OneListed'
        BY <1>1, <3>1 DEF StoreInv, HeadInv, OneListed
      <3>5. NewestInv'
        BY <1>1, <2>1, <3>1 DEF StoreInv, NewestInv
      <3>6. DroppedIsUnread' /\ ReadableIsHeld'
        BY <1>1, <2>1, <3>1 DEF StoreInv, DroppedIsUnread, ReadableIsHeld
      <3>7. QED
        BY <1>3, <2>3, <2>4, <3>3, <3>4, <3>5, <3>6 DEF StoreInv
    <2>6. CASE ~task[e].defer
      <3>1. deferred' = deferred \ {e} /\ head' = IndexedHead(e) /\ loc' = IndexedLoc(e)
        BY <1>5, <2>6 DEF CommitEntry
      <3>2. \A f \in Entry : loc'[f] = "none" <=> f # e /\ loc[f] = "none"
        BY <1>1, <3>1, IndexType
      <3>3. \A f \in Entry : Newest(f) /\ loc[f] # "none" => head[KeyOf[f]] = f
        BY <1>1 DEF StoreInv, NewestInv
      <3>4. HeadInv /\ OneListed
        BY <1>1 DEF StoreInv
      <3>5. /\ HeadInv' /\ OneListed'
            /\ \A f \in Entry : Newest(f) /\ loc'[f] # "none" => head'[KeyOf[f]] = f
        BY <1>1, <3>1, <3>3, <3>4, IndexStep
      <3>6. NewestInv'
        BY <1>1, <2>1, <3>1, <3>2, <3>5 DEF StoreInv, NewestInv
      <3>7. DeferInv'
        BY <1>1, <1>3, <2>1, <3>1 DEF DeferInv
      <3>8. DroppedIsUnread' /\ ReadableIsHeld'
        BY <1>1, <2>1, <3>2 DEF StoreInv, DroppedIsUnread, ReadableIsHeld
      <3>9. QED
        BY <1>3, <2>3, <2>4, <3>5, <3>6, <3>7, <3>8 DEF StoreInv
    <2>7. QED
      BY <2>5, <2>6
  <1>6. QED
    BY <1>4, <1>5

LEMMA CommitDropListStep ==
  ASSUME IInv, NEW d \in DropList, CommitDropList(d)
  PROVE  PlanInv' /\ DeferInv' /\ StoreInv'
  <1> USE IdAssumption, EntryAssumption, TargetAssumption
  <1> DEFINE drop == task[d].drop
             held == task[d].held
  <1>1. TypeOK /\ PlanInv /\ DeferInv /\ StoreInv
    BY DEF IInv, StoreInv
  <1>2. d \in Id /\ d \notin Entry /\ task' = [task EXCEPT ![d] = Idle]
    BY DEF CommitDropList, Id
  <1>3. PlanInv' /\ \A j \in Id : task'[j].defer => j \in Unknown
    BY <1>1, <1>2, IdlePlan
  <1>4. held \subseteq drop /\ drop \subseteq Targets[d] /\ Targets[d] \subseteq Entry
    BY <1>1 DEF PlanInv
  <1>5. /\ rec' = (rec \ held) \cup {d}
        /\ sx' = [i \in Id |-> IF i = d THEN "held" ELSE IF i \in drop THEN "dropped" ELSE sx[i]]
        /\ gone' = [e \in Entry |-> IF e \in drop THEN d ELSE gone[e]]
        /\ head' = [k \in Key |-> IF head[k] \in drop /\ loc[head[k]] # "none"
                                    THEN None ELSE head[k]]
        /\ loc' = [e \in Entry |-> IF e \in drop THEN "none" ELSE loc[e]]
        /\ deferred' = (deferred \ (drop \cup {d})) \cup (IF task[d].defer THEN {d} ELSE {})
        /\ UNCHANGED <<queue, fetched>>
    BY DEF CommitDropList, UnindexedHead, UnindexedLoc
  <1>6. \A e \in Entry : Newest(e) => e \notin drop
    BY <1>4 DEF Newest
  <1> HIDE DEF drop, held
  <1>7. DeferInv'
    BY <1>1, <1>2, <1>3, <1>5 DEF DeferInv
  <1>8. MarkerInv'
    <2> SUFFICES ASSUME NEW e \in Entry, gone'[e] # None
                 PROVE  gone'[e] \in rec' /\ e \in Targets[gone'[e]]
      BY DEF MarkerInv
    <2>1. CASE e \in drop
      BY <1>4, <1>5, <2>1
    <2>2. CASE e \notin drop
      <3>1. gone'[e] = gone[e] /\ gone[e] \in rec /\ e \in Targets[gone[e]]
        BY <1>1, <1>5, <2>2 DEF StoreInv, MarkerInv
      <3>2. gone[e] \notin held
        BY <1>1, <1>4, <1>5, <2>2 DEF TypeOK
      <3>3. QED
        BY <1>5, <3>1, <3>2
    <2>3. QED
      BY <2>1, <2>2
  <1>9. HeadInv'
    BY <1>1, <1>5 DEF StoreInv, HeadInv, TypeOK
  <1>10. OneListed'
    BY <1>1, <1>5 DEF StoreInv, OneListed, TypeOK
  <1>11. NewestInv'
    <2> SUFFICES ASSUME NEW e \in Entry, Newest(e)
                 PROVE  /\ loc'[e] # "none" => head'[KeyOf[e]] = e
                        /\ e \in rec' /\ e \notin deferred' => loc'[e] # "none"
      BY DEF NewestInv
    <2>1. e \notin drop /\ e # d /\ loc'[e] = loc[e] /\ KeyOf[e] \in Key
      BY <1>2, <1>5, <1>6 DEF Newest
    <2>2. loc[e] # "none" => head[KeyOf[e]] = e
      BY <1>1 DEF StoreInv, NewestInv
    <2>3. e \in rec' /\ e \notin deferred' => e \in rec /\ e \notin deferred
      BY <1>5, <2>1
    <2>4. QED
      BY <1>1, <1>5, <2>1, <2>2, <2>3 DEF StoreInv, NewestInv
  <1>12. ClaimIsServable'
    <2> SUFFICES ASSUME NEW i \in Id, sx'[i] # "none" PROVE Servable(i)'
      BY DEF ClaimIsServable
    <2>1. CASE i = d
      BY <1>5, <2>1 DEF Servable
    <2>2. CASE i # d /\ i \in drop
      BY <1>4, <1>5, <2>2 DEF Servable
    <2>3. CASE i # d /\ i \notin drop
      <3>1. Servable(i)
        BY <1>1, <1>5, <2>3 DEF StoreInv, ClaimIsServable
      <3>2. i \in rec => i \in rec'
        BY <1>4, <1>5, <2>3
      <3>3. i \in Entry /\ gone[i] \in rec => gone'[i] = gone[i] /\ gone[i] \in rec'
        BY <1>1, <1>4, <1>5, <2>3 DEF TypeOK, Id
      <3>4. QED
        BY <3>1, <3>2, <3>3 DEF Servable
    <2>4. QED
      BY <2>1, <2>2, <2>3
  <1>13. DroppedIsUnread' /\ ReadableIsHeld'
    BY <1>1, <1>4, <1>5 DEF StoreInv, DroppedIsUnread, ReadableIsHeld
  <1>14. QED
    BY <1>3, <1>7, <1>8, <1>9, <1>10, <1>11, <1>12, <1>13 DEF StoreInv

LEMMA ExpireStep ==
  ASSUME IInv, NEW d \in DropList, Expire(d)
  PROVE  PlanInv' /\ DeferInv' /\ StoreInv'
  <1> USE IdAssumption, TargetAssumption
  <1>1. TypeOK /\ PlanInv /\ DeferInv /\ StoreInv
    BY DEF IInv, StoreInv
  <1>2. /\ rec' = rec \ {d} /\ deferred' = deferred \ {d}
        /\ sx' = [i \in Id |-> IF i = d \/ i \in MarkedBy(d) THEN "none" ELSE sx[i]]
        /\ gone' = [e \in Entry |-> IF e \in MarkedBy(d) THEN None ELSE gone[e]]
        /\ UNCHANGED <<head, loc, task, queue, fetched>>
    BY DEF Expire
  <1>3. \A e \in Entry : e # d /\ (e \in MarkedBy(d) <=> gone[e] = d)
    BY DEF MarkedBy
  <1>4. PlanInv' /\ DeferInv'
    BY <1>1, <1>2 DEF PlanInv, DeferInv
  <1>5. MarkerInv'
    BY <1>1, <1>2, <1>3 DEF StoreInv, MarkerInv
  <1>6. HeadInv' /\ OneListed'
    BY <1>1, <1>2 DEF StoreInv, HeadInv, OneListed
  <1>7. NewestInv'
    BY <1>1, <1>2, <1>3 DEF StoreInv, NewestInv
  <1>8. ClaimIsServable'
    BY <1>1, <1>2, <1>3 DEF StoreInv, ClaimIsServable, Servable
  <1>9. DroppedIsUnread' /\ ReadableIsHeld'
    BY <1>1, <1>2, <1>3 DEF StoreInv, DroppedIsUnread, ReadableIsHeld
  <1>10. QED
    BY <1>4, <1>5, <1>6, <1>7, <1>8, <1>9 DEF StoreInv

LEMMA ReindexCommitStep ==
  ASSUME IInv, ReindexCommit
  PROVE  PlanInv' /\ DeferInv' /\ StoreInv'
  <1> USE IdAssumption
  <1>1. TypeOK /\ PlanInv /\ DeferInv /\ StoreInv
    BY DEF IInv, StoreInv
  <1>2. fetched \in Unknown /\ fetched' = None /\ UNCHANGED <<rec, sx, gone, task, queue>>
    BY <1>1 DEF ReindexCommit, DeferInv
  <1>3. deferred' = deferred \cup {fetched} \/ deferred' = deferred \ {fetched}
    BY DEF ReindexCommit
  <1>4. PlanInv' /\ DeferInv'
    BY <1>1, <1>2, <1>3 DEF PlanInv, DeferInv
  <1>5. MarkerInv' /\ ClaimIsServable'
    BY <1>1, <1>2 DEF StoreInv, MarkerInv, ClaimIsServable, Servable
  <1>6. CASE ~Undecided(fetched) /\ fetched \in Entry
    <2>1. /\ head' = IndexedHead(fetched) /\ loc' = IndexedLoc(fetched)
          /\ deferred' = deferred \ {fetched}
      BY <1>6 DEF ReindexCommit
    <2>2. \A f \in Entry : loc'[f] = "none" <=> f # fetched /\ loc[f] = "none"
      BY <1>1, <1>6, <2>1, IndexType
    <2>3. \A f \in Entry : Newest(f) /\ loc[f] # "none" => head[KeyOf[f]] = f
      BY <1>1 DEF StoreInv, NewestInv
    <2>4. HeadInv /\ OneListed
      BY <1>1 DEF StoreInv
    <2>5. /\ HeadInv' /\ OneListed'
          /\ \A f \in Entry : Newest(f) /\ loc'[f] # "none" => head'[KeyOf[f]] = f
      BY <1>1, <1>6, <2>1, <2>3, <2>4, IndexStep
    <2>6. NewestInv'
      BY <1>1, <1>2, <2>1, <2>2, <2>5 DEF StoreInv, NewestInv
    <2>7. DroppedIsUnread' /\ ReadableIsHeld'
      BY <1>1, <1>2, <2>2 DEF StoreInv, DroppedIsUnread, ReadableIsHeld
    <2>8. QED
      BY <1>4, <1>5, <2>5, <2>6, <2>7 DEF StoreInv
  <1>7. CASE Undecided(fetched) \/ fetched \notin Entry
    <2>1. UNCHANGED <<head, loc>> /\ \A e \in Entry : e \in deferred => e \in deferred'
      BY <1>7 DEF ReindexCommit
    <2>2. HeadInv' /\ OneListed'
      BY <1>1, <2>1 DEF StoreInv, HeadInv, OneListed
    <2>3. NewestInv'
      BY <1>1, <1>2, <2>1 DEF StoreInv, NewestInv
    <2>4. DroppedIsUnread' /\ ReadableIsHeld'
      BY <1>1, <1>2, <2>1 DEF StoreInv, DroppedIsUnread, ReadableIsHeld
    <2>5. QED
      BY <1>4, <1>5, <2>2, <2>3, <2>4 DEF StoreInv
  <1>8. QED
    BY <1>6, <1>7

LEMMA ReindexReadStep ==
  ASSUME IInv, NEW i \in Id, ReindexRead(i)
  PROVE  PlanInv' /\ DeferInv' /\ StoreInv'
  <1> USE IdAssumption
  <1>1. TypeOK /\ PlanInv /\ DeferInv /\ StoreInv
    BY DEF IInv, StoreInv
  <1>2. /\ queue' = queue \ {i} /\ i \in queue
        /\ UNCHANGED <<rec, sx, gone, head, loc, task>>
        /\ fetched' \in {i, fetched}
        /\ deferred' = deferred \/ (i \notin rec /\ deferred' = deferred \ {i})
    BY DEF ReindexRead
  <1>3. PlanInv' /\ DeferInv'
    BY <1>1, <1>2 DEF PlanInv, DeferInv
  <1>4. NewestInv'
    BY <1>1, <1>2 DEF StoreInv, NewestInv
  <1>5. QED
    BY <1>1, <1>2, <1>3, <1>4 DEF StoreInv, MarkerInv, HeadInv, OneListed, ClaimIsServable,
       Servable, DroppedIsUnread, ReadableIsHeld

-----------------------------------------------------------------------------
(* The invariant. *)

LEMMA InvInit == Init => IInv
  <1> USE IdAssumption
  <1> SUFFICES ASSUME Init PROVE IInv
    OBVIOUS
  <1>1. TypeOK
    BY TypeInit
  <1>2. PlanInv /\ DeferInv
    BY DEF Init, Idle, PlanInv, DeferInv, Id
  <1>3. MarkerInv /\ HeadInv /\ OneListed /\ ClaimIsServable
    BY EntryAssumption DEF Init, MarkerInv, HeadInv, OneListed, ClaimIsServable
  <1>4. NewestInv /\ DroppedIsUnread /\ ReadableIsHeld
    BY DEF Init, NewestInv, DroppedIsUnread, ReadableIsHeld
  <1>5. QED
    BY <1>1, <1>2, <1>3, <1>4 DEF IInv

LEMMA InvStep ==
  ASSUME IInv, [Next]_vars
  PROVE  IInv'
  <1> USE IdAssumption, TargetAssumption
  <1>1. TypeOK /\ PlanInv /\ DeferInv /\ StoreInv
    BY DEF IInv, StoreInv
  <1> SUFFICES PlanInv' /\ DeferInv' /\ StoreInv'
    BY <1>1, TypeStep DEF IInv, StoreInv
  <1>2. ASSUME NEW e \in Entry, IngestEntry(e) PROVE PlanInv' /\ DeferInv' /\ StoreInv'
    <2>1. task' = [task EXCEPT ![e].step = "admit"] /\ e \in Id
      BY <1>2 DEF IngestEntry, Id
    <2>2. UNCHANGED <<storeVars, queue, fetched>>
      BY <1>2 DEF IngestEntry
    <2>3. \A i \in Id : /\ task'[i].drop = task[i].drop /\ task'[i].todo = task[i].todo
                        /\ task'[i].held = task[i].held /\ task'[i].defer = task[i].defer
      BY <1>1, <2>1 DEF TypeOK, Task
    <2>4. PlanInv' /\ DeferInv'
      BY <1>1, <2>2, <2>3 DEF PlanInv, DeferInv, storeVars, Id
    <2>5. QED
      BY <1>1, <2>2, <2>4, StoreUnchanged
  <1>3. ASSUME NEW d \in DropList, IngestDropList(d) PROVE PlanInv' /\ DeferInv' /\ StoreInv'
    <2>1. /\ task' = [task EXCEPT ![d].step = "targets", ![d].todo = Targets[d]]
          /\ d \in Id /\ task[d] = Idle
      BY <1>3 DEF IngestDropList, Id
    <2>2. UNCHANGED <<storeVars, queue, fetched>>
      BY <1>3 DEF IngestDropList
    <2>3. \A i \in Id : /\ task'[i].drop = task[i].drop /\ task'[i].held = task[i].held
                        /\ task'[i].defer = task[i].defer
                        /\ task'[i].todo = IF i = d THEN Targets[d] ELSE task[i].todo
      BY <1>1, <2>1 DEF TypeOK, Task
    <2>4. PlanInv' /\ DeferInv'
      BY <1>1, <2>2, <2>3 DEF PlanInv, DeferInv, storeVars, Id
    <2>5. QED
      BY <1>1, <2>2, <2>4, StoreUnchanged
  <1>4. ASSUME NEW d \in DropList, NEW e \in Entry, ReadTarget(d, e)
        PROVE  PlanInv' /\ DeferInv' /\ StoreInv'
    <2>1. UNCHANGED <<storeVars, queue, fetched>> /\ e \in task[d].todo /\ d \in Id
      BY <1>4 DEF ReadTarget, Id
    <2>2. task[d] \in Task /\ DOMAIN task = Id
      BY <1>1, <2>1 DEF TypeOK
    <2>3. /\ \A i \in Id : i # d => task'[i] = task[i]
          /\ task'[d].todo = task[d].todo \ {e}
          /\ task'[d].defer = task[d].defer
          /\ task'[d].drop = IF gone[e] = None THEN task[d].drop \cup {e} ELSE task[d].drop
          /\ task'[d].held = IF gone[e] = None /\ e \in rec
                               THEN task[d].held \cup {e} ELSE task[d].held
      BY <1>4, <2>1, <2>2 DEF ReadTarget, Task
    <2>4. PlanInv'
      BY <1>1, <2>1, <2>3 DEF PlanInv, Id
    <2>5. DeferInv'
      BY <1>1, <2>1, <2>3 DEF DeferInv, storeVars
    <2>6. QED
      BY <1>1, <2>1, <2>4, <2>5, StoreUnchanged
  <1>5. ASSUME NEW i \in Id, Admit(i) PROVE PlanInv' /\ DeferInv' /\ StoreInv'
    <2>1. UNCHANGED <<storeVars, queue, fetched>>
      BY <1>5 DEF Admit
    <2>2. task[i] \in Task /\ DOMAIN task = Id
      BY <1>1 DEF TypeOK
    <2>3. /\ \A j \in Id : j # i => task'[j] = task[j]
          /\ task'[i].drop = task[i].drop /\ task'[i].todo = task[i].todo
          /\ task'[i].held = task[i].held /\ task'[i].defer = Undecided(i)
      BY <1>5, <2>2 DEF Admit, Task
    <2>4. PlanInv'
      BY <1>1, <2>3 DEF PlanInv, Id
    <2>5. DeferInv'
      BY <1>1, <2>1, <2>3 DEF DeferInv, Undecided, storeVars
    <2>6. QED
      BY <1>1, <2>1, <2>4, <2>5, StoreUnchanged
  <1>6. ASSUME NEW e \in Entry, CommitEntry(e) PROVE PlanInv' /\ DeferInv' /\ StoreInv'
    BY <1>6, CommitEntryStep
  <1>7. ASSUME NEW d \in DropList, CommitDropList(d) PROVE PlanInv' /\ DeferInv' /\ StoreInv'
    BY <1>7, CommitDropListStep
  <1>8. ASSUME NEW i \in Id, CommitFails(i) PROVE PlanInv' /\ DeferInv' /\ StoreInv'
    <2>1. task' = [task EXCEPT ![i] = Idle] /\ UNCHANGED <<storeVars, queue, fetched>>
      BY <1>8 DEF CommitFails
    <2>2. PlanInv' /\ \A j \in Id : task'[j].defer => j \in Unknown
      BY <1>1, <2>1, IdlePlan
    <2>3. DeferInv'
      BY <1>1, <2>1, <2>2 DEF DeferInv, storeVars
    <2>4. QED
      BY <1>1, <2>1, <2>2, <2>3, StoreUnchanged
  <1>9. ASSUME NEW d \in DropList, Expire(d) PROVE PlanInv' /\ DeferInv' /\ StoreInv'
    BY <1>9, ExpireStep
  <1>10. CASE LearnMembers
    <2>1. UNCHANGED <<storeVars, task, queue, fetched>>
      BY <1>10 DEF LearnMembers
    <2>2. PlanInv' /\ DeferInv'
      BY <1>1, <2>1 DEF PlanInv, DeferInv, storeVars
    <2>3. QED
      BY <1>1, <2>1, <2>2, StoreUnchanged
  <1>11. CASE StartReindex
    <2>1. UNCHANGED <<storeVars, task, fetched>> /\ queue' = deferred
      BY <1>11 DEF StartReindex
    <2>2. PlanInv' /\ DeferInv'
      BY <1>1, <2>1 DEF PlanInv, DeferInv, storeVars
    <2>3. QED
      BY <1>1, <2>1, <2>2, StoreUnchanged
  <1>12. ASSUME NEW i \in Id, ReindexRead(i) PROVE PlanInv' /\ DeferInv' /\ StoreInv'
    BY <1>12, ReindexReadStep
  <1>13. CASE ReindexCommit
    BY <1>13, ReindexCommitStep
  <1>14. CASE Restart
    <2>1. /\ UNCHANGED storeVars /\ queue' = {} /\ fetched' = None
          /\ task' = [i \in Id |-> Idle]
      BY <1>14 DEF Restart
    <2>2. PlanInv' /\ DeferInv'
      BY <1>1, <2>1 DEF PlanInv, DeferInv, storeVars, Idle, Id
    <2>3. QED
      BY <1>1, <2>1, <2>2, StoreUnchanged
  <1>15. CASE UNCHANGED vars
    <2>1. UNCHANGED <<storeVars, task, queue, fetched>>
      BY <1>15 DEF vars
    <2>2. PlanInv' /\ DeferInv'
      BY <1>1, <2>1 DEF PlanInv, DeferInv, storeVars
    <2>3. QED
      BY <1>1, <2>1, <2>2, StoreUnchanged
  <1>16. QED
    BY <1>2, <1>3, <1>4, <1>5, <1>6, <1>7, <1>8, <1>9, <1>10, <1>11, <1>12, <1>13,
       <1>14, <1>15 DEF Next, IngestStep, ReindexStep

LEMMA Invariance == Spec => []IInv
  <1>1. IInv /\ [Next]_vars => IInv'
    BY InvStep
  <1>2. QED
    BY InvInit, <1>1, PTL DEF Spec

(***************************************************************************)
(* Last write wins: the newest version, held and decided, is the head of   *)
(* its key (index() of records.js and the commit lock of envelopes.js).    *)
(***************************************************************************)
THEOREM LastWriteWins == Spec => []NewestIsHead
  <1>1. IInv => NewestIsHead
    BY DEF IInv, NewestInv, NewestIsHead
  <1>2. QED
    BY Invariance, <1>1, PTL

(* query() lists no replaced version: demote() and index() work together. *)
THEOREM ListedIsCurrent == Spec => []OneListed
  <1>1. IInv => OneListed
    BY DEF IInv
  <1>2. QED
    BY Invariance, <1>1, PTL

(* What the sync index claims, bytesFor() can send, drops and expiry included. *)
THEOREM ClaimsServed == Spec => []ClaimIsServable
  <1>1. IInv => ClaimIsServable
    BY DEF IInv
  <1>2. QED
    BY Invariance, <1>1, PTL

(* Nothing dropped is readable again while its marker is held. *)
THEOREM NothingComesBack == Spec => []DroppedIsUnread
  <1>1. IInv => DroppedIsUnread
    BY DEF IInv
  <1>2. QED
    BY Invariance, <1>1, PTL

(* An index entry always has its envelope. *)
THEOREM IndexHasEnvelope == Spec => []ReadableIsHeld
  <1>1. IInv => ReadableIsHeld
    BY DEF IInv
  <1>2. QED
    BY Invariance, <1>1, PTL
=============================================================================
