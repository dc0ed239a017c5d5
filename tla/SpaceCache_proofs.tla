-------------------------- MODULE SpaceCache_proofs --------------------------
(***************************************************************************)
(* Proofs about SpaceCache, for any Nodes, callers, caps and bounds.       *)
(***************************************************************************)
EXTENDS SpaceCache, FiniteSetTheorems, SequenceTheorems, TLAPS

-----------------------------------------------------------------------------
(* The inductive invariant. *)

(* Who has called useNode(id) and not yet released it. *)
Users(calls, id) == {u \in Caller : calls[u] # Idle /\ calls[u].id = id}

(* A count is that of the users and of the failed loads; that of a group   *)
(* Node only grows.                                                        *)
CountInv ==
  \A id \in Id :
    /\ leaked[id] <= fails
    /\ Cardinality(Users(call, id)) + leaked[id] <= refs[id]
    /\ id \notin Group => refs[id] = Cardinality(Users(call, id)) + leaked[id]

NoTwice(s) == \A i, j \in 1..Len(s) : s[i] = s[j] => i = j

(* A Node in use is not warm and has no timer. *)
WarmInv ==
  /\ NoTwice(warm)
  /\ \A id \in Id : refs[id] > 0 => id \notin timers /\ ~ Contains(warm, id)

(* FreedOrWarm, of the count. *)
KeptInv ==
  /\ Len(warm) <= cap
  /\ \A id \in Id \ Group :
       node[id] # 0 => refs[id] > 0 \/ (Contains(warm, id) /\ id \in timers)

IInv == TypeOK /\ CountInv /\ WarmInv /\ HeldIsAttached /\ KeptInv

-----------------------------------------------------------------------------
(* Sequences. *)

LEMMA RemoveAtElements ==
  ASSUME NEW S, NEW s \in Seq(S), NEW i \in 1..Len(s)
  PROVE  /\ RemoveAt(s, i) \in Seq(S) /\ Len(RemoveAt(s, i)) = Len(s) - 1
         /\ \A k \in 1 .. Len(s) - 1 :
              RemoveAt(s, i)[k] = IF k < i THEN s[k] ELSE s[k + 1]
  <1> DEFINE front == SubSeq(s, 1, i - 1)
             rest == SubSeq(s, i + 1, Len(s))
  <1>1. Len(s) \in Nat /\ i \in Nat /\ 1 <= i /\ i <= Len(s)
    OBVIOUS
  <1>2. \A k \in 1..Len(s) : s[k] \in S
    BY ElementOfSeq
  <1>3. /\ front \in Seq(S) /\ Len(front) = i - 1
        /\ \A k \in 1 .. i - 1 : front[k] = s[k]
    BY <1>1, <1>2, SubSeqProperties
  <1>4. /\ rest \in Seq(S) /\ Len(rest) = Len(s) - i
        /\ \A k \in 1 .. Len(s) - i : rest[k] = s[i + k]
    BY <1>1, <1>2, SubSeqProperties
  <1> HIDE DEF front, rest
  <1>5. /\ front \o rest \in Seq(S) /\ Len(front \o rest) = Len(s) - 1
        /\ \A k \in 1 .. Len(s) - 1 :
             (front \o rest)[k] = IF k <= i - 1 THEN front[k] ELSE rest[k - (i - 1)]
    <2>1. /\ front \o rest \in Seq(S)
          /\ Len(front \o rest) = Len(front) + Len(rest)
          /\ \A k \in 1 .. Len(front) + Len(rest) :
               (front \o rest)[k] =
                 IF k <= Len(front) THEN front[k] ELSE rest[k - Len(front)]
      BY <1>3, <1>4, ConcatProperties
    <2>2. Len(front) = i - 1 /\ Len(front) + Len(rest) = Len(s) - 1
      BY <1>1, <1>3, <1>4
    <2>3. QED
      BY <2>1, <2>2
  <1>6. RemoveAt(s, i) = front \o rest
    BY DEF RemoveAt, front, rest
  <1>7. ASSUME NEW k \in 1 .. Len(s) - 1
        PROVE  (front \o rest)[k] = IF k < i THEN s[k] ELSE s[k + 1]
    <2>1. CASE k < i
      BY <1>1, <1>3, <1>5, <1>7, <2>1
    <2>2. CASE ~ (k < i)
      <3>1. k - (i - 1) \in 1 .. Len(s) - i /\ i + (k - (i - 1)) = k + 1
        BY <1>1, <1>7, <2>2
      <3>2. rest[k - (i - 1)] = s[k + 1]
        BY <1>4, <3>1
      <3>3. QED
        BY <1>1, <1>5, <1>7, <2>2, <3>2
    <2>3. QED
      BY <2>1, <2>2
  <1>8. QED
    BY <1>5, <1>6, <1>7

(* The warm list without x. *)
LEMMA RemovedElements ==
  ASSUME NEW S, NEW s \in Seq(S), NEW x, NoTwice(s)
  PROVE  /\ Removed(s, x) \in Seq(S) /\ Len(Removed(s, x)) <= Len(s)
         /\ NoTwice(Removed(s, x)) /\ ~ Contains(Removed(s, x), x)
         /\ \A y : y # x => (Contains(Removed(s, x), y) <=> Contains(s, y))
  <1>1. CASE ~ Contains(s, x)
    BY <1>1 DEF Removed
  <1>2. CASE Contains(s, x)
    <2> DEFINE i == CHOOSE j \in 1..Len(s) : s[j] = x
               r == RemoveAt(s, i)
    <2>1. i \in 1..Len(s) /\ s[i] = x
      BY <1>2 DEF Contains
    <2>2. Removed(s, x) = r
      BY <1>2 DEF Removed
    <2> HIDE DEF i
    <2>3. /\ r \in Seq(S) /\ Len(r) = Len(s) - 1
          /\ \A k \in 1 .. Len(s) - 1 : r[k] = IF k < i THEN s[k] ELSE s[k + 1]
      BY <2>1, RemoveAtElements
    <2> HIDE DEF r
    <2>4. Len(s) \in Nat /\ i \in Nat
      BY <2>1
    <2>5. NoTwice(r)
      BY <2>3, <2>4, SMTT(30) DEF NoTwice
    <2>6. ~ Contains(r, x)
      BY <2>1, <2>3, <2>4 DEF NoTwice, Contains
    <2>7. ASSUME NEW y, y # x
          PROVE  Contains(r, y) <=> Contains(s, y)
      <3>1. ASSUME Contains(r, y) PROVE Contains(s, y)
        BY <2>3, <2>4, <3>1 DEF Contains
      <3>2. ASSUME Contains(s, y) PROVE Contains(r, y)
        <4>1. PICK k \in 1..Len(s) : s[k] = y
          BY <3>2 DEF Contains
        <4>2. k # i
          BY <2>1, <2>7, <4>1
        <4>3. CASE k < i
          <5>1. k \in 1 .. Len(r) /\ r[k] = y
            BY <2>1, <2>3, <2>4, <4>1, <4>3
          <5>2. QED
            BY <5>1 DEF Contains
        <4>4. CASE k > i
          <5>1. k - 1 \in 1 .. Len(r) /\ r[k - 1] = y
            BY <2>1, <2>3, <2>4, <4>1, <4>4
          <5>2. QED
            BY <5>1 DEF Contains
        <4>5. QED
          BY <2>4, <4>2, <4>3, <4>4
      <3>3. QED
        BY <3>1, <3>2
    <2>8. QED
      BY <2>2, <2>3, <2>4, <2>5, <2>6, <2>7
  <1>3. QED
    BY <1>1, <1>2

(* A Node that goes warm is the last of the list. *)
LEMMA AppendElements ==
  ASSUME NEW S, NEW s \in Seq(S), NEW x \in S, NoTwice(s), ~ Contains(s, x)
  PROVE  /\ Append(s, x) \in Seq(S) /\ NoTwice(Append(s, x))
         /\ \A y : Contains(Append(s, x), y) <=> y = x \/ Contains(s, y)
  <1>1. /\ Append(s, x) \in Seq(S) /\ Len(Append(s, x)) = Len(s) + 1
        /\ Append(s, x)[Len(s) + 1] = x
        /\ \A k \in 1..Len(s) : Append(s, x)[k] = s[k]
        /\ Len(s) \in Nat
    OBVIOUS
  <1> DEFINE a == Append(s, x)
  <1> HIDE DEF a
  <1>2. NoTwice(a)
    BY <1>1 DEF a, NoTwice, Contains
  <1>3. ASSUME NEW y PROVE Contains(a, y) <=> y = x \/ Contains(s, y)
    BY <1>1 DEF a, Contains
  <1>4. QED
    BY <1>1, <1>2, <1>3 DEF a

(* Eviction splits the list: the oldest go, as many as are over the cap. *)
LEMMA EvictionSplits ==
  ASSUME NEW S, NEW s \in Seq(S), NoTwice(s), cap \in Nat
  PROVE  LET e == OverCap(s)
             kept == SubSeq(s, Len(e) + 1, Len(s))
         IN  /\ kept \in Seq(S) /\ Len(kept) <= cap /\ NoTwice(kept)
             /\ \A y : Contains(s, y) <=> Contains(e, y) \/ Contains(kept, y)
             /\ \A y : ~ (Contains(e, y) /\ Contains(kept, y))
  <1> DEFINE e == OverCap(s)
             n == IF Len(s) > cap THEN Len(s) - cap ELSE 0
             kept == SubSeq(s, Len(e) + 1, Len(s))
  <1>1. n \in Nat /\ n <= Len(s) /\ Len(s) \in Nat /\ Len(s) - n <= cap
    OBVIOUS
  <1>2. Len(e) = n /\ \A k \in 1..n : e[k] = s[k]
    BY DEF OverCap
  <1> HIDE DEF e, n
  <1>3. /\ kept \in Seq(S) /\ Len(kept) = Len(s) - n
        /\ \A k \in 1 .. Len(s) - n : kept[k] = s[n + k]
    BY <1>1, <1>2
  <1> HIDE DEF kept
  <1>4. NoTwice(kept)
    BY <1>1, <1>3 DEF NoTwice
  <1>5. ASSUME NEW y PROVE Contains(s, y) => Contains(e, y) \/ Contains(kept, y)
    <2>1. SUFFICES ASSUME NEW k \in 1..Len(s), s[k] = y
                   PROVE  Contains(e, y) \/ Contains(kept, y)
      BY DEF Contains
    <2>2. CASE k <= n
      BY <1>1, <1>2, <2>1, <2>2 DEF Contains
    <2>3. CASE k > n
      <3>1. k - n \in 1 .. Len(kept) /\ kept[k - n] = y
        BY <1>1, <1>3, <2>1, <2>3
      <3>2. QED
        BY <3>1 DEF Contains
    <2>4. QED
      BY <1>1, <2>2, <2>3
  <1>6. ASSUME NEW y PROVE Contains(e, y) \/ Contains(kept, y) => Contains(s, y)
    <2>1. ASSUME NEW k \in 1..n, e[k] = y PROVE Contains(s, y)
      BY <1>1, <1>2, <2>1 DEF Contains
    <2>2. ASSUME NEW k \in 1 .. Len(s) - n, kept[k] = y PROVE Contains(s, y)
      <3>1. n + k \in 1..Len(s) /\ s[n + k] = y
        BY <1>1, <1>3, <2>2
      <3>2. QED
        BY <3>1 DEF Contains
    <2>3. QED
      BY <1>2, <1>3, <2>1, <2>2 DEF Contains
  <1>7. ASSUME NEW y, Contains(e, y), Contains(kept, y) PROVE FALSE
    <2>1. PICK j \in 1..n : s[j] = y
      BY <1>2, <1>7 DEF Contains
    <2>2. PICK k \in 1 .. Len(s) - n : s[n + k] = y
      BY <1>3, <1>7 DEF Contains
    <2>3. j \in 1..Len(s) /\ n + k \in 1..Len(s) /\ j # n + k
      BY <1>1
    <2>4. QED
      BY <2>1, <2>2, <2>3 DEF NoTwice
  <1>8. QED
    BY <1>1, <1>3, <1>4, <1>5, <1>6, <1>7 DEF e, kept

-----------------------------------------------------------------------------
(* Counting users. *)

LEMMA UsersCounted ==
  ASSUME NEW c, NEW id
  PROVE  /\ IsFiniteSet(Users(c, id)) /\ Cardinality(Users(c, id)) \in Nat
         /\ Cardinality(Users(c, id)) = 0 => Users(c, id) = {}
  <1>1. Users(c, id) \in SUBSET Caller /\ IsFiniteSet(Caller)
    BY BoundsAssumption DEF Users
  <1>2. IsFiniteSet(Users(c, id))
    BY <1>1, FS_Subset
  <1>3. QED
    BY <1>2, FS_CardinalityType, FS_EmptySet

LEMMA UserAdded ==
  ASSUME NEW c, NEW d, NEW id, NEW u, u \notin Users(c, id),
         Users(d, id) = Users(c, id) \cup {u}
  PROVE  Cardinality(Users(d, id)) = Cardinality(Users(c, id)) + 1
  <1>1. IsFiniteSet(Users(c, id))
    BY UsersCounted
  <1>2. Cardinality(Users(c, id) \cup {u}) = Cardinality(Users(c, id)) + 1
    BY <1>1, FS_AddElement
  <1>3. QED
    BY <1>2

LEMMA UserRemoved ==
  ASSUME NEW c, NEW d, NEW id, NEW u \in Users(c, id),
         Users(d, id) = Users(c, id) \ {u}
  PROVE  /\ Cardinality(Users(d, id)) = Cardinality(Users(c, id)) - 1
         /\ Cardinality(Users(c, id)) >= 1
  <1>1. IsFiniteSet(Users(c, id)) /\ Cardinality(Users(c, id)) \in Nat
    BY UsersCounted
  <1>2. Cardinality(Users(d, id)) = Cardinality(Users(c, id)) - 1
    BY <1>1, FS_RemoveElement
  <1>3. Cardinality(Users(c, id)) # 0
    BY UsersCounted
  <1>4. QED
    BY <1>1, <1>2, <1>3

(* What nobody has a reference to, nobody uses. *)
LEMMA UncountedIsUnused ==
  ASSUME IInv, NEW id \in Id, refs[id] = 0
  PROVE  Users(call, id) = {}
  <1>1. Cardinality(Users(call, id)) <= 0
    BY UsersCounted DEF IInv, CountInv, TypeOK
  <1>2. QED
    BY <1>1, UsersCounted

(* The parts of the invariant that a step leaves alone. *)
LEMMA CallType ==
  ASSUME IInv, NEW u \in Caller, call[u] # Idle
  PROVE  /\ call[u].step \in {"hydrating", "applying", "asking", "held"}
         /\ call[u].id \in Id /\ call[u].gen \in 1..MaxGens
         /\ u \in Users(call, call[u].id)
  <1>1. call[u] \in Call
    BY DEF IInv, TypeOK
  <1>2. QED
    BY <1>1 DEF Call, Users

-----------------------------------------------------------------------------
(* The steps. *)

LEMMA UseNodeStep ==
  ASSUME IInv, NEW u \in Caller, NEW id \in Id, UseNode(u, id)
  PROVE  IInv'
  <1>1. PICK s \in {"hydrating", "held", "asking"}, g \in 1..MaxGens :
          /\ call[u] = Idle /\ refs[id] < MaxRefs
          /\ warm' = Removed(warm, id) /\ timers' = timers \ {id}
          /\ refs' = [refs EXCEPT ![id] = @ + 1]
          /\ call' = [call EXCEPT ![u] = [step |-> s, id |-> id, gen |-> g]]
          /\ gens' \in [Id -> 0..MaxGens] /\ skip' \in [Id -> BOOLEAN]
          /\ node' = [node EXCEPT ![id] = g]
          /\ node[id] \in {0, g}
    <2>1. CASE node[id] = 0
      <3>1. gens[id] + 1 \in 1..MaxGens
        BY <2>1, BoundsAssumption DEF UseNode, IInv, TypeOK
      <3>2. gens' \in [Id -> 0..MaxGens] /\ skip' \in [Id -> BOOLEAN]
        <4>1. gens[id] + 1 \in 0..MaxGens
          BY <3>1, BoundsAssumption
        <4>2. /\ gens' = [gens EXCEPT ![id] = gens[id] + 1]
              /\ skip' = [skip EXCEPT ![id] = TRUE]
          BY <2>1 DEF UseNode
        <4>3. QED
          BY <4>1, <4>2 DEF IInv, TypeOK
      <3>3. QED
        BY <2>1, <3>1, <3>2 DEF UseNode, TimersCleared
    <2>2. CASE node[id] # 0
      <3>1. node[id] \in 1..MaxGens /\ node = [node EXCEPT ![id] = node[id]]
        BY <2>2, BoundsAssumption DEF IInv, TypeOK
      <3>2. QED
        BY <2>2, <3>1 DEF UseNode, TimersCleared, IInv, TypeOK
    <2>3. QED
      BY <2>1, <2>2
  <1>2. UNCHANGED <<cap, leaked, writes, at, doc, log, snaps, raced, fails, crashes>>
    BY DEF UseNode, writeVars
  <1>3. /\ call'[u] = [step |-> s, id |-> id, gen |-> g] /\ call'[u] # Idle
        /\ call'[u] \in Call
        /\ \A v \in Caller \ {u} : call'[v] = call[v]
    BY <1>1 DEF IInv, TypeOK, Call, Idle
  <1>4. /\ warm' \in Seq(Id) /\ Len(warm') <= Len(warm) /\ NoTwice(warm')
        /\ ~ Contains(warm', id)
        /\ \A y : y # id => (Contains(warm', y) <=> Contains(warm, y))
    BY <1>1, RemovedElements DEF IInv, TypeOK, WarmInv
  <1>5. /\ refs' \in [Id -> 0..MaxRefs] /\ refs'[id] = refs[id] + 1
        /\ \A y \in Id \ {id} : refs'[y] = refs[y]
    BY <1>1, BoundsAssumption, SMTT(30) DEF IInv, TypeOK
  <1>6. TypeOK'
    BY <1>1, <1>2, <1>3, <1>4, <1>5, SMTT(30) DEF IInv, TypeOK
  <1>7. CountInv'
    <2>1. SUFFICES ASSUME NEW y \in Id
                   PROVE  /\ Cardinality(Users(call', y)) + leaked[y] <= refs'[y]
                          /\ y \notin Group =>
                               refs'[y] = Cardinality(Users(call', y)) + leaked[y]
      BY <1>2 DEF CountInv, IInv
    <2>2. /\ refs[y] \in Nat /\ leaked[y] \in Nat
          /\ Cardinality(Users(call, y)) + leaked[y] <= refs[y]
          /\ y \notin Group => refs[y] = Cardinality(Users(call, y)) + leaked[y]
          /\ Cardinality(Users(call, y)) \in Nat /\ Cardinality(Users(call', y)) \in Nat
      BY UsersCounted, SMTT(30) DEF IInv, CountInv, TypeOK
    <2>3. CASE y = id
      <3>1. u \notin Users(call, id) /\ Users(call', id) = Users(call, id) \cup {u}
        BY <1>1, <1>3 DEF Users
      <3>2. Cardinality(Users(call', id)) = Cardinality(Users(call, id)) + 1
        BY <3>1, UserAdded
      <3>3. QED
        BY <1>5, <2>2, <2>3, <3>2
    <2>4. CASE y # id
      <3>1. Users(call', y) = Users(call, y)
        BY <1>1, <1>3, <2>4 DEF Users
      <3>2. QED
        BY <1>5, <2>2, <2>4, <3>1
    <2>5. QED
      BY <2>3, <2>4
  <1>8. WarmInv'
    BY <1>1, <1>4, <1>5 DEF IInv, WarmInv
  <1>9. HeldIsAttached'
    <2>1. SUFFICES ASSUME NEW v \in Caller, call'[v] # Idle
                   PROVE  node'[call'[v].id] = call'[v].gen
      BY DEF HeldIsAttached
    <2>2. node'[id] = g /\ \A y \in Id \ {id} : node'[y] = node[y]
      BY <1>1 DEF IInv, TypeOK
    <2>3. CASE v = u
      BY <1>3, <2>2, <2>3
    <2>4. CASE v # u
      <3>1. call'[v] = call[v] /\ call[v] # Idle
        BY <1>3, <2>1, <2>4
      <3>2. /\ call[v].id \in Id /\ call[v].gen \in 1..MaxGens
            /\ node[call[v].id] = call[v].gen
        BY <3>1, CallType DEF IInv, HeldIsAttached
      <3>3. QED
        BY <1>1, <2>2, <3>1, <3>2
    <2>5. QED
      BY <2>3, <2>4
  <1>10. KeptInv'
    <2>1. Len(warm') <= cap
      BY <1>4, BoundsAssumption DEF IInv, KeptInv, TypeOK
    <2>2. ASSUME NEW y \in Id \ Group, node'[y] # 0
          PROVE  refs'[y] > 0 \/ (Contains(warm', y) /\ y \in timers')
      <3>1. CASE y = id
        BY <1>5, <3>1, BoundsAssumption DEF IInv, TypeOK
      <3>2. CASE y # id
        BY <1>1, <1>4, <1>5, <2>2, <3>2 DEF IInv, KeptInv, TypeOK
      <3>3. QED
        BY <3>1, <3>2
    <2>3. QED
      BY <1>2, <2>1, <2>2 DEF KeptInv
    <1>11. QED
    BY <1>6, <1>7, <1>8, <1>9, <1>10 DEF IInv

(* The log is read, hydration ends, or the request is out: nothing of the  *)
(* invariant moves.                                                        *)
LEMMA CallStep ==
  ASSUME IInv, NEW u \in Caller, ReadLog(u) \/ Hydrated(u) \/ Resolve(u)
  PROVE  IInv'
  <1>1. PICK s \in {"applying", "asking", "held"} :
          /\ call[u].step # "idle" /\ call' = [call EXCEPT ![u].step = s]
          /\ skip' \in [Id -> BOOLEAN]
    BY DEF ReadLog, Hydrated, Resolve, IInv, TypeOK
  <1>2. UNCHANGED <<cap, node, gens, refs, warm, timers, leaked, writes, at, log, snaps,
                    fails, crashes>>
    BY DEF ReadLog, Hydrated, Resolve, writeVars
  <1>3. call[u] # Idle
    BY <1>1 DEF Idle
  <1>4. /\ call'[u] \in Call /\ call'[u] # Idle
        /\ call'[u].id = call[u].id /\ call'[u].gen = call[u].gen
        /\ \A v \in Caller \ {u} : call'[v] = call[v]
    <2>1. call[u] \in [step: {"hydrating", "applying", "asking", "held"},
                       id: Id, gen: 1..MaxGens]
      BY <1>3 DEF IInv, TypeOK, Call
    <2>2. call'[u] = [call[u] EXCEPT !.step = s]
      BY <1>1 DEF IInv, TypeOK
    <2>3. QED
      BY <1>1, <2>1, <2>2 DEF IInv, TypeOK, Call, Idle
  <1>5. TypeOK'
    <2>1. /\ doc' \in [Id -> SUBSET (1..MaxWrites)]
          /\ raced' \subseteq 1..MaxWrites
      <3>1. CASE ReadLog(u)
        BY <1>3, <3>1, CallType DEF ReadLog, WritesTo, IInv, TypeOK
      <3>2. CASE Hydrated(u) \/ Resolve(u)
        BY <3>2 DEF Hydrated, Resolve, writeVars, IInv, TypeOK
      <3>3. QED
        BY <3>1, <3>2
    <2>2. QED
      BY <1>1, <1>2, <1>4, <2>1 DEF IInv, TypeOK
  <1>6. ASSUME NEW id PROVE Users(call', id) = Users(call, id)
    BY <1>3, <1>4 DEF Users
  <1>7. CountInv'
    BY <1>2, <1>6 DEF IInv, CountInv
  <1>8. HeldIsAttached'
    BY <1>2, <1>3, <1>4 DEF IInv, HeldIsAttached
  <1>9. WarmInv' /\ KeptInv'
    BY <1>2 DEF IInv, WarmInv, KeptInv
  <1>10. QED
    BY <1>5, <1>7, <1>8, <1>9 DEF IInv

LEMMA LoadFailsStep ==
  ASSUME IInv, NEW u \in Caller, LoadFails(u)
  PROVE  IInv'
  <1> DEFINE id == call[u].id
  <1>1. call[u] # Idle /\ id \in Id /\ u \in Users(call, id)
    <2>1. call[u] # Idle
      BY DEF LoadFails, Idle
    <2>2. QED
      BY <2>1, CallType
  <1>2. /\ call' = [call EXCEPT ![u] = Idle] /\ fails < MaxFails /\ fails' = fails + 1
        /\ leaked' = [leaked EXCEPT ![id] = @ + 1]
        /\ UNCHANGED <<cap, node, gens, skip, refs, warm, timers, writes, at, doc, log,
                       snaps, raced, crashes>>
    BY DEF LoadFails, writeVars
  <1>3. /\ fails' \in 0..MaxFails /\ fails' > fails
        /\ leaked' \in [Id -> 0..MaxFails] /\ leaked'[id] = leaked[id] + 1
        /\ leaked'[id] <= fails' /\ \A y \in Id \ {id} : leaked'[y] = leaked[y]
    <2>1. /\ fails \in 0..MaxFails /\ MaxFails \in Nat /\ leaked \in [Id -> 0..MaxFails]
          /\ leaked[id] <= fails
      BY <1>1, BoundsAssumption DEF IInv, TypeOK, CountInv
    <2>2. fails' \in 0..MaxFails /\ fails' > fails /\ leaked[id] + 1 \in 0..MaxFails
      BY <1>1, <1>2, <2>1
    <2>3. QED
      BY <1>1, <1>2, <2>1, <2>2
  <1> HIDE DEF id
  <1>4. TypeOK'
    BY <1>2, <1>3 DEF IInv, TypeOK, Call
  <1>5. CountInv'
    <2>1. SUFFICES ASSUME NEW y \in Id
                   PROVE  /\ leaked'[y] <= fails'
                          /\ Cardinality(Users(call', y)) + leaked'[y] <= refs[y]
                          /\ y \notin Group =>
                               refs[y] = Cardinality(Users(call', y)) + leaked'[y]
      BY <1>2 DEF CountInv
    <2>2. /\ leaked[y] <= fails /\ leaked[y] \in Nat /\ refs[y] \in Nat
          /\ fails \in Nat /\ fails' \in Nat
          /\ Cardinality(Users(call, y)) + leaked[y] <= refs[y]
          /\ y \notin Group => refs[y] = Cardinality(Users(call, y)) + leaked[y]
      BY <1>3 DEF IInv, CountInv, TypeOK
    <2>3. Cardinality(Users(call, y)) \in Nat /\ Cardinality(Users(call', y)) \in Nat
      BY UsersCounted
    <2>4. Users(call', y) = Users(call, y) \ {u}
      BY <1>2 DEF Users, IInv, TypeOK
    <2>5. CASE y = id
      <3>1. Cardinality(Users(call', y)) = Cardinality(Users(call, y)) - 1
        BY <1>1, <2>4, <2>5, UserRemoved
      <3>2. QED
        BY <1>3, <2>2, <2>3, <2>5, <3>1
    <2>6. CASE y # id
      <3>1. Users(call', y) = Users(call, y)
        BY <1>1, <2>4, <2>6 DEF Users, id
      <3>2. QED
        BY <1>3, <2>2, <2>6, <3>1
    <2>7. QED
      BY <2>5, <2>6
  <1>6. HeldIsAttached'
    BY <1>2 DEF IInv, HeldIsAttached, TypeOK
  <1>7. WarmInv' /\ KeptInv'
    BY <1>2 DEF IInv, WarmInv, KeptInv
  <1>8. QED
    BY <1>4, <1>5, <1>6, <1>7 DEF IInv

-----------------------------------------------------------------------------
(* A release that leaves other references, or of a group's Node. *)
LEMMA ReleaseKeepsNode ==
  ASSUME IInv, NEW u \in Caller, Release(u),
         call[u].id \in Group \/ refs[call[u].id] > 1
  PROVE  IInv'
  <1> DEFINE id == call[u].id
  <1>1. call[u] # Idle /\ id \in Id /\ u \in Users(call, id)
    <2>1. call[u] # Idle
      BY DEF Release, Idle
    <2>2. QED
      BY <2>1, CallType
  <1>2. /\ call' = [call EXCEPT ![u] = Idle]
        /\ UNCHANGED <<cap, node, gens, skip, warm, timers, leaked, writes, at, doc, log,
                       snaps, raced, fails, crashes>>
        /\ \/ id \in Group /\ refs' = refs
           \/ refs[id] > 1 /\ refs' = [refs EXCEPT ![id] = @ - 1]
    BY <1>1 DEF Release, IInv, TypeOK
  <1>3. /\ refs' \in [Id -> 0..MaxRefs] /\ refs'[id] >= refs[id] - 1
        /\ id \notin Group => refs'[id] = refs[id] - 1
        /\ \A y \in Id \ {id} : refs'[y] = refs[y]
        /\ \A y \in Id : refs'[y] > 0 <=> refs[y] > 0
    <2>1. refs \in [Id -> 0..MaxRefs] /\ MaxRefs \in Nat
      BY BoundsAssumption DEF IInv, TypeOK
    <2>2. CASE id \in Group /\ refs' = refs
      BY <1>1, <2>1, <2>2
    <2>3. CASE refs[id] > 1 /\ refs' = [refs EXCEPT ![id] = @ - 1]
      <3>1. refs[id] - 1 \in 0..MaxRefs /\ refs[id] - 1 > 0
        BY <1>1, <2>1, <2>3
      <3>2. refs'[id] = refs[id] - 1 /\ \A y \in Id \ {id} : refs'[y] = refs[y]
        BY <1>1, <2>1, <2>3
      <3>3. refs' \in [Id -> 0..MaxRefs]
        BY <2>1, <2>3, <3>1
      <3>4. refs'[id] >= refs[id] - 1 /\ refs'[id] > 0
        BY <1>1, <2>1, <3>1, <3>2
      <3>5. ASSUME NEW y \in Id PROVE refs'[y] > 0 <=> refs[y] > 0
        <4>1. CASE y = id
          BY <2>1, <2>3, <3>4, <4>1
        <4>2. CASE y # id
          BY <3>2, <4>2
        <4>3. QED
          BY <4>1, <4>2
      <3>6. QED
        BY <3>2, <3>3, <3>4, <3>5
    <2>4. QED
      BY <1>2, <2>2, <2>3
  <1>4. TypeOK'
    BY <1>2, <1>3 DEF IInv, TypeOK, Call
  <1>5. ASSUME NEW y \in Id
        PROVE  /\ Cardinality(Users(call', y)) + leaked[y] <= refs'[y]
               /\ y \notin Group => refs'[y] = Cardinality(Users(call', y)) + leaked[y]
    <2>1. Users(call', y) = Users(call, y) \ {u}
      BY <1>2 DEF Users, IInv, TypeOK
    <2>2. /\ Cardinality(Users(call, y)) + leaked[y] <= refs[y]
          /\ y \notin Group => refs[y] = Cardinality(Users(call, y)) + leaked[y]
          /\ refs[y] \in Nat /\ refs'[y] \in Nat /\ leaked[y] \in Nat
      BY <1>3 DEF IInv, CountInv, TypeOK
    <2>3. Cardinality(Users(call, y)) \in Nat
      BY UsersCounted
    <2>4. CASE y = id
      <3>1. Cardinality(Users(call', id)) = Cardinality(Users(call, id)) - 1
        BY <1>1, <2>1, <2>4, UserRemoved
      <3>2. QED
        BY <1>3, <2>2, <2>3, <2>4, <3>1
    <2>5. CASE y # id
      <3>1. Users(call', y) = Users(call, y)
        BY <2>1, <2>5 DEF Users
      <3>2. QED
        BY <1>3, <2>2, <2>5, <3>1
    <2>6. QED
      BY <2>4, <2>5
  <1>6. HeldIsAttached'
    BY <1>2 DEF IInv, HeldIsAttached, TypeOK
  <1>7. WarmInv' /\ KeptInv'
    BY <1>2, <1>3 DEF IInv, WarmInv, KeptInv
  <1>8. QED
    BY <1>2, <1>4, <1>5, <1>6, <1>7 DEF IInv, CountInv

(* The last release: the Node goes warm, and the oldest are torn down. *)
LEMMA ReleaseGoesWarm ==
  ASSUME IInv, NEW u \in Caller, Release(u),
         call[u].id \notin Group, refs[call[u].id] <= 1
  PROVE  IInv'
  <1> DEFINE id == call[u].id
             grown == Append(Removed(warm, id), id)
             evicted == OverCap(grown)
             gone == {x \in Id : Contains(evicted, x)}
  <1>1. call[u] # Idle /\ id \in Id /\ u \in Users(call, id)
    <2>1. call[u] # Idle
      BY DEF Release, Idle
    <2>2. QED
      BY <2>1, CallType
  <1>2. /\ call' = [call EXCEPT ![u] = Idle]
        /\ refs' = [refs EXCEPT ![id] = 0]
        /\ warm' = SubSeq(grown, Len(evicted) + 1, Len(grown))
        /\ timers' = (IF id \in gone THEN timers ELSE timers \cup {id}) \ gone
        /\ node' = [y \in Id |-> IF y \in gone THEN 0 ELSE node[y]]
        /\ doc' = [y \in Id |-> IF y \in gone THEN {} ELSE doc[y]]
        /\ UNCHANGED <<cap, gens, skip, leaked, writes, at, log, snaps, raced, fails, crashes>>
    BY DEF Release, Detached, TimersArmed
  <1>3. /\ Removed(warm, id) \in Seq(Id) /\ NoTwice(Removed(warm, id))
        /\ ~ Contains(Removed(warm, id), id)
        /\ \A y : y # id => (Contains(Removed(warm, id), y) <=> Contains(warm, y))
    BY RemovedElements DEF IInv, TypeOK, WarmInv
  <1>4. /\ grown \in Seq(Id) /\ NoTwice(grown)
        /\ \A y : Contains(grown, y) <=> y = id \/ Contains(warm, y)
    <2>1. /\ grown \in Seq(Id) /\ NoTwice(grown)
          /\ \A y : Contains(grown, y) <=> y = id \/ Contains(Removed(warm, id), y)
      BY <1>1, <1>3, AppendElements
    <2>2. QED
      BY <1>3, <2>1
  <1> HIDE DEF grown
  <1>5. /\ warm' \in Seq(Id) /\ Len(warm') <= cap /\ NoTwice(warm')
        /\ \A y : Contains(grown, y) <=> Contains(evicted, y) \/ Contains(warm', y)
        /\ \A y : ~ (Contains(evicted, y) /\ Contains(warm', y))
    <2>1. cap \in Nat
      BY BoundsAssumption DEF IInv, TypeOK
    <2>2. QED
      BY <1>2, <1>4, <2>1, EvictionSplits
  <1> HIDE DEF evicted
  <1>6. /\ refs' \in [Id -> 0..MaxRefs] /\ refs'[id] = 0
        /\ \A y \in Id \ {id} : refs'[y] = refs[y]
    BY <1>1, <1>2, BoundsAssumption DEF IInv, TypeOK
  <1>7. TypeOK'
    <2>1. node' \in [Id -> 0..MaxGens]
      BY <1>2, BoundsAssumption DEF IInv, TypeOK
    <2>2. call' \in [Caller -> Call] /\ timers' \subseteq Id
      BY <1>1, <1>2 DEF IInv, TypeOK, Call
    <2>3. doc' \in [Id -> SUBSET (1..MaxWrites)]
      BY <1>2 DEF IInv, TypeOK
    <2>4. QED
      BY <1>2, <1>5, <1>6, <2>1, <2>2, <2>3 DEF IInv, TypeOK
  <1>8. Users(call', id) = {} /\ leaked[id] = 0
    <2>1. Users(call', id) = Users(call, id) \ {u}
      BY <1>2 DEF Users, IInv, TypeOK
    <2>2. /\ Cardinality(Users(call', id)) = Cardinality(Users(call, id)) - 1
          /\ Cardinality(Users(call, id)) >= 1
      BY <1>1, <2>1, UserRemoved
    <2>3. Cardinality(Users(call, id)) + leaked[id] <= 1 /\ leaked[id] \in Nat
      BY <1>1, UsersCounted DEF IInv, CountInv, TypeOK
    <2>4. Cardinality(Users(call', id)) = 0 /\ leaked[id] = 0
      BY <2>2, <2>3, UsersCounted
    <2>5. QED
      BY <2>4, UsersCounted
  <1>9. ASSUME NEW y \in Id, y # id
        PROVE  Users(call', y) = Users(call, y)
    BY <1>1, <1>2, <1>9 DEF Users, IInv, TypeOK
  <1>10. CountInv'
    <2>1. ASSUME NEW y \in Id
          PROVE  /\ Cardinality(Users(call', y)) + leaked[y] <= refs'[y]
                 /\ y \notin Group => refs'[y] = Cardinality(Users(call', y)) + leaked[y]
      <3>1. CASE y = id
        BY <1>6, <1>8, <3>1, FS_EmptySet
      <3>2. CASE y # id
        BY <1>6, <1>9, <3>2 DEF IInv, CountInv
      <3>3. QED
        BY <3>1, <3>2
    <2>2. QED
      BY <1>2, <2>1 DEF IInv, CountInv
  <1>11. WarmInv'
    <2>1. ASSUME NEW y \in Id, refs'[y] > 0
          PROVE  y \notin timers' /\ ~ Contains(warm', y)
      <3>1. y # id /\ refs[y] > 0
        BY <1>6, <2>1
      <3>2. y \notin timers /\ ~ Contains(warm, y)
        BY <3>1 DEF IInv, WarmInv
      <3>3. QED
        BY <1>2, <1>4, <1>5, <3>1, <3>2
    <2>2. QED
      BY <1>5, <2>1 DEF WarmInv
  <1>12. HeldIsAttached'
    <2>1. SUFFICES ASSUME NEW v \in Caller, call'[v] # Idle
                   PROVE  node'[call'[v].id] = call'[v].gen
      BY DEF HeldIsAttached
    <2>2. v # u /\ call'[v] = call[v]
      BY <1>2, <2>1 DEF IInv, TypeOK
    <2>3. /\ call[v].id \in Id /\ v \in Users(call, call[v].id)
          /\ node[call[v].id] = call[v].gen
      BY <2>1, <2>2, CallType DEF IInv, HeldIsAttached
    <2>4. call[v].id # id
      BY <1>8, <2>1, <2>2 DEF Users
    <2>5. refs[call[v].id] # 0
      BY <2>3, UncountedIsUnused
    <2>6. ~ Contains(warm, call[v].id)
      BY <2>3, <2>5, BoundsAssumption DEF IInv, WarmInv, TypeOK
    <2>7. call[v].id \notin gone
      BY <1>4, <1>5, <2>4, <2>6
    <2>8. QED
      BY <1>2, <2>2, <2>3, <2>7
  <1>13. KeptInv'
    <2>1. ASSUME NEW y \in Id \ Group, node'[y] # 0
          PROVE  refs'[y] > 0 \/ (Contains(warm', y) /\ y \in timers')
      <3>1. y \notin gone /\ node[y] # 0 /\ ~ Contains(evicted, y)
        BY <1>2, <2>1
      <3>2. CASE y = id
        BY <1>2, <1>4, <1>5, <3>1, <3>2
      <3>3. CASE y # id
        <4>1. refs[y] > 0 \/ (Contains(warm, y) /\ y \in timers)
          BY <3>1 DEF IInv, KeptInv
        <4>2. QED
          BY <1>2, <1>4, <1>5, <1>6, <3>1, <3>3, <4>1
      <3>4. QED
        BY <3>2, <3>3
    <2>2. QED
      BY <1>2, <1>5, <2>1 DEF KeptInv
    <1>14. QED
    BY <1>7, <1>10, <1>11, <1>12, <1>13 DEF IInv

LEMMA ReleaseStep ==
  ASSUME IInv, NEW u \in Caller, Release(u)
  PROVE  IInv'
  <1>1. call[u].id \in Id
    <2>1. call[u] # Idle
      BY DEF Release, Idle
    <2>2. QED
      BY <2>1, CallType
  <1>2. refs[call[u].id] > 1 \/ refs[call[u].id] <= 1
    BY <1>1, BoundsAssumption DEF IInv, TypeOK
  <1>3. QED
    BY <1>2, ReleaseKeepsNode, ReleaseGoesWarm

LEMMA ExpireStep ==
  ASSUME IInv, NEW id \in Id, Expire(id)
  PROVE  IInv'
  <1>1. /\ id \in timers /\ timers' = timers \ {id} /\ warm' = Removed(warm, id)
        /\ node' = [y \in Id |-> IF y = id THEN 0 ELSE node[y]]
        /\ doc' = [y \in Id |-> IF y = id THEN {} ELSE doc[y]]
        /\ UNCHANGED <<cap, gens, skip, refs, call, leaked, writes, at, log, snaps, raced,
                       fails, crashes>>
    BY DEF Expire, Detached
  <1>2. /\ warm' \in Seq(Id) /\ Len(warm') <= Len(warm) /\ NoTwice(warm')
        /\ ~ Contains(warm', id)
        /\ \A y : y # id => (Contains(warm', y) <=> Contains(warm, y))
    BY <1>1, RemovedElements DEF IInv, TypeOK, WarmInv
  <1>3. TypeOK'
    BY <1>1, <1>2, BoundsAssumption, SMTT(30) DEF IInv, TypeOK
  <1>4. refs[id] = 0
    BY <1>1, BoundsAssumption DEF IInv, WarmInv, TypeOK
  <1>5. HeldIsAttached'
    <2>1. SUFFICES ASSUME NEW v \in Caller, call[v] # Idle
                   PROVE  node'[call[v].id] = call[v].gen
      BY <1>1 DEF HeldIsAttached
    <2>2. /\ call[v].id \in Id /\ v \in Users(call, call[v].id)
          /\ node[call[v].id] = call[v].gen
      BY <2>1, CallType DEF IInv, HeldIsAttached
    <2>3. call[v].id # id
      BY <1>4, <2>2, UncountedIsUnused
    <2>4. QED
      BY <1>1, <2>2, <2>3
  <1>6. CountInv'
    BY <1>1 DEF IInv, CountInv
  <1>7. WarmInv'
    BY <1>1, <1>2, <1>4 DEF IInv, WarmInv
  <1>8. KeptInv'
    <2>1. Len(warm') <= cap
      BY <1>2, BoundsAssumption DEF IInv, KeptInv, TypeOK
    <2>2. QED
      BY <1>1, <1>2, <2>1 DEF IInv, KeptInv
  <1>9. QED
    BY <1>3, <1>5, <1>6, <1>7, <1>8 DEF IInv

(* The steps of a write and of a snapshot touch nothing of the cache. *)
LogSteps ==
  \/ \E w \in 1..MaxWrites : Store(w) \/ Send(w) \/ \E u \in Caller : Write(u, w)
  \/ \E id \in Id : Encode(id) \/ Receive(id)
  \/ Apply
  \/ \E k \in {"own", "incoming"} : Replace(k)

(* What is under way is a snapshot of a Node. *)
LEMMA SnapType ==
  ASSUME IInv, NEW k \in {"own", "incoming"}, snaps[k] # NoSnap
  PROVE  /\ snaps[k].step \in {"opening", "replacing"} /\ snaps[k].id \in Id
         /\ snaps[k].gen \in 1..MaxGens /\ snaps[k].covers \in SUBSET (1..MaxWrites)
  <1>1. snaps[k] \in Snap
    BY DEF IInv, TypeOK
  <1>2. QED
    BY <1>1 DEF Snap

LEMMA StepIsUnderWay ==
  ASSUME NEW k, snaps[k].step \in {"opening", "replacing"}
  PROVE  snaps[k] # NoSnap
BY DEF NoSnap

LEMMA LogStepType ==
  ASSUME IInv, LogSteps
  PROVE  /\ writes' \in [1..MaxWrites ->
              {"none", "sealing", "stored", "sent", "unsealed", "gone"}]
         /\ at' \in [1..MaxWrites -> Id \cup {None}]
         /\ doc' \in [Id -> SUBSET (1..MaxWrites)] /\ log' \in [Id -> SUBSET (1..MaxWrites)]
         /\ snaps' \in [{"own", "incoming"} -> Snap]
         /\ raced' \subseteq 1..MaxWrites
  <1>1. ASSUME NEW w \in 1..MaxWrites, NEW u \in Caller, Write(u, w)
        PROVE  /\ writes' \in [1..MaxWrites ->
                    {"none", "sealing", "stored", "sent", "unsealed", "gone"}]
               /\ at' \in [1..MaxWrites -> Id \cup {None}]
               /\ doc' \in [Id -> SUBSET (1..MaxWrites)]
               /\ raced' \subseteq 1..MaxWrites /\ UNCHANGED <<log, snaps>>
    <2>1. call[u].id \in Id
      BY <1>1, CallType DEF Write, Idle
    <2>2. QED
      BY <1>1, <2>1 DEF Write, IInv, TypeOK
  <1>2. CASE \E w \in 1..MaxWrites : Store(w)
    <2>1. PICK w \in 1..MaxWrites : Store(w)
      BY <1>2
    <2>2. log' \in [Id -> SUBSET (1..MaxWrites)]
      <3>1. CASE at[w] \in Id
        BY <2>1, <3>1 DEF Store, IInv, TypeOK
      <3>2. CASE at[w] \notin Id
        <4>1. log' = log
          BY <2>1, <3>2 DEF Store, IInv, TypeOK
        <4>2. QED
          BY <4>1 DEF IInv, TypeOK
      <3>3. QED
        BY <3>1, <3>2
    <2>3. QED
      BY <2>1, <2>2 DEF Store, IInv, TypeOK
  <1>3. CASE \E w \in 1..MaxWrites : Send(w)
    BY <1>3 DEF Send, IInv, TypeOK
  <1>4. CASE \E id \in Id : Encode(id) \/ Receive(id)
    <2>1. PICK id \in Id, k \in {"own", "incoming"}, p \in {"opening", "replacing"},
               c \in SUBSET (1..MaxWrites) :
            /\ node[id] # 0
            /\ snaps' = [snaps EXCEPT ![k] =
                           [step |-> p, id |-> id, gen |-> node[id], covers |-> c]]
            /\ raced' \subseteq 1..MaxWrites /\ UNCHANGED <<writes, at, doc, log>>
      <3>1. PICK id \in Id : Encode(id) \/ Receive(id)
        BY <1>4
      <3>2. doc[id] \in SUBSET (1..MaxWrites) /\ raced \subseteq 1..MaxWrites
        BY DEF IInv, TypeOK
      <3>3. CASE Encode(id)
        <4>1. PICK c \in SUBSET doc[id] :
                /\ snaps' = [snaps EXCEPT !["own"] =
                     [step |-> "replacing", id |-> id, gen |-> node[id], covers |-> c]]
                /\ raced' \subseteq raced \cup WritesTo(id)
          BY <3>3 DEF Encode
        <4>2. c \in SUBSET (1..MaxWrites) /\ raced' \subseteq 1..MaxWrites
          BY <3>2, <4>1 DEF WritesTo
        <4>3. node[id] # 0 /\ UNCHANGED <<writes, at, doc, log>>
          BY <3>3 DEF Encode
        <4>4. QED
          BY <4>1, <4>2, <4>3
      <3>4. CASE Receive(id)
        <4>1. PICK c \in SUBSET (1..MaxWrites) :
                /\ snaps' = [snaps EXCEPT !["incoming"] =
                     [step |-> "opening", id |-> id, gen |-> node[id], covers |-> c]]
                /\ raced' \subseteq raced \cup WritesTo(id)
          BY <3>4 DEF Receive, WritesTo
        <4>2. raced' \subseteq 1..MaxWrites
          BY <3>2, <4>1 DEF WritesTo
        <4>3. node[id] # 0 /\ UNCHANGED <<writes, at, doc, log>>
          BY <3>4 DEF Receive
        <4>4. QED
          BY <4>1, <4>2, <4>3
      <3>5. QED
        BY <3>1, <3>3, <3>4
    <2>2. node[id] \in 1..MaxGens
      BY <2>1, BoundsAssumption DEF IInv, TypeOK
    <2>3. [step |-> p, id |-> id, gen |-> node[id], covers |-> c] \in Snap
      BY <2>2 DEF Snap
    <2>4. QED
      BY <2>1, <2>3 DEF IInv, TypeOK
  <1>5. CASE Apply
    <2> DEFINE s == snaps["incoming"]
    <2>1. /\ s \in [step: {"opening", "replacing"}, id: Id, gen: 1..MaxGens,
                    covers: SUBSET (1..MaxWrites)]
      BY <1>5 DEF Apply, IInv, TypeOK, Snap, NoSnap
    <2>2. snaps'["incoming"] \in Snap /\ snaps' \in [{"own", "incoming"} -> Snap]
      BY <1>5, <2>1 DEF Apply, IInv, TypeOK, Snap
    <2>3. doc' \in [Id -> SUBSET (1..MaxWrites)]
      BY <1>5, <2>1 DEF Apply, IInv, TypeOK
    <2>4. QED
      BY <1>5, <2>2, <2>3 DEF Apply, IInv, TypeOK
  <1>6. ASSUME NEW k \in {"own", "incoming"}, Replace(k)
        PROVE  /\ log' \in [Id -> SUBSET (1..MaxWrites)]
               /\ snaps' \in [{"own", "incoming"} -> Snap]
               /\ UNCHANGED <<writes, at, doc, raced>>
    <2>1. snaps[k].covers \in SUBSET (1..MaxWrites)
      BY <1>6, SnapType, StepIsUnderWay DEF Replace
    <2>2. QED
      BY <1>6, <2>1 DEF Replace, IInv, TypeOK, Snap
  <1>7. QED
    BY <1>1, <1>2, <1>3, <1>4, <1>5, <1>6 DEF LogSteps, IInv, TypeOK

LEMMA WriteStep ==
  ASSUME IInv, LogSteps
  PROVE  IInv'
  <1>1. UNCHANGED <<cap, node, gens, skip, refs, warm, timers, call, leaked, fails, crashes>>
    BY DEF LogSteps, Store, Send, Write, Encode, Receive, Apply, Replace, cacheVars
  <1>2. TypeOK'
    BY <1>1, LogStepType DEF IInv, TypeOK
  <1>3. CountInv' /\ WarmInv' /\ HeldIsAttached' /\ KeptInv'
    BY <1>1 DEF IInv, CountInv, WarmInv, HeldIsAttached, KeptInv
  <1>4. QED
    BY <1>2, <1>3 DEF IInv

(* No call, no reference, no warm Node. *)
LEMMA NothingInUse ==
  ASSUME TypeOK, \A u \in Caller : call[u] = Idle, \A id \in Id : node[id] = 0,
         warm = <<>>, \A id \in Id : refs[id] = 0 /\ leaked[id] = 0
  PROVE  CountInv /\ WarmInv /\ HeldIsAttached /\ KeptInv
  <1>1. \A id \in Id : Users(call, id) = {}
    BY DEF Users
  <1>2. CountInv
    <2>1. Cardinality({}) = 0
      BY FS_EmptySet
    <2>2. \A id \in Id : Cardinality(Users(call, id)) = 0
      BY <1>1, <2>1, Zenon
    <2>3. QED
      BY <2>2 DEF CountInv, TypeOK
  <1>3. WarmInv
    BY DEF WarmInv, NoTwice
  <1>4. HeldIsAttached /\ KeptInv
    BY BoundsAssumption DEF HeldIsAttached, KeptInv, TypeOK
  <1>5. QED
    BY <1>2, <1>3, <1>4

LEMMA CrashStep ==
  ASSUME IInv, Crash
  PROVE  IInv'
  <1>1. TypeOK'
    <2>1. /\ writes' \in [1..MaxWrites ->
                {"none", "sealing", "stored", "sent", "unsealed", "gone"}]
          /\ snaps' \in [{"own", "incoming"} -> Snap]
      BY DEF Crash, IInv, TypeOK, Snap
    <2>2. QED
      BY <2>1, BoundsAssumption DEF Crash, IInv, TypeOK, Call
  <1>2. CountInv' /\ WarmInv' /\ HeldIsAttached' /\ KeptInv'
    <2>1. /\ \A u \in Caller : call'[u] = Idle
          /\ \A id \in Id : node'[id] = 0 /\ refs'[id] = 0 /\ leaked'[id] = 0
          /\ warm' = <<>>
      BY DEF Crash
    <2>2. \A id \in Id : Users(call', id) = {}
      BY <2>1 DEF Users
    <2>3. CountInv'
      <3>1. Cardinality({}) = 0
        BY FS_EmptySet
      <3>2. \A id \in Id : Cardinality(Users(call', id)) = 0
        BY <2>2, <3>1, Zenon
      <3>3. QED
        BY <1>1, <2>1, <3>2 DEF CountInv, TypeOK
    <2>4. WarmInv'
      BY <2>1 DEF WarmInv, NoTwice
    <2>5. HeldIsAttached' /\ KeptInv'
      BY <1>1, <2>1, BoundsAssumption DEF HeldIsAttached, KeptInv, TypeOK
    <2>6. QED
      BY <2>3, <2>4, <2>5
  <1>3. QED
    BY <1>1, <1>2 DEF IInv

-----------------------------------------------------------------------------
LEMMA InvInit == Init => IInv
  <1>1. SUFFICES ASSUME Init PROVE IInv
    OBVIOUS
  <1>2. TypeOK
    BY <1>1, BoundsAssumption DEF Init, TypeOK, Call, Snap
  <1>3. CountInv /\ WarmInv /\ HeldIsAttached /\ KeptInv
    BY <1>1, <1>2, NothingInUse DEF Init
  <1>4. QED
    BY <1>2, <1>3 DEF IInv

LEMMA StepCases ==
  ASSUME [Next]_vars
  PROVE  \/ \E u \in Caller, id \in Id : UseNode(u, id)
         \/ \E u \in Caller : ReadLog(u) \/ Hydrated(u) \/ Resolve(u)
         \/ \E u \in Caller : LoadFails(u)
         \/ \E u \in Caller : Release(u)
         \/ \E id \in Id : Expire(id)
         \/ LogSteps
         \/ Crash
         \/ UNCHANGED vars
BY BoundsAssumption DEF Next, LogSteps

LEMMA InvStep == IInv /\ [Next]_vars => IInv'
  <1>1. SUFFICES ASSUME IInv, [Next]_vars PROVE IInv'
    OBVIOUS
  <1>2. CASE \E u \in Caller, id \in Id : UseNode(u, id)
    BY <1>1, <1>2, UseNodeStep
  <1>3. CASE \E u \in Caller : ReadLog(u) \/ Hydrated(u) \/ Resolve(u)
    BY <1>1, <1>3, CallStep
  <1>4. CASE \E u \in Caller : LoadFails(u)
    BY <1>1, <1>4, LoadFailsStep
  <1>5. CASE \E u \in Caller : Release(u)
    BY <1>1, <1>5, ReleaseStep
  <1>6. CASE \E id \in Id : Expire(id)
    BY <1>1, <1>6, ExpireStep
  <1>7. CASE LogSteps
    BY <1>1, <1>7, WriteStep
  <1>8. CASE Crash
    BY <1>1, <1>8, CrashStep
  <1>9. CASE UNCHANGED vars
    BY <1>1, <1>9 DEF vars, cacheVars, writeVars, IInv, TypeOK, CountInv, WarmInv,
       HeldIsAttached, KeptInv
  <1>10. QED
    BY <1>1, <1>2, <1>3, <1>4, <1>5, <1>6, <1>7, <1>8, <1>9, StepCases

LEMMA Invariance == Spec => []IInv
  <1>1. Init => IInv
    BY InvInit
  <1>2. IInv /\ [Next]_vars => IInv'
    BY InvStep
  <1>3. QED
    BY <1>1, <1>2, PTL DEF Spec

-----------------------------------------------------------------------------
(* Where a write is that no snapshot may leave out: in the log once it is  *)
(* stored, in the Y.Doc of its Node once that is loaded, and in every      *)
(* snapshot of its Node under way.                                         *)
Wanted(w) == writes[w] \in {"sealing", "stored", "sent"} /\ w \notin raced

PlacedInv == \A w \in 1..MaxWrites : writes[w] # "none" => at[w] \in Id

LogInv == \A w \in 1..MaxWrites : Wanted(w) /\ writes[w] # "sealing" => w \in log[at[w]]

DocInv ==
  \A w \in 1..MaxWrites : Wanted(w) =>
    /\ node[at[w]] # 0 /\ ~ skip[at[w]] => w \in doc[at[w]]
    /\ \A u \in Caller : call[u].step = "applying" /\ call[u].id = at[w] => w \in doc[at[w]]

SnapInv ==
  \A w \in 1..MaxWrites, k \in {"own", "incoming"} :
    Wanted(w) /\ snaps[k] # NoSnap /\ snaps[k].id = at[w] => w \in snaps[k].covers

WInv == PlacedInv /\ LogInv /\ DocInv /\ SnapInv

(* Steps that change nothing a write, a log or a snapshot is about, and    *)
(* load or unload no Y.Doc but into or out of nothing.                     *)
LEMMA UnmovedKeeps ==
  ASSUME IInv, WInv, UNCHANGED <<writes, at, log, snaps, raced>>,
         \A id \in Id :
           \/ node'[id] = 0 /\ \A u \in Caller : call'[u].step = "applying" => call'[u].id # id
           \/ /\ doc'[id] = doc[id]
              /\ node'[id] # 0 /\ ~ skip'[id] => node[id] # 0 /\ ~ skip[id]
              /\ \A u \in Caller : call'[u].step = "applying" => call'[u] = call[u]
           \/ /\ doc'[id] = doc[id] /\ skip'[id]
              /\ \A u \in Caller : call'[u].step = "applying" => call'[u] = call[u]
  PROVE  WInv'
  <1>1. \A w \in 1..MaxWrites : Wanted(w)' <=> Wanted(w)
    BY DEF Wanted
  <1>2. PlacedInv' /\ LogInv' /\ SnapInv'
    BY <1>1 DEF WInv, PlacedInv, LogInv, SnapInv
  <1>3. ASSUME NEW w \in 1..MaxWrites, Wanted(w)
        PROVE  /\ node'[at[w]] # 0 /\ ~ skip'[at[w]] => w \in doc'[at[w]]
               /\ \A u \in Caller :
                    call'[u].step = "applying" /\ call'[u].id = at[w] => w \in doc'[at[w]]
    <2>1. at[w] \in Id
      BY <1>3 DEF Wanted, WInv, PlacedInv
    <2>2. QED
      BY <1>3, <2>1 DEF WInv, DocInv
  <1>4. DocInv'
    BY <1>1, <1>3 DEF DocInv
  <1>5. QED
    BY <1>2, <1>4 DEF WInv

(* A caller that applies the log of a Node has it attached. *)
LEMMA ApplyingIsAttached ==
  ASSUME IInv, NEW u \in Caller, call[u].step = "applying"
  PROVE  /\ call[u].id \in Id /\ node[call[u].id] # 0 /\ node[call[u].id] = call[u].gen
  <1>1. call[u] # Idle
    BY DEF Idle
  <1>2. QED
    BY <1>1, CallType DEF IInv, HeldIsAttached

LEMMA UseNodeKeepsWrites ==
  ASSUME IInv, WInv, NEW u \in Caller, NEW id \in Id, UseNode(u, id)
  PROVE  WInv'
  <1>1. UNCHANGED <<writes, at, doc, log, snaps, raced>>
    BY DEF UseNode, writeVars
  <1>2. \A v \in Caller : call'[v].step = "applying" => call'[v] = call[v]
    <2>1. PICK st \in {"hydrating", "held", "asking"}, g \in 0..MaxGens \cup {gens[id] + 1} :
            call' = [call EXCEPT ![u] = [step |-> st, id |-> id, gen |-> g]]
      <3>1. CASE node[id] = 0
        BY <3>1 DEF UseNode
      <3>2. CASE node[id] # 0
        <4>1. node[id] \in 0..MaxGens
          BY DEF IInv, TypeOK
        <4>2. QED
          BY <3>2, <4>1 DEF UseNode
      <3>3. QED
        BY <3>1, <3>2
    <2>2. call'[u].step = st /\ \A v \in Caller \ {u} : call'[v] = call[v]
      BY <2>1 DEF IInv, TypeOK
    <2>3. QED
      BY <2>2
  <1>3. ASSUME NEW y \in Id
        PROVE  skip'[y] \/ (node'[y] = node[y] /\ skip'[y] = skip[y])
    BY DEF UseNode, IInv, TypeOK
  <1>4. QED
    BY <1>1, <1>2, <1>3, UnmovedKeeps

LEMMA ReadLogKeepsWrites ==
  ASSUME IInv, WInv, NEW u \in Caller, ReadLog(u)
  PROVE  WInv'
  <1> DEFINE id == call[u].id
  <1>1. id \in Id
    BY CallType DEF ReadLog, Idle
  <1>2. /\ UNCHANGED <<node, skip, writes, at, log, snaps>>
        /\ doc'[id] = doc[id] \cup log[id] /\ \A y \in Id : doc[y] \subseteq doc'[y]
        /\ raced' = raced \cup {w \in WritesTo(id) : writes[w] = "sealing"}
        /\ \A v \in Caller \ {u} : call'[v] = call[v]
        /\ call'[u].id = id
    BY <1>1 DEF ReadLog, IInv, TypeOK
  <1>3. ASSUME NEW w \in 1..MaxWrites, Wanted(w)'
        PROVE  /\ Wanted(w) /\ at[w] \in Id
               /\ at[w] = id => w \in log[id]
    BY <1>2, <1>3 DEF Wanted, WritesTo, WInv, PlacedInv, LogInv
  <1>4. PlacedInv' /\ LogInv' /\ SnapInv'
    BY <1>2, <1>3 DEF WInv, PlacedInv, LogInv, SnapInv
  <1>5. ASSUME NEW w \in 1..MaxWrites, Wanted(w)'
        PROVE  /\ node'[at'[w]] # 0 /\ ~ skip'[at'[w]] => w \in doc'[at'[w]]
               /\ \A v \in Caller :
                    call'[v].step = "applying" /\ call'[v].id = at'[w] => w \in doc'[at'[w]]
    <2>1. Wanted(w) /\ at[w] \in Id /\ (at[w] = id => w \in log[id])
      BY <1>3, <1>5
    <2>2. CASE at[w] = id
      BY <1>2, <2>1, <2>2
    <2>3. CASE at[w] # id
      BY <1>2, <2>1, <2>3 DEF WInv, DocInv
    <2>4. QED
      BY <2>2, <2>3
  <1>6. DocInv'
    BY <1>5 DEF DocInv
  <1>7. QED
    BY <1>4, <1>6 DEF WInv

LEMMA HydratedKeepsWrites ==
  ASSUME IInv, WInv, NEW u \in Caller, Hydrated(u)
  PROVE  WInv'
  <1> DEFINE id == call[u].id
  <1>1. id \in Id
    BY CallType DEF Hydrated, Idle
  <1>2. /\ UNCHANGED <<node, writes, at, doc, log, snaps, raced>>
        /\ \A y \in Id \ {id} : skip'[y] = skip[y]
        /\ \A v \in Caller : call'[v].step = "applying" => call'[v] = call[v]
        /\ call[u].step = "applying"
    <2>1. /\ UNCHANGED <<node, writes, at, doc, log, snaps, raced>>
          /\ \A y \in Id \ {id} : skip'[y] = skip[y]
          /\ call[u].step = "applying"
      BY <1>1 DEF Hydrated, writeVars, IInv, TypeOK
    <2>2. call'[u].step = "asking" /\ \A v \in Caller \ {u} : call'[v] = call[v]
      <3>1. call[u] \in [step: {"hydrating", "applying", "asking", "held"},
                         id: Id, gen: 1..MaxGens]
        BY <2>1 DEF IInv, TypeOK, Call, Idle
      <3>2. call'[u] = [call[u] EXCEPT !.step = "asking"]
        BY DEF Hydrated, IInv, TypeOK
      <3>3. QED
        BY <3>1, <3>2 DEF Hydrated, IInv, TypeOK
    <2>3. QED
      BY <2>1, <2>2
  <1>3. \A w \in 1..MaxWrites : Wanted(w)' <=> Wanted(w)
    BY <1>2 DEF Wanted
  <1>4. PlacedInv' /\ LogInv' /\ SnapInv'
    BY <1>2, <1>3 DEF WInv, PlacedInv, LogInv, SnapInv
  <1>5. ASSUME NEW w \in 1..MaxWrites, Wanted(w)
        PROVE  /\ node'[at'[w]] # 0 /\ ~ skip'[at'[w]] => w \in doc'[at'[w]]
               /\ \A v \in Caller :
                    call'[v].step = "applying" /\ call'[v].id = at'[w] => w \in doc'[at'[w]]
    <2>1. at[w] \in Id
      BY <1>5 DEF Wanted, WInv, PlacedInv
    <2>2. CASE at[w] = id
      BY <1>2, <1>5, <2>2 DEF WInv, DocInv
    <2>3. CASE at[w] # id
      BY <1>2, <1>5, <2>1, <2>3 DEF WInv, DocInv
    <2>4. QED
      BY <2>2, <2>3
  <1>6. DocInv'
    BY <1>3, <1>5 DEF DocInv
  <1>7. QED
    BY <1>4, <1>6 DEF WInv

LEMMA CallerLeavesWrites ==
  ASSUME IInv, WInv, NEW u \in Caller, Resolve(u) \/ LoadFails(u)
  PROVE  WInv'
  <1>1. UNCHANGED <<node, skip, writes, at, doc, log, snaps, raced>>
    BY DEF Resolve, LoadFails, writeVars
  <1>2. \A v \in Caller : call'[v].step = "applying" => call'[v] = call[v]
    <2>1. \A v \in Caller \ {u} : call'[v] = call[v]
      BY DEF Resolve, LoadFails, IInv, TypeOK
    <2>2. CASE Resolve(u)
      <3>1. call[u] \in [step: {"hydrating", "applying", "asking", "held"},
                         id: Id, gen: 1..MaxGens]
        BY <2>2 DEF Resolve, IInv, TypeOK, Call, Idle
      <3>2. call'[u] = [call[u] EXCEPT !.step = "held"]
        BY <2>2 DEF Resolve, IInv, TypeOK
      <3>3. call'[u].step = "held"
        BY <3>1, <3>2
      <3>4. QED
        BY <2>1, <3>3
    <2>3. CASE LoadFails(u)
      <3>1. call'[u].step = "idle"
        BY <2>3 DEF LoadFails, IInv, TypeOK, Idle
      <3>2. QED
        BY <2>1, <3>1
    <2>4. QED
      BY <2>2, <2>3
  <1>3. QED
    BY <1>1, <1>2, UnmovedKeeps

(* Tearing down: nobody applies the log of a Node that is detached. *)
LEMMA DetachKeepsWrites ==
  ASSUME IInv, WInv, IInv', NEW ids, Detached(ids),
         UNCHANGED <<skip, writes, at, log, snaps, raced>>,
         \A v \in Caller : call'[v].step = "applying" => call'[v] = call[v]
  PROVE  WInv'
  <1>1. ASSUME NEW y \in Id
        PROVE  \/ node'[y] = 0
               \/ node'[y] = node[y] /\ doc'[y] = doc[y]
    BY DEF Detached
  <1>2. ASSUME NEW y \in Id, node'[y] = 0, NEW v \in Caller, call'[v].step = "applying"
        PROVE  call'[v].id # y
    <2>1. call'[v] # Idle
      BY <1>2 DEF Idle
    <2>2. call'[v] \in Call
      BY DEF IInv, TypeOK
    <2>3. call'[v].gen \in 1..MaxGens
      BY <2>1, <2>2 DEF Call
    <2>4. node'[call'[v].id] = call'[v].gen
      BY <2>1 DEF IInv, HeldIsAttached
    <2>5. QED
      BY <1>2, <2>3, <2>4, BoundsAssumption
  <1>3. QED
    BY <1>1, <1>2, UnmovedKeeps

LEMMA ReleaseKeepsWrites ==
  ASSUME IInv, WInv, IInv', (\E u \in Caller : Release(u)) \/ (\E id \in Id : Expire(id))
  PROVE  WInv'
  <1>1. ASSUME NEW u \in Caller, Release(u)
        PROVE  /\ UNCHANGED <<skip, writes, at, log, snaps, raced>>
               /\ \A v \in Caller : call'[v].step = "applying" => call'[v] = call[v]
               /\ UNCHANGED <<node, doc>> \/ \E ids : Detached(ids)
    <2>1. /\ UNCHANGED <<skip, writes, at, log, snaps, raced>>
          /\ UNCHANGED <<node, doc>> \/ \E ids : Detached(ids)
      BY <1>1 DEF Release
    <2>2. \A v \in Caller : call'[v].step = "applying" => call'[v] = call[v]
      BY <1>1 DEF Release, IInv, TypeOK, Idle
    <2>3. QED
      BY <2>1, <2>2
  <1>2. ASSUME NEW id \in Id, Expire(id)
        PROVE  UNCHANGED <<call, skip, writes, at, log, snaps, raced>> /\ Detached({id})
    BY <1>2 DEF Expire
  <1>3. CASE \E u \in Caller : Release(u)
    <2>1. CASE UNCHANGED <<node, doc>>
      BY <1>1, <1>3, <2>1, UnmovedKeeps
    <2>2. CASE \E ids : Detached(ids)
      BY <1>1, <1>3, <2>2, DetachKeepsWrites
    <2>3. QED
      BY <1>1, <1>3, <2>1, <2>2
  <1>4. CASE \E id \in Id : Expire(id)
    BY <1>2, <1>4, DetachKeepsWrites
  <1>5. QED
    BY <1>3, <1>4

LEMMA WriteKeepsWrites ==
  ASSUME IInv, WInv, NEW u \in Caller, NEW w \in 1..MaxWrites, Write(u, w)
  PROVE  WInv'
  <1> DEFINE id == call[u].id
  <1>1. id \in Id /\ node[id] = call[u].gen
    <2>1. call[u] # Idle
      BY DEF Write, Idle
    <2>2. QED
      BY <2>1, CallType DEF IInv, HeldIsAttached
  <1>2. /\ UNCHANGED <<node, skip, call, log, snaps>>
        /\ writes[w] = "none" /\ writes'[w] \in {"unsealed", "sealing"} /\ at'[w] = id
        /\ \A v \in 1..MaxWrites \ {w} : writes'[v] = writes[v] /\ at'[v] = at[v]
        /\ w \in doc'[id] /\ \A y \in Id : doc[y] \subseteq doc'[y]
        /\ raced \subseteq raced' /\ (UnderWay(id) => w \in raced')
    BY <1>1 DEF Write, cacheVars, IInv, TypeOK
  <1>3. ASSUME NEW v \in 1..MaxWrites, Wanted(v)', v # w
        PROVE  Wanted(v) /\ at'[v] = at[v] /\ at[v] \in Id /\ writes'[v] = writes[v]
    BY <1>2, <1>3 DEF Wanted, WInv, PlacedInv
  <1>4. PlacedInv'
    BY <1>1, <1>2 DEF WInv, PlacedInv
  <1>5. LogInv'
    <2>1. SUFFICES ASSUME NEW v \in 1..MaxWrites, Wanted(v)', writes'[v] # "sealing"
                   PROVE  v \in log'[at'[v]]
      BY DEF LogInv
    <2>2. v # w
      BY <1>2, <2>1 DEF Wanted
    <2>3. QED
      BY <1>2, <1>3, <2>1, <2>2 DEF WInv, LogInv
  <1>6. DocInv'
    <2>1. SUFFICES ASSUME NEW v \in 1..MaxWrites, Wanted(v)'
                   PROVE  /\ node'[at'[v]] # 0 /\ ~ skip'[at'[v]] => v \in doc'[at'[v]]
                          /\ \A t \in Caller :
                               call'[t].step = "applying" /\ call'[t].id = at'[v]
                                 => v \in doc'[at'[v]]
      BY DEF DocInv
    <2>2. CASE v = w
      BY <1>2, <2>2
    <2>3. CASE v # w
      BY <1>2, <1>3, <2>1, <2>3 DEF WInv, DocInv
    <2>4. QED
      BY <2>2, <2>3
  <1>7. SnapInv'
    <2>1. SUFFICES ASSUME NEW v \in 1..MaxWrites, NEW k \in {"own", "incoming"}, Wanted(v)',
                          snaps'[k] # NoSnap, snaps'[k].id = at'[v]
                   PROVE  v \in snaps'[k].covers
      BY DEF SnapInv
    <2>2. CASE v = w
      <3>1. UnderWay(id)
        BY <1>2, <2>1, <2>2 DEF UnderWay, IInv, TypeOK
      <3>2. QED
        BY <1>2, <2>1, <2>2, <3>1 DEF Wanted
    <2>3. CASE v # w
      BY <1>2, <1>3, <2>1, <2>3 DEF WInv, SnapInv
    <2>4. QED
      BY <2>2, <2>3
  <1>8. QED
    BY <1>4, <1>5, <1>6, <1>7 DEF WInv

LEMMA StoreKeepsWrites ==
  ASSUME IInv, WInv, NEW w \in 1..MaxWrites, Store(w) \/ Send(w)
  PROVE  WInv'
  <1>1. /\ UNCHANGED <<node, skip, call, at, doc, snaps, raced>>
        /\ \A y \in Id : log[y] \subseteq log'[y]
        /\ writes[w] \in {"sealing", "stored"} /\ writes'[w] \in {"stored", "sent"}
        /\ \A v \in 1..MaxWrites \ {w} : writes'[v] = writes[v]
        /\ w \notin raced => w \in log'[at[w]]
    <2>1. at[w] \in Id
      BY DEF Store, Send, SendableAt, WInv, PlacedInv
    <2>2. CASE Store(w)
      BY <2>1, <2>2 DEF Store, cacheVars, IInv, TypeOK
    <2>3. CASE Send(w)
      <3>1. w \notin raced => w \in log[at[w]]
        BY <2>3 DEF Send, SendableAt, WInv, LogInv, Wanted
      <3>2. QED
        BY <2>1, <2>3, <3>1 DEF Send, SendableAt, cacheVars, IInv, TypeOK
    <2>4. QED
      BY <2>2, <2>3
  <1>2. \A v \in 1..MaxWrites : Wanted(v)' <=> Wanted(v)
    BY <1>1 DEF Wanted
  <1>3. PlacedInv' /\ DocInv' /\ SnapInv'
    BY <1>1, <1>2 DEF WInv, PlacedInv, DocInv, SnapInv
  <1>4. LogInv'
    <2>1. SUFFICES ASSUME NEW v \in 1..MaxWrites, Wanted(v), writes'[v] # "sealing"
                   PROVE  v \in log'[at[v]]
      BY <1>1, <1>2 DEF LogInv
    <2>2. at[v] \in Id
      BY <2>1 DEF Wanted, WInv, PlacedInv
    <2>3. CASE v = w
      BY <1>1, <2>1, <2>3 DEF Wanted
    <2>4. CASE v # w
      BY <1>1, <2>1, <2>2, <2>4 DEF WInv, LogInv
    <2>5. QED
      BY <2>3, <2>4
  <1>5. QED
    BY <1>3, <1>4 DEF WInv

(* A snapshot begins: what it may leave out is in `raced`. *)
LEMMA SnapshotKeepsWrites ==
  ASSUME IInv, WInv, NEW id \in Id, Encode(id) \/ Receive(id)
  PROVE  WInv'
  <1> DEFINE Begun(k, s) ==
               /\ snaps' = [snaps EXCEPT ![k] = s] /\ s.id = id
               /\ raced \subseteq raced'
               /\ \A w \in WritesTo(id) : Wanted(w)' => w \in s.covers
  <1>1. \E k \in {"own", "incoming"} : \E s : Begun(k, s)
    <2>1. CASE Encode(id)
      <3>1. PICK c \in SUBSET doc[id] :
              /\ skip[id] \/ c = doc[id]
              /\ snaps' = [snaps EXCEPT !["own"] =
                            [step |-> "replacing", id |-> id, gen |-> node[id], covers |-> c]]
              /\ raced' = IF skip[id] THEN raced \cup (WritesTo(id) \ c) ELSE raced
              /\ node[id] # 0 /\ UNCHANGED writes
        BY <2>1 DEF Encode
      <3>2. ASSUME NEW w \in WritesTo(id), Wanted(w)' PROVE w \in c
        <4>1. CASE skip[id]
          BY <3>1, <3>2, <4>1 DEF Wanted
        <4>2. CASE ~ skip[id]
          <5>1. Wanted(w) /\ w \in 1..MaxWrites /\ at[w] = id
            BY <3>1, <3>2, <4>2 DEF Wanted, WritesTo
          <5>2. QED
            BY <3>1, <4>2, <5>1 DEF WInv, DocInv
        <4>3. QED
          BY <4>1, <4>2
      <3> DEFINE s == [step |-> "replacing", id |-> id, gen |-> node[id], covers |-> c]
      <3>3. /\ snaps' = [snaps EXCEPT !["own"] = s] /\ s.id = id /\ s.covers = c
            /\ raced \subseteq raced'
        BY <3>1
      <3>4. QED
        BY <3>2, <3>3
    <2>2. CASE Receive(id)
      <3>1. PICK c \in SUBSET {w \in WritesTo(id) : writes[w] = "sent"} :
              /\ snaps' = [snaps EXCEPT !["incoming"] =
                            [step |-> "opening", id |-> id, gen |-> node[id], covers |-> c]]
              /\ raced' = raced \cup (WritesTo(id) \ c)
        BY <2>2 DEF Receive
      <3>2. \A w \in WritesTo(id) : Wanted(w)' => w \in c
        BY <3>1 DEF Wanted
      <3> DEFINE s == [step |-> "opening", id |-> id, gen |-> node[id], covers |-> c]
      <3>3. /\ snaps' = [snaps EXCEPT !["incoming"] = s] /\ s.id = id /\ s.covers = c
            /\ raced \subseteq raced'
        BY <3>1
      <3>4. QED
        BY <3>2, <3>3
    <2>3. QED
      BY <2>1, <2>2
  <1>2. PICK k \in {"own", "incoming"} : \E s : Begun(k, s)
    BY <1>1
  <1>3. PICK s : Begun(k, s)
    BY <1>2
  <1>4. UNCHANGED <<node, skip, call, writes, at, doc, log>>
    BY DEF Encode, Receive, cacheVars
  <1>5. \A w \in 1..MaxWrites : Wanted(w)' => Wanted(w)
    BY <1>3, <1>4 DEF Wanted
  <1>6. PlacedInv' /\ LogInv' /\ DocInv'
    BY <1>4, <1>5 DEF WInv, PlacedInv, LogInv, DocInv
  <1>7. SnapInv'
    <2>1. SUFFICES ASSUME NEW w \in 1..MaxWrites, NEW j \in {"own", "incoming"}, Wanted(w)',
                          snaps'[j] # NoSnap, snaps'[j].id = at[w]
                   PROVE  w \in snaps'[j].covers
      BY <1>4 DEF SnapInv
    <2>2. CASE j = k
      BY <1>3, <2>1, <2>2 DEF WritesTo, IInv, TypeOK
    <2>3. CASE j # k
      BY <1>3, <1>5, <2>1, <2>3 DEF WInv, SnapInv, IInv, TypeOK
    <2>4. QED
      BY <2>2, <2>3
  <1>8. QED
    BY <1>6, <1>7 DEF WInv

LEMMA ApplyKeepsWrites ==
  ASSUME IInv, WInv, Apply
  PROVE  WInv'
  <1>1. snaps["incoming"] # NoSnap /\ snaps["incoming"].id \in Id
    BY StepIsUnderWay, SnapType DEF Apply
  <1>2. /\ UNCHANGED <<node, skip, call, writes, at, log, raced>>
        /\ \A y \in Id : doc[y] \subseteq doc'[y]
        /\ snaps'["own"] = snaps["own"]
        /\ snaps'["incoming"].id = snaps["incoming"].id
        /\ snaps'["incoming"].covers = snaps["incoming"].covers
    <2>1. snaps["incoming"] \in [step: {"opening", "replacing"}, id: Id, gen: 1..MaxGens,
                                 covers: SUBSET (1..MaxWrites)]
      BY <1>1 DEF IInv, TypeOK, Snap
    <2>2. QED
      BY <2>1 DEF Apply, cacheVars, IInv, TypeOK
  <1>3. \A w \in 1..MaxWrites : Wanted(w)' <=> Wanted(w)
    BY <1>2 DEF Wanted
  <1>4. PlacedInv' /\ LogInv'
    BY <1>2, <1>3 DEF WInv, PlacedInv, LogInv
  <1>5. SnapInv'
    BY <1>1, <1>2, <1>3 DEF WInv, SnapInv
  <1>6. ASSUME NEW w \in 1..MaxWrites, Wanted(w)
        PROVE  /\ node'[at'[w]] # 0 /\ ~ skip'[at'[w]] => w \in doc'[at'[w]]
               /\ \A v \in Caller :
                    call'[v].step = "applying" /\ call'[v].id = at'[w] => w \in doc'[at'[w]]
    <2>1. at[w] \in Id
      BY <1>6 DEF Wanted, WInv, PlacedInv
    <2>2. QED
      BY <1>2, <1>6, <2>1 DEF WInv, DocInv
  <1>7. DocInv'
    BY <1>3, <1>6 DEF DocInv
  <1>8. QED
    BY <1>4, <1>5, <1>7 DEF WInv

LEMMA ReplaceKeepsWrites ==
  ASSUME IInv, WInv, NEW k \in {"own", "incoming"}, Replace(k)
  PROVE  WInv'
  <1>1. snaps[k] # NoSnap /\ snaps[k].id \in Id
    BY StepIsUnderWay, SnapType DEF Replace
  <1>2. /\ UNCHANGED <<node, skip, call, writes, at, doc, raced>>
        /\ log'[snaps[k].id] = snaps[k].covers
        /\ \A y \in Id : y # snaps[k].id => log'[y] = log[y]
        /\ snaps'[k] = NoSnap /\ \A j \in {"own", "incoming"} \ {k} : snaps'[j] = snaps[j]
    BY <1>1 DEF Replace, cacheVars, IInv, TypeOK
  <1>3. \A w \in 1..MaxWrites : Wanted(w)' <=> Wanted(w)
    BY <1>2 DEF Wanted
  <1>4. PlacedInv' /\ DocInv' /\ SnapInv'
    BY <1>2, <1>3 DEF WInv, PlacedInv, DocInv, SnapInv
  <1>5. LogInv'
    <2>1. SUFFICES ASSUME NEW w \in 1..MaxWrites, Wanted(w), writes[w] # "sealing"
                   PROVE  w \in log'[at[w]]
      BY <1>2, <1>3 DEF LogInv
    <2>2. at[w] \in Id
      BY <2>1 DEF Wanted, WInv, PlacedInv
    <2>3. CASE at[w] = snaps[k].id
      BY <1>1, <1>2, <2>1, <2>3 DEF WInv, SnapInv
    <2>4. CASE at[w] # snaps[k].id
      BY <1>2, <2>1, <2>2, <2>4 DEF WInv, LogInv
    <2>5. QED
      BY <2>3, <2>4
  <1>6. QED
    BY <1>4, <1>5 DEF WInv

LEMMA CrashKeepsWrites ==
  ASSUME IInv, WInv, IInv', Crash
  PROVE  WInv'
  <1>1. /\ UNCHANGED <<at, log, raced>>
        /\ \A w \in 1..MaxWrites :
             \/ writes[w] \in {"none", "sent"} /\ writes'[w] = writes[w]
             \/ writes[w] # "none" /\ writes'[w] = "gone"
        /\ \A id \in Id : node'[id] = 0
        /\ \A u \in Caller : call'[u].step # "applying"
        /\ \A k \in {"own", "incoming"} : snaps'[k] = NoSnap
    BY DEF Crash, Idle
  <1>2. PlacedInv'
    BY <1>1 DEF WInv, PlacedInv
  <1>3. LogInv' /\ SnapInv'
    BY <1>1 DEF WInv, LogInv, SnapInv, Wanted
  <1>4. DocInv'
    BY <1>1, <1>2 DEF DocInv, PlacedInv, Wanted
  <1>5. QED
    BY <1>2, <1>3, <1>4 DEF WInv

LEMMA WritesStep == IInv /\ WInv /\ IInv' /\ [Next]_vars => WInv'
  <1>1. SUFFICES ASSUME IInv, WInv, IInv', [Next]_vars PROVE WInv'
    OBVIOUS
  <1>2. CASE \E u \in Caller, id \in Id : UseNode(u, id)
    BY <1>1, <1>2, UseNodeKeepsWrites
  <1>3. CASE \E u \in Caller : ReadLog(u) \/ Hydrated(u) \/ Resolve(u)
    BY <1>1, <1>3, ReadLogKeepsWrites, HydratedKeepsWrites, CallerLeavesWrites
  <1>4. CASE \E u \in Caller : LoadFails(u)
    BY <1>1, <1>4, CallerLeavesWrites
  <1>5. CASE \E u \in Caller : Release(u)
    BY <1>1, <1>5, ReleaseKeepsWrites
  <1>6. CASE \E id \in Id : Expire(id)
    BY <1>1, <1>6, ReleaseKeepsWrites
  <1>7. CASE LogSteps
    <2>1. CASE \E w \in 1..MaxWrites : Store(w) \/ Send(w) \/ \E u \in Caller : Write(u, w)
      BY <1>1, <2>1, StoreKeepsWrites, WriteKeepsWrites
    <2>2. CASE \E id \in Id : Encode(id) \/ Receive(id)
      BY <1>1, <2>2, SnapshotKeepsWrites
    <2>3. CASE Apply
      BY <1>1, <2>3, ApplyKeepsWrites
    <2>4. CASE \E k \in {"own", "incoming"} : Replace(k)
      BY <1>1, <2>4, ReplaceKeepsWrites
    <2>5. QED
      BY <1>7, <2>1, <2>2, <2>3, <2>4 DEF LogSteps
  <1>8. CASE Crash
    BY <1>1, <1>8, CrashKeepsWrites
  <1>9. CASE UNCHANGED vars
    BY <1>1, <1>9 DEF vars, cacheVars, writeVars, WInv, PlacedInv, LogInv, DocInv, SnapInv,
       Wanted
  <1>10. QED
    BY <1>1, <1>2, <1>3, <1>4, <1>5, <1>6, <1>7, <1>8, <1>9, StepCases

LEMMA WritesInvariance == Spec => []WInv
  <1>1. Init => WInv
    BY DEF Init, WInv, PlacedInv, LogInv, DocInv, SnapInv, Wanted
  <1>2. IInv /\ WInv /\ IInv' /\ [Next]_vars => WInv'
    BY WritesStep
  <1>3. QED
    BY <1>1, <1>2, Invariance, PTL DEF Spec

-----------------------------------------------------------------------------
(***************************************************************************)
(* Callers of useNode() and release() do not take a Node from each other   *)
(* (space.js:1083), for any number of Nodes, callers and references.       *)
(***************************************************************************)
THEOREM HandlesStayAttached == Spec => []HeldIsAttached
  <1>1. IInv => HeldIsAttached
    BY DEF IInv
  <1>2. QED
    BY Invariance, <1>1, PTL

(***************************************************************************)
(* A Node that no caller holds or awaits is warm with a timer, and the cap *)
(* holds: _goWarm(), _evictWarmOverCap() and useNode() keep the three in   *)
(* step.  Excepted are group Nodes and those of which a load has failed in *)
(* this process (space.js:1103-1109), whose count never comes down.  The   *)
(* count equals the callers and the failed loads (CountInv), so a count    *)
(* above zero without a failed load is a caller.                           *)
(***************************************************************************)
THEOREM NothingLeftAttached == Spec => []FreedOrWarm
  <1>1. ASSUME IInv PROVE FreedOrWarm
    <2>1. SUFFICES ASSUME NEW id \in Id \ Group, node[id] # 0, leaked[id] = 0,
                          ~ (Contains(warm, id) /\ id \in timers)
                   PROVE  \E u \in Caller : call[u] # Idle /\ call[u].id = id
      BY <1>1 DEF IInv, KeptInv, FreedOrWarm
    <2>2. refs[id] > 0 /\ refs[id] = Cardinality(Users(call, id)) + leaked[id]
      BY <1>1, <2>1 DEF IInv, KeptInv, CountInv
    <2>3. Cardinality(Users(call, id)) # 0
      BY <2>1, <2>2, UsersCounted
    <2>4. Users(call, id) # {}
      BY <2>3, FS_EmptySet
    <2>5. QED
      BY <2>4 DEF Users
  <1>2. QED
    BY Invariance, <1>1, PTL

(***************************************************************************)
(* What _handleLocalUpdate() has sent is in the log of its Node, wherever  *)
(* the process stops, however often its Nodes are loaded anew, and through *)
(* every snapshot that replaces the log, except the writes SentIsStored    *)
(* names.  It rests on a loaded Y.Doc having all that is sent or still     *)
(* being sealed, so that what compactNode() encodes lacks nothing.         *)
(***************************************************************************)
THEOREM WritesSurvive == Spec => []SentIsStored
  <1>1. WInv => SentIsStored
    BY DEF WInv, LogInv, Wanted, SentIsStored
  <1>2. QED
    BY WritesInvariance, <1>1, PTL
=============================================================================
