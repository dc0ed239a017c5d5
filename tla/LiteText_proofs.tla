-------------------------- MODULE LiteText_proofs --------------------------
(***************************************************************************)
(* Proofs about LiteText, for any number of devices, edits and sessions.   *)
(***************************************************************************)
EXTENDS LiteText, Integers, FiniteSetTheorems, SequenceTheorems, WellFoundedInduction, TLAPS

-----------------------------------------------------------------------------
(***************************************************************************)
(* Least and greatest numbers, counting up, and folds.  A fold of the      *)
(* community modules is a function over the subsets of a domain; its run   *)
(* f[k] is what it has after k elements, and a proof counts along the run. *)
(***************************************************************************)

LEMMA HasMin == ASSUME NEW S, S \subseteq Nat, S # {} PROVE \E m \in S : \A x \in S : m <= x
  <1> DEFINE Lt == OpToRel(<, Nat)
  <1>1. IsWellFoundedOn(Lt, Nat)
    BY NatLessThanWellFounded
  <1>2. \A x, y \in Nat : y < x => <<y, x>> \in Lt
    BY DEF OpToRel
  <1> HIDE DEF Lt
  <1>3. PICK m \in S : \A y \in S : ~ (<<y, m>> \in Lt)
    BY <1>1, WFMin
  <1>4. m \in Nat /\ \A y \in S : y \in Nat /\ ~ (y < m)
    BY <1>2, <1>3
  <1>5. \A y \in S : m <= y
    BY <1>4
  <1>6. QED
    BY <1>5

(* Counting up: what holds at 0 and with k - 1 also at k holds at n. *)
LEMMA CountUp ==
  ASSUME NEW n \in Nat, NEW W, 0 \in W, \A k \in 1..n : k - 1 \in W => k \in W
  PROVE  \A k \in 0..n : k \in W
  <1> DEFINE Wrong == {k \in 0..n : k \notin W}
  <1>1. SUFFICES ASSUME Wrong # {} PROVE FALSE
    OBVIOUS
  <1>2. Wrong \subseteq Nat
    OBVIOUS
  <1>3. PICK k \in Wrong : \A j \in Wrong : k <= j
    BY <1>1, <1>2, HasMin
  <1>4. k \in 1..n /\ k - 1 \in 0..n /\ ~ (k <= k - 1)
    BY <1>3
  <1>5. k - 1 \in W
    BY <1>3, <1>4
  <1>6. QED
    BY <1>3, <1>4, <1>5

(* A bounded set of numbers has a greatest one. *)
LEMMA MaxOf ==
  ASSUME NEW m \in Nat, NEW s \in SUBSET (1..m), s # {}
  PROVE  Max(s) \in s /\ \A x \in s : x <= Max(s)
  <1> DEFINE T == {m - x : x \in s}
  <1>1. T \subseteq Nat /\ T # {}
    <2>1. ASSUME NEW x \in s PROVE m - x \in Nat
      BY <2>1
    <2>2. QED
      BY <2>1
  <1>2. PICK t \in T : \A y \in T : t <= y
    BY <1>1, HasMin
  <1>3. PICK g \in s : t = m - g
    BY <1>2
  <1>4. \A x \in s : m - g <= m - x
    BY <1>2, <1>3
  <1>5. \A x \in s : g >= x
    BY <1>4
  <1>6. QED
    BY <1>5 DEF Max

(* The folds of the community modules: a function over the subsets of the domain. *)
FoldsTo(H, D, G, base, seq, m) ==
  /\ H \in [SUBSET (1..m) -> D]
  /\ \A s \in SUBSET (1..m) :
       H[s] = IF s = {} THEN base ELSE G[<<H[s \ {Max(s)}], seq[Max(s)]>>]

(* A fold of the library is what its run ends with. *)
LEMMA FoldExists ==
  ASSUME NEW D, NEW E, NEW G \in [D \X E -> D], NEW base \in D, NEW n \in Nat,
         NEW seq \in [1..n -> E]
  PROVE  \E H : FoldsTo(H, D, G, base, seq, n)
  <1> DEFINE W == {m \in 0..n : \E H : FoldsTo(H, D, G, base, seq, m)}
  <1>1. 0 \in W
    <2> DEFINE H == [s \in SUBSET (1..0) |-> base]
    <2>1. 1..0 = {}
      OBVIOUS
    <2>2. FoldsTo(H, D, G, base, seq, 0)
      BY <2>1 DEF FoldsTo
    <2>3. QED
      BY <2>2
  <1>2. ASSUME NEW m \in 1..n, m - 1 \in W PROVE m \in W
    <2>1. PICK H : FoldsTo(H, D, G, base, seq, m - 1)
      BY <1>2
    <2> DEFINE J == [s \in SUBSET (1..m) |->
                      IF m \in s THEN G[<<H[s \ {m}], seq[m]>>] ELSE H[s]]
    <2>2. \A s \in SUBSET (1..m) : m \in s => s \ {m} \in SUBSET (1..(m - 1))
      OBVIOUS
    <2>3. \A s \in SUBSET (1..m) : m \notin s => s \in SUBSET (1..(m - 1))
      OBVIOUS
    <2>4. J \in [SUBSET (1..m) -> D]
      <3>1. ASSUME NEW s \in SUBSET (1..m) PROVE J[s] \in D
        <4>1. CASE m \in s
          <5>1. H[s \ {m}] \in D /\ seq[m] \in E
            BY <2>1, <2>2, <4>1 DEF FoldsTo
          <5>2. QED
            BY <4>1, <5>1
        <4>2. CASE m \notin s
          BY <2>1, <2>3, <4>2 DEF FoldsTo
        <4>3. QED
          BY <4>1, <4>2
      <3>2. QED
        BY <3>1
    <2>5. ASSUME NEW s \in SUBSET (1..m)
          PROVE  J[s] = IF s = {} THEN base ELSE G[<<J[s \ {Max(s)}], seq[Max(s)]>>]
      <3>1. CASE m \in s
        <4>1. m \in Nat /\ s # {}
          BY <3>1
        <4>2. Max(s) \in s /\ \A x \in s : x <= Max(s)
          BY <4>1, MaxOf
        <4>3. \A x \in s : x \in Nat /\ x <= m
          OBVIOUS
        <4>4. Max(s) = m
          <5>1. Max(s) \in Nat /\ Max(s) <= m /\ m <= Max(s)
            BY <3>1, <4>2, <4>3
          <5>2. QED
            BY <4>1, <5>1
        <4>5. J[s \ {m}] = H[s \ {m}]
          BY <2>2
        <4>6. QED
          BY <3>1, <4>4, <4>5
      <3>2. CASE m \notin s
        <4>1. J[s] = H[s] /\ s \in SUBSET (1..(m - 1))
          BY <2>3, <3>2
        <4>2. s # {} => J[s \ {Max(s)}] = H[s \ {Max(s)}]
          BY <3>2
        <4>3. H[s] = IF s = {} THEN base ELSE G[<<H[s \ {Max(s)}], seq[Max(s)]>>]
          BY <2>1, <4>1 DEF FoldsTo
        <4> HIDE DEF J
        <4>4. QED
          BY <4>1, <4>2, <4>3
      <3>3. QED
        BY <3>1, <3>2
    <2> HIDE DEF J
    <2>6. FoldsTo(J, D, G, base, seq, m)
      BY <2>4, <2>5 DEF FoldsTo
    <2>7. QED
      BY <2>6
  <1> HIDE DEF W
  <1>3. n \in W
    <2>1. n \in 0..n
      OBVIOUS
    <2>2. QED
      BY <1>1, <1>2, <2>1, CountUp
  <1>4. QED
    BY <1>3 DEF W

LEMMA Stretches ==
  ASSUME NEW n \in Nat, NEW k \in 1..n
  PROVE  1..k # {} /\ Max(1..k) = k /\ (1..k) \ {k} = 1..(k - 1) /\ 1..k \in SUBSET (1..n)
  <1>1. k \in Nat /\ 1..k \in SUBSET (1..k) /\ k \in 1..k
    OBVIOUS
  <1>2. Max(1..k) \in 1..k /\ \A x \in 1..k : x <= Max(1..k)
    BY <1>1, MaxOf
  <1>3. Max(1..k) = k
    BY <1>1, <1>2
  <1>4. (1..k) \ {k} = 1..(k - 1)
    BY <1>1
  <1>5. 1..k \in SUBSET (1..n)
    OBVIOUS
  <1>6. 1..k # {}
    BY <1>1
  <1>7. QED
    BY <1>3, <1>4, <1>5, <1>6

-----------------------------------------------------------------------------
(* A run of a fold: f[k] is what it has after k elements. *)
IntegrateRun(f, base, seq) ==
  /\ f[0] = base
  /\ \A k \in 1..Len(seq) : f[k] = Integrate(f[k - 1], seq[k])
  /\ FoldLeft(Integrate, base, seq) = f[Len(seq)]

LEMMA IntegrateFold ==
  ASSUME NEW D, NEW E, \A x \in D, y \in E : Integrate(x, y) \in D, NEW base \in D,
         NEW seq \in Seq(E)
  PROVE  \E f \in [0..Len(seq) -> D] : IntegrateRun(f, base, seq)
  <1> DEFINE n == Len(seq)
             R(H) == [s \in SUBSET DOMAIN seq |->
                       IF s = {} THEN base ELSE Integrate(H[s \ {Max(s)}], seq[Max(s)])]
             iter == CHOOSE H : H = R(H)
             G == [p \in D \X E |-> Integrate(p[1], p[2])]
  <1>1. n \in Nat /\ DOMAIN seq = 1..n /\ seq \in [1..n -> E]
    OBVIOUS
  <1>2. FoldLeft(Integrate, base, seq) = iter[1..n]
    BY <1>1 DEF FoldLeft, MapThenFoldSet
  <1>3. G \in [D \X E -> D] /\ \A x \in D, y \in E : G[<<x, y>>] = Integrate(x, y)
    OBVIOUS
  <1> HIDE DEF G
  <1>4. PICK H : FoldsTo(H, D, G, base, seq, n)
    BY <1>1, <1>3, FoldExists
  <1>5. ASSUME NEW s \in SUBSET (1..n), s # {}
        PROVE  s \ {Max(s)} \in SUBSET (1..n) /\ seq[Max(s)] \in E
    BY <1>1, <1>5, MaxOf
  <1>6. H = R(H)
    <2>1. ASSUME NEW s \in SUBSET (1..n) PROVE H[s] = R(H)[s]
      <3>1. s # {} => H[s \ {Max(s)}] \in D /\ seq[Max(s)] \in E
        BY <1>4, <1>5 DEF FoldsTo
      <3>2. QED
        BY <1>1, <1>3, <1>4, <3>1 DEF FoldsTo
    <2>2. DOMAIN H = SUBSET (1..n) /\ H = [s \in SUBSET (1..n) |-> H[s]]
      BY <1>4 DEF FoldsTo
    <2>3. R(H) = [s \in SUBSET (1..n) |-> R(H)[s]]
      BY <1>1
    <2> HIDE DEF R
    <2>4. QED
      BY <2>1, <2>2, <2>3
  <1>7. iter = R(iter)
    <2> HIDE DEF R
    <2>1. QED
      BY <1>6
  <1> HIDE DEF iter
  <1>8. \A s \in SUBSET (1..n) : iter[s] = IF s = {} THEN base ELSE Integrate(iter[s \ {Max(s)}], seq[Max(s)])
    <2>1. ASSUME NEW s \in SUBSET (1..n) PROVE R(iter)[s] = IF s = {} THEN base ELSE Integrate(iter[s \ {Max(s)}], seq[Max(s)])
      BY <1>1
    <2> HIDE DEF R
    <2>2. QED
      BY <1>7, <2>1
  <1> HIDE DEF n
  <1> DEFINE f == [k \in 0..n |-> iter[1..k]]
  <1>9. f[0] = base
    <2>1. 1..0 = {} /\ {} \in SUBSET (1..n) /\ 0 \in 0..n
      BY <1>1
    <2>2. iter[{}] = base
      BY <1>8, <2>1
    <2>3. QED
      BY <2>1, <2>2
  <1>10. ASSUME NEW k \in 1..n PROVE f[k] = Integrate(f[k - 1], seq[k])
    <2>1. 1..k # {} /\ Max(1..k) = k /\ (1..k) \ {k} = 1..(k - 1) /\ 1..k \in SUBSET (1..n)
      BY <1>1, Stretches
    <2>2. iter[1..k] = Integrate(iter[1..(k - 1)], seq[k])
      BY <1>8, <2>1
    <2>3. k \in 0..n /\ k - 1 \in 0..n
      BY <1>1
    <2>4. QED
      BY <2>2, <2>3
  <1>11. f[n] = iter[1..n] /\ DOMAIN f = 0..n
    BY <1>1
  <1> HIDE DEF f
  <1>12. IntegrateRun(f, base, seq)
    BY <1>2, <1>9, <1>10, <1>11 DEF IntegrateRun, n
  <1>13. \A k \in 0..n : f[k] \in D
    <2> DEFINE W == {k \in 0..n : f[k] \in D}
    <2>1. 0 \in W
      BY <1>1, <1>9
    <2>2. ASSUME NEW k \in 1..n, k - 1 \in W PROVE k \in W
      <3>1. k \in 0..n /\ f[k - 1] \in D /\ seq[k] \in E
        BY <1>1, <2>2
      <3>2. QED
        BY <1>10, <3>1
    <2> HIDE DEF W
    <2>3. \A k \in 0..n : k \in W
      BY <1>1, <2>1, <2>2, CountUp
    <2>4. QED
      BY <2>3 DEF W
  <1>14. f \in [0..n -> D]
    BY <1>11, <1>13 DEF f
  <1>15. QED
    BY <1>12, <1>14 DEF n

PassRun(f, base, seq) ==
  /\ f[0] = base
  /\ \A k \in 1..Len(seq) : f[k] = Pass(f[k - 1], seq[k])
  /\ FoldLeft(Pass, base, seq) = f[Len(seq)]

LEMMA PassFold ==
  ASSUME NEW D, NEW E, \A x \in D, y \in E : Pass(x, y) \in D, NEW base \in D,
         NEW seq \in Seq(E)
  PROVE  \E f \in [0..Len(seq) -> D] : PassRun(f, base, seq)
  <1> DEFINE n == Len(seq)
             R(H) == [s \in SUBSET DOMAIN seq |->
                       IF s = {} THEN base ELSE Pass(H[s \ {Max(s)}], seq[Max(s)])]
             iter == CHOOSE H : H = R(H)
             G == [p \in D \X E |-> Pass(p[1], p[2])]
  <1>1. n \in Nat /\ DOMAIN seq = 1..n /\ seq \in [1..n -> E]
    OBVIOUS
  <1>2. FoldLeft(Pass, base, seq) = iter[1..n]
    BY <1>1 DEF FoldLeft, MapThenFoldSet
  <1>3. G \in [D \X E -> D] /\ \A x \in D, y \in E : G[<<x, y>>] = Pass(x, y)
    OBVIOUS
  <1> HIDE DEF G
  <1>4. PICK H : FoldsTo(H, D, G, base, seq, n)
    BY <1>1, <1>3, FoldExists
  <1>5. ASSUME NEW s \in SUBSET (1..n), s # {}
        PROVE  s \ {Max(s)} \in SUBSET (1..n) /\ seq[Max(s)] \in E
    BY <1>1, <1>5, MaxOf
  <1>6. H = R(H)
    <2>1. ASSUME NEW s \in SUBSET (1..n) PROVE H[s] = R(H)[s]
      <3>1. s # {} => H[s \ {Max(s)}] \in D /\ seq[Max(s)] \in E
        BY <1>4, <1>5 DEF FoldsTo
      <3>2. QED
        BY <1>1, <1>3, <1>4, <3>1 DEF FoldsTo
    <2>2. DOMAIN H = SUBSET (1..n) /\ H = [s \in SUBSET (1..n) |-> H[s]]
      BY <1>4 DEF FoldsTo
    <2>3. R(H) = [s \in SUBSET (1..n) |-> R(H)[s]]
      BY <1>1
    <2> HIDE DEF R
    <2>4. QED
      BY <2>1, <2>2, <2>3
  <1>7. iter = R(iter)
    <2> HIDE DEF R
    <2>1. QED
      BY <1>6
  <1> HIDE DEF iter
  <1>8. \A s \in SUBSET (1..n) : iter[s] = IF s = {} THEN base ELSE Pass(iter[s \ {Max(s)}], seq[Max(s)])
    <2>1. ASSUME NEW s \in SUBSET (1..n) PROVE R(iter)[s] = IF s = {} THEN base ELSE Pass(iter[s \ {Max(s)}], seq[Max(s)])
      BY <1>1
    <2> HIDE DEF R
    <2>2. QED
      BY <1>7, <2>1
  <1> HIDE DEF n
  <1> DEFINE f == [k \in 0..n |-> iter[1..k]]
  <1>9. f[0] = base
    <2>1. 1..0 = {} /\ {} \in SUBSET (1..n) /\ 0 \in 0..n
      BY <1>1
    <2>2. iter[{}] = base
      BY <1>8, <2>1
    <2>3. QED
      BY <2>1, <2>2
  <1>10. ASSUME NEW k \in 1..n PROVE f[k] = Pass(f[k - 1], seq[k])
    <2>1. 1..k # {} /\ Max(1..k) = k /\ (1..k) \ {k} = 1..(k - 1) /\ 1..k \in SUBSET (1..n)
      BY <1>1, Stretches
    <2>2. iter[1..k] = Pass(iter[1..(k - 1)], seq[k])
      BY <1>8, <2>1
    <2>3. k \in 0..n /\ k - 1 \in 0..n
      BY <1>1
    <2>4. QED
      BY <2>2, <2>3
  <1>11. f[n] = iter[1..n] /\ DOMAIN f = 0..n
    BY <1>1
  <1> HIDE DEF f
  <1>12. PassRun(f, base, seq)
    BY <1>2, <1>9, <1>10, <1>11 DEF PassRun, n
  <1>13. \A k \in 0..n : f[k] \in D
    <2> DEFINE W == {k \in 0..n : f[k] \in D}
    <2>1. 0 \in W
      BY <1>1, <1>9
    <2>2. ASSUME NEW k \in 1..n, k - 1 \in W PROVE k \in W
      <3>1. k \in 0..n /\ f[k - 1] \in D /\ seq[k] \in E
        BY <1>1, <2>2
      <3>2. QED
        BY <1>10, <3>1
    <2> HIDE DEF W
    <2>3. \A k \in 0..n : k \in W
      BY <1>1, <2>1, <2>2, CountUp
    <2>4. QED
      BY <2>3 DEF W
  <1>14. f \in [0..n -> D]
    BY <1>11, <1>13 DEF f
  <1>15. QED
    BY <1>12, <1>14 DEF n

ApplyRun(f, base, seq) ==
  /\ f[0] = base
  /\ \A k \in 1..Len(seq) : f[k] = Apply(f[k - 1], seq[k])
  /\ FoldLeft(Apply, base, seq) = f[Len(seq)]

LEMMA ApplyFold ==
  ASSUME NEW D, NEW E, \A x \in D, y \in E : Apply(x, y) \in D, NEW base \in D,
         NEW seq \in Seq(E)
  PROVE  \E f \in [0..Len(seq) -> D] : ApplyRun(f, base, seq)
  <1> DEFINE n == Len(seq)
             R(H) == [s \in SUBSET DOMAIN seq |->
                       IF s = {} THEN base ELSE Apply(H[s \ {Max(s)}], seq[Max(s)])]
             iter == CHOOSE H : H = R(H)
             G == [p \in D \X E |-> Apply(p[1], p[2])]
  <1>1. n \in Nat /\ DOMAIN seq = 1..n /\ seq \in [1..n -> E]
    OBVIOUS
  <1>2. FoldLeft(Apply, base, seq) = iter[1..n]
    BY <1>1 DEF FoldLeft, MapThenFoldSet
  <1>3. G \in [D \X E -> D] /\ \A x \in D, y \in E : G[<<x, y>>] = Apply(x, y)
    OBVIOUS
  <1> HIDE DEF G
  <1>4. PICK H : FoldsTo(H, D, G, base, seq, n)
    BY <1>1, <1>3, FoldExists
  <1>5. ASSUME NEW s \in SUBSET (1..n), s # {}
        PROVE  s \ {Max(s)} \in SUBSET (1..n) /\ seq[Max(s)] \in E
    BY <1>1, <1>5, MaxOf
  <1>6. H = R(H)
    <2>1. ASSUME NEW s \in SUBSET (1..n) PROVE H[s] = R(H)[s]
      <3>1. s # {} => H[s \ {Max(s)}] \in D /\ seq[Max(s)] \in E
        BY <1>4, <1>5 DEF FoldsTo
      <3>2. QED
        BY <1>1, <1>3, <1>4, <3>1 DEF FoldsTo
    <2>2. DOMAIN H = SUBSET (1..n) /\ H = [s \in SUBSET (1..n) |-> H[s]]
      BY <1>4 DEF FoldsTo
    <2>3. R(H) = [s \in SUBSET (1..n) |-> R(H)[s]]
      BY <1>1
    <2> HIDE DEF R
    <2>4. QED
      BY <2>1, <2>2, <2>3
  <1>7. iter = R(iter)
    <2> HIDE DEF R
    <2>1. QED
      BY <1>6
  <1> HIDE DEF iter
  <1>8. \A s \in SUBSET (1..n) : iter[s] = IF s = {} THEN base ELSE Apply(iter[s \ {Max(s)}], seq[Max(s)])
    <2>1. ASSUME NEW s \in SUBSET (1..n) PROVE R(iter)[s] = IF s = {} THEN base ELSE Apply(iter[s \ {Max(s)}], seq[Max(s)])
      BY <1>1
    <2> HIDE DEF R
    <2>2. QED
      BY <1>7, <2>1
  <1> HIDE DEF n
  <1> DEFINE f == [k \in 0..n |-> iter[1..k]]
  <1>9. f[0] = base
    <2>1. 1..0 = {} /\ {} \in SUBSET (1..n) /\ 0 \in 0..n
      BY <1>1
    <2>2. iter[{}] = base
      BY <1>8, <2>1
    <2>3. QED
      BY <2>1, <2>2
  <1>10. ASSUME NEW k \in 1..n PROVE f[k] = Apply(f[k - 1], seq[k])
    <2>1. 1..k # {} /\ Max(1..k) = k /\ (1..k) \ {k} = 1..(k - 1) /\ 1..k \in SUBSET (1..n)
      BY <1>1, Stretches
    <2>2. iter[1..k] = Apply(iter[1..(k - 1)], seq[k])
      BY <1>8, <2>1
    <2>3. k \in 0..n /\ k - 1 \in 0..n
      BY <1>1
    <2>4. QED
      BY <2>2, <2>3
  <1>11. f[n] = iter[1..n] /\ DOMAIN f = 0..n
    BY <1>1
  <1> HIDE DEF f
  <1>12. ApplyRun(f, base, seq)
    BY <1>2, <1>9, <1>10, <1>11 DEF ApplyRun, n
  <1>13. \A k \in 0..n : f[k] \in D
    <2> DEFINE W == {k \in 0..n : f[k] \in D}
    <2>1. 0 \in W
      BY <1>1, <1>9
    <2>2. ASSUME NEW k \in 1..n, k - 1 \in W PROVE k \in W
      <3>1. k \in 0..n /\ f[k - 1] \in D /\ seq[k] \in E
        BY <1>1, <2>2
      <3>2. QED
        BY <1>10, <3>1
    <2> HIDE DEF W
    <2>3. \A k \in 0..n : k \in W
      BY <1>1, <2>1, <2>2, CountUp
    <2>4. QED
      BY <2>3 DEF W
  <1>14. f \in [0..n -> D]
    BY <1>11, <1>13 DEF f
  <1>15. QED
    BY <1>12, <1>14 DEF n

OpsRun(f, d, seq) ==
  /\ f[0] = <<>>
  /\ \A k \in 1..Len(seq) : f[k] = (f[k - 1] \o OpsOf(d, seq[k]))
  /\ FoldLeft(LAMBDA ops, e : ops \o OpsOf(d, e), <<>>, seq) = f[Len(seq)]

LEMMA OpsFold ==
  ASSUME NEW d, NEW D, NEW E, \A x \in D, y \in E : (x \o OpsOf(d, y)) \in D, <<>> \in D,
         NEW seq \in Seq(E)
  PROVE  \E f \in [0..Len(seq) -> D] : OpsRun(f, d, seq)
  <1> DEFINE n == Len(seq)
             R(H) == [s \in SUBSET DOMAIN seq |->
                       IF s = {} THEN <<>> ELSE (H[s \ {Max(s)}] \o OpsOf(d, seq[Max(s)]))]
             iter == CHOOSE H : H = R(H)
             G == [p \in D \X E |-> (p[1] \o OpsOf(d, p[2]))]
  <1>1. n \in Nat /\ DOMAIN seq = 1..n /\ seq \in [1..n -> E]
    OBVIOUS
  <1>2. FoldLeft(LAMBDA ops, e : ops \o OpsOf(d, e), <<>>, seq) = iter[1..n]
    BY <1>1 DEF FoldLeft, MapThenFoldSet
  <1>3. G \in [D \X E -> D] /\ \A x \in D, y \in E : G[<<x, y>>] = (x \o OpsOf(d, y))
    OBVIOUS
  <1> HIDE DEF G
  <1>4. PICK H : FoldsTo(H, D, G, <<>>, seq, n)
    BY <1>1, <1>3, FoldExists
  <1>5. ASSUME NEW s \in SUBSET (1..n), s # {}
        PROVE  s \ {Max(s)} \in SUBSET (1..n) /\ seq[Max(s)] \in E
    BY <1>1, <1>5, MaxOf
  <1>6. H = R(H)
    <2>1. ASSUME NEW s \in SUBSET (1..n) PROVE H[s] = R(H)[s]
      <3>1. s # {} => H[s \ {Max(s)}] \in D /\ seq[Max(s)] \in E
        BY <1>4, <1>5 DEF FoldsTo
      <3>2. QED
        BY <1>1, <1>3, <1>4, <3>1 DEF FoldsTo
    <2>2. DOMAIN H = SUBSET (1..n) /\ H = [s \in SUBSET (1..n) |-> H[s]]
      BY <1>4 DEF FoldsTo
    <2>3. R(H) = [s \in SUBSET (1..n) |-> R(H)[s]]
      BY <1>1
    <2> HIDE DEF R
    <2>4. QED
      BY <2>1, <2>2, <2>3
  <1>7. iter = R(iter)
    <2> HIDE DEF R
    <2>1. QED
      BY <1>6
  <1> HIDE DEF iter
  <1>8. \A s \in SUBSET (1..n) : iter[s] = IF s = {} THEN <<>> ELSE (iter[s \ {Max(s)}] \o OpsOf(d, seq[Max(s)]))
    <2>1. ASSUME NEW s \in SUBSET (1..n) PROVE R(iter)[s] = IF s = {} THEN <<>> ELSE (iter[s \ {Max(s)}] \o OpsOf(d, seq[Max(s)]))
      BY <1>1
    <2> HIDE DEF R
    <2>2. QED
      BY <1>7, <2>1
  <1> HIDE DEF n
  <1> DEFINE f == [k \in 0..n |-> iter[1..k]]
  <1>9. f[0] = <<>>
    <2>1. 1..0 = {} /\ {} \in SUBSET (1..n) /\ 0 \in 0..n
      BY <1>1
    <2>2. iter[{}] = <<>>
      BY <1>8, <2>1
    <2>3. QED
      BY <2>1, <2>2
  <1>10. ASSUME NEW k \in 1..n PROVE f[k] = (f[k - 1] \o OpsOf(d, seq[k]))
    <2>1. 1..k # {} /\ Max(1..k) = k /\ (1..k) \ {k} = 1..(k - 1) /\ 1..k \in SUBSET (1..n)
      BY <1>1, Stretches
    <2>2. iter[1..k] = (iter[1..(k - 1)] \o OpsOf(d, seq[k]))
      BY <1>8, <2>1
    <2>3. k \in 0..n /\ k - 1 \in 0..n
      BY <1>1
    <2>4. QED
      BY <2>2, <2>3
  <1>11. f[n] = iter[1..n] /\ DOMAIN f = 0..n
    BY <1>1
  <1> HIDE DEF f
  <1>12. OpsRun(f, d, seq)
    BY <1>2, <1>9, <1>10, <1>11 DEF OpsRun, n
  <1>13. \A k \in 0..n : f[k] \in D
    <2> DEFINE W == {k \in 0..n : f[k] \in D}
    <2>1. 0 \in W
      BY <1>1, <1>9
    <2>2. ASSUME NEW k \in 1..n, k - 1 \in W PROVE k \in W
      <3>1. k \in 0..n /\ f[k - 1] \in D /\ seq[k] \in E
        BY <1>1, <2>2
      <3>2. QED
        BY <1>10, <3>1
    <2> HIDE DEF W
    <2>3. \A k \in 0..n : k \in W
      BY <1>1, <2>1, <2>2, CountUp
    <2>4. QED
      BY <2>3 DEF W
  <1>14. f \in [0..n -> D]
    BY <1>11, <1>13 DEF f
  <1>15. QED
    BY <1>12, <1>14 DEF n

-----------------------------------------------------------------------------
(***************************************************************************)
(* Ids, and the order a text is kept in: a character is not before the one *)
(* it was typed after, and between the two are only characters with greater*)
(* ids (TextCrdt.#integrate).                                              *)
(***************************************************************************)

Id == Nat \X Nat
Chars == [t: {"i"}, id: Id, ref: Id]

(* greater() is a strict total order of the ids. *)
LEMMA IdsCompare ==
  /\ \A a, b \in Id : a # b => Greater(a, b) \/ Greater(b, a)
  /\ \A a, b \in Id : ~ (Greater(a, b) /\ Greater(b, a))
  /\ \A a, b, c \in Id : Greater(a, b) /\ Greater(b, c) => Greater(a, c)
  <1>1. \A a \in Id : a[1] \in Nat /\ a[2] \in Nat /\ a = <<a[1], a[2]>>
    BY DEF Id
  <1>2. ASSUME NEW a \in Id, NEW b \in Id, a # b PROVE Greater(a, b) \/ Greater(b, a)
    <2>1. a[1] # b[1] \/ a[2] # b[2]
      BY <1>1, <1>2
    <2>2. QED
      BY <1>1, <2>1 DEF Greater
  <1>3. \A a, b \in Id : ~ (Greater(a, b) /\ Greater(b, a))
    BY <1>1 DEF Greater
  <1>4. \A a, b, c \in Id : Greater(a, b) /\ Greater(b, c) => Greater(a, c)
    BY <1>1 DEF Greater
  <1>5. QED
    BY <1>2, <1>3, <1>4

(* What the k-th character's predecessors know of the j-th: where it was typed. *)
Behind(s, j, k) == s[j].ref = Start \/ \E i \in 1..(k - 1) : s[i].id = s[j].ref

(* The order the text is kept in. *)
Canon(s) ==
  /\ \A i, j \in 1..Len(s) : s[i].id = s[j].id => i = j
  /\ \A j \in 1..Len(s) : Behind(s, j, j)
  /\ \A j \in 1..Len(s), k \in 1..Len(s) : k < j /\ Behind(s, j, k) => Greater(s[k].id, s[j].id)

(* #integrate() keeps the order. *)
LEMMA InsertedCanon ==
  ASSUME NEW s \in Seq(Chars), Canon(s), NEW e \in Chars, \A j \in 1..Len(s) : s[j].id # e.id,
         NEW i \in 1..(Len(s) + 1),
         (e.ref = Start /\ i = 1) \/ (i > 1 /\ e.ref # Start /\ s[i - 1].id = e.ref),
         e.ref # e.id,
         NEW p \in i..(Len(s) + 1), p > Len(s) \/ ~Greater(s[p].id, e.id),
         \A k \in i..(p - 1) : Greater(s[k].id, e.id),
         NEW t \in Seq(Chars), Len(t) = Len(s) + 1,
         \A k \in 1..Len(t) : t[k] = IF k < p THEN s[k] ELSE IF k = p THEN e ELSE s[k - 1]
  PROVE  Canon(t)
  <1> DEFINE n == Len(s)
             Old(k) == IF k < p THEN k ELSE k - 1
             New(k) == IF k < p THEN k ELSE k + 1
  <1>1. n \in Nat /\ p \in 1..(n + 1) /\ p \in Nat /\ i \in Nat
    OBVIOUS
  <1>2. ASSUME NEW k \in 1..(n + 1), k # p
        PROVE  Old(k) \in 1..n /\ t[k] = s[Old(k)] /\ s[Old(k)] \in Chars
    BY <1>1, <1>2
  <1>3. ASSUME NEW k \in 1..n
        PROVE  New(k) \in 1..(n + 1) /\ New(k) # p /\ t[New(k)] = s[k]
    BY <1>1
  <1>4. t[p] = e
    BY <1>1
  <1>5. \A j, k \in 1..(n + 1) : j # p /\ k # p => (Old(j) < Old(k) <=> j < k)
    BY <1>1
  <1>6. \A k \in 1..n : s[k].id # e.id /\ s[k].id \in Id /\ s[k].ref \in Id
    <2>1. ASSUME NEW k \in 1..n PROVE s[k].id \in Id /\ s[k].ref \in Id
      <3>1. s[k] \in Chars
        BY <1>1
      <3>2. QED
        BY <3>1 DEF Chars
    <2>2. QED
      BY <2>1
  <1>7. e.id \in Id /\ e.ref \in Id
    BY DEF Chars
  <1>8. ASSUME NEW j \in 1..(n + 1), NEW k \in 1..(n + 1), t[j].id = t[k].id PROVE j = k
    <2>1. CASE j = p /\ k = p
      BY <2>1
    <2>2. CASE j = p /\ k # p
      BY <1>2, <1>4, <1>6, <1>8, <2>2
    <2>3. CASE j # p /\ k = p
      BY <1>2, <1>4, <1>6, <1>8, <2>3
    <2>4. CASE j # p /\ k # p
      <3>1. Old(j) = Old(k)
        <4>1. Old(j) \in 1..n /\ Old(k) \in 1..n /\ s[Old(j)].id = s[Old(k)].id
          BY <1>2, <1>8, <2>4
        <4> HIDE DEF Old
        <4>2. QED
          BY <4>1 DEF Canon
      <3>2. QED
        BY <1>1, <2>4, <3>1
    <2>5. QED
      BY <2>1, <2>2, <2>3, <2>4
  \* what was behind stays behind, and nothing comes behind that was not
  <1>9. ASSUME NEW j \in 1..(n + 1), NEW k \in 1..(n + 1), j # p, k # p
        PROVE  Behind(t, j, k) <=> Behind(s, Old(j), Old(k))
    <2> DEFINE oj == Old(j)
               ok == Old(k)
    <2>1. oj \in 1..n /\ ok \in 1..n /\ t[j] = s[oj]
      BY <1>2, <1>9
    <2>2. ASSUME Behind(t, j, k), t[j].ref # Start PROVE \E h \in 1..(ok - 1) : s[h].id = s[oj].ref
      <3>1. PICK h \in 1..(k - 1) : t[h].id = t[j].ref
        BY <2>2 DEF Behind
      <3>2. h \in 1..(n + 1) /\ h < k
        BY <1>1, <3>1
      <3>3. h # p
        <4>1. SUFFICES ASSUME h = p PROVE FALSE
          OBVIOUS
        <4>2. e.id = s[oj].ref
          BY <1>4, <2>1, <3>1, <4>1
        <4>3. Behind(s, oj, oj)
          BY <2>1 DEF Canon
        <4>4. PICK g \in 1..(oj - 1) : s[g].id = s[oj].ref
          BY <2>1, <2>2, <4>3 DEF Behind
        <4>5. g \in 1..n
          BY <1>1, <2>1
        <4>6. QED
          BY <1>6, <4>2, <4>4, <4>5
      <3>4. Old(h) \in 1..n /\ t[h] = s[Old(h)] /\ Old(h) < ok
        BY <1>2, <1>5, <1>9, <3>2, <3>3
      <3> HIDE DEF Old, oj
      <3>5. Old(h) \in 1..(ok - 1)
        BY <1>1, <2>1, <3>4
      <3>6. QED
        BY <2>1, <3>1, <3>4, <3>5
    <2>3. ASSUME NEW h \in 1..(ok - 1), s[h].id = s[oj].ref PROVE \E g \in 1..(k - 1) : t[g].id = t[j].ref
      <3>1. h \in 1..n
        BY <1>1, <2>1
      <3>2. New(h) \in 1..(n + 1) /\ New(h) # p /\ t[New(h)] = s[h]
        BY <1>3, <3>1
      <3>3. New(h) \in 1..(k - 1)
        BY <1>1, <1>9, <3>1
      <3>4. QED
        BY <2>1, <2>3, <3>2, <3>3
    <2> HIDE DEF Old, oj, ok
    <2>4. Behind(t, j, k) <=> Behind(s, oj, ok)
      BY <2>1, <2>2, <2>3 DEF Behind
    <2>5. QED
      BY <2>4 DEF oj, ok
  <1>10. ASSUME NEW j \in 1..(n + 1) PROVE Behind(t, j, j)
    <2>1. CASE j = p
      <3>1. CASE e.ref = Start
        BY <1>4, <2>1, <3>1 DEF Behind
      <3>2. CASE i > 1 /\ e.ref # Start /\ s[i - 1].id = e.ref
        <4>1. i - 1 \in 1..(p - 1) /\ t[i - 1] = s[i - 1]
          BY <1>1, <3>2, SMTT(30)
        <4>2. QED
          BY <1>4, <2>1, <3>2, <4>1 DEF Behind
      <3>3. QED
        BY <3>1, <3>2
    <2>2. CASE j # p
      <3>1. Old(j) \in 1..n
        BY <1>2, <2>2
      <3> HIDE DEF Old
      <3>2. Behind(s, Old(j), Old(j))
        BY <3>1 DEF Canon
      <3>3. QED
        BY <1>9, <2>2, <3>2
    <2>3. QED
      BY <2>1, <2>2
  <1>11. ASSUME NEW j \in 1..(n + 1), NEW k \in 1..(n + 1), k < j, Behind(t, j, k)
         PROVE  Greater(t[k].id, t[j].id)
    <2>1. CASE j = p
      \* between where it was typed and where it went the ids are greater
      <3>1. k \in 1..n /\ t[k] = s[k] /\ k \in Nat /\ k < p
        BY <1>1, <1>11, <2>1
      <3>2. k \in i..(p - 1)
        <4>1. CASE e.ref = Start /\ i = 1
          <5>1. i = 1 /\ 1 <= k
            BY <3>1, <4>1
          <5>2. QED
            BY <1>1, <3>1, <5>1
        <4>2. CASE i > 1 /\ e.ref # Start /\ s[i - 1].id = e.ref
          <5>1. PICK g \in 1..(k - 1) : t[g].id = e.ref
            BY <1>4, <1>11, <2>1, <4>2 DEF Behind
          <5>2. g \in 1..n /\ t[g] = s[g] /\ i - 1 \in 1..n
            BY <1>1, <2>1, <3>1, <4>2, <5>1
          <5>3. g = i - 1
            BY <4>2, <5>1, <5>2 DEF Canon
          <5>4. QED
            BY <1>1, <1>11, <2>1, <3>1, <5>1, <5>3
        <4>3. QED
          BY <4>1, <4>2
      <3>3. QED
        BY <1>4, <2>1, <3>1, <3>2
    <2>2. CASE j # p /\ k = p
      <3> DEFINE oj == Old(j)
      <3>1. oj \in 1..n /\ t[j] = s[oj] /\ oj >= p /\ p \in 1..n
        BY <1>1, <1>2, <1>11, <2>2
      <3>2. s[p].id \in Id /\ s[oj].id \in Id /\ s[p].id # e.id
        BY <1>6, <3>1
      <3>3. Greater(e.id, s[p].id)
        <4>1. ~Greater(s[p].id, e.id)
          BY <1>1, <3>1
        <4>2. QED
          BY <1>7, <3>2, <4>1, IdsCompare
      <3>4. CASE oj = p
        BY <1>4, <2>2, <3>1, <3>3, <3>4
      <3>5. CASE oj # p
        <4>1. Behind(s, oj, p)
          <5>1. CASE t[j].ref = Start
            BY <3>1, <5>1 DEF Behind
          <5>2. CASE t[j].ref # Start
            <6>1. PICK g \in 1..(p - 1) : t[g].id = t[j].ref
              BY <1>11, <2>2, <5>2 DEF Behind
            <6>2. t[g] = s[g]
              BY <1>1, <6>1
            <6>3. QED
              BY <3>1, <6>1, <6>2 DEF Behind
          <5>3. QED
            BY <5>1, <5>2
        <4>2. p < oj
          BY <1>1, <3>1, <3>5
        <4>3. Greater(s[p].id, s[oj].id)
          BY <3>1, <4>1, <4>2 DEF Canon
        <4>4. Greater(e.id, s[oj].id)
          BY <1>7, <3>2, <3>3, <4>3, IdsCompare
        <4>5. QED
          BY <1>4, <2>2, <3>1, <4>4
      <3>6. QED
        BY <3>4, <3>5
    <2>3. CASE j # p /\ k # p
      <3>1. Old(j) \in 1..n /\ Old(k) \in 1..n /\ Old(k) < Old(j)
        BY <1>2, <1>5, <1>11, <2>3
      <3>2. Behind(s, Old(j), Old(k))
        BY <1>9, <1>11, <2>3
      <3>3. t[j] = s[Old(j)] /\ t[k] = s[Old(k)]
        BY <1>2, <2>3
      <3> HIDE DEF Old
      <3>4. QED
        BY <3>1, <3>2, <3>3 DEF Canon
    <2>4. QED
      BY <2>1, <2>2, <2>3
  <1>12. QED
    BY <1>8, <1>10, <1>11 DEF Canon

-----------------------------------------------------------------------------
(***************************************************************************)
(* Inserting a character that is not there yet keeps that order.  DocSet(K)*)
(* are the texts whose characters, shown or pending, are of K.             *)
(***************************************************************************)

LEMMA PositionIs ==
  ASSUME NEW s \in Seq(Chars), NEW id \in Id, NEW i \in 1..(Len(s) + 1)
  PROVE  /\ Position(s, i, id) \in i..(Len(s) + 1)
         /\ Position(s, i, id) > Len(s) \/ ~Greater(s[Position(s, i, id)].id, id)
         /\ \A k \in i..(Position(s, i, id) - 1) : Greater(s[k].id, id)
  <1> DEFINE S == {j \in i..(Len(s) + 1) : j > Len(s) \/ ~Greater(s[j].id, id)}
  <1>1. Len(s) \in Nat /\ i \in Nat /\ i <= Len(s) + 1
    OBVIOUS
  <1>2. Len(s) + 1 \in S /\ S \subseteq Nat
    BY <1>1
  <1>3. PICK p \in S : \A j \in S : p <= j
    BY <1>2, HasMin
  <1>4. p \in i..(Len(s) + 1) /\ p \in Nat /\ (p > Len(s) \/ ~Greater(s[p].id, id))
    BY <1>1, <1>3
  <1>5. ASSUME NEW k \in i..(p - 1) PROVE Greater(s[k].id, id)
    <2>1. k \in i..(Len(s) + 1) /\ ~ (p <= k)
      BY <1>1, <1>4
    <2>2. QED
      BY <1>3, <2>1
  <1>6. \E j \in i..(Len(s) + 1) : /\ j > Len(s) \/ ~Greater(s[j].id, id)
                                   /\ \A k \in i..(j - 1) : Greater(s[k].id, id)
    BY <1>4, <1>5
  <1>7. QED
    BY <1>6 DEF Position

LEMMA InsertAtIs ==
  ASSUME NEW K, NEW s \in Seq(K), NEW e \in K, NEW p \in 1..(Len(s) + 1)
  PROVE  /\ InsertAt(s, p, e) \in Seq(K)
         /\ Len(InsertAt(s, p, e)) = Len(s) + 1
         /\ \A k \in 1..(Len(s) + 1) :
              InsertAt(s, p, e)[k] = IF k < p THEN s[k] ELSE IF k = p THEN e ELSE s[k - 1]
  <1> DEFINE a == SubSeq(s, 1, p - 1)
             b == SubSeq(s, p, Len(s))
             m == <<e>>
  <1>1. Len(s) \in Nat /\ p \in Nat /\ p >= 1 /\ p <= Len(s) + 1
    OBVIOUS
  <1>2. a \in Seq(K) /\ Len(a) = p - 1 /\ \A k \in 1..(p - 1) : a[k] = s[k]
    BY <1>1
  <1>3. b \in Seq(K) /\ Len(b) = Len(s) - p + 1 /\ \A k \in 1..(Len(s) - p + 1) : b[k] = s[p + k - 1]
    BY <1>1
  <1>4. m \in Seq(K) /\ Len(m) = 1 /\ m[1] = e
    OBVIOUS
  <1> HIDE DEF a, b, m
  <1>5. (a \o m) \in Seq(K) /\ Len(a \o m) = p
        /\ \A k \in 1..p : (a \o m)[k] = IF k < p THEN s[k] ELSE e
    <2>1. /\ (a \o m) \in Seq(K) /\ Len(a \o m) = Len(a) + Len(m)
          /\ \A k \in 1..(Len(a) + Len(m)) :
               (a \o m)[k] = IF k <= Len(a) THEN a[k] ELSE m[k - Len(a)]
      BY <1>2, <1>4, ConcatProperties
    <2>2. ASSUME NEW k \in 1..p PROVE (a \o m)[k] = IF k < p THEN s[k] ELSE e
      <3>1. k \in 1..(Len(a) + Len(m)) /\ k \in Nat
        BY <1>1, <1>2, <1>4
      <3>2. CASE k < p
        BY <1>1, <1>2, <2>1, <3>1, <3>2
      <3>3. CASE k = p
        BY <1>1, <1>2, <1>4, <2>1, <3>1, <3>3
      <3>4. k < p \/ k = p
        BY <1>1
      <3>5. QED
        BY <3>2, <3>3, <3>4
    <2>3. Len(a \o m) = p
      BY <1>1, <1>2, <1>4, <2>1
    <2>4. QED
      BY <2>1, <2>2, <2>3
  <1> DEFINE c == a \o m
  <1> HIDE DEF c
  <1>6. (c \o b) \in Seq(K) /\ Len(c \o b) = Len(s) + 1
    BY <1>1, <1>3, <1>5 DEF c
  <1>7. ASSUME NEW k \in 1..(Len(s) + 1)
        PROVE  (c \o b)[k] = IF k < p THEN s[k] ELSE IF k = p THEN e ELSE s[k - 1]
    <2>1. CASE k <= p
      <3>1. k \in 1..p /\ Len(c) = p /\ c \in Seq(K)
        BY <1>1, <1>5, <2>1 DEF c
      <3>2. (c \o b)[k] = c[k]
        BY <1>3, <3>1
      <3>3. QED
        BY <1>1, <1>5, <3>1, <3>2 DEF c
    <2>2. CASE k > p
      <3>1. Len(c) = p /\ c \in Seq(K) /\ k - p \in 1..(Len(s) - p + 1)
        BY <1>1, <1>5, <2>2 DEF c
      <3>2. (c \o b)[k] = b[k - p]
        BY <1>1, <1>3, <2>2, <3>1
      <3>3. p + (k - p) - 1 = k - 1
        BY <1>1
      <3>4. QED
        BY <1>1, <1>3, <2>2, <3>1, <3>2, <3>3
    <2>3. k <= p \/ k > p
      BY <1>1
    <2>4. QED
      BY <2>1, <2>2, <2>3
  <1>8. InsertAt(s, p, e) = c \o b
    BY DEF InsertAt, a, b, c, m
  <1>9. QED
    BY <1>6, <1>7, <1>8

-----------------------------------------------------------------------------
(* A character has a counter, and was typed after one with a smaller id. *)
Grown(c) == c.id[1] > 0 /\ (c.ref = Start \/ Greater(c.id, c.ref))
Good(K) == /\ K \subseteq Chars
           /\ \A c \in K : Grown(c)
           /\ \A c, e \in K : c.id = e.id => c = e

Docs(K) == [chars: Seq(K), pending: Seq(K), dead: SUBSET Id, clock: Nat]
Below(s, n) == \A i \in 1..Len(s) : s[i].id[1] <= n
DocSet(K) == {d \in Docs(K) : Canon(d.chars) /\ Below(d.chars, d.clock)}

Grew(d, x) == /\ ToSet(d.chars) \subseteq ToSet(x.chars)
              /\ d.dead \subseteq x.dead
              /\ d.clock <= x.clock

LEMMA Growing ==
  ASSUME NEW K, NEW d \in Docs(K), NEW x \in Docs(K), NEW y \in Docs(K)
  PROVE  Grew(d, d) /\ (Grew(d, x) /\ Grew(x, y) => Grew(d, y))
  BY DEF Docs, Grew

LEMMA OwnIds ==
  ASSUME NEW K, Good(K), NEW c \in K
  PROVE  c \in Chars /\ c.id \in Id /\ c.ref \in Id /\ c.id # Start /\ c.ref # c.id
  <1>1. c \in Chars /\ c.id \in Id /\ c.ref \in Id /\ Grown(c)
    BY DEF Good, Chars
  <1>2. c.id # Start
    BY <1>1 DEF Grown, Start, Id
  <1>3. c.ref # c.id
    BY <1>1, <1>2, IdsCompare DEF Grown
  <1>4. QED
    BY <1>1, <1>2, <1>3

Placed(d, e, i) == [d EXCEPT !.chars = InsertAt(@, Position(@, i, e.id), e), !.clock = Larger(@, e.id[1])]

LEMMA PlacedWell ==
  ASSUME NEW K, Good(K), NEW d \in DocSet(K), NEW e \in K, e.id \notin Ids(d),
         NEW i \in 1..(Len(d.chars) + 1),
         (e.ref = Start /\ i = 1) \/ (i > 1 /\ e.ref # Start /\ d.chars[i - 1].id = e.ref)
  PROVE  /\ Placed(d, e, i) \in DocSet(K)
         /\ Grew(d, Placed(d, e, i))
         /\ e \in ToSet(Placed(d, e, i).chars)
         /\ Placed(d, e, i).dead = d.dead
  <1> DEFINE s == d.chars
             p == Position(s, i, e.id)
             t == InsertAt(s, p, e)
             m == Larger(d.clock, e.id[1])
  <1>1. d \in Docs(K) /\ s \in Seq(K) /\ Canon(s) /\ Below(s, d.clock) /\ d.clock \in Nat
    BY DEF DocSet, Docs
  <1>2. s \in Seq(Chars) /\ Len(s) \in Nat /\ DOMAIN s = 1..Len(s)
    BY <1>1 DEF Good
  <1>3. e \in Chars /\ e.id \in Id /\ e.ref # e.id /\ e.id[1] \in Nat
    BY OwnIds DEF Id
  <1> HIDE DEF s
  <1>4. i \in 1..(Len(s) + 1)
    BY DEF s
  <1>5. /\ p \in i..(Len(s) + 1)
        /\ p > Len(s) \/ ~Greater(s[p].id, e.id)
        /\ \A k \in i..(p - 1) : Greater(s[k].id, e.id)
    BY <1>2, <1>3, <1>4, PositionIs
  <1> HIDE DEF p
  <1>6. p \in 1..(Len(s) + 1)
    BY <1>2, <1>4, <1>5
  <1>7. /\ t \in Seq(K)
        /\ Len(t) = Len(s) + 1
        /\ \A k \in 1..(Len(s) + 1) : t[k] = IF k < p THEN s[k] ELSE IF k = p THEN e ELSE s[k - 1]
    <2>1. s \in Seq(K) /\ e \in K /\ p \in 1..(Len(s) + 1)
      BY <1>1, <1>6
    <2>2. QED
      BY <2>1, InsertAtIs, SMTT(30)
  <1> HIDE DEF t
  <1>8. t \in Seq(Chars)
    BY <1>7 DEF Good
  <1>9. \A j \in 1..Len(s) : s[j].id # e.id
    BY <1>2 DEF Ids, s
  <1>10. (e.ref = Start /\ i = 1) \/ (i > 1 /\ e.ref # Start /\ s[i - 1].id = e.ref)
    BY DEF s
  <1>11. Canon(t)
    <2>1. \A k \in 1..Len(t) : t[k] = IF k < p THEN s[k] ELSE IF k = p THEN e ELSE s[k - 1]
      BY <1>7
    <2>2. Len(t) = Len(s) + 1
      BY <1>7
    <2>3. QED
      BY <1>1, <1>2, <1>3, <1>4, <1>5, <1>8, <1>9, <1>10, <2>1, <2>2, InsertedCanon, ZenonT(60)
  <1>12. m \in Nat /\ d.clock <= m /\ e.id[1] <= m
    BY <1>1, <1>3 DEF Larger
  <1> HIDE DEF m
  <1>13. Below(t, m)
    <2>1. ASSUME NEW k \in 1..Len(t) PROVE t[k].id[1] <= m
      <3>1. CASE k = p
        BY <1>7, <1>12, <3>1
      <3>2. CASE k # p
        <4>1. PICK j \in 1..Len(s) : t[k] = s[j]
          <5>1. CASE k < p
            BY <1>2, <1>6, <1>7, <5>1
          <5>2. CASE k > p
            <6>1. k - 1 \in 1..Len(s) /\ t[k] = s[k - 1]
              BY <1>2, <1>6, <1>7, <5>2
            <6>2. QED
              BY <6>1
          <5>3. QED
            BY <1>2, <1>6, <1>7, <3>2, <5>1, <5>2
        <4>2. s[j].id[1] <= d.clock /\ s[j].id[1] \in Nat
          <5>1. s[j] \in Chars
            BY <1>2
          <5>2. QED
            BY <1>1, <5>1 DEF Below, Chars, Id
        <4>3. QED
          BY <1>1, <1>12, <4>1, <4>2
      <3>3. QED
        BY <3>1, <3>2
    <2>2. QED
      BY <2>1 DEF Below
  <1>14. ToSet(s) \subseteq ToSet(t) /\ e \in ToSet(t)
    <2>1. DOMAIN t = 1..(Len(s) + 1) /\ DOMAIN s = 1..Len(s)
      BY <1>1, <1>7
    <2>2. ASSUME NEW j \in 1..Len(s) PROVE \E k \in 1..(Len(s) + 1) : t[k] = s[j]
      <3>1. CASE j < p
        BY <1>2, <1>7, <3>1
      <3>2. CASE j >= p
        <4>1. j + 1 \in 1..(Len(s) + 1) /\ ~ (j + 1 < p) /\ j + 1 # p /\ (j + 1) - 1 = j
          BY <1>2, <1>6, <3>2
        <4>2. t[j + 1] = s[j]
          BY <1>7, <4>1
        <4>3. QED
          BY <4>1, <4>2
      <3>3. QED
        BY <1>2, <1>6, <3>1, <3>2
    <2>3. t[p] = e
      BY <1>2, <1>6, <1>7
    <2>4. QED
      BY <1>6, <2>1, <2>2, <2>3 DEF ToSet
  <1>15. /\ Placed(d, e, i).chars = t /\ Placed(d, e, i).clock = m
         /\ Placed(d, e, i).dead = d.dead /\ Placed(d, e, i).pending = d.pending
         /\ Placed(d, e, i) \in Docs(K)
    <2>1. Placed(d, e, i) = [d EXCEPT !.chars = t, !.clock = m]
      BY DEF Placed, t, p, m, s
    <2>2. QED
      BY <1>1, <1>7, <1>12, <2>1 DEF Docs
  <1>16. QED
    BY <1>11, <1>12, <1>13, <1>14, <1>15 DEF DocSet, Grew, s

(* #integrate(): what was there stays, and the character is in if its predecessor is. *)
LEMMA Integrated ==
  ASSUME NEW K, Good(K), NEW d \in DocSet(K), NEW e \in K
  PROVE  /\ Integrate(d, e) \in DocSet(K)
         /\ Grew(d, Integrate(d, e))
         /\ Integrate(d, e).dead = d.dead
         /\ e.ref = Start \/ e.ref \in Ids(d) => e \in ToSet(Integrate(d, e).chars)
  <1>1. d \in Docs(K) /\ d.chars \in Seq(K) /\ DOMAIN d.chars = 1..Len(d.chars) /\ Len(d.chars) \in Nat
    BY DEF DocSet, Docs
  <1>2. CASE e.id \in Ids(d)
    <2>1. Integrate(d, e) = d
      BY <1>2 DEF Integrate
    <2>2. PICK j \in 1..Len(d.chars) : d.chars[j].id = e.id
      BY <1>1, <1>2 DEF Ids
    <2>3. d.chars[j] = e
      BY <1>1, <2>2 DEF Good
    <2>4. e \in ToSet(d.chars)
      BY <1>1, <2>3 DEF ToSet
    <2>5. QED
      BY <1>1, <2>1, <2>4, Growing
  <1>3. CASE e.id \notin Ids(d) /\ e.ref # Start /\ e.ref \notin Ids(d)
    <2>1. Integrate(d, e) = [d EXCEPT !.pending = Append(@, e)]
      BY <1>3 DEF Integrate
    <2>2. Integrate(d, e) \in Docs(K) /\ Integrate(d, e).chars = d.chars /\ Integrate(d, e).clock = d.clock
          /\ Integrate(d, e).dead = d.dead
      <3>1. d.pending \in Seq(K) /\ Append(d.pending, e) \in Seq(K)
        BY <1>1 DEF Docs
      <3>2. QED
        BY <1>1, <2>1, <3>1 DEF Docs
    <2>3. d.clock <= d.clock
      BY <1>1 DEF Docs
    <2>4. QED
      BY <1>3, <2>2, <2>3 DEF DocSet, Grew
  <1>4. CASE e.id \notin Ids(d) /\ (e.ref = Start \/ e.ref \in Ids(d))
    <2> DEFINE i == IF e.ref = Start THEN 1 ELSE 1 + CHOOSE k \in DOMAIN d.chars : d.chars[k].id = e.ref
    <2>1. Integrate(d, e) = Placed(d, e, i)
      BY <1>4 DEF Integrate, Placed
    <2>2. i \in 1..(Len(d.chars) + 1)
          /\ ((e.ref = Start /\ i = 1) \/ (i > 1 /\ e.ref # Start /\ d.chars[i - 1].id = e.ref))
      <3>1. CASE e.ref = Start
        BY <1>1, <3>1
      <3>2. CASE e.ref # Start
        <4> DEFINE k == CHOOSE k \in DOMAIN d.chars : d.chars[k].id = e.ref
        <4>1. k \in 1..Len(d.chars) /\ d.chars[k].id = e.ref
          BY <1>1, <1>4, <3>2 DEF Ids
        <4>2. i = 1 + k
          BY <3>2
        <4> HIDE DEF k, i
        <4>3. i - 1 = k /\ i > 1 /\ i \in 1..(Len(d.chars) + 1)
          BY <1>1, <4>1, <4>2
        <4>4. QED
          BY <3>2, <4>1, <4>3
      <3>3. QED
        BY <3>1, <3>2
    <2> HIDE DEF i
    <2>3. QED
      BY <1>4, <2>1, <2>2, PlacedWell
  <1>5. QED
    BY <1>2, <1>3, <1>4

-----------------------------------------------------------------------------
(***************************************************************************)
(* #retry() and apply(): however the pending characters come in, the text  *)
(* stays one of DocSet(K).                                                 *)
(***************************************************************************)

OpsOver(K) == K \cup {Del(id) : id \in Id}

LEMMA Passed ==
  ASSUME NEW K, Good(K), NEW d \in DocSet(K), NEW k
  PROVE  Pass(d, k) \in DocSet(K) /\ Grew(d, Pass(d, k)) /\ Pass(d, k).dead = d.dead
  <1> DEFINE c == [d EXCEPT !.pending = <<>>]
             D == {x \in DocSet(K) : Grew(d, x) /\ x.dead = d.dead}
  <1>1. d \in Docs(K) /\ d.pending \in Seq(K) /\ DocSet(K) \subseteq Docs(K)
    BY DEF DocSet, Docs
  <1>2. c \in Docs(K) /\ c.chars = d.chars /\ c.clock = d.clock /\ c.dead = d.dead /\ d.clock <= d.clock
    <2>1. <<>> \in Seq(K)
      OBVIOUS
    <2>2. PICK none : none = <<>> /\ none \in Seq(K)
      BY <2>1
    <2>3. c = [d EXCEPT !.pending = none]
      BY <2>2
    <2> HIDE DEF c
    <2>4. c \in Docs(K) /\ c.chars = d.chars /\ c.clock = d.clock /\ c.dead = d.dead
      BY <1>1, <2>2, <2>3 DEF Docs
    <2>5. d.clock <= d.clock
      BY <1>1 DEF Docs
    <2>6. QED
      BY <2>4, <2>5
  <1> HIDE DEF c
  <1>3. c \in D
    BY <1>2 DEF DocSet, Grew
  <1>4. ASSUME NEW x \in D, NEW y \in K PROVE Integrate(x, y) \in D
    <2>1. x \in DocSet(K) /\ Grew(d, x) /\ x.dead = d.dead
      OBVIOUS
    <2>2. Integrate(x, y) \in DocSet(K) /\ Grew(x, Integrate(x, y)) /\ Integrate(x, y).dead = x.dead
      BY <2>1, Integrated
    <2>3. Grew(d, Integrate(x, y))
      BY <1>1, <2>1, <2>2, Growing
    <2>4. QED
      BY <2>1, <2>2, <2>3
  <1> HIDE DEF D
  <1>5. PICK f \in [0..Len(d.pending) -> D] : IntegrateRun(f, c, d.pending)
    BY <1>1, <1>3, <1>4, IntegrateFold
  <1>6. FoldLeft(Integrate, c, d.pending) \in D
    <2>1. Len(d.pending) \in 0..Len(d.pending)
      BY <1>1
    <2>2. QED
      BY <1>5, <2>1 DEF IntegrateRun
  <1>7. QED
    BY <1>6 DEF Pass, c, D

(* #retry() moves pending characters only. *)
LEMMA Retried ==
  ASSUME NEW K, Good(K), NEW d \in DocSet(K)
  PROVE  Retry(d) \in DocSet(K) /\ Grew(d, Retry(d)) /\ Retry(d).dead = d.dead
  <1> DEFINE D == {x \in DocSet(K) : Grew(d, x) /\ x.dead = d.dead}
  <1>1. d \in Docs(K) /\ d.pending \in Seq(K) /\ DocSet(K) \subseteq Docs(K)
    BY DEF DocSet, Docs
  <1>2. d \in D
    BY <1>1, Growing
  <1>3. ASSUME NEW x \in D, NEW y \in K PROVE Pass(x, y) \in D
    <2>1. x \in DocSet(K) /\ Grew(d, x) /\ x.dead = d.dead
      OBVIOUS
    <2>2. Pass(x, y) \in DocSet(K) /\ Grew(x, Pass(x, y)) /\ Pass(x, y).dead = x.dead
      BY <2>1, Passed
    <2>3. Grew(d, Pass(x, y))
      BY <1>1, <2>1, <2>2, Growing
    <2>4. QED
      BY <2>1, <2>2, <2>3
  <1> HIDE DEF D
  <1>4. PICK f \in [0..Len(d.pending) -> D] : PassRun(f, d, d.pending)
    BY <1>1, <1>2, <1>3, PassFold
  <1>5. FoldLeft(Pass, d, d.pending) \in D
    <2>1. Len(d.pending) \in 0..Len(d.pending)
      BY <1>1
    <2>2. QED
      BY <1>4, <2>1 DEF PassRun
  <1>6. QED
    BY <1>5 DEF Retry, D

LEMMA Applied ==
  ASSUME NEW K, Good(K), NEW d \in DocSet(K), NEW op \in OpsOver(K)
  PROVE  /\ Apply(d, op) \in DocSet(K)
         /\ Grew(d, Apply(d, op))
         /\ op.t = "i" => /\ op \in K
                          /\ op.ref = Start \/ op.ref \in Ids(d) => op \in ToSet(Apply(d, op).chars)
         /\ op.t # "i" => op.id \in Id /\ op = Del(op.id) /\ op.id \in Apply(d, op).dead /\ Apply(d, op).chars = d.chars
  <1>1. d \in Docs(K) /\ d.chars \in Seq(K) /\ DocSet(K) \subseteq Docs(K)
    BY DEF DocSet, Docs
  <1>2. CASE op \in K
    <2>1. op.t = "i"
      BY <1>2 DEF Good, Chars
    <2>2. Apply(d, op) = Retry(Integrate(d, op))
      BY <2>1 DEF Apply
    <2>3. PICK x : x = Integrate(d, op)
      OBVIOUS
    <2>4. /\ x \in DocSet(K) /\ Grew(d, x)
          /\ op.ref = Start \/ op.ref \in Ids(d) => op \in ToSet(x.chars)
      BY <1>2, <2>3, Integrated
    <2>5. Retry(x) \in DocSet(K) /\ Grew(x, Retry(x))
      BY <2>4, Retried
    <2>6. Grew(d, Retry(x))
      BY <1>1, <2>4, <2>5, Growing
    <2>7. ToSet(x.chars) \subseteq ToSet(Retry(x).chars)
      BY <2>5 DEF Grew
    <2>8. Apply(d, op) = Retry(x)
      BY <2>2, <2>3
    <2>9. QED
      BY <1>2, <2>1, <2>4, <2>5, <2>6, <2>7, <2>8
  <1>3. CASE op \notin K
    <2>1. PICK id \in Id : op = Del(id)
      BY <1>3 DEF OpsOver
    <2>2. op.t = "d" /\ op.id = id /\ op = Del(op.id)
      BY <2>1 DEF Del
    <2> DEFINE m == Larger(d.clock, id[1])
               x == [d EXCEPT !.dead = d.dead \cup {id}, !.clock = m]
    <2>3. Apply(d, op) = x
      BY <2>2 DEF Apply
    <2>4. m \in Nat /\ d.clock <= m /\ d.clock \in Nat
      BY <1>1 DEF Larger, Docs, Id
    <2> HIDE DEF m
    <2>5. x \in Docs(K) /\ x.chars = d.chars /\ x.dead = d.dead \cup {id} /\ x.clock = m
      BY <1>1, <2>4 DEF Docs
    <2> HIDE DEF x
    <2>6. Below(x.chars, m)
      <3>1. ASSUME NEW i \in 1..Len(d.chars) PROVE d.chars[i].id[1] <= m
        <4>1. d.chars[i].id[1] <= d.clock
          BY DEF DocSet, Below
        <4>2. d.chars[i] \in Chars
          BY <1>1 DEF Good
        <4>3. d.chars[i].id[1] \in Nat
          BY <4>2 DEF Chars, Id
        <4>4. QED
          BY <2>4, <4>1, <4>3
      <3>2. QED
        BY <2>5, <3>1 DEF Below
    <2>7. x \in DocSet(K) /\ Grew(d, x)
      BY <2>4, <2>5, <2>6 DEF DocSet, Grew
    <2>8. QED
      BY <2>2, <2>3, <2>5, <2>7
  <1>4. QED
    BY <1>2, <1>3

(* All operations of a batch or a snapshot, one after the other. *)
AppliedAll(d, ops) == FoldLeft(Apply, d, ops)

LEMMA AllApplied ==
  ASSUME NEW K, Good(K), NEW d \in DocSet(K), NEW ops \in Seq(OpsOver(K))
  PROVE  \E f \in [0..Len(ops) -> DocSet(K)] :
           /\ f[0] = d
           /\ \A k \in 1..Len(ops) : f[k] = Apply(f[k - 1], ops[k]) /\ Grew(f[k - 1], f[k])
           /\ \A k \in 0..Len(ops) : Grew(d, f[k]) /\ Grew(f[k], f[Len(ops)])
           /\ AppliedAll(d, ops) = f[Len(ops)]
  <1> DEFINE D == DocSet(K)
             n == Len(ops)
  <1>1. \A x \in D, y \in OpsOver(K) : Apply(x, y) \in D
    BY Applied
  <1>2. n \in Nat /\ d \in D /\ ops \in [1..n -> OpsOver(K)] /\ D \subseteq Docs(K)
    BY DEF DocSet
  <1> HIDE DEF D
  <1>3. PICK f \in [0..n -> D] : ApplyRun(f, d, ops)
    BY <1>1, <1>2, ApplyFold
  <1>4. f[0] = d /\ AppliedAll(d, ops) = f[n] /\ \A k \in 1..n : f[k] = Apply(f[k - 1], ops[k])
    BY <1>3 DEF ApplyRun, AppliedAll
  <1>5. ASSUME NEW k \in 1..n PROVE Grew(f[k - 1], f[k])
    <2>1. PICK x : x = f[k - 1]
      OBVIOUS
    <2>2. x \in DocSet(K) /\ ops[k] \in OpsOver(K)
      <3>1. k - 1 \in 0..n
        BY <1>2
      <3>2. QED
        BY <1>2, <1>3, <2>1, <3>1 DEF D
    <2>3. Grew(x, Apply(x, ops[k]))
      BY <2>2, Applied
    <2>4. QED
      BY <1>4, <2>1, <2>3
  <1>6. \A k \in 0..n : f[k] \in Docs(K)
    BY <1>2, <1>3
  <1>7. \A k \in 0..n : Grew(d, f[k])
    <2> DEFINE W == {k \in 0..n : Grew(d, f[k])}
    <2>1. 0 \in W
      BY <1>2, <1>4, Growing
    <2>2. ASSUME NEW k \in 1..n, k - 1 \in W PROVE k \in W
      <3>1. k \in 0..n /\ k - 1 \in 0..n
        BY <1>2
      <3>2. Grew(d, f[k - 1]) /\ Grew(f[k - 1], f[k])
        BY <1>5, <2>2
      <3>3. Grew(d, f[k])
        BY <1>2, <1>6, <3>1, <3>2, Growing
      <3>4. QED
        BY <3>1, <3>3
    <2> HIDE DEF W
    <2>3. \A k \in 0..n : k \in W
      BY <1>2, <2>1, <2>2, CountUp
    <2>4. QED
      BY <2>3 DEF W
  <1>8. \A k \in 0..n : Grew(f[n - k], f[n])
    <2> DEFINE W == {k \in 0..n : Grew(f[n - k], f[n])}
    <2>1. 0 \in W
      <3>1. 0 \in 0..n /\ n - 0 = n /\ n \in 0..n
        BY <1>2
      <3>2. Grew(f[n], f[n])
        BY <1>6, <3>1, Growing
      <3>3. QED
        BY <3>1, <3>2
    <2>2. ASSUME NEW k \in 1..n, k - 1 \in W PROVE k \in W
      <3>1. k \in 0..n /\ n - k \in 0..n /\ n - (k - 1) \in 1..n /\ (n - (k - 1)) - 1 = n - k /\ n \in 0..n
        BY <1>2
      <3>2. Grew(f[n - k], f[n - (k - 1)])
        BY <1>5, <3>1
      <3>3. Grew(f[n - (k - 1)], f[n])
        BY <2>2
      <3>4. n - (k - 1) \in 0..n
        BY <3>1
      <3>5. Grew(f[n - k], f[n])
        BY <1>6, <3>1, <3>2, <3>3, <3>4, Growing
      <3>6. QED
        BY <3>1, <3>5
    <2> HIDE DEF W
    <2>3. \A k \in 0..n : k \in W
      BY <1>2, <2>1, <2>2, CountUp
    <2>4. QED
      BY <2>3 DEF W
  <1>9. ASSUME NEW k \in 0..n PROVE Grew(f[k], f[n])
    <2>1. n - k \in 0..n /\ n - (n - k) = k
      BY <1>2
    <2>2. QED
      BY <1>8, <2>1
  <1>10. QED
    BY <1>3, <1>4, <1>5, <1>7, <1>9 DEF D

-----------------------------------------------------------------------------
(***************************************************************************)
(* The order is determined by the characters: two texts in order with the  *)
(* same characters are the same.  Of the pairs they disagreed about one    *)
(* would be lowest, and what stands between its two makes a lower one.     *)
(***************************************************************************)

(* A pair that two orders of the same characters do not agree about. *)
Crossed(a, b, i, j, k, l) ==
  /\ i \in 1..Len(a) /\ j \in 1..Len(a) /\ i < j
  /\ k \in 1..Len(b) /\ l \in 1..Len(b) /\ k < l
  /\ a[i] = b[l] /\ a[j] = b[k]

Highest(x, y) == IF Greater(x.id, y.id) THEN x.id ELSE y.id

LEMMA HasLeast ==
  ASSUME NEW S, S \subseteq Id, S # {}
  PROVE  \E m \in S : \A x \in S : ~Greater(m, x)
  <1>1. \A x \in S : x[1] \in Nat /\ x[2] \in Nat
    BY DEF Id
  <1> DEFINE A == {x[1] : x \in S}
  <1>2. A \subseteq Nat /\ A # {}
    BY <1>1
  <1>3. PICK a \in A : \A y \in A : a <= y
    BY <1>2, HasMin
  <1> DEFINE B == {x[2] : x \in {y \in S : y[1] = a}}
  <1>4. B \subseteq Nat /\ B # {}
    BY <1>1, <1>3
  <1>5. PICK b \in B : \A y \in B : b <= y
    BY <1>4, HasMin
  <1>6. PICK m \in S : m[1] = a /\ m[2] = b
    BY <1>5
  <1>7. ASSUME NEW x \in S PROVE ~Greater(m, x)
    <2>1. a <= x[1] /\ a \in Nat /\ x[1] \in Nat
      BY <1>1, <1>2, <1>3
    <2>2. x[1] = a => b <= x[2]
      BY <1>5
    <2>3. b \in Nat /\ x[2] \in Nat
      BY <1>1, <1>4
    <2>4. QED
      BY <1>6, <2>1, <2>2, <2>3 DEF Greater
  <1>8. QED
    BY <1>7

(* A crossed pair whose second character has the greater id makes another, lower one. *)
LEMMA CrossedLower ==
  ASSUME NEW K, Good(K), NEW a \in Seq(K), NEW b \in Seq(K), Canon(a), Canon(b),
         ToSet(a) = ToSet(b),
         NEW i, NEW j, NEW k, NEW l, Crossed(a, b, i, j, k, l),
         Greater(a[j].id, a[i].id)
  PROVE  \E g, h : Crossed(a, b, i, g, h, l) /\ Greater(a[j].id, a[g].id)
  <1>1. /\ a[i] \in K /\ a[j] \in K
        /\ DOMAIN a = 1..Len(a) /\ DOMAIN b = 1..Len(b) /\ Len(a) \in Nat /\ Len(b) \in Nat
        /\ i \in 1..Len(a) /\ j \in 1..Len(a) /\ k \in 1..Len(b) /\ l \in 1..Len(b)
        /\ i < j /\ k < l /\ a[i] = b[l] /\ a[j] = b[k]
    BY DEF Crossed
  <1>2. a[i].id \in Id /\ a[j].id \in Id /\ a[j].ref \in Id
    BY <1>1, OwnIds
  <1>3. ~Greater(a[i].id, a[j].id)
    BY <1>2, IdsCompare
  <1>4. ~Behind(a, j, i) /\ Behind(a, j, j)
    BY <1>1, <1>3 DEF Canon
  <1>5. PICK g \in 1..(j - 1) : a[g].id = a[j].ref
    BY <1>4 DEF Behind
  <1>6. a[j].ref # Start /\ ~ (g \in 1..(i - 1))
    BY <1>4, <1>5 DEF Behind
  <1>7. g \in 1..Len(a) /\ g >= i
    BY <1>1, <1>6
  <1>8. Behind(b, k, k)
    BY <1>1 DEF Canon
  <1>9. PICK h \in 1..(k - 1) : b[h].id = b[k].ref
    BY <1>1, <1>6, <1>8 DEF Behind
  <1>10. h \in 1..Len(b) /\ h < k
    BY <1>1
  <1>11. b[h] \in K /\ a[g] \in K /\ b[h].id = a[g].id
    BY <1>1, <1>5, <1>7, <1>9, <1>10
  <1>12. b[h] = a[g]
    BY <1>11 DEF Good
  <1>13. h < l /\ h # l
    BY <1>1, <1>10
  <1>14. g # i
    <2>1. SUFFICES ASSUME g = i PROVE FALSE
      OBVIOUS
    <2>2. b[h].id = b[l].id
      BY <1>1, <1>12, <2>1
    <2>3. QED
      BY <1>1, <1>10, <1>13, <2>2 DEF Canon
  <1>15. i < g
    BY <1>1, <1>7, <1>14
  <1>16. Crossed(a, b, i, g, h, l)
    BY <1>1, <1>7, <1>10, <1>12, <1>13, <1>15 DEF Crossed
  <1>17. Greater(a[j].id, a[g].id)
    BY <1>1, <1>5, <1>6 DEF Good, Grown
  <1>18. QED
    BY <1>16, <1>17

(* There is no lowest crossed pair, so there is none. *)
LEMMA NoneCrossed ==
  ASSUME NEW K, Good(K), NEW a \in Seq(K), NEW b \in Seq(K), Canon(a), Canon(b),
         ToSet(a) = ToSet(b)
  PROVE  ~ \E i, j, k, l : Crossed(a, b, i, j, k, l)
  <1> DEFINE S == {m \in Id : \E i, j, k, l : Crossed(a, b, i, j, k, l) /\ m = Highest(a[i], a[j])}
  <1>1. ASSUME NEW i, NEW j, NEW k, NEW l, Crossed(a, b, i, j, k, l)
        PROVE  /\ a[i].id \in Id /\ a[j].id \in Id /\ a[i].id # a[j].id
               /\ b[k].id \in Id /\ b[l].id \in Id /\ a[i] = b[l] /\ a[j] = b[k]
               /\ Crossed(b, a, k, l, i, j)
    <2>1. a[i] \in K /\ a[j] \in K /\ i # j /\ i \in 1..Len(a) /\ j \in 1..Len(a) /\ a[i] = b[l] /\ a[j] = b[k]
      BY <1>1 DEF Crossed
    <2>2. a[i].id # a[j].id
      BY <2>1 DEF Canon
    <2>3. Crossed(b, a, k, l, i, j)
      BY <1>1 DEF Crossed
    <2>4. QED
      BY <2>1, <2>2, <2>3, OwnIds
  <1>2. SUFFICES ASSUME NEW i0, NEW j0, NEW k0, NEW l0, Crossed(a, b, i0, j0, k0, l0) PROVE FALSE
    OBVIOUS
  <1>3. S # {} /\ S \subseteq Id
    <2>1. Highest(a[i0], a[j0]) \in S
      BY <1>1, <1>2 DEF Highest
    <2>2. QED
      BY <2>1
  <1> HIDE DEF S
  <1>4. PICK m \in S : \A x \in S : ~Greater(m, x)
    BY <1>3, HasLeast
  <1>5. PICK i, j, k, l : Crossed(a, b, i, j, k, l) /\ m = Highest(a[i], a[j])
    BY <1>4 DEF S
  <1>6. /\ a[i].id \in Id /\ a[j].id \in Id /\ a[i].id # a[j].id
        /\ b[k].id \in Id /\ b[l].id \in Id /\ a[i] = b[l] /\ a[j] = b[k]
        /\ Crossed(b, a, k, l, i, j)
    BY <1>1, <1>5
  <1>7. \A x, y \in Id : x # y => Greater(x, y) \/ Greater(y, x)
    BY IdsCompare
  <1>8. CASE Greater(a[j].id, a[i].id)
    <2>1. m = a[j].id
      <3>1. ~Greater(a[i].id, a[j].id)
        BY <1>6, <1>8, IdsCompare
      <3>2. QED
        BY <1>5, <3>1 DEF Highest
    <2>2. PICK g, h : Crossed(a, b, i, g, h, l) /\ Greater(a[j].id, a[g].id)
      BY <1>5, <1>8, CrossedLower
    <2>3. Highest(a[i], a[g]) \in S
      BY <1>1, <2>2 DEF S, Highest
    <2>4. Greater(m, Highest(a[i], a[g]))
      BY <1>8, <2>1, <2>2 DEF Highest
    <2>5. QED
      BY <1>4, <2>3, <2>4
  <1>9. CASE Greater(a[i].id, a[j].id)
    <2>1. m = a[i].id
      BY <1>5, <1>9 DEF Highest
    <2>2. Greater(b[l].id, b[k].id)
      BY <1>6, <1>9
    <2>3. PICK g, h : Crossed(b, a, k, g, h, j) /\ Greater(b[l].id, b[g].id)
      BY <1>6, <2>2, CrossedLower
    <2>4. Crossed(a, b, h, j, k, g) /\ a[h] = b[g]
      BY <2>3 DEF Crossed
    <2>5. Highest(a[h], a[j]) \in S
      BY <1>1, <2>4 DEF S, Highest
    <2>6. Greater(m, Highest(a[h], a[j]))
      BY <1>6, <1>9, <2>1, <2>3, <2>4 DEF Highest
    <2>7. QED
      BY <1>4, <2>5, <2>6
  <1>10. QED
    BY <1>6, <1>7, <1>8, <1>9

(* In the same order the same characters are the same sequence. *)
LEMMA UncrossedPrefix ==
  ASSUME NEW K, Good(K), NEW a \in Seq(K), NEW b \in Seq(K), Canon(a), Canon(b),
         ToSet(a) = ToSet(b), NEW q \in 1..Len(a)
  PROVE  q \in 1..Len(b) /\ a[q] = b[q]
  <1> DEFINE Wrong == {k \in 1..Len(a) : ~ (k \in 1..Len(b) /\ a[k] = b[k])}
  <1>1. SUFFICES ASSUME Wrong # {} PROVE FALSE
    OBVIOUS
  <1>2. DOMAIN a = 1..Len(a) /\ DOMAIN b = 1..Len(b) /\ Len(a) \in Nat /\ Len(b) \in Nat
    OBVIOUS
  <1>3. Wrong \subseteq Nat
    BY <1>2
  <1>4. PICK k \in Wrong : \A j \in Wrong : k <= j
    BY <1>1, <1>3, HasMin
  <1>5. k \in 1..Len(a) /\ ~ (k \in 1..Len(b) /\ a[k] = b[k]) /\ k \in Nat
    BY <1>3, <1>4
  <1>6. ASSUME NEW j \in 1..(k - 1) PROVE j \in 1..Len(a) /\ j \in 1..Len(b) /\ a[j] = b[j]
    <2>1. j \in 1..Len(a) /\ ~ (k <= j)
      BY <1>2, <1>5
    <2>2. QED
      BY <1>4, <2>1
  <1>7. a[k] \in ToSet(b)
    BY <1>2, <1>5 DEF ToSet
  <1>8. PICK l \in 1..Len(b) : b[l] = a[k]
    BY <1>2, <1>7 DEF ToSet
  <1>9. ~ (l < k)
    <2>1. SUFFICES ASSUME l < k PROVE FALSE
      OBVIOUS
    <2>2. l \in 1..(k - 1)
      BY <1>2, <1>5, <2>1
    <2>3. a[l].id = a[k].id /\ l \in 1..Len(a)
      BY <1>6, <1>8, <2>2
    <2>4. QED
      BY <1>5, <2>1, <2>3 DEF Canon
  <1>10. l # k
    BY <1>5, <1>8
  <1>11. k < l /\ k \in 1..Len(b)
    BY <1>2, <1>5, <1>9, <1>10
  <1>12. b[k] \in ToSet(a)
    BY <1>2, <1>11 DEF ToSet
  <1>13. PICK g \in 1..Len(a) : a[g] = b[k]
    BY <1>2, <1>12 DEF ToSet
  <1>14. ~ (g < k)
    <2>1. SUFFICES ASSUME g < k PROVE FALSE
      OBVIOUS
    <2>2. g \in 1..(k - 1)
      BY <1>2, <1>5, <2>1
    <2>3. b[g].id = b[k].id /\ g \in 1..Len(b)
      BY <1>6, <1>13, <2>2
    <2>4. QED
      BY <1>11, <2>1, <2>3 DEF Canon
  <1>15. g # k
    BY <1>5, <1>11, <1>13
  <1>16. k < g
    BY <1>2, <1>5, <1>14, <1>15
  <1>17. Crossed(a, b, k, g, k, l)
    BY <1>5, <1>8, <1>11, <1>13, <1>16 DEF Crossed
  <1>18. QED
    BY <1>17, NoneCrossed

(* Texts in order that have the same characters are the same. *)
LEMMA OneOrder ==
  ASSUME NEW K, Good(K), NEW a \in Seq(K), NEW b \in Seq(K), Canon(a), Canon(b),
         ToSet(a) = ToSet(b)
  PROVE  a = b
  <1>1. \A q \in 1..Len(a) : q \in 1..Len(b) /\ a[q] = b[q]
    BY UncrossedPrefix
  <1>2. \A q \in 1..Len(b) : q \in 1..Len(a) /\ b[q] = a[q]
    BY UncrossedPrefix
  <1>3. Len(a) = Len(b)
    <2>1. Len(a) \in Nat /\ Len(b) \in Nat
      OBVIOUS
    <2>2. Len(a) <= Len(b)
      <3>1. Len(a) = 0 \/ Len(a) \in 1..Len(a)
        BY <2>1
      <3>2. QED
        BY <1>1, <2>1, <3>1
    <2>3. Len(b) <= Len(a)
      <3>1. Len(b) = 0 \/ Len(b) \in 1..Len(b)
        BY <2>1
      <3>2. QED
        BY <1>2, <2>1, <3>1
    <2>4. QED
      BY <2>1, <2>2, <2>3
  <1>4. QED
    BY <1>1, <1>3

-----------------------------------------------------------------------------
(***************************************************************************)
(* Sorting by ranks: open() and applyRecord() go through all operations of *)
(* a set or a batch, each once.                                            *)
(***************************************************************************)

(* A strict order of all of S, and the elements below one. *)
Strict(S, R) ==
  /\ \A x \in S : <<x, x>> \notin R
  /\ \A x, y, z \in S : <<x, y>> \in R /\ <<y, z>> \in R => <<x, z>> \in R
  /\ \A x, y \in S : x # y => <<x, y>> \in R \/ <<y, x>> \in R
Under(S, R, x) == {y \in S : <<y, x>> \in R}

(* The number of elements below one is its place in the order. *)
LEMMA Ranks ==
  ASSUME NEW S, IsFiniteSet(S), NEW R, Strict(S, R)
  PROVE  /\ \A x \in S : Cardinality(Under(S, R, x)) \in 0..(Cardinality(S) - 1)
         /\ \A x, y \in S : <<x, y>> \in R => Cardinality(Under(S, R, x)) < Cardinality(Under(S, R, y))
         /\ \A k \in 1..Cardinality(S) : \E x \in S : Cardinality(Under(S, R, x)) = k - 1
  <1> DEFINE n == Cardinality(S)
  <1>1. n \in Nat
    BY FS_CardinalityType
  <1>2. ASSUME NEW x \in S
        PROVE  IsFiniteSet(Under(S, R, x)) /\ Cardinality(Under(S, R, x)) \in 0..(n - 1)
    <2>1. Under(S, R, x) \in SUBSET S /\ x \notin Under(S, R, x)
      BY DEF Under, Strict
    <2>2. PICK U : U = Under(S, R, x)
      OBVIOUS
    <2>3. IsFiniteSet(U) /\ Cardinality(U) <= n /\ (n = Cardinality(U) => S = U)
      BY <2>1, <2>2, FS_Subset
    <2>4. Cardinality(U) \in Nat /\ U # S
      BY <2>1, <2>2, <2>3, FS_CardinalityType
    <2>5. Cardinality(U) \in 0..(n - 1)
      BY <1>1, <2>3, <2>4
    <2>6. QED
      BY <2>2, <2>3, <2>5
  <1>3. ASSUME NEW x \in S, NEW y \in S, <<x, y>> \in R
        PROVE  Cardinality(Under(S, R, x)) < Cardinality(Under(S, R, y))
    <2>1. PICK U : U = Under(S, R, x)
      OBVIOUS
    <2>2. PICK V : V = Under(S, R, y)
      OBVIOUS
    <2>3. U \in SUBSET V /\ x \in V /\ x \notin U
      BY <1>3, <2>1, <2>2 DEF Under, Strict
    <2>4. IsFiniteSet(V) /\ Cardinality(V) \in Nat /\ Cardinality(U) \in Nat
      BY <1>1, <1>2, <2>1, <2>2
    <2>5. Cardinality(U) <= Cardinality(V) /\ (Cardinality(V) = Cardinality(U) => V = U)
      BY <2>3, <2>4, FS_Subset
    <2>6. Cardinality(U) < Cardinality(V)
      BY <2>3, <2>4, <2>5
    <2>7. QED
      BY <2>1, <2>2, <2>6
  <1> DEFINE rank == [x \in S |-> Cardinality(Under(S, R, x)) + 1]
  <1>4. rank \in [S -> 1..n]
    <2>1. ASSUME NEW x \in S PROVE Cardinality(Under(S, R, x)) + 1 \in 1..n
      BY <1>1, <1>2
    <2>2. QED
      BY <2>1
  <1>5. ASSUME NEW x \in S, NEW y \in S, x # y PROVE rank[x] # rank[y]
    <2>1. Cardinality(Under(S, R, x)) \in Nat /\ Cardinality(Under(S, R, y)) \in Nat
      BY <1>1, <1>2
    <2>2. Cardinality(Under(S, R, x)) # Cardinality(Under(S, R, y))
      <3>1. CASE <<x, y>> \in R
        BY <1>3, <2>1, <3>1
      <3>2. CASE <<y, x>> \in R
        BY <1>3, <2>1, <3>2
      <3>3. QED
        BY <1>5, <3>1, <3>2 DEF Strict
    <2>3. QED
      BY <2>1, <2>2
  <1>6. rank \in Injection(S, 1..n)
    BY <1>4, <1>5 DEF Injection, IsInjective
  <1>7. IsFiniteSet(1..n) /\ Cardinality(1..n) = n
    BY <1>1, FS_Interval
  <1>8. rank \in Surjection(S, 1..n)
    <2> HIDE DEF rank
    <2>1. QED
      BY <1>6, <1>7, FS_Injection
  <1>9. ASSUME NEW k \in 1..n PROVE \E x \in S : Cardinality(Under(S, R, x)) = k - 1
    <2>1. PICK x \in S : rank[x] = k
      <3> HIDE DEF rank
      <3>1. QED
        BY <1>8 DEF Surjection
    <2>2. Cardinality(Under(S, R, x)) \in Nat
      BY <1>1, <1>2
    <2>3. QED
      BY <1>1, <2>1, <2>2
  <1>10. QED
    BY <1>2, <1>3, <1>9

LEMMA ElementsFinite ==
  ASSUME NEW K, NEW s \in Seq(K)
  PROVE  IsFiniteSet(ToSet(s)) /\ ToSet(s) \subseteq K
  <1> DEFINE f == [i \in 1..Len(s) |-> s[i]]
  <1>1. Len(s) \in Nat /\ DOMAIN s = 1..Len(s)
    OBVIOUS
  <1>2. f \in Surjection(1..Len(s), ToSet(s))
    BY <1>1 DEF Surjection, ToSet
  <1>3. IsFiniteSet(1..Len(s))
    BY <1>1, FS_Interval
  <1> HIDE DEF f
  <1>4. IsFiniteSet(ToSet(s))
    BY <1>2, <1>3, FS_Surjection
  <1>5. QED
    BY <1>1, <1>4 DEF ToSet

LEMMA OpsAre ==
  ASSUME NEW K, Good(K), NEW op \in OpsOver(K)
  PROVE  /\ op.id \in Id
         /\ (op.t = "i" /\ op \in K) \/ (op.t = "d" /\ op = Del(op.id))
  <1>1. CASE op \in K
    BY <1>1 DEF Good, Chars
  <1>2. CASE op \notin K
    BY <1>2 DEF OpsOver, Del
  <1>3. QED
    BY <1>1, <1>2

LEMMA BeforeStrict ==
  ASSUME NEW K, Good(K), NEW ops, ops \subseteq OpsOver(K)
  PROVE  Strict(ops, {p \in ops \X ops : Before(p[1], p[2])})
  <1> DEFINE R == {p \in ops \X ops : Before(p[1], p[2])}
  <1>1. \A x, y \in ops : <<x, y>> \in R <=> Before(x, y)
    OBVIOUS
  <1>2. \A x \in ops : /\ x.id \in Id
                       /\ (x.t = "i" /\ x \in K) \/ (x.t = "d" /\ x = Del(x.id))
    BY OpsAre
  <1>3. \A x \in ops : ~Before(x, x)
    <2>1. ASSUME NEW x \in ops PROVE ~Before(x, x)
      <3>1. ~Greater(x.id, x.id)
        BY <1>2, IdsCompare
      <3>2. QED
        BY <3>1 DEF Before
    <2>2. QED
      BY <2>1
  <1>4. ASSUME NEW x \in ops, NEW y \in ops, NEW z \in ops, Before(x, y), Before(y, z)
        PROVE  Before(x, z)
    <2>1. x.id \in Id /\ y.id \in Id /\ z.id \in Id
      BY <1>2
    <2>2. CASE Greater(y.id, x.id) /\ Greater(z.id, y.id)
      <3>1. Greater(z.id, x.id)
        BY <2>1, <2>2, IdsCompare
      <3>2. QED
        BY <3>1 DEF Before
    <2>3. CASE ~(Greater(y.id, x.id) /\ Greater(z.id, y.id))
      BY <1>4, <2>3 DEF Before
    <2>4. QED
      BY <2>2, <2>3
  <1>5. ASSUME NEW x \in ops, NEW y \in ops, x # y PROVE Before(x, y) \/ Before(y, x)
    <2>1. CASE x.id # y.id
      <3>1. Greater(x.id, y.id) \/ Greater(y.id, x.id)
        BY <1>2, <2>1, IdsCompare
      <3>2. QED
        BY <3>1 DEF Before
    <2>2. CASE x.id = y.id
      <3>1. x.t # y.t
        BY <1>2, <1>5, <2>2 DEF Good
      <3>2. QED
        BY <1>2, <2>2, <3>1 DEF Before
    <2>3. QED
      BY <2>1, <2>2
  <1> HIDE DEF R
  <1>6. Strict(ops, R)
    BY <1>1, <1>3, <1>4, <1>5 DEF Strict
  <1>7. QED
    BY <1>6 DEF R

(* open()'s order: each operation once, and none after a greater one. *)
LEMMA InOrderIs ==
  ASSUME NEW K, Good(K), NEW ops, ops \subseteq OpsOver(K), IsFiniteSet(ops)
  PROVE  /\ InOrder(ops) \in Seq(ops)
         /\ \A x \in ops : \E k \in 1..Len(InOrder(ops)) : InOrder(ops)[k] = x
         /\ \A i, j \in 1..Len(InOrder(ops)) : Before(InOrder(ops)[i], InOrder(ops)[j]) => i < j
  <1> DEFINE R == {p \in ops \X ops : Before(p[1], p[2])}
             n == Cardinality(ops)
             r(x) == Cardinality(Under(ops, R, x))
             s == InOrder(ops)
  <1>1. Strict(ops, R)
    BY BeforeStrict
  <1>2. n \in Nat
    BY FS_CardinalityType
  <1>3. ASSUME NEW x \in ops PROVE {o \in ops : Before(o, x)} = Under(ops, R, x)
    BY DEF Under
  <1>4. \A x, y \in ops : <<x, y>> \in R <=> Before(x, y)
    OBVIOUS
  <1> HIDE DEF R
  <1>5. /\ \A x \in ops : r(x) \in 0..(n - 1)
        /\ \A x, y \in ops : <<x, y>> \in R => r(x) < r(y)
        /\ \A k \in 1..n : \E x \in ops : r(x) = k - 1
    BY <1>1, Ranks
  <1> DEFINE P(x, k) == Cardinality({o \in ops : Before(o, x)}) = k - 1
  <1>6. s = [k \in 1..n |-> CHOOSE x \in ops : P(x, k)]
    BY DEF InOrder
  <1>7. ASSUME NEW k \in 1..n PROVE s[k] \in ops /\ r(s[k]) = k - 1
    <2>1. \E x \in ops : P(x, k)
      BY <1>3, <1>5
    <2>2. s[k] = CHOOSE x \in ops : P(x, k)
      <3> HIDE DEF P, s
      <3>1. QED
        BY <1>6
    <2> HIDE DEF s
    <2>3. s[k] \in ops /\ P(s[k], k)
      <3> HIDE DEF P
      <3>1. QED
        BY <2>1, <2>2
    <2>4. QED
      BY <1>3, <2>3
  <1> HIDE DEF P, r, s
  <1>8. s \in [1..n -> ops]
    BY <1>6, <1>7
  <1>9. s \in Seq(ops) /\ Len(s) = n
    BY <1>2, <1>8
  <1>10. ASSUME NEW x \in ops PROVE \E k \in 1..n : s[k] = x
    <2>1. r(x) + 1 \in 1..n /\ (r(x) + 1) - 1 = r(x)
      BY <1>2, <1>5
    <2>2. PICK k \in 1..n : k = r(x) + 1
      BY <2>1
    <2>3. s[k] \in ops /\ r(s[k]) = r(x)
      BY <1>7, <2>1, <2>2
    <2>4. r(x) \in Nat
      BY <1>2, <1>5
    <2>5. s[k] = x
      <3>1. SUFFICES ASSUME s[k] # x PROVE FALSE
        OBVIOUS
      <3>2. <<s[k], x>> \in R \/ <<x, s[k]>> \in R
        BY <1>1, <2>3, <3>1 DEF Strict
      <3>3. r(s[k]) < r(x) \/ r(x) < r(s[k])
        BY <1>5, <2>3, <3>2
      <3>4. QED
        BY <2>3, <2>4, <3>3
    <2>6. QED
      BY <2>5
  <1>11. ASSUME NEW i \in 1..n, NEW j \in 1..n, Before(s[i], s[j]) PROVE i < j
    <2>1. s[i] \in ops /\ s[j] \in ops /\ r(s[i]) = i - 1 /\ r(s[j]) = j - 1
      BY <1>7
    <2>2. <<s[i], s[j]>> \in R
      BY <1>4, <1>11, <2>1
    <2>3. r(s[i]) < r(s[j])
      BY <1>5, <2>1, <2>2
    <2>4. QED
      BY <1>2, <2>1, <2>3
  <1>12. QED
    BY <1>9, <1>10, <1>11 DEF s

(* applyRecord()'s order: operations as they are in the batch. *)
LEMMA InCounterOrderIs ==
  ASSUME NEW K, Good(K), NEW ops \in Seq(OpsOver(K))
  PROVE  InCounterOrder(ops) \in Seq(OpsOver(K))
  <1> DEFINE D == DOMAIN ops
             R == {p \in D \X D : Earlier(ops, p[1], p[2])}
             n == Len(ops)
  <1>1. D = 1..n /\ n \in Nat /\ IsFiniteSet(D) /\ Cardinality(D) = n
    <2>1. D = 1..n /\ n \in Nat
      OBVIOUS
    <2>2. QED
      BY <2>1, FS_Interval
  <1>2. \A i \in D : ops[i] \in OpsOver(K) /\ ops[i].id \in Id /\ ops[i].id[1] \in Nat /\ i \in Nat
    <2>1. ASSUME NEW i \in D PROVE ops[i] \in OpsOver(K) /\ ops[i].id \in Id
      <3>1. ops[i] \in OpsOver(K)
        OBVIOUS
      <3>2. QED
        BY <3>1, OpsAre
    <2>2. \A x \in Id : x[1] \in Nat
      BY DEF Id
    <2>3. QED
      BY <1>1, <2>1, <2>2
  <1> HIDE DEF D, n
  <1>3. \A i, j \in D : <<i, j>> \in R <=> Earlier(ops, i, j)
    OBVIOUS
  <1>4. ASSUME NEW i \in D PROVE {j \in D : Earlier(ops, j, i)} = Under(D, R, i)
    BY DEF Under
  <1> HIDE DEF R
  <1>5. Strict(D, R)
    <2>1. \A x \in D : ~Earlier(ops, x, x)
      BY <1>2 DEF Earlier
    <2>2. \A x, y, z \in D : Earlier(ops, x, y) /\ Earlier(ops, y, z) => Earlier(ops, x, z)
      BY <1>2 DEF Earlier
    <2>3. \A x, y \in D : x # y => Earlier(ops, x, y) \/ Earlier(ops, y, x)
      BY <1>2 DEF Earlier
    <2>4. QED
      BY <1>3, <2>1, <2>2, <2>3 DEF Strict
  <1>6. \A k \in 1..n : \E i \in D : Cardinality(Under(D, R, i)) = k - 1
    <2>1. \A k \in 1..Cardinality(D) : \E i \in D : Cardinality(Under(D, R, i)) = k - 1
      BY <1>1, <1>5, Ranks
    <2>2. QED
      BY <1>1, <2>1
  <1>7. ASSUME NEW k \in D
        PROVE  (CHOOSE i \in D : Cardinality({j \in D : Earlier(ops, j, i)}) = k - 1) \in D
    <2>1. \E i \in D : Cardinality({j \in D : Earlier(ops, j, i)}) = k - 1
      BY <1>1, <1>4, <1>6
    <2>2. QED
      BY <2>1
  <1>8. InCounterOrder(ops) \in [1..n -> OpsOver(K)]
    <2>1. \A k \in D : ops[CHOOSE i \in D : Cardinality({j \in D : Earlier(ops, j, i)}) = k - 1] \in OpsOver(K)
      BY <1>2, <1>7
    <2>2. InCounterOrder(ops) = [k \in D |-> ops[CHOOSE i \in D : Cardinality({j \in D : Earlier(ops, j, i)}) = k - 1]]
      BY DEF InCounterOrder, D
    <2>3. QED
      BY <1>1, <2>1, <2>2
  <1>9. QED
    BY <1>1, <1>8

(* Every session draws a site of its own (text.js:229). *)
Sites ==
  /\ IsFiniteSet(Device) /\ Rank \in [Device -> 1..Cardinality(Device)]
  /\ \A d, e \in Device : Rank[d] = Rank[e] => d = e

(* The sessions of all devices have different sites. *)
LEMMA SitesDiffer ==
  ASSUME Sites, NEW d \in Device, NEW e \in Device, NEW o \in Nat, NEW p \in Nat,
         Rank[d] + o * Cardinality(Device) = Rank[e] + p * Cardinality(Device)
  PROVE  d = e /\ o = p
  <1> DEFINE n == Cardinality(Device)
  <1>1. n \in Nat /\ Rank[d] \in 1..n /\ Rank[e] \in 1..n /\ n > 0
    BY FS_CardinalityType DEF Sites
  <1>2. ASSUME NEW a \in 1..n, NEW b \in 1..n, NEW x \in Nat, NEW y \in Nat, a + x * n = b + y * n
        PROVE  ~ (x < y)
    <2>1. SUFFICES ASSUME x < y PROVE FALSE
      OBVIOUS
    <2>2. PICK q \in Nat : y = x + 1 + q
      <3>1. y - x - 1 \in Nat /\ y = x + 1 + (y - x - 1)
        BY <2>1
      <3>2. QED
        BY <3>1
    <2>3. y * n = x * n + n + q * n
      BY <1>1, <2>2
    <2>4. q * n \in Nat /\ x * n \in Nat
      BY <1>1
    <2>5. PICK u \in Nat : u = q * n
      BY <2>4
    <2>6. PICK v \in Nat : v = x * n
      BY <2>4
    <2>7. a + v = b + (v + n + u)
      BY <1>2, <2>3, <2>5, <2>6
    <2>8. QED
      BY <1>1, <2>7
  <1>3. o = p
    BY <1>1, <1>2
  <1>4. Rank[d] = Rank[e]
    <2>1. o * n \in Nat
      BY <1>1
    <2>2. PICK u \in Nat : u = o * n
      BY <2>1
    <2>3. Rank[d] + u = Rank[e] + u
      BY <1>3, <2>2
    <2>4. QED
      BY <1>1, <2>3
  <1>5. QED
    BY <1>3, <1>4 DEF Sites

-----------------------------------------------------------------------------
(***************************************************************************)
(* The invariant of convergence: whatever a text has was inserted by a     *)
(* session, ids are given once, and each text is of the flushed operations *)
(* and those of its own queue.                                             *)
(***************************************************************************)

(* What is written: flushed, or waiting in a queue. *)
Inserts(S) == {op \in S : op.t = "i"}
FlushedOf(rs) == UNION {ToSet(r.ops) : r \in {s \in rs : s.t = "batch"}}
LocalOf(rs, q, d) == Inserts(FlushedOf(rs) \cup ToSet(q[d]))
AllOf(rs, q) == Inserts(FlushedOf(rs) \cup UNION {ToSet(q[d]) : d \in Device})

(* Where every character's id comes from: a session, and its clock. *)
SitedBy(K, dc, o) ==
  \A c \in K : \E d \in Device, n \in Nat :
    /\ n <= o[d] /\ c.id[2] = Rank[d] + n * Cardinality(Device)
    /\ n = o[d] => c.id[1] <= dc[d].clock

Written(rs) ==
  /\ IsFiniteSet(rs)
  /\ \A r \in rs : r.ops \in Seq(OpsOver(Inserts(FlushedOf(rs))))

KeptBy(rs, h, dc, q, o) ==
  /\ Written(rs)
  /\ DOMAIN h = Device /\ DOMAIN dc = Device /\ DOMAIN q = Device /\ o \in [Device -> Nat]
  /\ \A d \in Device : /\ h[d] \subseteq rs
                       /\ dc[d] \in DocSet(LocalOf(rs, q, d))
                       /\ q[d] \in Seq(OpsOver(LocalOf(rs, q, d)))
  /\ Good(AllOf(rs, q))
  /\ SitedBy(AllOf(rs, q), dc, o)

(* The inductive invariant of convergence. *)
Kept == KeptBy(recs, held, doc, queue, opens)

LEMMA GoodPart == ASSUME NEW K, NEW L, Good(L), K \subseteq L PROVE Good(K)
  BY DEF Good

LEMMA DocSetGrows ==
  ASSUME NEW K, NEW L, K \subseteq L
  PROVE  /\ DocSet(K) \subseteq DocSet(L)
         /\ OpsOver(K) \subseteq OpsOver(L)
         /\ Seq(OpsOver(K)) \subseteq Seq(OpsOver(L))
  <1>1. OpsOver(K) \subseteq OpsOver(L)
    BY DEF OpsOver
  <1>2. Seq(OpsOver(K)) \subseteq Seq(OpsOver(L)) /\ Seq(K) \subseteq Seq(L)
    BY <1>1, SeqMonotonic
  <1>3. DocSet(K) \subseteq DocSet(L)
    BY <1>2 DEF DocSet, Docs
  <1>4. QED
    BY <1>1, <1>2, <1>3

LEMMA FlushedGrows ==
  ASSUME NEW rs, NEW r
  PROVE  FlushedOf(rs \cup {r}) = FlushedOf(rs) \cup (IF r.t = "batch" THEN ToSet(r.ops) ELSE {})
  BY DEF FlushedOf

LEMMA SetOfAppended ==
  ASSUME NEW K, NEW s \in Seq(K), NEW x
  PROVE  ToSet(Append(s, x)) = ToSet(s) \cup {x}
  <1>1. /\ Len(s) \in Nat /\ DOMAIN s = 1..Len(s)
        /\ DOMAIN Append(s, x) = 1..(Len(s) + 1)
        /\ Append(s, x)[Len(s) + 1] = x
        /\ \A k \in 1..Len(s) : Append(s, x)[k] = s[k]
    OBVIOUS
  <1>2. \A k \in 1..(Len(s) + 1) : k \in 1..Len(s) \/ k = Len(s) + 1
    BY <1>1
  <1>3. \A k \in 1..Len(s) : k \in 1..(Len(s) + 1)
    BY <1>1
  <1>4. Len(s) + 1 \in 1..(Len(s) + 1)
    BY <1>1
  <1> HIDE DEF ToSet
  <1>5. ASSUME NEW y \in ToSet(Append(s, x)) PROVE y \in ToSet(s) \cup {x}
    BY <1>1, <1>2, <1>5 DEF ToSet
  <1>6. ASSUME NEW y \in ToSet(s) PROVE y \in ToSet(Append(s, x))
    BY <1>1, <1>3, <1>6 DEF ToSet
  <1>7. x \in ToSet(Append(s, x))
    BY <1>1, <1>4 DEF ToSet
  <1>8. QED
    BY <1>5, <1>6, <1>7

LEMMA SetOfNone == ToSet(<<>>) = {}
  BY DEF ToSet

LEMMA EmptyDoc == ASSUME NEW K PROVE Empty \in DocSet(K) /\ Empty.chars = <<>> /\ Empty.clock = 0
  <1>1. PICK none : none = <<>> /\ none \in Seq(K) /\ Len(none) = 0
    BY EmptySeq
  <1>2. Empty = [chars |-> none, pending |-> none, dead |-> {}, clock |-> 0]
    BY <1>1 DEF Empty
  <1>3. Empty \in Docs(K) /\ Empty.chars = none /\ Empty.clock = 0
    BY <1>1, <1>2 DEF Docs
  <1>4. Canon(none) /\ Below(none, 0)
    <2>1. 1..Len(none) = {}
      BY <1>1
    <2>2. QED
      BY <2>1 DEF Canon, Below
  <1>5. QED
    BY <1>1, <1>3, <1>4 DEF DocSet

(* What a text is opened from: records of the log only. *)
LoadedOf(rs) == UNION {ToSet(r.ops) : r \in Heads(rs) \cup Batches(rs)}

LEMMA LoadsAre ==
  ASSUME NEW K, NEW rs, IsFiniteSet(rs), \A r \in rs : r.ops \in Seq(OpsOver(K))
  PROVE  IsFiniteSet(LoadedOf(rs)) /\ LoadedOf(rs) \subseteq OpsOver(K)
  <1> DEFINE T == Heads(rs) \cup Batches(rs)
             f == [r \in T |-> ToSet(r.ops)]
             U == {ToSet(r.ops) : r \in T}
  <1>1. T \in SUBSET rs
    BY DEF Heads, Batches
  <1>2. IsFiniteSet(T)
    BY <1>1, FS_Subset
  <1> HIDE DEF T
  <1>3. f \in Surjection(T, U)
    BY DEF Surjection
  <1> HIDE DEF f
  <1>4. IsFiniteSet(U)
    BY <1>2, <1>3, FS_Surjection
  <1>5. ASSUME NEW r \in T PROVE IsFiniteSet(ToSet(r.ops)) /\ ToSet(r.ops) \subseteq OpsOver(K)
    <2>1. r.ops \in Seq(OpsOver(K))
      BY <1>1
    <2>2. QED
      BY <2>1, ElementsFinite
  <1>6. \A V \in U : IsFiniteSet(V) /\ V \subseteq OpsOver(K)
    BY <1>5
  <1> HIDE DEF U
  <1>7. IsFiniteSet(UNION U) /\ UNION U \subseteq OpsOver(K)
    BY <1>4, <1>6, FS_UNION
  <1>8. LoadedOf(rs) = UNION U
    BY DEF LoadedOf, U, T
  <1>9. QED
    BY <1>7, <1>8

(* The fold a delivery runs. *)
LEMMA Folded ==
  ASSUME NEW K, Good(K), NEW d \in DocSet(K), NEW s \in Seq(OpsOver(K))
  PROVE  AppliedAll(d, s) \in DocSet(K) /\ Grew(d, AppliedAll(d, s))
  <1>1. PICK f \in [0..Len(s) -> DocSet(K)] :
          /\ f[0] = d
          /\ \A k \in 1..Len(s) : f[k] = Apply(f[k - 1], s[k]) /\ Grew(f[k - 1], f[k])
          /\ \A k \in 0..Len(s) : Grew(d, f[k]) /\ Grew(f[k], f[Len(s)])
          /\ AppliedAll(d, s) = f[Len(s)]
    BY AllApplied
  <1>2. Len(s) \in 0..Len(s)
    OBVIOUS
  <1>3. QED
    BY <1>1, <1>2

LEMMA Loaded ==
  ASSUME NEW K, Good(K), NEW rs, IsFiniteSet(rs), \A r \in rs : r.ops \in Seq(OpsOver(K))
  PROVE  Load(rs) \in DocSet(K)
  <1> DEFINE ops == LoadedOf(rs)
  <1>1. IsFiniteSet(ops) /\ ops \subseteq OpsOver(K)
    BY LoadsAre
  <1> HIDE DEF ops
  <1>2. InOrder(ops) \in Seq(ops)
    BY <1>1, InOrderIs
  <1>3. InOrder(ops) \in Seq(OpsOver(K))
    BY <1>1, <1>2, SeqMonotonic
  <1>4. PICK s : s = InOrder(ops) /\ s \in Seq(OpsOver(K))
    BY <1>3
  <1>5. Empty \in DocSet(K)
    BY EmptyDoc
  <1>6. AppliedAll(Empty, s) \in DocSet(K)
    BY <1>4, <1>5, Folded
  <1>7. Load(rs) = AppliedAll(Empty, s)
    BY <1>4 DEF Load, LoadedOf, AppliedAll, ops
  <1>8. QED
    BY <1>6, <1>7

LEMMA Opened ==
  ASSUME NEW K, Good(K), NEW d \in DocSet(K)
  PROVE  OpsOfRuns(d) \in Seq(OpsOver(K))
  <1> DEFINE D == Seq(OpsOver(K))
  <1>1. d.chars \in Seq(K) /\ Runs(d) = d.chars
    BY DEF DocSet, Docs, Runs
  <1>2. ASSUME NEW x \in D, NEW e \in K PROVE (x \o OpsOf(d, e)) \in D
    <2>1. e \in OpsOver(K) /\ Del(e.id) \in OpsOver(K)
      BY OwnIds DEF OpsOver
    <2>2. OpsOf(d, e) \in D
      BY <2>1 DEF OpsOf
    <2>3. QED
      BY <2>2, ConcatProperties
  <1>3. <<>> \in D
    BY EmptySeq
  <1> HIDE DEF D
  <1>4. PICK f \in [0..Len(d.chars) -> D] : OpsRun(f, d, d.chars)
    BY <1>1, <1>2, <1>3, OpsFold
  <1>5. Len(d.chars) \in 0..Len(d.chars)
    BY <1>1
  <1>6. OpsOfRuns(d) = f[Len(d.chars)]
    BY <1>1, <1>4 DEF OpsRun, OpsOfRuns
  <1>7. QED
    BY <1>4, <1>5, <1>6 DEF D

-----------------------------------------------------------------------------
(***************************************************************************)
(* Each step keeps it: edits first.                                        *)
(***************************************************************************)

LEMMA LocalInAll == ASSUME NEW rs, NEW q, NEW d \in Device PROVE LocalOf(rs, q, d) \subseteq AllOf(rs, q)
  BY DEF LocalOf, AllOf, Inserts

LEMMA FlushedInLocal ==
  ASSUME NEW rs, NEW q, NEW d
  PROVE  Inserts(FlushedOf(rs)) \subseteq LocalOf(rs, q, d)
  BY DEF LocalOf, Inserts

(* One operation made here: applied to the text and queued. *)
LEMMA EditKept ==
  ASSUME Kept, NEW d \in Device, NEW op, NEW dc, NEW q,
         Good(AllOf(recs, queue) \cup Inserts({op})),
         op \in OpsOver(LocalOf(recs, queue, d) \cup Inserts({op})),
         dc = [doc EXCEPT ![d] = Apply(doc[d], op)],
         q = [queue EXCEPT ![d] = Append(queue[d], op)],
         \A c \in Inserts({op}) : c.id[2] = Site(d) /\ c.id[1] <= dc[d].clock
  PROVE  KeptBy(recs, held, dc, q, opens)
  <1> DEFINE K == AllOf(recs, queue)
             new == Inserts({op})
             L(e) == LocalOf(recs, queue, e)
  <1>1. /\ Written(recs) /\ opens \in [Device -> Nat]
        /\ DOMAIN held = Device /\ DOMAIN doc = Device /\ DOMAIN queue = Device
        /\ \A e \in Device : /\ held[e] \subseteq recs /\ doc[e] \in DocSet(L(e))
                             /\ queue[e] \in Seq(OpsOver(L(e)))
        /\ Good(K) /\ SitedBy(K, doc, opens)
    BY DEF Kept, KeptBy
  <1>2. /\ DOMAIN dc = Device /\ DOMAIN q = Device
        /\ dc[d] = Apply(doc[d], op) /\ q[d] = Append(queue[d], op)
        /\ \A e \in Device \ {d} : dc[e] = doc[e] /\ q[e] = queue[e]
    BY <1>1
  <1>3. ToSet(q[d]) = ToSet(queue[d]) \cup {op}
    <2>1. queue[d] \in Seq(OpsOver(L(d)))
      BY <1>1
    <2> HIDE DEF L
    <2>2. QED
      BY <1>2, <2>1, SetOfAppended
  <1>4. LocalOf(recs, q, d) = L(d) \cup new
    BY <1>3 DEF LocalOf, Inserts
  <1>5. \A e \in Device \ {d} : LocalOf(recs, q, e) = L(e)
    BY <1>2 DEF LocalOf
  <1>6. AllOf(recs, q) = K \cup new
    <2>1. UNION {ToSet(q[e]) : e \in Device} = (UNION {ToSet(queue[e]) : e \in Device}) \cup {op}
      BY <1>2, <1>3
    <2>2. QED
      BY <2>1 DEF AllOf, Inserts
  <1>7. L(d) \cup new \subseteq K \cup new
    BY LocalInAll
  <1> HIDE DEF K, L, new
  <1>8. Good(K \cup new) /\ op \in OpsOver(L(d) \cup new)
    BY DEF K, L, new
  <1>9. Good(L(d) \cup new)
    BY <1>7, <1>8, GoodPart
  <1>10. doc[d] \in DocSet(L(d) \cup new) /\ queue[d] \in Seq(OpsOver(L(d) \cup new))
    BY <1>1, DocSetGrows
  <1>11. dc[d] \in DocSet(L(d) \cup new) /\ Grew(doc[d], dc[d])
    BY <1>2, <1>8, <1>9, <1>10, Applied
  <1>12. q[d] \in Seq(OpsOver(L(d) \cup new))
    BY <1>2, <1>8, <1>10
  <1>13. ASSUME NEW e \in Device
         PROVE  /\ held[e] \subseteq recs /\ dc[e] \in DocSet(LocalOf(recs, q, e))
                /\ q[e] \in Seq(OpsOver(LocalOf(recs, q, e)))
    <2>1. CASE e = d
      BY <1>1, <1>4, <1>11, <1>12, <2>1
    <2>2. CASE e # d
      BY <1>1, <1>2, <1>5, <2>2
    <2>3. QED
      BY <2>1, <2>2
  <1>14. SitedBy(K \cup new, dc, opens)
    <2>1. ASSUME NEW c \in K
          PROVE  \E e \in Device, n \in Nat :
                   /\ n <= opens[e] /\ c.id[2] = Rank[e] + n * Cardinality(Device)
                   /\ n = opens[e] => c.id[1] <= dc[e].clock
      <3>1. PICK e \in Device, n \in Nat :
              /\ n <= opens[e] /\ c.id[2] = Rank[e] + n * Cardinality(Device)
              /\ n = opens[e] => c.id[1] <= doc[e].clock
        BY <1>1 DEF SitedBy
      <3>2. doc[e].clock <= dc[e].clock /\ doc[e].clock \in Nat /\ dc[e].clock \in Nat
        <4>1. doc[e].clock \in Nat /\ dc[e].clock \in Nat
          BY <1>1, <1>13 DEF DocSet, Docs
        <4>2. CASE e = d
          BY <1>11, <4>1, <4>2 DEF Grew
        <4>3. CASE e # d
          BY <1>2, <4>1, <4>3
        <4>4. QED
          BY <4>1, <4>2, <4>3
      <3>3. c.id[1] \in Nat
        <4>1. c.id \in Id
          BY <1>1, OwnIds
        <4>2. QED
          BY <4>1 DEF Id
      <3>4. n = opens[e] => c.id[1] <= dc[e].clock
        BY <3>1, <3>2, <3>3
      <3>5. QED
        BY <3>1, <3>4
    <2>2. ASSUME NEW c \in new
          PROVE  \E e \in Device, n \in Nat :
                   /\ n <= opens[e] /\ c.id[2] = Rank[e] + n * Cardinality(Device)
                   /\ n = opens[e] => c.id[1] <= dc[e].clock
      <3>1. c.id[2] = Rank[d] + opens[d] * Cardinality(Device) /\ c.id[1] <= dc[d].clock
        BY DEF Site, new
      <3>2. opens[d] \in Nat /\ opens[d] <= opens[d]
        BY <1>1
      <3>3. QED
        BY <3>1, <3>2
    <2>3. QED
      BY <2>1, <2>2 DEF SitedBy
  <1>15. QED
    BY <1>1, <1>2, <1>6, <1>8, <1>13, <1>14 DEF KeptBy

(* A character typed now has an id nobody gave before. *)
LEMMA TypedIsNew ==
  ASSUME Sites, Kept, NEW d \in Device, NEW c \in AllOf(recs, queue)
  PROVE  c.id # <<doc[d].clock + 1, Site(d)>>
  <1>1. SUFFICES ASSUME c.id = <<doc[d].clock + 1, Site(d)>> PROVE FALSE
    OBVIOUS
  <1>2. PICK e \in Device, n \in Nat :
          /\ n <= opens[e] /\ c.id[2] = Rank[e] + n * Cardinality(Device)
          /\ n = opens[e] => c.id[1] <= doc[e].clock
    BY DEF Kept, KeptBy, SitedBy
  <1>3. opens[d] \in Nat /\ doc[d].clock \in Nat
    BY DEF Kept, KeptBy, DocSet, Docs
  <1>4. Rank[d] + opens[d] * Cardinality(Device) = Rank[e] + n * Cardinality(Device)
    BY <1>1, <1>2 DEF Site
  <1>5. d = e /\ opens[d] = n
    BY <1>2, <1>3, <1>4, SitesDiffer
  <1>6. c.id[1] = doc[d].clock + 1 /\ c.id[1] <= doc[d].clock
    BY <1>1, <1>2, <1>5
  <1>7. QED
    BY <1>3, <1>6

LEMMA InsertKept ==
  ASSUME Sites, Kept, NEW d \in Device, NEW left \in {Start} \cup Ids(doc[d]),
         NEW op, op = Ins(<<doc[d].clock + 1, Site(d)>>, left), NEW dc, NEW q,
         dc = [doc EXCEPT ![d] = Apply(doc[d], op)],
         q = [queue EXCEPT ![d] = Append(queue[d], op)]
  PROVE  KeptBy(recs, held, dc, q, opens) /\ op \in ToSet(dc[d].chars)
  <1> DEFINE K == AllOf(recs, queue)
             L == LocalOf(recs, queue, d)
  <1>1. /\ Good(K) /\ L \subseteq K /\ doc[d] \in DocSet(L) /\ DOMAIN doc = Device
        /\ opens[d] \in Nat
    BY LocalInAll DEF Kept, KeptBy
  <1> HIDE DEF K, L
  <1>2. doc[d].clock \in Nat /\ doc[d].chars \in Seq(L) /\ Below(doc[d].chars, doc[d].clock)
    BY <1>1 DEF DocSet, Docs
  <1>3. Site(d) \in Nat
    <2>1. Rank[d] \in Nat /\ Cardinality(Device) \in Nat
      BY FS_CardinalityType DEF Sites
    <2>2. QED
      BY <1>1, <2>1 DEF Site
  <1>4. op.t = "i" /\ op.id = <<doc[d].clock + 1, Site(d)>> /\ op.ref = left
    BY DEF Ins
  <1>5. left = Start \/ (left \in Id /\ left[1] <= doc[d].clock)
    <2>1. CASE left \in Ids(doc[d])
      <3>1. PICK i \in 1..Len(doc[d].chars) : left = doc[d].chars[i].id
        BY <1>2, <2>1 DEF Ids
      <3>2. doc[d].chars[i] \in K
        BY <1>1, <1>2
      <3>3. left \in Id
        BY <1>1, <3>1, <3>2, OwnIds
      <3>4. QED
        BY <1>2, <3>1, <3>3 DEF Below
    <2>2. QED
      BY <2>1
  <1>6. op \in Chars /\ Grown(op)
    <2>1. op.id \in Id /\ left \in Id /\ op.id[1] = doc[d].clock + 1
      <3>1. Start \in Id
        BY DEF Id, Start
      <3>2. left \in Id
        BY <1>5, <3>1
      <3>3. <<doc[d].clock + 1, Site(d)>> \in Id
        BY <1>2, <1>3 DEF Id
      <3>4. QED
        BY <1>4, <3>2, <3>3
    <2>2. op \in Chars
      BY <1>4, <2>1 DEF Chars, Ins
    <2>3. op.id[1] > 0
      BY <1>2, <2>1
    <2>4. left # Start => Greater(op.id, left)
      <3>1. left[1] \in Nat
        BY <2>1 DEF Id
      <3>2. QED
        BY <1>2, <1>5, <2>1, <3>1 DEF Greater
    <2>5. QED
      BY <1>4, <2>2, <2>3, <2>4 DEF Grown
  <1>7. Inserts({op}) = {op}
    BY <1>4 DEF Inserts
  <1>8. Good(K \cup {op})
    <2>1. \A c \in K : c.id # op.id
      BY <1>4, TypedIsNew DEF K
    <2>2. QED
      BY <1>1, <1>6, <2>1 DEF Good
  <1>9. op \in OpsOver(L \cup {op})
    BY DEF OpsOver
  <1>10. Good(L \cup {op}) /\ doc[d] \in DocSet(L \cup {op})
    <2>1. L \cup {op} \subseteq K \cup {op} /\ L \subseteq L \cup {op}
      BY <1>1
    <2>2. QED
      BY <1>1, <1>8, <2>1, GoodPart, DocSetGrows
  <1>11. dc[d] \in DocSet(L \cup {op}) /\ op \in ToSet(dc[d].chars)
    <2>1. op.ref = Start \/ op.ref \in Ids(doc[d])
      BY <1>4
    <2>2. dc[d] = Apply(doc[d], op)
      BY <1>1
    <2>3. QED
      BY <1>4, <1>9, <1>10, <2>1, <2>2, Applied
  <1>12. op.id[1] <= dc[d].clock
    <2>1. PICK i \in DOMAIN dc[d].chars : dc[d].chars[i] = op
      BY <1>11 DEF ToSet
    <2>2. dc[d].chars \in Seq(L \cup {op})
      BY <1>11 DEF DocSet, Docs
    <2>3. i \in 1..Len(dc[d].chars)
      BY <2>1, <2>2
    <2>4. QED
      BY <1>11, <2>1, <2>3 DEF DocSet, Below
  <1>13. op.id[2] = Site(d)
    BY <1>4
  <1>14. KeptBy(recs, held, dc, q, opens)
    BY <1>7, <1>8, <1>9, <1>12, <1>13, EditKept DEF K, L
  <1>15. QED
    BY <1>11, <1>14

LEMMA DeleteKept ==
  ASSUME Kept, NEW d \in Device, NEW id \in Ids(doc[d]),
         NEW op, op = Del(id), NEW dc, NEW q,
         dc = [doc EXCEPT ![d] = Apply(doc[d], op)],
         q = [queue EXCEPT ![d] = Append(queue[d], op)]
  PROVE  KeptBy(recs, held, dc, q, opens) /\ id \in Id
  <1> DEFINE K == AllOf(recs, queue)
             L == LocalOf(recs, queue, d)
  <1>1. Good(K) /\ L \subseteq K /\ doc[d] \in DocSet(L)
    BY LocalInAll DEF Kept, KeptBy
  <1> HIDE DEF K, L
  <1>2. doc[d].chars \in Seq(L)
    BY <1>1 DEF DocSet, Docs
  <1>3. PICK i \in 1..Len(doc[d].chars) : id = doc[d].chars[i].id
    BY <1>2 DEF Ids
  <1>4. doc[d].chars[i] \in K
    BY <1>1, <1>2
  <1>5. id \in Id
    BY <1>1, <1>3, <1>4, OwnIds
  <1>6. Inserts({op}) = {}
    BY DEF Inserts, Del
  <1>7. Good(K \cup {}) /\ K \cup {} = K
    BY <1>1
  <1>8. op \in OpsOver(L \cup {})
    BY <1>5 DEF OpsOver
  <1>9. KeptBy(recs, held, dc, q, opens)
    BY <1>6, <1>7, <1>8, EditKept DEF K, L
  <1>10. QED
    BY <1>5, <1>9

(* A record written: its operations are flushed ones already, or the queue's. *)
LEMMA WrittenKept ==
  ASSUME Kept, NEW d \in Device, NEW r, NEW rs, NEW h, NEW q,
         rs = recs \cup {r}, h = [held EXCEPT ![d] = held[d] \cup {r}],
         \/ r.t = "batch" /\ r.ops = queue[d] /\ q = [queue EXCEPT ![d] = <<>>]
         \/ r.t # "batch" /\ r.ops \in Seq(OpsOver(Inserts(Flushed))) /\ q = queue
  PROVE  KeptBy(rs, h, doc, q, opens)
  <1> DEFINE K == AllOf(recs, queue)
             L(e) == LocalOf(recs, queue, e)
             F == Inserts(FlushedOf(recs))
             G == Inserts(FlushedOf(rs))
  <1>1. /\ Written(recs) /\ opens \in [Device -> Nat]
        /\ DOMAIN held = Device /\ DOMAIN doc = Device /\ DOMAIN queue = Device
        /\ \A e \in Device : /\ held[e] \subseteq recs /\ doc[e] \in DocSet(L(e))
                             /\ queue[e] \in Seq(OpsOver(L(e)))
        /\ Good(K) /\ SitedBy(K, doc, opens)
    BY DEF Kept, KeptBy
  <1>2. Flushed = FlushedOf(recs)
    BY DEF Flushed, FlushedOf
  <1>3. FlushedOf(rs) = FlushedOf(recs) \cup (IF r.t = "batch" THEN ToSet(r.ops) ELSE {})
    BY FlushedGrows
  <1>4. DOMAIN h = Device /\ DOMAIN q = Device /\ \A e \in Device : h[e] \subseteq rs
    BY <1>1
  <1>5. F \subseteq G
    BY <1>3 DEF Inserts
  <1>6. \A e \in Device : L(e) \subseteq LocalOf(rs, q, e)
    <2>1. CASE r.t = "batch"
      <3>1. ASSUME NEW e \in Device
            PROVE  FlushedOf(recs) \cup ToSet(queue[e]) \subseteq FlushedOf(rs) \cup ToSet(q[e])
        <4>1. CASE e = d
          BY <1>3, <2>1, <4>1
        <4>2. CASE e # d
          BY <1>1, <1>3, <2>1, <4>2
        <4>3. QED
          BY <4>1, <4>2
      <3>2. QED
        BY <3>1 DEF LocalOf, Inserts
    <2>2. CASE r.t # "batch"
      <3>1. q = queue /\ FlushedOf(rs) = FlushedOf(recs)
        BY <1>3, <2>2
      <3>2. QED
        BY <3>1 DEF LocalOf
    <2>3. QED
      BY <2>1, <2>2
  <1>7. AllOf(rs, q) \subseteq K
    <2>1. CASE r.t = "batch"
      <3>1. q[d] = <<>> /\ \A e \in Device \ {d} : q[e] = queue[e]
        BY <1>1, <2>1
      <3>2. ToSet(q[d]) = {}
        BY <3>1, SetOfNone
      <3>3. FlushedOf(rs) \cup UNION {ToSet(q[e]) : e \in Device}
            \subseteq FlushedOf(recs) \cup UNION {ToSet(queue[e]) : e \in Device}
        BY <1>3, <2>1, <3>1, <3>2, ZenonT(60)
      <3>4. QED
        BY <3>3 DEF AllOf, Inserts
    <2>2. CASE r.t # "batch"
      <3>1. q = queue /\ FlushedOf(rs) = FlushedOf(recs)
        BY <1>3, <2>2
      <3>2. QED
        BY <3>1 DEF AllOf
    <2>3. QED
      BY <2>1, <2>2
  <1>8. r.ops \in Seq(OpsOver(G))
    <2>1. CASE r.t = "batch"
      <3>1. L(d) \subseteq G
        BY <1>3, <2>1 DEF LocalOf, Inserts
      <3>2. r.ops \in Seq(OpsOver(L(d)))
        BY <1>1, <2>1
      <3> HIDE DEF L, G
      <3>3. QED
        BY <3>1, <3>2, DocSetGrows
    <2>2. CASE r.t # "batch"
      <3>1. r.ops \in Seq(OpsOver(F))
        BY <1>2, <2>2
      <3> HIDE DEF F, G
      <3>2. QED
        BY <1>5, <3>1, DocSetGrows
    <2>3. QED
      BY <2>1, <2>2
  <1>9. Written(rs)
    <2>1. IsFiniteSet(rs)
      BY <1>1, FS_AddElement DEF Written
    <2>2. ASSUME NEW s \in recs PROVE s.ops \in Seq(OpsOver(G))
      <3>1. s.ops \in Seq(OpsOver(F))
        BY <1>1 DEF Written
      <3> HIDE DEF F, G
      <3>2. QED
        BY <1>5, <3>1, DocSetGrows
    <2>3. QED
      BY <1>8, <2>1, <2>2 DEF Written
  <1> HIDE DEF K, L
  <1>10. ASSUME NEW e \in Device
         PROVE  /\ doc[e] \in DocSet(LocalOf(rs, q, e))
                /\ q[e] \in Seq(OpsOver(LocalOf(rs, q, e)))
    <2>1. doc[e] \in DocSet(LocalOf(rs, q, e)) /\ queue[e] \in Seq(OpsOver(LocalOf(rs, q, e)))
      BY <1>1, <1>6, DocSetGrows
    <2>2. q[e] = queue[e] \/ q[e] = <<>>
      BY <1>1
    <2>3. QED
      BY <2>1, <2>2, EmptySeq
  <1>11. Good(AllOf(rs, q))
    BY <1>1, <1>7, GoodPart
  <1>12. SitedBy(AllOf(rs, q), doc, opens)
    BY <1>1, <1>7 DEF SitedBy
  <1>13. QED
    BY <1>1, <1>4, <1>9, <1>10, <1>11, <1>12 DEF KeptBy

(* A record arrives, and is perhaps applied. *)
LEMMA DeliverKept ==
  ASSUME Kept, NEW d \in Device, NEW r \in recs, NEW h, NEW dc,
         h = [held EXCEPT ![d] = held[d] \cup {r}],
         \/ dc = doc
         \/ \E s : /\ s = InCounterOrder(r.ops) \/ s = r.ops
                   /\ dc = [doc EXCEPT ![d] = AppliedAll(doc[d], s)]
  PROVE  KeptBy(recs, h, dc, queue, opens) /\ \A e \in Device : Grew(doc[e], dc[e])
  <1> DEFINE K == AllOf(recs, queue)
             L(e) == LocalOf(recs, queue, e)
             F == Inserts(FlushedOf(recs))
  <1>1. /\ Written(recs) /\ opens \in [Device -> Nat]
        /\ DOMAIN held = Device /\ DOMAIN doc = Device /\ DOMAIN queue = Device
        /\ \A e \in Device : /\ held[e] \subseteq recs /\ doc[e] \in DocSet(L(e))
                             /\ queue[e] \in Seq(OpsOver(L(e))) /\ Good(L(e))
        /\ Good(K) /\ SitedBy(K, doc, opens)
    <2>1. \A e \in Device : Good(L(e))
      BY LocalInAll, GoodPart DEF Kept, KeptBy
    <2>2. QED
      BY <2>1 DEF Kept, KeptBy
  <1>2. r.ops \in Seq(OpsOver(L(d)))
    <2>1. r.ops \in Seq(OpsOver(F))
      BY <1>1 DEF Written
    <2>2. F \subseteq L(d)
      BY FlushedInLocal
    <2> HIDE DEF F, L
    <2>3. QED
      BY <2>1, <2>2, DocSetGrows
  <1> HIDE DEF K, L, F
  <1>3. DOMAIN h = Device /\ \A e \in Device : h[e] \subseteq recs
    BY <1>1
  <1>4. DOMAIN dc = Device /\ \A e \in Device : dc[e] \in DocSet(L(e)) /\ Grew(doc[e], dc[e])
    <2>1. \A e \in Device : doc[e] \in DocSet(L(e)) /\ Grew(doc[e], doc[e])
      BY <1>1, Growing DEF DocSet
    <2>2. CASE dc = doc
      BY <1>1, <2>1, <2>2
    <2>3. CASE \E s : /\ s = InCounterOrder(r.ops) \/ s = r.ops
                      /\ dc = [doc EXCEPT ![d] = AppliedAll(doc[d], s)]
      <3>1. PICK s : /\ s = InCounterOrder(r.ops) \/ s = r.ops
                     /\ dc = [doc EXCEPT ![d] = AppliedAll(doc[d], s)]
        BY <2>3
      <3>2. s \in Seq(OpsOver(L(d)))
        BY <1>1, <1>2, <3>1, InCounterOrderIs
      <3>3. AppliedAll(doc[d], s) \in DocSet(L(d)) /\ Grew(doc[d], AppliedAll(doc[d], s))
        BY <1>1, <3>2, Folded
      <3>4. DOMAIN dc = Device /\ dc[d] = AppliedAll(doc[d], s) /\ \A e \in Device \ {d} : dc[e] = doc[e]
        BY <1>1, <3>1
      <3>5. QED
        BY <2>1, <3>3, <3>4
    <2>4. QED
      BY <2>2, <2>3
  <1>5. SitedBy(K, dc, opens)
    <2>1. ASSUME NEW c \in K
          PROVE  \E e \in Device, n \in Nat :
                   /\ n <= opens[e] /\ c.id[2] = Rank[e] + n * Cardinality(Device)
                   /\ n = opens[e] => c.id[1] <= dc[e].clock
      <3>1. PICK e \in Device, n \in Nat :
              /\ n <= opens[e] /\ c.id[2] = Rank[e] + n * Cardinality(Device)
              /\ n = opens[e] => c.id[1] <= doc[e].clock
        BY <1>1 DEF SitedBy
      <3>2. doc[e].clock <= dc[e].clock /\ doc[e].clock \in Nat /\ dc[e].clock \in Nat
        BY <1>1, <1>4 DEF Grew, DocSet, Docs
      <3>3. c.id[1] \in Nat
        <4>1. c.id \in Id
          BY <1>1, OwnIds
        <4>2. QED
          BY <4>1 DEF Id
      <3>4. n = opens[e] => c.id[1] <= dc[e].clock
        BY <3>1, <3>2, <3>3
      <3>5. QED
        BY <3>1, <3>4
    <2>2. QED
      BY <2>1 DEF SitedBy
  <1>6. QED
    BY <1>1, <1>3, <1>4, <1>5 DEF KeptBy, K, L

(* The text is opened again from what is held; the queue is lost, the session is new. *)
LEMMA ReopenKept ==
  ASSUME Kept, NEW d \in Device, NEW dc, NEW q, NEW o,
         o = [opens EXCEPT ![d] = opens[d] + 1],
         dc = [doc EXCEPT ![d] = Load(held[d])],
         q = [queue EXCEPT ![d] = <<>>]
  PROVE  KeptBy(recs, held, dc, q, o) /\ Load(held[d]) \in DocSet(Inserts(FlushedOf(recs)))
  <1> DEFINE K == AllOf(recs, queue)
             L(e) == LocalOf(recs, queue, e)
             F == Inserts(FlushedOf(recs))
  <1>1. /\ Written(recs) /\ opens \in [Device -> Nat]
        /\ DOMAIN held = Device /\ DOMAIN doc = Device /\ DOMAIN queue = Device
        /\ \A e \in Device : /\ held[e] \subseteq recs /\ doc[e] \in DocSet(L(e))
                             /\ queue[e] \in Seq(OpsOver(L(e)))
        /\ Good(K) /\ SitedBy(K, doc, opens)
    BY DEF Kept, KeptBy
  <1>2. F \subseteq K
    BY DEF AllOf, Inserts
  <1>3. Load(held[d]) \in DocSet(F)
    <2>1. Good(F)
      <3> HIDE DEF F, K
      <3>1. QED
        BY <1>1, <1>2, GoodPart
    <2>2. IsFiniteSet(held[d]) /\ \A r \in held[d] : r.ops \in Seq(OpsOver(F))
      <3>1. IsFiniteSet(recs) /\ held[d] \in SUBSET recs
        BY <1>1 DEF Written
      <3>2. IsFiniteSet(held[d])
        BY <3>1, FS_Subset
      <3>3. QED
        BY <1>1, <3>1, <3>2 DEF Written
    <2> HIDE DEF F
    <2>3. QED
      BY <2>1, <2>2, Loaded
  <1>4. /\ DOMAIN dc = Device /\ DOMAIN q = Device /\ o \in [Device -> Nat]
        /\ dc[d] = Load(held[d]) /\ q[d] = <<>> /\ o[d] = opens[d] + 1
        /\ \A e \in Device \ {d} : dc[e] = doc[e] /\ q[e] = queue[e] /\ o[e] = opens[e]
    BY <1>1
  <1>5. ToSet(q[d]) = {}
    BY <1>4, SetOfNone
  <1>6. AllOf(recs, q) \subseteq K
    <2>1. FlushedOf(recs) \cup UNION {ToSet(q[e]) : e \in Device}
          \subseteq FlushedOf(recs) \cup UNION {ToSet(queue[e]) : e \in Device}
      BY <1>4, <1>5
    <2>2. QED
      BY <2>1 DEF AllOf, Inserts
  <1>7. LocalOf(recs, q, d) = F
    BY <1>5 DEF LocalOf
  <1>8. \A e \in Device \ {d} : LocalOf(recs, q, e) = L(e)
    BY <1>4 DEF LocalOf
  <1>9. ASSUME NEW e \in Device
        PROVE  /\ dc[e] \in DocSet(LocalOf(recs, q, e))
               /\ q[e] \in Seq(OpsOver(LocalOf(recs, q, e)))
    <2>1. CASE e = d
      <3>1. <<>> \in Seq(OpsOver(F))
        BY EmptySeq
      <3>2. QED
        BY <1>3, <1>4, <1>7, <2>1, <3>1
    <2>2. CASE e # d
      BY <1>1, <1>4, <1>8, <2>2
    <2>3. QED
      BY <2>1, <2>2
  <1> HIDE DEF K
  <1>10. SitedBy(AllOf(recs, q), dc, o)
    <2>1. ASSUME NEW c \in K
          PROVE  \E e \in Device, n \in Nat :
                   /\ n <= o[e] /\ c.id[2] = Rank[e] + n * Cardinality(Device)
                   /\ n = o[e] => c.id[1] <= dc[e].clock
      <3>1. PICK e \in Device, n \in Nat :
              /\ n <= opens[e] /\ c.id[2] = Rank[e] + n * Cardinality(Device)
              /\ n = opens[e] => c.id[1] <= doc[e].clock
        BY <1>1 DEF SitedBy
      <3>2. n <= o[e] /\ (n = o[e] => c.id[1] <= dc[e].clock)
        <4>1. CASE e = d
          <5>1. opens[d] \in Nat /\ n <= opens[d]
            BY <1>1, <3>1, <4>1
          <5>2. n <= o[d] /\ n # o[d]
            BY <1>4, <5>1
          <5>3. QED
            BY <4>1, <5>2
        <4>2. CASE e # d
          BY <1>4, <3>1, <4>2
        <4>3. QED
          BY <4>1, <4>2
      <3>3. QED
        BY <3>1, <3>2
    <2>2. QED
      BY <1>6, <2>1 DEF SitedBy
  <1>11. Good(AllOf(recs, q))
    BY <1>1, <1>6, GoodPart
  <1>12. QED
    BY <1>1, <1>3, <1>4, <1>9, <1>10, <1>11 DEF KeptBy

LEMMA InitKept == ASSUME Sites, Init PROVE Kept
  <1>1. /\ recs = {} /\ held = [d \in Device |-> {}] /\ doc = [d \in Device |-> Empty]
        /\ queue = [d \in Device |-> <<>>] /\ opens = [d \in Device |-> 0]
    BY DEF Init
  <1>2. FlushedOf(recs) = {}
    BY <1>1 DEF FlushedOf
  <1>3. AllOf(recs, queue) = {}
    <2>1. \A d \in Device : ToSet(queue[d]) = {}
      BY <1>1, SetOfNone
    <2>2. QED
      BY <1>2, <2>1 DEF AllOf, Inserts
  <1>4. Written(recs)
    BY <1>1, FS_EmptySet DEF Written
  <1>5. \A d \in Device : /\ held[d] \subseteq recs
                          /\ doc[d] \in DocSet(LocalOf(recs, queue, d))
                          /\ queue[d] \in Seq(OpsOver(LocalOf(recs, queue, d)))
    BY <1>1, EmptyDoc, EmptySeq
  <1>6. Good(AllOf(recs, queue)) /\ SitedBy(AllOf(recs, queue), doc, opens)
    BY <1>3 DEF Good, SitedBy
  <1>7. DOMAIN held = Device /\ DOMAIN doc = Device /\ DOMAIN queue = Device /\ opens \in [Device -> Nat]
    BY <1>1
  <1>8. QED
    BY <1>4, <1>5, <1>6, <1>7 DEF Kept, KeptBy

LEMMA SnapshotOps ==
  ASSUME Kept, NEW d \in Device, queue[d] = <<>>
  PROVE  /\ OpsOfRuns(doc[d]) \in Seq(OpsOver(Inserts(Flushed)))
         /\ doc[d] \in DocSet(Inserts(Flushed))
  <1>1. Flushed = FlushedOf(recs)
    BY DEF Flushed, FlushedOf
  <1>2. LocalOf(recs, queue, d) = Inserts(Flushed)
    BY <1>1, SetOfNone DEF LocalOf
  <1>3. doc[d] \in DocSet(LocalOf(recs, queue, d)) /\ Good(LocalOf(recs, queue, d))
    BY LocalInAll, GoodPart DEF Kept, KeptBy
  <1>4. QED
    BY <1>2, <1>3, Opened

(* One step per action of the module. *)
LEMMA KeptStep == ASSUME Sites, Kept, [Next]_vars PROVE Kept'
  <1>1. SUFFICES KeptBy(recs', held', doc', queue', opens')
    BY DEF Kept, KeptBy, Written, AllOf, LocalOf, FlushedOf, SitedBy
  <1>2. DOMAIN held = Device /\ DOMAIN doc = Device /\ DOMAIN queue = Device
    BY DEF Kept, KeptBy
  <1>3. ASSUME NEW d \in Device, Insert(d) PROVE KeptBy(recs', held', doc', queue', opens')
    <2>1. PICK left \in {Start} \cup Shown(d) : Edited(d, Ins(<<doc[d].clock + 1, Site(d)>>, left))
      BY <1>3 DEF Insert
    <2>2. PICK op : op = Ins(<<doc[d].clock + 1, Site(d)>>, left)
      OBVIOUS
    <2>3. /\ doc' = [doc EXCEPT ![d] = Apply(doc[d], op)]
          /\ queue' = [queue EXCEPT ![d] = Append(queue[d], op)]
          /\ recs' = recs /\ held' = held /\ opens' = opens
      BY <2>1, <2>2 DEF Edited
    <2>4. left \in {Start} \cup Ids(doc[d])
      BY DEF Shown
    <2>5. QED
      BY <2>2, <2>3, <2>4, InsertKept
  <1>4. ASSUME NEW d \in Device, Delete(d) PROVE KeptBy(recs', held', doc', queue', opens')
    <2>1. PICK id \in Shown(d) : Edited(d, Del(id))
      BY <1>4 DEF Delete
    <2>2. PICK op : op = Del(id)
      OBVIOUS
    <2>3. /\ doc' = [doc EXCEPT ![d] = Apply(doc[d], op)]
          /\ queue' = [queue EXCEPT ![d] = Append(queue[d], op)]
          /\ recs' = recs /\ held' = held /\ opens' = opens
      BY <2>1, <2>2 DEF Edited
    <2>4. id \in Ids(doc[d])
      BY DEF Shown
    <2>5. QED
      BY <2>2, <2>3, <2>4, DeleteKept
  <1>5. ASSUME NEW d \in Device, Flush(d) PROVE KeptBy(recs', held', doc', queue', opens')
    <2> DEFINE r == [t |-> "batch", by |-> d, h |-> Now, ops |-> queue[d], targets |-> {}]
    <2>1. /\ recs' = recs \cup {r} /\ held' = [held EXCEPT ![d] = held[d] \cup {r}]
          /\ queue' = [queue EXCEPT ![d] = <<>>] /\ doc' = doc /\ opens' = opens
      BY <1>5 DEF Flush, Writes
    <2>2. r.t = "batch" /\ r.ops = queue[d]
      OBVIOUS
    <2> HIDE DEF r
    <2>3. KeptBy(recs', held', doc, queue', opens)
      BY <2>1, <2>2, WrittenKept
    <2>4. QED
      BY <2>1, <2>3
  <1>6. ASSUME NEW d \in Device, Snapshot(d) PROVE KeptBy(recs', held', doc', queue', opens')
    <2> DEFINE r == [t |-> "snap", by |-> d, h |-> Now, ops |-> OpsOfRuns(doc[d]), targets |-> {}]
    <2>1. /\ recs' = recs \cup {r} /\ held' = [held EXCEPT ![d] = held[d] \cup {r}]
          /\ queue' = queue /\ doc' = doc /\ opens' = opens /\ queue[d] = <<>>
      BY <1>6 DEF Snapshot, Writes
    <2>2. r.t # "batch" /\ r.ops \in Seq(OpsOver(Inserts(Flushed)))
      BY <2>1, SnapshotOps
    <2> HIDE DEF r
    <2>3. KeptBy(recs', held', doc, queue, opens)
      BY <2>1, <2>2, WrittenKept
    <2>4. QED
      BY <2>1, <2>3
  <1>7. ASSUME NEW d \in Device, DropOwn(d) PROVE KeptBy(recs', held', doc', queue', opens')
    <2> DEFINE r == [t |-> "drop", by |-> d, h |-> Now, ops |-> <<>>, targets |-> dropping[d]]
    <2>1. /\ recs' = recs \cup {r} /\ held' = [held EXCEPT ![d] = held[d] \cup {r}]
          /\ queue' = queue /\ doc' = doc /\ opens' = opens
      BY <1>7 DEF DropOwn, Writes
    <2>2. r.t # "batch" /\ r.ops \in Seq(OpsOver(Inserts(Flushed)))
      BY EmptySeq
    <2> HIDE DEF r
    <2>3. KeptBy(recs', held', doc, queue, opens)
      BY <2>1, <2>2, WrittenKept
    <2>4. QED
      BY <2>1, <2>3
  <1>8. ASSUME NEW d \in Device, Reopen(d) PROVE KeptBy(recs', held', doc', queue', opens')
    <2>1. /\ opens' = [opens EXCEPT ![d] = opens[d] + 1]
          /\ doc' = [doc EXCEPT ![d] = Load(held[d])]
          /\ queue' = [queue EXCEPT ![d] = <<>>]
          /\ recs' = recs /\ held' = held
      BY <1>8 DEF Reopen
    <2>2. QED
      BY <2>1, ReopenKept
  <1>9. ASSUME NEW d \in Device, NEW r \in recs, Deliver(d, r)
        PROVE  KeptBy(recs', held', doc', queue', opens')
    <2>1. /\ held' = [held EXCEPT ![d] = held[d] \cup {r}]
          /\ recs' = recs /\ queue' = queue /\ opens' = opens
      BY <1>9 DEF Deliver
    <2>2. \/ doc' = doc
          \/ \E s : /\ s = InCounterOrder(r.ops) \/ s = r.ops
                    /\ doc' = [doc EXCEPT ![d] = AppliedAll(doc[d], s)]
      BY <1>9 DEF Deliver, AppliedAll
    <2>3. QED
      BY <2>1, <2>2, DeliverKept
  <1>10. CASE UNCHANGED vars
    <2>1. recs' = recs /\ held' = held /\ doc' = doc /\ queue' = queue /\ opens' = opens
      BY <1>10 DEF vars
    <2>2. QED
      BY <2>1 DEF Kept
  <1>11. QED
    BY <1>3, <1>4, <1>5, <1>6, <1>7, <1>8, <1>9, <1>10 DEF Next

(* Whoever is in the same order with the same characters shows the same. *)
LEMMA KeptConverges == ASSUME Kept PROVE TextConverges
  <1>1. SUFFICES ASSUME NEW d \in Device, NEW e \in Device,
                        Ids(doc[d]) = Ids(doc[e]), doc[d].dead = doc[e].dead
                 PROVE  Text(doc[d]) = Text(doc[e])
    BY DEF TextConverges
  <1> DEFINE K == AllOf(recs, queue)
  <1>2. doc[d] \in DocSet(LocalOf(recs, queue, d)) /\ doc[e] \in DocSet(LocalOf(recs, queue, e)) /\ Good(K)
    BY DEF Kept, KeptBy
  <1>3. doc[d] \in DocSet(K) /\ doc[e] \in DocSet(K)
    BY <1>2, LocalInAll, DocSetGrows
  <1> HIDE DEF K
  <1>4. PICK a : a = doc[d].chars
    OBVIOUS
  <1>5. PICK b : b = doc[e].chars
    OBVIOUS
  <1>6. a \in Seq(K) /\ b \in Seq(K) /\ Canon(a) /\ Canon(b)
    BY <1>3, <1>4, <1>5 DEF DocSet, Docs
  <1>7. {a[i].id : i \in DOMAIN a} = {b[i].id : i \in DOMAIN b}
    BY <1>1, <1>4, <1>5, ZenonT(60) DEF Ids
  <1>8. ToSet(a) = ToSet(b)
    <2>1. \A i \in DOMAIN a : a[i] \in K
      BY <1>6
    <2>2. \A i \in DOMAIN b : b[i] \in K
      BY <1>6
    <2>3. ASSUME NEW i \in DOMAIN a PROVE \E j \in DOMAIN b : a[i] = b[j]
      <3>1. PICK j \in DOMAIN b : a[i].id = b[j].id
        BY <1>7
      <3>2. a[i] = b[j]
        BY <1>2, <2>1, <2>2, <3>1 DEF Good
      <3>3. QED
        BY <3>2
    <2>4. ASSUME NEW j \in DOMAIN b PROVE \E i \in DOMAIN a : b[j] = a[i]
      <3>1. PICK i \in DOMAIN a : a[i].id = b[j].id
        BY <1>7
      <3>2. a[i] = b[j]
        BY <1>2, <2>1, <2>2, <3>1 DEF Good
      <3>3. QED
        BY <3>2
    <2>5. QED
      BY <2>3, <2>4 DEF ToSet
  <1>9. a = b
    BY <1>2, <1>6, <1>8, OneOrder
  <1>10. QED
    BY <1>1, <1>4, <1>5, <1>9 DEF Text

-----------------------------------------------------------------------------
(* Replicas that have the same characters and know of the same deletions    *)
(* show the same text (README.md:329), in whatever order text.js applied    *)
(* their operations: one by one, from batches, from snapshots, or sorted    *)
(* when the text was opened again.                                         *)
THEOREM TextsConverge == ASSUME Sites PROVE Spec => []TextConverges
  <1>1. Init => Kept
    BY InitKept
  <1>2. Kept /\ [Next]_vars => Kept'
    BY KeptStep
  <1>3. Kept => TextConverges
    BY KeptConverges
  <1>4. QED
    BY <1>1, <1>2, <1>3, PTL DEF Spec

-----------------------------------------------------------------------------
(***************************************************************************)
(* Losing nothing.  Lossless adds to Kept how records, snapshots and drop  *)
(* lists refer to each other; it is required until a drop list has overtaken*)
(* the snapshot it relies on.                                              *)
(***************************************************************************)

(* No two devices sign with one identity, so none shares its snapshot key. *)
OneDeviceEach == \A d, e \in Device : AuthorOf[d] = AuthorOf[e] => d = e

(* The text has what an operation does. *)
Has(dc, op) ==
  IF op.t = "i" THEN op \in ToSet(dc.chars) ELSE op.id \in dc.dead /\ op.id \in Ids(dc)

Snapped(s, d) == s.t = "snap" /\ s.by = d

(* A record is its device's, and its time its own. *)
Numbered(rs, h) ==
  /\ \A r \in rs : /\ r.by \in Device /\ r.h \in 1..Cardinality(rs) /\ r \in h[r.by]
                   /\ r.targets \subseteq 1..Cardinality(rs)
                   /\ \/ r.t \in {"batch", "snap"} /\ r.targets = {}
                      \/ r.t = "drop" /\ r.ops = <<>>
  /\ \A r, s \in rs : r.h = s.h => r = s

(* A later snapshot of a device has what its earlier ones have; a batch is dropped  *)
(* only after a snapshot of the same device that has its operations.               *)
Covered(rs) ==
  /\ \A r, s \in rs : r.t = "snap" /\ Snapped(s, r.by) /\ r.h <= s.h => ToSet(r.ops) \subseteq ToSet(s.ops)
  /\ \A r, b \in rs : r.t = "drop" /\ b.t = "batch" /\ b.h \in r.targets =>
       \E s \in rs : Snapped(s, r.by) /\ s.h < r.h /\ ToSet(b.ops) \subseteq ToSet(s.ops)

(* What a drop list relies on is there with it. *)
Complete(rs, H) ==
  \A r \in H, s \in rs : r.t = "drop" /\ Snapped(s, r.by) /\ s.h < r.h => s \in H

(* What was flushed refers to what was flushed. *)
Closed(rs) ==
  /\ \A c \in Inserts(FlushedOf(rs)) : c.ref = Start \/ \E e \in Inserts(FlushedOf(rs)) : e.id = c.ref
  /\ \A r \in rs : \A op \in ToSet(r.ops) :
       op.t # "i" => \E e \in Inserts(FlushedOf(rs)) : e.id = op.id

(* What is queued is queued once, and not flushed yet. *)
Apart(rs, q) ==
  \A d \in Device : /\ Inserts(ToSet(q[d])) \cap FlushedOf(rs) = {}
                    /\ \A e \in Device : d # e => Inserts(ToSet(q[d])) \cap ToSet(q[e]) = {}

(* A device has what its records and its queue do, and no more than it holds. *)
Base(H, Q) == Inserts(LoadedOf(H) \cup ToSet(Q))
Sound(rs, H, D, Q, d) ==
  /\ Complete(rs, H)
  /\ D \in DocSet(Base(H, Q))
  /\ \A op \in ToSet(Q) : Has(D, op)
  /\ \A r \in rs : r.by = d => \A op \in ToSet(r.ops) : Has(D, op)

(* What it may drop is its own, and what it is about to drop is in its snapshot. *)
Owned(rs, o, p, d) ==
  /\ o \subseteq 1..Cardinality(rs) /\ p \subseteq 1..Cardinality(rs)
  /\ \A b \in rs : b.t = "batch" /\ b.h \in o => b.by = d
  /\ \A b \in rs : b.t = "batch" /\ b.h \in p =>
       \E s \in rs : Snapped(s, d) /\ ToSet(b.ops) \subseteq ToSet(s.ops)

LosslessBy(rs, h, dc, q, ow, dr) ==
  /\ Numbered(rs, h) /\ Covered(rs) /\ Closed(rs) /\ Apart(rs, q)
  /\ DOMAIN ow = Device /\ DOMAIN dr = Device
  /\ \A d \in Device : Sound(rs, h[d], dc[d], q[d], d) /\ Owned(rs, ow[d], dr[d], d)

(* The inductive invariant of losing nothing, with Kept. *)
Lossless == early \/ LosslessBy(recs, held, doc, queue, own, dropping)

-----------------------------------------------------------------------------
(***************************************************************************)
(* What opening finds: the newest snapshot of a dropped batch has what the *)
(* batch had, and whoever has all predecessors of a character applies it.  *)
(***************************************************************************)

(* Whoever holds a record and what the drop lists rely on opens what is in it. *)
LEMMA Reaches ==
  ASSUME OneDeviceEach, NEW rs, NEW h, Numbered(rs, h), Covered(rs), IsFiniteSet(rs),
         NEW H \in SUBSET rs, Complete(rs, H), NEW r \in H
  PROVE  ToSet(r.ops) \subseteq LoadedOf(H)
  <1> DEFINE n == Cardinality(rs)
  <1>1. n \in Nat
    BY FS_CardinalityType
  <1>2. /\ \A s \in rs : /\ s.by \in Device /\ s.h \in 1..n
                         /\ \/ s.t \in {"batch", "snap"} /\ s.targets = {}
                            \/ s.t = "drop" /\ s.ops = <<>>
    BY DEF Numbered
  <1> HIDE DEF n
  <1>3. ASSUME NEW s \in H, s.t = "snap" PROVE ToSet(s.ops) \subseteq LoadedOf(H)
    <2> DEFINE T == {x \in H : Snapped(x, s.by)}
               N == {n - x.h : x \in T}
    <2>1. s \in T
      BY <1>3 DEF Snapped
    <2>2. N \subseteq Nat /\ N # {}
      <3>1. \A x \in T : n - x.h \in Nat
        BY <1>1, <1>2
      <3>2. QED
        BY <2>1, <3>1
    <2>3. PICK y \in N : \A z \in N : y <= z
      BY <2>2, HasMin
    <2>4. PICK m \in T : y = n - m.h
      BY <2>3
    <2>5. ASSUME NEW x \in T PROVE x.h <= m.h
      <3>1. n - m.h <= n - x.h /\ x.h \in Nat /\ m.h \in Nat
        BY <1>2, <2>3, <2>4
      <3>2. QED
        BY <1>1, <3>1
    <2>6. m \in H /\ m \in rs /\ m.t = "snap" /\ m.by = s.by
      BY DEF Snapped
    <2>7. m \in Heads(H)
      <3>1. ASSUME NEW x \in H, x.t = "snap", AuthorOf[x.by] = AuthorOf[m.by] PROVE x.h <= m.h
        <4>1. x.by \in Device /\ m.by \in Device
          BY <1>2, <2>6
        <4>2. x.by = m.by
          BY <3>1, <4>1 DEF OneDeviceEach
        <4>3. x \in T
          BY <2>6, <3>1, <4>2 DEF Snapped
        <4>4. QED
          BY <2>5, <4>3
      <3>2. QED
        BY <2>6, <3>1 DEF Heads
    <2>8. ToSet(s.ops) \subseteq ToSet(m.ops)
      <3>1. s.h <= m.h /\ s \in rs /\ Snapped(m, s.by)
        BY <2>1, <2>5, <2>6 DEF Snapped
      <3>2. QED
        BY <1>3, <2>6, <3>1 DEF Covered
    <2>9. QED
      BY <2>7, <2>8 DEF LoadedOf
  <1>4. CASE r.t = "snap"
    BY <1>3, <1>4
  <1>5. CASE r.t = "drop"
    <2>1. r.ops = <<>>
      BY <1>2, <1>5
    <2>2. QED
      BY <2>1, SetOfNone
  <1>6. CASE r.t = "batch" /\ r.h \notin Dropped(H)
    BY <1>6 DEF Batches, LoadedOf
  <1>7. CASE r.t = "batch" /\ r.h \in Dropped(H)
    <2>1. PICK x \in H : r.h \in x.targets
      BY <1>7 DEF Dropped
    <2>2. x.t = "drop"
      BY <1>2, <2>1
    <2>3. PICK s \in rs : Snapped(s, x.by) /\ s.h < x.h /\ ToSet(r.ops) \subseteq ToSet(s.ops)
      BY <1>7, <2>1, <2>2 DEF Covered
    <2>4. s \in H
      BY <2>2, <2>3 DEF Complete
    <2>5. ToSet(s.ops) \subseteq LoadedOf(H)
      BY <1>3, <2>3, <2>4 DEF Snapped
    <2>6. QED
      BY <2>3, <2>5
  <1>8. QED
    BY <1>2, <1>4, <1>5, <1>6, <1>7

LEMMA ReachesMore ==
  ASSUME OneDeviceEach, NEW rs, NEW h, Numbered(rs, h), Covered(rs), IsFiniteSet(rs),
         NEW H \in SUBSET rs, Complete(rs, H), NEW G, G \subseteq H
  PROVE  LoadedOf(G) \subseteq LoadedOf(H)
  <1>1. ASSUME NEW r \in Heads(G) \cup Batches(G) PROVE ToSet(r.ops) \subseteq LoadedOf(H)
    <2>1. r \in H
      BY DEF Heads, Batches
    <2>2. QED
      BY <2>1, Reaches
  <1>2. QED
    BY <1>1 DEF LoadedOf

-----------------------------------------------------------------------------
LEMMA IdsOf == ASSUME NEW d PROVE Ids(d) = {c.id : c \in ToSet(d.chars)}
  BY DEF Ids, ToSet

LEMMA CharsOf ==
  ASSUME NEW K, NEW d \in DocSet(K)
  PROVE  /\ ToSet(d.chars) \subseteq K
         /\ \A c \in ToSet(d.chars) : c.ref = Start \/ \E e \in ToSet(d.chars) : e.id = c.ref
  <1>1. d.chars \in Seq(K) /\ Canon(d.chars)
    BY DEF DocSet, Docs
  <1>2. DOMAIN d.chars = 1..Len(d.chars) /\ Len(d.chars) \in Nat
    BY <1>1
  <1>3. ToSet(d.chars) \subseteq K
    BY <1>1, <1>2 DEF ToSet
  <1>4. ASSUME NEW c \in ToSet(d.chars), c.ref # Start PROVE \E e \in ToSet(d.chars) : e.id = c.ref
    <2>1. PICK j \in 1..Len(d.chars) : d.chars[j] = c
      BY <1>2 DEF ToSet
    <2>2. Behind(d.chars, j, j)
      BY <1>1, <2>1 DEF Canon
    <2>3. PICK i \in 1..(j - 1) : d.chars[i].id = c.ref
      BY <1>4, <2>1, <2>2 DEF Behind
    <2>4. i \in 1..Len(d.chars)
      BY <1>2, <2>1
    <2>5. QED
      BY <1>2, <2>3, <2>4 DEF ToSet
  <1>5. QED
    BY <1>3, <1>4

LEMMA HasGrows ==
  ASSUME NEW d, NEW x, Grew(d, x), NEW op, Has(d, op)
  PROVE  Has(x, op)
  <1>1. Ids(d) \subseteq Ids(x)
    BY IdsOf DEF Grew
  <1>2. QED
    BY <1>1 DEF Has, Grew

LEMMA SeqOver ==
  ASSUME NEW K, NEW L, NEW s \in Seq(K), ToSet(s) \subseteq L
  PROVE  s \in Seq(L)
  <1>1. Len(s) \in Nat /\ DOMAIN s = 1..Len(s) /\ s = [i \in 1..Len(s) |-> s[i]]
    OBVIOUS
  <1>2. \A i \in 1..Len(s) : s[i] \in L
    BY <1>1 DEF ToSet
  <1>3. s \in [1..Len(s) -> L]
    BY <1>1, <1>2
  <1>4. QED
    BY <1>1, <1>3

LEMMA SetOfBoth ==
  ASSUME NEW K, NEW a \in Seq(K), NEW b \in Seq(K)
  PROVE  ToSet(a \o b) = ToSet(a) \cup ToSet(b)
  <1>1. /\ (a \o b) \in Seq(K) /\ Len(a \o b) = Len(a) + Len(b)
        /\ \A k \in 1..(Len(a) + Len(b)) :
             (a \o b)[k] = IF k <= Len(a) THEN a[k] ELSE b[k - Len(a)]
    BY ConcatProperties
  <1>2. PICK c : c = a \o b
    OBVIOUS
  <1>3. /\ Len(a) \in Nat /\ Len(b) \in Nat /\ DOMAIN a = 1..Len(a) /\ DOMAIN b = 1..Len(b)
        /\ DOMAIN c = 1..(Len(a) + Len(b))
    <2>1. c \in Seq(K) /\ Len(c) = Len(a) + Len(b)
      BY <1>1, <1>2
    <2>2. QED
      BY <2>1
  <1>4. ASSUME NEW i \in 1..Len(a) PROVE \E k \in 1..(Len(a) + Len(b)) : c[k] = a[i]
    <2>1. i \in 1..(Len(a) + Len(b)) /\ i <= Len(a)
      BY <1>3
    <2>2. QED
      BY <1>1, <1>2, <2>1
  <1>5. ASSUME NEW i \in 1..Len(b) PROVE \E k \in 1..(Len(a) + Len(b)) : c[k] = b[i]
    <2>1. PICK k \in 1..(Len(a) + Len(b)) : k = Len(a) + i
      BY <1>3
    <2>2. ~ (k <= Len(a)) /\ k - Len(a) = i
      BY <1>3, <2>1
    <2>3. QED
      BY <1>1, <1>2, <2>2
  <1>6. ASSUME NEW k \in 1..(Len(a) + Len(b))
        PROVE  (\E i \in 1..Len(a) : c[k] = a[i]) \/ (\E i \in 1..Len(b) : c[k] = b[i])
    <2>1. CASE k <= Len(a)
      <3>1. k \in 1..Len(a)
        BY <1>3, <2>1
      <3>2. QED
        BY <1>1, <1>2, <2>1, <3>1
    <2>2. CASE ~ (k <= Len(a))
      <3>1. k - Len(a) \in 1..Len(b)
        BY <1>3, <2>2
      <3>2. QED
        BY <1>1, <1>2, <2>2, <3>1
    <2>3. QED
      BY <2>1, <2>2
  <1>7. ToSet(c) = ToSet(a) \cup ToSet(b)
    <2>1. ToSet(a) \subseteq ToSet(c)
      BY <1>3, <1>4 DEF ToSet
    <2>2. ToSet(b) \subseteq ToSet(c)
      BY <1>3, <1>5 DEF ToSet
    <2>3. ToSet(c) \subseteq ToSet(a) \cup ToSet(b)
      BY <1>3, <1>6 DEF ToSet
    <2>4. QED
      BY <2>1, <2>2, <2>3
  <1>8. QED
    BY <1>2, <1>7

(* A snapshot has what its text has. *)
LEMMA SnapshotHas ==
  ASSUME NEW K, Good(K), NEW d \in DocSet(K), NEW op \in OpsOver(K)
  PROVE  op \in ToSet(OpsOfRuns(d)) <=> Has(d, op)
  <1> DEFINE D == Seq(OpsOver(K))
             s == d.chars
             P(k) == \E j \in 1..k : op \in ToSet(OpsOf(d, s[j]))
  <1>1. s \in Seq(K) /\ Runs(d) = s
    BY DEF DocSet, Docs, Runs
  <1>2. \A e \in K : OpsOf(d, e) \in D
    <2>1. ASSUME NEW e \in K PROVE e \in OpsOver(K) /\ Del(e.id) \in OpsOver(K)
      BY OwnIds DEF OpsOver
    <2>2. QED
      BY <2>1 DEF OpsOf
  <1>3. \A x \in D, e \in K : (x \o OpsOf(d, e)) \in D
    <2> HIDE DEF D
    <2>1. ASSUME NEW x \in D, NEW e \in K PROVE (x \o OpsOf(d, e)) \in D
      <3>1. OpsOf(d, e) \in D
        BY <1>2
      <3>2. QED
        BY <3>1, ConcatProperties DEF D
    <2>2. QED
      BY <2>1
  <1>4. <<>> \in D
    BY EmptySeq
  <1> HIDE DEF D, s
  <1>5. PICK f \in [0..Len(s) -> D] : OpsRun(f, d, s)
    BY <1>1, <1>3, <1>4, OpsFold
  <1>6. Len(s) \in Nat /\ DOMAIN s = 1..Len(s)
    BY <1>1
  <1>7. f[0] = <<>> /\ OpsOfRuns(d) = f[Len(s)] /\ \A k \in 1..Len(s) : f[k] = (f[k - 1] \o OpsOf(d, s[k]))
    BY <1>1, <1>5 DEF OpsRun, OpsOfRuns
  <1>8. ASSUME NEW k \in 1..Len(s)
        PROVE  op \in ToSet(f[k]) <=> op \in ToSet(f[k - 1]) \/ op \in ToSet(OpsOf(d, s[k]))
    <2>1. k - 1 \in 0..Len(s) /\ s[k] \in K
      BY <1>1, <1>6
    <2>2. f[k - 1] \in D /\ OpsOf(d, s[k]) \in D
      BY <1>2, <1>5, <2>1
    <2>3. ToSet(f[k - 1] \o OpsOf(d, s[k])) = ToSet(f[k - 1]) \cup ToSet(OpsOf(d, s[k]))
      BY <2>2, SetOfBoth DEF D
    <2>4. QED
      BY <1>7, <2>3
  <1> DEFINE W == {k \in 0..Len(s) : op \in ToSet(f[k]) <=> P(k)}
  <1>9. 0 \in W
    <2>1. 1..0 = {} /\ 0 \in 0..Len(s)
      BY <1>6
    <2>2. QED
      BY <1>7, <2>1, SetOfNone
  <1>10. ASSUME NEW k \in 1..Len(s), k - 1 \in W PROVE k \in W
    <2>1. k \in 0..Len(s) /\ 1..k = 1..(k - 1) \cup {k}
      BY <1>6
    <2>2. P(k) <=> P(k - 1) \/ op \in ToSet(OpsOf(d, s[k]))
      BY <2>1
    <2>3. op \in ToSet(f[k - 1]) <=> P(k - 1)
      BY <1>10
    <2> HIDE DEF P
    <2>4. QED
      BY <1>8, <2>1, <2>2, <2>3
  <1> HIDE DEF W
  <1>11. Len(s) \in W
    <2>1. \A k \in 0..Len(s) : k \in W
      BY <1>6, <1>9, <1>10, CountUp
    <2>2. QED
      BY <1>6, <2>1
  <1>12. op \in ToSet(OpsOfRuns(d)) <=> P(Len(s))
    BY <1>7, <1>11 DEF W
  <1>13. ASSUME NEW e \in K
         PROVE  op \in ToSet(OpsOf(d, e)) <=> op = e \/ (e.id \in d.dead /\ op = Del(e.id))
    <2>1. CASE e.id \in d.dead
      <3>1. OpsOf(d, e) = <<e, Del(e.id)>>
        BY <2>1 DEF OpsOf
      <3>2. ToSet(<<e, Del(e.id)>>) = {e, Del(e.id)}
        BY DEF ToSet
      <3>3. QED
        BY <2>1, <3>1, <3>2
    <2>2. CASE e.id \notin d.dead
      <3>1. OpsOf(d, e) = <<e>>
        BY <2>2 DEF OpsOf
      <3>2. ToSet(<<e>>) = {e}
        BY DEF ToSet
      <3>3. QED
        BY <2>2, <3>1, <3>2
    <2>3. QED
      BY <2>1, <2>2
  <1>14. \A j \in 1..Len(s) : s[j] \in K /\ s[j].t = "i" /\ (op = Del(s[j].id) => op.t = "d" /\ op.id = s[j].id)
    <2>1. \A j \in 1..Len(s) : s[j] \in K
      BY <1>1, <1>6
    <2>2. \A e \in K : e.t = "i"
      BY DEF Good, Chars
    <2>3. QED
      BY <2>1, <2>2 DEF Del
  <1>15. (op.t = "i" /\ op \in K) \/ (op.t = "d" /\ op = Del(op.id))
    BY OpsAre
  <1>16. P(Len(s)) <=> \E j \in 1..Len(s) : op = s[j] \/ (s[j].id \in d.dead /\ op = Del(s[j].id))
    BY <1>13, <1>14
  <1> HIDE DEF P
  <1>17. CASE op.t = "i"
    <2>1. (\E j \in 1..Len(s) : op = s[j] \/ (s[j].id \in d.dead /\ op = Del(s[j].id)))
          <=> op \in ToSet(s)
      BY <1>6, <1>14, <1>17 DEF ToSet
    <2>2. QED
      BY <1>12, <1>16, <1>17, <2>1 DEF Has, s
  <1>18. CASE op.t = "d" /\ op = Del(op.id)
    <2>1. (\E j \in 1..Len(s) : op = s[j] \/ (s[j].id \in d.dead /\ op = Del(s[j].id)))
          <=> op.id \in d.dead /\ \E j \in 1..Len(s) : s[j].id = op.id
      BY <1>14, <1>18
    <2>2. (\E j \in 1..Len(s) : s[j].id = op.id) <=> op.id \in Ids(d)
      BY <1>6 DEF Ids, s
    <2>3. QED
      BY <1>12, <1>16, <1>18, <2>1, <2>2 DEF Has
  <1>19. QED
    BY <1>15, <1>17, <1>18

(* Opening applies everything whose predecessors are there too. *)
LEMMA LoadHas ==
  ASSUME NEW K, Good(K), NEW rs, IsFiniteSet(LoadedOf(rs)), LoadedOf(rs) \subseteq OpsOver(K),
         NEW C, C \subseteq LoadedOf(rs), C \subseteq K,
         \A c \in C : c.ref = Start \/ \E e \in C : e.id = c.ref
  PROVE  /\ Load(rs) \in DocSet(K)
         /\ C \subseteq ToSet(Load(rs).chars)
         /\ \A op \in LoadedOf(rs) : op.t # "i" => op.id \in Load(rs).dead
  <1> DEFINE ops == LoadedOf(rs)
  <1>1. PICK s : s = InOrder(ops)
    OBVIOUS
  <1>2. /\ s \in Seq(ops)
        /\ \A x \in ops : \E k \in 1..Len(s) : s[k] = x
        /\ \A i, j \in 1..Len(s) : Before(s[i], s[j]) => i < j
    <2> HIDE DEF ops
    <2>1. IsFiniteSet(ops) /\ ops \subseteq OpsOver(K)
      BY DEF ops
    <2>2. QED
      BY <1>1, <2>1, InOrderIs
  <1>3. Load(rs) = AppliedAll(Empty, s)
    BY <1>1 DEF Load, LoadedOf, AppliedAll
  <1> HIDE DEF ops
  <1>4. s \in Seq(OpsOver(K))
    BY <1>2, SeqMonotonic DEF ops
  <1>5. Empty \in DocSet(K)
    BY EmptyDoc
  <1>6. PICK f \in [0..Len(s) -> DocSet(K)] :
          /\ f[0] = Empty
          /\ \A k \in 1..Len(s) : f[k] = Apply(f[k - 1], s[k]) /\ Grew(f[k - 1], f[k])
          /\ \A k \in 0..Len(s) : Grew(Empty, f[k]) /\ Grew(f[k], f[Len(s)])
          /\ AppliedAll(Empty, s) = f[Len(s)]
    BY <1>4, <1>5, AllApplied
  <1>7. Len(s) \in Nat /\ DOMAIN s = 1..Len(s)
    BY <1>4
  <1> DEFINE W == {k \in 0..Len(s) : \A j \in 1..k : s[j] \in C => s[j] \in ToSet(f[k].chars)}
  <1>8. 0 \in W
    <2>1. 1..0 = {} /\ 0 \in 0..Len(s)
      BY <1>7
    <2>2. QED
      BY <2>1
  <1>9. ASSUME NEW k \in 1..Len(s), k - 1 \in W PROVE k \in W
    <2>1. k \in 0..Len(s) /\ k - 1 \in 0..Len(s) /\ 1..k = 1..(k - 1) \cup {k}
      BY <1>7
    <2>2. PICK d : d = f[k - 1]
      OBVIOUS
    <2>3. d \in DocSet(K) /\ f[k] = Apply(d, s[k]) /\ Grew(d, f[k]) /\ s[k] \in OpsOver(K)
      BY <1>4, <1>6, <1>7, <2>1, <2>2
    <2>4. ASSUME NEW j \in 1..(k - 1), s[j] \in C PROVE s[j] \in ToSet(d.chars)
      BY <1>9, <2>2, <2>4
    <2>5. ASSUME s[k] \in C PROVE s[k] \in ToSet(f[k].chars)
      <3>1. PICK c : c = s[k]
        OBVIOUS
      <3>2. c \in K /\ c.t = "i" /\ Grown(c)
        BY <2>5, <3>1 DEF Good, Chars
      <3>3. c.ref = Start \/ c.ref \in Ids(d)
        <4>1. CASE c.ref # Start
          <5>1. PICK e \in C : e.id = c.ref
            BY <2>5, <3>1, <4>1
          <5>2. PICK m \in 1..Len(s) : s[m] = e
            BY <1>2, <5>1 DEF ops
          <5>3. Before(s[m], s[k])
            BY <3>1, <3>2, <4>1, <5>1, <5>2 DEF Before, Grown
          <5>4. m < k
            BY <1>2, <5>3
          <5>5. m \in 1..(k - 1)
            BY <1>7, <5>4
          <5>6. e \in ToSet(d.chars)
            BY <2>4, <5>1, <5>2, <5>5
          <5>7. QED
            BY <5>1, <5>6, IdsOf
        <4>2. QED
          BY <4>1
      <3>4. c \in ToSet(Apply(d, c).chars)
        BY <2>3, <3>1, <3>2, <3>3, Applied
      <3>5. QED
        BY <2>3, <3>1, <3>4
    <2>6. ToSet(d.chars) \subseteq ToSet(f[k].chars)
      BY <2>3 DEF Grew
    <2>7. QED
      BY <2>1, <2>4, <2>5, <2>6
  <1> HIDE DEF W
  <1>10. Len(s) \in W
    <2>1. \A k \in 0..Len(s) : k \in W
      BY <1>7, <1>8, <1>9, CountUp
    <2>2. QED
      BY <1>7, <2>1
  <1>11. PICK t : t = f[Len(s)]
    OBVIOUS
  <1>12. Load(rs) = t /\ t \in DocSet(K)
    <2>1. Len(s) \in 0..Len(s)
      BY <1>7
    <2>2. QED
      BY <1>3, <1>6, <1>11, <2>1
  <1>13. C \subseteq ToSet(t.chars)
    <2>1. ASSUME NEW c \in C PROVE c \in ToSet(t.chars)
      <3>1. PICK j \in 1..Len(s) : s[j] = c
        BY <1>2 DEF ops
      <3>2. QED
        BY <1>10, <1>11, <3>1 DEF W
    <2>2. QED
      BY <2>1
  <1>14. ASSUME NEW op \in LoadedOf(rs), op.t # "i" PROVE op.id \in t.dead
    <2>1. PICK k \in 1..Len(s) : s[k] = op
      BY <1>2 DEF ops
    <2>2. k - 1 \in 0..Len(s) /\ k \in 0..Len(s)
      BY <1>7
    <2>3. PICK d : d = f[k - 1]
      OBVIOUS
    <2>4. d \in DocSet(K) /\ f[k] = Apply(d, op) /\ op \in OpsOver(K)
      BY <1>6, <2>1, <2>2, <2>3
    <2>5. op.id \in Apply(d, op).dead
      BY <1>14, <2>4, Applied
    <2>6. Grew(f[k], t)
      BY <1>6, <1>11, <2>2
    <2>7. QED
      BY <2>4, <2>5, <2>6 DEF Grew
  <1>15. QED
    BY <1>12, <1>13, <1>14

-----------------------------------------------------------------------------
(***************************************************************************)
(* Edits, deliveries and opening again keep Lossless.                      *)
(***************************************************************************)

LEMMA LoadedIn ==
  ASSUME NEW rs, Written(rs), Good(Inserts(FlushedOf(rs))), NEW H \in SUBSET rs
  PROVE  /\ IsFiniteSet(H) /\ IsFiniteSet(LoadedOf(H))
         /\ LoadedOf(H) \subseteq OpsOver(Inserts(FlushedOf(rs)))
         /\ Inserts(LoadedOf(H)) \subseteq Inserts(FlushedOf(rs))
  <1> DEFINE F == Inserts(FlushedOf(rs))
  <1>1. IsFiniteSet(H)
    BY FS_Subset DEF Written
  <1>2. \A r \in H : r.ops \in Seq(OpsOver(F))
    BY DEF Written
  <1> HIDE DEF F
  <1>3. IsFiniteSet(LoadedOf(H)) /\ LoadedOf(H) \subseteq OpsOver(F)
    BY <1>1, <1>2, LoadsAre
  <1>4. Inserts(LoadedOf(H)) \subseteq F
    <2>1. ASSUME NEW op \in Inserts(LoadedOf(H)) PROVE op \in F
      <3>1. op \in OpsOver(F) /\ op.t = "i" /\ Good(F)
        BY <1>3 DEF Inserts, F
      <3>2. QED
        BY <3>1, OpsAre
    <2>2. QED
      BY <2>1
  <1>5. QED
    BY <1>1, <1>3, <1>4 DEF F

LEMMA Parts ==
  ASSUME Kept, NEW d \in Device
  PROVE  /\ Written(recs) /\ IsFiniteSet(recs) /\ held[d] \in SUBSET recs
         /\ Good(Inserts(FlushedOf(recs))) /\ Good(AllOf(recs, queue))
         /\ Inserts(FlushedOf(recs)) \subseteq AllOf(recs, queue)
         /\ Inserts(ToSet(queue[d])) \subseteq AllOf(recs, queue)
         /\ Inserts(LoadedOf(held[d])) \subseteq Inserts(FlushedOf(recs))
         /\ Base(held[d], queue[d]) \subseteq AllOf(recs, queue)
         /\ Good(Base(held[d], queue[d]))
  <1>1. Written(recs) /\ IsFiniteSet(recs) /\ held[d] \in SUBSET recs /\ Good(AllOf(recs, queue))
    BY DEF Kept, KeptBy, Written
  <1>2. /\ Inserts(FlushedOf(recs)) \subseteq AllOf(recs, queue)
        /\ Inserts(ToSet(queue[d])) \subseteq AllOf(recs, queue)
    BY DEF AllOf, Inserts
  <1>3. Good(Inserts(FlushedOf(recs)))
    BY <1>1, <1>2, GoodPart
  <1>4. Inserts(LoadedOf(held[d])) \subseteq Inserts(FlushedOf(recs))
    BY <1>1, <1>3, LoadedIn
  <1>5. Base(held[d], queue[d]) = Inserts(LoadedOf(held[d])) \cup Inserts(ToSet(queue[d]))
    BY DEF Base, Inserts
  <1>6. Base(held[d], queue[d]) \subseteq AllOf(recs, queue)
    BY <1>2, <1>4, <1>5
  <1>7. Good(Base(held[d], queue[d]))
    BY <1>1, <1>6, GoodPart
  <1>8. QED
    BY <1>1, <1>2, <1>3, <1>4, <1>6, <1>7

(* The state a device's text moves to with its text and its queue. *)
LEMMA SoundMoves ==
  ASSUME NEW rs, NEW H, NEW G, NEW D, NEW E, NEW Q, NEW P, NEW d,
         Sound(rs, H, D, Q, d), Complete(rs, G), Grew(D, E),
         E \in DocSet(Base(G, P)), \A op \in ToSet(P) : Has(E, op) \/ op \in ToSet(Q)
  PROVE  Sound(rs, G, E, P, d)
  <1>1. \A op \in ToSet(P) : Has(E, op)
    BY HasGrows DEF Sound
  <1>2. \A r \in rs : r.by = d => \A op \in ToSet(r.ops) : Has(E, op)
    BY HasGrows DEF Sound
  <1>3. QED
    BY <1>1, <1>2 DEF Sound

LEMMA EditLossless ==
  ASSUME Kept, LosslessBy(recs, held, doc, queue, own, dropping), NEW d \in Device, NEW op, NEW dc, NEW q,
         dc = [doc EXCEPT ![d] = Apply(doc[d], op)],
         q = [queue EXCEPT ![d] = Append(queue[d], op)],
         Good(AllOf(recs, queue) \cup Inserts({op})),
         op \in OpsOver(Base(held[d], queue[d]) \cup Inserts({op})),
         Inserts({op}) \cap AllOf(recs, queue) = {},
         Has(dc[d], op)
  PROVE  LosslessBy(recs, held, dc, q, own, dropping)
  <1>1. DOMAIN doc = Device /\ DOMAIN queue = Device /\ queue[d] \in Seq(OpsOver(LocalOf(recs, queue, d)))
    BY DEF Kept, KeptBy
  <1>2. /\ dc[d] = Apply(doc[d], op) /\ q[d] = Append(queue[d], op)
        /\ \A e \in Device \ {d} : dc[e] = doc[e] /\ q[e] = queue[e]
    BY <1>1
  <1>3. ToSet(q[d]) = ToSet(queue[d]) \cup {op}
    BY <1>1, <1>2, SetOfAppended
  <1>4. Base(held[d], q[d]) = Base(held[d], queue[d]) \cup Inserts({op})
    BY <1>3 DEF Base, Inserts
  <1> DEFINE K == Base(held[d], queue[d])
             L == K \cup Inserts({op})
  <1>5. Good(L)
    <2>1. L \subseteq AllOf(recs, queue) \cup Inserts({op})
      BY Parts
    <2> HIDE DEF L
    <2>2. QED
      BY <2>1, GoodPart
  <1>6. Sound(recs, held[d], doc[d], queue[d], d)
    BY DEF LosslessBy
  <1>7. doc[d] \in DocSet(L)
    <2>1. doc[d] \in DocSet(K) /\ K \subseteq L
      BY <1>6 DEF Sound
    <2> HIDE DEF K, L
    <2>2. QED
      BY <2>1, DocSetGrows
  <1>8. op \in OpsOver(L)
    OBVIOUS
  <1>9. dc[d] \in DocSet(L) /\ Grew(doc[d], dc[d])
    <2> HIDE DEF L
    <2>1. QED
      BY <1>2, <1>5, <1>7, <1>8, Applied
  <1>10. Sound(recs, held[d], dc[d], q[d], d)
    <2>1. Complete(recs, held[d])
      BY <1>6 DEF Sound
    <2>2. dc[d] \in DocSet(Base(held[d], q[d]))
      BY <1>4, <1>9
    <2>3. \A x \in ToSet(q[d]) : Has(dc[d], x) \/ x \in ToSet(queue[d])
      BY <1>3
    <2> HIDE DEF L
    <2>4. QED
      BY <1>6, <1>9, <2>1, <2>2, <2>3, SoundMoves
  <1>11. ASSUME NEW e \in Device PROVE Sound(recs, held[e], dc[e], q[e], e) /\ Owned(recs, own[e], dropping[e], e)
    BY <1>2, <1>10 DEF LosslessBy
  <1>12. Apart(recs, q)
    <2>1. /\ Inserts(FlushedOf(recs)) \subseteq AllOf(recs, queue)
          /\ \A e \in Device : Inserts(ToSet(queue[e])) \subseteq AllOf(recs, queue)
      BY Parts
    <2>2. Apart(recs, queue)
      BY DEF LosslessBy
    <2>3. ASSUME NEW e \in Device PROVE Inserts(ToSet(q[e])) \cap FlushedOf(recs) = {}
      <3>1. CASE e = d
        BY <1>3, <2>1, <2>2, <3>1 DEF Apart, Inserts
      <3>2. CASE e # d
        BY <1>2, <2>2, <3>2 DEF Apart
      <3>3. QED
        BY <3>1, <3>2
    <2>4. ASSUME NEW e \in Device, NEW f \in Device, e # f PROVE Inserts(ToSet(q[e])) \cap ToSet(q[f]) = {}
      <3>1. Inserts(ToSet(queue[e])) \cap ToSet(queue[f]) = {}
        BY <2>2, <2>4 DEF Apart
      <3>2. CASE e = d
        <4>1. q[f] = queue[f]
          BY <1>2, <2>4, <3>2
        <4>2. Inserts({op}) \cap ToSet(queue[f]) = {}
          BY <2>1 DEF Inserts
        <4>3. QED
          BY <1>3, <3>1, <3>2, <4>1, <4>2 DEF Inserts
      <3>3. CASE f = d
        <4>1. q[e] = queue[e]
          BY <1>2, <2>4, <3>3
        <4>2. op \notin Inserts(ToSet(queue[e]))
          BY <2>1 DEF Inserts
        <4>3. QED
          BY <1>3, <3>1, <3>3, <4>1, <4>2
      <3>4. CASE e # d /\ f # d
        BY <1>2, <3>1, <3>4
      <3>5. QED
        BY <3>2, <3>3, <3>4
    <2>5. QED
      BY <2>3, <2>4 DEF Apart
  <1>13. QED
    BY <1>11, <1>12 DEF LosslessBy

LEMMA DeliverLossless ==
  ASSUME OneDeviceEach, Kept, LosslessBy(recs, held, doc, queue, own, dropping),
         NEW d \in Device, NEW r \in recs, NEW h, NEW dc,
         h = [held EXCEPT ![d] = held[d] \cup {r}],
         r.t = "drop" => \A s \in recs : Snapped(s, r.by) /\ s.h < r.h => s \in held[d],
         \/ dc = doc
         \/ \E s : /\ s = InCounterOrder(r.ops) \/ s = r.ops
                   /\ dc = [doc EXCEPT ![d] = AppliedAll(doc[d], s)]
  PROVE  LosslessBy(recs, h, dc, queue, own, dropping)
  <1>1. DOMAIN held = Device /\ DOMAIN doc = Device
    BY DEF Kept, KeptBy
  <1>2. h[d] = held[d] \cup {r} /\ \A e \in Device \ {d} : h[e] = held[e]
    BY <1>1
  <1>3. /\ Numbered(recs, held) /\ Covered(recs)
        /\ \A e \in Device : Sound(recs, held[e], doc[e], queue[e], e)
    BY DEF LosslessBy
  <1>4. Numbered(recs, h)
    <2>1. \A e \in Device : held[e] \subseteq h[e]
      BY <1>2
    <2>2. QED
      BY <1>3, <2>1 DEF Numbered
  <1>5. Complete(recs, h[d])
    <2>1. Complete(recs, held[d])
      BY <1>3 DEF Sound
    <2>2. QED
      BY <1>2, <2>1 DEF Complete
  <1>6. held[d] \in SUBSET recs /\ h[d] \in SUBSET recs /\ IsFiniteSet(recs) /\ Written(recs)
        /\ Good(Inserts(FlushedOf(recs)))
    BY <1>2, Parts
  <1>7. LoadedOf(held[d]) \subseteq LoadedOf(h[d]) /\ ToSet(r.ops) \subseteq LoadedOf(h[d])
    <2>1. held[d] \subseteq h[d] /\ r \in h[d]
      BY <1>2
    <2>2. LoadedOf(held[d]) \subseteq LoadedOf(h[d])
      BY <1>3, <1>5, <1>6, <2>1, ReachesMore
    <2>3. ToSet(r.ops) \subseteq LoadedOf(h[d])
      BY <1>3, <1>5, <1>6, <2>1, Reaches
    <2>4. QED
      BY <2>2, <2>3
  <1> DEFINE K == Base(held[d], queue[d])
             L == Base(h[d], queue[d])
             F == Inserts(FlushedOf(recs))
  <1>8. K \subseteq L /\ L \subseteq AllOf(recs, queue)
    <2>1. Inserts(LoadedOf(h[d])) \subseteq F
      BY <1>6, LoadedIn
    <2>2. L = Inserts(LoadedOf(h[d])) \cup Inserts(ToSet(queue[d]))
      BY DEF Base, Inserts
    <2>3. F \subseteq AllOf(recs, queue) /\ Inserts(ToSet(queue[d])) \subseteq AllOf(recs, queue)
      BY Parts
    <2>4. K \subseteq L
      BY <1>7 DEF Base, Inserts
    <2> HIDE DEF F, L
    <2>5. QED
      BY <2>1, <2>2, <2>3, <2>4
  <1>9. doc[d] \in DocSet(K)
    BY <1>3 DEF Sound
  <1>10. r.ops \in Seq(OpsOver(F)) /\ Inserts(ToSet(r.ops)) \subseteq L
    <2>1. r.ops \in Seq(OpsOver(F))
      BY <1>6 DEF Written
    <2>2. Inserts(ToSet(r.ops)) \subseteq L
      BY <1>7 DEF Base, Inserts
    <2>3. QED
      BY <2>1, <2>2
  <1>11. Good(AllOf(recs, queue)) /\ Good(F)
    BY <1>6, Parts
  <1> HIDE DEF K, L, F
  <1>12. Good(L) /\ doc[d] \in DocSet(L)
    BY <1>8, <1>9, <1>11, GoodPart, DocSetGrows
  <1>13. r.ops \in Seq(OpsOver(L))
    <2>1. ASSUME NEW x \in ToSet(r.ops) PROVE x \in OpsOver(L)
      <3>1. x \in OpsOver(F)
        BY <1>10, ElementsFinite
      <3>2. x.id \in Id /\ ((x.t = "i" /\ x \in F) \/ (x.t = "d" /\ x = Del(x.id)))
        BY <1>11, <3>1, OpsAre
      <3>3. x.t = "i" => x \in L
        BY <1>10 DEF Inserts
      <3>4. QED
        BY <3>2, <3>3 DEF OpsOver
    <2>2. ToSet(r.ops) \subseteq OpsOver(L)
      BY <2>1
    <2>3. QED
      BY <1>10, <2>2, SeqOver
  <1>14. dc[d] \in DocSet(L) /\ Grew(doc[d], dc[d]) /\ \A e \in Device \ {d} : dc[e] = doc[e]
    <2>1. CASE dc = doc
      <3>1. doc[d] \in Docs(L)
        BY <1>12 DEF DocSet
      <3>2. Grew(doc[d], doc[d])
        BY <3>1, Growing
      <3>3. QED
        BY <1>12, <2>1, <3>2
    <2>2. ASSUME NEW s, s = InCounterOrder(r.ops) \/ s = r.ops, dc = [doc EXCEPT ![d] = AppliedAll(doc[d], s)]
          PROVE  dc[d] \in DocSet(L) /\ Grew(doc[d], dc[d]) /\ \A e \in Device \ {d} : dc[e] = doc[e]
      <3>1. s \in Seq(OpsOver(L))
        BY <1>12, <1>13, <2>2, InCounterOrderIs
      <3>2. AppliedAll(doc[d], s) \in DocSet(L) /\ Grew(doc[d], AppliedAll(doc[d], s))
        BY <1>12, <3>1, Folded
      <3>3. QED
        BY <1>1, <2>2, <3>2
    <2>3. QED
      BY <2>1, <2>2
  <1>15. Sound(recs, h[d], dc[d], queue[d], d)
    <2>1. dc[d] \in DocSet(Base(h[d], queue[d]))
      BY <1>14 DEF L
    <2>2. Sound(recs, held[d], doc[d], queue[d], d)
      BY <1>3
    <2>3. \A op \in ToSet(queue[d]) : Has(dc[d], op) \/ op \in ToSet(queue[d])
      OBVIOUS
    <2>4. QED
      BY <1>5, <1>14, <2>1, <2>2, <2>3, SoundMoves
  <1>16. ASSUME NEW e \in Device PROVE Sound(recs, h[e], dc[e], queue[e], e) /\ Owned(recs, own[e], dropping[e], e)
    BY <1>2, <1>14, <1>15 DEF LosslessBy
  <1>17. QED
    BY <1>4, <1>16 DEF LosslessBy

LEMMA ReopenLossless ==
  ASSUME OneDeviceEach, Kept, LosslessBy(recs, held, doc, queue, own, dropping),
         NEW d \in Device, NEW dc, NEW q, NEW ow, NEW dr,
         dc = [doc EXCEPT ![d] = Load(held[d])],
         q = [queue EXCEPT ![d] = <<>>],
         ow = [own EXCEPT ![d] = {r.h : r \in {b \in Batches(held[d]) : AuthorOf[b.by] = AuthorOf[d]}}],
         dr = [dropping EXCEPT ![d] = {}]
  PROVE  LosslessBy(recs, held, dc, q, ow, dr)
  <1>1. DOMAIN queue = Device /\ DOMAIN doc = Device /\ DOMAIN own = Device /\ DOMAIN dropping = Device
    BY DEF Kept, KeptBy, LosslessBy
  <1>2. /\ dc[d] = Load(held[d]) /\ q[d] = <<>> /\ dr[d] = {}
        /\ ow[d] = {r.h : r \in {b \in Batches(held[d]) : AuthorOf[b.by] = AuthorOf[d]}}
        /\ \A e \in Device \ {d} : /\ dc[e] = doc[e] /\ q[e] = queue[e]
                                   /\ ow[e] = own[e] /\ dr[e] = dropping[e]
        /\ DOMAIN ow = Device /\ DOMAIN dr = Device
    BY <1>1
  <1>3. /\ Numbered(recs, held) /\ Covered(recs) /\ Closed(recs) /\ Apart(recs, queue)
        /\ Sound(recs, held[d], doc[d], queue[d], d)
    BY DEF LosslessBy
  <1>4. ToSet(q[d]) = {}
    BY <1>2, SetOfNone
  <1> DEFINE F == Inserts(FlushedOf(recs))
             H == held[d]
             K == Inserts(LoadedOf(H))
             C == ToSet(doc[d].chars) \cap F
  <1>5. /\ Written(recs) /\ IsFiniteSet(recs) /\ H \in SUBSET recs
        /\ Good(F) /\ Good(AllOf(recs, queue)) /\ F \subseteq AllOf(recs, queue)
        /\ K \subseteq F
        /\ Base(H, queue[d]) \subseteq AllOf(recs, queue)
    BY Parts
  <1>6. Complete(recs, H) /\ doc[d] \in DocSet(Base(H, queue[d]))
    BY <1>3 DEF Sound
  <1>7. /\ ToSet(doc[d].chars) \subseteq Base(H, queue[d])
        /\ \A c \in ToSet(doc[d].chars) : c.ref = Start \/ \E e \in ToSet(doc[d].chars) : e.id = c.ref
    <2> HIDE DEF H
    <2>1. QED
      BY <1>6, CharsOf
  <1>8. C \subseteq K
    <2>1. Inserts(ToSet(queue[d])) \cap FlushedOf(recs) = {}
      BY <1>3 DEF Apart
    <2>2. Base(H, queue[d]) = K \cup Inserts(ToSet(queue[d]))
      BY DEF Base, Inserts
    <2>3. QED
      BY <1>7, <2>1, <2>2 DEF Inserts
  \* a character of the text with a flushed one's id is that one
  <1>9. ASSUME NEW c \in ToSet(doc[d].chars), NEW e \in F, c.id = e.id PROVE c \in C
    <2>1. c \in AllOf(recs, queue) /\ e \in AllOf(recs, queue)
      BY <1>5, <1>7
    <2>2. c = e
      BY <1>5, <1>9, <2>1 DEF Good
    <2>3. QED
      BY <2>2
  <1>10. ASSUME NEW c \in C PROVE c.ref = Start \/ \E e \in C : e.id = c.ref
    <2>1. CASE c.ref # Start
      <3>1. PICK e \in ToSet(doc[d].chars) : e.id = c.ref
        BY <1>7, <2>1
      <3>2. PICK x \in F : x.id = c.ref
        BY <1>3, <2>1 DEF Closed
      <3>3. e \in C
        BY <1>9, <3>1, <3>2
      <3>4. QED
        BY <3>1, <3>3
    <2>2. QED
      BY <2>1
  <1>11. Good(K) /\ IsFiniteSet(LoadedOf(H)) /\ LoadedOf(H) \subseteq OpsOver(K) /\ K \subseteq LoadedOf(H)
    <2>1. IsFiniteSet(LoadedOf(H)) /\ LoadedOf(H) \subseteq OpsOver(F)
      <3> HIDE DEF H
      <3>1. QED
        BY <1>5, LoadedIn
    <2>2. ASSUME NEW x \in LoadedOf(H) PROVE x \in OpsOver(K)
      <3>1. x \in OpsOver(F) /\ Good(F)
        BY <1>5, <2>1
      <3> HIDE DEF F, H
      <3>2. x.id \in Id /\ ((x.t = "i" /\ x \in F) \/ (x.t = "d" /\ x = Del(x.id)))
        BY <3>1, OpsAre
      <3>3. QED
        BY <3>2 DEF OpsOver, Inserts
    <2>3. Good(K)
      <3> HIDE DEF F, K
      <3>1. QED
        BY <1>5, GoodPart
    <2>4. QED
      BY <2>1, <2>2, <2>3 DEF Inserts
  <1>12. /\ Load(H) \in DocSet(K)
         /\ C \subseteq ToSet(Load(H).chars)
         /\ \A op \in LoadedOf(H) : op.t # "i" => op.id \in Load(H).dead
    <2>1. C \subseteq LoadedOf(H)
      BY <1>8, <1>11
    <2> HIDE DEF C, K, H
    <2>2. QED
      BY <1>8, <1>10, <1>11, <2>1, LoadHas
  <1>13. dc[d] \in DocSet(Base(H, q[d]))
    <2>1. Base(H, q[d]) = K
      BY <1>4 DEF Base
    <2>2. QED
      BY <1>2, <1>12, <2>1
  <1>14. ASSUME NEW r \in recs, r.by = d, NEW op \in ToSet(r.ops) PROVE Has(dc[d], op)
    <2>1. Has(doc[d], op)
      BY <1>3, <1>14 DEF Sound
    <2>2. PICK x : x = Load(H)
      OBVIOUS
    <2>3. dc[d] = x
      BY <1>2, <2>2
    <2>4. r.ops \in Seq(OpsOver(F))
      BY <1>5 DEF Written
    <2>5. op \in OpsOver(F)
      <3> HIDE DEF F
      <3>1. QED
        BY <2>4, ElementsFinite
    <2>6. CASE op.t = "i"
      <3>1. op \in F
        <4> HIDE DEF F
        <4>1. QED
          BY <1>5, <2>5, <2>6, OpsAre
      <3>2. op \in C
        BY <2>1, <2>6, <3>1 DEF Has
      <3>3. op \in ToSet(x.chars)
        BY <1>12, <2>2, <3>2
      <3>4. QED
        BY <2>3, <2>6, <3>3 DEF Has
    <2>7. CASE op.t # "i"
      <3>1. r \in H
        BY <1>3, <1>14 DEF Numbered
      <3>2. op \in LoadedOf(H)
        <4>1. ToSet(r.ops) \subseteq LoadedOf(H)
          <5> HIDE DEF H
          <5>1. QED
            BY <1>3, <1>5, <1>6, <3>1, Reaches
        <4>2. QED
          BY <4>1
      <3>3. op.id \in x.dead
        BY <1>12, <2>2, <2>7, <3>2
      <3>4. PICK c \in ToSet(doc[d].chars) : c.id = op.id
        BY <2>1, <2>7, IdsOf DEF Has
      <3>5. PICK e \in F : e.id = op.id
        BY <1>3, <2>7 DEF Closed
      <3>6. c \in C
        BY <1>9, <3>4, <3>5
      <3>7. c \in ToSet(x.chars)
        BY <1>12, <2>2, <3>6
      <3>8. op.id \in Ids(x)
        BY <3>4, <3>7, IdsOf
      <3>9. QED
        BY <2>3, <2>7, <3>3, <3>8 DEF Has
    <2>8. QED
      BY <2>6, <2>7
  <1>15. Sound(recs, held[d], dc[d], q[d], d)
    BY <1>4, <1>6, <1>13, <1>14 DEF Sound
  <1>16. Owned(recs, ow[d], dr[d], d)
    <2>1. ow[d] \subseteq 1..Cardinality(recs)
      <3>1. \A b \in Batches(held[d]) : b \in recs
        BY <1>5 DEF Batches
      <3>2. QED
        BY <1>2, <1>3, <3>1 DEF Numbered
    <2>2. ASSUME NEW b \in recs, b.t = "batch", b.h \in ow[d] PROVE b.by = d
      <3>1. PICK r \in Batches(held[d]) : AuthorOf[r.by] = AuthorOf[d] /\ r.h = b.h
        BY <1>2, <2>2
      <3>2. r \in recs
        BY <1>5 DEF Batches
      <3>3. r = b /\ b.by \in Device
        BY <1>3, <3>1, <3>2 DEF Numbered
      <3>4. QED
        BY <3>1, <3>3 DEF OneDeviceEach
    <2>3. QED
      BY <1>2, <2>1, <2>2 DEF Owned
  <1>17. Apart(recs, q)
    <2>1. \A e \in Device : ToSet(q[e]) \subseteq ToSet(queue[e])
      BY <1>2, <1>4
    <2>2. \A e \in Device : Inserts(ToSet(q[e])) \subseteq Inserts(ToSet(queue[e]))
      BY <2>1 DEF Inserts
    <2>3. ASSUME NEW e \in Device, NEW f \in Device, e # f PROVE Inserts(ToSet(q[e])) \cap ToSet(q[f]) = {}
      <3>1. Inserts(ToSet(queue[e])) \cap ToSet(queue[f]) = {}
        BY <1>3, <2>3 DEF Apart
      <3>2. QED
        BY <2>1, <2>2, <3>1
    <2>4. ASSUME NEW e \in Device PROVE Inserts(ToSet(q[e])) \cap FlushedOf(recs) = {}
      <3>1. Inserts(ToSet(queue[e])) \cap FlushedOf(recs) = {}
        BY <1>3 DEF Apart
      <3>2. QED
        BY <2>2, <3>1
    <2>5. QED
      BY <2>3, <2>4 DEF Apart
  <1>18. ASSUME NEW e \in Device PROVE Sound(recs, held[e], dc[e], q[e], e) /\ Owned(recs, ow[e], dr[e], e)
    BY <1>2, <1>15, <1>16 DEF LosslessBy
  <1>19. QED
    BY <1>2, <1>3, <1>17, <1>18 DEF LosslessBy

-----------------------------------------------------------------------------
(***************************************************************************)
(* Flushing, and compacting: the snapshot, then the drop list.             *)
(***************************************************************************)

(* What every written record has to bring along. *)
Fits(rs, r, d) ==
  /\ r.by = d /\ r.h = Cardinality(rs) + 1
  /\ r.targets \subseteq 1..Cardinality(rs)
  /\ \/ r.t \in {"batch", "snap"} /\ r.targets = {}
     \/ r.t = "drop" /\ r.ops = <<>>
  /\ r.t = "snap" => \A s \in rs : s.by = d => ToSet(s.ops) \subseteq ToSet(r.ops)
  /\ r.t = "drop" => \A b \in rs : b.t = "batch" /\ b.h \in r.targets =>
       \E s \in rs : Snapped(s, d) /\ ToSet(b.ops) \subseteq ToSet(s.ops)

LEMMA WrittenNumbered ==
  ASSUME NEW rs, IsFiniteSet(rs), NEW h, Numbered(rs, h), Covered(rs), NEW d \in Device,
         NEW r, Fits(rs, r, d), NEW x, rs \subseteq x, r \in x, x \subseteq rs \cup {r},
         NEW g, r \in g[d], \A e \in Device : h[e] \subseteq g[e]
  PROVE  /\ r \notin rs /\ Cardinality(x) = Cardinality(rs) + 1 /\ Cardinality(rs) \in Nat
         /\ \A s \in rs : s.h \in 1..Cardinality(rs) /\ s.h < r.h /\ s.by \in Device /\ s \in h[s.by]
                          /\ s.targets \subseteq 1..Cardinality(rs)
         /\ Numbered(x, g) /\ Covered(x) /\ IsFiniteSet(x)
  <1> DEFINE n == Cardinality(rs)
  <1>1. n \in Nat
    BY FS_CardinalityType
  <1>2. \A s \in rs : /\ s.by \in Device /\ s.h \in 1..n /\ s \in h[s.by]
                      /\ s.targets \subseteq 1..n
                      /\ \/ s.t \in {"batch", "snap"} /\ s.targets = {}
                         \/ s.t = "drop" /\ s.ops = <<>>
    BY DEF Numbered
  <1>3. \A s, u \in rs : s.h = u.h => s = u
    BY DEF Numbered
  <1>4. /\ r.by = d /\ r.h = n + 1 /\ r.targets \subseteq 1..n
        /\ \/ r.t \in {"batch", "snap"} /\ r.targets = {}
           \/ r.t = "drop" /\ r.ops = <<>>
    BY DEF Fits
  <1> HIDE DEF n
  <1>5. \A s \in rs : s.h < r.h /\ s.h # r.h
    BY <1>1, <1>2, <1>4
  <1>6. r \notin rs
    BY <1>5
  <1>7. Cardinality(x) = n + 1 /\ IsFiniteSet(x)
    <2>1. x = rs \cup {r}
      OBVIOUS
    <2>2. QED
      BY <1>6, <2>1, FS_AddElement DEF n
  <1>8. 1..n \subseteq 1..(n + 1) /\ n + 1 \in 1..(n + 1)
    BY <1>1
  <1>9. r \in g[d] /\ \A e \in Device : h[e] \subseteq g[e]
    OBVIOUS
  <1>10. Numbered(x, g)
    <2>1. ASSUME NEW s \in x
          PROVE  /\ s.by \in Device /\ s.h \in 1..(n + 1) /\ s \in g[s.by]
                 /\ s.targets \subseteq 1..(n + 1)
                 /\ \/ s.t \in {"batch", "snap"} /\ s.targets = {}
                    \/ s.t = "drop" /\ s.ops = <<>>
      <3>1. CASE s \in rs
        BY <1>2, <1>8, <1>9, <3>1
      <3>2. CASE s = r
        BY <1>4, <1>8, <1>9, <3>2
      <3>3. QED
        BY <3>1, <3>2
    <2>2. \A s, u \in x : s.h = u.h => s = u
      BY <1>3, <1>5
    <2>3. QED
      BY <1>7, <2>1, <2>2 DEF Numbered
  <1>11. ASSUME NEW s \in x, NEW u \in x, s.t = "snap", Snapped(u, s.by), s.h <= u.h
         PROVE  ToSet(s.ops) \subseteq ToSet(u.ops)
    <2>1. CASE s \in rs /\ u \in rs
      BY <1>11, <2>1 DEF Covered
    <2>2. CASE s \in rs /\ u = r
      BY <1>11, <2>2 DEF Fits, Snapped
    <2>3. CASE s = r /\ u \in rs
      <3>1. r.h <= u.h /\ u.h < r.h /\ u.h \in Nat /\ r.h \in Nat
        BY <1>1, <1>2, <1>4, <1>5, <1>11, <2>3
      <3>2. QED
        BY <3>1
    <2>4. CASE s = r /\ u = r
      BY <2>4
    <2>5. QED
      BY <2>1, <2>2, <2>3, <2>4
  <1>12. ASSUME NEW s \in x, NEW b \in x, s.t = "drop", b.t = "batch", b.h \in s.targets
         PROVE  \E u \in x : Snapped(u, s.by) /\ u.h < s.h /\ ToSet(b.ops) \subseteq ToSet(u.ops)
    <2>1. b \in rs
      <3>1. b.h \in 1..n
        BY <1>2, <1>4, <1>12
      <3>2. b.h # r.h
        BY <1>1, <1>4, <3>1
      <3>3. QED
        BY <3>2
    <2>2. CASE s \in rs
      <3>1. PICK u \in rs : Snapped(u, s.by) /\ u.h < s.h /\ ToSet(b.ops) \subseteq ToSet(u.ops)
        BY <1>12, <2>1, <2>2 DEF Covered
      <3>2. QED
        BY <3>1
    <2>3. CASE s = r
      <3>1. PICK u \in rs : Snapped(u, d) /\ ToSet(b.ops) \subseteq ToSet(u.ops)
        BY <1>12, <2>1, <2>3 DEF Fits
      <3>2. QED
        BY <1>4, <1>5, <2>3, <3>1
    <2>4. QED
      BY <2>2, <2>3
  <1>13. Covered(x)
    <2>1. \A s, u \in x : s.t = "snap" /\ Snapped(u, s.by) /\ s.h <= u.h => ToSet(s.ops) \subseteq ToSet(u.ops)
      BY <1>11
    <2>2. \A s, b \in x : s.t = "drop" /\ b.t = "batch" /\ b.h \in s.targets =>
            \E u \in x : Snapped(u, s.by) /\ u.h < s.h /\ ToSet(b.ops) \subseteq ToSet(u.ops)
      BY <1>12
    <2>3. QED
      BY <2>1, <2>2 DEF Covered
  <1>14. QED
    BY <1>1, <1>2, <1>5, <1>6, <1>7, <1>10, <1>13 DEF n

LEMMA WrittenComplete ==
  ASSUME NEW rs, NEW h, Numbered(rs, h), NEW H \in SUBSET rs, Complete(rs, H), NEW r, r \notin rs,
         NEW d, r.by = d,
         \A s \in rs : s.h < r.h /\ s.h \in Nat /\ s \in h[s.by], r.h \in Nat
  PROVE  Complete(rs \cup {r}, H) /\ (H = h[d] => Complete(rs \cup {r}, H \cup {r}))
  <1>1. ASSUME NEW x \in H, NEW s \in rs \cup {r}, x.t = "drop", Snapped(s, x.by), s.h < x.h PROVE s \in H
    <2>1. CASE s \in rs
      BY <1>1, <2>1 DEF Complete
    <2>2. CASE s = r
      <3>1. x \in rs
        OBVIOUS
      <3>2. x.h < r.h /\ x.h \in Nat
        BY <3>1
      <3>3. QED
        BY <1>1, <2>2, <3>2
    <2>3. QED
      BY <2>1, <2>2
  <1>2. ASSUME H = h[d], NEW s \in rs \cup {r}, Snapped(s, d), s.h < r.h PROVE s \in H
    <2>1. s # r
      BY <1>2
    <2>2. s \in rs
      BY <2>1
    <2>3. QED
      BY <1>2, <2>2 DEF Snapped
  <1>3. Complete(rs \cup {r}, H)
    BY <1>1 DEF Complete
  <1>4. ASSUME H = h[d], NEW x \in H \cup {r}, NEW s \in rs \cup {r}, x.t = "drop", Snapped(s, x.by), s.h < x.h
        PROVE  s \in H \cup {r}
    <2>1. CASE x \in H
      BY <1>1, <1>4, <2>1
    <2>2. CASE x = r
      BY <1>2, <1>4, <2>2
    <2>3. QED
      BY <2>1, <2>2
  <1>5. H = h[d] => Complete(rs \cup {r}, H \cup {r})
    BY <1>4 DEF Complete
  <1>6. QED
    BY <1>3, <1>5

(* A record that fits keeps what the records say of each other. *)
LEMMA WrittenLossless ==
  ASSUME OneDeviceEach, Kept, LosslessBy(recs, held, doc, queue, own, dropping),
         NEW d \in Device, NEW r, NEW rs, NEW h, NEW q, NEW ow, NEW dr,
         recs \subseteq rs, r \in rs, rs \subseteq recs \cup {r},
         h[d] = held[d] \cup {r}, \A e \in Device \ {d} : h[e] = held[e],
         DOMAIN ow = Device, DOMAIN dr = Device,
         \A e \in Device \ {d} : ow[e] = own[e] /\ dr[e] = dropping[e],
         Owned(rs, ow[d], dr[d], d),
         Fits(recs, r, d), \A op \in ToSet(r.ops) : Has(doc[d], op),
         \/ r.t = "batch" /\ r.ops = queue[d] /\ q = [queue EXCEPT ![d] = <<>>]
         \/ r.t # "batch" /\ q = queue /\ (r.ops = <<>> \/ queue[d] = <<>>)
  PROVE  LosslessBy(rs, h, doc, q, ow, dr)
  <1>1. DOMAIN held = Device /\ DOMAIN queue = Device /\ IsFiniteSet(recs)
    BY DEF Kept, KeptBy, Written
  <1>2. /\ Numbered(recs, held) /\ Covered(recs) /\ Closed(recs) /\ Apart(recs, queue)
        /\ \A e \in Device : Sound(recs, held[e], doc[e], queue[e], e) /\ Owned(recs, own[e], dropping[e], e)
    BY DEF LosslessBy
  <1>3. /\ r \notin recs /\ Cardinality(rs) = Cardinality(recs) + 1 /\ Cardinality(recs) \in Nat
        /\ \A s \in recs : s.h \in 1..Cardinality(recs) /\ s.h < r.h /\ s.by \in Device /\ s \in held[s.by]
                           /\ s.targets \subseteq 1..Cardinality(recs)
        /\ Numbered(rs, h) /\ Covered(rs) /\ IsFiniteSet(rs)
    <2>1. Numbered(recs, held) /\ Covered(recs) /\ IsFiniteSet(recs)
      BY <1>1, <1>2
    <2>2. /\ r \in h[d] /\ \A e \in Device : held[e] \subseteq h[e]
          /\ recs \subseteq rs /\ r \in rs /\ rs \subseteq recs \cup {r}
      BY <1>1
    <2>3. QED
      BY <2>1, <2>2, WrittenNumbered
  <1>4. r.by = d /\ r.h = Cardinality(recs) + 1
    BY DEF Fits
  <1>5. /\ h[d] = held[d] \cup {r} /\ \A e \in Device \ {d} : h[e] = held[e]
        /\ \A e \in Device : held[e] \in SUBSET recs
    BY <1>1, Parts
  <1>6. \A e \in Device : Complete(recs, held[e])
    BY <1>2 DEF Sound
  <1>7. ASSUME NEW e \in Device PROVE Complete(rs, held[e]) /\ (e = d => Complete(rs, held[e] \cup {r}))
    <2>1. \A s \in recs : s.h < r.h /\ s.h \in Nat /\ s \in held[s.by]
      BY <1>3
    <2>2. r.h \in Nat
      BY <1>3, <1>4
    <2>3. PICK H : H = held[e]
      OBVIOUS
    <2>4. H \in SUBSET recs /\ Complete(recs, H)
      BY <1>5, <1>6, <2>3
    <2>5. Complete(recs \cup {r}, H) /\ (H = held[d] => Complete(recs \cup {r}, H \cup {r}))
      BY <1>2, <1>3, <1>4, <2>1, <2>2, <2>4, WrittenComplete, ZenonT(60)
    <2>6. rs = recs \cup {r}
      OBVIOUS
    <2>7. QED
      BY <2>3, <2>5, <2>6
  <1>8. Complete(rs, h[d]) /\ h[d] \in SUBSET rs /\ held[d] \subseteq h[d] /\ r \in h[d]
    BY <1>5, <1>7
  <1>9. LoadedOf(held[d]) \subseteq LoadedOf(h[d])
    BY <1>3, <1>8, ReachesMore
  <1>10. ToSet(r.ops) \subseteq LoadedOf(h[d])
    BY <1>3, <1>8, Reaches
  <1>11. q[d] = queue[d] \/ (q[d] = <<>> /\ r.ops = queue[d])
    BY <1>1
  <1>12. \A e \in Device \ {d} : q[e] = queue[e]
    BY <1>1
  <1>13. ToSet(queue[d]) \subseteq LoadedOf(h[d]) \cup ToSet(q[d]) /\ ToSet(q[d]) \subseteq ToSet(queue[d])
    BY <1>10, <1>11, SetOfNone
  <1>14. Base(held[d], queue[d]) \subseteq Base(h[d], q[d])
    BY <1>9, <1>13 DEF Base, Inserts
  <1>15. doc[d] \in DocSet(Base(h[d], q[d]))
    <2>1. doc[d] \in DocSet(Base(held[d], queue[d]))
      BY <1>2 DEF Sound
    <2>2. PICK K : K = Base(held[d], queue[d])
      OBVIOUS
    <2>3. PICK L : L = Base(h[d], q[d])
      OBVIOUS
    <2>4. DocSet(K) \subseteq DocSet(L)
      BY <1>14, <2>2, <2>3, DocSetGrows
    <2>5. QED
      BY <2>1, <2>2, <2>3, <2>4
  <1>16. Sound(rs, h[d], doc[d], q[d], d)
    <2>1. Sound(recs, held[d], doc[d], queue[d], d)
      BY <1>2
    <2>2. \A s \in rs : s.by = d => \A op \in ToSet(s.ops) : Has(doc[d], op)
      BY <2>1 DEF Sound
    <2>3. \A op \in ToSet(q[d]) : Has(doc[d], op)
      BY <1>13, <2>1 DEF Sound
    <2>4. QED
      BY <1>8, <1>15, <2>2, <2>3 DEF Sound
  <1>17. ASSUME NEW e \in Device PROVE Sound(rs, h[e], doc[e], q[e], e) /\ Owned(rs, ow[e], dr[e], e)
    <2>1. CASE e = d
      BY <1>16, <2>1
    <2>2. CASE e # d
      <3>1. h[e] = held[e] /\ q[e] = queue[e] /\ ow[e] = own[e] /\ dr[e] = dropping[e]
        BY <1>5, <1>12, <2>2
      <3>2. Sound(recs, held[e], doc[e], queue[e], e) /\ Owned(recs, own[e], dropping[e], e)
        BY <1>2
      <3>3. Sound(rs, held[e], doc[e], queue[e], e)
        BY <1>4, <1>7, <2>2, <3>2 DEF Sound
      <3>4. Owned(rs, own[e], dropping[e], e)
        <4>1. 1..Cardinality(recs) \subseteq 1..Cardinality(rs) /\ r.h \notin 1..Cardinality(recs)
          BY <1>3, <1>4
        <4>2. r.h \notin own[e] /\ r.h \notin dropping[e]
          BY <3>2, <4>1 DEF Owned
        <4>3. own[e] \subseteq 1..Cardinality(rs) /\ dropping[e] \subseteq 1..Cardinality(rs)
          BY <3>2, <4>1 DEF Owned
        <4>4. \A b \in rs : b.t = "batch" /\ b.h \in own[e] => b.by = e
          BY <3>2, <4>2 DEF Owned
        <4>5. ASSUME NEW b \in rs, b.t = "batch", b.h \in dropping[e]
              PROVE  \E s \in rs : Snapped(s, e) /\ ToSet(b.ops) \subseteq ToSet(s.ops)
          <5>1. b \in recs
            BY <4>2, <4>5
          <5>2. PICK s \in recs : Snapped(s, e) /\ ToSet(b.ops) \subseteq ToSet(s.ops)
            BY <3>2, <4>5, <5>1 DEF Owned
          <5>3. QED
            BY <5>2
        <4>6. QED
          BY <4>3, <4>4, <4>5 DEF Owned
      <3>5. QED
        BY <3>1, <3>3, <3>4
    <2>3. QED
      BY <2>1, <2>2
  <1>18. FlushedOf(rs) = FlushedOf(recs) \cup (IF r.t = "batch" THEN ToSet(r.ops) ELSE {})
    <2>1. rs = recs \cup {r}
      OBVIOUS
    <2>2. QED
      BY <2>1, FlushedGrows
  <1> DEFINE F == Inserts(FlushedOf(recs))
             G == Inserts(FlushedOf(rs))
  \* the text of whoever writes has only what is flushed then
  <1>19. ToSet(doc[d].chars) \subseteq G \/ r.ops = <<>>
    <2>1. doc[d] \in DocSet(Base(held[d], queue[d]))
      BY <1>2 DEF Sound
    <2>2. ToSet(doc[d].chars) \subseteq Base(held[d], queue[d])
      BY <2>1, CharsOf
    <2>3. Inserts(LoadedOf(held[d])) \subseteq F
      BY Parts
    <2>4. Base(held[d], queue[d]) = Inserts(LoadedOf(held[d])) \cup Inserts(ToSet(queue[d]))
      BY DEF Base, Inserts
    <2>5. F \subseteq G
      BY <1>18 DEF Inserts
    <2>6. CASE r.t = "batch" /\ r.ops = queue[d]
      <3>1. Inserts(ToSet(queue[d])) \subseteq G
        BY <1>18, <2>6 DEF Inserts
      <3> HIDE DEF F, G
      <3>2. QED
        BY <2>2, <2>3, <2>4, <2>5, <3>1
    <2>7. CASE queue[d] = <<>>
      <3>1. Inserts(ToSet(queue[d])) = {}
        BY <2>7, SetOfNone DEF Inserts
      <3> HIDE DEF F, G
      <3>2. QED
        BY <2>2, <2>3, <2>4, <2>5, <3>1
    <2>8. QED
      BY <2>6, <2>7
  <1>20. Closed(rs)
    <2>1. F \subseteq G
      BY <1>18 DEF Inserts
    <2>2. ASSUME NEW c \in G PROVE c.ref = Start \/ \E e \in G : e.id = c.ref
      <3>1. CASE c \in F
        BY <1>2, <2>1, <3>1 DEF Closed
      <3>2. CASE c \notin F
        <4>1. r.t = "batch" /\ c \in ToSet(r.ops) /\ c.t = "i"
          BY <1>18, <3>2 DEF Inserts
        <4>2. Has(doc[d], c)
          BY <4>1
        <4>3. c \in ToSet(doc[d].chars)
          BY <4>1, <4>2 DEF Has
        <4>4. ToSet(doc[d].chars) \subseteq G
          BY <1>19, <4>1, SetOfNone
        <4>5. doc[d] \in DocSet(Base(held[d], queue[d]))
          BY <1>2 DEF Sound
        <4>6. c.ref = Start \/ \E e \in ToSet(doc[d].chars) : e.id = c.ref
          BY <4>3, <4>5, CharsOf
        <4> HIDE DEF G
        <4>7. QED
          BY <4>4, <4>6
      <3>3. QED
        BY <3>1, <3>2
    <2>3. ASSUME NEW s \in rs, NEW op \in ToSet(s.ops), op.t # "i" PROVE \E e \in G : e.id = op.id
      <3>1. CASE s \in recs
        <4>1. PICK e \in F : e.id = op.id
          BY <1>2, <2>3, <3>1 DEF Closed
        <4>2. QED
          BY <2>1, <4>1
      <3>2. CASE s = r
        <4>1. ToSet(doc[d].chars) \subseteq G
          BY <1>19, <3>2, SetOfNone
        <4>2. Has(doc[d], op)
          BY <3>2
        <4>3. PICK e \in ToSet(doc[d].chars) : e.id = op.id
          BY <2>3, <4>2, IdsOf DEF Has
        <4>4. QED
          BY <4>1, <4>3
      <3>3. QED
        BY <3>1, <3>2
    <2>4. QED
      BY <2>2, <2>3 DEF Closed
  <1>21. Apart(rs, q)
    <2>1. \A e \in Device : ToSet(q[e]) \subseteq ToSet(queue[e]) /\ Inserts(ToSet(q[e])) \subseteq Inserts(ToSet(queue[e]))
      BY <1>12, <1>13 DEF Inserts
    <2>2. \A e, f \in Device : e # f => Inserts(ToSet(queue[e])) \cap ToSet(queue[f]) = {}
      BY <1>2 DEF Apart
    <2>3. \A e \in Device : Inserts(ToSet(queue[e])) \cap FlushedOf(recs) = {}
      BY <1>2 DEF Apart
    <2>4. \A e, f \in Device : e # f => Inserts(ToSet(q[e])) \cap ToSet(q[f]) = {}
      BY <2>1, <2>2
    <2>5. ASSUME NEW e \in Device PROVE Inserts(ToSet(q[e])) \cap FlushedOf(rs) = {}
      <3>1. CASE r.t = "batch"
        <4>1. FlushedOf(rs) = FlushedOf(recs) \cup ToSet(queue[d])
          BY <1>18, <3>1
        <4>2. CASE e = d
          <5>1. Inserts(ToSet(q[d])) = {}
            BY <1>1, <3>1, SetOfNone DEF Inserts
          <5>2. QED
            BY <4>2, <5>1
        <4>3. CASE e # d
          <5>1. Inserts(ToSet(queue[e])) \cap ToSet(queue[d]) = {}
            BY <2>2, <4>3
          <5>2. QED
            BY <2>1, <2>3, <4>1, <5>1
        <4>4. QED
          BY <4>2, <4>3
      <3>2. CASE r.t # "batch"
        <4>1. FlushedOf(rs) = FlushedOf(recs)
          BY <1>18, <3>2
        <4>2. QED
          BY <2>1, <2>3, <4>1
      <3>3. QED
        BY <3>1, <3>2
    <2>6. QED
      BY <2>4, <2>5 DEF Apart
  <1>22. QED
    BY <1>3, <1>17, <1>20, <1>21 DEF LosslessBy

LEMMA EmptyBase == ASSUME NEW K PROVE Empty \in DocSet(K)
  BY EmptyDoc

LEMMA InitLossless == ASSUME Init PROVE Lossless
  <1>1. /\ recs = {} /\ held = [d \in Device |-> {}] /\ doc = [d \in Device |-> Empty]
        /\ queue = [d \in Device |-> <<>>] /\ own = [d \in Device |-> {}]
        /\ dropping = [d \in Device |-> {}]
    BY DEF Init
  <1>2. Numbered(recs, held) /\ Covered(recs) /\ Closed(recs)
    BY <1>1 DEF Numbered, Covered, Closed, FlushedOf, Inserts
  <1>3. \A d \in Device : ToSet(queue[d]) = {}
    BY <1>1, SetOfNone
  <1>4. Apart(recs, queue)
    BY <1>3 DEF Apart, Inserts
  <1>5. ASSUME NEW d \in Device
        PROVE  Sound(recs, held[d], doc[d], queue[d], d) /\ Owned(recs, own[d], dropping[d], d)
    <2>1. Complete(recs, held[d])
      BY <1>1 DEF Complete
    <2>2. doc[d] \in DocSet(Base(held[d], queue[d]))
      <3>1. doc[d] = Empty
        BY <1>1
      <3>2. QED
        BY <3>1, EmptyBase
    <2>3. Owned(recs, own[d], dropping[d], d)
      BY <1>1 DEF Owned
    <2>4. QED
      BY <1>1, <1>3, <2>1, <2>2, <2>3 DEF Sound
  <1>6. DOMAIN own = Device /\ DOMAIN dropping = Device
    BY <1>1
  <1>7. QED
    BY <1>2, <1>4, <1>5, <1>6 DEF Lossless, LosslessBy

(* One step per action of the module. *)
LEMMA LosslessStep ==
  ASSUME Sites, OneDeviceEach, Kept, Lossless, [Next]_vars
  PROVE  Lossless'
  <1>1. SUFFICES ASSUME ~early' PROVE LosslessBy(recs', held', doc', queue', own', dropping')
    <2>1. LosslessBy(recs', held', doc', queue', own', dropping') => LosslessBy(recs, held, doc, queue, own, dropping)'
      BY DEF LosslessBy, Numbered, Covered, Closed, Apart, Sound, Owned, Complete, Base, Snapped,
             Inserts, FlushedOf, LoadedOf, Heads, Batches, Dropped
    <2>2. QED
      BY <2>1 DEF Lossless
  <1>2. ~early
    <2>1. SUFFICES ASSUME early PROVE early'
      BY <1>1
    <2>2. ASSUME NEW d \in Device, Insert(d) \/ Delete(d) PROVE early'
      BY <2>1, <2>2 DEF Insert, Delete, Edited
    <2>3. ASSUME NEW d \in Device, Flush(d) \/ Snapshot(d) \/ DropOwn(d) \/ Reopen(d) PROVE early'
      BY <2>1, <2>3 DEF Flush, Snapshot, DropOwn, Reopen
    <2>4. ASSUME NEW d \in Device, NEW r \in recs, Deliver(d, r) PROVE early'
      BY <2>1, <2>4 DEF Deliver
    <2>5. CASE UNCHANGED vars
      BY <2>1, <2>5 DEF vars
    <2>6. QED
      BY <2>2, <2>3, <2>4, <2>5 DEF Next
  <1>3. LosslessBy(recs, held, doc, queue, own, dropping)
    BY <1>2 DEF Lossless
  <1>4. /\ DOMAIN held = Device /\ DOMAIN doc = Device /\ DOMAIN queue = Device
        /\ DOMAIN own = Device /\ DOMAIN dropping = Device
    BY <1>3 DEF Kept, KeptBy, LosslessBy
  <1>5. /\ Numbered(recs, held) /\ Covered(recs)
        /\ \A d \in Device : Sound(recs, held[d], doc[d], queue[d], d) /\ Owned(recs, own[d], dropping[d], d)
    BY <1>3 DEF LosslessBy
  <1>6. ASSUME NEW d \in Device, Insert(d)
        PROVE  LosslessBy(recs', held', doc', queue', own', dropping')
    <2>1. PICK left \in {Start} \cup Shown(d) : Edited(d, Ins(<<doc[d].clock + 1, Site(d)>>, left))
      BY <1>6 DEF Insert
    <2>2. PICK op : op = Ins(<<doc[d].clock + 1, Site(d)>>, left)
      OBVIOUS
    <2>3. /\ doc' = [doc EXCEPT ![d] = Apply(doc[d], op)]
          /\ queue' = [queue EXCEPT ![d] = Append(queue[d], op)]
          /\ recs' = recs /\ held' = held /\ opens' = opens /\ own' = own /\ dropping' = dropping
      BY <2>1, <2>2 DEF Edited
    <2>4. left \in {Start} \cup Ids(doc[d])
      BY DEF Shown
    <2>5. KeptBy(recs, held, doc', queue', opens) /\ op \in ToSet(doc'[d].chars)
      BY <2>2, <2>3, <2>4, InsertKept
    <2>6. op.t = "i" /\ op.id = <<doc[d].clock + 1, Site(d)>>
      BY <2>2 DEF Ins
    <2>7. Has(doc'[d], op)
      BY <2>5, <2>6 DEF Has
    <2>8. Inserts({op}) = {op}
      BY <2>6 DEF Inserts
    <2>9. Inserts({op}) \cap AllOf(recs, queue) = {}
      BY <2>6, <2>8, TypedIsNew
    <2>10. Good(AllOf(recs, queue) \cup Inserts({op}))
      <3>1. ToSet(queue'[d]) = ToSet(queue[d]) \cup {op}
        <4>1. queue[d] \in Seq(OpsOver(LocalOf(recs, queue, d))) /\ queue'[d] = Append(queue[d], op)
          BY <1>4, <2>3 DEF Kept, KeptBy
        <4>2. QED
          BY <4>1, SetOfAppended
      <3>2. \A e \in Device \ {d} : queue'[e] = queue[e]
        BY <1>4, <2>3
      <3>3. UNION {ToSet(queue'[e]) : e \in Device} = (UNION {ToSet(queue[e]) : e \in Device}) \cup {op}
        BY <3>1, <3>2
      <3>4. AllOf(recs, queue') = AllOf(recs, queue) \cup Inserts({op})
        BY <3>3 DEF AllOf, Inserts
      <3>5. Good(AllOf(recs, queue'))
        BY <2>5 DEF KeptBy
      <3>6. QED
        BY <3>4, <3>5
    <2>11. op \in OpsOver(Base(held[d], queue[d]) \cup Inserts({op}))
      BY <2>8 DEF OpsOver
    <2>12. LosslessBy(recs, held, doc', queue', own, dropping)
      BY <1>3, <2>3, <2>7, <2>9, <2>10, <2>11, EditLossless
    <2>13. QED
      BY <2>3, <2>12
  <1>7. ASSUME NEW d \in Device, Delete(d)
        PROVE  LosslessBy(recs', held', doc', queue', own', dropping')
    <2>1. PICK id \in Shown(d) : Edited(d, Del(id))
      BY <1>7 DEF Delete
    <2>2. PICK op : op = Del(id)
      OBVIOUS
    <2>3. /\ doc' = [doc EXCEPT ![d] = Apply(doc[d], op)]
          /\ queue' = [queue EXCEPT ![d] = Append(queue[d], op)]
          /\ recs' = recs /\ held' = held /\ opens' = opens /\ own' = own /\ dropping' = dropping
      BY <2>1, <2>2 DEF Edited
    <2>4. id \in Ids(doc[d])
      BY DEF Shown
    <2>5. id \in Id
      BY <2>2, <2>3, <2>4, DeleteKept
    <2>6. op.t = "d" /\ op.id = id
      BY <2>2 DEF Del
    <2>7. Inserts({op}) = {}
      BY <2>6 DEF Inserts
    <2>8. Good(AllOf(recs, queue) \cup Inserts({op}))
      <3>1. AllOf(recs, queue) \cup Inserts({op}) = AllOf(recs, queue)
        BY <2>7
      <3>2. Good(AllOf(recs, queue))
        BY DEF Kept, KeptBy
      <3>3. QED
        BY <3>1, <3>2
    <2>9. op \in OpsOver(Base(held[d], queue[d]))
      BY <2>2, <2>5 DEF OpsOver
    <2>10. Has(doc'[d], op)
      <3>1. doc'[d] = Apply(doc[d], op)
        BY <1>4, <2>3
      <3>2. PICK K : K = Base(held[d], queue[d])
        OBVIOUS
      <3>3. Good(K) /\ doc[d] \in DocSet(K) /\ op \in OpsOver(K)
        BY <1>5, <2>9, <3>2, Parts DEF Sound
      <3>4. op.id \in Apply(doc[d], op).dead /\ Apply(doc[d], op).chars = doc[d].chars
        BY <2>6, <3>3, Applied
      <3>5. op.id \in Ids(doc'[d])
        BY <2>4, <2>6, <3>1, <3>4, IdsOf
      <3>6. QED
        BY <2>6, <3>1, <3>4, <3>5 DEF Has
    <2>11. op \in OpsOver(Base(held[d], queue[d]) \cup Inserts({op}))
      BY <2>7, <2>9
    <2>12. LosslessBy(recs, held, doc', queue', own, dropping)
      BY <1>3, <2>3, <2>7, <2>8, <2>10, <2>11, EditLossless
    <2>13. QED
      BY <2>3, <2>12
  <1>8. Cardinality(recs) \in Nat
    BY FS_CardinalityType DEF Kept, KeptBy, Written
  <1>9. ASSUME NEW d \in Device, Flush(d)
        PROVE  LosslessBy(recs', held', doc', queue', own', dropping')
    <2>1. PICK r : r = [t |-> "batch", by |-> d, h |-> Now, ops |-> queue[d], targets |-> {}]
      OBVIOUS
    <2>2. /\ recs' = recs \cup {r} /\ held' = [held EXCEPT ![d] = held[d] \cup {r}]
          /\ queue' = [queue EXCEPT ![d] = <<>>] /\ doc' = doc
          /\ own' = [own EXCEPT ![d] = own[d] \cup {Now}] /\ dropping' = dropping
      BY <1>9, <2>1 DEF Flush, Writes
    <2>3. r.t = "batch" /\ r.by = d /\ r.h = Cardinality(recs) + 1 /\ r.ops = queue[d] /\ r.targets = {}
      BY <2>1 DEF Now
    <2>4. Fits(recs, r, d)
      BY <2>3 DEF Fits
    <2>5. \A op \in ToSet(r.ops) : Has(doc[d], op)
      BY <1>5, <2>3 DEF Sound
    <2>6. Owned(recs', own'[d], dropping'[d], d)
      <3>1. r \notin recs /\ Cardinality(recs') = Cardinality(recs) + 1
        <4>1. r \notin recs
          BY <1>5, <1>8, <2>3 DEF Numbered
        <4>2. QED
          BY <2>2, <4>1, FS_AddElement DEF Kept, KeptBy, Written
      <3>2. own'[d] = own[d] \cup {r.h} /\ dropping'[d] = dropping[d]
        BY <1>4, <2>2, <2>3 DEF Now
      <3>3. Owned(recs, own[d], dropping[d], d)
        BY <1>5
      <3>4. own'[d] \subseteq 1..Cardinality(recs') /\ dropping'[d] \subseteq 1..Cardinality(recs')
        BY <1>8, <2>3, <3>1, <3>2, <3>3 DEF Owned
      <3>5. \A b \in recs : b.h # r.h
        BY <1>5, <1>8, <2>3 DEF Numbered
      <3>6. r.h \notin dropping[d]
        BY <1>8, <2>3, <3>3 DEF Owned
      <3>7. \A b \in recs' : b.t = "batch" /\ b.h \in own'[d] => b.by = d
        BY <2>2, <2>3, <3>2, <3>3, <3>5 DEF Owned
      <3>8. ASSUME NEW b \in recs', b.t = "batch", b.h \in dropping'[d]
            PROVE  \E s \in recs' : Snapped(s, d) /\ ToSet(b.ops) \subseteq ToSet(s.ops)
        <4>1. b \in recs
          BY <2>2, <3>2, <3>6, <3>8
        <4>2. PICK s \in recs : Snapped(s, d) /\ ToSet(b.ops) \subseteq ToSet(s.ops)
          BY <3>2, <3>3, <3>8, <4>1 DEF Owned
        <4>3. QED
          BY <2>2, <4>2
      <3>9. QED
        BY <3>4, <3>7, <3>8 DEF Owned
    <2>7. /\ recs \subseteq recs' /\ r \in recs' /\ recs' \subseteq recs \cup {r}
          /\ held'[d] = held[d] \cup {r} /\ \A e \in Device \ {d} : held'[e] = held[e]
          /\ DOMAIN own' = Device /\ DOMAIN dropping' = Device
          /\ \A e \in Device \ {d} : own'[e] = own[e] /\ dropping'[e] = dropping[e]
      BY <1>4, <2>2
    <2>8. r.t = "batch" /\ r.ops = queue[d] /\ queue' = [queue EXCEPT ![d] = <<>>]
      BY <2>2, <2>3
    <2>9. LosslessBy(recs', held', doc, queue', own', dropping')
      BY <1>3, <2>4, <2>5, <2>6, <2>7, <2>8, WrittenLossless
    <2>10. QED
      BY <2>2, <2>9
  <1>10. ASSUME NEW d \in Device, Snapshot(d)
         PROVE  LosslessBy(recs', held', doc', queue', own', dropping')
    <2>1. PICK r : r = [t |-> "snap", by |-> d, h |-> Now, ops |-> OpsOfRuns(doc[d]), targets |-> {}]
      OBVIOUS
    <2>2. /\ recs' = recs \cup {r} /\ held' = [held EXCEPT ![d] = held[d] \cup {r}]
          /\ queue' = queue /\ doc' = doc /\ queue[d] = <<>>
          /\ own' = [own EXCEPT ![d] = {}] /\ dropping' = [dropping EXCEPT ![d] = own[d]]
      BY <1>10, <2>1 DEF Snapshot, Writes
    <2>3. r.t = "snap" /\ r.by = d /\ r.h = Cardinality(recs) + 1 /\ r.ops = OpsOfRuns(doc[d]) /\ r.targets = {}
      BY <2>1 DEF Now
    <2>4. PICK F : F = Inserts(FlushedOf(recs))
      OBVIOUS
    <2>5. Good(F) /\ doc[d] \in DocSet(F) /\ r.ops \in Seq(OpsOver(F))
      <3>1. Flushed = FlushedOf(recs)
        BY DEF Flushed, FlushedOf
      <3>2. Good(F)
        BY <2>4, Parts
      <3>3. OpsOfRuns(doc[d]) \in Seq(OpsOver(Inserts(Flushed))) /\ doc[d] \in DocSet(Inserts(Flushed))
        BY <2>2, SnapshotOps
      <3>4. QED
        BY <2>3, <2>4, <3>1, <3>2, <3>3
    <2>6. \A op \in OpsOver(F) : op \in ToSet(r.ops) <=> Has(doc[d], op)
      BY <2>3, <2>5, SnapshotHas
    <2>7. \A op \in ToSet(r.ops) : Has(doc[d], op)
      <3>1. ToSet(r.ops) \subseteq OpsOver(F)
        BY <2>5, ElementsFinite
      <3>2. QED
        BY <2>6, <3>1
    <2>8. ASSUME NEW s \in recs, s.by = d PROVE ToSet(s.ops) \subseteq ToSet(r.ops)
      <3>1. s.ops \in Seq(OpsOver(F))
        BY <2>4, Parts DEF Written
      <3>2. ToSet(s.ops) \subseteq OpsOver(F)
        BY <3>1, ElementsFinite
      <3>3. \A op \in ToSet(s.ops) : Has(doc[d], op)
        BY <1>5, <2>8 DEF Sound
      <3>4. QED
        BY <2>6, <3>2, <3>3
    <2>9. Fits(recs, r, d)
      BY <2>3, <2>8 DEF Fits
    <2>10. Owned(recs', own'[d], dropping'[d], d)
      <3>1. r \notin recs /\ Cardinality(recs') = Cardinality(recs) + 1
        <4>1. r \notin recs
          BY <1>5, <1>8, <2>3 DEF Numbered
        <4>2. QED
          BY <2>2, <4>1, FS_AddElement DEF Kept, KeptBy, Written
      <3>2. own'[d] = {} /\ dropping'[d] = own[d]
        BY <1>4, <2>2
      <3>3. Owned(recs, own[d], dropping[d], d)
        BY <1>5
      <3>4. own'[d] \subseteq 1..Cardinality(recs') /\ dropping'[d] \subseteq 1..Cardinality(recs')
        BY <1>8, <3>1, <3>2, <3>3 DEF Owned
      <3>5. r.h \notin own[d]
        BY <1>8, <2>3, <3>3 DEF Owned
      <3>6. ASSUME NEW b \in recs', b.t = "batch", b.h \in dropping'[d]
            PROVE  \E s \in recs' : Snapped(s, d) /\ ToSet(b.ops) \subseteq ToSet(s.ops)
        <4>1. b \in recs
          BY <2>2, <3>2, <3>5, <3>6
        <4>2. b.by = d
          BY <3>2, <3>3, <3>6, <4>1 DEF Owned
        <4>3. r \in recs' /\ Snapped(r, d) /\ ToSet(b.ops) \subseteq ToSet(r.ops)
          BY <2>2, <2>3, <2>8, <4>1, <4>2 DEF Snapped
        <4>4. QED
          BY <4>3
      <3>7. QED
        BY <3>2, <3>4, <3>6 DEF Owned
    <2>11. /\ recs \subseteq recs' /\ r \in recs' /\ recs' \subseteq recs \cup {r}
           /\ held'[d] = held[d] \cup {r} /\ \A e \in Device \ {d} : held'[e] = held[e]
           /\ DOMAIN own' = Device /\ DOMAIN dropping' = Device
           /\ \A e \in Device \ {d} : own'[e] = own[e] /\ dropping'[e] = dropping[e]
      BY <1>4, <2>2
    <2>12. r.t # "batch" /\ queue' = queue /\ queue[d] = <<>>
      BY <2>2, <2>3
    <2>13. LosslessBy(recs', held', doc, queue', own', dropping')
      BY <1>3, <2>7, <2>9, <2>10, <2>11, <2>12, WrittenLossless
    <2>14. QED
      BY <2>2, <2>13
  <1>11. ASSUME NEW d \in Device, DropOwn(d)
         PROVE  LosslessBy(recs', held', doc', queue', own', dropping')
    <2>1. PICK r : r = [t |-> "drop", by |-> d, h |-> Now, ops |-> <<>>, targets |-> dropping[d]]
      OBVIOUS
    <2>2. /\ recs' = recs \cup {r} /\ held' = [held EXCEPT ![d] = held[d] \cup {r}]
          /\ queue' = queue /\ doc' = doc
          /\ own' = own /\ dropping' = [dropping EXCEPT ![d] = {}]
      BY <1>11, <2>1 DEF DropOwn, Writes
    <2>3. r.t = "drop" /\ r.by = d /\ r.h = Cardinality(recs) + 1 /\ r.ops = <<>> /\ r.targets = dropping[d]
      BY <2>1 DEF Now
    <2>4. Owned(recs, own[d], dropping[d], d)
      BY <1>5
    <2>5. Fits(recs, r, d)
      BY <2>3, <2>4 DEF Fits, Owned
    <2>6. \A op \in ToSet(r.ops) : Has(doc[d], op)
      BY <2>3, SetOfNone
    <2>7. Owned(recs', own'[d], dropping'[d], d)
      <3>1. r \notin recs /\ Cardinality(recs') = Cardinality(recs) + 1
        <4>1. r \notin recs
          BY <1>5, <1>8, <2>3 DEF Numbered
        <4>2. QED
          BY <2>2, <4>1, FS_AddElement DEF Kept, KeptBy, Written
      <3>2. own'[d] = own[d] /\ dropping'[d] = {}
        BY <1>4, <2>2
      <3>3. own'[d] \subseteq 1..Cardinality(recs') /\ dropping'[d] \subseteq 1..Cardinality(recs')
        BY <1>8, <2>4, <3>1, <3>2 DEF Owned
      <3>4. \A b \in recs' : b.t = "batch" /\ b.h \in own'[d] => b.by = d
        BY <2>2, <2>3, <2>4, <3>2 DEF Owned
      <3>5. QED
        BY <3>2, <3>3, <3>4 DEF Owned
    <2>8. /\ recs \subseteq recs' /\ r \in recs' /\ recs' \subseteq recs \cup {r}
          /\ held'[d] = held[d] \cup {r} /\ \A e \in Device \ {d} : held'[e] = held[e]
          /\ DOMAIN own' = Device /\ DOMAIN dropping' = Device
          /\ \A e \in Device \ {d} : own'[e] = own[e] /\ dropping'[e] = dropping[e]
      BY <1>4, <2>2
    <2>9. r.t # "batch" /\ queue' = queue /\ r.ops = <<>>
      BY <2>2, <2>3
    <2>10. LosslessBy(recs', held', doc, queue', own', dropping')
      BY <1>3, <2>5, <2>6, <2>7, <2>8, <2>9, WrittenLossless
    <2>11. QED
      BY <2>2, <2>10
  <1>12. ASSUME NEW d \in Device, Reopen(d)
         PROVE  LosslessBy(recs', held', doc', queue', own', dropping')
    <2>1. /\ doc' = [doc EXCEPT ![d] = Load(held[d])]
          /\ queue' = [queue EXCEPT ![d] = <<>>]
          /\ own' = [own EXCEPT ![d] = {r.h : r \in {b \in Batches(held[d]) : AuthorOf[b.by] = AuthorOf[d]}}]
          /\ dropping' = [dropping EXCEPT ![d] = {}]
          /\ recs' = recs /\ held' = held
      BY <1>12 DEF Reopen
    <2>2. LosslessBy(recs, held, doc', queue', own', dropping')
      BY <1>3, <2>1, ReopenLossless
    <2>3. QED
      BY <2>1, <2>2
  <1>13. ASSUME NEW d \in Device, NEW r \in recs, Deliver(d, r)
         PROVE  LosslessBy(recs', held', doc', queue', own', dropping')
    <2>1. /\ held' = [held EXCEPT ![d] = held[d] \cup {r}]
          /\ recs' = recs /\ queue' = queue /\ own' = own /\ dropping' = dropping
      BY <1>13 DEF Deliver
    <2>2. \/ doc' = doc
          \/ \E s : /\ s = InCounterOrder(r.ops) \/ s = r.ops
                    /\ doc' = [doc EXCEPT ![d] = AppliedAll(doc[d], s)]
      BY <1>13 DEF Deliver, AppliedAll
    <2>3. r.t = "drop" => \A s \in recs : Snapped(s, r.by) /\ s.h < r.h => s \in held[d]
      BY <1>1, <1>13 DEF Deliver, Snapped
    <2>4. LosslessBy(recs, held', doc', queue, own, dropping)
      BY <1>3, <2>1, <2>2, <2>3, DeliverLossless
    <2>5. QED
      BY <2>1, <2>4
  <1>14. CASE UNCHANGED vars
    <2>1. /\ recs' = recs /\ held' = held /\ doc' = doc /\ queue' = queue
          /\ own' = own /\ dropping' = dropping
      BY <1>14 DEF vars
    <2>2. QED
      BY <1>3, <2>1
  <1>15. QED
    BY <1>6, <1>7, <1>9, <1>10, <1>11, <1>12, <1>13, <1>14 DEF Next

(* With all records held, opening reaches every flushed operation. *)
LEMMA LosslessLosesNothing ==
  ASSUME OneDeviceEach, Kept, Lossless
  PROVE  NothingLost
  <1>1. SUFFICES ASSUME ~early, NEW d \in Device, held[d] = recs, NEW op \in Flushed
                 PROVE  IF op.t = "i" THEN op.id \in Ids(Load(recs)) ELSE op.id \in Load(recs).dead
    BY DEF NothingLost
  <1> DEFINE F == Inserts(FlushedOf(recs))
  <1>2. Flushed = FlushedOf(recs)
    BY DEF Flushed, FlushedOf
  <1>3. /\ Numbered(recs, held) /\ Covered(recs) /\ Closed(recs)
        /\ Sound(recs, held[d], doc[d], queue[d], d)
    BY <1>1 DEF Lossless, LosslessBy
  <1>4. Complete(recs, recs)
    BY <1>1, <1>3 DEF Sound
  <1>5. Written(recs) /\ IsFiniteSet(recs) /\ Good(F) /\ recs \in SUBSET recs
    BY Parts
  <1>6. \A r \in recs : ToSet(r.ops) \subseteq LoadedOf(recs)
    BY <1>3, <1>4, <1>5, Reaches
  <1>7. FlushedOf(recs) \subseteq LoadedOf(recs)
    BY <1>6 DEF FlushedOf
  <1>8. F \subseteq LoadedOf(recs)
    BY <1>7 DEF Inserts
  <1>9. IsFiniteSet(LoadedOf(recs)) /\ LoadedOf(recs) \subseteq OpsOver(F)
    BY <1>5, LoadedIn
  <1>10. \A c \in F : c.ref = Start \/ \E e \in F : e.id = c.ref
    BY <1>3 DEF Closed
  <1> HIDE DEF F
  <1>11. PICK x : x = Load(recs)
    OBVIOUS
  <1>12. /\ F \subseteq ToSet(x.chars)
         /\ \A o \in LoadedOf(recs) : o.t # "i" => o.id \in x.dead
    <2>1. PICK R : R = recs
      OBVIOUS
    <2>2. PICK C : C = F
      OBVIOUS
    <2>3. /\ Good(F) /\ IsFiniteSet(LoadedOf(R)) /\ LoadedOf(R) \subseteq OpsOver(F)
          /\ C \subseteq LoadedOf(R) /\ C \subseteq F
          /\ \A c \in C : c.ref = Start \/ \E e \in C : e.id = c.ref
      BY <1>5, <1>8, <1>9, <1>10, <2>1, <2>2
    <2>4. /\ Load(R) \in DocSet(F)
          /\ C \subseteq ToSet(Load(R).chars)
          /\ \A o \in LoadedOf(R) : o.t # "i" => o.id \in Load(R).dead
      BY <2>3, LoadHas
    <2>5. QED
      BY <1>11, <2>1, <2>2, <2>4
  <1>13. CASE op.t = "i"
    <2>1. op \in F
      BY <1>2, <1>13 DEF F, Inserts
    <2>2. op.id \in Ids(x)
      BY <1>12, <2>1, IdsOf
    <2>3. QED
      BY <1>11, <1>13, <2>2
  <1>14. CASE op.t # "i"
    BY <1>2, <1>7, <1>11, <1>12, <1>14
  <1>15. QED
    BY <1>13, <1>14

-----------------------------------------------------------------------------
(* Whoever holds all records and opens the text has every flushed edit      *)
(* (README.md:338): compact() writes the snapshot before it drops its own   *)
(* batches.  Without OneDeviceEach it is false: run bug_lost_text.          *)
THEOREM NothingIsLost ==
  ASSUME Sites, OneDeviceEach
  PROVE  Spec => []NothingLost
  <1>1. Init => Kept /\ Lossless
    BY InitKept, InitLossless
  <1>2. (Kept /\ Lossless) /\ [Next]_vars => (Kept /\ Lossless)'
    BY KeptStep, LosslessStep
  <1>3. Kept /\ Lossless => NothingLost
    BY LosslessLosesNothing
  <1>4. QED
    BY <1>1, <1>2, <1>3, PTL DEF Spec
=============================================================================
