------------------------- MODULE LiteMembers_proofs -------------------------
(***************************************************************************)
(* Proofs about LiteMembers, for any persons, clocks and bounds.           *)
(***************************************************************************)
EXTENDS LiteMembers, FiniteSetTheorems, WellFoundedInduction, TLAPS

(* A founder among finitely many persons whose aliases have distinct ranks. *)
Group ==
  /\ Newcomer \subseteq Person /\ Owner \in Person \ Newcomer /\ Nobody \notin Person
  /\ IsFiniteSet(Person) /\ Number \in [Person -> 1..Cardinality(Person)]
  /\ \A d, e \in Person : Number[d] = Number[e] => d = e
  /\ Ahead \in [Person -> Nat] /\ MaxEpoch \in Nat /\ MaxRecords \in Nat
  /\ MaxInvites \in Nat /\ MaxCrashes \in Nat

-----------------------------------------------------------------------------
(* The inductive invariant. *)

Known == [0..MaxEpoch -> Person \cup {Nobody}]
AdminList == [seq: Nat, list: SUBSET Person]

Types ==
  /\ \A r \in recs : r.by \in Person /\ r.h \in Nat /\ r.n \in Nat /\ r.to \in SUBSET Person
  /\ \A r \in recs : r.kind = "keys" => r.n \in 1..MaxEpoch
  /\ accepted \in [Person -> SUBSET recs]
  /\ epochs \in [Person -> Known] /\ adm \in [Person -> AdminList]
  /\ \A t \in tokens : t.epochs \in Known /\ t.adm \in AdminList
  /\ \A t \in tokens : t.token.role \in {"member", "admin"}
  /\ handed \in [Person -> SUBSET (1..MaxEpoch)]

(* Everybody has indexed its own records. *)
Own == \A r \in recs : r \in accepted[r.by]

(* A clock shows its device's rank, but for the founding entries. *)
Stamp(h, d) == \E q \in Nat \ {0} : h = q * Cardinality(Person) + Number[d]
Stamped == \A r \in recs : r.h <= Cardinality(Person) \/ Stamp(r.h, r.by)
Bounded == \E b \in Nat : \A r \in recs : r.h <= b

IsEntry(r) == r \in recs /\ r.kind = "entry"
IsKey(r) == r \in recs /\ r.kind = "keys"
IsRemoval(s) == IsEntry(s) /\ s.role = "removed" /\ s.who # s.by

(* No two entries are as new as each other. *)
Distinct == \A r, s \in recs : IsEntry(r) /\ IsEntry(s) /\ r.h = s.h => r = s

(* Who has an entry, or is an admin, has been let in. *)
In(x) == x \in Person /\ epochs[x][0] # Nobody
EntriesIn == \A r \in recs : IsEntry(r) => In(r.who)
AdminsIn ==
  /\ In(Owner)
  /\ \A r \in recs : r.kind = "grants" => \A x \in r.to : In(x)
  /\ \A d \in Person : \A x \in adm[d].list : In(x)
  /\ \A t \in tokens : t.epochs[0] # Nobody /\ \A x \in t.adm.list : In(x)

(* Of every later epoch there is a key package. *)
Announced(known) == \A n \in 1..MaxEpoch : known[n] # Nobody => \E r \in recs : IsKey(r) /\ r.n = n
EpochsAnnounced ==
  /\ \A d \in Person : Announced(epochs[d])
  /\ \A t \in tokens : Announced(t.epochs)

(* Its maker had removed s.who before it made the key package r. *)
Before(s, r) == IsRemoval(s) /\ IsKey(r) /\ s.by = r.by /\ s.h < r.h

(* If the key is for the removed one all the same, its maker knows better. *)
BoxedAgain ==
  \A r, s \in recs : Before(s, r) /\ s.who \in r.to =>
    \E t \in accepted[r.by] : IsEntry(t) /\ t.who = s.who /\ s.h < t.h

(* And if not, the removed one never gets it, but by an invite. *)
KeptOut ==
  ~Rivals => \A r, s \in recs : Before(s, r) /\ s.who \notin r.to =>
    epochs[s.who][r.n] = Nobody \/ r.n \in handed[s.who]

Records == Types /\ Own /\ Stamped /\ Bounded /\ Distinct
IInv == Records /\ EntriesIn /\ AdminsIn /\ EpochsAnnounced /\ BoxedAgain /\ KeptOut

-----------------------------------------------------------------------------
(* The newest of several. *)

LEMMA HasMax ==
  ASSUME NEW S, S \subseteq Nat, S # {}, NEW b \in Nat, \A x \in S : x <= b
  PROVE  \E m \in S : \A x \in S : x <= m
  <1> DEFINE T == {u \in Nat : \A x \in S : x <= u}
  <1>1. T \subseteq Nat /\ b \in T
    OBVIOUS
  <1> DEFINE Lt == OpToRel(<, Nat)
  <1>2. IsWellFoundedOn(Lt, Nat)
    BY NatLessThanWellFounded
  <1>3. \A x, y \in Nat : y < x => <<y, x>> \in Lt
    BY DEF OpToRel
  <1> HIDE DEF Lt
  <1>4. T # {}
    BY <1>1
  <1> HIDE DEF T
  <1>5. PICK m \in T : \A y \in T : ~ (<<y, m>> \in Lt)
    BY <1>1, <1>2, <1>4, WFMin
  <1>6. \A y \in T : ~ (y < m)
    BY <1>1, <1>3, <1>5
  <1> USE DEF T
  <1>7. m \in Nat /\ \A x \in S : x <= m
    OBVIOUS
  <1>8. m \in S
    <2>1. SUFFICES ASSUME m \notin S PROVE FALSE
      OBVIOUS
    <2>2. PICK x : x \in S
      OBVIOUS
    <2>3. x \in Nat /\ x <= m /\ x # m
      BY <1>7, <2>1, <2>2
    <2>4. m - 1 \in Nat /\ \A y \in S : y <= m - 1
      BY <1>7, <2>1, <2>3
    <2>5. m - 1 \in T /\ m - 1 < m
      BY <1>7, <2>4
    <2>6. QED
      BY <1>6, <2>5
  <1>9. QED
    BY <1>7, <1>8

LEMMA MaxIs ==
  ASSUME NEW S, S \subseteq Nat, S # {}, NEW b \in Nat, \A x \in S : x <= b
  PROVE  Max(S) \in S /\ \A x \in S : x <= Max(S)
  <1>1. PICK m \in S : \A x \in S : m >= x
    <2>1. \E m \in S : \A x \in S : x <= m
      BY HasMax
    <2>2. QED
      BY <2>1
  <1>2. Max(S) \in S /\ \A x \in S : Max(S) >= x
    BY <1>1 DEF Max
  <1>3. QED
    BY <1>2

LEMMA BestIs ==
  ASSUME Types, Bounded, NEW R, R \subseteq recs, R # {}
  PROVE  Best(R) \in R /\ \A s \in R : s.h <= Best(R).h
  <1>1. PICK b \in Nat : \A r \in recs : r.h <= b
    BY DEF Bounded
  <1>2. PICK m \in {r.h : r \in R} : \A x \in {r.h : r \in R} : x <= m
    <2>1. {r.h : r \in R} \subseteq Nat /\ {r.h : r \in R} # {}
      BY DEF Types
    <2>2. \A x \in {r.h : r \in R} : x <= b
      BY <1>1
    <2>3. QED
      BY <2>1, <2>2, HasMax
  <1>3. PICK r \in R : r.h = m
    BY <1>2
  <1>4. \A s \in R : s.h <= r.h
    BY <1>2, <1>3
  <1>5. QED
    BY <1>4 DEF Best

LEMMA LastIs ==
  ASSUME Group, NEW known \in Known
  PROVE  LastOf(known) \in 0..MaxEpoch /\ (LastOf(known) = 0 \/ known[LastOf(known)] # Nobody)
  <1> DEFINE S == {n \in 0..MaxEpoch : known[n] # Nobody} \cup {0}
  <1>1. S \subseteq Nat /\ S # {} /\ MaxEpoch \in Nat /\ \A x \in S : x <= MaxEpoch
    BY DEF Group
  <1> HIDE DEF S
  <1>2. Max(S) \in S
    BY <1>1, MaxIs
  <1>3. LastOf(known) \in S
    BY <1>2 DEF LastOf, S
  <1>4. QED
    BY <1>3 DEF S, Group

-----------------------------------------------------------------------------
(* Clocks. *)

LEMMA DivUp == ASSUME NEW m \in Nat, NEW k \in Nat, k > 0
               PROVE  m \div k \in Nat /\ m < (m \div k + 1) * k
OBVIOUS

LEMMA Apart ==
  ASSUME NEW k \in Nat, NEW p \in Nat, NEW q \in Nat, NEW i \in 1..k, NEW j \in 1..k,
         p * k + i = q * k + j
  PROVE  i = j
OBVIOUS

LEMMA NowIs ==
  ASSUME Group, Types, Bounded, NEW d \in Person
  PROVE  /\ Now(d) \in Nat /\ Stamp(Now(d), d) /\ Now(d) > Cardinality(Person)
         /\ \A r \in accepted[d] : r.h < Now(d)
  <1> DEFINE K == Cardinality(Person)
             S == {r.h : r \in accepted[d]} \cup {0}
             q == Max(S) \div K + 1 + Ahead[d]
  <1>1. K \in Nat /\ Number[d] \in 1..K /\ Ahead[d] \in Nat
    BY FS_CardinalityType DEF Group
  <1>2. PICK b \in Nat : \A r \in recs : r.h <= b
    BY DEF Bounded
  <1>3. S \subseteq Nat /\ S # {} /\ \A x \in S : x <= b
    BY <1>2 DEF Types
  <1> HIDE DEF S
  <1>4. Max(S) \in Nat /\ \A x \in S : x <= Max(S)
    BY <1>2, <1>3, MaxIs
  <1>5. Max(S) \div K \in Nat /\ Max(S) < (Max(S) \div K + 1) * K
    BY <1>1, <1>4, DivUp
  <1>6. q \in Nat \ {0} /\ (Max(S) \div K + 1) * K <= q * K /\ K <= q * K /\ q * K \in Nat
    <2> DEFINE c == Max(S) \div K
    <2>1. c \in Nat
      BY <1>5
    <2> HIDE DEF c, K
    <2>2. /\ (c + 1 + Ahead[d]) * K = (c + 1) * K + Ahead[d] * K
          /\ (c + 1) * K = c * K + K
          /\ c * K \in Nat /\ Ahead[d] * K \in Nat
      BY <1>1, <2>1
    <2>3. c + 1 + Ahead[d] \in Nat \ {0}
      BY <1>1, <2>1
    <2>4. /\ (c + 1) * K <= (c + 1 + Ahead[d]) * K /\ K <= (c + 1 + Ahead[d]) * K
          /\ (c + 1 + Ahead[d]) * K \in Nat
      BY <1>1, <2>2
    <2>5. QED
      BY <2>3, <2>4 DEF c
  <1>7. Now(d) = q * K + Number[d]
    BY DEF Now, S
  <1>8. \A r \in accepted[d] : r.h \in S
    BY DEF S
  <1> HIDE DEF q, K
  <1>9. Now(d) \in Nat /\ Now(d) > K /\ Now(d) > Max(S)
    BY <1>1, <1>4, <1>5, <1>6, <1>7
  <1>10. \A r \in accepted[d] : r.h \in Nat /\ r.h <= Max(S)
    BY <1>3, <1>4, <1>8
  <1>11. \A r \in accepted[d] : r.h < Now(d)
    BY <1>4, <1>9, <1>10
  <1>12. Stamp(Now(d), d)
    BY <1>6, <1>7 DEF Stamp, K
  <1>13. QED
    BY <1>9, <1>11, <1>12 DEF K

-----------------------------------------------------------------------------
(* What every write of d keeps. *)

LEMMA WritingKeeps ==
  ASSUME Group, Records, NEW d \in Person, NEW R, Writes(d, R),
         epochs' \in [Person -> Known], adm' \in [Person -> AdminList],
         \A t \in tokens' : /\ t.epochs \in Known /\ t.adm \in AdminList
                            /\ t.token.role \in {"member", "admin"},
         handed' \in [Person -> SUBSET (1..MaxEpoch)],
         \A r \in R : r.by = d /\ r.h = Now(d) /\ r.n \in Nat /\ r.to \in SUBSET Person,
         \A r \in R : r.kind = "keys" => r.n \in 1..MaxEpoch,
         \A r, s \in R : r.kind = "entry" /\ s.kind = "entry" => r = s
  PROVE  /\ Records'
         /\ \A r \in R, s \in recs : s.by = d => s.h < r.h
  <1> USE DEF Records
  <1>1. /\ recs' = recs \cup R /\ accepted' = [accepted EXCEPT ![d] = @ \cup R]
        /\ accepted \in [Person -> SUBSET recs]
    BY DEF Writes, Types
  <1>2. /\ Now(d) \in Nat /\ Stamp(Now(d), d) /\ Now(d) > Cardinality(Person)
        /\ \A r \in accepted[d] : r.h < Now(d)
    BY NowIs
  <1>3. \A s \in recs : s.by = d => s.h < Now(d)
    BY <1>2 DEF Own
  <1>4. Types'
    <2>1. accepted' \in [Person -> SUBSET recs']
      BY <1>1
    <2>2. \A r \in recs' : r.by \in Person /\ r.h \in Nat /\ r.n \in Nat /\ r.to \in SUBSET Person
      BY <1>1, <1>2 DEF Types
    <2>3. \A r \in recs' : r.kind = "keys" => r.n \in 1..MaxEpoch
      BY <1>1 DEF Types
    <2>4. QED
      BY <2>1, <2>2, <2>3 DEF Types
  <1>5. Own'
    <2>1. SUFFICES ASSUME NEW r \in recs' PROVE r \in accepted'[r.by]
      BY DEF Own
    <2>2. r.by \in Person
      BY <1>4 DEF Types
    <2>3. r \in recs \/ r \in R
      BY <1>1
    <2>4. QED
      BY <1>1, <2>2, <2>3 DEF Own
  <1>6. Stamped'
    <2>1. \A r \in recs' : r.h <= Cardinality(Person) \/ Stamp(r.h, r.by)
      BY <1>1, <1>2 DEF Stamped
    <2>2. QED
      BY <2>1 DEF Stamped, Stamp
  <1>7. Bounded'
    <2>1. PICK b \in Nat : \A r \in recs : r.h <= b
      BY DEF Bounded
    <2>2. b + Now(d) \in Nat
      BY <1>2
    <2>3. \A r \in recs' : r.h <= b + Now(d)
      <3>1. TAKE r \in recs'
      <3>2. CASE r \in R
        BY <1>2, <2>1, <3>2
      <3>3. CASE r \in recs
        BY <1>2, <2>1, <3>3 DEF Types
      <3>4. QED
        BY <1>1, <3>2, <3>3
    <2>4. QED
      BY <2>2, <2>3 DEF Bounded
  <1>8. \A r \in R, s \in recs : s.h # r.h
    <2>1. SUFFICES ASSUME NEW s \in recs, s.h = Now(d) PROVE FALSE
      OBVIOUS
    <2>2. s.by \in Person /\ Stamp(s.h, s.by)
      <3>1. Cardinality(Person) \in Nat
        BY FS_CardinalityType DEF Group
      <3>2. ~ (s.h <= Cardinality(Person))
        BY <1>2, <2>1, <3>1
      <3>3. QED
        BY <3>2 DEF Stamped, Types
    <2>3. Number[s.by] = Number[d]
      <3>1. PICK p \in Nat \ {0} : Now(d) = p * Cardinality(Person) + Number[d]
        BY <1>2 DEF Stamp
      <3>2. PICK q \in Nat \ {0} : s.h = q * Cardinality(Person) + Number[s.by]
        BY <2>2 DEF Stamp
      <3>3. /\ Cardinality(Person) \in Nat
            /\ Number[d] \in 1..Cardinality(Person) /\ Number[s.by] \in 1..Cardinality(Person)
        BY <2>2, FS_CardinalityType DEF Group
      <3>4. p * Cardinality(Person) + Number[d] = q * Cardinality(Person) + Number[s.by]
        BY <2>1, <3>1, <3>2
      <3>5. QED
        BY <3>3, <3>4, Apart
    <2>4. s.by = d
      BY <2>2, <2>3 DEF Group
    <2>5. QED
      BY <1>2, <1>3, <2>1, <2>4
  <1>9. Distinct'
    <2>1. SUFFICES ASSUME NEW r \in recs', NEW s \in recs', r.kind = "entry", s.kind = "entry",
                          r.h = s.h
                   PROVE  r = s
      BY DEF Distinct, IsEntry
    <2>2. r \in recs /\ s \in recs => r = s
      BY <2>1 DEF Distinct, IsEntry
    <2>3. r \in R /\ s \in R => r = s
      BY <2>1
    <2>4. ~ (r \in R /\ s \in recs) /\ ~ (r \in recs /\ s \in R)
      BY <1>8, <2>1
    <2>5. QED
      BY <1>1, <2>2, <2>3, <2>4
  <1>10. QED
    BY <1>3, <1>4, <1>5, <1>6, <1>7, <1>9

(* A write that is no key package leaves removals and key packages alone. *)
LEMMA PlainWriteKeeps ==
  ASSUME IInv, NEW d \in Person, NEW R, Writes(d, R), Types',
         \A r \in R : r.by = d /\ r.kind # "keys",
         \A r \in R, s \in recs : s.by = d => s.h < r.h
  PROVE  /\ \A r, s : Before(s, r)' => Before(s, r)
         /\ BoxedAgain' /\ (~Rivals' => ~Rivals)
  <1>1. /\ recs' = recs \cup R /\ accepted' = [accepted EXCEPT ![d] = @ \cup R]
        /\ accepted \in [Person -> SUBSET recs]
    BY DEF Writes, Types, IInv, Records
  <1>2. \A r \in recs : r.by \in Person /\ r.h \in Nat
    BY DEF Types, IInv, Records
  <1>3. \A r \in recs' : r.h \in Nat
    BY DEF Types
  <1>4. \A r, s : Before(s, r)' => Before(s, r)
    <2>1. SUFFICES ASSUME NEW r, NEW s, Before(s, r)' PROVE Before(s, r)
      OBVIOUS
    <2>2. /\ s \in recs' /\ s.kind = "entry" /\ s.role = "removed" /\ s.who # s.by
          /\ s.by = r.by /\ s.h < r.h /\ r \in recs' /\ r.kind = "keys"
      BY <2>1 DEF Before, IsRemoval, IsEntry, IsKey
    <2>3. r \in recs
      BY <1>1, <2>2
    <2>4. s \in recs
      <3>1. SUFFICES ASSUME s \in R PROVE FALSE
        BY <1>1, <2>2
      <3>2. r.by = d
        BY <2>2, <3>1
      <3>3. r.h < s.h
        BY <2>3, <3>1, <3>2
      <3>4. QED
        BY <1>3, <2>2, <3>3
    <2>5. QED
      BY <2>2, <2>3, <2>4 DEF Before, IsRemoval, IsEntry, IsKey
  <1>5. BoxedAgain'
    <2>1. SUFFICES ASSUME NEW r \in recs', NEW s \in recs', Before(s, r)', s.who \in r.to
                   PROVE  \E t \in accepted'[r.by] : t \in recs' /\ t.kind = "entry" /\ t.who = s.who /\ s.h < t.h
      BY DEF BoxedAgain, IsEntry
    <2>2. Before(s, r) /\ r \in recs /\ s \in recs
      BY <1>4, <2>1 DEF Before, IsRemoval, IsEntry, IsKey
    <2>3. PICK t \in accepted[r.by] : IsEntry(t) /\ t.who = s.who /\ s.h < t.h
      BY <2>1, <2>2 DEF IInv, BoxedAgain
    <2>4. t \in accepted'[r.by] /\ t \in recs'
      BY <1>1, <1>2, <2>2, <2>3
    <2>5. QED
      BY <2>3, <2>4 DEF IsEntry
  <1>6. ~Rivals' => ~Rivals
    BY <1>1 DEF Rivals
  <1>7. QED
    BY <1>4, <1>5, <1>6

(* A write of entries and admin lists by somebody who keeps its epochs. *)
LEMMA RosterWriteKeeps ==
  ASSUME Group, IInv, NEW d \in Person, NEW R, Writes(d, R), UNCHANGED <<epochs, tokens, handed>>,
         adm' \in [Person -> AdminList],
         \A r \in R : r.by = d /\ r.h = Now(d) /\ r.n \in Nat /\ r.to \in SUBSET Person,
         \A r \in R : r.kind \in {"entry", "grants", "post"},
         \A r, s \in R : r.kind = "entry" /\ s.kind = "entry" => r = s,
         \A r \in R : r.kind = "entry" => In(r.who),
         \A r \in R : r.kind = "grants" => \A x \in r.to : In(x),
         \A e \in Person : \A x \in adm'[e].list : In(x)
  PROVE  IInv'
  <1>1. Types /\ Records
    BY DEF IInv, Records
  <1>2. /\ epochs' \in [Person -> Known]
        /\ \A t \in tokens' : /\ t.epochs \in Known /\ t.adm \in AdminList
                              /\ t.token.role \in {"member", "admin"}
        /\ handed' \in [Person -> SUBSET (1..MaxEpoch)]
    BY <1>1 DEF Types
  <1>3. Records' /\ \A r \in R, s \in recs : s.by = d => s.h < r.h
    BY <1>1, <1>2, WritingKeeps
  <1>4. Types'
    BY <1>3 DEF Records
  <1>5. /\ \A r, s : Before(s, r)' => Before(s, r)
        /\ BoxedAgain' /\ (~Rivals' => ~Rivals)
    <2>1. \A r \in R : r.by = d /\ r.kind # "keys"
      OBVIOUS
    <2>2. QED
      BY <1>3, <1>4, <2>1, PlainWriteKeeps
  <1>6. recs' = recs \cup R
    BY DEF Writes
  <1>7. EntriesIn'
    BY <1>6 DEF IInv, EntriesIn, IsEntry, In
  <1>8. AdminsIn'
    BY <1>6 DEF IInv, AdminsIn, In
  <1>9. EpochsAnnounced'
    BY <1>6 DEF IInv, EpochsAnnounced, Announced, IsKey
  <1>10. KeptOut'
    <2>1. SUFFICES ASSUME ~Rivals', NEW r \in recs', NEW s \in recs', Before(s, r)', s.who \notin r.to
                   PROVE  epochs'[s.who][r.n] = Nobody \/ r.n \in handed'[s.who]
      BY DEF KeptOut
    <2>2. Before(s, r) /\ ~Rivals
      BY <1>5, <2>1
    <2>3. r \in recs /\ s \in recs
      BY <2>2 DEF Before, IsRemoval, IsEntry, IsKey
    <2>4. QED
      BY <2>1, <2>2, <2>3 DEF IInv, KeptOut
  <1>11. QED
    BY <1>3, <1>5, <1>7, <1>8, <1>9, <1>10 DEF IInv

-----------------------------------------------------------------------------
(* One lemma per action. *)

(* What comes with an invite of d. *)
Brought(d) == [n \in 0..MaxEpoch |-> IF n = 0 \/ IsAdmin(d, epochs[d][n]) THEN epochs[d][n] ELSE Nobody]

LEMMA BroughtIs ==
  ASSUME Group, Types, NEW d \in Person
  PROVE  /\ Brought(d) \in Known /\ Brought(d)[0] = epochs[d][0]
         /\ \A n \in 0..MaxEpoch : Brought(d)[n] # Nobody => Brought(d)[n] = epochs[d][n]
BY DEF Group, Types, Known, Brought

LEMMA InviteKeeps ==
  ASSUME Group, IInv, NEW d \in Person, NEW role \in {"member", "admin"}, Invite(d, role)
  PROVE  IInv'
  <1>1. /\ UNCHANGED <<recs, accepted, epochs, adm, handed>> /\ IsAdmin(d, d)
        /\ \A t \in tokens' : \/ t \in tokens
                              \/ t.token.role = role /\ t.epochs = Brought(d) /\ t.adm = adm[d]
    <2>1. /\ UNCHANGED <<recs, accepted, epochs, adm, handed>> /\ IsAdmin(d, d)
          /\ tokens' = tokens \cup
               {[token |-> [by |-> d, role |-> role, id |-> Cardinality(tokens) + 1], adm |-> adm[d],
                 epochs |-> Brought(d)]}
      BY ZenonT(30) DEF Invite, Brought
    <2>2. QED
      BY <2>1
  <1>2. Types /\ AdminsIn /\ EpochsAnnounced
    BY DEF IInv, Records
  <1>3. In(d)
    BY <1>1, <1>2 DEF IsAdmin, AdminsIn
  <1>4. /\ Brought(d) \in Known /\ Brought(d)[0] = epochs[d][0]
        /\ \A n \in 0..MaxEpoch : Brought(d)[n] # Nobody => Brought(d)[n] = epochs[d][n]
    BY <1>2, BroughtIs
  <1>5. Types'
    <2>1. adm[d] \in AdminList
      BY <1>2 DEF Types
    <2>2. \A t \in tokens' : t.epochs \in Known /\ t.adm \in AdminList /\ t.token.role \in {"member", "admin"}
      BY <1>1, <1>2, <1>4, <2>1 DEF Types
    <2>3. QED
      BY <1>1, <1>2, <2>2 DEF Types
  <1>6. Own' /\ Stamped' /\ Bounded' /\ Distinct' /\ EntriesIn' /\ BoxedAgain' /\ KeptOut'
    BY <1>1 DEF IInv, Records, Own, Stamped, Stamp, Bounded, Distinct, IsRemoval, IsEntry,
                IsKey, EntriesIn, In, BoxedAgain, Before, KeptOut, Rivals
  <1>7. AdminsIn'
    <2>1. \A t \in tokens' : t.epochs[0] # Nobody /\ \A x \in t.adm.list : In(x)
      BY <1>1, <1>2, <1>3, <1>4 DEF AdminsIn, In
    <2>2. QED
      BY <1>1, <1>2, <2>1 DEF AdminsIn, In
  <1>8. EpochsAnnounced'
    <2>1. \A t \in tokens' : Announced(t.epochs)
      <3>1. Announced(epochs[d])
        BY <1>2 DEF EpochsAnnounced
      <3>2. Announced(Brought(d))
        BY <1>4, <3>1 DEF Announced, Group
      <3>3. QED
        BY <1>1, <1>2, <3>2 DEF EpochsAnnounced
    <2>2. QED
      BY <1>1, <1>2, <2>1 DEF EpochsAnnounced, Announced, IsKey
  <1>9. QED
    BY <1>5, <1>6, <1>7, <1>8 DEF IInv, Records

LEMMA RevealKeeps ==
  ASSUME Group, IInv, NEW d \in Person, Reveal(d)
  PROVE  IInv'
  <1> DEFINE r == [Blank(d, "entry") EXCEPT !.who = d, !.role = Role(d, d)]
  <1>1. /\ Writes(d, {r}) /\ UNCHANGED <<epochs, adm, tokens, handed>> /\ Role(d, d) \in {"admin", "member"}
    BY DEF Reveal
  <1>2. /\ r.kind = "entry" /\ r.by = d /\ r.h = Now(d) /\ r.n = 0 /\ r.to = {} /\ r.who = d
        /\ r.role = Role(d, d)
    BY DEF Blank
  <1> HIDE DEF r
  <1>3. Types /\ EntriesIn /\ AdminsIn
    BY DEF IInv, Records
  <1>4. In(d)
    <2>1. EntriesOf(d, d) # {}
      BY <1>1 DEF Role
    <2>2. PICK s \in accepted[d] : s.kind = "entry" /\ s.who = d
      BY <2>1 DEF EntriesOf
    <2>3. QED
      BY <1>3, <2>2 DEF EntriesIn, IsEntry, Types
  <1>5. adm' \in [Person -> AdminList] /\ \A e \in Person : \A x \in adm'[e].list : In(x)
    BY <1>1, <1>3 DEF Types, AdminsIn
  <1>6. QED
    BY <1>1, <1>2, <1>4, <1>5, RosterWriteKeeps

LEMMA PostKeeps ==
  ASSUME Group, IInv, NEW d \in Person, Post(d)
  PROVE  IInv'
  <1> DEFINE r == Blank(d, "post")
  <1>1. Writes(d, {r}) /\ UNCHANGED <<epochs, adm, tokens, handed>>
    BY DEF Post
  <1>2. r.kind = "post" /\ r.by = d /\ r.h = Now(d) /\ r.n = 0 /\ r.to = {}
    BY DEF Blank
  <1> HIDE DEF r
  <1>3. adm' \in [Person -> AdminList] /\ \A e \in Person : \A x \in adm'[e].list : In(x)
    BY <1>1 DEF IInv, Records, Types, AdminsIn
  <1>4. QED
    BY <1>1, <1>2, <1>3, RosterWriteKeeps

(* Who has a role somewhere has an entry there, and so has been let in. *)
LEMMA RoleIn ==
  ASSUME IInv, NEW d \in Person, NEW x, Role(d, x) # "none"
  PROVE  In(x) /\ EntriesOf(d, x) # {}
  <1>1. EntriesOf(d, x) # {}
    BY DEF Role
  <1>2. PICK s \in accepted[d] : s.kind = "entry" /\ s.who = x
    BY <1>1 DEF EntriesOf
  <1>3. QED
    BY <1>1, <1>2 DEF IInv, Records, EntriesIn, IsEntry, Types

LEMMA PromoteKeeps ==
  ASSUME Group, IInv, NEW x \in Person, Promote(x)
  PROVE  IInv'
  <1> DEFINE list == {y \in Person : y = x \/ Role(Owner, y) = "admin"}
             r == [Blank(Owner, "entry") EXCEPT !.who = x, !.role = "admin",
                     !.token = Best(EntriesOf(Owner, x)).token]
             g == [Blank(Owner, "grants") EXCEPT !.n = adm[Owner].seq + 1, !.to = list]
  <1>1. /\ Writes(Owner, {r, g}) /\ UNCHANGED <<epochs, tokens, handed>> /\ Role(Owner, x) # "none"
        /\ adm' = [adm EXCEPT ![Owner] = [seq |-> @.seq + 1, list |-> list]]
    BY DEF Promote
  <1>2. r.kind = "entry" /\ r.by = Owner /\ r.h = Now(Owner) /\ r.n = 0 /\ r.to = {} /\ r.who = x
        /\ r.role = "admin"
    BY DEF Blank
  <1>3. g.kind = "grants" /\ g.by = Owner /\ g.h = Now(Owner) /\ g.n = adm[Owner].seq + 1 /\ g.to = list
    BY DEF Blank
  <1> HIDE DEF r, g
  <1>4. Owner \in Person
    BY DEF Group
  <1>5. \A y \in list : In(y)
    BY <1>1, <1>4, RoleIn
  <1>6. In(x)
    BY <1>5
  <1>7. list \in SUBSET Person
    OBVIOUS
  <1> HIDE DEF list
  <1>8. Types /\ AdminsIn
    BY DEF IInv, Records
  <1>9. adm[Owner].seq + 1 \in Nat
    BY <1>4, <1>8 DEF Types, AdminList
  <1>10. adm' \in [Person -> AdminList]
    BY <1>1, <1>4, <1>7, <1>8, <1>9 DEF Types, AdminList
  <1>11. \A e \in Person : \A y \in adm'[e].list : In(y)
    <2>1. TAKE e \in Person
    <2>2. adm'[e].list = list \/ adm'[e] = adm[e]
      BY <1>1, <1>4, <1>8 DEF Types
    <2>3. QED
      BY <1>5, <1>8, <2>2 DEF AdminsIn
  <1>12. /\ \A s \in {r, g} : s.by = Owner /\ s.h = Now(Owner) /\ s.n \in Nat /\ s.to \in SUBSET Person
         /\ \A s \in {r, g} : s.kind \in {"entry", "grants", "post"}
         /\ \A s, t \in {r, g} : s.kind = "entry" /\ t.kind = "entry" => s = t
         /\ \A s \in {r, g} : s.kind = "entry" => In(s.who)
         /\ \A s \in {r, g} : s.kind = "grants" => \A y \in s.to : In(y)
    BY <1>2, <1>3, <1>5, <1>6, <1>7, <1>9
  <1>13. QED
    BY <1>1, <1>4, <1>10, <1>11, <1>12, RosterWriteKeeps

LEMMA RemoveKeeps ==
  ASSUME Group, IInv, NEW d \in Person, NEW x \in Person, Remove(d, x)
  PROVE  IInv'
  <1> DEFINE r == [Blank(d, "entry") EXCEPT !.who = x, !.role = "removed",
                     !.token = Best(EntriesOf(d, x)).token]
  <1>1. Writes(d, {r}) /\ UNCHANGED <<epochs, adm, tokens, handed>> /\ x \in Listed(d) \ {Owner}
    BY DEF Remove
  <1>2. r.kind = "entry" /\ r.by = d /\ r.h = Now(d) /\ r.n = 0 /\ r.to = {} /\ r.who = x
    BY DEF Blank
  <1> HIDE DEF r
  <1>3. In(x)
    <2>1. PICK s \in accepted[d] : s.kind = "entry" /\ s.who = x
      BY <1>1 DEF Listed, EntriesOf
    <2>2. QED
      BY <2>1 DEF IInv, Records, EntriesIn, IsEntry, Types
  <1>4. adm' \in [Person -> AdminList] /\ \A e \in Person : \A y \in adm'[e].list : In(y)
    BY <1>1 DEF IInv, Records, Types, AdminsIn
  <1>5. QED
    BY <1>1, <1>2, <1>3, <1>4, RosterWriteKeeps

(* What a device holds with an invite opened. *)
LEMMA MergedIs ==
  ASSUME NEW known \in Known, NEW brought \in Known
  PROVE  /\ Merged(known, brought) \in Known
         /\ \A n \in 0..MaxEpoch :
              /\ brought[n] # Nobody => Merged(known, brought)[n] = brought[n]
              /\ brought[n] = Nobody => Merged(known, brought)[n] = known[n]
BY DEF Known, Merged

LEMMA NewerIs ==
  ASSUME NEW L \in AdminList, NEW M \in AdminList
  PROVE  /\ Newer(L, M) \in {L, M} /\ Newer(L, M) \in AdminList
         /\ L.seq <= Newer(L, M).seq /\ M.seq <= Newer(L, M).seq
BY DEF AdminList, Newer

LEMMA OpeningIs ==
  ASSUME Group, IInv, NEW x \in Person, AcceptInvite(x)
  PROVE  \E t \in tokens :
           /\ epochs' \in [Person -> Known] /\ adm' \in [Person -> AdminList]
           /\ handed' \in [Person -> SUBSET (1..MaxEpoch)] /\ tokens' = tokens
           /\ t.epochs \in Known /\ t.adm \in AdminList
           /\ epochs'[x] = Merged(epochs[x], t.epochs) /\ adm'[x] = Newer(adm[x], t.adm)
           /\ \A n \in 1..MaxEpoch : n \in handed'[x] <=> (n \in handed[x] \/ t.epochs[n] # Nobody)
           /\ \A e \in Person \ {x} : /\ epochs'[e] = epochs[e] /\ adm'[e] = adm[e]
                                      /\ handed'[e] = handed[e]
           /\ \/ Join(x, t, Merged(epochs[x], t.epochs))
              \/ x \in Listed(x) /\ UNCHANGED <<recs, accepted, overtaken>>
  <1>1. PICK t \in tokens :
          /\ epochs' = [epochs EXCEPT ![x] = Merged(@, t.epochs)]
          /\ adm' = [adm EXCEPT ![x] = Newer(@, t.adm)]
          /\ handed' = [handed EXCEPT ![x] = @ \cup {n \in 1..MaxEpoch : t.epochs[n] # Nobody}]
          /\ \/ Join(x, t, Merged(epochs[x], t.epochs))
             \/ x \in Listed(x) /\ UNCHANGED <<recs, accepted, overtaken>>
          /\ tokens' = tokens
    BY DEF AcceptInvite
  <1>2. /\ epochs \in [Person -> Known] /\ adm \in [Person -> AdminList]
        /\ handed \in [Person -> SUBSET (1..MaxEpoch)] /\ t.epochs \in Known /\ t.adm \in AdminList
    BY DEF IInv, Records, Types
  <1>3. Merged(epochs[x], t.epochs) \in Known /\ Newer(adm[x], t.adm) \in AdminList
    BY <1>2, MergedIs, NewerIs
  <1>4. epochs' \in [Person -> Known] /\ adm' \in [Person -> AdminList]
    BY <1>1, <1>2, <1>3
  <1>5. handed' \in [Person -> SUBSET (1..MaxEpoch)]
    BY <1>1, <1>2
  <1>6. \A n \in 1..MaxEpoch : n \in handed'[x] <=> (n \in handed[x] \/ t.epochs[n] # Nobody)
    BY <1>1, <1>2
  <1>7. /\ epochs'[x] = Merged(epochs[x], t.epochs) /\ adm'[x] = Newer(adm[x], t.adm)
        /\ \A e \in Person \ {x} : epochs'[e] = epochs[e] /\ adm'[e] = adm[e] /\ handed'[e] = handed[e]
    BY <1>1, <1>2
  <1>8. QED
    BY <1>1, <1>2, <1>4, <1>5, <1>6, <1>7

(* The entry of who joins. *)
EntryOf(x, t, known) ==
  [Blank(x, "entry") EXCEPT !.who = x, !.role = t.token.role, !.token = t.token,
     !.ep = [n |-> LastOf(known), maker |-> known[LastOf(known)]]]

LEMMA EntryOfIs ==
  ASSUME NEW x, NEW t, NEW known
  PROVE  /\ EntryOf(x, t, known).kind = "entry" /\ EntryOf(x, t, known).by = x
         /\ EntryOf(x, t, known).h = Now(x) /\ EntryOf(x, t, known).n = 0
         /\ EntryOf(x, t, known).to = {} /\ EntryOf(x, t, known).who = x
         /\ EntryOf(x, t, known).role = t.token.role /\ EntryOf(x, t, known).token = t.token
         /\ EntryOf(x, t, known).ep = [n |-> LastOf(known), maker |-> known[LastOf(known)]]
BY DEF EntryOf, Blank

(* What opening an invite adds to the epochs of who opens it is handed to it. *)
LEMMA AcceptInviteKeeps ==
  ASSUME Group, IInv, NEW x \in Person, AcceptInvite(x)
  PROVE  IInv'
  <1>1. PICK t \in tokens :
          /\ epochs' \in [Person -> Known] /\ adm' \in [Person -> AdminList]
          /\ handed' \in [Person -> SUBSET (1..MaxEpoch)] /\ tokens' = tokens
          /\ t.epochs \in Known /\ t.adm \in AdminList
          /\ epochs'[x] = Merged(epochs[x], t.epochs) /\ adm'[x] = Newer(adm[x], t.adm)
          /\ \A n \in 1..MaxEpoch : n \in handed'[x] <=> (n \in handed[x] \/ t.epochs[n] # Nobody)
          /\ \A e \in Person \ {x} : /\ epochs'[e] = epochs[e] /\ adm'[e] = adm[e]
                                     /\ handed'[e] = handed[e]
          /\ \/ Join(x, t, Merged(epochs[x], t.epochs))
             \/ x \in Listed(x) /\ UNCHANGED <<recs, accepted, overtaken>>
    BY OpeningIs
  <1> DEFINE known == Merged(epochs[x], t.epochs)
             r == EntryOf(x, t, known)
  <1>2. /\ r.kind = "entry" /\ r.by = x /\ r.h = Now(x) /\ r.n = 0 /\ r.to = {} /\ r.who = x
        /\ r.role = t.token.role
    BY DEF EntryOf, Blank
  <1>3. Writes(x, {r}) \/ UNCHANGED <<recs, accepted>>
    BY <1>1 DEF Join, EntryOf
  <1> HIDE DEF r
  <1>4. Types /\ Records /\ EntriesIn /\ AdminsIn /\ EpochsAnnounced
    BY DEF IInv, Records
  <1>5. /\ epochs[x] \in Known /\ adm[x] \in AdminList
        /\ t.token.role \in {"member", "admin"}
        /\ t.epochs[0] # Nobody /\ \A y \in t.adm.list : In(y)
    BY <1>4 DEF Types, AdminsIn
  <1>6. \A n \in 0..MaxEpoch :
          /\ t.epochs[n] # Nobody => epochs'[x][n] = t.epochs[n]
          /\ t.epochs[n] = Nobody => epochs'[x][n] = epochs[x][n]
    BY <1>1, <1>5, MergedIs
  <1> HIDE DEF known
  <1>7. \A s \in tokens' : s.epochs \in Known /\ s.adm \in AdminList /\ s.token.role \in {"member", "admin"}
    BY <1>1, <1>4 DEF Types
  <1>8. Records'
    <2>1. CASE Writes(x, {r})
      <3>1. \A s \in {r} : s.by = x /\ s.h = Now(x) /\ s.n \in Nat /\ s.to \in SUBSET Person /\ s.kind = "entry"
        BY <1>2
      <3>2. QED
        BY <1>1, <1>4, <1>7, <2>1, <3>1, WritingKeeps
    <2>2. CASE UNCHANGED <<recs, accepted>>
      <3>1. Types'
        BY <1>1, <1>4, <1>7, <2>2 DEF Types
      <3>2. QED
        BY <1>4, <2>2, <3>1 DEF Records, Own, Stamped, Stamp, Bounded, Distinct, IsEntry
    <2>3. QED
      BY <1>3, <2>1, <2>2
  <1>9. Types'
    BY <1>8 DEF Records
  <1>10. /\ \A s, u : Before(s, u)' => Before(s, u)
         /\ BoxedAgain' /\ (~Rivals' => ~Rivals)
    <2>1. CASE Writes(x, {r})
      <3>1. \A s \in {r}, u \in recs : u.by = x => u.h < s.h
        <4>1. Now(x) \in Nat /\ \A u \in accepted[x] : u.h < Now(x)
          BY <1>4, NowIs DEF Records
        <4>2. QED
          BY <1>2, <1>4, <4>1 DEF Records, Own
      <3>2. \A s \in {r} : s.by = x /\ s.kind # "keys"
        BY <1>2
      <3>3. QED
        BY <1>9, <2>1, <3>1, <3>2, PlainWriteKeeps
    <2>2. CASE UNCHANGED <<recs, accepted>>
      BY <2>2 DEF IInv, BoxedAgain, Before, IsRemoval, IsKey, IsEntry, Rivals
    <2>3. QED
      BY <1>3, <2>1, <2>2
  <1>11. recs' = recs \cup {r} \/ recs' = recs
    BY <1>3 DEF Writes
  <1>12. In(x)' /\ \A y : In(y) => In(y)'
    <2>1. 0 \in 0..MaxEpoch
      BY DEF Group
    <2>2. epochs'[x][0] # Nobody
      BY <1>5, <1>6, <2>1
    <2>3. QED
      BY <1>1, <2>2 DEF In
  <1>13. EntriesIn'
    <2>1. \A s \in recs' : s.kind = "entry" => In(s.who)'
      BY <1>2, <1>4, <1>11, <1>12 DEF EntriesIn, IsEntry
    <2>2. QED
      BY <2>1 DEF EntriesIn, IsEntry, In
  <1>14. AdminsIn'
    <2>1. In(Owner)'
      BY <1>4, <1>12 DEF AdminsIn
    <2>2. \A s \in recs' : s.kind = "grants" => \A y \in s.to : In(y)'
      BY <1>2, <1>4, <1>11, <1>12 DEF AdminsIn
    <2>3. \A d \in Person : \A y \in adm'[d].list : In(y)'
      <3>1. TAKE d \in Person
      <3>2. adm'[d] = t.adm \/ adm'[d] = adm[d]
        BY <1>1, <1>5, NewerIs
      <3>3. QED
        BY <1>4, <1>5, <1>12, <3>2 DEF AdminsIn
    <2>4. \A s \in tokens' : s.epochs[0] # Nobody /\ \A y \in s.adm.list : In(y)'
      BY <1>1, <1>4, <1>12 DEF AdminsIn
    <2>5. QED
      BY <2>1, <2>2, <2>3, <2>4 DEF AdminsIn, In
  <1>15. EpochsAnnounced'
    <2>1. \A u \in tokens : \A n \in 1..MaxEpoch :
            u.epochs[n] # Nobody => \E s \in recs' : s.kind = "keys" /\ s.n = n
      BY <1>4, <1>11 DEF EpochsAnnounced, Announced, IsKey
    <2>2. \A d \in Person : \A n \in 1..MaxEpoch :
            epochs[d][n] # Nobody => \E s \in recs' : s.kind = "keys" /\ s.n = n
      BY <1>4, <1>11 DEF EpochsAnnounced, Announced, IsKey
    <2>3. \A d \in Person : \A n \in 1..MaxEpoch :
            epochs'[d][n] # Nobody => \E s \in recs' : s.kind = "keys" /\ s.n = n
      <3>1. SUFFICES ASSUME NEW d \in Person, NEW n \in 1..MaxEpoch, epochs'[d][n] # Nobody
                     PROVE  \E s \in recs' : s.kind = "keys" /\ s.n = n
        OBVIOUS
      <3>2. CASE d = x
        <4>1. n \in 0..MaxEpoch
          BY DEF Group
        <4>2. t.epochs[n] # Nobody \/ epochs[x][n] # Nobody
          BY <1>6, <3>1, <3>2, <4>1
        <4>3. QED
          BY <2>1, <2>2, <4>2
      <3>3. CASE d # x
        BY <1>1, <2>2, <3>1, <3>3
      <3>4. QED
        BY <3>2, <3>3
    <2>4. QED
      BY <1>1, <2>1, <2>3 DEF EpochsAnnounced, Announced, IsKey
  <1>16. KeptOut'
    <2>1. SUFFICES ASSUME ~Rivals', NEW u \in recs', NEW s \in recs', Before(s, u)', s.who \notin u.to
                   PROVE  epochs'[s.who][u.n] = Nobody \/ u.n \in handed'[s.who]
      BY DEF KeptOut
    <2>2. Before(s, u) /\ ~Rivals
      BY <1>10, <2>1
    <2>3. u \in recs /\ s \in recs /\ IsEntry(s) /\ u.kind = "keys"
      BY <2>2 DEF Before, IsRemoval, IsEntry, IsKey
    <2>4. s.who \in Person /\ u.n \in 1..MaxEpoch
      BY <1>4, <2>3 DEF EntriesIn, In, Types
    <2>5. epochs[s.who][u.n] = Nobody \/ u.n \in handed[s.who]
      BY <2>1, <2>2, <2>3 DEF IInv, KeptOut
    <2>6. CASE s.who = x
      <3>1. u.n \in 0..MaxEpoch
        BY <2>4 DEF Group
      <3>2. QED
        BY <1>1, <1>6, <2>4, <2>5, <2>6, <3>1
    <2>7. CASE s.who # x
      BY <1>1, <2>4, <2>5, <2>7
    <2>8. QED
      BY <2>6, <2>7
  <1>17. QED
    BY <1>8, <1>10, <1>13, <1>14, <1>15, <1>16 DEF IInv

(* The new key is boxed for those whose newest entry is no removal; whoever *)
(* already held that epoch would hold a rival's.                            *)
LEMMA RotateKeeps ==
  ASSUME Group, IInv, NEW d \in Person, Rotate(d)
  PROVE  IInv'
  <1> DEFINE r == [Blank(d, "keys") EXCEPT !.n = Latest(d) + 1, !.to = Recipients(d),
                     !.ep = PublishedUnder(d)]
             n == Latest(d) + 1
  <1>1. /\ Writes(d, {r}) /\ UNCHANGED <<adm, tokens, handed>> /\ Latest(d) < MaxEpoch
        /\ epochs' = [epochs EXCEPT ![d][n] = d]
    BY DEF Rotate
  <1>2. r.kind = "keys" /\ r.by = d /\ r.h = Now(d) /\ r.n = n /\ r.to = Recipients(d)
    BY DEF Blank
  <1> HIDE DEF r
  <1>3. Types /\ Records /\ EntriesIn /\ AdminsIn /\ EpochsAnnounced
    BY DEF IInv, Records
  <1>4. n \in Nat /\ n \in 1..MaxEpoch
    <2>1. epochs[d] \in Known
      BY <1>3 DEF Types
    <2>2. Latest(d) \in 0..MaxEpoch /\ MaxEpoch \in Nat
      BY <2>1, LastIs DEF Latest, Group
    <2>3. QED
      BY <1>1, <2>2
  <1> HIDE DEF n
  <1>5. Recipients(d) \in SUBSET Person /\ d # Nobody
    BY DEF Recipients, Active, Group
  <1>6. epochs \in [Person -> Known] /\ epochs' \in [Person -> Known]
    BY <1>1, <1>3, <1>4 DEF Types, Known
  <1>7. /\ adm' \in [Person -> AdminList]
        /\ \A t \in tokens' : t.epochs \in Known /\ t.adm \in AdminList /\ t.token.role \in {"member", "admin"}
        /\ handed' \in [Person -> SUBSET (1..MaxEpoch)]
    BY <1>1, <1>3 DEF Types
  <1>8. Records' /\ \A s \in {r}, u \in recs : u.by = d => u.h < s.h
    <2>1. \A s \in {r} :
            /\ s.by = d /\ s.h = Now(d) /\ s.n \in Nat /\ s.to \in SUBSET Person
            /\ s.kind = "keys" /\ s.n \in 1..MaxEpoch
      BY <1>2, <1>4, <1>5
    <2>2. QED
      BY <1>1, <1>3, <1>6, <1>7, <2>1, WritingKeeps
  <1>9. /\ recs' = recs \cup {r} /\ accepted \in [Person -> SUBSET recs]
        /\ accepted' = [accepted EXCEPT ![d] = @ \cup {r}]
    BY <1>1, <1>3 DEF Writes, Types
  <1>10. \A x \in Person, m \in 0..MaxEpoch :
           epochs'[x][m] = IF x = d /\ m = n THEN d ELSE epochs[x][m]
    BY <1>1, <1>4, <1>6 DEF Known
  <1>11. \A x : In(x) => In(x)'
    BY <1>4, <1>5, <1>10 DEF In, Group
  <1>12. r \notin recs
    <2>1. SUFFICES ASSUME r \in recs PROVE FALSE
      OBVIOUS
    <2>2. r.h \in Nat /\ r.h < r.h
      BY <1>2, <1>3, <1>8, <2>1 DEF Types
    <2>3. QED
      BY <2>2
  <1>13. \A s, u : Before(s, u)' =>
           /\ s \in recs /\ IsRemoval(s) /\ s.by = u.by
           /\ u = r \/ Before(s, u)
    BY <1>2, <1>9 DEF Before, IsRemoval, IsEntry, IsKey
  <1>14. EntriesIn'
    <2>1. \A s \in recs' : s.kind = "entry" => In(s.who)'
      BY <1>2, <1>3, <1>9, <1>11 DEF EntriesIn, IsEntry
    <2>2. QED
      BY <2>1 DEF EntriesIn, IsEntry, In
  <1>15. AdminsIn'
    <2>1. In(Owner)' /\ \A s \in recs' : s.kind = "grants" => \A y \in s.to : In(y)'
      BY <1>2, <1>3, <1>9, <1>11 DEF AdminsIn
    <2>2. /\ \A e \in Person : \A y \in adm'[e].list : In(y)'
          /\ \A s \in tokens' : s.epochs[0] # Nobody /\ \A y \in s.adm.list : In(y)'
      BY <1>1, <1>3, <1>11 DEF AdminsIn
    <2>3. QED
      BY <2>1, <2>2 DEF AdminsIn, In
  <1>16. EpochsAnnounced'
    <2>1. r \in recs' /\ r.kind = "keys" /\ r.n = n
      BY <1>2, <1>9
    <2>2. \A e \in Person : \A m \in 1..MaxEpoch :
            epochs'[e][m] # Nobody => \E s \in recs' : s.kind = "keys" /\ s.n = m
      <3>1. SUFFICES ASSUME NEW e \in Person, NEW m \in 1..MaxEpoch, epochs'[e][m] # Nobody
                     PROVE  \E s \in recs' : s.kind = "keys" /\ s.n = m
        OBVIOUS
      <3>2. CASE m = n
        BY <2>1, <3>2
      <3>3. CASE m # n
        <4>1. m \in 0..MaxEpoch
          BY DEF Group
        <4>2. epochs[e][m] # Nobody
          BY <1>10, <3>1, <3>3, <4>1
        <4>3. QED
          BY <1>3, <1>9, <4>2 DEF EpochsAnnounced, Announced, IsKey
      <3>4. QED
        BY <3>2, <3>3
    <2>3. \A t \in tokens' : \A m \in 1..MaxEpoch :
            t.epochs[m] # Nobody => \E s \in recs' : s.kind = "keys" /\ s.n = m
      BY <1>1, <1>3, <1>9 DEF EpochsAnnounced, Announced, IsKey
    <2>4. QED
      BY <2>2, <2>3 DEF EpochsAnnounced, Announced, IsKey
  <1>17. BoxedAgain'
    <2>1. SUFFICES ASSUME NEW u \in recs', NEW s \in recs', Before(s, u)', s.who \in u.to
                   PROVE  \E t \in accepted'[u.by] : t \in recs' /\ t.kind = "entry" /\ t.who = s.who /\ s.h < t.h
      BY DEF BoxedAgain, IsEntry
    <2>2. s \in recs /\ IsRemoval(s) /\ s.by = u.by /\ (u = r \/ Before(s, u))
      BY <1>13, <2>1
    <2>3. CASE u = r
      <3>1. Role(d, s.who) \in {"owner", "admin", "member"}
        BY <1>2, <2>1, <2>3 DEF Recipients, Active
      <3>2. EntriesOf(d, s.who) # {} /\ Best(EntriesOf(d, s.who)).role # "removed"
        BY <3>1 DEF Role
      <3>3. EntriesOf(d, s.who) \subseteq recs /\ s \in EntriesOf(d, s.who)
        BY <1>2, <1>3, <1>9, <2>2, <2>3 DEF Own, Records, EntriesOf, IsRemoval, IsEntry
      <3>4. PICK b \in EntriesOf(d, s.who) : s.h <= b.h /\ b.role # "removed"
        BY <1>3, <3>2, <3>3, BestIs DEF Records
      <3>5. b \in accepted[d] /\ b.kind = "entry" /\ b.who = s.who /\ b \in recs
        BY <3>3, <3>4 DEF EntriesOf
      <3>6. b # s
        BY <2>2, <3>4 DEF IsRemoval
      <3>7. b.h # s.h
        BY <1>3, <2>2, <3>5, <3>6 DEF Records, Distinct, IsEntry, IsRemoval
      <3>8. s.h < b.h
        BY <1>3, <2>2, <3>4, <3>5, <3>7 DEF Types
      <3>9. b \in accepted'[u.by] /\ b \in recs'
        BY <1>2, <1>9, <2>3, <3>5
      <3>10. QED
        BY <3>5, <3>8, <3>9
    <2>4. CASE Before(s, u)
      <3>1. u \in recs
        BY <2>4 DEF Before, IsKey
      <3>2. PICK t \in accepted[u.by] : IsEntry(t) /\ t.who = s.who /\ s.h < t.h
        BY <2>1, <2>2, <2>4, <3>1 DEF IInv, BoxedAgain
      <3>3. u.by \in Person
        BY <1>3, <3>1 DEF Types
      <3>4. t \in accepted'[u.by] /\ t \in recs'
        BY <1>9, <3>2, <3>3
      <3>5. QED
        BY <3>2, <3>4 DEF IsEntry
    <2>5. QED
      BY <2>2, <2>3, <2>4
  <1>18. KeptOut'
    <2>1. SUFFICES ASSUME ~Rivals', NEW u \in recs', NEW s \in recs', Before(s, u)', s.who \notin u.to
                   PROVE  epochs'[s.who][u.n] = Nobody \/ u.n \in handed'[s.who]
      BY DEF KeptOut
    <2>2. s \in recs /\ IsRemoval(s) /\ s.by = u.by /\ (u = r \/ Before(s, u))
      BY <1>13, <2>1
    <2>3. \A k \in recs : k.kind = "keys" => k.n # n
      BY <1>2, <1>9, <1>12, <2>1 DEF Rivals
    <2>4. s.who \in Person
      BY <1>3, <2>2 DEF EntriesIn, In, IsRemoval
    <2>5. CASE u = r
      <3>1. s.who # d
        BY <1>2, <2>2, <2>5 DEF IsRemoval
      <3>2. epochs[s.who][n] = Nobody
        BY <1>3, <1>4, <2>3, <2>4 DEF EpochsAnnounced, Announced, IsKey
      <3>3. n \in 0..MaxEpoch
        BY <1>4 DEF Group
      <3>4. QED
        BY <1>2, <1>10, <2>4, <2>5, <3>1, <3>2, <3>3
    <2>6. CASE Before(s, u) /\ u # r
      <3>1. u \in recs /\ u.kind = "keys"
        BY <2>6 DEF Before, IsKey
      <3>2. ~Rivals
        BY <1>9, <2>1 DEF Rivals
      <3>3. epochs[s.who][u.n] = Nobody \/ u.n \in handed[s.who]
        BY <2>1, <2>2, <2>6, <3>1, <3>2 DEF IInv, KeptOut
      <3>4. u.n # n
        BY <2>3, <3>1
      <3>5. epochs'[s.who][u.n] = epochs[s.who][u.n]
        <4>1. u.n \in 0..MaxEpoch
          BY <1>3, <3>1 DEF Types, Group
        <4>2. QED
          BY <1>10, <2>4, <3>4, <4>1
      <3>6. QED
        BY <1>1, <3>3, <3>5
    <2>7. QED
      BY <2>2, <2>5, <2>6
  <1>19. QED
    BY <1>8, <1>14, <1>15, <1>16, <1>17, <1>18 DEF IInv

LEMMA DeliverKeeps ==
  ASSUME Group, IInv, NEW d \in Person, NEW r \in recs, Deliver(d, r)
  PROVE  IInv'
  <1>1. /\ recs' = recs /\ tokens' = tokens /\ handed' = handed /\ accepted' = [accepted EXCEPT ![d] = @ \cup {r}]
        /\ adm' = IF r.kind = "grants" THEN [adm EXCEPT ![d] = Adopted(d, r)] ELSE adm
        /\ epochs' = epochs \/ (r.kind = "keys" /\ d \in r.to /\ epochs' = [epochs EXCEPT ![d][r.n] = r.by])
    BY DEF Deliver
  <1>2. Types /\ Records /\ EntriesIn /\ AdminsIn /\ EpochsAnnounced
    BY DEF IInv, Records
  <1>3. r.by \in Person /\ r.by # Nobody
    BY <1>2 DEF Types, Group
  <1>4. /\ epochs \in [Person -> Known] /\ epochs' \in [Person -> Known]
        /\ accepted \in [Person -> SUBSET recs] /\ adm \in [Person -> AdminList]
    <2>1. epochs \in [Person -> Known] /\ accepted \in [Person -> SUBSET recs] /\ adm \in [Person -> AdminList]
      BY <1>2 DEF Types
    <2>2. epochs[d] \in Known /\ r.by \in Person \cup {Nobody}
      BY <1>3, <2>1
    <2>3. [epochs[d] EXCEPT ![r.n] = r.by] \in Known
      BY <2>2 DEF Known
    <2>4. [epochs EXCEPT ![d][r.n] = r.by] \in [Person -> Known]
      BY <2>1, <2>3
    <2>5. QED
      BY <1>1, <2>1, <2>4
  <1>5. accepted' \in [Person -> SUBSET recs'] /\ \A e \in Person : accepted[e] \subseteq accepted'[e]
    BY <1>1, <1>4
  <1>6. \A x \in Person, m \in 0..MaxEpoch :
          \/ epochs'[x][m] = epochs[x][m]
          \/ r.kind = "keys" /\ x \in r.to /\ m = r.n /\ epochs'[x][m] = r.by
    <2>1. CASE epochs' = epochs
      BY <2>1
    <2>2. CASE r.kind = "keys" /\ d \in r.to /\ epochs' = [epochs EXCEPT ![d][r.n] = r.by]
      <3>1. \A x \in Person \ {d} : epochs'[x] = epochs[x]
        BY <1>4, <2>2
      <3>2. epochs[d] \in Known /\ epochs'[d] = [epochs[d] EXCEPT ![r.n] = r.by]
        BY <1>4, <2>2
      <3>3. \A m \in 0..MaxEpoch : epochs'[d][m] = IF m = r.n THEN r.by ELSE epochs[d][m]
        BY <3>2 DEF Known
      <3>4. QED
        BY <2>2, <3>1, <3>3
    <2>3. QED
      BY <1>1, <2>1, <2>2
  <1>7. \A x : In(x) => In(x)'
    BY <1>3, <1>6 DEF In, Group
  <1>8. Adopted(d, r) \in AdminList /\ (r.kind = "grants" => \A x \in Adopted(d, r).list : In(x))
    BY <1>2, <1>4 DEF Adopted, AdminList, Types, AdminsIn
  <1>9. Types'
    <2>1. adm' \in [Person -> AdminList]
      BY <1>1, <1>4, <1>8
    <2>2. QED
      BY <1>1, <1>2, <1>4, <1>5, <2>1 DEF Types
  <1>10. Own' /\ Stamped' /\ Bounded' /\ Distinct'
    <2>1. Own'
      BY <1>1, <1>2, <1>5 DEF Records, Own, Types
    <2>2. Stamped' /\ Bounded' /\ Distinct'
      BY <1>1, <1>2 DEF Records, Stamped, Stamp, Bounded, Distinct, IsEntry
    <2>3. QED
      BY <2>1, <2>2
  <1>11. EntriesIn'
    <2>1. \A s \in recs' : s.kind = "entry" => In(s.who)'
      BY <1>1, <1>2, <1>7 DEF EntriesIn, IsEntry
    <2>2. QED
      BY <2>1 DEF EntriesIn, IsEntry, In
  <1>12. AdminsIn'
    <2>1. In(Owner)' /\ \A s \in recs' : s.kind = "grants" => \A y \in s.to : In(y)'
      BY <1>1, <1>2, <1>7 DEF AdminsIn
    <2>2. \A e \in Person : \A y \in adm'[e].list : In(y)'
      <3>1. TAKE e \in Person
      <3>2. adm'[e] = adm[e] \/ (r.kind = "grants" /\ adm'[e] = Adopted(d, r))
        BY <1>1, <1>4
      <3>3. QED
        BY <1>2, <1>7, <1>8, <3>2 DEF AdminsIn
    <2>3. \A t \in tokens' : t.epochs[0] # Nobody /\ \A y \in t.adm.list : In(y)'
      BY <1>1, <1>2, <1>7 DEF AdminsIn
    <2>4. QED
      BY <2>1, <2>2, <2>3 DEF AdminsIn, In
  <1>13. EpochsAnnounced'
    <2>1. \A e \in Person : \A m \in 1..MaxEpoch :
            epochs'[e][m] # Nobody => \E s \in recs' : s.kind = "keys" /\ s.n = m
      <3>1. SUFFICES ASSUME NEW e \in Person, NEW m \in 1..MaxEpoch, epochs'[e][m] # Nobody
                     PROVE  \E s \in recs' : s.kind = "keys" /\ s.n = m
        OBVIOUS
      <3>2. m \in 0..MaxEpoch
        BY DEF Group
      <3>3. CASE epochs'[e][m] = epochs[e][m]
        BY <1>1, <1>2, <3>1, <3>3 DEF EpochsAnnounced, Announced, IsKey
      <3>4. CASE r.kind = "keys" /\ m = r.n
        BY <1>1, <3>4
      <3>5. QED
        BY <1>6, <3>2, <3>3, <3>4
    <2>2. \A t \in tokens' : \A m \in 1..MaxEpoch :
            t.epochs[m] # Nobody => \E s \in recs' : s.kind = "keys" /\ s.n = m
      BY <1>1, <1>2 DEF EpochsAnnounced, Announced, IsKey
    <2>3. QED
      BY <2>1, <2>2 DEF EpochsAnnounced, Announced, IsKey
  <1>14. \A s, u : Before(s, u)' => Before(s, u)
    BY <1>1 DEF Before, IsRemoval, IsEntry, IsKey
  <1>15. BoxedAgain'
    <2>1. SUFFICES ASSUME NEW u \in recs, NEW s \in recs, Before(s, u), s.who \in u.to
                   PROVE  \E t \in accepted'[u.by] : t \in recs' /\ t.kind = "entry" /\ t.who = s.who /\ s.h < t.h
      BY <1>1, <1>14 DEF BoxedAgain, IsEntry
    <2>2. PICK t \in accepted[u.by] : IsEntry(t) /\ t.who = s.who /\ s.h < t.h
      BY <2>1 DEF IInv, BoxedAgain
    <2>3. t \in accepted'[u.by] /\ t \in recs'
      BY <1>1, <1>2, <1>5, <2>2 DEF Types, IsEntry
    <2>4. QED
      BY <2>2, <2>3 DEF IsEntry
  <1>16. KeptOut'
    <2>1. SUFFICES ASSUME ~Rivals', NEW u \in recs, NEW s \in recs, Before(s, u), s.who \notin u.to
                   PROVE  epochs'[s.who][u.n] = Nobody \/ u.n \in handed'[s.who]
      BY <1>1, <1>14 DEF KeptOut
    <2>2. ~Rivals
      BY <1>1, <2>1 DEF Rivals
    <2>3. epochs[s.who][u.n] = Nobody \/ u.n \in handed[s.who]
      BY <2>1, <2>2 DEF IInv, KeptOut
    <2>4. s.who \in Person /\ u.kind = "keys" /\ u.n \in 0..MaxEpoch
      BY <1>2, <2>1 DEF Before, IsRemoval, IsKey, EntriesIn, In, Types, Group
    <2>5. ~ (r.kind = "keys" /\ s.who \in r.to /\ u.n = r.n)
      BY <2>1, <2>2, <2>4 DEF Rivals
    <2>6. QED
      BY <1>1, <1>6, <2>3, <2>4, <2>5
  <1>17. QED
    BY <1>9, <1>10, <1>11, <1>12, <1>13, <1>15, <1>16 DEF IInv, Records

(* A step that leaves records, indexes, epochs, lists and invites alone. *)
LEMMA IdleKeeps ==
  ASSUME IInv, UNCHANGED <<recs, accepted, epochs, adm, tokens, handed>>
  PROVE  IInv'
  <1>1. Types' /\ AdminsIn' /\ EpochsAnnounced' /\ Own' /\ EntriesIn'
    BY DEF IInv, Records, Types, AdminsIn, EpochsAnnounced, Announced, IsKey, In, Own, EntriesIn, IsEntry
  <1>2. Stamped' /\ Bounded' /\ Distinct'
    BY DEF IInv, Records, Stamped, Stamp, Bounded, Distinct, IsEntry
  <1>3. BoxedAgain' /\ KeptOut'
    BY DEF IInv, BoxedAgain, Before, IsRemoval, IsKey, IsEntry, KeptOut, Rivals
  <1>4. QED
    BY <1>1, <1>2, <1>3 DEF IInv, Records

-----------------------------------------------------------------------------
LEMMA InvInit == ASSUME Group PROVE Init => IInv
  <1>1. SUFFICES ASSUME Init PROVE IInv
    OBVIOUS
  <1>2. /\ Cardinality(Person) \in Nat /\ Owner \in Person \ Newcomer /\ Owner # Nobody
        /\ \A x \in Person : Number[x] \in Nat /\ Number[x] <= Cardinality(Person)
    BY FS_CardinalityType DEF Group
  <1>3. \A r \in recs : \E x \in Person \ Newcomer :
          /\ r = Founded(x) /\ r.kind = "entry" /\ r.by = Owner /\ r.h = Number[x] /\ r.who = x
          /\ r.role # "removed" /\ r.n = 0 /\ r.to = {}
    BY <1>1 DEF Init, Founded
  <1>4. epochs = [d \in Person |-> [n \in 0..MaxEpoch |->
                   IF n = 0 /\ d \notin Newcomer THEN Owner ELSE Nobody]]
    BY <1>1 DEF Init
  <1>5. MaxEpoch \in Nat
    BY DEF Group
  <1>6. Types
    <2>1. \A r \in recs : r.by \in Person /\ r.h \in Nat /\ r.n \in Nat /\ r.to \in SUBSET Person
      BY <1>2, <1>3
    <2>2. \A r \in recs : r.kind = "keys" => r.n \in 1..MaxEpoch
      BY <1>3
    <2>3. accepted \in [Person -> SUBSET recs] /\ adm \in [Person -> AdminList] /\ tokens = {}
      BY <1>1 DEF Init, AdminList
    <2>4. epochs \in [Person -> Known]
      BY <1>2, <1>4 DEF Known
    <2>5. handed \in [Person -> SUBSET (1..MaxEpoch)]
      BY <1>1 DEF Init
    <2>6. QED
      BY <2>1, <2>2, <2>3, <2>4, <2>5 DEF Types
  <1>7. Own
    BY <1>1, <1>2, <1>3 DEF Init, Own
  <1>8. Stamped /\ Bounded
    BY <1>2, <1>3 DEF Stamped, Bounded
  <1>9. Distinct
    BY <1>3 DEF Distinct, Group
  <1>10. \A x \in Person \ Newcomer : In(x)
    BY <1>2, <1>4, <1>5 DEF In
  <1>11. EntriesIn /\ AdminsIn
    BY <1>1, <1>2, <1>3, <1>10 DEF EntriesIn, AdminsIn, Init
  <1>12. EpochsAnnounced
    BY <1>1, <1>4, <1>5 DEF EpochsAnnounced, Announced, Init
  <1>13. BoxedAgain /\ KeptOut
    BY <1>3 DEF BoxedAgain, KeptOut, Before, IsKey
  <1>14. QED
    BY <1>6, <1>7, <1>8, <1>9, <1>11, <1>12, <1>13 DEF IInv, Records

LEMMA InvStep == ASSUME Group PROVE IInv /\ [Next]_vars => IInv'
  <1>1. SUFFICES ASSUME IInv, [Next]_vars PROVE IInv'
    OBVIOUS
  <1>2. CASE \E d \in Person : AcceptInvite(d) \/ Reveal(d) \/ Promote(d) \/ Rotate(d) \/ Post(d)
    BY <1>1, <1>2, AcceptInviteKeeps, RevealKeeps, PromoteKeeps, RotateKeeps, PostKeeps
  <1>8. CASE \E d \in Person, role \in {"member", "admin"} : Invite(d, role)
    BY <1>1, <1>8, InviteKeeps
  <1>3. CASE \E d, x \in Person : Remove(d, x)
    BY <1>1, <1>3, RemoveKeeps
  <1>4. CASE \E d \in Person, r \in recs : Deliver(d, r)
    BY <1>1, <1>4, DeliverKeeps
  <1>5. CASE \E d \in Person : Crash(d)
    BY <1>1, <1>5, IdleKeeps DEF Crash
  <1>6. CASE UNCHANGED vars
    BY <1>1, <1>6, IdleKeeps DEF vars
  <1>7. QED
    BY <1>1, <1>2, <1>3, <1>4, <1>5, <1>6, <1>8 DEF Next

LEMMA Invariance == ASSUME Group PROVE Spec => []IInv
  <1>1. Init => IInv
    BY InvInit
  <1>2. IInv /\ [Next]_vars => IInv'
    BY InvStep
  <1>3. QED
    BY <1>1, <1>2, PTL DEF Spec

(***************************************************************************)
(* The key of a new epoch reaches nobody else whom the administrator that  *)
(* made it had removed before (remove() and rotate(), members.js:297, 311) *)
(* by the key packages, in whatever order records arrive, whatever the     *)
(* clocks of the others say; only with an invite that it opens itself      *)
(* (acceptInvite(), members.js:356), which asks nobody whether it may.     *)
(***************************************************************************)
THEOREM KeysPassTheRemovedBy ==
  ASSUME Group
  PROVE  Spec => []RemovedStaysOut
  <1>1. IInv => RemovedStaysOut
    <2>1. SUFFICES ASSUME IInv, ~Rivals, NEW r \in recs, r.kind = "keys", NEW d \in Person \ {r.by},
                          Role(r.by, d) = "removed", Best(EntriesOf(r.by, d)).by = r.by,
                          Best(EntriesOf(r.by, d)).h < r.h
                   PROVE  epochs[d][r.n] = Nobody \/ r.n \in handed[d]
      BY DEF RemovedStaysOut
    <2> DEFINE E == EntriesOf(r.by, d)
    <2>2. E # {} /\ Best(E).role = "removed"
      BY <2>1 DEF Role
    <2>3. Types /\ Bounded /\ r.by \in Person /\ accepted[r.by] \subseteq recs
      BY <2>1 DEF IInv, Records, Types
    <2>4. E \subseteq recs
      BY <2>3 DEF EntriesOf
    <2>5. PICK s \in E : s = Best(E) /\ \A t \in E : t.h <= s.h
      BY <2>2, <2>3, <2>4, BestIs
    <2>6. s \in recs /\ s.kind = "entry" /\ s.who = d
      BY <2>4, <2>5 DEF EntriesOf
    <2>7. Before(s, r)
      BY <2>1, <2>2, <2>5, <2>6 DEF Before, IsRemoval, IsEntry, IsKey
    <2>8. s.who \notin r.to
      <3>1. SUFFICES ASSUME s.who \in r.to PROVE FALSE
        OBVIOUS
      <3>2. PICK t \in accepted[r.by] : IsEntry(t) /\ t.who = s.who /\ s.h < t.h
        BY <2>1, <2>6, <2>7, <3>1 DEF IInv, BoxedAgain
      <3>3. t \in E /\ t.h \in Nat /\ s.h \in Nat
        BY <2>3, <2>6, <3>2 DEF EntriesOf, IsEntry, Types
      <3>4. t.h <= s.h
        BY <2>5, <3>3
      <3>5. QED
        BY <3>2, <3>3, <3>4
    <2>9. QED
      BY <2>1, <2>6, <2>7, <2>8 DEF IInv, KeptOut
  <1>2. QED
    BY Invariance, <1>1, PTL

-----------------------------------------------------------------------------
(* Type correctness: numbers of epochs and lists are no more than records. *)

Counted ==
  /\ IsFiniteSet(recs) /\ Written \in 0..MaxRecords /\ IsFiniteSet(tokens)
  /\ \A r \in recs : r.n <= Written
  /\ \A d \in Person : adm[d].seq <= Written
  /\ \A t \in tokens : t.adm.seq <= Written

TypeInv == IInv /\ TypeOK /\ Counted

LEMMA BlankTyped ==
  ASSUME Group, TypeInv, NEW d \in Person, In(d)
  PROVE  /\ Now(d) \in Nat /\ Latest(d) \in 0..MaxEpoch /\ epochs[d][Latest(d)] \in Person
         /\ Latest(d) <= Written
  <1>1. Types /\ Bounded /\ EpochsAnnounced
    BY DEF TypeInv, IInv, Records
  <1>2. epochs[d] \in Known /\ epochs[d][0] # Nobody
    BY <1>1 DEF Types, In
  <1>3. /\ Latest(d) \in 0..MaxEpoch
        /\ Latest(d) = 0 \/ epochs[d][Latest(d)] # Nobody
    BY <1>2, LastIs DEF Latest
  <1>4. epochs[d][Latest(d)] \in Person
    BY <1>2, <1>3 DEF Known
  <1>5. Latest(d) <= Written
    <2>1. CASE Latest(d) = 0
      BY <2>1 DEF TypeInv, Counted
    <2>2. CASE Latest(d) # 0
      <3>1. Latest(d) \in 1..MaxEpoch
        BY <1>3, <2>2 DEF Group
      <3>2. PICK r \in recs : r.n = Latest(d)
        BY <1>1, <1>3, <2>2, <3>1 DEF EpochsAnnounced, Announced, IsKey
      <3>3. QED
        BY <3>2 DEF TypeInv, Counted
    <2>3. QED
      BY <2>1, <2>2
  <1>6. QED
    BY <1>1, <1>3, <1>4, <1>5, NowIs

(* A write of records that are new and well-formed. *)
LEMMA WriteCounted ==
  ASSUME Group, TypeInv, NEW d \in Person, NEW R, Writes(d, R), R \subseteq Record,
         IsFiniteSet(R), \A r \in R : r.by = d /\ r.h = Now(d)
  PROVE  /\ recs' \subseteq Record /\ \A e \in Person : accepted'[e] \subseteq recs'
         /\ IsFiniteSet(recs') /\ Written' = Written + Cardinality(R) /\ Cardinality(R) \in Nat
         /\ Written' \in 0..MaxRecords /\ recs' = recs \cup R
  <1>1. /\ recs' = recs \cup R /\ accepted' = [accepted EXCEPT ![d] = @ \cup R]
        /\ Written + Cardinality(R) <= MaxRecords
    BY DEF Writes
  <1>2. /\ IsFiniteSet(recs) /\ Written \in 0..MaxRecords /\ recs \subseteq Record
        /\ accepted \in [Person -> SUBSET recs]
    BY DEF TypeInv, Counted, TypeOK, IInv, Records, Types
  <1>3. R \cap recs = {}
    <2>1. SUFFICES ASSUME NEW r \in R, r \in recs PROVE FALSE
      OBVIOUS
    <2>2. Types /\ Bounded /\ Own
      BY DEF TypeInv, IInv, Records
    <2>3. Now(d) \in Nat /\ \A s \in accepted[d] : s.h < Now(d)
      BY <2>2, NowIs
    <2>4. QED
      BY <2>1, <2>2, <2>3 DEF Own
  <1>4. /\ IsFiniteSet(recs \cup R)
        /\ Cardinality(recs \cup R) = Cardinality(recs) + Cardinality(R) - Cardinality(recs \cap R)
    BY <1>2, FS_Union
  <1>5. Cardinality(recs \cap R) = 0
    <2>1. recs \cap R = {}
      BY <1>3
    <2>2. QED
      BY <2>1, FS_EmptySet
  <1>6. Cardinality(recs) \in Nat /\ Cardinality(R) \in Nat
    BY <1>2, FS_CardinalityType
  <1>7. Cardinality(Person \ Newcomer) \in Nat
    <2>1. IsFiniteSet(Person \ Newcomer)
      BY FS_Subset DEF Group
    <2>2. QED
      BY <2>1, FS_CardinalityType
  <1>8. Written' = Written + Cardinality(R)
    BY <1>1, <1>4, <1>5, <1>6, <1>7 DEF Written
  <1>9. Written' \in 0..MaxRecords
    BY <1>1, <1>2, <1>6, <1>8 DEF Group
  <1>10. recs' \subseteq Record /\ \A e \in Person : accepted'[e] \subseteq recs'
    BY <1>1, <1>2
  <1>11. QED
    BY <1>1, <1>4, <1>6, <1>8, <1>9, <1>10

LEMMA WriteTyped ==
  ASSUME Group, TypeInv, NEW d \in Person, NEW R, Writes(d, R), R \subseteq Record,
         IsFiniteSet(R), Cardinality(R) >= 1, \A r \in R : r.by = d /\ r.h = Now(d) /\ r.n <= Written + 1,
         epochs' \in [Person -> Known], adm' \in [Person -> AdminList],
         \A e \in Person : adm'[e].seq <= Written + 1,
         \A t \in tokens' : t.token \in Token /\ t.adm.seq <= Written,
         \A t \in tokens' : t.adm \in AdminList, IsFiniteSet(tokens'),
         handed' \in [Person -> SUBSET (1..MaxEpoch)],
         rotating' \subseteq Person, overtaken' \in BOOLEAN, crashes' = crashes
  PROVE  TypeOK' /\ Counted'
  <1>1. /\ recs' \subseteq Record /\ \A e \in Person : accepted'[e] \subseteq recs'
        /\ IsFiniteSet(recs') /\ Written' = Written + Cardinality(R) /\ Cardinality(R) \in Nat
        /\ Written' \in 0..MaxRecords /\ recs' = recs \cup R
    BY WriteCounted
  <1>2. Written \in Nat /\ Written <= Written' /\ Written + 1 <= Written' /\ Written' \in Nat
    BY <1>1 DEF TypeInv, Counted, Group
  <1>3. \A r \in recs' : r.n <= Written'
    <2>1. \A r \in recs : r.n \in Nat /\ r.n <= Written
      BY DEF TypeInv, Counted, IInv, Records, Types
    <2>2. \A r \in R : r.n \in Nat /\ r.n <= Written + 1
      BY DEF Record, Group
    <2>3. QED
      BY <1>1, <1>2, <2>1, <2>2
  <1>4. \A e \in Person : adm'[e].seq \in Nat /\ adm'[e].list \in SUBSET Person /\ adm'[e].seq <= Written'
    BY <1>2 DEF AdminList
  <1>5. \A t \in tokens' : t.adm.seq <= Written'
    BY <1>2 DEF AdminList
  <1>6. adm' \in [Person -> [seq: 0..MaxRecords, list: SUBSET Person]]
    <2>1. \A e \in Person : adm'[e] \in [seq: 0..MaxRecords, list: SUBSET Person]
      <3>1. TAKE e \in Person
      <3>2. adm'[e].seq \in 0..MaxRecords
        BY <1>1, <1>4 DEF Group
      <3>3. QED
        BY <3>2 DEF AdminList
    <2>2. QED
      BY <2>1
  <1>7. crashes' \in 0..MaxCrashes
    BY DEF TypeInv, TypeOK
  <1>8. TypeOK'
    BY <1>1, <1>6, <1>7 DEF TypeOK, Known
  <1>9. QED
    BY <1>1, <1>3, <1>4, <1>5, <1>8 DEF Counted

(* Records are made from a blank one. *)
LEMMA BlankIs ==
  ASSUME Group, TypeInv, NEW d \in Person, In(d), NEW k \in {"entry", "grants", "keys", "post"}
  PROVE  Blank(d, k) \in Record
  <1>1. Now(d) \in Nat /\ Latest(d) \in 0..MaxEpoch /\ epochs[d][Latest(d)] \in Person
    BY BlankTyped
  <1>2. NoToken \in Token /\ 0 \in 0..MaxRecords
    BY DEF Token, Group
  <1>3. QED
    BY <1>1, <1>2 DEF Blank, Record

LEMMA OneIs == ASSUME NEW r PROVE IsFiniteSet({r}) /\ Cardinality({r}) >= 1
  <1>1. IsFiniteSet({r}) /\ Cardinality({r}) = 1
    BY FS_Singleton
  <1>2. QED
    BY <1>1

(* What a step that writes nothing but records leaves typed. *)
LEMMA RestTyped ==
  ASSUME Group, TypeInv
  PROVE  /\ epochs \in [Person -> Known] /\ adm \in [Person -> AdminList]
         /\ \A e \in Person : adm[e].seq \in Nat /\ adm[e].seq <= Written
         /\ \A t \in tokens : /\ t.token \in Token /\ t.adm.seq <= Written
                              /\ t.adm \in AdminList /\ t.token.role \in {"member", "admin"}
                              /\ t.epochs \in Known /\ t.epochs[0] # Nobody
         /\ IsFiniteSet(tokens) /\ handed \in [Person -> SUBSET (1..MaxEpoch)]
         /\ Written \in Nat /\ Written <= MaxRecords
         /\ rotating \subseteq Person /\ overtaken \in BOOLEAN /\ crashes \in 0..MaxCrashes
         /\ In(Owner) /\ \A d \in Person : IsAdmin(d, d) => In(d)
BY DEF TypeInv, TypeOK, Counted, IInv, Records, Types, AdminList, Group, AdminsIn, IsAdmin

LEMMA InviteTyped ==
  ASSUME Group, TypeInv, NEW d \in Person, NEW role \in {"member", "admin"}, Invite(d, role)
  PROVE  TypeOK' /\ Counted'
  <1> DEFINE new == [token |-> [by |-> d, role |-> role, id |-> Cardinality(tokens) + 1], adm |-> adm[d],
                     epochs |-> Brought(d)]
  <1>1. /\ Cardinality(tokens) < MaxInvites
        /\ UNCHANGED <<recs, accepted, epochs, adm, rotating, overtaken, handed, crashes>>
        /\ tokens' = tokens \cup {new}
    BY ZenonT(30) DEF Invite, Brought
  <1>2. IsFiniteSet(tokens) /\ Cardinality(tokens) \in Nat
    BY RestTyped, FS_CardinalityType
  <1>3. Cardinality(tokens) + 1 \in 1..MaxInvites
    BY <1>1, <1>2 DEF Group
  <1>4. new.token \in Token /\ new.adm = adm[d]
    BY <1>3 DEF Token
  <1> HIDE DEF new
  <1>5. IsFiniteSet(tokens')
    BY <1>1, <1>2, FS_AddElement
  <1>6. \A t \in tokens' : t.token \in Token /\ t.adm.seq <= Written
    BY <1>1, <1>4, RestTyped
  <1>7. TypeOK'
    BY <1>1, <1>6 DEF TypeInv, TypeOK
  <1>8. Written' = Written
    BY <1>1 DEF Written
  <1>9. Counted'
    BY <1>1, <1>5, <1>6, <1>8 DEF TypeInv, Counted
  <1>10. QED
    BY <1>7, <1>9

LEMMA RevealTyped ==
  ASSUME Group, TypeInv, NEW d \in Person, Reveal(d)
  PROVE  TypeOK' /\ Counted'
  <1> DEFINE b == Blank(d, "entry")
             r == [b EXCEPT !.who = d, !.role = Role(d, d)]
  <1>1. /\ Writes(d, {r}) /\ Role(d, d) \in {"admin", "member"}
        /\ UNCHANGED <<epochs, adm, tokens, rotating, overtaken, handed, crashes>>
    BY DEF Reveal
  <1>2. In(d)
    BY <1>1, RoleIn DEF TypeInv
  <1>3. r.by = d /\ r.h = Now(d) /\ r.n = 0
    BY DEF Blank
  <1>4. b \in Record
    BY <1>2, BlankIs
  <1> HIDE DEF b
  <1>5. r \in Record
    BY <1>1, <1>4 DEF Record
  <1> HIDE DEF r
  <1>6. IsFiniteSet({r}) /\ Cardinality({r}) >= 1
    BY OneIs
  <1>7. QED
    BY <1>1, <1>3, <1>5, <1>6, RestTyped, WriteTyped

LEMMA PostTyped ==
  ASSUME Group, TypeInv, NEW d \in Person, Post(d)
  PROVE  TypeOK' /\ Counted'
  <1> DEFINE r == Blank(d, "post")
  <1>1. /\ Writes(d, {r}) /\ Role(d, d) \in {"owner", "admin", "member"}
        /\ UNCHANGED <<epochs, adm, tokens, rotating, overtaken, handed, crashes>>
    BY DEF Post
  <1>2. In(d)
    BY <1>1, RoleIn DEF TypeInv
  <1>3. r.by = d /\ r.h = Now(d) /\ r.n = 0
    BY DEF Blank
  <1>4. r \in Record
    BY <1>2, BlankIs
  <1> HIDE DEF r
  <1>5. IsFiniteSet({r}) /\ Cardinality({r}) >= 1
    BY OneIs
  <1>6. QED
    BY <1>1, <1>3, <1>4, <1>5, RestTyped, WriteTyped

(* The token in the newest entry of a key is a token. *)
LEMMA TokenOf ==
  ASSUME TypeInv, NEW d \in Person, NEW x, EntriesOf(d, x) # {}
  PROVE  Best(EntriesOf(d, x)).token \in Token
  <1>1. EntriesOf(d, x) \subseteq recs
    BY DEF EntriesOf, TypeInv, TypeOK
  <1>2. Best(EntriesOf(d, x)) \in EntriesOf(d, x)
    BY <1>1, BestIs DEF TypeInv, IInv, Records
  <1>3. Best(EntriesOf(d, x)) \in Record
    BY <1>1, <1>2 DEF TypeInv, TypeOK
  <1>4. QED
    BY <1>3 DEF Record

LEMMA RemoveTyped ==
  ASSUME Group, TypeInv, NEW d \in Person, NEW x \in Person, Remove(d, x)
  PROVE  TypeOK' /\ Counted'
  <1> DEFINE b == Blank(d, "entry")
             r == [b EXCEPT !.who = x, !.role = "removed", !.token = Best(EntriesOf(d, x)).token]
  <1>1. /\ Writes(d, {r}) /\ IsAdmin(d, d) /\ EntriesOf(d, x) # {} /\ rotating' = rotating \cup {d}
        /\ UNCHANGED <<epochs, adm, tokens, overtaken, handed, crashes>>
    BY DEF Remove, Listed
  <1>2. In(d)
    BY <1>1, RestTyped
  <1>3. r.by = d /\ r.h = Now(d) /\ r.n = 0
    BY DEF Blank
  <1>4. b \in Record
    BY <1>2, BlankIs
  <1>5. Best(EntriesOf(d, x)).token \in Token
    BY <1>1, TokenOf
  <1> HIDE DEF b
  <1>6. r \in Record
    BY <1>4, <1>5 DEF Record
  <1> HIDE DEF r
  <1>7. IsFiniteSet({r}) /\ Cardinality({r}) >= 1
    BY OneIs
  <1>8. rotating' \subseteq Person
    BY <1>1, RestTyped
  <1>9. QED
    BY <1>1, <1>3, <1>6, <1>7, <1>8, RestTyped, WriteTyped

LEMMA RotateTyped ==
  ASSUME Group, TypeInv, NEW d \in Person, Rotate(d), epochs' \in [Person -> Known]
  PROVE  TypeOK' /\ Counted'
  <1> DEFINE b == Blank(d, "keys")
             r == [b EXCEPT !.n = Latest(d) + 1, !.to = Recipients(d), !.ep = PublishedUnder(d)]
  <1>1. /\ Writes(d, {r}) /\ IsAdmin(d, d) /\ rotating' = rotating \ {d}
        /\ UNCHANGED <<adm, tokens, handed, crashes>> /\ overtaken' \in BOOLEAN
    BY RestTyped DEF Rotate
  <1>2. In(d)
    BY <1>1, RestTyped
  <1>3. r.by = d /\ r.h = Now(d) /\ r.n = Latest(d) + 1
    BY DEF Blank
  <1>4. b \in Record
    BY <1>2, BlankIs
  <1>5. /\ Latest(d) \in 0..MaxEpoch /\ epochs[d][Latest(d)] \in Person /\ Latest(d) <= Written
    BY <1>2, BlankTyped
  <1> HIDE DEF b
  <1>6. Written + 1 <= MaxRecords
    <2>1. Written + Cardinality({r}) <= MaxRecords
      BY <1>1 DEF Writes
    <2>2. Cardinality({r}) = 1
      BY FS_Singleton
    <2>3. QED
      BY <2>1, <2>2
  <1>7. r \in Record
    <2>1. Latest(d) + 1 \in 0..MaxRecords /\ Latest(d) + 1 <= Written + 1
      BY <1>5, <1>6, RestTyped DEF Group
    <2>2. Recipients(d) \in SUBSET Person
      BY DEF Recipients, Active
    <2>3. PublishedUnder(d) \in [n: 0..MaxEpoch, maker: Person]
      BY <1>5 DEF PublishedUnder
    <2>4. QED
      BY <1>4, <2>1, <2>2, <2>3 DEF Record
  <1>8. r.n <= Written + 1
    BY <1>3, <1>5, RestTyped DEF Group
  <1> HIDE DEF r
  <1>9. IsFiniteSet({r}) /\ Cardinality({r}) >= 1
    BY OneIs
  <1>10. rotating' \subseteq Person
    BY <1>1, RestTyped
  <1>11. QED
    BY <1>1, <1>3, <1>7, <1>8, <1>9, <1>10, RestTyped, WriteTyped

LEMMA AcceptInviteTyped ==
  ASSUME Group, TypeInv, NEW x \in Person, AcceptInvite(x)
  PROVE  TypeOK' /\ Counted'
  <1>1. PICK t \in tokens :
          /\ epochs' \in [Person -> Known] /\ adm' \in [Person -> AdminList]
          /\ handed' \in [Person -> SUBSET (1..MaxEpoch)] /\ tokens' = tokens
          /\ t.epochs \in Known /\ t.adm \in AdminList
          /\ epochs'[x] = Merged(epochs[x], t.epochs) /\ adm'[x] = Newer(adm[x], t.adm)
          /\ \A n \in 1..MaxEpoch : n \in handed'[x] <=> (n \in handed[x] \/ t.epochs[n] # Nobody)
          /\ \A e \in Person \ {x} : /\ epochs'[e] = epochs[e] /\ adm'[e] = adm[e]
                                     /\ handed'[e] = handed[e]
          /\ \/ Join(x, t, Merged(epochs[x], t.epochs))
             \/ x \in Listed(x) /\ UNCHANGED <<recs, accepted, overtaken>>
    BY OpeningIs DEF TypeInv
  <1>2. /\ t.token \in Token /\ t.token.role \in {"member", "admin"} /\ t.epochs[0] # Nobody
        /\ t.adm.seq <= Written /\ epochs[x] \in Known
    BY RestTyped
  <1>3. /\ rotating' = rotating /\ crashes' = crashes
        /\ rotating \subseteq Person /\ crashes \in 0..MaxCrashes /\ overtaken \in BOOLEAN
    BY RestTyped DEF AcceptInvite
  <1>4. \A e \in Person : adm'[e].seq \in Nat /\ adm'[e].seq <= Written
    <2>1. TAKE e \in Person
    <2>2. adm'[e] = t.adm \/ adm'[e] = adm[e]
      BY <1>1, RestTyped, NewerIs
    <2>3. t.adm.seq \in Nat
      BY <1>1 DEF AdminList
    <2>4. QED
      BY <1>2, <2>2, <2>3, RestTyped
  <1>5. \A s \in tokens' : s.token \in Token /\ s.adm.seq <= Written /\ s.adm \in AdminList
    BY <1>1, RestTyped
  <1>6. IsFiniteSet(tokens')
    BY <1>1, RestTyped
  <1>7. CASE Join(x, t, Merged(epochs[x], t.epochs))
    <2> DEFINE known == Merged(epochs[x], t.epochs)
               ep == [n |-> LastOf(known), maker |-> known[LastOf(known)]]
               r == [Blank(x, "entry") EXCEPT !.who = x, !.role = t.token.role, !.token = t.token, !.ep = ep]
    <2>1. Writes(x, {r}) /\ overtaken' \in BOOLEAN
      BY <1>3, <1>7 DEF Join
    <2>2. known \in Known /\ known[0] # Nobody
      <3>1. 0 \in 0..MaxEpoch
        BY DEF Group
      <3>2. QED
        BY <1>1, <1>2, <3>1, MergedIs
    <2> HIDE DEF known
    <2>3. r.by = x /\ r.h = Now(x) /\ r.n = 0
      BY DEF Blank
    <2>4. ep \in [n: 0..MaxEpoch, maker: Person]
      <3>1. /\ LastOf(known) \in 0..MaxEpoch
            /\ LastOf(known) = 0 \/ known[LastOf(known)] # Nobody
        BY <2>2, LastIs
      <3>2. known[LastOf(known)] \in Person
        BY <2>2, <3>1 DEF Known
      <3>3. QED
        BY <3>1, <3>2
    <2>5. Now(x) \in Nat
      BY NowIs DEF TypeInv, IInv, Records
    <2> HIDE DEF ep
    <2>6. r \in Record
      <3> DEFINE b == Blank(x, "entry")
      <3>1. b \in [kind: {"entry"}, by: Person, h: Nat, ep: {b.ep}, who: {Nobody}, role: {"none"},
                   token: {NoToken}, n: {0}, to: SUBSET Person]
        BY <2>5 DEF Blank
      <3>2. 0 \in 0..MaxRecords
        BY DEF Group
      <3> HIDE DEF b
      <3>3. [b EXCEPT !.who = x, !.role = t.token.role, !.token = t.token, !.ep = ep] \in Record
        BY <1>2, <2>4, <3>1, <3>2 DEF Record
      <3>4. QED
        BY <3>3 DEF b
    <2> HIDE DEF r
    <2>7. IsFiniteSet({r}) /\ Cardinality({r}) >= 1
      BY OneIs
    <2>8. r.n <= Written + 1 /\ \A e \in Person : adm'[e].seq <= Written + 1
      BY <1>4, <2>3, RestTyped
    <2>9. QED
      BY <1>1, <1>3, <1>5, <1>6, <2>1, <2>3, <2>6, <2>7, <2>8, WriteTyped
  <1>8. CASE UNCHANGED <<recs, accepted, overtaken>>
    <2>1. Written' = Written
      BY <1>8 DEF Written
    <2>2. \A e \in Person : adm'[e] \in [seq: 0..MaxRecords, list: SUBSET Person]
      <3>1. TAKE e \in Person
      <3>2. adm'[e].seq \in 0..MaxRecords
        BY <1>4, RestTyped DEF Group
      <3>3. adm'[e] \in AdminList
        BY <1>1
      <3>4. QED
        BY <3>2, <3>3 DEF AdminList
    <2>3. adm' \in [Person -> [seq: 0..MaxRecords, list: SUBSET Person]]
      BY <1>1, <2>2
    <2>4. TypeOK'
      BY <1>1, <1>3, <1>5, <1>8, <2>3 DEF TypeInv, TypeOK, Known
    <2>5. Counted'
      BY <1>4, <1>5, <1>6, <1>8, <2>1 DEF TypeInv, Counted
    <2>6. QED
      BY <2>4, <2>5
  <1>9. QED
    BY <1>1, <1>7, <1>8

LEMMA PromoteTyped ==
  ASSUME Group, TypeInv, NEW x \in Person, Promote(x)
  PROVE  TypeOK' /\ Counted'
  <1> DEFINE list == {y \in Person : y = x \/ Role(Owner, y) = "admin"}
             b == Blank(Owner, "entry")
             c == Blank(Owner, "grants")
             r == [b EXCEPT !.who = x, !.role = "admin", !.token = Best(EntriesOf(Owner, x)).token]
             g == [c EXCEPT !.n = adm[Owner].seq + 1, !.to = list]
  <1>1. /\ Writes(Owner, {r, g}) /\ EntriesOf(Owner, x) # {}
        /\ adm' = [adm EXCEPT ![Owner] = [seq |-> @.seq + 1, list |-> list]]
        /\ UNCHANGED <<epochs, tokens, rotating, overtaken, handed, crashes>>
    BY DEF Promote, Role
  <1>2. Owner \in Person /\ In(Owner)
    BY RestTyped DEF Group
  <1>3. /\ r.by = Owner /\ r.h = Now(Owner) /\ r.n = 0
        /\ g.by = Owner /\ g.h = Now(Owner) /\ g.n = adm[Owner].seq + 1
    BY DEF Blank
  <1>4. b \in Record /\ c \in Record
    BY <1>2, BlankIs
  <1>5. Best(EntriesOf(Owner, x)).token \in Token
    BY <1>1, <1>2, TokenOf DEF TypeInv
  <1>6. list \in SUBSET Person
    OBVIOUS
  <1> HIDE DEF b, c, list
  <1>7. r \in Record
    BY <1>4, <1>5 DEF Record
  <1>8. IsFiniteSet({r, g}) /\ Cardinality({r, g}) >= 1 /\ Cardinality({r, g}) \in Nat
    <2> HIDE DEF r, g
    <2>1. {r, g} = {r} \cup {g}
      OBVIOUS
    <2>2. IsFiniteSet({r}) /\ Cardinality({r}) = 1
      BY FS_Singleton
    <2>3. /\ IsFiniteSet({r} \cup {g})
          /\ Cardinality({r} \cup {g}) = IF g \in {r} THEN Cardinality({r}) ELSE Cardinality({r}) + 1
      BY <2>2, FS_AddElement
    <2>4. QED
      BY <2>1, <2>2, <2>3
  <1>9. adm[Owner].seq \in Nat /\ adm[Owner].seq <= Written /\ Written \in Nat
    BY <1>2, RestTyped
  <1>10. Written + 1 <= MaxRecords
    <2>1. Written + Cardinality({r, g}) <= MaxRecords
      BY <1>1 DEF Writes
    <2>2. QED
      BY <1>8, <1>9, <2>1 DEF Group
  <1>11. adm[Owner].seq + 1 \in 0..MaxRecords /\ adm[Owner].seq + 1 <= Written + 1
    BY <1>9, <1>10 DEF Group
  <1>12. g \in Record
    BY <1>4, <1>6, <1>11 DEF Record
  <1> HIDE DEF r, g
  <1>13. {r, g} \subseteq Record /\ \A s \in {r, g} : s.by = Owner /\ s.h = Now(Owner) /\ s.n <= Written + 1
    BY <1>3, <1>7, <1>9, <1>11, <1>12
  <1>14. adm' \in [Person -> AdminList] /\ \A e \in Person : adm'[e].seq <= Written + 1
    <2>1. adm \in [Person -> AdminList]
      BY RestTyped
    <2>2. [seq |-> adm[Owner].seq + 1, list |-> list] \in AdminList
      BY <1>6, <1>9 DEF AdminList
    <2>3. adm' \in [Person -> AdminList]
      BY <1>1, <2>1, <2>2
    <2>4. \A e \in Person : adm'[e].seq = adm[Owner].seq + 1 \/ adm'[e] = adm[e]
      BY <1>1, <1>2, <2>1
    <2>5. QED
      BY <1>11, <2>3, <2>4, RestTyped
  <1>15. QED
    BY <1>1, <1>2, <1>8, <1>13, <1>14, RestTyped, WriteTyped

LEMMA DeliverTyped ==
  ASSUME Group, TypeInv, NEW d \in Person, NEW r \in recs, Deliver(d, r), epochs' \in [Person -> Known]
  PROVE  TypeOK' /\ Counted'
  <1>1. /\ accepted' = [accepted EXCEPT ![d] = @ \cup {r}]
        /\ adm' = adm \/ adm' = [adm EXCEPT ![d] = Adopted(d, r)]
        /\ UNCHANGED <<recs, tokens, rotating, overtaken, handed, crashes>>
    BY DEF Deliver
  <1>2. /\ adm[d].seq \in Nat /\ adm[d].seq <= Written /\ Written \in Nat /\ Written <= MaxRecords
        /\ r.n \in Nat /\ r.n <= Written /\ r.to \in SUBSET Person
        /\ adm \in [Person -> AdminList] /\ accepted \in [Person -> SUBSET recs]
    BY RestTyped DEF TypeInv, Counted, IInv, Records, Types
  <1>3. /\ Adopted(d, r) \in [seq: 0..MaxRecords, list: SUBSET Person] /\ Adopted(d, r).seq <= Written
    BY <1>2 DEF Adopted, AdminList, Group
  <1>4. Written' = Written
    BY <1>1 DEF Written
  <1>5. \A e \in Person : accepted'[e] \subseteq recs'
    BY <1>1, <1>2
  <1>6. adm \in [Person -> [seq: 0..MaxRecords, list: SUBSET Person]]
    BY DEF TypeInv, TypeOK
  <1>7. adm' \in [Person -> [seq: 0..MaxRecords, list: SUBSET Person]]
    BY <1>1, <1>3, <1>6
  <1>8. \A e \in Person : adm'[e].seq <= Written
    <2>1. \A e \in Person : adm'[e] = adm[e] \/ adm'[e] = Adopted(d, r)
      BY <1>1, <1>2
    <2>2. QED
      BY <1>3, <2>1, RestTyped
  <1>9. TypeOK'
    BY <1>1, <1>5, <1>7 DEF TypeInv, TypeOK, Known
  <1>10. Counted'
    BY <1>1, <1>4, <1>8 DEF TypeInv, Counted
  <1>11. QED
    BY <1>9, <1>10

LEMMA CrashTyped ==
  ASSUME Group, TypeInv, NEW d \in Person, Crash(d)
  PROVE  TypeOK' /\ Counted'
  <1>1. /\ UNCHANGED <<recs, accepted, epochs, adm, tokens, overtaken, handed>>
        /\ rotating' = rotating \ {d} /\ crashes' = crashes + 1 /\ crashes < MaxCrashes
    BY DEF Crash
  <1>2. rotating' \subseteq Person /\ crashes' \in 0..MaxCrashes
    BY <1>1, RestTyped DEF Group
  <1>3. Written' = Written
    BY <1>1 DEF Written
  <1>4. QED
    BY <1>1, <1>2, <1>3 DEF TypeInv, TypeOK, Counted

LEMMA TypeInit == ASSUME Group PROVE Init => TypeInv
  <1>1. SUFFICES ASSUME Init PROVE TypeInv
    OBVIOUS
  <1>2. IInv
    BY <1>1, InvInit
  <1> DEFINE F == Person \ Newcomer
  <1>3. recs = {Founded(x) : x \in F} /\ tokens = {} /\ adm = [d \in Person |-> [seq |-> 0, list |-> {}]]
    BY <1>1 DEF Init
  <1>4. IsFiniteSet(F)
    BY FS_Subset DEF Group
  <1>5. ExistsBijection(F, recs)
    <2>1. \A x \in F : Founded(x).who = x
      BY DEF Founded
    <2> DEFINE g == [x \in F |-> Founded(x)]
    <2>2. /\ g \in [F -> recs] /\ DOMAIN g = F
          /\ \A x \in F : g[x].who = x
          /\ \A r \in recs : \E y \in F : g[y] = r
      BY <1>3, <2>1
    <2> HIDE DEF g, F
    <2>3. g \in Bijection(F, recs)
      <3>1. IsInjective(g)
        BY <2>2 DEF IsInjective
      <3>2. QED
        BY <2>2, <3>1 DEF Bijection, Injection, Surjection
    <2>4. QED
      BY <2>3 DEF ExistsBijection
  <1>6. IsFiniteSet(recs) /\ Cardinality(recs) = Cardinality(F)
    BY <1>4, <1>5, FS_Bijection
  <1>7. Written = 0
    <2>1. Cardinality(F) \in Nat
      BY <1>4, FS_CardinalityType
    <2>2. QED
      BY <1>6, <2>1 DEF Written
  <1>8. \A x \in F : Founded(x) \in Record /\ Founded(x).n = 0
    BY DEF Founded, Founding, Record, Token, Group
  <1>9. \A r \in recs : r \in Record /\ r.n = 0
    BY <1>3, <1>8
  <1>10. TypeOK
    <2>1. epochs \in [Person -> [0..MaxEpoch -> Person \cup {Nobody}]]
      BY <1>2 DEF IInv, Records, Types, Known
    <2>2. adm \in [Person -> [seq: 0..MaxRecords, list: SUBSET Person]]
      BY <1>3 DEF Group
    <2>3. \A d \in Person : accepted[d] \subseteq recs
      BY <1>2 DEF IInv, Records, Types
    <2>4. rotating \subseteq Person /\ overtaken \in BOOLEAN /\ crashes \in 0..MaxCrashes
      <3>1. rotating = {} /\ overtaken = FALSE /\ crashes = 0
        BY <1>1 DEF Init
      <3>2. MaxCrashes \in Nat
        BY DEF Group
      <3>3. crashes \in 0..MaxCrashes
        BY <3>1, <3>2
      <3>4. rotating \subseteq Person /\ overtaken \in BOOLEAN
        BY <3>1
      <3>5. QED
        BY <3>3, <3>4
    <2>5. handed \in [Person -> SUBSET (1..MaxEpoch)]
      BY <1>2 DEF IInv, Records, Types
    <2>6. QED
      BY <1>3, <1>9, <2>1, <2>2, <2>3, <2>4, <2>5 DEF TypeOK
  <1>11. Counted
    <2>1. IsFiniteSet(tokens)
      BY <1>3, FS_EmptySet
    <2>2. QED
      BY <1>3, <1>6, <1>7, <1>9, <2>1 DEF Counted, Group
  <1>12. QED
    BY <1>2, <1>10, <1>11 DEF TypeInv

LEMMA TypeStep == ASSUME Group PROVE TypeInv /\ [Next]_vars => TypeInv'
  <1>1. SUFFICES ASSUME TypeInv, [Next]_vars PROVE TypeInv'
    OBVIOUS
  <1>2. IInv'
    BY <1>1, InvStep DEF TypeInv
  <1>3. epochs' \in [Person -> Known]
    BY <1>2 DEF IInv, Records, Types
  <1>4. SUFFICES TypeOK' /\ Counted'
    BY <1>2 DEF TypeInv
  <1>5. CASE \E d \in Person : AcceptInvite(d) \/ Reveal(d) \/ Promote(d)
    BY <1>1, <1>5, AcceptInviteTyped, RevealTyped, PromoteTyped
  <1>11. CASE \E d \in Person, role \in {"member", "admin"} : Invite(d, role)
    BY <1>1, <1>11, InviteTyped
  <1>6. CASE \E d \in Person : Rotate(d) \/ Post(d) \/ Crash(d)
    BY <1>1, <1>3, <1>6, RotateTyped, PostTyped, CrashTyped
  <1>7. CASE \E d, x \in Person : Remove(d, x)
    BY <1>1, <1>7, RemoveTyped
  <1>8. CASE \E d \in Person, r \in recs : Deliver(d, r)
    BY <1>1, <1>3, <1>8, DeliverTyped
  <1>9. CASE UNCHANGED vars
    <2>1. Written' = Written
      BY <1>9 DEF vars, Written
    <2>2. QED
      BY <1>1, <1>9, <2>1 DEF vars, TypeInv, TypeOK, Counted
  <1>10. QED
    BY <1>1, <1>5, <1>6, <1>7, <1>8, <1>9, <1>11 DEF Next

(***************************************************************************)
(* Type correctness: what is published of epochs, lists and tokens stays   *)
(* within what was ever written.                                           *)
(***************************************************************************)
THEOREM TypeCorrect ==
  ASSUME Group
  PROVE  Spec => []TypeOK
  <1>1. Init => TypeInv
    BY TypeInit
  <1>2. TypeInv /\ [Next]_vars => TypeInv'
    BY TypeStep
  <1>3. TypeInv => TypeOK
    BY DEF TypeInv
  <1>4. QED
    BY <1>1, <1>2, <1>3, PTL DEF Spec

-----------------------------------------------------------------------------
(***************************************************************************)
(* Agreement.  What a stable device needs to accept what another did is     *)
(* said of the records R there are, of each of them, and of what a device   *)
(* or an invite has: records A, epochs K and an admin list L.               *)
(***************************************************************************)

(* Who made an epoch wrote its key package; the first is the founder's. *)
MadeBy(R, n, x) == IF n = 0 THEN x = Owner ELSE \E k \in R : k.kind = "keys" /\ k.n = n /\ k.by = x
AllMade(R, K) == \A n \in 0..MaxEpoch : K[n] # Nobody => MadeBy(R, n, K[n])

(* No list leaves anybody out, no two epochs have the same number. *)
Lists(R) == {g \in R : g.kind = "grants"}
Grow(R) == \A g, h \in Lists(R) : g.n <= h.n => g.to \subseteq h.to
Rival(R) == \E k, m \in R : k.kind = "keys" /\ m.kind = "keys" /\ k.n = m.n /\ k # m
Calm(R) == Grow(R) /\ ~Rival(R)

(* Only the founder makes an administrator of another, with a list for it. *)
EntryShaped(R, r) ==
  /\ r.role \in {"owner", "admin", "member", "removed"}
  /\ r.role = "owner" <=> r.who = Owner
  /\ r.role = "admin" /\ r.by # r.who => \E g \in Lists(R) : r.who \in g.to /\ g.ep = r.ep

(* A key package is published under the epoch before, by somebody who was *)
(* an administrator by then.                                              *)
KeyShaped(R, r) ==
  /\ r.n = r.ep.n + 1
  /\ Calm(R) => r.by = Owner \/ \E g \in Lists(R) : r.by \in g.to /\ g.ep.n <= r.ep.n

Shaped(R, r) ==
  /\ MadeBy(R, r.ep.n, r.ep.maker)
  /\ r.kind = "entry" => EntryShaped(R, r)
  /\ r.kind = "keys" => KeyShaped(R, r)
  /\ r.kind = "grants" => r.by = Owner /\ r.n >= 1

Opens(K, r) == K[r.ep.n] = r.ep.maker
NoList == [seq |-> 0, list |-> {}]
Admin(L, x) == x = Owner \/ x \in L.list

(* Its admin list is a record that it can open; an outsider has nothing. *)
Backed(R, L, K) == L = NoList \/ \E g \in Lists(R) : g.n = L.seq /\ g.to = L.list /\ Opens(K, g)
Outside(A, K, L) == K[0] = Nobody => A = {} /\ L = NoList /\ \A n \in 0..MaxEpoch : K[n] = Nobody

(* Who made its epochs is on the list it goes by. *)
Vouched(K, L) == \A n \in 0..MaxEpoch : K[n] # Nobody => Admin(L, K[n])

(* An entry that counts without another: by an admin, or by an admin's invite. *)
Root(L, f) ==
  \/ Admin(L, f.by)
  \/ f.who = f.by /\ f.token.by # Nobody /\ f.token.role = f.role /\ Admin(L, f.token.by)

(* Who came with an invite that makes an administrator. *)
Invited(R, x) == \E f \in R : f.kind = "entry" /\ f.who = x /\ f.token.role = "admin"

(* What it needs to have for a record r that it has accepted. *)
Fits(R, A, K, L, d, r) ==
  /\ Opens(K, r)
  /\ r.kind = "grants" => r.n <= L.seq
  /\ r.kind = "keys" \/ (r.kind = "entry" /\ r.who # r.by) => Admin(L, r.by)
  /\ r.kind = "entry" => \E f \in A : f.kind = "entry" /\ f.who = r.who /\ Root(L, f)
  /\ r.kind = "entry" /\ r.role = "admin" =>
       Invited(R, r.who) \/ \E g \in Lists(R) : r.who \in g.to /\ Opens(K, g)
  /\ r.kind = "post" /\ r.by # Owner => \E f \in A : f.kind = "entry" /\ f.who = r.by
  /\ r.kind = "keys" /\ d \in r.to => K[r.n] # Nobody

Sound(R, A, K, L, d) ==
  Backed(R, L, K) /\ Vouched(K, L) /\ \A r \in A : Fits(R, A, K, L, d, r)

(* What an invite hands out is what a device had. *)
Handout(R, t) ==
  /\ AllMade(R, t.epochs) /\ Vouched(t.epochs, t.adm) /\ Admin(t.adm, t.token.by)
  /\ Calm(R) => Backed(R, t.adm, t.epochs)

AllShaped == \A r \in recs : Shaped(recs, r)
AllHeld == \A d \in Person : Outside(accepted[d], epochs[d], adm[d]) /\ AllMade(recs, epochs[d])
AllSound == Calm(recs) => \A d \in Person : Sound(recs, accepted[d], epochs[d], adm[d], d)
Handouts == \A t \in tokens : Handout(recs, t)

(* Nobody has entries of both roles by invites: who has one does not join again. *)
InvitedAlike == \A r \in recs : r.kind = "entry" /\ Invited(recs, r.who) => r.role # "member"

(* Who is in has an entry; and of each later epoch the key, or a box with it. *)
Entered == \A x \in Person : In(x) => EntriesOf(x, x) # {}
Reached ==
  ~overtaken => \A r \in recs : IsKey(r) =>
    \A x \in Person : In(x) /\ x \notin EverRemoved => x \in r.to \/ epochs[x][r.n] # Nobody

Agree == AllShaped /\ AllHeld /\ AllSound /\ Handouts /\ InvitedAlike /\ Entered /\ Reached
AgreeInv == TypeInv /\ Agree

-----------------------------------------------------------------------------
(* More records, more epochs and a later list change nothing of that. *)

Extends(K, M) == \A n \in 0..MaxEpoch : K[n] # Nobody => M[n] = K[n]
Succeeds(L, M) == L.seq <= M.seq /\ L.list \subseteq M.list

LEMMA MadeStays ==
  ASSUME NEW R, NEW S, R \subseteq S
  PROVE  /\ Lists(R) \subseteq Lists(S)
         /\ Grow(S) => Grow(R)
         /\ Rival(R) => Rival(S)
         /\ Calm(S) => Calm(R)
         /\ \A n, x : MadeBy(R, n, x) => MadeBy(S, n, x)
         /\ \A x : Invited(R, x) => Invited(S, x)
BY DEF Lists, Grow, Rival, Calm, MadeBy, Invited

LEMMA ShapeStays ==
  ASSUME NEW R, NEW S, R \subseteq S, NEW r, Shaped(R, r)
  PROVE  Shaped(S, r)
  <1>1. Lists(R) \subseteq Lists(S) /\ MadeBy(S, r.ep.n, r.ep.maker) /\ (Calm(S) => Calm(R))
    BY MadeStays DEF Shaped
  <1>2. r.kind = "entry" => EntryShaped(S, r)
    BY <1>1 DEF Shaped, EntryShaped
  <1>3. r.kind = "keys" => KeyShaped(S, r)
    BY <1>1 DEF Shaped, KeyShaped
  <1>4. QED
    BY <1>1, <1>2, <1>3 DEF Shaped

LEMMA BackingStays ==
  ASSUME NEW R, NEW S, R \subseteq S, NEW K, NEW L, Backed(R, L, K)
  PROVE  Backed(S, L, K)
BY MadeStays DEF Backed

LEMMA AllMadeStays ==
  ASSUME NEW R, NEW S, R \subseteq S, NEW K, AllMade(R, K)
  PROVE  AllMade(S, K)
BY MadeStays DEF AllMade

LEMMA HandoutStays ==
  ASSUME NEW R, NEW S, R \subseteq S, NEW t, Handout(R, t)
  PROVE  Handout(S, t)
BY BackingStays, AllMadeStays, MadeStays DEF Handout

(* What a record is sealed with, and announces, is an epoch. *)
Sealed(r) ==
  /\ r.ep.n \in 0..MaxEpoch /\ r.ep.maker # Nobody /\ r.n \in Nat
  /\ r.kind = "keys" => r.n \in 0..MaxEpoch

LEMMA OpenStays ==
  ASSUME NEW K, NEW M, Extends(K, M), NEW r, Sealed(r), Opens(K, r)
  PROVE  Opens(M, r)
BY DEF Extends, Sealed, Opens

LEMMA BackedOnStays ==
  ASSUME NEW R, NEW S, R \subseteq S, NEW K, NEW M, Extends(K, M), NEW L,
         \A g \in R : Sealed(g), Backed(R, L, K)
  PROVE  Backed(S, L, M)
  <1>1. Lists(R) \subseteq Lists(S) /\ Lists(R) \subseteq R
    BY MadeStays DEF Lists
  <1>2. \A g \in R : Opens(K, g) => Opens(M, g)
    BY OpenStays
  <1>3. QED
    BY <1>1, <1>2 DEF Backed

LEMMA RootStays ==
  ASSUME NEW L, NEW M, Succeeds(L, M)
  PROVE  /\ \A x : Admin(L, x) => Admin(M, x)
         /\ \A f : Root(L, f) => Root(M, f)
         /\ \A K : Vouched(K, L) => Vouched(K, M)
BY DEF Succeeds, Admin, Root, Vouched

(* Of two lists that records stand for the later one has everybody. *)
LEMMA LaterList ==
  ASSUME NEW R, Grow(R), \A g \in Lists(R) : g.n \in Nat /\ g.n >= 1,
         NEW L, NEW K, Backed(R, L, K), NEW M, NEW N, Backed(R, M, N),
         L.seq \in Nat, M.seq \in Nat, L.seq <= M.seq
  PROVE  Succeeds(L, M)
  <1>1. CASE L = NoList
    BY <1>1 DEF NoList, Succeeds
  <1>2. CASE L # NoList
    <2>1. PICK g \in Lists(R) : g.n = L.seq /\ g.to = L.list
      BY <1>2 DEF Backed
    <2>2. M # NoList
      BY <2>1 DEF NoList
    <2>3. PICK h \in Lists(R) : h.n = M.seq /\ h.to = M.list
      BY <2>2 DEF Backed
    <2>4. g.to \subseteq h.to
      BY <2>1, <2>3 DEF Grow
    <2>5. QED
      BY <2>1, <2>3, <2>4 DEF Succeeds
  <1>3. QED
    BY <1>1, <1>2

LEMMA FitStays ==
  ASSUME NEW R, NEW S, R \subseteq S, NEW A, NEW B, A \subseteq B, NEW K, NEW M, Extends(K, M),
         NEW L, NEW N, L.seq \in Nat, N.seq \in Nat, Succeeds(L, N), NEW d,
         \A r \in R : Sealed(r), NEW r \in R, Fits(R, A, K, L, d, r)
  PROVE  Fits(S, B, M, N, d, r)
  <1>1. /\ Lists(R) \subseteq Lists(S) /\ Lists(R) \subseteq R
        /\ Invited(R, r.who) => Invited(S, r.who)
    BY MadeStays DEF Lists
  <1>2. \A g \in R : Opens(K, g) => Opens(M, g)
    BY OpenStays
  <1>3. Opens(M, r)
    BY <1>2 DEF Fits
  <1>4. r.kind = "grants" => r.n <= N.seq
    <2>1. r.n \in Nat /\ L.seq <= N.seq
      BY DEF Sealed, Succeeds
    <2>2. QED
      BY <2>1 DEF Fits
  <1>5. r.kind = "keys" \/ (r.kind = "entry" /\ r.who # r.by) => Admin(N, r.by)
    BY RootStays DEF Fits
  <1>6. r.kind = "entry" => \E f \in B : f.kind = "entry" /\ f.who = r.who /\ Root(N, f)
    BY RootStays DEF Fits
  <1>7. r.kind = "entry" /\ r.role = "admin" =>
          Invited(S, r.who) \/ \E g \in Lists(S) : r.who \in g.to /\ Opens(M, g)
    <2>1. SUFFICES ASSUME r.kind = "entry", r.role = "admin", ~ Invited(R, r.who)
                   PROVE  \E g \in Lists(S) : r.who \in g.to /\ Opens(M, g)
      BY <1>1
    <2>2. PICK g \in Lists(R) : r.who \in g.to /\ Opens(K, g)
      BY <2>1 DEF Fits
    <2>3. QED
      BY <1>1, <1>2, <2>2
  <1>8. r.kind = "post" /\ r.by # Owner => \E f \in B : f.kind = "entry" /\ f.who = r.by
    BY DEF Fits
  <1>9. r.kind = "keys" /\ d \in r.to => M[r.n] # Nobody
    BY DEF Fits, Sealed, Extends
  <1>10. QED
    BY <1>3, <1>4, <1>5, <1>6, <1>7, <1>8, <1>9 DEF Fits

-----------------------------------------------------------------------------
(* What a step of one device leaves as it should be. *)

LEMMA AllSealed == ASSUME Group, TypeInv PROVE \A r \in recs : Sealed(r)
  <1>1. SUFFICES ASSUME NEW r \in recs PROVE Sealed(r)
    OBVIOUS
  <1>2. r \in Record /\ r.n \in Nat /\ (r.kind = "keys" => r.n \in 1..MaxEpoch)
    BY DEF TypeInv, TypeOK, IInv, Records, Types
  <1>3. r.ep.n \in 0..MaxEpoch /\ r.ep.maker \in Person
    BY <1>2 DEF Record
  <1>4. QED
    BY <1>2, <1>3 DEF Sealed, Group

LEMMA SoundStays ==
  ASSUME Group, TypeInv, AllShaped, AllHeld, AllSound, NEW d \in Person, NEW W,
         NEW M \in Known, NEW L \in AdminList,
         recs' = recs \cup W, accepted'[d] = accepted[d] \cup W, epochs'[d] = M, adm'[d] = L,
         \A e \in Person \ {d} : accepted'[e] = accepted[e] /\ epochs'[e] = epochs[e] /\ adm'[e] = adm[e],
         M[0] # Nobody, AllMade(recs', M),
         \A r \in W : Shaped(recs', r),
         Calm(recs') => /\ Extends(epochs[d], M) /\ Succeeds(adm[d], L)
                        /\ Backed(recs', L, M) /\ Vouched(M, L)
                        /\ \A r \in W : Fits(recs', accepted'[d], M, L, d, r)
  PROVE  AllShaped' /\ AllHeld' /\ AllSound'
  <1>1. \A r \in recs : Sealed(r)
    BY AllSealed
  <1>2. /\ accepted \in [Person -> SUBSET recs] /\ recs \subseteq recs'
        /\ \A e \in Person : adm[e] \in AdminList /\ adm[e].seq \in Nat
    BY DEF TypeInv, IInv, Records, Types, AdminList
  <1>3. L.seq \in Nat
    BY DEF AdminList
  <1>4. AllShaped'
    <2>1. \A r \in recs : Shaped(recs', r)
      BY <1>2, ShapeStays DEF AllShaped
    <2>2. \A r \in recs' : Shaped(recs', r)
      BY <2>1
    <2>3. QED
      BY <2>2 DEF AllShaped
  <1>5. AllHeld'
    <2>1. Outside(accepted'[d], M, L)
      BY DEF Outside
    <2>2. \A e \in Person \ {d} : Outside(accepted'[e], epochs'[e], adm'[e]) /\ AllMade(recs', epochs'[e])
      BY <1>2, AllMadeStays DEF AllHeld
    <2>3. \A e \in Person : Outside(accepted'[e], epochs'[e], adm'[e]) /\ AllMade(recs', epochs'[e])
      BY <2>1, <2>2
    <2>4. QED
      BY <2>3 DEF AllHeld
  <1>6. SUFFICES ASSUME Calm(recs')
                 PROVE  \A e \in Person : Sound(recs', accepted'[e], epochs'[e], adm'[e], e)
    BY <1>4, <1>5 DEF AllSound
  <1>7. \A e \in Person : Sound(recs, accepted[e], epochs[e], adm[e], e)
    BY <1>2, <1>6, MadeStays DEF AllSound
  <1>8. Sound(recs', accepted'[d], M, L, d)
    <2>1. \A r \in accepted[d] : Fits(recs', accepted'[d], M, L, d, r)
      <3>1. TAKE r \in accepted[d]
      <3>2. r \in recs /\ Fits(recs, accepted[d], epochs[d], adm[d], d, r)
        BY <1>2, <1>7 DEF Sound
      <3>3. accepted[d] \subseteq accepted'[d] /\ Extends(epochs[d], M) /\ Succeeds(adm[d], L)
        BY <1>6
      <3>4. QED
        BY <1>1, <1>2, <1>3, <3>2, <3>3, FitStays
    <2>2. \A r \in accepted'[d] : Fits(recs', accepted'[d], M, L, d, r)
      BY <1>6, <2>1
    <2>3. QED
      BY <1>6, <2>2 DEF Sound
  <1>9. \A e \in Person \ {d} : Sound(recs', accepted[e], epochs[e], adm[e], e)
    <2>1. SUFFICES ASSUME NEW e \in Person PROVE Sound(recs', accepted[e], epochs[e], adm[e], e)
      OBVIOUS
    <2>2. Sound(recs, accepted[e], epochs[e], adm[e], e)
      BY <1>7
    <2>3. Backed(recs', adm[e], epochs[e])
      BY <1>2, <2>2, BackingStays DEF Sound
    <2>4. Extends(epochs[e], epochs[e]) /\ Succeeds(adm[e], adm[e])
      BY <1>2 DEF Extends, Succeeds
    <2>5. \A r \in accepted[e] : Fits(recs', accepted[e], epochs[e], adm[e], e, r)
      <3>1. TAKE r \in accepted[e]
      <3>2. r \in recs /\ Fits(recs, accepted[e], epochs[e], adm[e], e, r)
        BY <1>2, <2>2 DEF Sound
      <3>3. accepted[e] \subseteq accepted[e]
        OBVIOUS
      <3>4. QED
        BY <1>1, <1>2, <2>4, <3>2, <3>3, FitStays
    <2>6. QED
      BY <2>2, <2>3, <2>5 DEF Sound
  <1>10. QED
    BY <1>8, <1>9

LEMMA EnteredStays ==
  ASSUME Entered, \A x \in Person : epochs'[x][0] = epochs[x][0] /\ accepted[x] \subseteq accepted'[x]
  PROVE  Entered'
  <1>1. SUFFICES ASSUME NEW x \in Person, epochs'[x][0] # Nobody PROVE EntriesOf(x, x)' # {}
    BY DEF Entered, In
  <1>2. PICK r : r \in EntriesOf(x, x)
    BY <1>1 DEF Entered, In
  <1>3. r \in EntriesOf(x, x)'
    BY <1>2 DEF EntriesOf
  <1>4. QED
    BY <1>3

LEMMA ReachedStays ==
  ASSUME Group, TypeInv, Reached, NEW W, recs' = recs \cup W, \A r \in W : r.kind # "keys",
         overtaken' = overtaken,
         \A x \in Person : /\ epochs'[x][0] = epochs[x][0]
                           /\ \A n \in 0..MaxEpoch : epochs[x][n] # Nobody => epochs'[x][n] # Nobody
  PROVE  Reached'
  <1>1. SUFFICES ASSUME ~overtaken', NEW r \in recs', r.kind = "keys", NEW x \in Person,
                        epochs'[x][0] # Nobody, x \notin EverRemoved'
                 PROVE  x \in r.to \/ epochs'[x][r.n] # Nobody
    BY DEF Reached, IsKey, In
  <1>2. IsKey(r) /\ In(x) /\ x \notin EverRemoved /\ ~overtaken
    BY <1>1 DEF IsKey, In, EverRemoved
  <1>3. r.n \in 0..MaxEpoch
    BY <1>2, AllSealed DEF Sealed, IsKey
  <1>4. x \in r.to \/ epochs[x][r.n] # Nobody
    BY <1>2 DEF Reached, IsKey
  <1>5. QED
    BY <1>3, <1>4

LEMMA LatestMade ==
  ASSUME Group, TypeInv, AllHeld, NEW d \in Person, In(d)
  PROVE  /\ Latest(d) \in 0..MaxEpoch /\ epochs[d][Latest(d)] \in Person
         /\ MadeBy(recs, Latest(d), epochs[d][Latest(d)])
  <1>1. Latest(d) \in 0..MaxEpoch /\ epochs[d][Latest(d)] \in Person
    BY BlankTyped
  <1>2. epochs[d][Latest(d)] # Nobody
    BY <1>1 DEF Group
  <1>3. QED
    BY <1>1, <1>2 DEF AllHeld, AllMade

LEMMA RoleIs ==
  ASSUME TypeInv, NEW d \in Person, NEW x, EntriesOf(d, x) # {}
  PROVE  \E s \in accepted[d] : /\ IsEntry(s) /\ s.who = x /\ s.role = Role(d, x)
                                /\ s = Best(EntriesOf(d, x))
  <1>1. EntriesOf(d, x) \subseteq recs
    BY DEF EntriesOf, TypeInv, TypeOK
  <1>2. Best(EntriesOf(d, x)) \in EntriesOf(d, x)
    BY <1>1, BestIs DEF TypeInv, IInv, Records
  <1>3. QED
    BY <1>1, <1>2 DEF EntriesOf, IsEntry, Role

(* An entry written again has the token of one before, or none; who is a *)
(* member in it was one.                                                 *)
Again(R, q) ==
  /\ q.token = NoToken \/ \E u \in R : u.kind = "entry" /\ u.who = q.who /\ u.token = q.token
  /\ q.role = "member" => \E u \in R : u.kind = "entry" /\ u.who = q.who /\ u.role = "member"

(* What is written under the latest epoch, but for key packages: S are the *)
(* records with it, R those before.                                        *)
Plain(R, S, d, q) ==
  /\ q.kind # "keys" /\ q.by = d
  /\ q.kind = "grants" => d = Owner /\ q.n >= 1
  /\ q.kind = "entry" => EntryShaped(S, q) /\ Again(R, q)

PlainFits(S, A, K, L, d, q) ==
  /\ q.kind = "grants" => q.n <= L.seq
  /\ q.kind = "entry" =>
       /\ \E f \in A : f.kind = "entry" /\ f.who = q.who /\ Root(L, f)
       /\ q.who # d => Admin(L, d)
       /\ q.role = "admin" => Invited(S, q.who) \/ \E g \in Lists(S) : q.who \in g.to /\ Opens(K, g)
  /\ q.kind = "post" /\ d # Owner => \E f \in A : f.kind = "entry" /\ f.who = d

LEMMA PlainWriteAgrees ==
  ASSUME Group, AgreeInv, TypeInv', NEW d \in Person, In(d), NEW W, Writes(d, W),
         UNCHANGED <<epochs, tokens, overtaken>>,
         NEW L \in AdminList, adm'[d] = L, \A e \in Person \ {d} : adm'[e] = adm[e],
         \A q \in W : q.ep = PublishedUnder(d) /\ Plain(recs, recs', d, q),
         Calm(recs') => /\ Succeeds(adm[d], L) /\ Backed(recs', L, epochs[d])
                        /\ \A q \in W : PlainFits(recs', accepted'[d], epochs[d], L, d, q)
  PROVE  Agree'
  <1>1. /\ recs' = recs \cup W /\ accepted' = [accepted EXCEPT ![d] = @ \cup W]
        /\ accepted \in [Person -> SUBSET recs] /\ epochs \in [Person -> Known]
    BY DEF Writes, AgreeInv, TypeInv, IInv, Records, Types
  <1>2. TypeInv /\ AllShaped /\ AllHeld /\ AllSound /\ Handouts /\ InvitedAlike /\ Entered /\ Reached
    BY DEF AgreeInv, Agree
  <1>3. /\ MadeBy(recs, Latest(d), epochs[d][Latest(d)])
        /\ PublishedUnder(d) = [n |-> Latest(d), maker |-> epochs[d][Latest(d)]]
    BY <1>2, LatestMade DEF PublishedUnder
  <1>4. \A r \in W : Shaped(recs', r)
    <2>1. MadeBy(recs', Latest(d), epochs[d][Latest(d)])
      BY <1>1, <1>3, MadeStays
    <2>2. QED
      BY <1>3, <2>1 DEF Shaped, Plain
  <1>5. \A r \in W : Opens(epochs[d], r)
    BY <1>3 DEF Opens
  <1>6. Calm(recs') => \A r \in W : Fits(recs', accepted'[d], epochs[d], L, d, r)
    BY <1>5 DEF Fits, Plain, PlainFits
  <1>7. AllShaped' /\ AllHeld' /\ AllSound'
    <2>1. epochs[d] \in Known /\ epochs'[d] = epochs[d] /\ Extends(epochs[d], epochs[d])
      BY <1>1 DEF Extends
    <2>2. accepted'[d] = accepted[d] \cup W
      BY <1>1
    <2>3. \A e \in Person \ {d} : accepted'[e] = accepted[e] /\ epochs'[e] = epochs[e] /\ adm'[e] = adm[e]
      BY <1>1
    <2>4. epochs[d][0] # Nobody
      BY DEF In
    <2>5. AllMade(recs', epochs[d])
      BY <1>1, <1>2, AllMadeStays DEF AllHeld
    <2>6. Calm(recs') => Vouched(epochs[d], L)
      <3>1. SUFFICES ASSUME Calm(recs') PROVE Vouched(epochs[d], L)
        OBVIOUS
      <3>2. Vouched(epochs[d], adm[d])
        BY <1>1, <1>2, <3>1, MadeStays DEF AllSound, Sound
      <3>3. QED
        BY <3>1, <3>2, RootStays
    <2>7. recs' = recs \cup W
      BY <1>1
    <2>8. QED
      BY <1>2, <1>4, <1>6, <2>1, <2>2, <2>3, <2>4, <2>5, <2>6, <2>7, SoundStays
  <1>8. Handouts'
    BY <1>1, <1>2, HandoutStays DEF Handouts
  <1>9. InvitedAlike'
    <2>1. \A x : Invited(recs', x) => Invited(recs, x)
      BY <1>1 DEF Invited, Plain, Again, NoToken
    <2>2. \A r \in recs' : r.kind = "entry" /\ Invited(recs, r.who) => r.role # "member"
      BY <1>1, <1>2 DEF InvitedAlike, Plain, Again
    <2>3. QED
      BY <2>1, <2>2 DEF InvitedAlike
  <1>10. Entered'
    <2>1. \A x \in Person : epochs'[x][0] = epochs[x][0] /\ accepted[x] \subseteq accepted'[x]
      BY <1>1
    <2>2. QED
      BY <1>2, <2>1, EnteredStays
  <1>11. Reached'
    <2>1. \A r \in W : r.kind # "keys"
      BY DEF Plain
    <2>2. QED
      BY <1>1, <1>2, <2>1, ReachedStays
  <1>12. QED
    BY <1>7, <1>8, <1>9, <1>10, <1>11 DEF Agree

(* The same, by who leaves the admin list as it is. *)
LEMMA SameList ==
  ASSUME Group, AgreeInv, NEW d \in Person, recs \subseteq recs'
  PROVE  /\ adm[d] \in AdminList /\ Succeeds(adm[d], adm[d])
         /\ Lists(recs) \subseteq Lists(recs')
         /\ Calm(recs') => /\ Backed(recs', adm[d], epochs[d]) /\ Vouched(epochs[d], adm[d])
                           /\ \A r \in accepted[d] : Fits(recs, accepted[d], epochs[d], adm[d], d, r)
  <1>1. adm[d] \in AdminList /\ adm[d].seq \in Nat
    BY DEF AgreeInv, TypeInv, IInv, Records, Types, AdminList
  <1>2. Succeeds(adm[d], adm[d])
    BY <1>1 DEF Succeeds
  <1>3. ASSUME Calm(recs')
        PROVE  /\ Backed(recs', adm[d], epochs[d]) /\ Vouched(epochs[d], adm[d])
               /\ \A r \in accepted[d] : Fits(recs, accepted[d], epochs[d], adm[d], d, r)
    <2>1. Sound(recs, accepted[d], epochs[d], adm[d], d)
      BY <1>3, MadeStays DEF AgreeInv, Agree, AllSound
    <2>2. QED
      BY <2>1, BackingStays DEF Sound
  <1>4. QED
    BY <1>1, <1>2, <1>3, MadeStays

LEMMA RevealAgrees ==
  ASSUME Group, AgreeInv, TypeInv', NEW d \in Person, Reveal(d)
  PROVE  Agree'
  <1> DEFINE r == [Blank(d, "entry") EXCEPT !.who = d, !.role = Role(d, d)]
  <1>1. /\ Writes(d, {r}) /\ UNCHANGED <<epochs, adm, tokens, overtaken>>
        /\ Role(d, d) \in {"admin", "member"} /\ d # Owner
    BY DEF Reveal
  <1>2. /\ r.kind = "entry" /\ r.by = d /\ r.ep = PublishedUnder(d) /\ r.who = d /\ r.role = Role(d, d)
        /\ r.token = NoToken
    BY DEF Blank, PublishedUnder
  <1> HIDE DEF r
  <1>3. TypeInv /\ IInv
    BY DEF AgreeInv, TypeInv
  <1>4. In(d) /\ EntriesOf(d, d) # {}
    BY <1>1, <1>3, RoleIn
  <1>5. PICK s \in accepted[d] : IsEntry(s) /\ s.who = d /\ s.role = Role(d, d)
    BY <1>3, <1>4, RoleIs
  <1>6. recs \subseteq recs' /\ accepted[d] \subseteq accepted'[d]
    BY <1>1, <1>3 DEF Writes, IInv, Records, Types
  <1>7. /\ adm[d] \in AdminList /\ Succeeds(adm[d], adm[d])
        /\ Calm(recs') => /\ Backed(recs', adm[d], epochs[d])
                          /\ Fits(recs, accepted[d], epochs[d], adm[d], d, s)
    BY <1>5, <1>6, SameList
  <1>8. Plain(recs, recs', d, r)
    BY <1>1, <1>2, <1>5 DEF Plain, EntryShaped, Again, IsEntry
  <1>9. Calm(recs') => PlainFits(recs', accepted'[d], epochs[d], adm[d], d, r)
    <2>1. SUFFICES ASSUME Calm(recs') PROVE PlainFits(recs', accepted'[d], epochs[d], adm[d], d, r)
      OBVIOUS
    <2>2. Fits(recs, accepted[d], epochs[d], adm[d], d, s) /\ s.kind = "entry"
      BY <1>5, <1>7, <2>1 DEF IsEntry
    <2>3. \E f \in accepted'[d] : f.kind = "entry" /\ f.who = d /\ Root(adm[d], f)
      BY <1>5, <1>6, <2>2 DEF Fits
    <2>4. r.role = "admin" => Invited(recs', d) \/ \E g \in Lists(recs') : d \in g.to /\ Opens(epochs[d], g)
      BY <1>2, <1>5, <1>6, <2>2, MadeStays DEF Fits
    <2>5. QED
      BY <1>2, <2>3, <2>4 DEF PlainFits
  <1>10. adm'[d] = adm[d] /\ \A e \in Person \ {d} : adm'[e] = adm[e]
    BY <1>1
  <1>11. \A q \in {r} : q.ep = PublishedUnder(d) /\ Plain(recs, recs', d, q)
    BY <1>2, <1>8
  <1>12. Calm(recs') => /\ Succeeds(adm[d], adm[d]) /\ Backed(recs', adm[d], epochs[d])
                        /\ \A q \in {r} : PlainFits(recs', accepted'[d], epochs[d], adm[d], d, q)
    BY <1>7, <1>9
  <1>13. QED
    BY <1>1, <1>4, <1>7, <1>10, <1>11, <1>12, PlainWriteAgrees

LEMMA PostAgrees ==
  ASSUME Group, AgreeInv, TypeInv', NEW d \in Person, Post(d)
  PROVE  Agree'
  <1> DEFINE r == Blank(d, "post")
  <1>1. /\ Writes(d, {r}) /\ UNCHANGED <<epochs, adm, tokens, overtaken>>
        /\ Role(d, d) \in {"owner", "admin", "member"}
    BY DEF Post
  <1>2. r.kind = "post" /\ r.by = d /\ r.ep = PublishedUnder(d)
    BY DEF Blank, PublishedUnder
  <1> HIDE DEF r
  <1>3. TypeInv /\ IInv
    BY DEF AgreeInv, TypeInv
  <1>4. In(d) /\ EntriesOf(d, d) # {}
    BY <1>1, <1>3, RoleIn
  <1>5. PICK s \in accepted[d] : IsEntry(s) /\ s.who = d
    BY <1>3, <1>4, RoleIs
  <1>6. recs \subseteq recs' /\ accepted[d] \subseteq accepted'[d]
    BY <1>1, <1>3 DEF Writes, IInv, Records, Types
  <1>7. /\ adm[d] \in AdminList /\ Succeeds(adm[d], adm[d])
        /\ Calm(recs') => Backed(recs', adm[d], epochs[d])
    BY <1>6, SameList
  <1>8. PlainFits(recs', accepted'[d], epochs[d], adm[d], d, r)
    BY <1>2, <1>5, <1>6 DEF IsEntry, PlainFits
  <1>9. adm'[d] = adm[d] /\ \A e \in Person \ {d} : adm'[e] = adm[e]
    BY <1>1
  <1>10. \A q \in {r} : q.ep = PublishedUnder(d) /\ Plain(recs, recs', d, q)
    BY <1>2 DEF Plain
  <1>11. Calm(recs') => /\ Succeeds(adm[d], adm[d]) /\ Backed(recs', adm[d], epochs[d])
                        /\ \A q \in {r} : PlainFits(recs', accepted'[d], epochs[d], adm[d], d, q)
    BY <1>7, <1>8
  <1>12. QED
    BY <1>1, <1>4, <1>7, <1>9, <1>10, <1>11, PlainWriteAgrees

LEMMA RemoveAgrees ==
  ASSUME Group, AgreeInv, TypeInv', NEW d \in Person, NEW x \in Person, Remove(d, x)
  PROVE  Agree'
  <1> DEFINE r == [Blank(d, "entry") EXCEPT !.who = x, !.role = "removed",
                     !.token = Best(EntriesOf(d, x)).token]
  <1>1. /\ Writes(d, {r}) /\ UNCHANGED <<epochs, adm, tokens, overtaken>> /\ IsAdmin(d, d)
        /\ x # Owner /\ EntriesOf(d, x) # {}
    BY DEF Remove, Listed
  <1>2. /\ r.kind = "entry" /\ r.by = d /\ r.ep = PublishedUnder(d) /\ r.who = x /\ r.role = "removed"
        /\ r.token = Best(EntriesOf(d, x)).token
    BY DEF Blank, PublishedUnder
  <1> HIDE DEF r
  <1>3. TypeInv /\ IInv
    BY DEF AgreeInv, TypeInv
  <1>4. In(d) /\ Admin(adm[d], d)
    BY <1>1, <1>3, RestTyped DEF IsAdmin, Admin
  <1>5. PICK s \in accepted[d] : IsEntry(s) /\ s.who = x /\ s = Best(EntriesOf(d, x))
    BY <1>1, <1>3, RoleIs
  <1>6. recs \subseteq recs' /\ r \in accepted'[d]
    BY <1>1, <1>3 DEF Writes, IInv, Records, Types
  <1>7. /\ adm[d] \in AdminList /\ Succeeds(adm[d], adm[d])
        /\ Calm(recs') => Backed(recs', adm[d], epochs[d])
    BY <1>6, SameList
  <1>8. Plain(recs, recs', d, r)
    BY <1>1, <1>2, <1>5 DEF Plain, EntryShaped, Again, IsEntry
  <1>9. PlainFits(recs', accepted'[d], epochs[d], adm[d], d, r)
    BY <1>2, <1>4, <1>6 DEF Root, PlainFits
  <1>10. adm'[d] = adm[d] /\ \A e \in Person \ {d} : adm'[e] = adm[e]
    BY <1>1
  <1>11. \A q \in {r} : q.ep = PublishedUnder(d) /\ Plain(recs, recs', d, q)
    BY <1>2, <1>8
  <1>12. Calm(recs') => /\ Succeeds(adm[d], adm[d]) /\ Backed(recs', adm[d], epochs[d])
                        /\ \A q \in {r} : PlainFits(recs', accepted'[d], epochs[d], adm[d], d, q)
    BY <1>7, <1>9
  <1>13. QED
    BY <1>1, <1>4, <1>7, <1>10, <1>11, <1>12, PlainWriteAgrees

(* A list with a number is later than what a device goes by. *)
LEMMA NextList ==
  ASSUME Group, AgreeInv, TypeInv', recs \subseteq recs', NEW d \in Person, NEW g \in Lists(recs'),
         NEW L \in AdminList, L.seq = g.n, L.list = g.to, adm[d].seq <= g.n, Calm(recs')
  PROVE  Succeeds(adm[d], L)
  <1>1. adm[d] \in AdminList /\ adm[d].seq \in Nat /\ g.n \in Nat
    BY DEF AgreeInv, TypeInv, IInv, Records, Types, AdminList
  <1>2. Backed(recs', adm[d], epochs[d])
    BY SameList
  <1>3. CASE adm[d] = NoList
    BY <1>1, <1>3 DEF Succeeds, NoList
  <1>4. CASE adm[d] # NoList
    <2>1. PICK h \in Lists(recs') : h.n = adm[d].seq /\ h.to = adm[d].list
      BY <1>2, <1>4 DEF Backed
    <2>2. h.to \subseteq g.to
      BY <2>1 DEF Calm, Grow
    <2>3. QED
      BY <1>1, <2>1, <2>2 DEF Succeeds
  <1>5. QED
    BY <1>3, <1>4

LEMMA PromoteAgrees ==
  ASSUME Group, AgreeInv, TypeInv', NEW x \in Person, Promote(x)
  PROVE  Agree'
  <1> DEFINE list == {y \in Person : y = x \/ Role(Owner, y) = "admin"}
             r == [Blank(Owner, "entry") EXCEPT !.who = x, !.role = "admin",
                     !.token = Best(EntriesOf(Owner, x)).token]
             g == [Blank(Owner, "grants") EXCEPT !.n = adm[Owner].seq + 1, !.to = list]
             L == [seq |-> adm[Owner].seq + 1, list |-> list]
  <1>1. /\ Writes(Owner, {r, g}) /\ UNCHANGED <<epochs, tokens, overtaken>>
        /\ adm' = [adm EXCEPT ![Owner] = L] /\ x # Owner /\ EntriesOf(Owner, x) # {}
    BY DEF Promote, Role
  <1>2. /\ r.kind = "entry" /\ r.by = Owner /\ r.ep = PublishedUnder(Owner) /\ r.who = x /\ r.role = "admin"
        /\ r.token = Best(EntriesOf(Owner, x)).token
        /\ g.kind = "grants" /\ g.by = Owner /\ g.ep = PublishedUnder(Owner)
        /\ g.n = adm[Owner].seq + 1 /\ g.to = list
    BY DEF Blank, PublishedUnder
  <1>3. L.seq = adm[Owner].seq + 1 /\ L.list = list /\ x \in list /\ list \in SUBSET Person
    OBVIOUS
  <1> HIDE DEF r, g, list
  <1>4. TypeInv /\ IInv /\ Owner \in Person /\ In(Owner) /\ Admin(L, Owner)
    BY RestTyped DEF AgreeInv, TypeInv, Group, Admin
  <1>5. PICK s \in accepted[Owner] : IsEntry(s) /\ s.who = x /\ s = Best(EntriesOf(Owner, x))
    BY <1>1, <1>4, RoleIs
  <1>6. recs' = recs \cup {r, g} /\ r \in accepted'[Owner]
    BY <1>1, <1>4 DEF Writes, IInv, Records, Types
  <1>7. adm \in [Person -> AdminList] /\ adm[Owner].seq \in Nat
    BY <1>4, RestTyped DEF AdminList
  <1>8. L \in AdminList
    BY <1>3, <1>7 DEF AdminList
  <1>9. g \in Lists(recs') /\ Opens(epochs[Owner], g)
    BY <1>2, <1>6 DEF Lists, Opens, PublishedUnder
  <1>10. Backed(recs', L, epochs[Owner])
    BY <1>2, <1>3, <1>9 DEF Backed
  <1>11. Calm(recs') => Succeeds(adm[Owner], L)
    <2>1. recs \subseteq recs' /\ L.seq = g.n /\ L.list = g.to /\ adm[Owner].seq <= g.n
      BY <1>2, <1>3, <1>6, <1>7
    <2> HIDE DEF L
    <2>2. QED
      BY <1>4, <1>8, <1>9, <2>1, NextList
  <1>12. EntryShaped(recs', r)
    BY <1>1, <1>2, <1>3, <1>9 DEF EntryShaped
  <1>13. Plain(recs, recs', Owner, r) /\ Plain(recs, recs', Owner, g)
    BY <1>2, <1>5, <1>7, <1>12 DEF Plain, Again, IsEntry
  <1>14. PlainFits(recs', accepted'[Owner], epochs[Owner], L, Owner, r)
    BY <1>2, <1>3, <1>4, <1>6, <1>9 DEF Root, PlainFits
  <1>15. PlainFits(recs', accepted'[Owner], epochs[Owner], L, Owner, g)
    BY <1>2, <1>3, <1>7 DEF PlainFits
  <1>16. adm'[Owner] = L /\ \A e \in Person \ {Owner} : adm'[e] = adm[e]
    BY <1>1, <1>4, <1>7
  <1> HIDE DEF L
  <1>17. \A q \in {r, g} : q.ep = PublishedUnder(Owner) /\ Plain(recs, recs', Owner, q)
    BY <1>2, <1>13
  <1>18. Calm(recs') => /\ Succeeds(adm[Owner], L) /\ Backed(recs', L, epochs[Owner])
                        /\ \A q \in {r, g} : PlainFits(recs', accepted'[Owner], epochs[Owner], L, Owner, q)
    BY <1>10, <1>11, <1>14, <1>15
  <1>19. QED
    BY <1>1, <1>4, <1>8, <1>16, <1>17, <1>18, PlainWriteAgrees

LEMMA InviteAgrees ==
  ASSUME Group, AgreeInv, TypeInv', NEW d \in Person, NEW role \in {"member", "admin"}, Invite(d, role)
  PROVE  Agree'
  <1> DEFINE t == [token |-> [by |-> d, role |-> role, id |-> Cardinality(tokens) + 1], adm |-> adm[d],
                   epochs |-> Brought(d)]
  <1>1. /\ UNCHANGED <<recs, accepted, epochs, adm, overtaken>> /\ IsAdmin(d, d)
        /\ tokens' = tokens \cup {t}
    BY ZenonT(30) DEF Invite, Brought
  <1>2. t.token.by = d /\ t.adm = adm[d] /\ t.epochs = Brought(d)
    OBVIOUS
  <1> HIDE DEF t
  <1>3. /\ AllShaped /\ AllHeld /\ AllSound /\ Handouts /\ InvitedAlike /\ Entered /\ Reached
        /\ TypeInv /\ Types
    BY DEF AgreeInv, Agree, TypeInv, IInv, Records
  <1>4. AllShaped' /\ AllHeld' /\ AllSound' /\ InvitedAlike'
    BY <1>1, <1>3 DEF AllShaped, AllHeld, AllSound, InvitedAlike
  <1>5. /\ Brought(d) \in Known /\ Brought(d)[0] = epochs[d][0]
        /\ \A n \in 0..MaxEpoch : Brought(d)[n] # Nobody => Brought(d)[n] = epochs[d][n]
    BY <1>3, BroughtIs
  <1>6. AllMade(recs, epochs[d]) /\ 0 \in 0..MaxEpoch
    BY <1>3 DEF AllHeld, Group
  <1>7. Handout(recs, t)
    <2>1. AllMade(recs, t.epochs)
      BY <1>2, <1>5, <1>6 DEF AllMade
    <2>2. Vouched(t.epochs, t.adm)
      <3>1. SUFFICES ASSUME NEW n \in 0..MaxEpoch, Brought(d)[n] # Nobody PROVE Admin(adm[d], Brought(d)[n])
        BY <1>2 DEF Vouched
      <3>2. CASE n = 0
        BY <1>5, <1>6, <3>1, <3>2 DEF AllMade, MadeBy, Admin
      <3>3. CASE n # 0
        BY <3>1, <3>3 DEF Brought, IsAdmin, Admin
      <3>4. QED
        BY <3>2, <3>3
    <2>3. Admin(t.adm, t.token.by)
      BY <1>1, <1>2 DEF IsAdmin, Admin
    <2>4. ASSUME Calm(recs) PROVE Backed(recs, t.adm, t.epochs)
      <3>1. Backed(recs, adm[d], epochs[d]) /\ Vouched(epochs[d], adm[d])
        BY <1>3, <2>4 DEF AllSound, Sound
      <3>2. \A n \in 0..MaxEpoch : epochs[d][n] # Nobody => Brought(d)[n] = epochs[d][n]
        BY <3>1 DEF Vouched, Brought, IsAdmin, Admin
      <3>3. Extends(epochs[d], Brought(d))
        BY <3>2 DEF Extends
      <3>4. \A g \in recs : Sealed(g)
        BY <1>3, AllSealed
      <3>5. recs \subseteq recs
        OBVIOUS
      <3>6. Backed(recs, adm[d], Brought(d))
        BY <3>1, <3>3, <3>4, <3>5, BackedOnStays
      <3>7. QED
        BY <1>2, <3>6
    <2>5. QED
      BY <2>1, <2>2, <2>3, <2>4 DEF Handout
  <1>8. Handouts'
    BY <1>1, <1>3, <1>7 DEF Handouts
  <1>9. Entered' /\ Reached'
    BY <1>1, <1>3 DEF Entered, Reached, In, EntriesOf, IsKey, EverRemoved
  <1>10. QED
    BY <1>4, <1>8, <1>9 DEF Agree

(* Nothing is held above the latest epoch. *)
LEMMA LastIsTop ==
  ASSUME Group, NEW known \in Known
  PROVE  \A n \in 0..MaxEpoch : known[n] # Nobody => n <= LastOf(known)
  <1> DEFINE S == {n \in 0..MaxEpoch : known[n] # Nobody} \cup {0}
  <1>1. S \subseteq Nat /\ S # {} /\ MaxEpoch \in Nat /\ \A x \in S : x <= MaxEpoch
    BY DEF Group
  <1> HIDE DEF S
  <1>2. \A x \in S : x <= Max(S)
    BY <1>1, MaxIs
  <1>3. QED
    BY <1>2 DEF LastOf, S

(* Without rivals an invite brings no other key for an epoch than one has. *)
LEMMA MergedExtends ==
  ASSUME Group, NEW R, ~ Rival(R), NEW K \in Known, NEW T \in Known, AllMade(R, K), AllMade(R, T)
  PROVE  Extends(K, Merged(K, T)) /\ Extends(T, Merged(K, T)) /\ AllMade(R, Merged(K, T))
  <1>1. \A n \in 0..MaxEpoch :
          /\ T[n] # Nobody => Merged(K, T)[n] = T[n]
          /\ T[n] = Nobody => Merged(K, T)[n] = K[n]
    BY MergedIs
  <1>2. \A n \in 0..MaxEpoch : K[n] # Nobody /\ T[n] # Nobody => K[n] = T[n]
    BY DEF AllMade, MadeBy, Rival
  <1>3. QED
    BY <1>1, <1>2 DEF Extends, AllMade

(* What a device has after it opened an invite. *)
LEMMA OpenedSound ==
  ASSUME Group, AgreeInv, Calm(recs), NEW x \in Person, NEW t \in tokens,
         NEW M, M = Merged(epochs[x], t.epochs), NEW L, L = Newer(adm[x], t.adm)
  PROVE  /\ Extends(epochs[x], M) /\ Succeeds(adm[x], L) /\ Succeeds(t.adm, L)
         /\ Backed(recs, L, M) /\ Vouched(M, L)
  <1>1. /\ epochs[x] \in Known /\ adm[x] \in AdminList /\ t.epochs \in Known /\ t.adm \in AdminList
        /\ \A g \in recs : Sealed(g)
    BY RestTyped, AllSealed DEF AgreeInv
  <1>2. /\ AllMade(recs, epochs[x]) /\ Backed(recs, adm[x], epochs[x]) /\ Vouched(epochs[x], adm[x])
        /\ AllMade(recs, t.epochs) /\ Backed(recs, t.adm, t.epochs) /\ Vouched(t.epochs, t.adm)
    BY DEF AgreeInv, Agree, AllHeld, AllSound, Sound, Handouts, Handout
  <1>3. Extends(epochs[x], M) /\ Extends(t.epochs, M)
    BY <1>1, <1>2, MergedExtends DEF Calm
  <1>4. Backed(recs, adm[x], M) /\ Backed(recs, t.adm, M)
    BY <1>1, <1>2, <1>3, BackedOnStays
  <1>5. /\ L \in {adm[x], t.adm} /\ adm[x].seq <= L.seq /\ t.adm.seq <= L.seq
        /\ adm[x].seq \in Nat /\ t.adm.seq \in Nat /\ L.seq \in Nat
    BY <1>1, NewerIs DEF AdminList
  <1>6. Backed(recs, L, M)
    BY <1>4, <1>5
  <1>7. \A g \in Lists(recs) : g.n \in Nat /\ g.n >= 1
    BY <1>1 DEF AgreeInv, Agree, AllShaped, Shaped, Lists, Sealed
  <1>8. Succeeds(adm[x], L) /\ Succeeds(t.adm, L)
    BY <1>4, <1>5, <1>6, <1>7, LaterList DEF Calm
  <1>9. Vouched(M, L)
    <2>1. Vouched(epochs[x], L) /\ Vouched(t.epochs, L)
      BY <1>2, <1>8, RootStays
    <2>2. \A n \in 0..MaxEpoch : M[n] = t.epochs[n] \/ M[n] = epochs[x][n]
      BY <1>1, MergedIs
    <2>3. QED
      BY <2>1, <2>2 DEF Vouched
  <1>10. QED
    BY <1>3, <1>6, <1>8, <1>9

LEMMA AcceptInviteAgrees ==
  ASSUME Group, AgreeInv, TypeInv', NEW x \in Person, AcceptInvite(x)
  PROVE  Agree'
  <1>1. /\ AllShaped /\ AllHeld /\ AllSound /\ Handouts /\ InvitedAlike /\ Entered /\ Reached
        /\ TypeInv /\ IInv
    BY DEF AgreeInv, Agree, TypeInv
  <1>2. PICK t \in tokens :
          /\ epochs' \in [Person -> Known] /\ adm' \in [Person -> AdminList]
          /\ handed' \in [Person -> SUBSET (1..MaxEpoch)] /\ tokens' = tokens
          /\ t.epochs \in Known /\ t.adm \in AdminList
          /\ epochs'[x] = Merged(epochs[x], t.epochs) /\ adm'[x] = Newer(adm[x], t.adm)
          /\ \A n \in 1..MaxEpoch : n \in handed'[x] <=> (n \in handed[x] \/ t.epochs[n] # Nobody)
          /\ \A e \in Person \ {x} : /\ epochs'[e] = epochs[e] /\ adm'[e] = adm[e]
                                     /\ handed'[e] = handed[e]
          /\ \/ Join(x, t, Merged(epochs[x], t.epochs))
             \/ x \in Listed(x) /\ UNCHANGED <<recs, accepted, overtaken>>
    BY <1>1, OpeningIs
  <1>3. /\ epochs[x] \in Known /\ t.epochs[0] # Nobody /\ t.token \in Token
        /\ t.token.role \in {"member", "admin"} /\ Handout(recs, t) /\ 0 \in 0..MaxEpoch
    BY <1>1, RestTyped DEF Handouts, Group
  <1>4. /\ \A n \in 0..MaxEpoch :
             /\ t.epochs[n] # Nobody => epochs'[x][n] = t.epochs[n]
             /\ t.epochs[n] = Nobody => epochs'[x][n] = epochs[x][n]
        /\ epochs'[x][0] # Nobody
    BY <1>2, <1>3, MergedIs
  <1> DEFINE r == EntryOf(x, t, Merged(epochs[x], t.epochs))
  <1>5. PICK W : \/ W = {r} /\ Join(x, t, Merged(epochs[x], t.epochs))
                 \/ W = {} /\ x \in Listed(x) /\ UNCHANGED <<recs, accepted, overtaken>>
    <2>1. CASE Join(x, t, Merged(epochs[x], t.epochs))
      <3>1. PICK W : W = {r}
        OBVIOUS
      <3>2. QED
        BY <2>1, <3>1
    <2>2. CASE x \in Listed(x) /\ UNCHANGED <<recs, accepted, overtaken>>
      <3>1. PICK W : W = {}
        OBVIOUS
      <3>2. QED
        BY <2>2, <3>1
    <2>3. QED
      BY <1>2, <2>1, <2>2
  <1>6. /\ r.kind = "entry" /\ r.by = x /\ r.who = x /\ r.role = t.token.role /\ r.token = t.token
        /\ r.ep.n = LastOf(Merged(epochs[x], t.epochs))
        /\ r.ep.maker = Merged(epochs[x], t.epochs)[LastOf(Merged(epochs[x], t.epochs))]
    BY DEF EntryOf, Blank
  <1>7. /\ recs' = recs \cup W /\ accepted'[x] = accepted[x] \cup W
        /\ \A e \in Person \ {x} : accepted'[e] = accepted[e]
    <2>1. accepted \in [Person -> SUBSET recs]
      BY <1>1 DEF IInv, Records, Types
    <2>2. CASE W = {r} /\ Join(x, t, Merged(epochs[x], t.epochs))
      <3>1. Writes(x, {r})
        BY <2>2 DEF Join, EntryOf
      <3>2. QED
        BY <2>1, <2>2, <3>1 DEF Writes
    <2>3. CASE W = {} /\ UNCHANGED <<recs, accepted, overtaken>>
      BY <2>3
    <2>4. QED
      BY <1>5, <2>2, <2>3
  <1> HIDE DEF r
  <1>8. \A q \in W : q = r
    BY <1>5
  <1>9. W # {} => (\A s \in recs : s.kind = "entry" => s.who # x) /\ x # Owner
    <2>1. SUFFICES ASSUME x \notin Listed(x)
                   PROVE  (\A s \in recs : s.kind = "entry" => s.who # x) /\ x # Owner
      BY <1>5 DEF Join
    <2>2. ~ In(x)
      BY <1>1, <2>1 DEF Entered, Listed
    <2>3. QED
      BY <1>1, <2>2, RestTyped DEF IInv, EntriesIn, IsEntry
  <1>10. AllMade(recs, epochs'[x])
    <2>1. AllMade(recs, epochs[x]) /\ AllMade(recs, t.epochs)
      BY <1>1, <1>3 DEF AllHeld, Handout
    <2>2. QED
      BY <1>4, <2>1 DEF AllMade
  <1>11. Shaped(recs', r) \/ W = {}
    <2>1. SUFFICES ASSUME W # {} PROVE Shaped(recs', r)
      OBVIOUS
    <2>2. MadeBy(recs, r.ep.n, r.ep.maker)
      <3>1. epochs'[x] \in Known
        BY <1>2
      <3>2. /\ LastOf(epochs'[x]) \in 0..MaxEpoch
            /\ LastOf(epochs'[x]) = 0 \/ epochs'[x][LastOf(epochs'[x])] # Nobody
        BY <3>1, LastIs
      <3>3. QED
        BY <1>2, <1>4, <1>6, <1>10, <3>2 DEF AllMade
    <2>3. MadeBy(recs', r.ep.n, r.ep.maker)
      BY <1>7, <2>2, MadeStays
    <2>4. EntryShaped(recs', r)
      BY <1>3, <1>6, <1>9, <2>1 DEF EntryShaped
    <2>5. QED
      BY <1>6, <2>3, <2>4 DEF Shaped
  <1>12. \A q \in W : Shaped(recs', q)
    BY <1>8, <1>11
  <1>13. ASSUME Calm(recs')
         PROVE  /\ Extends(epochs[x], epochs'[x]) /\ Succeeds(adm[x], adm'[x])
                /\ Backed(recs', adm'[x], epochs'[x]) /\ Vouched(epochs'[x], adm'[x])
                /\ \A q \in W : Fits(recs', accepted'[x], epochs'[x], adm'[x], x, q)
    <2>1. recs \subseteq recs'
      BY <1>7
    <2>2. Calm(recs)
      BY <1>13, <2>1, MadeStays
    <2>3. /\ Extends(epochs[x], epochs'[x]) /\ Succeeds(adm[x], adm'[x]) /\ Succeeds(t.adm, adm'[x])
          /\ Backed(recs, adm'[x], epochs'[x]) /\ Vouched(epochs'[x], adm'[x])
      BY <1>2, <2>2, OpenedSound
    <2>4. Backed(recs', adm'[x], epochs'[x])
      BY <2>1, <2>3, BackingStays
    <2>5. ASSUME W # {} PROVE Fits(recs', accepted'[x], epochs'[x], adm'[x], x, r)
      <3>1. r \in accepted'[x] /\ r \in recs'
        BY <1>7, <1>8, <2>5
      <3>2. Opens(epochs'[x], r)
        BY <1>2, <1>6 DEF Opens
      <3>3. Root(adm'[x], r)
        <4>1. t.token.by # Nobody
          BY <1>3 DEF Token, NoToken, Group
        <4>2. Admin(adm'[x], t.token.by)
          BY <1>3, <2>3, RootStays DEF Handout
        <4>3. QED
          BY <1>6, <4>1, <4>2 DEF Root
      <3>4. r.role = "admin" => Invited(recs', x)
        BY <1>6, <3>1 DEF Invited
      <3>5. QED
        BY <1>6, <3>1, <3>2, <3>3, <3>4 DEF Fits
    <2>6. QED
      BY <1>8, <2>3, <2>4, <2>5
  <1>14. AllShaped' /\ AllHeld' /\ AllSound'
    <2>1. epochs'[x] \in Known /\ adm'[x] \in AdminList
      BY <1>2
    <2>2. AllMade(recs', epochs'[x])
      BY <1>7, <1>10, AllMadeStays
    <2>3. \A e \in Person \ {x} : accepted'[e] = accepted[e] /\ epochs'[e] = epochs[e] /\ adm'[e] = adm[e]
      BY <1>2, <1>7
    <2>4. recs' = recs \cup W /\ accepted'[x] = accepted[x] \cup W
      BY <1>7
    <2>5. QED
      BY <1>1, <1>4, <1>12, <1>13, <2>1, <2>2, <2>3, <2>4, SoundStays
  <1>15. Handouts'
    BY <1>1, <1>2, <1>7, HandoutStays DEF Handouts
  <1>16. InvitedAlike'
    <2>1. CASE W = {}
      BY <1>1, <1>7, <2>1 DEF InvitedAlike
    <2>2. CASE W # {}
      <3>1. recs' = recs \cup {r}
        BY <1>7, <1>8, <2>2
      <3>2. \A y : Invited(recs', y) => Invited(recs, y) \/ (y = x /\ r.role = "admin")
        BY <1>6, <3>1 DEF Invited
      <3>3. ~ Invited(recs, x) /\ \A s \in recs : s.kind = "entry" => s.who # x
        BY <1>9, <2>2 DEF Invited
      <3>4. SUFFICES ASSUME NEW s \in recs', s.kind = "entry", Invited(recs', s.who) PROVE s.role # "member"
        BY DEF InvitedAlike
      <3>5. CASE s \in recs
        BY <1>1, <3>2, <3>3, <3>4, <3>5 DEF InvitedAlike
      <3>6. CASE s = r
        BY <1>6, <3>2, <3>3, <3>4, <3>6
      <3>7. QED
        BY <3>1, <3>5, <3>6
    <2>3. QED
      BY <2>1, <2>2
  <1>17. Entered'
    <2>1. SUFFICES ASSUME NEW y \in Person, epochs'[y][0] # Nobody PROVE EntriesOf(y, y)' # {}
      BY DEF Entered, In
    <2>2. CASE y = x
      <3>1. PICK s \in accepted'[x] : s.kind = "entry" /\ s.who = x
        BY <1>5, <1>6, <1>7 DEF Listed, EntriesOf
      <3>2. s \in EntriesOf(x, x)'
        BY <3>1 DEF EntriesOf
      <3>3. QED
        BY <2>2, <3>2
    <2>3. CASE y # x
      <3>1. PICK s : s \in EntriesOf(y, y)
        BY <1>1, <1>2, <2>1, <2>3 DEF Entered, In
      <3>2. s \in EntriesOf(y, y)'
        BY <1>7, <2>3, <3>1 DEF EntriesOf
      <3>3. QED
        BY <3>2
    <2>4. QED
      BY <2>2, <2>3
  <1>18. Reached'
    <2>1. SUFFICES ASSUME ~overtaken', NEW k \in recs', k.kind = "keys", NEW y \in Person,
                          epochs'[y][0] # Nobody, y \notin EverRemoved'
                   PROVE  y \in k.to \/ epochs'[y][k.n] # Nobody
      BY DEF Reached, IsKey, In
    <2>2. k \in recs /\ k.n \in 0..MaxEpoch
      BY <1>1, <1>6, <1>7, <1>8, <2>1, AllSealed DEF Sealed
    <2>3. y \notin EverRemoved /\ ~overtaken
      <3>1. recs \subseteq recs'
        BY <1>7
      <3>2. y \notin EverRemoved
        BY <2>1, <3>1 DEF EverRemoved
      <3>3. ~ overtaken
        <4>1. CASE x \in Listed(x)
          BY <1>5, <2>1, <4>1 DEF Join
        <4>2. CASE x \notin Listed(x)
          BY <1>5, <2>1, <4>2 DEF Join
        <4>3. QED
          BY <4>1, <4>2
      <3>4. QED
        BY <3>2, <3>3
    <2>4. ASSUME In(y) PROVE y \in k.to \/ epochs[y][k.n] # Nobody
      BY <1>1, <2>1, <2>2, <2>3, <2>4 DEF Reached, IsKey
    <2>5. CASE y # x
      BY <1>2, <2>1, <2>4, <2>5 DEF In
    <2>6. CASE y = x /\ x \notin Listed(x)
      <3>1. Join(x, t, Merged(epochs[x], t.epochs))
        BY <1>2, <2>6
      <3>2. t.epochs[k.n] # Nobody
        BY <2>1, <2>2, <3>1 DEF Join
      <3>3. QED
        BY <1>4, <2>2, <2>6, <3>2
    <2>7. CASE y = x /\ x \in Listed(x)
      <3>1. In(x)
        <4>1. accepted[x] # {}
          BY <2>7 DEF Listed, EntriesOf
        <4>2. QED
          BY <1>1, <4>1 DEF AllHeld, Outside, In
      <3>2. QED
        BY <1>4, <2>2, <2>4, <2>7, <3>1
    <2>8. QED
      BY <2>5, <2>6, <2>7
  <1>19. QED
    BY <1>14, <1>15, <1>16, <1>17, <1>18 DEF Agree

LEMMA RotateAgrees ==
  ASSUME Group, AgreeInv, TypeInv', NEW d \in Person, Rotate(d)
  PROVE  Agree'
  <1> DEFINE n == Latest(d)
             r == [Blank(d, "keys") EXCEPT !.n = n + 1, !.to = Recipients(d), !.ep = PublishedUnder(d)]
  <1>1. /\ Writes(d, {r}) /\ IsAdmin(d, d) /\ n < MaxEpoch /\ UNCHANGED <<adm, tokens>>
        /\ epochs' = [epochs EXCEPT ![d][n + 1] = d]
        /\ overtaken' = (overtaken \/ \E s \in recs : s.kind = "entry" /\ s.who \notin Listed(d))
    BY DEF Rotate
  <1>2. /\ r.kind = "keys" /\ r.by = d /\ r.n = n + 1 /\ r.to = Recipients(d)
        /\ r.ep.n = n /\ r.ep.maker = epochs[d][n]
    BY DEF Blank, PublishedUnder
  <1> HIDE DEF r
  <1>3. /\ AllShaped /\ AllHeld /\ AllSound /\ Handouts /\ InvitedAlike /\ Entered /\ Reached
        /\ TypeInv
    BY DEF AgreeInv, Agree
  <1>4. In(d) /\ Admin(adm[d], d)
    BY <1>1, <1>3, RestTyped DEF IsAdmin, Admin
  <1>5. /\ n \in 0..MaxEpoch /\ epochs[d][n] \in Person
        /\ MadeBy(recs, n, epochs[d][n])
    BY <1>3, <1>4, LatestMade
  <1>6. \A m \in 0..MaxEpoch : epochs[d][m] # Nobody => m <= n
    BY <1>3, RestTyped, LastIsTop DEF Latest
  <1> HIDE DEF n
  <1>7. n + 1 \in 0..MaxEpoch /\ n + 1 # 0 /\ n + 1 # n /\ epochs[d][n + 1] = Nobody
    BY <1>1, <1>5, <1>6 DEF Group
  <1>8. PICK W : W = {r}
    OBVIOUS
  <1>9. /\ recs' = recs \cup W /\ accepted'[d] = accepted[d] \cup W
        /\ \A e \in Person \ {d} : accepted'[e] = accepted[e]
        /\ recs' = recs \cup {r} /\ r \in recs'
    BY <1>1, <1>3, <1>8 DEF Writes, TypeInv, IInv, Records, Types
  <1>10. /\ epochs'[d] \in Known /\ epochs'[d][n + 1] = d /\ epochs \in [Person -> Known]
         /\ \A m \in 0..MaxEpoch : m # n + 1 => epochs'[d][m] = epochs[d][m]
         /\ \A e \in Person \ {d} : epochs'[e] = epochs[e]
         /\ adm'[d] = adm[d] /\ \A e \in Person \ {d} : adm'[e] = adm[e]
    <2>1. epochs \in [Person -> Known] /\ epochs' \in [Person -> Known]
      BY <1>3 DEF TypeInv, IInv, Records, Types
    <2>2. epochs[d] \in [0..MaxEpoch -> Person \cup {Nobody}]
      BY <2>1 DEF Known
    <2>3. epochs'[d] = [epochs[d] EXCEPT ![n + 1] = d]
      BY <1>1, <2>1
    <2>4. epochs'[d][n + 1] = d /\ \A m \in 0..MaxEpoch : m # n + 1 => epochs'[d][m] = epochs[d][m]
      BY <1>7, <2>2, <2>3
    <2>5. QED
      BY <1>1, <2>1, <2>4
  <1>11. Extends(epochs[d], epochs'[d])
    BY <1>7, <1>10 DEF Extends
  <1>12. \A g \in recs : Sealed(g)
    BY <1>3, AllSealed
  <1>13. /\ adm[d] \in AdminList /\ Succeeds(adm[d], adm[d])
         /\ Calm(recs') => Backed(recs', adm[d], epochs[d]) /\ Vouched(epochs[d], adm[d])
    BY <1>9, SameList
  <1>14. Calm(recs') => Backed(recs', adm[d], epochs'[d]) /\ Vouched(epochs'[d], adm[d])
    <2>1. SUFFICES ASSUME Calm(recs') PROVE Backed(recs', adm[d], epochs'[d]) /\ Vouched(epochs'[d], adm[d])
      OBVIOUS
    <2>2. Backed(recs, adm[d], epochs[d])
      BY <1>3, <1>9, <2>1, MadeStays DEF AllSound, Sound
    <2>3. recs \subseteq recs'
      BY <1>9
    <2>4. Backed(recs', adm[d], epochs'[d])
      BY <1>11, <1>12, <2>2, <2>3, BackedOnStays
    <2>5. Vouched(epochs'[d], adm[d])
      BY <1>4, <1>10, <1>13, <2>1 DEF Vouched
    <2>6. QED
      BY <2>4, <2>5
  <1>15. AllMade(recs', epochs'[d])
    <2>1. SUFFICES ASSUME NEW m \in 0..MaxEpoch, epochs'[d][m] # Nobody
                   PROVE  MadeBy(recs', m, epochs'[d][m])
      BY DEF AllMade
    <2>2. CASE m = n + 1
      BY <1>2, <1>7, <1>9, <1>10, <2>2 DEF MadeBy
    <2>3. CASE m # n + 1
      <3>1. epochs'[d][m] = epochs[d][m] /\ MadeBy(recs, m, epochs[d][m])
        BY <1>3, <1>10, <2>1, <2>3 DEF AllHeld, AllMade
      <3>2. QED
        BY <1>9, <3>1, MadeStays
    <2>4. QED
      BY <2>2, <2>3
  <1>16. Shaped(recs', r)
    <2>1. MadeBy(recs', n, epochs[d][n])
      BY <1>5, <1>9, MadeStays
    <2>2. Calm(recs') => d = Owner \/ \E g \in Lists(recs') : d \in g.to /\ g.ep.n <= n
      <3>1. SUFFICES ASSUME Calm(recs'), d # Owner PROVE \E g \in Lists(recs') : d \in g.to /\ g.ep.n <= n
        OBVIOUS
      <3>2. d \in adm[d].list /\ adm[d] # NoList
        BY <1>4, <3>1 DEF Admin, NoList
      <3>3. PICK g \in Lists(recs) : g.to = adm[d].list /\ Opens(epochs[d], g)
        BY <1>3, <1>9, <3>1, <3>2, MadeStays DEF AllSound, Sound, Backed
      <3>4. g \in recs' /\ g \in Lists(recs') /\ Sealed(g)
        BY <1>9, <1>12 DEF Lists
      <3>5. g.ep.n <= n
        BY <1>6, <3>3, <3>4 DEF Opens, Sealed
      <3>6. QED
        BY <3>2, <3>3, <3>4, <3>5
    <2>3. QED
      BY <1>2, <2>1, <2>2 DEF Shaped, KeyShaped
  <1>17. Fits(recs', accepted'[d], epochs'[d], adm[d], d, r)
    <2>1. Opens(epochs'[d], r) /\ epochs'[d][r.n] # Nobody
      BY <1>2, <1>5, <1>7, <1>10 DEF Opens, Group
    <2>2. QED
      BY <1>2, <1>4, <2>1 DEF Fits
  <1>18. epochs'[d][0] # Nobody /\ epochs'[d][0] = epochs[d][0]
    <2>1. 0 \in 0..MaxEpoch
      BY DEF Group
    <2>2. QED
      BY <1>4, <1>7, <1>10, <2>1 DEF In
  <1>19. AllShaped' /\ AllHeld' /\ AllSound'
    <2>1. \A q \in W : Shaped(recs', q)
      BY <1>8, <1>16
    <2>2. \A e \in Person \ {d} : accepted'[e] = accepted[e] /\ epochs'[e] = epochs[e] /\ adm'[e] = adm[e]
      BY <1>9, <1>10
    <2>3. /\ recs' = recs \cup W /\ accepted'[d] = accepted[d] \cup W /\ epochs'[d] \in Known
          /\ adm'[d] = adm[d] /\ adm[d] \in AdminList /\ epochs'[d][0] # Nobody
      BY <1>9, <1>10, <1>13, <1>18
    <2>4. Calm(recs') => /\ Extends(epochs[d], epochs'[d]) /\ Succeeds(adm[d], adm[d])
                         /\ Backed(recs', adm[d], epochs'[d]) /\ Vouched(epochs'[d], adm[d])
                         /\ \A q \in W : Fits(recs', accepted'[d], epochs'[d], adm[d], d, q)
      BY <1>8, <1>11, <1>13, <1>14, <1>17
    <2>5. QED
      BY <1>3, <1>15, <2>1, <2>2, <2>3, <2>4, SoundStays
  <1>20. Handouts'
    BY <1>1, <1>3, <1>9, HandoutStays DEF Handouts
  <1>21. InvitedAlike'
    <2>1. \A q \in W : q.kind # "entry"
      BY <1>2, <1>8
    <2>2. QED
      BY <1>3, <1>9, <2>1 DEF InvitedAlike, Invited
  <1>22. Entered'
    <2>1. accepted \in [Person -> SUBSET recs]
      BY <1>3 DEF TypeInv, IInv, Records, Types
    <2>2. \A x \in Person : epochs'[x][0] = epochs[x][0] /\ accepted[x] \subseteq accepted'[x]
      BY <1>9, <1>10, <1>18, <2>1
    <2>3. QED
      BY <1>3, <2>2, EnteredStays
  <1>23. Reached'
    <2>1. SUFFICES ASSUME ~overtaken', NEW k \in recs', k.kind = "keys", NEW x \in Person,
                          epochs'[x][0] # Nobody, x \notin EverRemoved'
                   PROVE  x \in k.to \/ epochs'[x][k.n] # Nobody
      BY DEF Reached, IsKey, In
    <2>2. In(x) /\ x \notin EverRemoved /\ ~overtaken
      BY <1>1, <1>9, <1>10, <1>18, <2>1 DEF In, EverRemoved
    <2>3. CASE k = r
      <3>1. PICK s \in recs : s.kind = "entry" /\ s.who = x
        BY <1>3, <2>2 DEF Entered, EntriesOf, TypeInv, TypeOK
      <3>2. EntriesOf(d, x) # {}
        BY <1>1, <2>1, <3>1 DEF Listed
      <3>3. PICK u \in accepted[d] : IsEntry(u) /\ u.who = x /\ u.role = Role(d, x)
        BY <1>3, <3>2, RoleIs
      <3>4. u.role \in {"owner", "admin", "member", "removed"} /\ u.role # "removed"
        BY <1>3, <2>2, <3>3 DEF AllShaped, Shaped, EntryShaped, IsEntry, EverRemoved
      <3>5. x \in Recipients(d)
        BY <3>3, <3>4 DEF Recipients, Active
      <3>6. QED
        BY <1>2, <2>3, <3>5
    <2>4. CASE k # r
      <3>1. k \in recs /\ k.n \in 0..MaxEpoch
        BY <1>9, <1>12, <2>1, <2>4 DEF Sealed
      <3>2. x \in k.to \/ epochs[x][k.n] # Nobody
        BY <1>3, <2>1, <2>2, <3>1 DEF Reached, IsKey
      <3>3. CASE x = d
        BY <1>11, <3>1, <3>2, <3>3 DEF Extends
      <3>4. CASE x # d
        BY <1>10, <3>2, <3>4
      <3>5. QED
        BY <3>3, <3>4
    <2>5. QED
      BY <2>3, <2>4
  <1>24. QED
    BY <1>19, <1>20, <1>21, <1>22, <1>23 DEF Agree

LEMMA DeliverAgrees ==
  ASSUME Group, AgreeInv, TypeInv', NEW d \in Person, NEW r \in recs, Deliver(d, r)
  PROVE  Agree'
  <1>1. /\ r \in recs \ accepted[d] /\ Opens(epochs[d], r) /\ Judged(d, r)
        /\ accepted' = [accepted EXCEPT ![d] = @ \cup {r}]
        /\ adm' = IF r.kind = "grants" THEN [adm EXCEPT ![d] = Adopted(d, r)] ELSE adm
        /\ epochs' = IF r.kind = "keys" /\ Current(r, accepted[d]) /\ epochs[d][r.n] = Nobody /\ d \in r.to
                     THEN [epochs EXCEPT ![d][r.n] = r.by] ELSE epochs
        /\ UNCHANGED <<recs, tokens, overtaken>>
    BY DEF Deliver, Admissible, Opens
  <1>2. /\ AllShaped /\ AllHeld /\ AllSound /\ Handouts /\ InvitedAlike /\ Entered /\ Reached
        /\ TypeInv
    BY DEF AgreeInv, Agree
  <1>3. /\ \A q \in recs : Sealed(q) /\ q.by \in Person /\ q.to \in SUBSET Person
        /\ accepted \in [Person -> SUBSET recs] /\ epochs \in [Person -> Known]
        /\ adm \in [Person -> AdminList]
        /\ r.kind = "keys" => r.n \in 1..MaxEpoch
    BY <1>2, AllSealed DEF TypeInv, IInv, Records, Types
  <1>4. epochs' \in [Person -> Known] /\ adm' \in [Person -> AdminList]
    BY DEF TypeInv, IInv, Records, Types
  <1>5. /\ Outside(accepted[d], epochs[d], adm[d]) /\ AllMade(recs, epochs[d])
        /\ \A q \in accepted[d] : q \in recs
    BY <1>2, <1>3 DEF AllHeld
  <1>6. epochs[d][0] # Nobody
    BY <1>1, <1>3, <1>5 DEF Outside, Opens, Sealed
  <1>7. PICK W : W = {r}
    OBVIOUS
  <1>8. /\ recs' = recs \cup W /\ recs' = recs /\ accepted'[d] = accepted[d] \cup W
        /\ r \in accepted'[d]
    BY <1>1, <1>3, <1>7
  <1>9. \A e \in Person \ {d} : accepted'[e] = accepted[e] /\ epochs'[e] = epochs[e] /\ adm'[e] = adm[e]
    BY <1>1, <1>3
  <1>10. \A m \in 0..MaxEpoch :
           \/ epochs'[d][m] = epochs[d][m]
           \/ r.kind = "keys" /\ m = r.n /\ epochs[d][m] = Nobody /\ epochs'[d][m] = r.by
    <2>1. epochs[d] \in [0..MaxEpoch -> Person \cup {Nobody}]
      BY <1>3 DEF Known
    <2>2. \/ epochs'[d] = epochs[d]
          \/ r.kind = "keys" /\ epochs[d][r.n] = Nobody /\ epochs'[d] = [epochs[d] EXCEPT ![r.n] = r.by]
      BY <1>1, <1>3
    <2>3. QED
      BY <2>1, <2>2
  <1>11. Extends(epochs[d], epochs'[d]) /\ epochs'[d][0] # Nobody /\ epochs'[d][0] = epochs[d][0]
    <2>1. 0 \in 0..MaxEpoch
      BY DEF Group
    <2>2. QED
      BY <1>6, <1>10, <2>1 DEF Extends
  <1>12. AllMade(recs', epochs'[d])
    <2>1. SUFFICES ASSUME NEW m \in 0..MaxEpoch, epochs'[d][m] # Nobody
                   PROVE  MadeBy(recs, m, epochs'[d][m])
      BY <1>1 DEF AllMade
    <2>2. CASE epochs'[d][m] = epochs[d][m]
      BY <1>5, <2>1, <2>2 DEF AllMade
    <2>3. CASE r.kind = "keys" /\ m = r.n /\ epochs'[d][m] = r.by
      BY <1>3, <2>3 DEF MadeBy
    <2>4. QED
      BY <1>10, <2>2, <2>3
  <1>13. \A q \in recs : Opens(epochs[d], q) => Opens(epochs'[d], q)
    BY <1>3, <1>11, OpenStays
  <1>14. \/ adm'[d] = adm[d] /\ (r.kind = "grants" => r.n <= adm[d].seq)
         \/ r.kind = "grants" /\ adm[d].seq < r.n /\ adm'[d] = [seq |-> r.n, list |-> r.to]
    <2>1. r.n \in Nat /\ adm[d].seq \in Nat
      BY <1>3 DEF Sealed, AdminList
    <2>2. CASE r.kind # "grants"
      BY <1>1, <2>2
    <2>3. CASE r.kind = "grants"
      <3>1. adm'[d] = Adopted(d, r)
        BY <1>1, <1>3, <2>3
      <3>2. QED
        BY <2>1, <2>3, <3>1 DEF Adopted
    <2>4. QED
      BY <2>2, <2>3
  <1>15. \A x : IsAdmin(d, x) <=> Admin(adm[d], x)
    BY DEF IsAdmin, Admin
  <1>16. ASSUME Calm(recs)
         PROVE  /\ Extends(epochs[d], epochs'[d]) /\ Succeeds(adm[d], adm'[d])
                /\ Backed(recs, adm'[d], epochs'[d]) /\ Vouched(epochs'[d], adm'[d])
                /\ Fits(recs, accepted'[d], epochs'[d], adm'[d], d, r)
    <2>1. /\ Backed(recs, adm[d], epochs[d]) /\ Vouched(epochs[d], adm[d])
          /\ \A q \in accepted[d] : Fits(recs, accepted[d], epochs[d], adm[d], d, q)
      BY <1>2, <1>16 DEF AllSound, Sound
    <2>2. Succeeds(adm[d], adm'[d])
      <3>1. r.n \in Nat /\ adm[d].seq \in Nat
        BY <1>3 DEF Sealed, AdminList
      <3>2. CASE adm'[d] = adm[d]
        BY <3>1, <3>2 DEF Succeeds
      <3>3. CASE r.kind = "grants" /\ adm[d].seq < r.n /\ adm'[d] = [seq |-> r.n, list |-> r.to]
        <4>1. /\ adm'[d].seq = r.n /\ adm'[d].list = r.to /\ adm[d].seq <= r.n
              /\ r \in Lists(recs') /\ recs \subseteq recs' /\ Calm(recs')
          BY <1>1, <1>16, <3>1, <3>3 DEF Lists
        <4>2. QED
          BY <1>4, <4>1, NextList
      <3>4. QED
        BY <1>14, <3>2, <3>3
    <2>3. Backed(recs, adm'[d], epochs'[d])
      <3>1. CASE adm'[d] = adm[d]
        BY <1>13, <2>1, <3>1 DEF Backed, Lists
      <3>2. CASE r.kind = "grants" /\ adm'[d] = [seq |-> r.n, list |-> r.to]
        <4>1. r \in Lists(recs) /\ r.n = adm'[d].seq /\ r.to = adm'[d].list /\ Opens(epochs'[d], r)
          BY <1>1, <1>13, <3>2 DEF Lists
        <4>2. QED
          BY <4>1 DEF Backed
      <3>3. QED
        BY <1>14, <3>1, <3>2
    <2>4. \A x : Admin(adm[d], x) => Admin(adm'[d], x)
      BY <2>2, RootStays
    <2>5. r.kind = "keys" \/ (r.kind = "entry" /\ r.who # r.by) => Admin(adm'[d], r.by)
      BY <1>1, <1>15, <2>4 DEF Judged, Admin
    <2>6. Vouched(epochs'[d], adm'[d])
      <3>1. SUFFICES ASSUME NEW m \in 0..MaxEpoch, epochs'[d][m] # Nobody PROVE Admin(adm'[d], epochs'[d][m])
        BY DEF Vouched
      <3>2. QED
        BY <1>10, <2>1, <2>4, <2>5, <3>1 DEF Vouched
    <2>7. r.kind = "grants" => r.n <= adm'[d].seq
      <3>1. r.n \in Nat
        BY <1>3 DEF Sealed
      <3>2. QED
        BY <1>14, <3>1
    <2>8. r.kind = "entry" =>
            \E f \in accepted'[d] : f.kind = "entry" /\ f.who = r.who /\ Root(adm'[d], f)
      <3>1. SUFFICES ASSUME r.kind = "entry"
                     PROVE  \E f \in accepted'[d] : f.kind = "entry" /\ f.who = r.who /\ Root(adm'[d], f)
        OBVIOUS
      <3>2. CASE Admin(adm[d], r.by)
        BY <1>8, <2>4, <3>1, <3>2 DEF Root
      <3>3. CASE ~Admin(adm[d], r.by)
        <4>1. r.who = r.by /\ SelfAllowed(d, r)
          BY <1>1, <1>15, <3>1, <3>3 DEF Judged, Admin
        <4>2. CASE Role(d, r.by) = "none"
          BY <1>8, <1>15, <2>4, <3>1, <4>1, <4>2 DEF SelfAllowed, Root
        <4>3. CASE Role(d, r.by) # "none"
          <5>1. PICK s \in accepted[d] : IsEntry(s) /\ s.who = r.who
            <6>1. EntriesOf(d, r.by) # {}
              BY <4>3 DEF Role
            <6>2. QED
              BY <1>2, <4>1, <6>1, RoleIs
          <5>2. PICK f \in accepted[d] : f.kind = "entry" /\ f.who = r.who /\ Root(adm[d], f)
            BY <2>1, <3>1, <5>1 DEF Fits, IsEntry
          <5>3. Root(adm'[d], f)
            BY <2>2, <5>2, RootStays
          <5>4. QED
            BY <1>8, <5>2, <5>3
        <4>4. QED
          BY <4>2, <4>3
      <3>4. QED
        BY <3>2, <3>3
    <2>9. r.kind = "entry" /\ r.role = "admin" =>
            Invited(recs, r.who) \/ \E g \in Lists(recs) : r.who \in g.to /\ Opens(epochs'[d], g)
      <3>1. SUFFICES ASSUME r.kind = "entry", r.role = "admin", ~ Invited(recs, r.who)
                     PROVE  \E g \in Lists(recs) : r.who \in g.to /\ Opens(epochs[d], g)
        BY <1>13 DEF Lists
      <3>2. EntryShaped(recs, r)
        BY <1>2, <3>1 DEF AllShaped, Shaped
      <3>3. CASE r.by # r.who
        BY <1>1, <3>1, <3>2, <3>3 DEF EntryShaped, Opens
      <3>4. CASE r.by = r.who
        <4>1. r.by # Owner
          BY <3>1, <3>2, <3>4 DEF EntryShaped
        <4>2. CASE r.by \in adm[d].list
          <5>1. adm[d] # NoList
            BY <4>2 DEF NoList
          <5>2. QED
            BY <2>1, <3>4, <4>2, <5>1 DEF Backed
        <4>3. CASE r.by \notin adm[d].list
          <5>1. SelfAllowed(d, r) /\ r.token.role # "admin"
            BY <1>1, <3>1, <3>4, <4>1, <4>3 DEF Judged, IsAdmin, Invited
          <5>2. Role(d, r.by) = "admin" /\ EntriesOf(d, r.by) # {}
            BY <3>1, <5>1 DEF SelfAllowed, Role
          <5>3. PICK s \in accepted[d] : IsEntry(s) /\ s.who = r.by /\ s.role = "admin"
            BY <1>2, <5>2, RoleIs
          <5>4. QED
            BY <2>1, <3>1, <3>4, <5>3 DEF Fits, IsEntry
        <4>4. QED
          BY <4>2, <4>3
      <3>5. QED
        BY <3>3, <3>4
    <2>10. r.kind = "post" /\ r.by # Owner => \E f \in accepted'[d] : f.kind = "entry" /\ f.who = r.by
      <3>1. SUFFICES ASSUME r.kind = "post", r.by # Owner
                     PROVE  \E f \in accepted'[d] : f.kind = "entry" /\ f.who = r.by
        OBVIOUS
      <3>2. EntriesOf(d, r.by) # {}
        BY <1>1, <3>1 DEF Judged, PostAllowed, Role
      <3>3. PICK s \in accepted[d] : IsEntry(s) /\ s.who = r.by
        BY <1>2, <3>2, RoleIs
      <3>4. QED
        BY <1>8, <3>3 DEF IsEntry
    <2>11. r.kind = "keys" /\ d \in r.to => epochs'[d][r.n] # Nobody
      <3>1. SUFFICES ASSUME r.kind = "keys", d \in r.to PROVE epochs'[d][r.n] # Nobody
        OBVIOUS
      <3>2. Current(r, accepted[d])
        <4>1. \A s \in accepted[d] : SameKey(r, s) => s = r
          BY <1>5, <1>16, <3>1 DEF SameKey, Calm, Rival
        <4>2. QED
          BY <1>1, <4>1 DEF Current
      <3>3. r.n \in 0..MaxEpoch /\ r.by # Nobody
        BY <1>3, <3>1 DEF Sealed, Group
      <3>4. CASE epochs[d][r.n] # Nobody
        BY <1>11, <3>3, <3>4 DEF Extends
      <3>5. CASE epochs[d][r.n] = Nobody
        <4>1. epochs' = [epochs EXCEPT ![d][r.n] = r.by] /\ epochs[d] \in [0..MaxEpoch -> Person \cup {Nobody}]
          BY <1>1, <1>3, <3>1, <3>2, <3>5 DEF Known
        <4>2. epochs'[d] = [epochs[d] EXCEPT ![r.n] = r.by]
          BY <1>3, <4>1
        <4>3. QED
          BY <3>3, <4>1, <4>2
      <3>6. QED
        BY <3>4, <3>5
    <2>12. Opens(epochs'[d], r)
      BY <1>1, <1>13
    <2>13. Fits(recs, accepted'[d], epochs'[d], adm'[d], d, r)
      BY <2>5, <2>7, <2>8, <2>9, <2>10, <2>11, <2>12 DEF Fits
    <2>14. QED
      BY <1>11, <2>2, <2>3, <2>6, <2>13
  <1>17. AllShaped' /\ AllHeld' /\ AllSound'
    <2>1. \A q \in W : Shaped(recs', q)
      BY <1>2, <1>7, <1>8 DEF AllShaped
    <2>2. /\ recs' = recs \cup W /\ accepted'[d] = accepted[d] \cup W
          /\ epochs'[d] \in Known /\ adm'[d] \in AdminList
      BY <1>4, <1>8
    <2>3. Calm(recs') => /\ Extends(epochs[d], epochs'[d]) /\ Succeeds(adm[d], adm'[d])
                         /\ Backed(recs', adm'[d], epochs'[d]) /\ Vouched(epochs'[d], adm'[d])
                         /\ \A q \in W : Fits(recs', accepted'[d], epochs'[d], adm'[d], d, q)
      BY <1>7, <1>8, <1>16
    <2>4. QED
      BY <1>2, <1>9, <1>11, <1>12, <2>1, <2>2, <2>3, SoundStays
  <1>18. Handouts' /\ InvitedAlike' /\ Entered'
    <2>1. \A x \in Person : epochs'[x][0] = epochs[x][0] /\ accepted[x] \subseteq accepted'[x]
      BY <1>1, <1>3, <1>9, <1>11
    <2>2. QED
      BY <1>1, <1>2, <2>1, EnteredStays DEF Handouts, InvitedAlike
  <1>19. Reached'
    <2>1. SUFFICES ASSUME ~overtaken', NEW k \in recs', k.kind = "keys", NEW x \in Person,
                          epochs'[x][0] # Nobody, x \notin EverRemoved'
                   PROVE  x \in k.to \/ epochs'[x][k.n] # Nobody
      BY DEF Reached, IsKey, In
    <2>2. IsKey(k) /\ In(x) /\ x \notin EverRemoved /\ ~overtaken /\ k.n \in 0..MaxEpoch
      BY <1>1, <1>3, <1>9, <1>11, <2>1 DEF IsKey, In, EverRemoved, Sealed
    <2>3. x \in k.to \/ epochs[x][k.n] # Nobody
      BY <1>2, <2>2 DEF Reached, IsKey
    <2>4. CASE x = d
      BY <1>11, <2>2, <2>3, <2>4 DEF Extends
    <2>5. CASE x # d
      BY <1>9, <2>3, <2>5
    <2>6. QED
      BY <2>4, <2>5
  <1>20. QED
    BY <1>17, <1>18, <1>19 DEF Agree

LEMMA IdleAgrees ==
  ASSUME AgreeInv, UNCHANGED <<recs, accepted, epochs, adm, tokens, overtaken>>
  PROVE  Agree'
  <1>1. Agree
    BY DEF AgreeInv
  <1>2. AllShaped' /\ AllHeld' /\ AllSound' /\ Handouts' /\ InvitedAlike'
    BY <1>1 DEF Agree, AllShaped, AllHeld, AllSound, Handouts, InvitedAlike
  <1>3. Entered' /\ Reached'
    BY <1>1 DEF Agree, Entered, Reached, EntriesOf, IsKey, In, EverRemoved
  <1>4. QED
    BY <1>2, <1>3 DEF Agree

LEMMA AgreeInit == ASSUME Group PROVE Init => AgreeInv
  <1>1. SUFFICES ASSUME Init PROVE AgreeInv
    OBVIOUS
  <1>2. TypeInv
    BY <1>1, TypeInit
  <1>3. /\ recs = {Founded(x) : x \in Person \ Newcomer} /\ tokens = {}
        /\ accepted = [d \in Person |-> IF d \in Newcomer THEN {} ELSE recs]
        /\ epochs = [d \in Person |-> [n \in 0..MaxEpoch |->
                       IF n = 0 /\ d \notin Newcomer THEN Owner ELSE Nobody]]
        /\ adm = [d \in Person |-> NoList]
    BY <1>1 DEF Init, NoList
  <1>4. \A r \in recs :
          /\ r.kind = "entry" /\ r.by = Owner /\ r.ep.n = 0 /\ r.ep.maker = Owner /\ r.token = NoToken
          /\ r.role = IF r.who = Owner THEN "owner" ELSE "member"
    BY <1>3 DEF Founded, Founding
  <1>5. AllShaped
    <2>1. SUFFICES ASSUME NEW r \in recs PROVE Shaped(recs, r)
      BY DEF AllShaped
    <2>2. r.token.role = "none"
      BY <1>4 DEF NoToken
    <2>3. EntryShaped(recs, r)
      BY <1>4, <2>2 DEF EntryShaped
    <2>4. QED
      BY <1>4, <2>3 DEF Shaped, MadeBy
  <1>6. /\ \A d \in Person : adm[d] = NoList /\ accepted[d] = IF d \in Newcomer THEN {} ELSE recs
        /\ \A d \in Person : \A n \in 0..MaxEpoch :
             epochs[d][n] = IF n = 0 /\ d \notin Newcomer THEN Owner ELSE Nobody
        /\ 0 \in 0..MaxEpoch /\ Owner # Nobody
    BY <1>3 DEF Group
  <1>7. AllHeld
    <2>1. SUFFICES ASSUME NEW d \in Person
                   PROVE  Outside(accepted[d], epochs[d], adm[d]) /\ AllMade(recs, epochs[d])
      BY DEF AllHeld
    <2>2. Outside(accepted[d], epochs[d], adm[d])
      BY <1>6 DEF Outside
    <2>3. AllMade(recs, epochs[d])
      BY <1>6 DEF AllMade, MadeBy
    <2>4. QED
      BY <2>2, <2>3
  <1>8. AllSound
    <2>1. SUFFICES ASSUME NEW d \in Person PROVE Sound(recs, accepted[d], epochs[d], adm[d], d)
      BY DEF AllSound
    <2>2. Vouched(epochs[d], adm[d])
      BY <1>6 DEF Vouched, Admin
    <2>3. \A r \in accepted[d] : Fits(recs, accepted[d], epochs[d], adm[d], d, r)
      <3>1. TAKE r \in accepted[d]
      <3>2. r \in recs /\ d \notin Newcomer
        BY <1>6
      <3>3. Opens(epochs[d], r)
        BY <1>4, <1>6, <3>2 DEF Opens
      <3>4. Admin(adm[d], r.by)
        BY <1>4, <3>2 DEF Admin
      <3>5. r.kind = "entry" /\ r.role # "admin"
        BY <1>4, <3>2
      <3>6. QED
        BY <3>3, <3>4, <3>5 DEF Fits, Root
    <2>4. QED
      BY <1>6, <2>2, <2>3 DEF Sound, Backed
  <1>11. InvitedAlike
    BY <1>4 DEF InvitedAlike, Invited, NoToken
  <1>12. Entered
    <2>1. SUFFICES ASSUME NEW x \in Person, epochs[x][0] # Nobody PROVE EntriesOf(x, x) # {}
      BY DEF Entered, In
    <2>2. x \in Person \ Newcomer
      BY <1>6, <2>1
    <2>3. Founded(x) \in recs /\ Founded(x).kind = "entry" /\ Founded(x).who = x
      BY <1>3, <2>2 DEF Founded
    <2>4. Founded(x) \in EntriesOf(x, x)
      BY <1>6, <2>2, <2>3 DEF EntriesOf
    <2>5. QED
      BY <2>4
  <1>9. Handouts /\ Reached
    BY <1>3, <1>4 DEF Handouts, Reached, IsKey
  <1>10. QED
    BY <1>2, <1>5, <1>7, <1>8, <1>9, <1>11, <1>12 DEF AgreeInv, Agree

LEMMA AgreeStep == ASSUME Group PROVE AgreeInv /\ [Next]_vars => AgreeInv'
  <1>1. SUFFICES ASSUME AgreeInv, [Next]_vars PROVE AgreeInv'
    OBVIOUS
  <1>2. TypeInv'
    BY <1>1, TypeStep DEF AgreeInv
  <1>3. SUFFICES Agree'
    BY <1>2 DEF AgreeInv
  <1>4. CASE \E d \in Person : AcceptInvite(d) \/ Reveal(d) \/ Promote(d) \/ Rotate(d) \/ Post(d)
    BY <1>1, <1>2, <1>4, AcceptInviteAgrees, RevealAgrees, PromoteAgrees, RotateAgrees, PostAgrees
  <1>10. CASE \E d \in Person, role \in {"member", "admin"} : Invite(d, role)
    BY <1>1, <1>2, <1>10, InviteAgrees
  <1>5. CASE \E d, x \in Person : Remove(d, x)
    BY <1>1, <1>2, <1>5, RemoveAgrees
  <1>6. CASE \E d \in Person, r \in recs : Deliver(d, r)
    BY <1>1, <1>2, <1>6, DeliverAgrees
  <1>7. CASE \E d \in Person : Crash(d)
    BY <1>1, <1>7, IdleAgrees DEF Crash
  <1>8. CASE UNCHANGED vars
    BY <1>1, <1>8, IdleAgrees DEF vars
  <1>9. QED
    BY <1>1, <1>4, <1>5, <1>6, <1>7, <1>8, <1>10 DEF Next

LEMMA Agreement == ASSUME Group PROVE Spec => []AgreeInv
  <1>1. Init => AgreeInv
    BY AgreeInit
  <1>2. AgreeInv /\ [Next]_vars => AgreeInv'
    BY AgreeStep
  <1>3. QED
    BY <1>1, <1>2, PTL DEF Spec

-----------------------------------------------------------------------------
(* What a stable device has accepted. *)

LEMMA NoneDemotedIs == NoneDemoted /\ ~Rivals => Calm(recs)
BY DEF NoneDemoted, Grow, Lists, Rivals, Rival, Calm

(* Whoever can open a list goes by its administrators. *)
LEMMA ListCounts ==
  ASSUME Group, AgreeInv, Stable, Calm(recs), NEW e \in Person, NEW g \in Lists(recs), Opens(epochs[e], g)
  PROVE  \A x \in g.to : IsAdmin(e, x)
  <1>1. g \in recs /\ g.kind = "grants" /\ g.by = Owner /\ g.n >= 1 /\ g.n \in Nat
    BY AllSealed DEF AgreeInv, Agree, AllShaped, Shaped, Lists, Sealed
  <1>2. g \in accepted[e]
    BY <1>1 DEF Stable, Admissible, Judged, Opens
  <1>3. g.n <= adm[e].seq /\ Backed(recs, adm[e], epochs[e])
    BY <1>1, <1>2 DEF AgreeInv, Agree, AllSound, Sound, Fits
  <1>4. adm[e] # NoList
    BY <1>1, <1>3 DEF NoList
  <1>5. PICK h \in Lists(recs) : h.n = adm[e].seq /\ h.to = adm[e].list
    BY <1>3, <1>4 DEF Backed
  <1>6. g.to \subseteq h.to
    BY <1>3, <1>5 DEF Calm, Grow
  <1>7. QED
    BY <1>5, <1>6 DEF IsAdmin

LEMMA AdminsAgree ==
  ASSUME Group, AgreeInv, Stable, Calm(recs), NEW d \in Person, NEW e \in Person, epochs[d] = epochs[e],
         NEW x, Admin(adm[d], x)
  PROVE  IsAdmin(e, x)
  <1>1. CASE x = Owner
    BY <1>1 DEF IsAdmin
  <1>2. CASE x \in adm[d].list
    <2>1. adm[d] # NoList /\ Backed(recs, adm[d], epochs[d])
      BY <1>2 DEF NoList, AgreeInv, Agree, AllSound, Sound
    <2>2. PICK g \in Lists(recs) : g.to = adm[d].list /\ Opens(epochs[d], g)
      BY <2>1 DEF Backed
    <2>3. Opens(epochs[e], g)
      BY <2>2
    <2>4. QED
      BY <1>2, <2>2, <2>3, ListCounts
  <1>3. QED
    BY <1>1, <1>2 DEF Admin

(* Of whom one has an entry the other has one. *)
LEMMA EntriesAgree ==
  ASSUME Group, AgreeInv, Stable, Calm(recs), OpenedOnce, NEW d \in Person, NEW e \in Person, epochs[d] = epochs[e],
         NEW r \in accepted[d], r.kind = "entry"
  PROVE  EntriesOf(e, r.who) # {}
  <1>1. TypeInv /\ accepted[d] \subseteq recs /\ accepted[e] \subseteq recs
    BY DEF AgreeInv, Agree, TypeInv, TypeOK
  <1>2. \A q \in accepted[d] : Fits(recs, accepted[d], epochs[d], adm[d], d, q)
    BY DEF AgreeInv, Agree, AllSound, Sound
  <1>3. PICK f \in accepted[d] : f.kind = "entry" /\ f.who = r.who /\ Root(adm[d], f)
    BY <1>2 DEF Fits
  <1>4. f \in recs /\ Opens(epochs[e], f)
    BY <1>1, <1>2, <1>3 DEF Fits, Opens
  <1>5. SUFFICES ASSUME EntriesOf(e, r.who) = {} PROVE f \in accepted[e]
    BY <1>3 DEF EntriesOf
  <1>6. CASE Admin(adm[d], f.by)
    <2>1. IsAdmin(e, f.by)
      BY <1>6, AdminsAgree
    <2>2. QED
      BY <1>3, <1>4, <2>1 DEF Stable, Admissible, Judged, Opens
  <1>7. CASE f.who = f.by /\ f.token.by # Nobody /\ f.token.role = f.role /\ Admin(adm[d], f.token.by)
    <2>1. IsAdmin(e, f.token.by)
      BY <1>7, AdminsAgree
    <2>2. Role(e, f.by) = "none"
      BY <1>3, <1>5, <1>7 DEF Role
    <2>3. \A x \in Listed(e) \ {f.by} : Best(EntriesOf(e, x)).token # f.token
      <3>1. SUFFICES ASSUME NEW x \in Listed(e), x # f.by, Best(EntriesOf(e, x)).token = f.token PROVE FALSE
        OBVIOUS
      <3>2. PICK s \in accepted[e] : IsEntry(s) /\ s.who = x /\ s = Best(EntriesOf(e, x))
        <4>1. EntriesOf(e, x) # {}
          BY <3>1 DEF Listed
        <4>2. QED
          BY <1>1, <4>1, RoleIs
      <3>3. s.token = f.token /\ f.token # NoToken
        BY <1>7, <3>1, <3>2 DEF NoToken
      <3>4. s.who = f.who
        BY <1>1, <1>3, <1>4, <3>2, <3>3 DEF OpenedOnce, IsEntry
      <3>5. QED
        BY <1>7, <3>1, <3>2, <3>4
    <2>4. SelfAllowed(e, f)
      BY <1>7, <2>1, <2>2, <2>3 DEF SelfAllowed
    <2>5. QED
      BY <1>3, <1>4, <1>7, <2>4 DEF Stable, Admissible, Judged, Opens
  <1>8. QED
    BY <1>3, <1>6, <1>7 DEF Root

LEMMA AcceptedByBoth ==
  ASSUME Group, AgreeInv, Stable, Calm(recs), OpenedOnce, NEW d \in Person, NEW e \in Person, epochs[d] = epochs[e],
         NEW r \in accepted[d], r.by \notin EverRemoved
  PROVE  r \in accepted[e]
  <1>1. TypeInv /\ accepted[d] \subseteq recs /\ accepted[e] \subseteq recs
    BY DEF AgreeInv, TypeInv, TypeOK
  <1>2. /\ Fits(recs, accepted[d], epochs[d], adm[d], d, r)
        /\ \A q \in accepted[e] : Fits(recs, accepted[e], epochs[e], adm[e], e, q)
    BY DEF AgreeInv, Agree, AllSound, Sound
  <1>3. r \in recs /\ Opens(epochs[e], r) /\ Shaped(recs, r)
    BY <1>1, <1>2 DEF Fits, Opens, AgreeInv, Agree, AllShaped
  <1>4. SUFFICES Judged(e, r)
    BY <1>3 DEF Stable, Admissible, Opens
  <1>5. SUFFICES ASSUME r.by # Owner PROVE Judged(e, r)
    BY DEF Judged
  <1>6. r.kind \in {"entry", "grants", "keys", "post"}
    BY <1>1, <1>3 DEF TypeInv, TypeOK, Record
  <1>7. CASE r.kind = "grants"
    BY <1>3, <1>5, <1>7 DEF Shaped
  <1>8. CASE r.kind = "keys" \/ (r.kind = "entry" /\ r.who # r.by)
    <2>1. IsAdmin(e, r.by)
      BY <1>2, <1>8, AdminsAgree DEF Fits
    <2>2. QED
      BY <1>8, <2>1 DEF Judged
  <1>9. \A q \in accepted[e] : IsEntry(q) /\ q.who = r.by => q.role # "removed"
    BY DEF EverRemoved, IsEntry
  <1>10. CASE r.kind = "post"
    <2>1. PICK f \in accepted[d] : f.kind = "entry" /\ f.who = r.by
      BY <1>2, <1>5, <1>10 DEF Fits
    <2>2. EntriesOf(e, r.by) # {}
      BY <2>1, EntriesAgree
    <2>3. PICK s \in accepted[e] : IsEntry(s) /\ s.who = r.by /\ s.role = Role(e, r.by)
      BY <1>1, <2>2, RoleIs
    <2>4. s.role \in {"owner", "admin", "member", "removed"}
      BY <2>3 DEF AgreeInv, Agree, AllShaped, Shaped, EntryShaped, IsEntry
    <2>5. Role(e, r.by) # "none" /\ Role(e, r.by) # "removed"
      BY <1>9, <2>3, <2>4
    <2>6. QED
      BY <1>10, <2>5 DEF Judged, PostAllowed
  <1>11. CASE r.kind = "entry" /\ r.who = r.by
    <2>1. SUFFICES ASSUME ~IsAdmin(e, r.by) PROVE SelfAllowed(e, r)
      BY <1>11 DEF Judged
    <2>2. EntriesOf(e, r.by) # {}
      BY <1>11, EntriesAgree
    <2>3. PICK s \in accepted[e] : IsEntry(s) /\ s.who = r.by /\ s.role = Role(e, r.by)
      BY <1>1, <2>2, RoleIs
    <2>4. s.role \in {"admin", "member"} /\ s \in recs
      BY <1>5, <1>9, <2>3 DEF AgreeInv, Agree, AllShaped, Shaped, EntryShaped, IsEntry
    <2>5. r.role \in {"admin", "member"}
      <3>1. r.role # "removed"
        BY <1>3, <1>11 DEF EverRemoved
      <3>2. QED
        BY <1>3, <1>5, <1>11, <3>1 DEF Shaped, EntryShaped
    <2>6. \A g \in Lists(recs) : Opens(epochs[e], g) => r.by \notin g.to
      BY <2>1, ListCounts
    <2>7. s.role = "admin" => Invited(recs, r.by)
      BY <1>2, <2>3, <2>6 DEF Fits, IsEntry
    <2>8. r.role = "admin" => Invited(recs, r.by)
      BY <1>2, <1>11, <2>6 DEF Fits, Opens
    <2>9. Invited(recs, r.by) => s.role # "member" /\ r.role # "member"
      BY <1>3, <1>11, <2>3, <2>4 DEF AgreeInv, Agree, InvitedAlike, IsEntry
    <2>10. Role(e, r.by) = r.role /\ Role(e, r.by) \notin {"none", "removed"}
      BY <2>3, <2>4, <2>5, <2>7, <2>8, <2>9
    <2>11. QED
      BY <2>10 DEF SelfAllowed
  <1>12. QED
    BY <1>6, <1>7, <1>8, <1>10, <1>11

(***************************************************************************)
(* Whatever the order of arrival: once nothing more can be indexed, what   *)
(* two devices with the same epochs have indexed differs at most in what   *)
(* removed members wrote (judge() and reindex(), members.js), for any      *)
(* number of persons, records, invites, epochs and crashes; unless a list  *)
(* leaves somebody out, two open one link or two epochs have one number.   *)
(***************************************************************************)
THEOREM OrderOfArrivalHeals ==
  ASSUME Group
  PROVE  Spec => []AcceptedAlike
  <1>1. AgreeInv => AcceptedAlike
    <2>1. SUFFICES ASSUME AgreeInv, Stable, NoneDemoted, OpenedOnce, ~Rivals, NEW d \in Person, NEW e \in Person,
                          epochs[d] = epochs[e]
                   PROVE  {r \in accepted[d] : r.by \notin EverRemoved}
                            = {r \in accepted[e] : r.by \notin EverRemoved}
      BY DEF AcceptedAlike
    <2>2. Calm(recs)
      BY <2>1, NoneDemotedIs
    <2>3. \A r \in accepted[d] : r.by \notin EverRemoved => r \in accepted[e]
      BY <2>1, <2>2, AcceptedByBoth
    <2>4. \A r \in accepted[e] : r.by \notin EverRemoved => r \in accepted[d]
      BY <2>1, <2>2, AcceptedByBoth
    <2>5. QED
      BY <2>3, <2>4
  <1>2. QED
    BY Agreement, <1>1, PTL

LEMMA HasMin == ASSUME NEW S, S \subseteq Nat, S # {} PROVE \E m \in S : \A x \in S : m <= x
  <1> DEFINE Lt == OpToRel(<, Nat)
  <1>1. IsWellFoundedOn(Lt, Nat)
    BY NatLessThanWellFounded
  <1>2. \A x, y \in Nat : y < x => <<y, x>> \in Lt
    BY DEF OpToRel
  <1> HIDE DEF Lt
  <1>3. PICK m \in S : \A y \in S : ~ (<<y, m>> \in Lt)
    BY <1>1, WFMin
  <1>4. m \in Nat /\ \A y \in S : y \in Nat /\ ~ (y < m)
    BY <1>2, <1>3
  <1>5. \A y \in S : m <= y
    BY <1>4
  <1>6. QED
    BY <1>3, <1>5

(* A package for an epoch whose predecessors it holds is indexed. *)
LEMMA KeyArrives ==
  ASSUME Group, AgreeInv, Stable, Calm(recs), NEW d \in Person, In(d),
         NEW r \in recs, r.kind = "keys", d \in r.to,
         \A k \in recs : k.kind = "keys" /\ k.n < r.n => epochs[d][k.n] = k.by
  PROVE  epochs[d][r.n] # Nobody
  <1>1. /\ \A q \in recs : Sealed(q) /\ Shaped(recs, q)
        /\ Sound(recs, accepted[d], epochs[d], adm[d], d) /\ AllMade(recs, epochs[d])
    BY AllSealed DEF AgreeInv, Agree, AllShaped, AllSound, AllHeld
  <1>2. KeyShaped(recs, r) /\ r.n = r.ep.n + 1
    BY <1>1 DEF Shaped, KeyShaped
  <1>3. epochs[d][0] = Owner
    <2>1. epochs[d][0] # Nobody /\ 0 \in 0..MaxEpoch
      BY DEF In, Group
    <2>2. QED
      BY <1>1, <2>1 DEF AllMade, MadeBy
  <1>4. \A q \in recs : q.ep.n <= r.ep.n => Opens(epochs[d], q)
    <2>1. SUFFICES ASSUME NEW q \in recs, q.ep.n <= r.ep.n PROVE epochs[d][q.ep.n] = q.ep.maker
      BY DEF Opens
    <2>2. MadeBy(recs, q.ep.n, q.ep.maker) /\ q.ep.n \in Nat /\ r.ep.n \in Nat
      BY <1>1 DEF Shaped, Sealed, Group
    <2>3. CASE q.ep.n = 0
      BY <1>3, <2>2, <2>3 DEF MadeBy
    <2>4. CASE q.ep.n # 0
      <3>1. PICK k \in recs : k.kind = "keys" /\ k.n = q.ep.n /\ k.by = q.ep.maker
        BY <2>2, <2>4 DEF MadeBy
      <3>2. k.n < r.n
        BY <1>2, <2>1, <2>2, <3>1
      <3>3. QED
        BY <3>1, <3>2
    <2>5. QED
      BY <2>3, <2>4
  <1>5. Opens(epochs[d], r)
    <2>1. r.ep.n <= r.ep.n
      BY <1>1 DEF Sealed, Group
    <2>2. QED
      BY <1>4, <2>1
  <1>6. IsAdmin(d, r.by)
    <2>1. CASE r.by = Owner
      BY <2>1 DEF IsAdmin
    <2>2. CASE \E g \in Lists(recs) : r.by \in g.to /\ g.ep.n <= r.ep.n
      <3>1. PICK g \in Lists(recs) : r.by \in g.to /\ g.ep.n <= r.ep.n
        BY <2>2
      <3>2. Opens(epochs[d], g)
        BY <1>4, <3>1 DEF Lists
      <3>3. QED
        BY <3>1, <3>2, ListCounts
    <2>3. QED
      BY <1>2, <2>1, <2>2 DEF KeyShaped
  <1>7. r \in accepted[d]
    BY <1>5, <1>6 DEF Stable, Admissible, Judged, Opens
  <1>8. QED
    BY <1>1, <1>7 DEF Sound, Fits

(***************************************************************************)
(* A new epoch reaches "exactly the remaining members" (members.js:3):     *)
(* with RemovedStaysOut, all others who are in hold its key once nothing   *)
(* more can be indexed, for any number of persons, epochs and crashes.     *)
(***************************************************************************)
THEOREM KeysReachTheRemaining ==
  ASSUME Group
  PROVE  Spec => []RemainingFollow
  <1>1. AgreeInv => RemainingFollow
    <2>1. SUFFICES ASSUME AgreeInv, Stable, Calm(recs), ~overtaken,
                          NEW d \in Person, In(d), d \notin EverRemoved
                   PROVE  \A r \in recs : r.kind = "keys" => epochs[d][r.n] = r.by
      BY NoneDemotedIs DEF RemainingFollow, Member, In
    <2> DEFINE Missing(r) == r.kind = "keys" /\ epochs[d][r.n] # r.by
               S == {r.n : r \in {q \in recs : Missing(q)}}
    <2>2. SUFFICES ASSUME S # {} PROVE FALSE
      OBVIOUS
    <2>3. \A r \in recs : Sealed(r)
      BY <2>1, AllSealed DEF AgreeInv
    <2>4. S \subseteq Nat
      BY <2>3 DEF Sealed
    <2>5. PICK r \in recs : Missing(r) /\ \A x \in S : r.n <= x
      BY <2>2, <2>4, HasMin
    <2>6. \A k \in recs : k.kind = "keys" /\ k.n < r.n => epochs[d][k.n] = k.by
      <3>1. SUFFICES ASSUME NEW k \in recs, k.kind = "keys", k.n < r.n, epochs[d][k.n] # k.by PROVE FALSE
        OBVIOUS
      <3>2. r.n <= k.n /\ r.n \in Nat /\ k.n \in Nat
        BY <2>3, <2>5, <3>1 DEF Sealed
      <3>3. QED
        BY <3>1, <3>2
    <2>7. r.kind = "keys" /\ epochs[d][r.n] # r.by
      BY <2>5
    <2>8. epochs[d][r.n] = Nobody
      <3>1. SUFFICES ASSUME epochs[d][r.n] # Nobody PROVE FALSE
        OBVIOUS
      <3>2. r.n \in 1..MaxEpoch
        BY <2>1, <2>7 DEF AgreeInv, TypeInv, IInv, Records, Types
      <3>3. MadeBy(recs, r.n, epochs[d][r.n])
        BY <2>1, <3>1, <3>2 DEF AgreeInv, Agree, AllHeld, AllMade
      <3>4. PICK k \in recs : k.kind = "keys" /\ k.n = r.n /\ k.by = epochs[d][r.n]
        BY <3>2, <3>3 DEF MadeBy
      <3>5. QED
        BY <2>1, <2>7, <3>4 DEF Calm, Rival
    <2>9. d \in r.to
      BY <2>1, <2>7, <2>8 DEF AgreeInv, Agree, Reached, IsKey
    <2>10. QED
      BY <2>1, <2>6, <2>7, <2>8, <2>9, KeyArrives
  <1>2. QED
    BY Agreement, <1>1, PTL

-----------------------------------------------------------------------------
(***************************************************************************)
(* The clocks themselves: Now(d) above stands for tick() of hlc.js, which  *)
(* is past whatever the device has accepted.                               *)
(***************************************************************************)
CONSTANTS Device, MaxCounter, MaxDriftMs, MaxMs, MaxTicks, MaxReceipts
VARIABLES wall, clock, top, carries, seen, issued, receipts

Clock == INSTANCE Hlc

(* What the constants are: natural numbers, as their types in hlc.js. *)
NaturalBounds ==
  MaxCounter \in Nat /\ MaxDriftMs \in Nat /\ MaxMs \in Nat /\ MaxReceipts \in Nat

-----------------------------------------------------------------------------
(* The inductive invariant of the clocks. *)

(* A clock is not below anything it has issued or accepted. *)
ClockAbove == \A d \in Device : \A g \in seen[d] : ~ Clock!Less(clock[d], g)

ClockInv == Clock!TypeOK /\ ClockAbove /\ Clock!IssuedGrow /\ Clock!DriftBounded

-----------------------------------------------------------------------------
(* HLCs and the operators on them. *)

(* What is not above c is below whatever c is below. *)
LEMMA BelowLess ==
  ASSUME NaturalBounds, NEW g \in Clock!HLC, NEW c \in Clock!HLC, NEW h \in Clock!HLC,
         ~ Clock!Less(c, g), Clock!Less(c, h)
  PROVE  Clock!Less(g, h)
BY DEF Clock!Less, Clock!HLC, NaturalBounds

(* advance() goes up, carry or not. *)
LEMMA AdvancedGrows ==
  ASSUME NaturalBounds, NEW c \in Clock!HLC, NEW now \in Nat
  PROVE  Clock!Advanced(c, now) \in Clock!HLC /\ Clock!Less(c, Clock!Advanced(c, now))
BY DEF Clock!Advanced, Clock!Counted, Clock!Less, Clock!HLC, NaturalBounds

(* advance() is ahead of the wall clock and of c by an overflow at most. *)
LEMMA AdvancedNear ==
  ASSUME NaturalBounds, NEW c \in Clock!HLC, NEW now \in Nat
  PROVE  /\ Clock!Carried(c, now) \in {0, 1}
         /\ \/ Clock!Advanced(c, now)[1] = now
            \/ Clock!Advanced(c, now)[1] = c[1] + Clock!Carried(c, now)
BY DEF Clock!Advanced, Clock!Counted, Clock!Carried, Clock!HLC, NaturalBounds

(* recv() starts from the later of the two, which neither is above. *)
LEMMA LaterOfTwo ==
  ASSUME NaturalBounds, NEW c \in Clock!HLC, NEW h \in Clock!HLC
  PROVE  /\ Clock!Later(c, h) \in {c, h}
         /\ ~ Clock!Less(Clock!Later(c, h), c) /\ ~ Clock!Less(Clock!Later(c, h), h)
BY DEF Clock!Later, Clock!Less, Clock!HLC, NaturalBounds

(* Whatever the clock was not below, it is above after it moved. *)
LEMMA MovesUp ==
  ASSUME NaturalBounds, NEW b \in Clock!HLC, NEW c \in Clock!HLC, NEW g \in Clock!HLC, NEW now \in Nat,
         ~ Clock!Less(c, b), ~ Clock!Less(b, g)
  PROVE  Clock!Less(g, Clock!Advanced(c, now))
  <1>1. Clock!Advanced(c, now) \in Clock!HLC /\ Clock!Less(c, Clock!Advanced(c, now))
    BY AdvancedGrows
  <1>2. ~ Clock!Less(c, g)
    BY DEF Clock!Less, Clock!HLC, NaturalBounds
  <1>3. QED
    BY <1>1, <1>2, BelowLess

-----------------------------------------------------------------------------
(* tick() and recv() share the move of the clock, from c. *)

LEMMA MoveStep ==
  ASSUME NaturalBounds, ClockInv, NEW d \in Device, NEW c \in Clock!HLC, Clock!Moved(d, c),
         ~ Clock!Less(c, clock[d]), c[1] <= clock[d][1] \/ c[1] <= wall[d] + MaxDriftMs
  PROVE  /\ clock' \in [Device -> Clock!HLC] /\ top' \in [Device -> 0..MaxMs]
         /\ carries' \in [Device -> Nat]
         /\ clock'[d] = Clock!Advanced(c, wall[d])
         /\ \A g \in seen[d] : Clock!Less(g, clock'[d])
         /\ \A e \in Device \ {d} : clock'[e] = clock[e]
         /\ Clock!DriftBounded'
  <1>1. /\ wall[d] \in Nat /\ wall[d] <= MaxMs
        /\ clock[d] \in Clock!HLC /\ top[d] \in Nat /\ carries[d] \in Nat
    BY DEF ClockInv, Clock!TypeOK, NaturalBounds
  <1>2. Clock!Advanced(c, wall[d]) \in Clock!HLC
    BY <1>1, AdvancedGrows
  <1>3. /\ Clock!Carried(c, wall[d]) \in {0, 1}
        /\ \/ Clock!Advanced(c, wall[d])[1] = wall[d]
           \/ Clock!Advanced(c, wall[d])[1] = c[1] + Clock!Carried(c, wall[d])
    BY <1>1, AdvancedNear
  <1>4. /\ clock' \in [Device -> Clock!HLC]
        /\ clock'[d] = Clock!Advanced(c, wall[d])
        /\ \A e \in Device \ {d} : clock'[e] = clock[e]
    BY <1>2 DEF Clock!Moved, ClockInv, Clock!TypeOK
  <1>5. /\ top' \in [Device -> 0..MaxMs]
        /\ top'[d] >= wall[d] /\ top'[d] >= top[d]
        /\ \A e \in Device \ {d} : top'[e] = top[e]
    BY <1>1 DEF Clock!Moved, ClockInv, Clock!TypeOK, NaturalBounds
  <1>6. /\ carries' \in [Device -> Nat]
        /\ carries'[d] = carries[d] + Clock!Carried(c, wall[d])
        /\ \A e \in Device \ {d} : carries'[e] = carries[e]
    BY <1>1, <1>3 DEF Clock!Moved, ClockInv, Clock!TypeOK
  <1>7. \A g \in seen[d] : Clock!Less(g, clock'[d])
    <2>1. TAKE g \in seen[d]
    <2>2. g \in Clock!HLC /\ ~ Clock!Less(clock[d], g)
      BY DEF ClockInv, Clock!TypeOK, ClockAbove
    <2>3. QED
      BY <1>1, <1>4, <2>2, MovesUp
  <1>8. Clock!DriftBounded'
    <2>1. SUFFICES ASSUME NEW e \in Device
                   PROVE  clock'[e][1] <= top'[e] + MaxDriftMs + carries'[e]
      BY DEF Clock!DriftBounded
    <2>2. CASE e # d
      BY <1>4, <1>5, <1>6, <2>2 DEF ClockInv, Clock!DriftBounded
    <2>3. CASE e = d
      <3>1. clock[d][1] <= top[d] + MaxDriftMs + carries[d]
        BY DEF ClockInv, Clock!DriftBounded
      <3>2. c[1] \in Nat /\ clock[d][1] \in Nat
        BY <1>1 DEF Clock!HLC
      <3>3. top'[d] \in Nat
        BY <1>5 DEF NaturalBounds
      <3>4. c[1] <= top'[d] + MaxDriftMs + carries[d]
        BY <1>1, <1>5, <3>1, <3>2, <3>3 DEF NaturalBounds
      <3>5. QED
        BY <1>1, <1>3, <1>4, <1>5, <1>6, <2>3, <3>2, <3>3, <3>4
           DEF NaturalBounds
    <2>4. QED
      BY <2>2, <2>3
  <1>9. QED
    BY <1>4, <1>5, <1>6, <1>7, <1>8

LEMMA TickStep ==
  ASSUME NaturalBounds, ClockInv, NEW d \in Device, Clock!Tick(d)
  PROVE  ClockInv'
  <1>1. clock[d] \in Clock!HLC
    BY DEF ClockInv, Clock!TypeOK
  <1>2. ~ Clock!Less(clock[d], clock[d])
    BY <1>1 DEF Clock!Less, Clock!HLC, NaturalBounds
  <1>3. Clock!Moved(d, clock[d])
    BY DEF Clock!Tick
  <1>4. /\ clock' \in [Device -> Clock!HLC] /\ top' \in [Device -> 0..MaxMs]
        /\ carries' \in [Device -> Nat]
        /\ \A g \in seen[d] : Clock!Less(g, clock'[d])
        /\ \A e \in Device \ {d} : clock'[e] = clock[e]
        /\ Clock!DriftBounded'
    BY <1>1, <1>2, <1>3, MoveStep DEF Clock!HLC
  <1>5. /\ issued' = issued \cup {[h |-> clock'[d], by |-> d, after |-> seen[d]]}
        /\ seen' = [seen EXCEPT ![d] = @ \cup {clock'[d]}]
        /\ wall' = wall /\ receipts' = receipts
    BY DEF Clock!Tick
  <1>6. clock'[d] \in Clock!HLC /\ seen[d] \subseteq Clock!HLC
    BY <1>4 DEF ClockInv, Clock!TypeOK
  <1>7. Clock!TypeOK'
    BY <1>4, <1>5, <1>6 DEF ClockInv, Clock!TypeOK
  <1>8. ClockAbove'
    <2>1. SUFFICES ASSUME NEW e \in Device, NEW g \in seen'[e]
                   PROVE  ~ Clock!Less(clock'[e], g)
      BY DEF ClockAbove
    <2>2. CASE e # d
      BY <1>4, <1>5, <2>2 DEF ClockInv, Clock!TypeOK, ClockAbove
    <2>3. CASE e = d
      <3>1. g \in seen[d] \/ g = clock'[d]
        BY <1>5, <2>3 DEF ClockInv, Clock!TypeOK
      <3>2. g \in Clock!HLC
        BY <1>6, <3>1
      <3>3. QED
        BY <1>4, <1>6, <2>3, <3>1, <3>2 DEF Clock!Less, Clock!HLC, NaturalBounds
    <2>4. QED
      BY <2>2, <2>3
  <1>9. Clock!IssuedGrow'
    BY <1>4, <1>5 DEF ClockInv, Clock!IssuedGrow
  <1>10. QED
    BY <1>4, <1>7, <1>8, <1>9 DEF ClockInv

LEMMA RecvStep ==
  ASSUME NaturalBounds, ClockInv, NEW d \in Device, NEW r \in issued, Clock!Recv(d, r.h)
  PROVE  ClockInv'
  <1>1. r.h \in Clock!HLC /\ clock[d] \in Clock!HLC
    BY DEF ClockInv, Clock!TypeOK
  <1>2. receipts' \in 0..MaxReceipts /\ wall' = wall /\ issued' = issued
    BY DEF Clock!Recv, ClockInv, Clock!TypeOK, NaturalBounds
  <1>3. CASE ~ Clock!Plausible(r.h, wall[d])
    <2>1. UNCHANGED <<clock, carries, top, seen>>
      BY <1>3 DEF Clock!Recv
    <2>2. QED
      BY <1>2, <2>1 DEF ClockInv, Clock!TypeOK, ClockAbove, Clock!IssuedGrow, Clock!DriftBounded
  <1>4. CASE Clock!Plausible(r.h, wall[d])
    <2> DEFINE c == Clock!Later(clock[d], r.h)
    <2>1. Clock!Moved(d, c) /\ seen' = [seen EXCEPT ![d] = @ \cup {r.h}]
      BY <1>4 DEF Clock!Recv
    <2>2. c \in {clock[d], r.h} /\ ~ Clock!Less(c, clock[d]) /\ ~ Clock!Less(c, r.h)
      BY <1>1, LaterOfTwo
    <2>3. c \in Clock!HLC
      BY <1>1, <2>2
    <2>4. c[1] <= clock[d][1] \/ c[1] <= wall[d] + MaxDriftMs
      BY <1>1, <1>4, <2>2 DEF Clock!Plausible, Clock!HLC
    <2> HIDE DEF c
    <2>5. /\ clock' \in [Device -> Clock!HLC] /\ top' \in [Device -> 0..MaxMs]
          /\ carries' \in [Device -> Nat]
          /\ clock'[d] = Clock!Advanced(c, wall[d])
          /\ \A g \in seen[d] : Clock!Less(g, clock'[d])
          /\ \A e \in Device \ {d} : clock'[e] = clock[e]
          /\ Clock!DriftBounded'
      BY <2>1, <2>2, <2>3, <2>4, MoveStep
    <2>6. Clock!TypeOK'
      BY <1>1, <1>2, <2>1, <2>5 DEF ClockInv, Clock!TypeOK
    <2>7. Clock!Less(r.h, clock'[d])
      <3>1. wall[d] \in Nat
        BY DEF ClockInv, Clock!TypeOK
      <3>2. ~ Clock!Less(c, c)
        BY <2>3 DEF Clock!Less, Clock!HLC
      <3>3. QED
        BY <1>1, <2>2, <2>3, <2>5, <3>1, <3>2, MovesUp
    <2>8. ClockAbove'
      <3>1. SUFFICES ASSUME NEW e \in Device, NEW g \in seen'[e]
                     PROVE  ~ Clock!Less(clock'[e], g)
        BY DEF ClockAbove
      <3>2. CASE e # d
        BY <2>1, <2>5, <3>2 DEF ClockInv, Clock!TypeOK, ClockAbove
      <3>3. CASE e = d
        <4>1. g \in seen[d] \/ g = r.h
          BY <2>1, <3>3 DEF ClockInv, Clock!TypeOK
        <4>2. g \in Clock!HLC /\ clock'[d] \in Clock!HLC
          BY <1>1, <2>5, <4>1 DEF ClockInv, Clock!TypeOK
        <4>3. Clock!Less(g, clock'[d])
          BY <2>5, <2>7, <4>1
        <4>4. QED
          BY <3>3, <4>2, <4>3 DEF Clock!Less, Clock!HLC
      <3>4. QED
        BY <3>2, <3>3
    <2>9. QED
      BY <1>2, <2>5, <2>6, <2>8 DEF ClockInv, Clock!IssuedGrow
  <1>5. QED
    BY <1>3, <1>4

-----------------------------------------------------------------------------
LEMMA ClockInvInit == NaturalBounds /\ Clock!Init => ClockInv
BY DEF NaturalBounds, Clock!Init, ClockInv, Clock!TypeOK, Clock!HLC, ClockAbove, Clock!IssuedGrow, Clock!DriftBounded

LEMMA ClockInvStep == NaturalBounds /\ ClockInv /\ [Clock!Next]_Clock!vars => ClockInv'
  <1>1. SUFFICES ASSUME NaturalBounds, ClockInv, [Clock!Next]_Clock!vars
                 PROVE  ClockInv'
    OBVIOUS
  <1>2. CASE \E d \in Device : Clock!Tick(d)
    BY <1>1, <1>2, TickStep
  <1>3. CASE \E d \in Device, r \in issued : r.by # d /\ Clock!Recv(d, r.h)
    BY <1>1, <1>3, RecvStep
  <1>4. CASE \E d \in Device, ms \in 0..MaxMs : Clock!SetWall(d, ms)
    BY <1>1, <1>4 DEF Clock!SetWall, ClockInv, Clock!TypeOK, ClockAbove, Clock!IssuedGrow, Clock!DriftBounded
  <1>5. CASE UNCHANGED Clock!vars
    BY <1>1, <1>5 DEF Clock!vars, ClockInv, Clock!TypeOK, ClockAbove, Clock!IssuedGrow, Clock!DriftBounded
  <1>6. QED
    BY <1>1, <1>2, <1>3, <1>4, <1>5 DEF Clock!Next

LEMMA ClockInvariance ==
  ASSUME NaturalBounds
  PROVE  Clock!Spec => []ClockInv
  <1>1. Clock!Init => ClockInv
    BY ClockInvInit
  <1>2. ClockInv /\ [Clock!Next]_Clock!vars => ClockInv'
    BY ClockInvStep
  <1>3. QED
    BY <1>1, <1>2, PTL DEF Clock!Spec

(***************************************************************************)
(* tick() is above all the clock has issued or accepted (hlc.js:48), for   *)
(* any width of the counter and however the wall clock is set.             *)
(***************************************************************************)
THEOREM ClocksGrow ==
  ASSUME NaturalBounds
  PROVE  Clock!Spec => []Clock!IssuedGrow
  <1>1. ClockInv => Clock!IssuedGrow
    BY DEF ClockInv
  <1>2. QED
    BY ClockInvariance, <1>1, PTL

(***************************************************************************)
(* recv() keeps a clock within the drift and its own overflows of what its *)
(* own wall clock has shown (hlc.js:31), whatever others pass on.          *)
(***************************************************************************)
THEOREM DriftStaysBounded ==
  ASSUME NaturalBounds
  PROVE  Clock!Spec => []Clock!DriftBounded
  <1>1. ClockInv => Clock!DriftBounded
    BY DEF ClockInv
  <1>2. QED
    BY ClockInvariance, <1>1, PTL
=============================================================================
