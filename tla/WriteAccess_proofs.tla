------------------------- MODULE WriteAccess_proofs -------------------------
(***************************************************************************)
(* Proofs about WriteAccess, for any peers, ACLs and bounds, and, in the   *)
(* second part, about RelayPresence, the relay's other service.            *)
(***************************************************************************)
EXTENDS WriteAccess, FiniteSetTheorems, SequenceTheorems, TLAPS

(* The identity a Node's id commits to is one of finitely many peers; its   *)
(* ACL is one of three.                                                     *)
Parties ==
  /\ Owner \in Peer /\ IsFiniteSet(Peer) /\ MaxWrites \in Nat
  /\ Modes \subseteq {"content", "named", "members"}

-----------------------------------------------------------------------------
(* The inductive invariant. *)

Types ==
  /\ mode \in Modes
  /\ granted \subseteq Peer /\ grantLog \subseteq Peer /\ members \subseteq Peer
  /\ log \subseteq Write /\ subs \subseteq Peer
  /\ known \in [Peer -> SUBSET Peer] /\ mates \in [Peer -> SUBSET Peer]
  /\ doc \in [Peer -> SUBSET Write] /\ disk \in [Peer -> SUBSET Write]
  /\ chain \in [Peer -> Seq(Msg)] /\ inbox \in [Peer -> Seq(Msg)]
  /\ step \in [Peer -> {"head", "append", "grants", "envelopes"}]
  /\ asked \in [Peer -> {"no", "yes", "answered"}]
  /\ refusals \in Nat
  /\ count \in [writes: Nat, grants: Nat, leaves: Nat, reloads: Nat, restarts: Nat]

(* Who needs no grant. *)
Free(x) == mode = "named" /\ x = Owner

(* Grants of x in a queue, and before its i-th message. *)
IsGrant(m, x) == m.t = "grant" /\ m.who = x
Holds(q, x) == \E i \in 1..Len(q) : IsGrant(q[i], x)
Before(q, i, x) == \E j \in 1..(i - 1) : IsGrant(q[j], x)

(* How far the subscription of p has got. *)
HasAck(q) == \E i \in 1..Len(q) : q[i].t = "sync-ack"
Answered(p) == asked[p] = "answered" \/ HasAck(inbox[p])
Past(p) == step[p] = "envelopes" \/ Answered(p)

(* A Space sends its own writes, which it has, and only the owner's grants. *)
ChainOK ==
  \A p \in Peer : \A i \in 1..Len(chain[p]) :
    LET m == chain[p][i]
    IN  /\ m.t \in {"grant", "write", "subscribe"}
        /\ m.t = "grant" => p = Owner /\ m.who \in known[Owner] /\ m.w = {}
        /\ \A w \in m.w : w.by = p /\ w \in doc[p] /\ w \in disk[p]

(* What is mirrored is on its author's disk; a member's Space shows it. *)
DiskOK ==
  /\ \A w \in log : w \in disk[w.by]
  /\ mode = "members" => \A p \in subs \cup members : \A w \in disk[p] : w.by = p => w \in doc[p]

(* Only stored grants are told, and only of who has left is it said. *)
InboxOK ==
  \A p \in Peer : \A i \in 1..Len(inbox[p]) :
    /\ inbox[p][i].t = "grant" => inbox[p][i].who \in grantLog
    /\ inbox[p][i].t = "member-left" => inbox[p][i].who \notin members

KnownOK ==
  /\ \A p \in Peer : p # Owner => known[p] \subseteq grantLog
  /\ \A p \in Peer : members \subseteq mates[p]
  /\ mode # "members" => members = Peer

(* Who is being replayed to, or has been, is a subscriber. *)
SubsOK == \A p \in Peer : step[p] \in {"grants", "envelopes"} \/ Answered(p) => p \in subs

(* A grant to the owner itself is stored, to come, or not known to the relay. *)
OwnerOK ==
  refusals = 0 /\ Owner \in known[Owner] =>
    Owner \in grantLog \/ Owner \notin granted \/ Holds(chain[Owner], Owner)

(* When a write that needs a grant is handled, its grant has been stored. *)
Vouched(p, i) ==
  \/ Free(p) \/ p \in grantLog
  \/ p = Owner /\ (Owner \notin granted \/ Before(chain[Owner], i, Owner))

VouchedChain ==
  refusals = 0 /\ mode # "members" =>
    \A p \in Peer : \A i \in 1..Len(chain[p]) : \A w \in chain[p][i].w : ~w.early => Vouched(p, i)

VouchedLog ==
  refusals = 0 /\ mode # "members" =>
    \A w \in log : ~w.early => Free(w.by) \/ w.by \in grantLog

(* Past the replay of the grants, a Space knows each, or is being told. *)
GrantsAt(p) == Past(p) => \A x \in grantLog : x \in known[p] \/ Holds(inbox[p], x)

(* Past the replay of the envelopes, it has each, or will accept it. *)
Accepts(p, x, i) == mode = "members" \/ Free(x) \/ x \in known[p] \/ Before(inbox[p], i, x)
Reached(p, w) ==
  w \in doc[p] \/ \E i \in 1..Len(inbox[p]) : w \in inbox[p][i].w /\ Accepts(p, w.by, i)
WritesAt(p) ==
  refusals = 0 /\ Answered(p) =>
    \A w \in log : ~w.early /\ w.by \in members \cup {p} => Reached(p, w)

IInv ==
  /\ Types /\ ChainOK /\ DiskOK /\ InboxOK /\ KnownOK /\ SubsOK
  /\ OwnerOK /\ VouchedChain /\ VouchedLog
  /\ \A p \in Peer : GrantsAt(p) /\ WritesAt(p)

-----------------------------------------------------------------------------
(* Queues. *)

(* r is q with more behind it. *)
Keeps(q, r) == Len(q) <= Len(r) /\ \A i \in 1..Len(q) : r[i] = q[i]

LEMMA AppendAt ==
  ASSUME NEW q \in Seq(Msg), NEW m \in Msg
  PROVE  /\ Append(q, m) \in Seq(Msg) /\ Len(Append(q, m)) = Len(q) + 1
         /\ Append(q, m)[Len(q) + 1] = m /\ Keeps(q, Append(q, m))
BY AppendProperties DEF Keeps

LEMMA TailAt ==
  ASSUME NEW q \in Seq(Msg), q # <<>>
  PROVE  /\ Tail(q) \in Seq(Msg) /\ Len(q) \in Nat \ {0} /\ Len(Tail(q)) = Len(q) - 1
         /\ Head(q) = q[1] /\ Head(q) \in Msg
         /\ \A i \in 1..Len(Tail(q)) : Tail(q)[i] = q[i + 1]
BY HeadTailProperties, EmptySeq, LenProperties

LEMMA KeptFacts ==
  ASSUME NEW q \in Seq(Msg), NEW r \in Seq(Msg), Keeps(q, r)
  PROVE  /\ \A x : Holds(q, x) => Holds(r, x)
         /\ \A x : \A i \in 1..(Len(q) + 1) : Before(q, i, x) <=> Before(r, i, x)
         /\ HasAck(q) => HasAck(r)
  <1>1. Len(q) \in Nat /\ Len(r) \in Nat
    BY LenProperties
  <1>2. \A i \in 1..Len(q) : i \in 1..Len(r) /\ r[i] = q[i]
    BY <1>1 DEF Keeps
  <1>3. \A i \in 1..(Len(q) + 1) : \A j \in 1..(i - 1) : j \in 1..Len(q)
    BY <1>1
  <1>4. \A x : Holds(q, x) => Holds(r, x)
    BY <1>2 DEF Holds
  <1>5. \A x : \A i \in 1..(Len(q) + 1) : Before(q, i, x) <=> Before(r, i, x)
    BY <1>2, <1>3 DEF Before
  <1>6. HasAck(q) => HasAck(r)
    BY <1>2 DEF HasAck
  <1>7. QED
    BY <1>4, <1>5, <1>6

LEMMA ControlTyped ==
  /\ \A p \in Peer : Control("grant", p) \in Msg /\ Control("member-left", p) \in Msg
  /\ Control("subscribe", NoOne) \in Msg /\ Control("sync-ack", NoOne) \in Msg
  /\ \A ws \in SUBSET Write : [t |-> "write", who |-> NoOne, w |-> ws] \in Msg
BY DEF Control, Msg

LEMMA CountedTyped ==
  ASSUME Types, NEW kind \in {"writes", "grants", "leaves", "reloads", "restarts"}, Counted(kind)
  PROVE  count' \in [writes: Nat, grants: Nat, leaves: Nat, reloads: Nat, restarts: Nat]
  <1>1. count \in [writes: Nat, grants: Nat, leaves: Nat, reloads: Nat, restarts: Nat]
    BY DEF Types
  <1>2. count' = [count EXCEPT ![kind] = @ + 1]
    BY DEF Counted
  <1>3. QED
    BY <1>1, <1>2

(* Told() and Sent() add one message at the end; Done() takes the first away. *)
LEMMA ToldAt ==
  ASSUME Types, NEW ps, NEW m \in Msg, inbox' = Told(ps, m)
  PROVE  /\ inbox' \in [Peer -> Seq(Msg)]
         /\ \A p \in Peer :
              /\ Keeps(inbox[p], inbox'[p])
              /\ \A i \in 1..Len(inbox'[p]) :
                   i \in 1..Len(inbox[p]) \/ (p \in ps /\ i = Len(inbox[p]) + 1 /\ inbox'[p][i] = m)
              /\ p \in ps => Len(inbox'[p]) = Len(inbox[p]) + 1 /\ inbox'[p][Len(inbox[p]) + 1] = m
  <1>1. inbox' = [p \in Peer |-> IF p \in ps THEN Append(inbox[p], m) ELSE inbox[p]]
    BY DEF Told
  <1>2. \A p \in Peer : inbox[p] \in Seq(Msg) /\ Len(inbox[p]) \in Nat
    BY LenProperties DEF Types
  <1>3. \A p \in Peer :
          /\ Append(inbox[p], m) \in Seq(Msg) /\ Len(Append(inbox[p], m)) = Len(inbox[p]) + 1
          /\ Append(inbox[p], m)[Len(inbox[p]) + 1] = m
          /\ Keeps(inbox[p], Append(inbox[p], m)) /\ Keeps(inbox[p], inbox[p])
    <2>1. \A p \in Peer : Keeps(inbox[p], inbox[p])
      BY <1>2 DEF Keeps
    <2>2. QED
      BY <1>2, <2>1, AppendAt
  <1>4. inbox' \in [Peer -> Seq(Msg)]
    BY <1>1, <1>2, <1>3
  <1>5. ASSUME NEW p \in Peer
        PROVE  /\ Keeps(inbox[p], inbox'[p])
               /\ \A i \in 1..Len(inbox'[p]) :
                    i \in 1..Len(inbox[p]) \/ (p \in ps /\ i = Len(inbox[p]) + 1 /\ inbox'[p][i] = m)
               /\ p \in ps => Len(inbox'[p]) = Len(inbox[p]) + 1 /\ inbox'[p][Len(inbox[p]) + 1] = m
    <2>1. CASE p \in ps
      <3>1. inbox'[p] = Append(inbox[p], m)
        BY <1>1, <2>1
      <3>2. QED
        BY <1>2, <1>3, <2>1, <3>1
    <2>2. CASE p \notin ps
      <3>1. inbox'[p] = inbox[p]
        BY <1>1, <2>2
      <3>2. QED
        BY <1>3, <2>2, <3>1
    <2>3. QED
      BY <2>1, <2>2
  <1>6. QED
    BY <1>4, <1>5

LEMMA SentAt ==
  ASSUME Types, NEW p \in Peer, NEW m \in Msg, Sent(p, m)
  PROVE  /\ chain' \in [Peer -> Seq(Msg)]
         /\ \A q \in Peer :
              /\ Keeps(chain[q], chain'[q])
              /\ \A i \in 1..Len(chain'[q]) :
                   i \in 1..Len(chain[q]) \/ (q = p /\ i = Len(chain[q]) + 1 /\ chain'[q][i] = m)
         /\ Len(chain'[p]) = Len(chain[p]) + 1 /\ chain'[p][Len(chain[p]) + 1] = m
  <1>1. chain' = [chain EXCEPT ![p] = Append(chain[p], m)]
    BY DEF Sent
  <1>2. \A q \in Peer : chain[q] \in Seq(Msg) /\ Len(chain[q]) \in Nat
    BY LenProperties DEF Types
  <1>3. /\ Append(chain[p], m) \in Seq(Msg) /\ Len(Append(chain[p], m)) = Len(chain[p]) + 1
        /\ Append(chain[p], m)[Len(chain[p]) + 1] = m
        /\ Keeps(chain[p], Append(chain[p], m))
    BY <1>2, AppendAt
  <1>4. /\ chain' \in [Peer -> Seq(Msg)] /\ chain'[p] = Append(chain[p], m)
        /\ \A q \in Peer : q # p => chain'[q] = chain[q]
    BY <1>1, <1>3 DEF Types
  <1>5. \A q \in Peer : Keeps(chain[q], chain[q])
    BY <1>2 DEF Keeps
  <1>6. ASSUME NEW q \in Peer
        PROVE  /\ Keeps(chain[q], chain'[q])
               /\ \A i \in 1..Len(chain'[q]) :
                    i \in 1..Len(chain[q]) \/ (q = p /\ i = Len(chain[q]) + 1 /\ chain'[q][i] = m)
    <2>1. CASE q = p
      <3>1. Keeps(chain[p], chain'[p]) /\ Len(chain'[p]) = Len(chain[p]) + 1
        BY <1>3, <1>4
      <3>2. chain'[p][Len(chain[p]) + 1] = m /\ Len(chain[p]) \in Nat
        BY <1>2, <1>3, <1>4
      <3>3. QED
        BY <2>1, <3>1, <3>2
    <2>2. CASE q # p
      BY <1>4, <1>5, <2>2
    <2>3. QED
      BY <2>1, <2>2
  <1>7. QED
    BY <1>3, <1>4, <1>6

LEMMA DoneAt ==
  ASSUME Types, NEW p \in Peer, chain[p] # <<>>, Done(p)
  PROVE  /\ chain' \in [Peer -> Seq(Msg)]
         /\ step' \in [Peer -> {"head", "append", "grants", "envelopes"}]
         /\ \A q \in Peer : q # p => chain'[q] = chain[q] /\ step'[q] = step[q]
         /\ step'[p] = "head" /\ Head(chain[p]) = chain[p][1] /\ chain[p][1] \in Msg
         /\ 1 \in 1..Len(chain[p])
         /\ \A i \in 1..Len(chain'[p]) :
              i + 1 \in 1..Len(chain[p]) /\ chain'[p][i] = chain[p][i + 1]
         /\ \A i \in 1..Len(chain[p]) : i # 1 => i - 1 \in 1..Len(chain'[p])
  <1>1. step' = [step EXCEPT ![p] = "head"] /\ chain' = [chain EXCEPT ![p] = Tail(chain[p])]
    BY DEF Done
  <1>2. chain \in [Peer -> Seq(Msg)] /\ step \in [Peer -> {"head", "append", "grants", "envelopes"}]
    BY DEF Types
  <1>3. /\ Tail(chain[p]) \in Seq(Msg) /\ Len(chain[p]) \in Nat \ {0}
        /\ Len(Tail(chain[p])) = Len(chain[p]) - 1
        /\ Head(chain[p]) = chain[p][1] /\ Head(chain[p]) \in Msg
        /\ \A i \in 1..Len(Tail(chain[p])) : Tail(chain[p])[i] = chain[p][i + 1]
    BY <1>2, TailAt
  <1>4. /\ chain' \in [Peer -> Seq(Msg)] /\ chain'[p] = Tail(chain[p])
        /\ \A q \in Peer : q # p => chain'[q] = chain[q] /\ step'[q] = step[q]
        /\ step' \in [Peer -> {"head", "append", "grants", "envelopes"}] /\ step'[p] = "head"
    BY <1>1, <1>2, <1>3
  <1>5. /\ \A i \in 1..Len(Tail(chain[p])) : i + 1 \in 1..Len(chain[p])
        /\ \A i \in 1..Len(chain[p]) : i # 1 => i - 1 \in 1..Len(Tail(chain[p]))
        /\ 1 \in 1..Len(chain[p])
    BY <1>3
  <1>6. QED
    BY <1>3, <1>4, <1>5

-----------------------------------------------------------------------------
(* What a Space has been told, or will be, survives what leaves its queue, *)
(* its grants and its document in place.                                   *)

LEMMA GrantsStay ==
  ASSUME Types, Types', NEW p \in Peer, GrantsAt(p), grantLog' = grantLog,
         Keeps(inbox[p], inbox'[p]), known[p] \subseteq known'[p], Past(p)' => Past(p)
  PROVE  GrantsAt(p)'
  <1>1. inbox[p] \in Seq(Msg) /\ inbox'[p] \in Seq(Msg)
    BY DEF Types
  <1>2. \A x : Holds(inbox[p], x) => Holds(inbox'[p], x)
    BY <1>1, KeptFacts
  <1>3. Past(p)' => \A x \in grantLog' : x \in known'[p] \/ Holds(inbox'[p], x)
    BY <1>2 DEF GrantsAt
  <1>4. QED
    BY <1>3 DEF GrantsAt, Holds

LEMMA ReachedStays ==
  ASSUME Types, Types', NEW p \in Peer, NEW w, Reached(p, w), mode' = mode,
         Keeps(inbox[p], inbox'[p]), known[p] \subseteq known'[p], doc[p] \subseteq doc'[p]
  PROVE  Reached(p, w)'
  <1>1. inbox[p] \in Seq(Msg) /\ inbox'[p] \in Seq(Msg)
    BY DEF Types
  <1>2. Len(inbox[p]) \in Nat /\ Len(inbox'[p]) \in Nat
    BY <1>1, LenProperties
  <1>3. \A i \in 1..Len(inbox[p]) : i \in 1..Len(inbox'[p]) /\ inbox'[p][i] = inbox[p][i]
                                    /\ i \in 1..(Len(inbox[p]) + 1)
    BY <1>2 DEF Keeps
  <1>4. \A x : \A i \in 1..Len(inbox[p]) : Before(inbox[p], i, x) => Before(inbox'[p], i, x)
    BY <1>1, <1>3, KeptFacts
  <1>5. CASE w \in doc[p]
    BY <1>5 DEF Reached
  <1>6. CASE \E i \in 1..Len(inbox[p]) : w \in inbox[p][i].w /\ Accepts(p, w.by, i)
    <2>1. PICK i \in 1..Len(inbox[p]) : w \in inbox[p][i].w /\ Accepts(p, w.by, i)
      BY <1>6
    <2>2. \/ mode = "members" \/ Free(w.by) \/ w.by \in known[p] \/ Before(inbox[p], i, w.by)
      BY <2>1 DEF Accepts
    <2>3. \/ mode' = "members" \/ Free(w.by)' \/ w.by \in known'[p] \/ Before(inbox'[p], i, w.by)
      BY <1>4, <2>2 DEF Free
    <2>4. Accepts(p, w.by, i)'
      BY <2>3 DEF Accepts, Free, Before
    <2>5. i \in 1..Len(inbox'[p]) /\ w \in inbox'[p][i].w
      BY <1>3, <2>1
    <2>6. QED
      BY <2>4, <2>5 DEF Reached
  <1>7. QED
    BY <1>5, <1>6 DEF Reached

LEMMA WritesStay ==
  ASSUME Types, Types', NEW p \in Peer, WritesAt(p),
         mode' = mode, log' = log, members' \subseteq members, refusals' = 0 => refusals = 0,
         Keeps(inbox[p], inbox'[p]), known[p] \subseteq known'[p], doc[p] \subseteq doc'[p],
         Answered(p)' => Answered(p)
  PROVE  WritesAt(p)'
  <1>1. SUFFICES ASSUME refusals' = 0, Answered(p)', NEW w \in log', ~w.early,
                        w.by \in members' \cup {p}
                 PROVE  Reached(p, w)'
    BY DEF WritesAt
  <1>2. Reached(p, w)
    BY <1>1 DEF WritesAt
  <1>3. QED
    BY <1>2, ReachedStays

(* Who is not being answered is owed nothing. *)
LEMMA NothingOwed ==
  ASSUME NEW p \in Peer, ~Past(p)'
  PROVE  GrantsAt(p)' /\ WritesAt(p)' /\ ~Answered(p)'
BY DEF GrantsAt, WritesAt, Past

-----------------------------------------------------------------------------
(* A chain that gets one more message, or loses its first. *)

LEMMA SendingKeepsChains ==
  ASSUME Types, ChainOK, NEW p \in Peer, NEW m \in Msg, Sent(p, m),
         m.t \in {"grant", "write", "subscribe"},
         m.t = "grant" => p = Owner /\ m.who \in known'[Owner] /\ m.w = {},
         \A w \in m.w : w.by = p /\ w \in doc'[p] /\ w \in disk'[p],
         known[Owner] \subseteq known'[Owner],
         \A q \in Peer : doc[q] \subseteq doc'[q] /\ disk[q] \subseteq disk'[q]
  PROVE  ChainOK'
  <1>1. SUFFICES ASSUME NEW q \in Peer, NEW i \in 1..Len(chain'[q])
                 PROVE  LET n == chain'[q][i]
                        IN  /\ n.t \in {"grant", "write", "subscribe"}
                            /\ n.t = "grant" => q = Owner /\ n.who \in known'[Owner] /\ n.w = {}
                            /\ \A w \in n.w : w.by = q /\ w \in doc'[q] /\ w \in disk'[q]
    BY DEF ChainOK
  <1>2. i \in 1..Len(chain[q]) \/ (q = p /\ chain'[q][i] = m)
    BY SentAt
  <1>3. CASE i \in 1..Len(chain[q])
    <2>1. chain'[q][i] = chain[q][i]
      BY <1>3, SentAt DEF Keeps
    <2>2. QED
      BY <1>3, <2>1 DEF ChainOK
  <1>4. CASE q = p /\ chain'[q][i] = m
    BY <1>4
  <1>5. QED
    BY <1>2, <1>3, <1>4

LEMMA SendingKeepsVouched ==
  ASSUME Types, Parties, VouchedChain, NEW p \in Peer, NEW m \in Msg, Sent(p, m),
         mode' = mode, grantLog' = grantLog, granted' = granted, refusals' = refusals,
         refusals = 0 /\ mode # "members" =>
           \A w \in m.w : ~w.early => Vouched(p, Len(chain[p]) + 1)
  PROVE  VouchedChain'
  <1>1. SUFFICES ASSUME refusals = 0, mode # "members", NEW q \in Peer, NEW i \in 1..Len(chain'[q]),
                        NEW w \in chain'[q][i].w, ~w.early
                 PROVE  Vouched(q, i)'
    BY DEF VouchedChain
  <1>2. chain[q] \in Seq(Msg) /\ chain'[q] \in Seq(Msg) /\ Keeps(chain[q], chain'[q])
    BY SentAt DEF Types
  <1>3. Vouched(q, i) /\ i \in 1..(Len(chain[q]) + 1)
    <2>1. Len(chain[q]) \in Nat
      BY <1>2, LenProperties
    <2>2. i \in 1..Len(chain[q]) \/ (q = p /\ i = Len(chain[q]) + 1 /\ chain'[q][i] = m)
      BY SentAt
    <2>3. CASE i \in 1..Len(chain[q])
      <3>1. w \in chain[q][i].w
        BY <1>2, <2>3 DEF Keeps
      <3>2. Vouched(q, i)
        BY <1>1, <2>3, <3>1 DEF VouchedChain
      <3>3. QED
        BY <2>1, <2>3, <3>2
    <2>4. CASE q = p /\ i = Len(chain[q]) + 1 /\ chain'[q][i] = m
      <3>1. w \in m.w
        BY <1>1, <2>4
      <3>2. Vouched(p, Len(chain[p]) + 1)
        BY <1>1, <3>1
      <3>3. QED
        BY <2>1, <2>4, <3>2
    <2>5. QED
      BY <2>2, <2>3, <2>4
  <1>4. Before(chain[q], i, Owner) => Before(chain'[q], i, Owner)
    BY <1>2, <1>3, KeptFacts
  <1>5. \/ Free(q)' \/ q \in grantLog'
        \/ q = Owner /\ (Owner \notin granted' \/ Before(chain'[Owner], i, Owner))
    BY <1>3, <1>4 DEF Vouched, Free
  <1>6. QED
    BY <1>5 DEF Vouched, Free, Before

LEMMA SendingKeepsOwner ==
  ASSUME Types, Parties, OwnerOK, NEW p \in Peer, NEW m \in Msg, Sent(p, m),
         grantLog' = grantLog, granted' = granted, refusals' = refusals,
         Owner \in known'[Owner] => Owner \in known[Owner] \/ (p = Owner /\ IsGrant(m, Owner))
  PROVE  OwnerOK'
  <1>1. SUFFICES ASSUME refusals = 0, Owner \in known'[Owner]
                 PROVE  Owner \in grantLog \/ Owner \notin granted \/ Holds(chain'[Owner], Owner)
    BY DEF OwnerOK, Holds
  <1>2. /\ chain[Owner] \in Seq(Msg) /\ chain'[Owner] \in Seq(Msg)
        /\ Keeps(chain[Owner], chain'[Owner])
    BY SentAt DEF Types, Parties
  <1>3. CASE p = Owner /\ IsGrant(m, Owner)
    <2>1. Len(chain[Owner]) + 1 \in 1..Len(chain'[Owner])
      BY <1>2, <1>3, SentAt, LenProperties
    <2>2. IsGrant(chain'[Owner][Len(chain[Owner]) + 1], Owner)
      <3>1. chain'[Owner][Len(chain[Owner]) + 1] = m
        BY <1>3, SentAt
      <3>2. QED
        BY <1>3, <3>1
    <2>3. QED
      BY <2>1, <2>2 DEF Holds
  <1>4. CASE Owner \in known[Owner]
    <2>1. Owner \in grantLog \/ Owner \notin granted \/ Holds(chain[Owner], Owner)
      BY <1>1, <1>4 DEF OwnerOK
    <2>2. Holds(chain[Owner], Owner) => Holds(chain'[Owner], Owner)
      BY <1>2, KeptFacts
    <2>3. QED
      BY <2>1, <2>2
  <1>5. QED
    BY <1>1, <1>3, <1>4

LEMMA HandlingKeepsChains ==
  ASSUME Types, ChainOK, NEW p \in Peer, chain[p] # <<>>, Done(p),
         known' = known, doc' = doc, disk' = disk
  PROVE  ChainOK'
  <1>1. SUFFICES ASSUME NEW q \in Peer, NEW i \in 1..Len(chain'[q])
                 PROVE  LET n == chain'[q][i]
                        IN  /\ n.t \in {"grant", "write", "subscribe"}
                            /\ n.t = "grant" => q = Owner /\ n.who \in known[Owner] /\ n.w = {}
                            /\ \A w \in n.w : w.by = q /\ w \in doc[q] /\ w \in disk[q]
    BY DEF ChainOK
  <1>2. \E j \in 1..Len(chain[q]) : chain'[q][i] = chain[q][j]
    <2>1. CASE q = p
      BY <2>1, DoneAt
    <2>2. CASE q # p
      BY <2>2, DoneAt
    <2>3. QED
      BY <2>1, <2>2
  <1>3. QED
    BY <1>2 DEF ChainOK

(* A grant to the owner leaves the chain when it is stored, or refused. *)
LEMMA HandlingKeepsVouched ==
  ASSUME Types, Parties, VouchedChain, OwnerOK, NEW p \in Peer, chain[p] # <<>>, Done(p),
         mode' = mode, known' = known, granted' = granted, grantLog \subseteq grantLog',
         refusals' = 0 => refusals = 0,
         p = Owner /\ IsGrant(Head(chain[p]), Owner) => Owner \in grantLog' \/ refusals' # 0
  PROVE  VouchedChain' /\ OwnerOK'
  <1>1. /\ Head(chain[p]) = chain[p][1]
        /\ \A q \in Peer : q # p => chain'[q] = chain[q]
        /\ \A i \in 1..Len(chain'[p]) : i + 1 \in 1..Len(chain[p]) /\ chain'[p][i] = chain[p][i + 1]
        /\ \A i \in 1..Len(chain[p]) : i # 1 => i - 1 \in 1..Len(chain'[p])
    BY DoneAt
  <1>2. ASSUME refusals' = 0, mode # "members", NEW q \in Peer, NEW i \in 1..Len(chain'[q]),
               NEW w \in chain'[q][i].w, ~w.early
        PROVE  Vouched(q, i)'
    <2>1. CASE q # p
      <3>1. Vouched(q, i)
        BY <1>1, <1>2, <2>1 DEF VouchedChain
      <3>2. \/ Free(q)' \/ q \in grantLog'
            \/ q = Owner /\ (Owner \notin granted' \/ Before(chain'[Owner], i, Owner))
        BY <1>1, <2>1, <3>1 DEF Vouched, Free
      <3>3. QED
        BY <3>2 DEF Vouched, Free, Before
    <2>2. CASE q = p
      <3>1. Vouched(p, i + 1)
        BY <1>1, <1>2, <2>2 DEF VouchedChain
      <3>2. ASSUME p = Owner, Before(chain[p], i + 1, Owner), ~ IsGrant(chain[p][1], Owner)
            PROVE  Before(chain'[p], i, Owner)
        <4>1. PICK j \in 1..i : IsGrant(chain[p][j], Owner)
          BY <2>2, <3>2 DEF Before
        <4>2. j # 1 /\ j \in 1..Len(chain[p])
          <5>1. i + 1 \in 1..Len(chain[p])
            BY <1>1, <2>2
          <5>2. QED
            BY <3>2, <4>1, <5>1
        <4>3. j - 1 \in 1..Len(chain'[p]) /\ j - 1 \in 1..(i - 1)
          BY <1>1, <4>1, <4>2
        <4>4. chain'[p][j - 1] = chain[p][j]
          BY <1>1, <4>2, <4>3
        <4>5. QED
          BY <4>1, <4>3, <4>4 DEF Before
      <3>3. p = Owner /\ IsGrant(chain[p][1], Owner) => Owner \in grantLog'
        BY <1>1, <1>2
      <3>4. \/ Free(q)' \/ q \in grantLog'
            \/ q = Owner /\ (Owner \notin granted' \/ Before(chain'[Owner], i, Owner))
        BY <2>2, <3>1, <3>2, <3>3 DEF Vouched, Free
      <3>5. QED
        BY <3>4 DEF Vouched, Free, Before
    <2>3. QED
      BY <2>1, <2>2
  <1>3. VouchedChain'
    BY <1>2 DEF VouchedChain
  <1>4. ASSUME refusals' = 0, Owner \in known[Owner]
        PROVE  Owner \in grantLog' \/ Owner \notin granted' \/ Holds(chain'[Owner], Owner)
    <2>1. Owner \in grantLog \/ Owner \notin granted \/ Holds(chain[Owner], Owner)
      BY <1>4 DEF OwnerOK
    <2>2. CASE Holds(chain[Owner], Owner) /\ p = Owner /\ Owner \notin grantLog'
      <3>1. PICK j \in 1..Len(chain[p]) : IsGrant(chain[p][j], Owner)
        BY <2>2 DEF Holds
      <3>2. j # 1
        BY <1>1, <1>4, <2>2, <3>1
      <3>3. j - 1 \in 1..Len(chain'[p]) /\ (j - 1) + 1 = j
        BY <1>1, <3>1, <3>2
      <3>4. chain'[p][j - 1] = chain[p][j]
        BY <1>1, <3>3
      <3>5. QED
        BY <2>2, <3>1, <3>3, <3>4 DEF Holds
    <2>3. CASE p # Owner
      <3>1. chain'[Owner] = chain[Owner]
        BY <1>1, <2>3 DEF Parties
      <3>2. QED
        BY <2>1, <3>1
    <2>4. QED
      BY <2>1, <2>2, <2>3
  <1>5. OwnerOK'
    BY <1>4 DEF OwnerOK, Holds
  <1>6. QED
    BY <1>3, <1>5

-----------------------------------------------------------------------------
(* The inductive invariant holds initially, and each action keeps it. *)

LEMMA InvInit == ASSUME Parties PROVE Init => IInv
  <1>1. SUFFICES ASSUME Init PROVE IInv
    OBVIOUS
  <1>2. /\ mode \in Modes /\ granted = {} /\ grantLog = {} /\ members = Peer /\ log = {} /\ subs = {}
        /\ refusals = 0
        /\ count = [writes |-> 0, grants |-> 0, leaves |-> 0, reloads |-> 0, restarts |-> 0]
    BY <1>1 DEF Init
  <1>3. /\ chain \in [Peer -> Seq(Msg)] /\ inbox \in [Peer -> Seq(Msg)]
        /\ \A p \in Peer : chain[p] = <<>> /\ inbox[p] = <<>>
    BY <1>1, EmptySeq DEF Init
  <1>4. /\ step \in [Peer -> {"head", "append", "grants", "envelopes"}]
        /\ asked \in [Peer -> {"no", "yes", "answered"}]
        /\ known \in [Peer -> SUBSET Peer] /\ mates \in [Peer -> SUBSET Peer]
        /\ doc \in [Peer -> SUBSET Write] /\ disk \in [Peer -> SUBSET Write]
        /\ \A p \in Peer : /\ step[p] = "head" /\ asked[p] = "no" /\ known[p] = {}
                           /\ mates[p] = Peer /\ disk[p] = {}
    BY <1>1 DEF Init
  <1>5. Types
    BY <1>2, <1>3, <1>4 DEF Types
  <1>6. \A p \in Peer : Len(chain[p]) = 0 /\ Len(inbox[p]) = 0
    BY <1>3, EmptySeq
  <1>7. \A p \in Peer : 1..Len(chain[p]) = {} /\ 1..Len(inbox[p]) = {}
    BY <1>6
  <1>8. ChainOK /\ InboxOK /\ VouchedChain
    BY <1>7 DEF ChainOK, InboxOK, VouchedChain
  <1>9. DiskOK /\ KnownOK /\ OwnerOK /\ VouchedLog
    BY <1>2, <1>4 DEF DiskOK, KnownOK, OwnerOK, VouchedLog
  <1>10. \A p \in Peer : ~ Past(p) /\ step[p] = "head"
    BY <1>4, <1>7 DEF Past, Answered, HasAck
  <1>11. SubsOK /\ \A p \in Peer : GrantsAt(p) /\ WritesAt(p)
    BY <1>10 DEF SubsOK, GrantsAt, WritesAt, Past
  <1>12. QED
    BY <1>5, <1>8, <1>9, <1>11 DEF IInv

(* What most actions leave alone, and what follows. *)
LEMMA SameQueues ==
  ASSUME Types, inbox' = inbox
  PROVE  \A p \in Peer : Keeps(inbox[p], inbox'[p]) /\ (HasAck(inbox[p])' <=> HasAck(inbox[p]))
  <1>1. \A p \in Peer : Len(inbox[p]) \in Nat
    BY LenProperties DEF Types
  <1>2. QED
    BY <1>1 DEF Keeps, HasAck

LEMMA GrantWriterKeeps ==
  ASSUME Parties, IInv, NEW x \in Peer, GrantWriter(x)
  PROVE  IInv'
  <1>1. /\ Types /\ ChainOK /\ DiskOK /\ InboxOK /\ KnownOK /\ SubsOK
        /\ OwnerOK /\ VouchedChain /\ VouchedLog /\ \A p \in Peer : GrantsAt(p) /\ WritesAt(p)
    BY DEF IInv
  <1>2. /\ known' = [known EXCEPT ![Owner] = @ \cup {x}] /\ Sent(Owner, Control("grant", x))
    BY DEF GrantWriter
  <1>3. UNCHANGED <<mode, granted, grantLog, members, log, subs, mates, doc, disk, step, inbox, asked, refusals>>
    BY DEF GrantWriter, relayVars
  <1>4. Owner \in Peer /\ Control("grant", x) \in Msg
    BY ControlTyped DEF Parties
  <1>5. /\ known' \in [Peer -> SUBSET Peer] /\ known'[Owner] = known[Owner] \cup {x}
        /\ \A p \in Peer : p # Owner => known'[p] = known[p]
        /\ \A p \in Peer : known[p] \subseteq known'[p]
    BY <1>1, <1>2, <1>4 DEF Types
  <1>6. Types'
    <2>1. count' \in [writes: Nat, grants: Nat, leaves: Nat, reloads: Nat, restarts: Nat]
      BY <1>1, CountedTyped DEF GrantWriter
    <2>2. chain' \in [Peer -> Seq(Msg)]
      BY <1>1, <1>2, <1>4, SentAt
    <2>3. QED
      BY <1>1, <1>3, <1>5, <2>1, <2>2 DEF Types
  <1>7. ChainOK'
    <2>1. LET m == Control("grant", x) IN m.t = "grant" /\ m.who = x /\ m.w = {}
      BY DEF Control
    <2>2. \A q \in Peer : doc[q] \subseteq doc'[q] /\ disk[q] \subseteq disk'[q]
      BY <1>3
    <2>3. QED
      BY <1>1, <1>2, <1>4, <1>5, <2>1, <2>2, SendingKeepsChains
  <1>8. VouchedChain'
    <2>1. \A w \in Control("grant", x).w : FALSE
      BY DEF Control
    <2>2. mode' = mode /\ grantLog' = grantLog /\ granted' = granted /\ refusals' = refusals
      BY <1>3
    <2>3. QED
      BY <1>1, <1>2, <1>4, <2>1, <2>2, SendingKeepsVouched
  <1>9. OwnerOK'
    <2>1. Owner \in known'[Owner] => Owner \in known[Owner] \/ IsGrant(Control("grant", x), Owner)
      BY <1>5 DEF IsGrant, Control
    <2>2. grantLog' = grantLog /\ granted' = granted /\ refusals' = refusals
      BY <1>3
    <2>3. QED
      BY <1>1, <1>2, <1>4, <2>1, <2>2, SendingKeepsOwner
  <1>10. DiskOK' /\ InboxOK' /\ VouchedLog'
    BY <1>1, <1>3 DEF DiskOK, InboxOK, VouchedLog, Free
  <1>11. KnownOK'
    BY <1>1, <1>3, <1>5 DEF KnownOK
  <1>12. SubsOK'
    BY <1>1, <1>3 DEF SubsOK, Answered, HasAck
  <1>13. \A p \in Peer : GrantsAt(p)' /\ WritesAt(p)'
    <2>1. \A p \in Peer : (Past(p)' => Past(p)) /\ (Answered(p)' => Answered(p))
      BY <1>3 DEF Past, Answered, HasAck
    <2>2. \A p \in Peer : Keeps(inbox[p], inbox'[p]) /\ doc[p] \subseteq doc'[p]
      BY <1>1, <1>3, SameQueues
    <2>3. \A p \in Peer : GrantsAt(p)'
      BY <1>1, <1>3, <1>5, <1>6, <2>1, <2>2, GrantsStay
    <2>4. \A p \in Peer : WritesAt(p)'
      BY <1>1, <1>3, <1>5, <1>6, <2>1, <2>2, WritesStay
    <2>5. QED
      BY <2>3, <2>4
  <1>14. QED
    BY <1>6, <1>7, <1>8, <1>9, <1>10, <1>11, <1>12, <1>13 DEF IInv

LEMMA LocalWriteKeeps ==
  ASSUME Parties, IInv, NEW p \in Peer, LocalWrite(p)
  PROVE  IInv'
  <1>1. /\ Types /\ ChainOK /\ DiskOK /\ InboxOK /\ KnownOK /\ SubsOK
        /\ OwnerOK /\ VouchedChain /\ VouchedLog /\ \A q \in Peer : GrantsAt(q) /\ WritesAt(q)
    BY DEF IInv
  <1>2. PICK w : /\ w = [by |-> p, n |-> count.writes + 1, early |-> ~Authorized(p, known[p], mates[p])]
                 /\ doc' = [doc EXCEPT ![p] = @ \cup {w}] /\ disk' = [disk EXCEPT ![p] = @ \cup {w}]
                 /\ Sent(p, WriteMsg(w))
    BY DEF LocalWrite
  <1>3. UNCHANGED <<mode, granted, grantLog, members, log, subs, known, mates, step, inbox, asked, refusals>>
    BY DEF LocalWrite, relayVars
  <1>4. count.writes < MaxWrites
    BY DEF LocalWrite, May
  <1>5. w \in Write /\ w.by = p /\ (w.early <=> ~Authorized(p, known[p], mates[p]))
    <2>1. count.writes + 1 \in 1..MaxWrites
      BY <1>1, <1>4 DEF Types, Parties
    <2>2. (~Authorized(p, known[p], mates[p])) \in BOOLEAN
      BY DEF Authorized
    <2>3. QED
      BY <1>2, <2>1, <2>2 DEF Write
  <1>6. WriteMsg(w) \in Msg /\ WriteMsg(w).t = "write" /\ WriteMsg(w).w = {w}
    BY <1>5 DEF WriteMsg, Msg
  <1>7. /\ doc' \in [Peer -> SUBSET Write] /\ disk' \in [Peer -> SUBSET Write]
        /\ \A q \in Peer : doc[q] \subseteq doc'[q] /\ disk[q] \subseteq disk'[q]
        /\ w \in doc'[p] /\ w \in disk'[p]
        /\ \A q \in Peer : q # p => doc'[q] = doc[q] /\ disk'[q] = disk[q]
        /\ disk'[p] = disk[p] \cup {w}
    BY <1>1, <1>2, <1>5 DEF Types
  <1>8. Types'
    <2>1. count' \in [writes: Nat, grants: Nat, leaves: Nat, reloads: Nat, restarts: Nat]
      BY <1>1, CountedTyped DEF LocalWrite
    <2>2. chain' \in [Peer -> Seq(Msg)]
      BY <1>1, <1>2, <1>6, SentAt
    <2>3. QED
      BY <1>1, <1>3, <1>7, <2>1, <2>2 DEF Types
  <1>9. ChainOK'
    <2>1. /\ \A v \in WriteMsg(w).w : v.by = p /\ v \in doc'[p] /\ v \in disk'[p]
          /\ known[Owner] \subseteq known'[Owner]
      BY <1>3, <1>5, <1>6, <1>7
    <2>2. QED
      BY <1>1, <1>2, <1>6, <1>7, <2>1, SendingKeepsChains
  <1>10. VouchedChain'
    <2>1. ASSUME refusals = 0, mode # "members", ~w.early PROVE Vouched(p, Len(chain[p]) + 1)
      <3>1. Authorized(p, known[p], mates[p])
        BY <1>5, <2>1
      <3>2. Free(p) \/ p \in known[p]
        BY <2>1, <3>1 DEF Authorized, Free
      <3>3. CASE p # Owner /\ p \in known[p]
        BY <1>1, <3>3 DEF KnownOK, Vouched
      <3>4. CASE p = Owner /\ p \in known[p]
        <4>1. Holds(chain[Owner], Owner) => Before(chain[Owner], Len(chain[p]) + 1, Owner)
          <5>1. Len(chain[p]) \in Nat
            BY <1>1, LenProperties DEF Types
          <5>2. 1..((Len(chain[p]) + 1) - 1) = 1..Len(chain[p])
            BY <5>1
          <5>3. QED
            BY <3>4, <5>2 DEF Holds, Before
        <4>2. Owner \in grantLog \/ Owner \notin granted \/ Holds(chain[Owner], Owner)
          BY <1>1, <2>1, <3>4 DEF OwnerOK
        <4>3. QED
          BY <3>4, <4>1, <4>2 DEF Vouched
      <3>5. QED
        BY <3>2, <3>3, <3>4 DEF Vouched
    <2>2. mode' = mode /\ grantLog' = grantLog /\ granted' = granted /\ refusals' = refusals
      BY <1>3
    <2>3. \A v \in WriteMsg(w).w : v = w
      BY <1>6
    <2>4. refusals = 0 /\ mode # "members" =>
            \A v \in WriteMsg(w).w : ~v.early => Vouched(p, Len(chain[p]) + 1)
      BY <2>1, <2>3
    <2>5. QED
      BY <1>1, <1>2, <1>6, <2>2, <2>4, SendingKeepsVouched
  <1>11. OwnerOK'
    <2>1. grantLog' = grantLog /\ granted' = granted /\ refusals' = refusals /\ known' = known
      BY <1>3
    <2>2. QED
      BY <1>1, <1>2, <1>6, <2>1, SendingKeepsOwner
  <1>12. DiskOK'
    <2>1. \A v \in log' : v \in disk'[v.by]
      <3>1. \A v \in log : v \in disk[v.by] /\ v.by \in Peer
        BY <1>1 DEF DiskOK, Types, Write
      <3>2. QED
        BY <1>3, <1>7, <3>1
    <2>2. mode' = "members" => \A q \in subs' \cup members' : \A v \in disk'[q] : v.by = q => v \in doc'[q]
      <3>1. SUFFICES ASSUME mode = "members", NEW q \in subs \cup members, NEW v \in disk'[q], v.by = q
                     PROVE  v \in doc'[q]
        BY <1>3
      <3>2. q \in Peer
        BY <1>1 DEF Types
      <3>3. v \in disk[q] \/ (q = p /\ v = w)
        BY <1>7, <3>2
      <3>4. v \in disk[q] => v \in doc[q]
        BY <1>1, <3>1 DEF DiskOK
      <3>5. QED
        BY <1>7, <3>2, <3>3, <3>4
    <2>3. QED
      BY <2>1, <2>2 DEF DiskOK
  <1>13. InboxOK' /\ VouchedLog' /\ KnownOK'
    BY <1>1, <1>3 DEF InboxOK, VouchedLog, Free, KnownOK
  <1>14. SubsOK'
    BY <1>1, <1>3 DEF SubsOK, Answered, HasAck
  <1>15. \A q \in Peer : GrantsAt(q)' /\ WritesAt(q)'
    <2>1. \A q \in Peer : (Past(q)' => Past(q)) /\ (Answered(q)' => Answered(q))
      BY <1>3 DEF Past, Answered, HasAck
    <2>2. \A q \in Peer : Keeps(inbox[q], inbox'[q]) /\ known[q] \subseteq known'[q]
      BY <1>1, <1>3, SameQueues
    <2>3. \A q \in Peer : GrantsAt(q)'
      BY <1>1, <1>3, <1>8, <2>1, <2>2, GrantsStay
    <2>4. \A q \in Peer : WritesAt(q)'
      BY <1>1, <1>3, <1>7, <1>8, <2>1, <2>2, WritesStay
    <2>5. QED
      BY <2>3, <2>4
  <1>16. QED
    BY <1>8, <1>9, <1>10, <1>11, <1>12, <1>13, <1>14, <1>15 DEF IInv

LEMMA SubscribeKeeps ==
  ASSUME Parties, IInv, NEW p \in Peer, Subscribe(p)
  PROVE  IInv'
  <1>1. /\ Types /\ ChainOK /\ DiskOK /\ InboxOK /\ KnownOK /\ SubsOK
        /\ OwnerOK /\ VouchedChain /\ VouchedLog /\ \A q \in Peer : GrantsAt(q) /\ WritesAt(q)
    BY DEF IInv
  <1>2. asked[p] = "no" /\ asked' = [asked EXCEPT ![p] = "yes"] /\ Sent(p, Control("subscribe", NoOne))
    BY DEF Subscribe
  <1>3. UNCHANGED <<mode, granted, grantLog, members, log, subs, known, mates, doc, disk, step, inbox,
                    refusals, count>>
    BY DEF Subscribe, relayVars, spaceVars
  <1>4. /\ Control("subscribe", NoOne) \in Msg /\ Control("subscribe", NoOne).t = "subscribe"
        /\ Control("subscribe", NoOne).w = {}
    BY ControlTyped DEF Control
  <1>5. Types'
    <2>1. chain' \in [Peer -> Seq(Msg)] /\ asked' \in [Peer -> {"no", "yes", "answered"}]
      BY <1>1, <1>2, <1>4, SentAt DEF Types
    <2>2. QED
      BY <1>1, <1>3, <2>1 DEF Types
  <1>6. ChainOK'
    <2>1. /\ known[Owner] \subseteq known'[Owner]
          /\ \A q \in Peer : doc[q] \subseteq doc'[q] /\ disk[q] \subseteq disk'[q]
      BY <1>3
    <2>2. QED
      BY <1>1, <1>2, <1>4, <2>1, SendingKeepsChains
  <1>7. VouchedChain' /\ OwnerOK'
    <2>1. /\ mode' = mode /\ grantLog' = grantLog /\ granted' = granted /\ refusals' = refusals
          /\ known' = known
      BY <1>3
    <2>2. VouchedChain'
      BY <1>1, <1>2, <1>4, <2>1, SendingKeepsVouched
    <2>3. OwnerOK'
      BY <1>1, <1>2, <1>4, <2>1, SendingKeepsOwner
    <2>4. QED
      BY <2>2, <2>3
  <1>8. DiskOK' /\ InboxOK' /\ VouchedLog' /\ KnownOK'
    BY <1>1, <1>3 DEF DiskOK, InboxOK, VouchedLog, Free, KnownOK
  <1>9. \A q \in Peer : (Past(q)' => Past(q)) /\ (Answered(q)' => Answered(q))
    <2>1. \A q \in Peer : asked'[q] = "answered" => asked[q] = "answered"
      BY <1>1, <1>2 DEF Types
    <2>2. QED
      BY <1>3, <2>1 DEF Past, Answered, HasAck
  <1>10. SubsOK'
    BY <1>1, <1>3, <1>9 DEF SubsOK
  <1>11. \A q \in Peer : GrantsAt(q)' /\ WritesAt(q)'
    <2>1. \A q \in Peer : /\ Keeps(inbox[q], inbox'[q])
                          /\ known[q] \subseteq known'[q] /\ doc[q] \subseteq doc'[q]
      BY <1>1, <1>3, SameQueues
    <2>2. \A q \in Peer : GrantsAt(q)'
      BY <1>1, <1>3, <1>5, <1>9, <2>1, GrantsStay
    <2>3. \A q \in Peer : WritesAt(q)'
      BY <1>1, <1>3, <1>5, <1>9, <2>1, WritesStay
    <2>4. QED
      BY <2>2, <2>3
  <1>12. QED
    BY <1>5, <1>6, <1>7, <1>8, <1>10, <1>11 DEF IInv

LEMMA HandleGrantKeeps ==
  ASSUME Parties, IInv, NEW p \in Peer, HandleGrant(p)
  PROVE  IInv'
  <1> DEFINE x == Head(chain[p]).who
  <1>1. /\ Types /\ ChainOK /\ DiskOK /\ InboxOK /\ KnownOK /\ SubsOK
        /\ OwnerOK /\ VouchedChain /\ VouchedLog /\ \A q \in Peer : GrantsAt(q) /\ WritesAt(q)
    BY DEF IInv
  <1>2. /\ chain[p] # <<>> /\ Head(chain[p]).t = "grant"
        /\ granted' = granted \cup {x} /\ step' = [step EXCEPT ![p] = "append"] /\ chain' = chain
    BY DEF HandleGrant, Handles, Goto
  <1>3. UNCHANGED <<mode, grantLog, members, log, subs, known, mates, doc, disk, inbox, asked,
                    refusals, count>>
    BY DEF HandleGrant, spaceVars
  <1>4. /\ Head(chain[p]) = chain[p][1] /\ 1 \in 1..Len(chain[p])
        /\ Len(chain[p]) \in Nat
    BY <1>1, <1>2, TailAt DEF Types
  <1>5. p = Owner /\ x \in known[Owner] /\ chain[p][1].w = {}
    BY <1>1, <1>2, <1>4 DEF ChainOK
  <1>6. x \in Peer
    BY <1>1, <1>5 DEF Types
  <1>7. /\ step' \in [Peer -> {"head", "append", "grants", "envelopes"}]
        /\ \A q \in Peer : step'[q] \in {step[q], "append"}
    BY <1>1, <1>2 DEF Types
  <1>8. Types'
    BY <1>1, <1>2, <1>3, <1>6, <1>7 DEF Types
  <1>9. ChainOK' /\ DiskOK' /\ InboxOK' /\ VouchedLog' /\ KnownOK'
    BY <1>1, <1>2, <1>3 DEF ChainOK, DiskOK, InboxOK, VouchedLog, Free, KnownOK
  <1>10. Owner \in granted' /\ Owner \notin granted => IsGrant(chain[Owner][1], Owner)
    BY <1>2, <1>4, <1>5 DEF IsGrant
  <1>11. OwnerOK'
    <2>1. SUFFICES ASSUME refusals = 0, Owner \in known[Owner], Owner \in granted', Owner \notin grantLog
                   PROVE  Holds(chain[Owner], Owner)
      BY <1>2, <1>3 DEF OwnerOK, Holds
    <2>2. CASE Owner \in granted
      BY <1>1, <2>1, <2>2 DEF OwnerOK
    <2>3. CASE Owner \notin granted
      BY <1>4, <1>5, <1>10, <2>1, <2>3 DEF Holds
    <2>4. QED
      BY <2>2, <2>3
  <1>12. VouchedChain'
    <2>1. SUFFICES ASSUME refusals = 0, mode # "members", NEW q \in Peer, NEW i \in 1..Len(chain[q]),
                          NEW w \in chain[q][i].w, ~w.early
                   PROVE  Vouched(q, i)'
      BY <1>2, <1>3 DEF VouchedChain
    <2>2. Vouched(q, i)
      BY <1>1, <2>1 DEF VouchedChain
    <2>3. q = Owner /\ Owner \notin granted /\ Owner \in granted' => Before(chain[Owner], i, Owner)
      <3>1. q = Owner => i # 1
        BY <1>5, <2>1
      <3>2. q = Owner => 1 \in 1..(i - 1)
        BY <1>4, <1>5, <3>1
      <3>3. QED
        BY <1>10, <3>2 DEF Before
    <2>4. \/ Free(q) \/ q \in grantLog
          \/ q = Owner /\ (Owner \notin granted' \/ Before(chain[Owner], i, Owner))
      BY <2>2, <2>3 DEF Vouched
    <2>5. QED
      BY <1>2, <1>3, <2>4 DEF Vouched, Free, Before
  <1>13. \A q \in Peer : (Past(q)' => Past(q)) /\ (Answered(q)' <=> Answered(q))
    BY <1>3, <1>7 DEF Past, Answered, HasAck
  <1>14. SubsOK'
    BY <1>1, <1>3, <1>7, <1>13 DEF SubsOK
  <1>15. \A q \in Peer : GrantsAt(q)' /\ WritesAt(q)'
    <2>1. \A q \in Peer : /\ Keeps(inbox[q], inbox'[q])
                          /\ known[q] \subseteq known'[q] /\ doc[q] \subseteq doc'[q]
      BY <1>1, <1>3, SameQueues
    <2>2. \A q \in Peer : GrantsAt(q)'
      BY <1>1, <1>3, <1>8, <1>13, <2>1, GrantsStay
    <2>3. \A q \in Peer : WritesAt(q)'
      BY <1>1, <1>3, <1>8, <1>13, <2>1, WritesStay
    <2>4. QED
      BY <2>2, <2>3
  <1>16. QED
    BY <1>8, <1>9, <1>11, <1>12, <1>14, <1>15 DEF IInv

LEMMA StoreGrantKeeps ==
  ASSUME Parties, IInv, NEW p \in Peer, StoreGrant(p)
  PROVE  IInv'
  <1> DEFINE m == Head(chain[p])
  <1>1. /\ Types /\ ChainOK /\ DiskOK /\ InboxOK /\ KnownOK /\ SubsOK
        /\ OwnerOK /\ VouchedChain /\ VouchedLog /\ \A q \in Peer : GrantsAt(q) /\ WritesAt(q)
    BY DEF IInv
  <1>2. /\ chain[p] # <<>> /\ m.t = "grant" /\ Done(p)
        /\ grantLog' = grantLog \cup {m.who} /\ inbox' = Told(Peer \ {p}, m)
    BY DEF StoreGrant, Handles
  <1>3. UNCHANGED <<mode, granted, members, log, subs, known, mates, doc, disk, asked, refusals, count>>
    BY DEF StoreGrant, spaceVars
  <1>4. /\ chain' \in [Peer -> Seq(Msg)]
        /\ step' \in [Peer -> {"head", "append", "grants", "envelopes"}]
        /\ \A q \in Peer : step'[q] \in {step[q], "head"}
        /\ m \in Msg /\ m = chain[p][1] /\ 1 \in 1..Len(chain[p])
    BY <1>1, <1>2, DoneAt
  <1>5. p = Owner /\ m.who \in known[Owner]
    BY <1>1, <1>2, <1>4 DEF ChainOK
  <1>6. m.who \in Peer
    BY <1>1, <1>5 DEF Types
  <1> HIDE DEF m
  <1>7. /\ inbox' \in [Peer -> Seq(Msg)]
        /\ \A q \in Peer :
             /\ Keeps(inbox[q], inbox'[q])
             /\ \A i \in 1..Len(inbox'[q]) :
                  i \in 1..Len(inbox[q]) \/ inbox'[q][i] = m
             /\ q # p => Len(inbox'[q]) = Len(inbox[q]) + 1 /\ inbox'[q][Len(inbox[q]) + 1] = m
    <2>1. inbox' = Told(Peer \ {p}, m) /\ m \in Msg
      BY <1>2, <1>4
    <2>2. /\ inbox' \in [Peer -> Seq(Msg)]
          /\ \A q \in Peer :
               /\ Keeps(inbox[q], inbox'[q])
               /\ \A i \in 1..Len(inbox'[q]) :
                    \/ i \in 1..Len(inbox[q])
                    \/ q \in Peer \ {p} /\ i = Len(inbox[q]) + 1 /\ inbox'[q][i] = m
               /\ q \in Peer \ {p} =>
                    Len(inbox'[q]) = Len(inbox[q]) + 1 /\ inbox'[q][Len(inbox[q]) + 1] = m
      BY <1>1, <2>1, ToldAt
    <2>3. QED
      BY <2>2
  <1>8. \A q \in Peer : \A i \in 1..Len(inbox[q]) : inbox'[q][i] = inbox[q][i]
    BY <1>7 DEF Keeps
  <1>9. Types'
    <2>1. grantLog' \subseteq Peer
      BY <1>1, <1>2, <1>6 DEF Types
    <2>2. chain' \in [Peer -> Seq(Msg)] /\ inbox' \in [Peer -> Seq(Msg)]
      BY <1>4, <1>7
    <2>3. step' \in [Peer -> {"head", "append", "grants", "envelopes"}]
      BY <1>4
    <2>4. QED
      BY <1>1, <1>3, <2>1, <2>2, <2>3 DEF Types
  <1>10. ChainOK'
    BY <1>1, <1>2, <1>3, HandlingKeepsChains
  <1>11. VouchedChain' /\ OwnerOK'
    <2>1. /\ mode' = mode /\ known' = known /\ granted' = granted /\ refusals' = refusals
          /\ grantLog \subseteq grantLog'
      BY <1>2, <1>3
    <2>2. IsGrant(m, Owner) => Owner \in grantLog'
      BY <1>2 DEF IsGrant
    <2>3. QED
      BY <1>1, <1>2, <2>1, <2>2, HandlingKeepsVouched DEF m
  <1>12. DiskOK'
    BY <1>1, <1>3 DEF DiskOK
  <1>13. InboxOK'
    <2>1. SUFFICES ASSUME NEW q \in Peer, NEW i \in 1..Len(inbox'[q])
                   PROVE  /\ inbox'[q][i].t = "grant" => inbox'[q][i].who \in grantLog'
                          /\ inbox'[q][i].t = "member-left" => inbox'[q][i].who \notin members
      BY <1>3 DEF InboxOK
    <2>2. CASE i \in 1..Len(inbox[q])
      BY <1>1, <1>2, <1>8, <2>2 DEF InboxOK
    <2>3. CASE inbox'[q][i] = m
      BY <1>2, <2>3
    <2>4. QED
      BY <1>7, <2>2, <2>3
  <1>14. KnownOK' /\ VouchedLog'
    BY <1>1, <1>2, <1>3 DEF KnownOK, VouchedLog, Free
  <1>15. \A q \in Peer : (Past(q)' => Past(q)) /\ (Answered(q)' => Answered(q))
    <2>1. \A q \in Peer : HasAck(inbox'[q]) => HasAck(inbox[q])
      BY <1>2, <1>7, <1>8 DEF HasAck
    <2>2. \A q \in Peer : Answered(q)' => Answered(q)
      BY <1>3, <2>1 DEF Answered, HasAck
    <2>3. QED
      BY <1>4, <2>2 DEF Past
  <1>16. SubsOK'
    BY <1>1, <1>3, <1>4, <1>15 DEF SubsOK
  <1>17. \A q \in Peer : WritesAt(q)'
    <2>1. \A q \in Peer : Keeps(inbox[q], inbox'[q])
      BY <1>7
    <2>2. QED
      BY <1>1, <1>3, <1>9, <1>15, <2>1, WritesStay
  <1>18. ASSUME NEW q \in Peer PROVE GrantsAt(q)'
    <2>1. SUFFICES ASSUME Past(q), NEW x \in grantLog' PROVE x \in known[q] \/ Holds(inbox'[q], x)
      BY <1>3, <1>15 DEF GrantsAt, Holds
    <2>2. CASE x \in grantLog
      <3>1. x \in known[q] \/ Holds(inbox[q], x)
        BY <1>1, <2>1, <2>2 DEF GrantsAt
      <3>2. Holds(inbox[q], x) => Holds(inbox'[q], x)
        BY <1>1, <1>7, KeptFacts DEF Types
      <3>3. QED
        BY <3>1, <3>2
    <2>3. CASE x = m.who
      <3>1. CASE q = p
        BY <1>5, <2>3, <3>1
      <3>2. CASE q # p
        <4>1. Len(inbox[q]) + 1 \in 1..Len(inbox'[q])
          <5>1. Len(inbox[q]) \in Nat /\ Len(inbox'[q]) = Len(inbox[q]) + 1
            BY <1>1, <1>7, <3>2, LenProperties DEF Types
          <5>2. QED
            BY <5>1
        <4>2. IsGrant(inbox'[q][Len(inbox[q]) + 1], x)
          BY <1>2, <1>7, <2>3, <3>2 DEF IsGrant
        <4>3. QED
          BY <4>1, <4>2 DEF Holds
      <3>3. QED
        BY <3>1, <3>2
    <2>4. QED
      BY <1>2, <2>1, <2>2, <2>3
  <1>19. QED
    BY <1>9, <1>10, <1>11, <1>12, <1>13, <1>14, <1>16, <1>17, <1>18 DEF IInv

LEMMA StoreGrantFailsKeeps ==
  ASSUME Parties, IInv, NEW p \in Peer, StoreGrantFails(p)
  PROVE  IInv'
  <1>1. /\ Types /\ ChainOK /\ DiskOK /\ InboxOK /\ KnownOK /\ SubsOK
        /\ OwnerOK /\ VouchedChain /\ VouchedLog /\ \A q \in Peer : GrantsAt(q) /\ WritesAt(q)
    BY DEF IInv
  <1>2. chain[p] # <<>> /\ Done(p) /\ refusals' = refusals + 1
    BY DEF StoreGrantFails, Handles
  <1>3. UNCHANGED <<mode, granted, grantLog, members, log, subs, known, mates, doc, disk, inbox, asked, count>>
    BY DEF StoreGrantFails, relayVars, spaceVars
  <1>4. /\ chain' \in [Peer -> Seq(Msg)]
        /\ step' \in [Peer -> {"head", "append", "grants", "envelopes"}]
        /\ \A q \in Peer : step'[q] \in {step[q], "head"}
    BY <1>1, <1>2, DoneAt
  <1>5. refusals' \in Nat /\ refusals' # 0
    BY <1>1, <1>2 DEF Types
  <1>6. Types'
    BY <1>1, <1>3, <1>4, <1>5 DEF Types
  <1>7. ChainOK'
    BY <1>1, <1>2, <1>3, HandlingKeepsChains
  <1>8. VouchedChain' /\ OwnerOK' /\ VouchedLog' /\ \A q \in Peer : WritesAt(q)'
    BY <1>5 DEF VouchedChain, OwnerOK, VouchedLog, WritesAt
  <1>9. DiskOK' /\ InboxOK' /\ KnownOK'
    BY <1>1, <1>3 DEF DiskOK, InboxOK, KnownOK
  <1>10. \A q \in Peer : (Past(q)' => Past(q)) /\ (Answered(q)' => Answered(q))
    BY <1>3, <1>4 DEF Past, Answered, HasAck
  <1>11. SubsOK'
    BY <1>1, <1>3, <1>4, <1>10 DEF SubsOK
  <1>12. \A q \in Peer : GrantsAt(q)'
    <2>1. \A q \in Peer : Keeps(inbox[q], inbox'[q]) /\ known[q] \subseteq known'[q]
      BY <1>1, <1>3, SameQueues
    <2>2. QED
      BY <1>1, <1>3, <1>6, <1>10, <2>1, GrantsStay
  <1>13. QED
    BY <1>6, <1>7, <1>8, <1>9, <1>11, <1>12 DEF IInv

(* Who has been told of all grants, or is about to be, accepts what is sent *)
(* behind them.                                                             *)
LEMMA SentLaterIsAccepted ==
  ASSUME Types, Types', NEW q \in Peer, NEW w, mode' = mode,
         Keeps(inbox[q], inbox'[q]), known[q] \subseteq known'[q],
         Past(q), GrantsAt(q),
         mode = "members" \/ Free(w.by) \/ w.by \in grantLog,
         Len(inbox[q]) + 1 \in 1..Len(inbox'[q]), w \in inbox'[q][Len(inbox[q]) + 1].w
  PROVE  Reached(q, w)'
  <1>1. inbox[q] \in Seq(Msg) /\ inbox'[q] \in Seq(Msg) /\ Len(inbox[q]) \in Nat
    BY LenProperties DEF Types
  <1>2. w.by \in grantLog => w.by \in known'[q] \/ Holds(inbox[q], w.by)
    BY DEF GrantsAt
  <1>3. Holds(inbox[q], w.by) => Before(inbox'[q], Len(inbox[q]) + 1, w.by)
    <2>1. 1..((Len(inbox[q]) + 1) - 1) = 1..Len(inbox[q])
      BY <1>1
    <2>2. \A i \in 1..Len(inbox[q]) : inbox'[q][i] = inbox[q][i]
      BY DEF Keeps
    <2>3. QED
      BY <2>1, <2>2 DEF Holds, Before
  <1>4. \/ mode' = "members" \/ Free(w.by)' \/ w.by \in known'[q]
        \/ Before(inbox'[q], Len(inbox[q]) + 1, w.by)
    BY <1>2, <1>3 DEF Free
  <1>5. \E i \in 1..Len(inbox'[q]) :
          /\ w \in inbox'[q][i].w
          /\ mode' = "members" \/ Free(w.by)' \/ w.by \in known'[q] \/ Before(inbox'[q], i, w.by)
    BY <1>4
  <1>6. QED
    BY <1>5 DEF Reached, Accepts, Free, Before

LEMMA HandleWriteKeeps ==
  ASSUME Parties, IInv, NEW p \in Peer, HandleWrite(p)
  PROVE  IInv'
  <1> DEFINE m == Head(chain[p])
             accepted == Authorized(p, granted, members)
  <1>1. /\ Types /\ ChainOK /\ DiskOK /\ InboxOK /\ KnownOK /\ SubsOK
        /\ OwnerOK /\ VouchedChain /\ VouchedLog /\ \A q \in Peer : GrantsAt(q) /\ WritesAt(q)
    BY DEF IInv
  <1>2. /\ chain[p] # <<>> /\ m.t = "write" /\ Done(p)
        /\ accepted => log' = log \cup m.w /\ inbox' = Told(subs \ {p}, m)
        /\ ~ accepted => log' = log /\ inbox' = inbox
    BY DEF HandleWrite, Handles
  <1>3. UNCHANGED <<mode, granted, grantLog, members, subs, known, mates, doc, disk, asked, refusals, count>>
    BY DEF HandleWrite, spaceVars
  <1>4. /\ chain' \in [Peer -> Seq(Msg)]
        /\ step' \in [Peer -> {"head", "append", "grants", "envelopes"}]
        /\ \A q \in Peer : step'[q] \in {step[q], "head"}
        /\ m \in Msg /\ m = chain[p][1] /\ 1 \in 1..Len(chain[p])
    BY <1>1, <1>2, DoneAt
  <1>5. \A w \in m.w : w.by = p /\ w \in doc[p] /\ w \in disk[p]
    BY <1>1, <1>4 DEF ChainOK
  (* The write is vouched for: a grant it needs has been stored. *)
  <1>6. refusals = 0 /\ mode # "members" /\ accepted =>
          \A w \in m.w : ~w.early => Free(p) \/ p \in grantLog
    <2>1. SUFFICES ASSUME refusals = 0, mode # "members", accepted, NEW w \in m.w, ~w.early
                   PROVE  Free(p) \/ p \in grantLog
      OBVIOUS
    <2>2. Vouched(p, 1)
      BY <1>1, <1>4, <2>1 DEF VouchedChain
    <2>3. ~ Before(chain[Owner], 1, Owner)
      BY DEF Before
    <2>4. p \notin granted => Free(p)
      BY <2>1 DEF Authorized, Free
    <2>5. QED
      BY <2>2, <2>3, <2>4 DEF Vouched
  <1>7. m.w \subseteq Write
    BY <1>4 DEF Msg
  <1> HIDE DEF m, accepted
  <1>8. /\ inbox' \in [Peer -> Seq(Msg)]
        /\ \A q \in Peer :
             /\ Keeps(inbox[q], inbox'[q])
             /\ \A i \in 1..Len(inbox'[q]) : i \in 1..Len(inbox[q]) \/ inbox'[q][i] = m
             /\ accepted /\ q \in subs \ {p} =>
                  Len(inbox'[q]) = Len(inbox[q]) + 1 /\ inbox'[q][Len(inbox[q]) + 1] = m
    <2>1. CASE accepted
      <3>1. Types /\ inbox' = Told(subs \ {p}, m) /\ m \in Msg
        BY <1>1, <1>2, <1>4, <2>1
      <3>2. /\ inbox' \in [Peer -> Seq(Msg)]
            /\ \A q \in Peer :
                 /\ Keeps(inbox[q], inbox'[q])
                 /\ \A i \in 1..Len(inbox'[q]) :
                      \/ i \in 1..Len(inbox[q])
                      \/ q \in subs \ {p} /\ i = Len(inbox[q]) + 1 /\ inbox'[q][i] = m
                 /\ q \in subs \ {p} =>
                      Len(inbox'[q]) = Len(inbox[q]) + 1 /\ inbox'[q][Len(inbox[q]) + 1] = m
        BY <3>1, ToldAt, ZenonT(60)
      <3>3. QED
        BY <3>2
    <2>2. CASE ~ accepted
      <3>1. inbox' = inbox /\ \A q \in Peer : Keeps(inbox[q], inbox'[q])
        BY <1>1, <1>2, <2>2, SameQueues
      <3>2. QED
        BY <1>1, <2>2, <3>1 DEF Types
    <2>3. QED
      BY <2>1, <2>2
  <1>9. \A q \in Peer : \A i \in 1..Len(inbox[q]) : inbox'[q][i] = inbox[q][i]
    BY <1>8 DEF Keeps
  <1>10. /\ \A w \in log' : w \in log \/ (accepted /\ w \in m.w)
         /\ log' \subseteq Write
    BY <1>1, <1>2, <1>7 DEF Types
  <1>11. Types'
    BY <1>1, <1>3, <1>4, <1>8, <1>10 DEF Types
  <1>12. ChainOK'
    BY <1>1, <1>2, <1>3, HandlingKeepsChains
  <1>13. VouchedChain' /\ OwnerOK'
    <2>1. /\ mode' = mode /\ known' = known /\ granted' = granted /\ refusals' = refusals
          /\ grantLog \subseteq grantLog'
      BY <1>3
    <2>2. ~ IsGrant(m, Owner)
      BY <1>2 DEF IsGrant
    <2>3. QED
      BY <1>1, <1>2, <2>1, <2>2, HandlingKeepsVouched DEF m
  <1>14. DiskOK'
    <2>1. \A w \in log' : w \in disk[w.by]
      BY <1>1, <1>5, <1>10 DEF DiskOK
    <2>2. QED
      BY <1>1, <1>3, <2>1 DEF DiskOK
  <1>15. InboxOK'
    <2>1. SUFFICES ASSUME NEW q \in Peer, NEW i \in 1..Len(inbox'[q])
                   PROVE  /\ inbox'[q][i].t = "grant" => inbox'[q][i].who \in grantLog
                          /\ inbox'[q][i].t = "member-left" => inbox'[q][i].who \notin members
      BY <1>3 DEF InboxOK
    <2>2. CASE i \in 1..Len(inbox[q])
      BY <1>1, <1>9, <2>2 DEF InboxOK
    <2>3. CASE inbox'[q][i] = m
      BY <1>2, <2>3
    <2>4. QED
      BY <1>8, <2>2, <2>3
  <1>16. KnownOK'
    BY <1>1, <1>3 DEF KnownOK
  <1>17. VouchedLog'
    <2>1. SUFFICES ASSUME refusals = 0, mode # "members", NEW w \in log', ~w.early
                   PROVE  Free(w.by) \/ w.by \in grantLog
      BY <1>3 DEF VouchedLog, Free
    <2>2. QED
      BY <1>1, <1>5, <1>6, <1>10, <2>1 DEF VouchedLog
  <1>18. \A q \in Peer : (Past(q)' => Past(q)) /\ (Answered(q)' => Answered(q))
    <2>1. \A q \in Peer : HasAck(inbox'[q]) => HasAck(inbox[q])
      BY <1>2, <1>8, <1>9 DEF HasAck
    <2>2. \A q \in Peer : Answered(q)' => Answered(q)
      BY <1>3, <2>1 DEF Answered, HasAck
    <2>3. QED
      BY <1>4, <2>2 DEF Past
  <1>19. SubsOK'
    BY <1>1, <1>3, <1>4, <1>18 DEF SubsOK
  <1>20. \A q \in Peer : GrantsAt(q)'
    <2>1. \A q \in Peer : Keeps(inbox[q], inbox'[q]) /\ known[q] \subseteq known'[q]
      BY <1>3, <1>8
    <2>2. QED
      BY <1>1, <1>3, <1>11, <1>18, <2>1, GrantsStay
  <1>21. ASSUME NEW q \in Peer PROVE WritesAt(q)'
    <2>1. SUFFICES ASSUME refusals = 0, Answered(q), NEW w \in log', ~w.early,
                          w.by \in members \cup {q}
                   PROVE  Reached(q, w)'
      BY <1>3, <1>18 DEF WritesAt
    <2>2. Keeps(inbox[q], inbox'[q]) /\ known'[q] = known[q] /\ doc'[q] = doc[q] /\ mode' = mode
      BY <1>3, <1>8
    <2>3. CASE w \in log
      <3>1. Reached(q, w)
        BY <1>1, <2>1, <2>3 DEF WritesAt
      <3>2. QED
        BY <1>1, <1>11, <2>2, <3>1, ReachedStays
    <2>4. CASE w \in m.w /\ accepted
      <3>1. CASE q = p
        BY <1>5, <2>2, <2>4, <3>1 DEF Reached
      <3>2. CASE q # p
        <4>1. q \in subs /\ Past(q)
          BY <1>1, <2>1 DEF SubsOK, Past
        <4>2. Len(inbox'[q]) = Len(inbox[q]) + 1 /\ inbox'[q][Len(inbox[q]) + 1] = m
          BY <1>8, <2>4, <3>2, <4>1
        <4>3. Len(inbox[q]) + 1 \in 1..Len(inbox'[q])
          <5>1. Len(inbox[q]) \in Nat
            BY <1>1, LenProperties DEF Types
          <5>2. QED
            BY <4>2, <5>1
        <4>4. mode = "members" \/ Free(w.by) \/ w.by \in grantLog
          BY <1>5, <1>6, <2>1, <2>4
        <4>5. w \in inbox'[q][Len(inbox[q]) + 1].w /\ known[q] \subseteq known'[q] /\ GrantsAt(q)
          BY <1>1, <2>2, <2>4, <4>2
        <4>6. QED
          BY <1>1, <1>11, <2>2, <4>1, <4>3, <4>4, <4>5, SentLaterIsAccepted
      <3>3. QED
        BY <3>1, <3>2
    <2>5. QED
      BY <1>10, <2>3, <2>4
  <1>22. QED
    BY <1>11, <1>12, <1>13, <1>14, <1>15, <1>16, <1>17, <1>19, <1>20, <1>21 DEF IInv

LEMMA HandleSubscribeKeeps ==
  ASSUME Parties, IInv, NEW p \in Peer, HandleSubscribe(p)
  PROVE  IInv'
  <1> DEFINE refused == mode = "members" /\ p \notin members
  <1>1. /\ Types /\ ChainOK /\ DiskOK /\ InboxOK /\ KnownOK /\ SubsOK
        /\ OwnerOK /\ VouchedChain /\ VouchedLog /\ \A q \in Peer : GrantsAt(q) /\ WritesAt(q)
    BY DEF IInv
  <1>2. /\ chain[p] # <<>> /\ Head(chain[p]).t = "subscribe"
        /\ refused => subs' = subs /\ Done(p)
        /\ ~ refused => subs' = subs \cup {p} /\ Goto(p, "grants")
    BY DEF HandleSubscribe, Handles
  <1>3. UNCHANGED <<mode, granted, grantLog, members, log, known, mates, doc, disk, inbox, asked,
                    refusals, count>>
    BY DEF HandleSubscribe, spaceVars
  <1>4. /\ chain' \in [Peer -> Seq(Msg)]
        /\ step' \in [Peer -> {"head", "append", "grants", "envelopes"}]
        /\ \A q \in Peer : step'[q] \in {step[q], "head"} \/ (q = p /\ step'[q] = "grants" /\ ~ refused)
        /\ ChainOK' /\ VouchedChain' /\ OwnerOK'
    <2>1. CASE refused
      <3>1. /\ chain' \in [Peer -> Seq(Msg)]
            /\ step' \in [Peer -> {"head", "append", "grants", "envelopes"}]
            /\ \A q \in Peer : step'[q] \in {step[q], "head"}
        BY <1>1, <1>2, <2>1, DoneAt
      <3>2. ChainOK'
        BY <1>1, <1>2, <1>3, <2>1, HandlingKeepsChains
      <3>3. /\ mode' = mode /\ known' = known /\ granted' = granted /\ refusals' = refusals
            /\ grantLog \subseteq grantLog'
        BY <1>3
      <3>4. ~ IsGrant(Head(chain[p]), Owner)
        BY <1>2 DEF IsGrant
      <3>5. VouchedChain' /\ OwnerOK'
        BY <1>1, <1>2, <2>1, <3>3, <3>4, HandlingKeepsVouched
      <3>6. QED
        BY <3>1, <3>2, <3>5
    <2>2. CASE ~ refused
      <3>1. chain' = chain /\ step' = [step EXCEPT ![p] = "grants"]
        BY <1>2, <2>2 DEF Goto
      <3>2. /\ step' \in [Peer -> {"head", "append", "grants", "envelopes"}]
            /\ \A q \in Peer : step'[q] = step[q] \/ (q = p /\ step'[q] = "grants")
        BY <1>1, <3>1 DEF Types
      <3>3. chain' \in [Peer -> Seq(Msg)]
        BY <1>1, <3>1 DEF Types
      <3>4. ChainOK' /\ OwnerOK'
        BY <1>1, <1>3, <3>1 DEF ChainOK, OwnerOK, Holds
      <3>5. VouchedChain'
        BY <1>1, <1>3, <3>1 DEF VouchedChain, Vouched, Free, Before
      <3>6. QED
        BY <2>2, <3>2, <3>3, <3>4, <3>5
    <2>3. QED
      BY <2>1, <2>2
  <1>5. subs \subseteq subs' /\ subs' \subseteq Peer /\ (mode = "members" => subs' \cup members = subs \cup members)
    BY <1>1, <1>2 DEF Types
  <1>6. ~ refused => p \in subs'
    BY <1>2
  <1>7. Types'
    BY <1>1, <1>3, <1>4, <1>5 DEF Types
  <1>8. DiskOK'
    BY <1>1, <1>3, <1>5 DEF DiskOK
  <1>9. InboxOK' /\ KnownOK' /\ VouchedLog'
    BY <1>1, <1>3 DEF InboxOK, KnownOK, VouchedLog, Free
  <1> HIDE DEF refused
  <1>10. \A q \in Peer : (Past(q)' => Past(q)) /\ (Answered(q)' => Answered(q))
    BY <1>3, <1>4 DEF Past, Answered, HasAck
  <1>11. SubsOK'
    <2>1. SUFFICES ASSUME NEW q \in Peer, step'[q] \in {"grants", "envelopes"} \/ Answered(q)'
                   PROVE  q \in subs'
      BY DEF SubsOK
    <2>2. Answered(q) \/ step[q] \in {"grants", "envelopes"} \/ (q = p /\ ~ refused)
      BY <1>4, <1>10, <2>1
    <2>3. QED
      BY <1>1, <1>5, <1>6, <2>2 DEF SubsOK
  <1>12. \A q \in Peer : GrantsAt(q)' /\ WritesAt(q)'
    <2>1. \A q \in Peer : /\ Keeps(inbox[q], inbox'[q])
                          /\ known[q] \subseteq known'[q] /\ doc[q] \subseteq doc'[q]
      BY <1>1, <1>3, SameQueues
    <2>2. \A q \in Peer : GrantsAt(q)'
      BY <1>1, <1>3, <1>7, <1>10, <2>1, GrantsStay
    <2>3. \A q \in Peer : WritesAt(q)'
      BY <1>1, <1>3, <1>7, <1>10, <2>1, WritesStay
    <2>4. QED
      BY <2>2, <2>3
  <1>13. QED
    BY <1>4, <1>7, <1>8, <1>9, <1>11, <1>12 DEF IInv

(* What a replay adds at the end of a queue. *)
LEMMA ConcatAt ==
  ASSUME NEW q \in Seq(Msg), NEW r \in Seq(Msg)
  PROVE  /\ q \o r \in Seq(Msg) /\ Len(q \o r) = Len(q) + Len(r) /\ Keeps(q, q \o r)
         /\ \A i \in 1..Len(q \o r) :
              i \in 1..Len(q) \/ \E j \in 1..Len(r) : i = Len(q) + j /\ (q \o r)[i] = r[j]
         /\ \A j \in 1..Len(r) : /\ Len(q) + j \in 1..Len(q \o r)
                                 /\ (q \o r)[Len(q) + j] = r[j]
  <1>1. Len(q) \in Nat /\ Len(r) \in Nat
    BY LenProperties
  <1>2. /\ q \o r \in Seq(Msg) /\ Len(q \o r) = Len(q) + Len(r)
        /\ \A i \in 1..(Len(q) + Len(r)) : (q \o r)[i] = IF i <= Len(q) THEN q[i] ELSE r[i - Len(q)]
    BY ConcatProperties
  <1>3. Keeps(q, q \o r)
    BY <1>1, <1>2 DEF Keeps
  <1>4. ASSUME NEW i \in 1..Len(q \o r), i \notin 1..Len(q)
        PROVE  \E j \in 1..Len(r) : i = Len(q) + j /\ (q \o r)[i] = r[j]
    <2>1. i \in 1..(Len(q) + Len(r)) /\ ~(i <= Len(q))
      BY <1>1, <1>2, <1>4
    <2>2. i - Len(q) \in 1..Len(r) /\ i = Len(q) + (i - Len(q))
      BY <1>1, <2>1
    <2>3. (q \o r)[i] = r[i - Len(q)]
      BY <1>2, <2>1
    <2>4. QED
      BY <2>2, <2>3
  <1>5. ASSUME NEW j \in 1..Len(r)
        PROVE  Len(q) + j \in 1..Len(q \o r) /\ (q \o r)[Len(q) + j] = r[j]
    <2>1. Len(q) + j \in 1..(Len(q) + Len(r)) /\ ~(Len(q) + j <= Len(q)) /\ (Len(q) + j) - Len(q) = j
      BY <1>1
    <2>2. QED
      BY <1>2, <2>1
  <1>6. QED
    BY <1>2, <1>3, <1>4, <1>5

LEMMA ReplayGrantsKeeps ==
  ASSUME Parties, IInv, NEW p \in Peer, ReplayGrants(p)
  PROVE  IInv'
  <1>1. /\ Types /\ ChainOK /\ DiskOK /\ InboxOK /\ KnownOK /\ SubsOK
        /\ OwnerOK /\ VouchedChain /\ VouchedLog /\ \A q \in Peer : GrantsAt(q) /\ WritesAt(q)
    BY DEF IInv
  <1>2. PICK r \in [1..Cardinality(grantLog) -> grantLog] :
          /\ \A x \in grantLog : \E i \in DOMAIN r : r[i] = x
          /\ inbox' = [inbox EXCEPT ![p] = @ \o [i \in DOMAIN r |-> Control("grant", r[i])]]
    BY DEF ReplayGrants, Replayed
  <1>3. step[p] = "grants" /\ step' = [step EXCEPT ![p] = "envelopes"] /\ chain' = chain
    BY DEF ReplayGrants, Handles, Goto
  <1>4. UNCHANGED <<mode, granted, grantLog, members, log, subs, known, mates, doc, disk, asked,
                    refusals, count>>
    BY DEF ReplayGrants, relayVars, spaceVars
  <1>5. PICK s : s = [i \in DOMAIN r |-> Control("grant", r[i])]
    OBVIOUS
  <1>6. /\ s \in Seq(Msg) /\ Len(s) = Cardinality(grantLog)
        /\ \A j \in 1..Len(s) : s[j] = Control("grant", r[j]) /\ r[j] \in grantLog
        /\ \A x \in grantLog : \E j \in 1..Len(s) : r[j] = x
    <2>1. Cardinality(grantLog) \in Nat
      <3>1. IsFiniteSet(grantLog)
        BY <1>1, FS_Subset DEF Types, Parties
      <3>2. QED
        BY <3>1, FS_CardinalityType
    <2>2. \A j \in 1..Cardinality(grantLog) : r[j] \in grantLog /\ Control("grant", r[j]) \in Msg
      BY <1>1, ControlTyped DEF Types
    <2>3. s \in [1..Cardinality(grantLog) -> Msg]
      BY <1>5, <2>2
    <2>4. s \in Seq(Msg) /\ Len(s) = Cardinality(grantLog)
      BY <2>1, <2>3
    <2>5. QED
      BY <1>2, <1>5, <2>2, <2>4
  <1>7. /\ inbox'[p] = inbox[p] \o s /\ inbox' \in [Peer -> Seq(Msg)]
        /\ \A q \in Peer : q # p => inbox'[q] = inbox[q]
    <2>1. inbox' = [inbox EXCEPT ![p] = inbox[p] \o s]
      BY <1>2, <1>5
    <2>2. inbox[p] \o s \in Seq(Msg)
      BY <1>1, <1>6, ConcatAt DEF Types
    <2>3. QED
      BY <1>1, <2>1, <2>2 DEF Types
  <1>8. /\ \A q \in Peer : Keeps(inbox[q], inbox'[q])
        /\ \A q \in Peer : \A i \in 1..Len(inbox'[q]) :
             \/ i \in 1..Len(inbox[q]) /\ inbox'[q][i] = inbox[q][i]
             \/ \E x \in grantLog : inbox'[q][i] = Control("grant", x)
        /\ \A x \in grantLog : \E i \in 1..Len(inbox'[p]) : inbox'[p][i] = Control("grant", x)
    <2>1. /\ Keeps(inbox[p], inbox[p] \o s)
          /\ \A i \in 1..Len(inbox[p] \o s) :
               i \in 1..Len(inbox[p]) \/ \E j \in 1..Len(s) : i = Len(inbox[p]) + j /\ (inbox[p] \o s)[i] = s[j]
          /\ \A j \in 1..Len(s) : /\ Len(inbox[p]) + j \in 1..Len(inbox[p] \o s)
                                  /\ (inbox[p] \o s)[Len(inbox[p]) + j] = s[j]
      <3>1. inbox[p] \in Seq(Msg)
        BY <1>1 DEF Types
      <3>2. QED
        BY <1>6, <3>1, ConcatAt
    <2>2. \A q \in Peer : Keeps(inbox[q], inbox[q])
      <3>1. \A q \in Peer : Len(inbox[q]) \in Nat
        BY <1>1, LenProperties DEF Types
      <3>2. QED
        BY <3>1 DEF Keeps
    <2>3. \A q \in Peer : Keeps(inbox[q], inbox'[q])
      BY <1>7, <2>1, <2>2
    <2>4. ASSUME NEW q \in Peer, NEW i \in 1..Len(inbox'[q])
          PROVE  \/ i \in 1..Len(inbox[q]) /\ inbox'[q][i] = inbox[q][i]
                 \/ \E x \in grantLog : inbox'[q][i] = Control("grant", x)
      <3>1. CASE q # p
        BY <1>7, <2>4, <3>1
      <3>2. CASE q = p /\ i \in 1..Len(inbox[q])
        BY <2>3, <3>2 DEF Keeps
      <3>3. CASE q = p /\ \E j \in 1..Len(s) : inbox'[q][i] = s[j]
        BY <1>6, <3>3
      <3>4. q = p => i \in 1..Len(inbox[p]) \/ \E j \in 1..Len(s) : inbox'[p][i] = s[j]
        <4>1. \A k \in 1..Len(inbox'[p]) :
                k \in 1..Len(inbox[p]) \/ \E j \in 1..Len(s) : inbox'[p][k] = s[j]
          BY <1>7, <2>1
        <4>2. QED
          BY <4>1
      <3>5. QED
        BY <3>1, <3>2, <3>3, <3>4
    <2>5. ASSUME NEW x \in grantLog
          PROVE  \E i \in 1..Len(inbox'[p]) : inbox'[p][i] = Control("grant", x)
      <3>1. PICK j \in 1..Len(s) : s[j] = Control("grant", x)
        BY <1>6
      <3>2. Len(inbox[p]) + j \in 1..Len(inbox'[p]) /\ inbox'[p][Len(inbox[p]) + j] = s[j]
        BY <1>7, <2>1
      <3>3. QED
        BY <3>1, <3>2
    <2>6. QED
      BY <2>3, <2>4, <2>5
  <1>9. /\ step' \in [Peer -> {"head", "append", "grants", "envelopes"}]
        /\ \A q \in Peer : step'[q] = step[q] \/ (q = p /\ step'[q] = "envelopes")
    BY <1>1, <1>3 DEF Types
  <1>10. \A x : Control("grant", x).t = "grant" /\ Control("grant", x).who = x
    BY DEF Control
  <1>11. Types'
    BY <1>1, <1>3, <1>4, <1>7, <1>9 DEF Types
  <1>12. ChainOK' /\ OwnerOK' /\ DiskOK' /\ KnownOK' /\ VouchedLog'
    BY <1>1, <1>3, <1>4 DEF ChainOK, OwnerOK, Holds, DiskOK, KnownOK, VouchedLog, Free
  <1>13. VouchedChain'
    BY <1>1, <1>3, <1>4 DEF VouchedChain, Vouched, Free, Before
  <1>14. InboxOK'
    <2>1. SUFFICES ASSUME NEW q \in Peer, NEW i \in 1..Len(inbox'[q])
                   PROVE  /\ inbox'[q][i].t = "grant" => inbox'[q][i].who \in grantLog
                          /\ inbox'[q][i].t = "member-left" => inbox'[q][i].who \notin members
      BY <1>4 DEF InboxOK
    <2>2. CASE i \in 1..Len(inbox[q]) /\ inbox'[q][i] = inbox[q][i]
      BY <1>1, <2>2 DEF InboxOK
    <2>3. CASE \E x \in grantLog : inbox'[q][i] = Control("grant", x)
      BY <1>10, <2>3
    <2>4. QED
      BY <1>8, <2>2, <2>3
  <1>15. \A q \in Peer : Answered(q)' => Answered(q)
    <2>1. \A q \in Peer : HasAck(inbox'[q]) => HasAck(inbox[q])
      <3>1. SUFFICES ASSUME NEW q \in Peer, NEW i \in 1..Len(inbox'[q]), inbox'[q][i].t = "sync-ack"
                     PROVE  HasAck(inbox[q])
        BY DEF HasAck
      <3>2. i \in 1..Len(inbox[q]) /\ inbox'[q][i] = inbox[q][i]
        BY <1>8, <1>10, <3>1
      <3>3. QED
        BY <3>1, <3>2 DEF HasAck
    <2>2. QED
      BY <1>4, <2>1 DEF Answered, HasAck
  <1>16. SubsOK'
    <2>1. SUFFICES ASSUME NEW q \in Peer, step'[q] \in {"grants", "envelopes"} \/ Answered(q)'
                   PROVE  q \in subs
      BY <1>4 DEF SubsOK
    <2>2. Answered(q) \/ step[q] \in {"grants", "envelopes"}
      BY <1>3, <1>9, <1>15, <2>1
    <2>3. QED
      BY <1>1, <2>2 DEF SubsOK
  <1>17. ASSUME NEW q \in Peer PROVE GrantsAt(q)'
    <2>1. CASE q = p
      <3>1. \A x \in grantLog' : Holds(inbox'[p], x)
        BY <1>4, <1>8, <1>10 DEF Holds, IsGrant
      <3>2. \A x \in grantLog' : x \in known'[p] \/ Holds(inbox'[p], x)
        BY <3>1
      <3>3. QED
        BY <2>1, <3>2 DEF GrantsAt, Holds
    <2>2. CASE q # p
      <3>1. Past(q)' => Past(q)
        BY <1>9, <1>15, <2>2 DEF Past
      <3>2. GrantsAt(q) /\ grantLog' = grantLog /\ Keeps(inbox[q], inbox'[q]) /\ known[q] \subseteq known'[q]
        BY <1>1, <1>4, <1>8
      <3>3. QED
        BY <1>1, <1>11, <3>1, <3>2, GrantsStay
    <2>3. QED
      BY <2>1, <2>2
  <1>18. \A q \in Peer : WritesAt(q)'
    <2>1. \A q \in Peer : /\ Keeps(inbox[q], inbox'[q])
                          /\ known[q] \subseteq known'[q] /\ doc[q] \subseteq doc'[q]
      BY <1>4, <1>8
    <2>2. QED
      BY <1>1, <1>4, <1>11, <1>15, <2>1, WritesStay
  <1>19. QED
    BY <1>11, <1>12, <1>13, <1>14, <1>16, <1>17, <1>18 DEF IInv

LEMMA ReplayEnvelopesKeeps ==
  ASSUME Parties, IInv, NEW p \in Peer, ReplayEnvelopes(p)
  PROVE  IInv'
  <1> DEFINE m   == [t |-> "write", who |-> NoOne, w |-> log]
             ack == Control("sync-ack", NoOne)
  <1>1. /\ Types /\ ChainOK /\ DiskOK /\ InboxOK /\ KnownOK /\ SubsOK
        /\ OwnerOK /\ VouchedChain /\ VouchedLog /\ \A q \in Peer : GrantsAt(q) /\ WritesAt(q)
    BY DEF IInv
  <1>2. /\ chain[p] # <<>> /\ Head(chain[p]).t = "subscribe" /\ step[p] = "envelopes" /\ Done(p)
        /\ inbox' = [inbox EXCEPT ![p] = @ \o <<m, ack>>]
    BY DEF ReplayEnvelopes, Handles
  <1>3. UNCHANGED <<mode, granted, grantLog, members, log, subs, known, mates, doc, disk, asked,
                    refusals, count>>
    BY DEF ReplayEnvelopes, relayVars, spaceVars
  <1>4. /\ m \in Msg /\ m.t = "write" /\ m.w = log
        /\ ack \in Msg /\ ack.t = "sync-ack"
    BY <1>1, ControlTyped DEF Types, Control
  <1> HIDE DEF m, ack
  <1>5. /\ <<m, ack>> \in Seq(Msg) /\ Len(<<m, ack>>) = 2
        /\ <<m, ack>>[1] = m /\ <<m, ack>>[2] = ack
    BY <1>4
  <1>6. PICK s \in Seq(Msg) : s = <<m, ack>> /\ Len(s) = 2 /\ s[1] = m /\ s[2] = ack
    BY <1>5
  <1>7. /\ inbox'[p] = inbox[p] \o s /\ inbox' \in [Peer -> Seq(Msg)]
        /\ \A q \in Peer : q # p => inbox'[q] = inbox[q]
    <2>1. inbox' = [inbox EXCEPT ![p] = inbox[p] \o s]
      BY <1>2, <1>6
    <2>2. inbox[p] \o s \in Seq(Msg)
      BY <1>1, <1>6, ConcatAt DEF Types
    <2>3. QED
      BY <1>1, <2>1, <2>2 DEF Types
  <1>8. /\ \A q \in Peer : Keeps(inbox[q], inbox'[q])
        /\ \A q \in Peer : \A i \in 1..Len(inbox'[q]) :
             \/ i \in 1..Len(inbox[q]) /\ inbox'[q][i] = inbox[q][i]
             \/ q = p /\ inbox'[q][i].t \in {"write", "sync-ack"}
        /\ Len(inbox[p]) + 1 \in 1..Len(inbox'[p]) /\ inbox'[p][Len(inbox[p]) + 1] = m
    <2>1. /\ Keeps(inbox[p], inbox[p] \o s)
          /\ \A i \in 1..Len(inbox[p] \o s) :
               i \in 1..Len(inbox[p]) \/ \E j \in 1..Len(s) : i = Len(inbox[p]) + j /\ (inbox[p] \o s)[i] = s[j]
          /\ \A j \in 1..Len(s) : /\ Len(inbox[p]) + j \in 1..Len(inbox[p] \o s)
                                  /\ (inbox[p] \o s)[Len(inbox[p]) + j] = s[j]
      <3>1. inbox[p] \in Seq(Msg)
        BY <1>1 DEF Types
      <3>2. QED
        BY <1>6, <3>1, ConcatAt
    <2>2. \A q \in Peer : Keeps(inbox[q], inbox[q])
      <3>1. \A q \in Peer : Len(inbox[q]) \in Nat
        BY <1>1, LenProperties DEF Types
      <3>2. QED
        BY <3>1 DEF Keeps
    <2>3. \A q \in Peer : Keeps(inbox[q], inbox'[q])
      BY <1>7, <2>1, <2>2
    <2>4. \A j \in 1..Len(s) : s[j].t \in {"write", "sync-ack"}
      BY <1>4, <1>6
    <2>5. \A i \in 1..Len(inbox'[p]) :
            i \in 1..Len(inbox[p]) \/ inbox'[p][i].t \in {"write", "sync-ack"}
      BY <1>7, <2>1, <2>4, ZenonT(60)
    <2>6. ASSUME NEW q \in Peer, NEW i \in 1..Len(inbox'[q])
          PROVE  \/ i \in 1..Len(inbox[q]) /\ inbox'[q][i] = inbox[q][i]
                 \/ q = p /\ inbox'[q][i].t \in {"write", "sync-ack"}
      <3>1. CASE q # p
        BY <1>7, <2>6, <3>1
      <3>2. CASE q = p
        BY <2>3, <2>5, <2>6, <3>2 DEF Keeps
      <3>3. QED
        BY <3>1, <3>2
    <2>7. 1 \in 1..Len(s)
      BY <1>6
    <2>8. Len(inbox[p]) + 1 \in 1..Len(inbox'[p]) /\ inbox'[p][Len(inbox[p]) + 1] = m
      BY <1>6, <1>7, <2>1, <2>7
    <2>9. QED
      BY <2>3, <2>6, <2>8
  <1>9. /\ chain' \in [Peer -> Seq(Msg)]
        /\ step' \in [Peer -> {"head", "append", "grants", "envelopes"}]
        /\ \A q \in Peer : step'[q] \in {step[q], "head"}
    BY <1>1, <1>2, DoneAt
  <1>10. Types'
    BY <1>1, <1>3, <1>7, <1>9 DEF Types
  <1>11. ChainOK'
    BY <1>1, <1>2, <1>3, HandlingKeepsChains
  <1>12. VouchedChain' /\ OwnerOK'
    <2>1. /\ mode' = mode /\ known' = known /\ granted' = granted /\ refusals' = refusals
          /\ grantLog \subseteq grantLog'
      BY <1>3
    <2>2. ~ IsGrant(Head(chain[p]), Owner)
      BY <1>2 DEF IsGrant
    <2>3. QED
      BY <1>1, <1>2, <2>1, <2>2, HandlingKeepsVouched
  <1>13. DiskOK' /\ KnownOK' /\ VouchedLog'
    BY <1>1, <1>3 DEF DiskOK, KnownOK, VouchedLog, Free
  <1>14. InboxOK'
    <2>1. SUFFICES ASSUME NEW q \in Peer, NEW i \in 1..Len(inbox'[q])
                   PROVE  /\ inbox'[q][i].t = "grant" => inbox'[q][i].who \in grantLog
                          /\ inbox'[q][i].t = "member-left" => inbox'[q][i].who \notin members
      BY <1>3 DEF InboxOK
    <2>2. CASE i \in 1..Len(inbox[q]) /\ inbox'[q][i] = inbox[q][i]
      BY <1>1, <2>2 DEF InboxOK
    <2>3. CASE inbox'[q][i].t \in {"write", "sync-ack"}
      BY <2>3
    <2>4. QED
      BY <1>8, <2>2, <2>3
  <1>15. \A q \in Peer : q # p => (Past(q)' => Past(q)) /\ (Answered(q)' => Answered(q))
    <2>1. \A q \in Peer : q # p /\ Answered(q)' => Answered(q)
      BY <1>3, <1>7 DEF Answered, HasAck
    <2>2. QED
      BY <1>9, <2>1 DEF Past
  <1>16. Past(p) /\ p \in subs
    BY <1>1, <1>2 DEF Past, SubsOK
  <1>17. SubsOK'
    <2>1. SUFFICES ASSUME NEW q \in Peer, step'[q] \in {"grants", "envelopes"} \/ Answered(q)'
                   PROVE  q \in subs
      BY <1>3 DEF SubsOK
    <2>2. q = p \/ Answered(q) \/ step[q] \in {"grants", "envelopes"}
      BY <1>9, <1>15, <2>1
    <2>3. QED
      BY <1>1, <1>16, <2>2 DEF SubsOK
  <1>18. \A q \in Peer : GrantsAt(q)'
    <2>1. \A q \in Peer : Past(q)' => Past(q)
      BY <1>15, <1>16
    <2>2. \A q \in Peer : Keeps(inbox[q], inbox'[q]) /\ known[q] \subseteq known'[q]
      BY <1>3, <1>8
    <2>3. QED
      BY <1>1, <1>3, <1>10, <2>1, <2>2, GrantsStay
  <1>19. ASSUME NEW q \in Peer PROVE WritesAt(q)'
    <2>1. Keeps(inbox[q], inbox'[q]) /\ known[q] \subseteq known'[q] /\ doc[q] \subseteq doc'[q]
      BY <1>3, <1>8
    <2>2. CASE q # p
      <3>1. Answered(q)' => Answered(q)
        BY <1>15, <2>2
      <3>2. QED
        BY <1>1, <1>3, <1>10, <2>1, <3>1, WritesStay
    <2>3. CASE q = p
      <3>1. SUFFICES ASSUME refusals = 0, NEW w \in log, ~w.early
                     PROVE  Reached(p, w)'
        BY <1>3, <2>3 DEF WritesAt
      <3>2. mode = "members" \/ Free(w.by) \/ w.by \in grantLog
        BY <1>1, <3>1 DEF VouchedLog
      <3>3. /\ Len(inbox[p]) + 1 \in 1..Len(inbox'[p]) /\ w \in inbox'[p][Len(inbox[p]) + 1].w
            /\ mode' = mode /\ GrantsAt(p)
        BY <1>1, <1>3, <1>4, <1>8
      <3>4. QED
        BY <1>1, <1>10, <1>16, <2>1, <2>3, <3>2, <3>3, SentLaterIsAccepted
    <2>4. QED
      BY <2>2, <2>3
  <1>20. QED
    BY <1>10, <1>11, <1>12, <1>13, <1>14, <1>17, <1>18, <1>19 DEF IInv

LEMMA RemoveMemberKeeps ==
  ASSUME Parties, IInv, NEW p \in Peer, RemoveMember(p)
  PROVE  IInv'
  <1> DEFINE m == Control("member-left", p)
  <1>1. /\ Types /\ ChainOK /\ DiskOK /\ InboxOK /\ KnownOK /\ SubsOK
        /\ OwnerOK /\ VouchedChain /\ VouchedLog /\ \A q \in Peer : GrantsAt(q) /\ WritesAt(q)
    BY DEF IInv
  <1>2. mode = "members" /\ members' = members \ {p} /\ inbox' = Told(Peer, m)
    BY DEF RemoveMember
  <1>3. UNCHANGED <<mode, granted, grantLog, log, subs, known, mates, doc, disk, chain, step, asked, refusals>>
    BY DEF RemoveMember, spaceVars
  <1>4. m \in Msg /\ m.t = "member-left" /\ m.who = p
    BY ControlTyped DEF Control
  <1> HIDE DEF m
  <1>5. /\ inbox' \in [Peer -> Seq(Msg)]
        /\ \A q \in Peer :
             /\ Keeps(inbox[q], inbox'[q])
             /\ \A i \in 1..Len(inbox'[q]) : i \in 1..Len(inbox[q]) \/ inbox'[q][i] = m
    <2>1. /\ inbox' \in [Peer -> Seq(Msg)]
          /\ \A q \in Peer :
               /\ Keeps(inbox[q], inbox'[q])
               /\ \A i \in 1..Len(inbox'[q]) :
                    i \in 1..Len(inbox[q]) \/ (q \in Peer /\ i = Len(inbox[q]) + 1 /\ inbox'[q][i] = m)
               /\ q \in Peer => Len(inbox'[q]) = Len(inbox[q]) + 1 /\ inbox'[q][Len(inbox[q]) + 1] = m
      BY <1>1, <1>2, <1>4, ToldAt
    <2>2. QED
      BY <2>1
  <1>6. \A q \in Peer : \A i \in 1..Len(inbox'[q]) :
          (i \in 1..Len(inbox[q]) /\ inbox'[q][i] = inbox[q][i]) \/ inbox'[q][i] = m
    BY <1>5 DEF Keeps
  <1>7. Types'
    <2>1. count' \in [writes: Nat, grants: Nat, leaves: Nat, reloads: Nat, restarts: Nat]
      BY <1>1, CountedTyped DEF RemoveMember
    <2>2. QED
      BY <1>1, <1>2, <1>3, <1>5, <2>1 DEF Types
  <1>8. ChainOK' /\ OwnerOK' /\ VouchedChain' /\ VouchedLog'
    BY <1>1, <1>2, <1>3 DEF ChainOK, OwnerOK, Holds, VouchedChain, VouchedLog
  <1>9. DiskOK' /\ KnownOK'
    BY <1>1, <1>2, <1>3 DEF DiskOK, KnownOK
  <1>10. InboxOK'
    <2>1. SUFFICES ASSUME NEW q \in Peer, NEW i \in 1..Len(inbox'[q])
                   PROVE  /\ inbox'[q][i].t = "grant" => inbox'[q][i].who \in grantLog
                          /\ inbox'[q][i].t = "member-left" => inbox'[q][i].who \notin members'
      BY <1>3 DEF InboxOK
    <2>2. CASE i \in 1..Len(inbox[q]) /\ inbox'[q][i] = inbox[q][i]
      BY <1>1, <1>2, <2>2 DEF InboxOK
    <2>3. CASE inbox'[q][i] = m
      BY <1>2, <1>4, <2>3
    <2>4. QED
      BY <1>6, <2>2, <2>3
  <1>11. \A q \in Peer : (Past(q)' => Past(q)) /\ (Answered(q)' => Answered(q))
    <2>1. \A q \in Peer : HasAck(inbox'[q]) => HasAck(inbox[q])
      BY <1>4, <1>6 DEF HasAck
    <2>2. \A q \in Peer : Answered(q)' => Answered(q)
      BY <1>3, <2>1 DEF Answered, HasAck
    <2>3. QED
      BY <1>3, <2>2 DEF Past
  <1>12. SubsOK'
    BY <1>1, <1>3, <1>11 DEF SubsOK
  <1>13. \A q \in Peer : GrantsAt(q)' /\ WritesAt(q)'
    <2>1. \A q \in Peer : /\ Keeps(inbox[q], inbox'[q])
                          /\ known[q] \subseteq known'[q] /\ doc[q] \subseteq doc'[q]
      BY <1>3, <1>5
    <2>2. \A q \in Peer : GrantsAt(q)'
      BY <1>1, <1>3, <1>7, <1>11, <2>1, GrantsStay
    <2>3. members' \subseteq members
      BY <1>2
    <2>4. \A q \in Peer : WritesAt(q)'
      BY <1>1, <1>3, <1>7, <1>11, <2>1, <2>3, WritesStay
    <2>5. QED
      BY <2>2, <2>4
  <1>14. QED
    BY <1>7, <1>8, <1>9, <1>10, <1>12, <1>13 DEF IInv

LEMMA RestartKeeps ==
  ASSUME Parties, IInv, Restart
  PROVE  IInv'
  <1>1. Types /\ DiskOK /\ KnownOK /\ VouchedLog
    BY DEF IInv
  <1>2. /\ granted' = {} /\ subs' = {}
        /\ chain' = [p \in Peer |-> <<>>] /\ step' = [p \in Peer |-> "head"]
        /\ inbox' = [p \in Peer |-> <<>>] /\ asked' = [p \in Peer |-> "no"]
    BY DEF Restart
  <1>3. UNCHANGED <<mode, grantLog, members, log, known, mates, doc, disk, refusals>>
    BY DEF Restart, spaceVars
  <1>4. /\ chain' \in [Peer -> Seq(Msg)] /\ inbox' \in [Peer -> Seq(Msg)]
        /\ \A p \in Peer : chain'[p] = <<>> /\ inbox'[p] = <<>>
    BY <1>2, EmptySeq
  <1>5. /\ step' \in [Peer -> {"head", "append", "grants", "envelopes"}]
        /\ asked' \in [Peer -> {"no", "yes", "answered"}]
        /\ \A p \in Peer : step'[p] = "head" /\ asked'[p] = "no"
    BY <1>2
  <1>6. Types'
    <2>1. count' \in [writes: Nat, grants: Nat, leaves: Nat, reloads: Nat, restarts: Nat]
      BY <1>1, CountedTyped DEF Restart
    <2>2. QED
      BY <1>1, <1>2, <1>3, <1>4, <1>5, <2>1 DEF Types
  <1>7. \A p \in Peer : Len(chain'[p]) = 0 /\ Len(inbox'[p]) = 0
    BY <1>4, EmptySeq
  <1>8. \A p \in Peer : 1..Len(chain'[p]) = {} /\ 1..Len(inbox'[p]) = {}
    BY <1>7
  <1>9. ChainOK' /\ InboxOK' /\ VouchedChain'
    BY <1>8 DEF ChainOK, InboxOK, VouchedChain
  <1>10. DiskOK' /\ KnownOK' /\ OwnerOK' /\ VouchedLog'
    BY <1>1, <1>2, <1>3 DEF DiskOK, KnownOK, OwnerOK, VouchedLog, Free
  <1>11. \A p \in Peer : ~ Past(p)'
    BY <1>5, <1>8 DEF Past, Answered, HasAck
  <1>12. \A p \in Peer : GrantsAt(p)' /\ WritesAt(p)' /\ ~ Answered(p)'
    BY <1>11, NothingOwed
  <1>13. SubsOK'
    BY <1>5, <1>12 DEF SubsOK
  <1>14. QED
    BY <1>6, <1>9, <1>10, <1>12, <1>13 DEF IInv

LEMMA ReloadKeeps ==
  ASSUME Parties, IInv, NEW p \in Peer, Reload(p)
  PROVE  IInv'
  <1>1. /\ Types /\ ChainOK /\ DiskOK /\ InboxOK /\ KnownOK /\ SubsOK
        /\ OwnerOK /\ VouchedChain /\ VouchedLog /\ \A q \in Peer : GrantsAt(q) /\ WritesAt(q)
    BY DEF IInv
  <1>2. /\ known' = [known EXCEPT ![p] = {}] /\ mates' = [mates EXCEPT ![p] = members]
        /\ doc' = [doc EXCEPT ![p] = {w \in disk[p] : Authorized(w.by, {}, members)}]
        /\ chain' = [chain EXCEPT ![p] = <<>>] /\ step' = [step EXCEPT ![p] = "head"]
        /\ inbox' = [inbox EXCEPT ![p] = <<>>] /\ asked' = [asked EXCEPT ![p] = "no"]
        /\ subs' = subs \ {p}
    BY DEF Reload
  <1>3. UNCHANGED <<mode, granted, grantLog, members, log, disk, refusals>>
    BY DEF Reload
  <1>4. /\ chain' \in [Peer -> Seq(Msg)] /\ inbox' \in [Peer -> Seq(Msg)]
        /\ step' \in [Peer -> {"head", "append", "grants", "envelopes"}]
        /\ asked' \in [Peer -> {"no", "yes", "answered"}]
    BY <1>1, <1>2, EmptySeq DEF Types
  <1>5. /\ known' \in [Peer -> SUBSET Peer] /\ mates' \in [Peer -> SUBSET Peer]
        /\ doc' \in [Peer -> SUBSET Write]
    BY <1>1, <1>2 DEF Types
  <1>6. /\ chain'[p] = <<>> /\ inbox'[p] = <<>> /\ step'[p] = "head" /\ asked'[p] = "no"
        /\ known'[p] = {} /\ mates'[p] = members
        /\ doc'[p] = {w \in disk[p] : Authorized(w.by, {}, members)}
    BY <1>1, <1>2 DEF Types
  <1>7. \A q \in Peer : q # p =>
          /\ chain'[q] = chain[q] /\ inbox'[q] = inbox[q] /\ step'[q] = step[q] /\ asked'[q] = asked[q]
          /\ known'[q] = known[q] /\ mates'[q] = mates[q] /\ doc'[q] = doc[q]
    BY <1>1, <1>2 DEF Types
  <1>8. Types'
    <2>1. count' \in [writes: Nat, grants: Nat, leaves: Nat, reloads: Nat, restarts: Nat]
      BY <1>1, CountedTyped DEF Reload
    <2>2. subs' \subseteq Peer
      BY <1>1, <1>2 DEF Types
    <2>3. QED
      BY <1>1, <1>3, <1>4, <1>5, <2>1, <2>2 DEF Types
  <1>9. 1..Len(chain'[p]) = {} /\ 1..Len(inbox'[p]) = {}
    <2>1. Len(chain'[p]) = 0 /\ Len(inbox'[p]) = 0
      BY <1>6, EmptySeq
    <2>2. QED
      BY <2>1
  <1>10. ChainOK'
    <2>1. SUFFICES ASSUME NEW q \in Peer, NEW i \in 1..Len(chain'[q])
                   PROVE  LET n == chain'[q][i]
                          IN  /\ n.t \in {"grant", "write", "subscribe"}
                              /\ n.t = "grant" => q = Owner /\ n.who \in known'[Owner] /\ n.w = {}
                              /\ \A w \in n.w : w.by = q /\ w \in doc'[q] /\ w \in disk'[q]
      BY DEF ChainOK
    <2>2. q # p
      BY <1>9, <2>1
    <2>3. chain'[q] = chain[q] /\ known'[q] = known[q] /\ doc'[q] = doc[q] /\ disk'[q] = disk[q]
      BY <1>3, <1>7, <2>2
    <2>4. QED
      BY <1>1, <2>1, <2>3 DEF ChainOK
  <1>11. DiskOK'
    <2>1. \A w \in log' : w \in disk'[w.by]
      BY <1>1, <1>3 DEF DiskOK
    <2>2. SUFFICES ASSUME mode = "members", NEW q \in subs' \cup members, NEW w \in disk[q], w.by = q
                   PROVE  w \in doc'[q]
      BY <1>3, <2>1 DEF DiskOK
    <2>3. CASE q = p
      BY <1>2, <1>6, <2>2, <2>3 DEF Authorized
    <2>4. CASE q # p
      <3>1. q \in subs \cup members /\ q \in Peer
        BY <1>1, <1>2, <2>2 DEF Types
      <3>2. w \in doc[q]
        BY <1>1, <2>2, <3>1 DEF DiskOK
      <3>3. QED
        BY <1>7, <2>4, <3>1, <3>2
    <2>5. QED
      BY <2>3, <2>4
  <1>12. InboxOK'
    <2>1. SUFFICES ASSUME NEW q \in Peer, NEW i \in 1..Len(inbox'[q])
                   PROVE  /\ inbox'[q][i].t = "grant" => inbox'[q][i].who \in grantLog
                          /\ inbox'[q][i].t = "member-left" => inbox'[q][i].who \notin members
      BY <1>3 DEF InboxOK
    <2>2. inbox'[q] = inbox[q]
      BY <1>7, <1>9, <2>1
    <2>3. QED
      BY <1>1, <2>1, <2>2 DEF InboxOK
  <1>13. KnownOK'
    <2>1. ASSUME NEW q \in Peer
          PROVE  (q # Owner => known'[q] \subseteq grantLog) /\ members \subseteq mates'[q]
      BY <1>1, <1>6, <1>7 DEF KnownOK
    <2>2. QED
      BY <1>1, <1>3, <2>1 DEF KnownOK
  <1>14. VouchedLog'
    BY <1>1, <1>3 DEF VouchedLog, Free
  <1>15. OwnerOK'
    <2>1. CASE p = Owner
      BY <1>6, <2>1 DEF OwnerOK
    <2>2. CASE p # Owner
      <3>1. known'[Owner] = known[Owner] /\ chain'[Owner] = chain[Owner]
        BY <1>7, <2>2 DEF Parties
      <3>2. QED
        BY <1>1, <1>3, <3>1 DEF OwnerOK, Holds
    <2>3. QED
      BY <2>1, <2>2
  <1>16. VouchedChain'
    <2>1. SUFFICES ASSUME refusals = 0, mode # "members", NEW q \in Peer, NEW i \in 1..Len(chain'[q]),
                          NEW w \in chain'[q][i].w, ~w.early
                   PROVE  Vouched(q, i)'
      BY <1>3 DEF VouchedChain
    <2>2. q # p /\ chain'[q] = chain[q]
      BY <1>7, <1>9, <2>1
    <2>3. Vouched(q, i)
      BY <1>1, <2>1, <2>2 DEF VouchedChain
    <2>4. \/ Free(q) \/ q \in grantLog
          \/ q = Owner /\ (Owner \notin granted \/ Before(chain'[Owner], i, Owner))
      BY <2>2, <2>3 DEF Vouched
    <2>5. QED
      BY <1>3, <2>4 DEF Vouched, Free, Before
  <1>17. ~ Past(p)'
    BY <1>6, <1>9 DEF Past, Answered, HasAck
  <1>18. GrantsAt(p)' /\ WritesAt(p)' /\ ~ Answered(p)'
    BY <1>17, NothingOwed
  <1>19. \A q \in Peer : q # p => (Past(q)' => Past(q)) /\ (Answered(q)' => Answered(q))
    <2>1. \A q \in Peer : q # p /\ Answered(q)' => Answered(q)
      BY <1>7 DEF Answered, HasAck
    <2>2. QED
      BY <1>7, <2>1 DEF Past
  <1>20. SubsOK'
    <2>1. SUFFICES ASSUME NEW q \in Peer, step'[q] \in {"grants", "envelopes"} \/ Answered(q)'
                   PROVE  q \in subs'
      BY DEF SubsOK
    <2>2. q # p
      BY <1>6, <1>18, <2>1
    <2>3. Answered(q) \/ step[q] \in {"grants", "envelopes"}
      BY <1>7, <1>19, <2>1, <2>2
    <2>4. q \in subs
      BY <1>1, <2>3 DEF SubsOK
    <2>5. QED
      BY <1>2, <2>2, <2>4
  <1>21. ASSUME NEW q \in Peer, q # p PROVE GrantsAt(q)' /\ WritesAt(q)'
    <2>1. Keeps(inbox[q], inbox'[q]) /\ known[q] \subseteq known'[q] /\ doc[q] \subseteq doc'[q]
      <3>1. Len(inbox[q]) \in Nat
        BY <1>1, LenProperties DEF Types
      <3>2. QED
        BY <1>7, <1>21, <3>1 DEF Keeps
    <2>2. (Past(q)' => Past(q)) /\ (Answered(q)' => Answered(q)) /\ GrantsAt(q) /\ WritesAt(q)
      BY <1>1, <1>19, <1>21
    <2>3. GrantsAt(q)'
      BY <1>1, <1>3, <1>8, <2>1, <2>2, GrantsStay
    <2>4. WritesAt(q)'
      BY <1>1, <1>3, <1>8, <2>1, <2>2, WritesStay
    <2>5. QED
      BY <2>3, <2>4
  <1>22. \A q \in Peer : GrantsAt(q)' /\ WritesAt(q)'
    BY <1>18, <1>21
  <1>23. QED
    BY <1>8, <1>10, <1>11, <1>12, <1>13, <1>14, <1>15, <1>16, <1>20, <1>22 DEF IInv

(* What is received goes from the queue into the Space. *)
LEMMA ReceivedReaches ==
  ASSUME Parties, IInv, Types', NEW p \in Peer, NEW m, inbox[p] # <<>>, m = Head(inbox[p]),
         inbox'[p] = Tail(inbox[p]), mode' = mode, known[p] \subseteq known'[p],
         doc[p] \subseteq doc'[p], m.t = "grant" => m.who \in known'[p],
         \A w \in m.w : Authorized(w.by, known[p], mates[p]) => w \in doc'[p]
  PROVE  /\ \A x \in grantLog : x \in known[p] \/ Holds(inbox[p], x) => x \in known'[p] \/ Holds(inbox'[p], x)
         /\ \A w \in log :
              Answered(p) /\ w.by \in members \cup {p} /\ Reached(p, w) => Reached(p, w)'
  <1>1. Types /\ DiskOK /\ KnownOK /\ SubsOK
    BY DEF IInv
  <1>2. /\ m = inbox[p][1] /\ Len(inbox[p]) \in Nat /\ Len(inbox'[p]) = Len(inbox[p]) - 1
        /\ \A i \in 1..Len(inbox'[p]) : inbox'[p][i] = inbox[p][i + 1]
    <2>1. inbox[p] \in Seq(Msg)
      BY <1>1 DEF Types
    <2>2. QED
      BY <2>1, TailAt
  <1>3. \A i \in 1..Len(inbox[p]) : i # 1 => i - 1 \in 1..Len(inbox'[p]) /\ inbox'[p][i - 1] = inbox[p][i]
    <2>1. \A i \in 1..Len(inbox[p]) : i # 1 => i - 1 \in 1..Len(inbox'[p]) /\ (i - 1) + 1 = i
      BY <1>2
    <2>2. QED
      BY <1>2, <2>1
  <1>4. \A x : IsGrant(m, x) => x \in known'[p]
    BY DEF IsGrant
  <1>5. ASSUME NEW x, x \in known[p] \/ Holds(inbox[p], x)
        PROVE  x \in known'[p] \/ Holds(inbox'[p], x)
    <2>1. CASE Holds(inbox[p], x)
      <3>1. PICK i \in 1..Len(inbox[p]) : IsGrant(inbox[p][i], x)
        BY <2>1 DEF Holds
      <3>2. CASE i = 1
        BY <1>2, <1>4, <3>1, <3>2
      <3>3. CASE i # 1
        BY <1>3, <3>1, <3>3 DEF Holds
      <3>4. QED
        BY <3>2, <3>3
    <2>2. QED
      BY <1>5, <2>1
  <1>6. ASSUME Answered(p), NEW w \in log, w.by \in members \cup {p}, Reached(p, w)
        PROVE  Reached(p, w)'
    <2>1. CASE w \in doc[p]
      <3>1. w \in doc'[p]
        BY <2>1
      <3>2. QED
        BY <3>1 DEF Reached
    <2>2. CASE \E i \in 1..Len(inbox[p]) : w \in inbox[p][i].w /\ Accepts(p, w.by, i)
      <3>1. PICK i \in 1..Len(inbox[p]) : w \in inbox[p][i].w /\ Accepts(p, w.by, i)
        BY <2>2
      <3>2. CASE i = 1
        <4>1. ~ Before(inbox[p], 1, w.by)
          BY DEF Before
        <4>2. mode = "members" \/ Free(w.by) \/ w.by \in known[p]
          BY <3>1, <3>2, <4>1 DEF Accepts
        <4>3. CASE mode = "members" /\ w.by = p
          <5>1. p \in subs /\ w \in disk[p]
            BY <1>1, <1>6, <4>3 DEF SubsOK, DiskOK
          <5>2. w \in doc[p]
            BY <1>1, <4>3, <5>1 DEF DiskOK
          <5>3. QED
            BY <2>1, <5>2
        <4>4. CASE mode = "members" /\ w.by \in members
          <5>1. Authorized(w.by, known[p], mates[p])
            BY <1>1, <4>4 DEF KnownOK, Authorized
          <5>2. w \in doc'[p]
            BY <1>2, <3>1, <3>2, <5>1
          <5>3. QED
            BY <5>2 DEF Reached
        <4>5. CASE mode # "members"
          <5>1. mode = "named" \/ mode = "content"
            BY <1>1, <4>5 DEF Types, Parties
          <5>2. Authorized(w.by, known[p], mates[p])
            BY <4>2, <5>1 DEF Free, Authorized
          <5>3. w \in doc'[p]
            BY <1>2, <3>1, <3>2, <5>2
          <5>4. QED
            BY <5>3 DEF Reached
        <4>6. QED
          BY <1>6, <4>3, <4>4, <4>5
      <3>3. CASE i # 1
        <4>1. i - 1 \in 1..Len(inbox'[p]) /\ w \in inbox'[p][i - 1].w
          BY <1>3, <3>1, <3>3
        <4>2. Before(inbox[p], i, w.by) => w.by \in known'[p] \/ Before(inbox'[p], i - 1, w.by)
          <5>1. SUFFICES ASSUME NEW j \in 1..(i - 1), IsGrant(inbox[p][j], w.by), w.by \notin known'[p]
                         PROVE  Before(inbox'[p], i - 1, w.by)
            BY DEF Before
          <5>2. j # 1
            BY <1>2, <1>4, <5>1
          <5>3. j \in 1..Len(inbox[p]) /\ j - 1 \in 1..((i - 1) - 1)
            BY <1>2, <3>1, <5>2
          <5>4. inbox'[p][j - 1] = inbox[p][j]
            BY <1>3, <5>2, <5>3
          <5>5. QED
            BY <5>1, <5>3, <5>4 DEF Before
        <4>3. \/ mode' = "members" \/ Free(w.by)' \/ w.by \in known'[p]
              \/ Before(inbox'[p], i - 1, w.by)
          BY <3>1, <4>2 DEF Accepts, Free
        <4>4. \E k \in 1..Len(inbox'[p]) :
                /\ w \in inbox'[p][k].w
                /\ mode' = "members" \/ Free(w.by)' \/ w.by \in known'[p] \/ Before(inbox'[p], k, w.by)
          BY <4>1, <4>3
        <4>5. QED
          BY <4>4 DEF Reached, Accepts, Free, Before
      <3>4. QED
        BY <3>2, <3>3
    <2>3. QED
      BY <1>6, <2>1, <2>2 DEF Reached
  <1>7. QED
    BY <1>5, <1>6

LEMMA ReceiveKeeps ==
  ASSUME Parties, IInv, NEW p \in Peer, Receive(p)
  PROVE  IInv'
  <1> DEFINE got == {w \in Head(inbox[p]).w : Authorized(w.by, known[p], mates[p])}
  <1>1. /\ Types /\ ChainOK /\ DiskOK /\ InboxOK /\ KnownOK /\ SubsOK
        /\ OwnerOK /\ VouchedChain /\ VouchedLog /\ \A q \in Peer : GrantsAt(q) /\ WritesAt(q)
    BY DEF IInv
  <1>2. PICK m : m = Head(inbox[p])
    OBVIOUS
  <1>3. /\ inbox[p] # <<>> /\ inbox' = [inbox EXCEPT ![p] = Tail(@)]
        /\ known' = IF m.t = "grant" THEN [known EXCEPT ![p] = @ \cup {m.who}] ELSE known
        /\ mates' = IF m.t = "member-left" THEN [mates EXCEPT ![p] = @ \ {m.who}] ELSE mates
        /\ doc' = [doc EXCEPT ![p] = @ \cup got] /\ disk' = [disk EXCEPT ![p] = @ \cup got]
        /\ asked' = IF m.t = "sync-ack" THEN [asked EXCEPT ![p] = "answered"] ELSE asked
    BY <1>2 DEF Receive
  <1>4. UNCHANGED <<mode, granted, grantLog, members, log, subs, chain, step, refusals, count>>
    BY DEF Receive, relayVars
  <1>5. /\ m \in Msg /\ m = inbox[p][1] /\ 1 \in 1..Len(inbox[p])
        /\ Tail(inbox[p]) \in Seq(Msg)
        /\ \A i \in 1..Len(Tail(inbox[p])) :
             i + 1 \in 1..Len(inbox[p]) /\ Tail(inbox[p])[i] = inbox[p][i + 1]
    <2>1. inbox[p] \in Seq(Msg)
      BY <1>1 DEF Types
    <2>2. /\ Tail(inbox[p]) \in Seq(Msg) /\ Len(inbox[p]) \in Nat \ {0}
          /\ Len(Tail(inbox[p])) = Len(inbox[p]) - 1
          /\ Head(inbox[p]) = inbox[p][1] /\ Head(inbox[p]) \in Msg
          /\ \A i \in 1..Len(Tail(inbox[p])) : Tail(inbox[p])[i] = inbox[p][i + 1]
      BY <1>3, <2>1, TailAt
    <2>3. \A i \in 1..Len(Tail(inbox[p])) : i + 1 \in 1..Len(inbox[p])
      BY <2>2
    <2>4. 1 \in 1..Len(inbox[p])
      BY <2>2
    <2>5. QED
      BY <1>2, <2>2, <2>3, <2>4
  <1>6. got \subseteq Write
    BY <1>2, <1>5 DEF Msg
  <1>7. \A w \in m.w : Authorized(w.by, known[p], mates[p]) => w \in got
    BY <1>2
  <1> HIDE DEF got
  <1>8. /\ m.t = "grant" => m.who \in grantLog /\ m.who \in Peer
        /\ m.t = "member-left" => m.who \notin members
    BY <1>1, <1>5 DEF InboxOK, Types
  <1>9. /\ inbox' \in [Peer -> Seq(Msg)] /\ inbox'[p] = Tail(inbox[p])
        /\ \A q \in Peer : q # p => inbox'[q] = inbox[q]
    BY <1>1, <1>3, <1>5 DEF Types
  <1>10. /\ known' \in [Peer -> SUBSET Peer]
         /\ \A q \in Peer : q # p => known'[q] = known[q]
         /\ known[p] \subseteq known'[p] /\ (m.t = "grant" => m.who \in known'[p])
         /\ \A x \in known'[p] : x \in known[p] \/ (m.t = "grant" /\ x = m.who)
    <2>1. CASE m.t = "grant"
      <3>1. known' = [known EXCEPT ![p] = known[p] \cup {m.who}] /\ known \in [Peer -> SUBSET Peer]
        BY <1>1, <1>3, <2>1 DEF Types
      <3>2. QED
        BY <1>8, <2>1, <3>1
    <2>2. CASE m.t # "grant"
      BY <1>1, <1>3, <2>2 DEF Types
    <2>3. QED
      BY <2>1, <2>2
  <1>11. /\ mates' \in [Peer -> SUBSET Peer]
         /\ \A q \in Peer : members \subseteq mates'[q]
    <2>1. CASE m.t = "member-left"
      <3>1. mates' = [mates EXCEPT ![p] = mates[p] \ {m.who}] /\ mates \in [Peer -> SUBSET Peer]
        BY <1>1, <1>3, <2>1 DEF Types
      <3>2. QED
        BY <1>1, <1>8, <2>1, <3>1 DEF KnownOK
    <2>2. CASE m.t # "member-left"
      BY <1>1, <1>3, <2>2 DEF Types, KnownOK
    <2>3. QED
      BY <2>1, <2>2
  <1>12. /\ doc' \in [Peer -> SUBSET Write] /\ disk' \in [Peer -> SUBSET Write]
         /\ doc'[p] = doc[p] \cup got /\ disk'[p] = disk[p] \cup got
         /\ \A q \in Peer : q # p => doc'[q] = doc[q] /\ disk'[q] = disk[q]
         /\ \A q \in Peer : doc[q] \subseteq doc'[q] /\ disk[q] \subseteq disk'[q]
    BY <1>1, <1>3, <1>6 DEF Types
  <1>13. /\ asked' \in [Peer -> {"no", "yes", "answered"}]
         /\ \A q \in Peer : asked'[q] = asked[q] \/ (q = p /\ m.t = "sync-ack")
    <2>1. CASE m.t = "sync-ack"
      BY <1>1, <1>3, <2>1 DEF Types
    <2>2. CASE m.t # "sync-ack"
      BY <1>1, <1>3, <2>2 DEF Types
    <2>3. QED
      BY <2>1, <2>2
  <1>14. Types'
    BY <1>1, <1>4, <1>9, <1>10, <1>11, <1>12, <1>13 DEF Types
  <1>15. ChainOK'
    <2>1. known[Owner] \subseteq known'[Owner]
      BY <1>10 DEF Parties
    <2>2. QED
      BY <1>1, <1>4, <1>12, <2>1 DEF ChainOK
  <1>16. DiskOK'
    <2>1. \A w \in log' : w \in disk'[w.by]
      <3>1. \A w \in log : w \in disk[w.by] /\ w.by \in Peer
        BY <1>1 DEF DiskOK, Types, Write
      <3>2. QED
        BY <1>4, <1>12, <3>1
    <2>2. SUFFICES ASSUME mode = "members", NEW q \in subs \cup members, NEW w \in disk'[q], w.by = q
                   PROVE  w \in doc'[q]
      BY <1>4, <2>1 DEF DiskOK
    <2>3. q \in Peer
      BY <1>1 DEF Types
    <2>4. w \in disk[q] \/ w \in doc'[q]
      BY <1>12, <2>2, <2>3
    <2>5. w \in disk[q] => w \in doc[q]
      BY <1>1, <2>2 DEF DiskOK
    <2>6. QED
      BY <1>12, <2>3, <2>4, <2>5
  <1>17. InboxOK'
    <2>1. SUFFICES ASSUME NEW q \in Peer, NEW i \in 1..Len(inbox'[q])
                   PROVE  /\ inbox'[q][i].t = "grant" => inbox'[q][i].who \in grantLog
                          /\ inbox'[q][i].t = "member-left" => inbox'[q][i].who \notin members
      BY <1>4 DEF InboxOK
    <2>2. \E j \in 1..Len(inbox[q]) : inbox'[q][i] = inbox[q][j]
      <3>1. CASE q = p
        <4>1. i \in 1..Len(Tail(inbox[p])) /\ inbox'[q][i] = Tail(inbox[p])[i]
          BY <1>9, <2>1, <3>1
        <4>2. QED
          BY <1>5, <3>1, <4>1
      <3>2. CASE q # p
        BY <1>9, <3>2
      <3>3. QED
        BY <3>1, <3>2
    <2>3. QED
      BY <1>1, <2>2 DEF InboxOK
  <1>18. KnownOK'
    <2>1. \A q \in Peer : q # Owner => known'[q] \subseteq grantLog
      BY <1>1, <1>8, <1>10 DEF KnownOK
    <2>2. QED
      BY <1>1, <1>4, <1>11, <2>1 DEF KnownOK
  <1>19. OwnerOK'
    <2>1. SUFFICES ASSUME refusals = 0, Owner \in known'[Owner]
                   PROVE  Owner \in grantLog \/ Owner \notin granted \/ Holds(chain[Owner], Owner)
      BY <1>4 DEF OwnerOK, Holds
    <2>2. Owner \in known[Owner] \/ Owner \in grantLog
      BY <1>8, <1>10, <2>1 DEF Parties
    <2>3. QED
      BY <1>1, <2>1, <2>2 DEF OwnerOK
  <1>20. VouchedChain' /\ VouchedLog'
    BY <1>1, <1>4 DEF VouchedChain, Vouched, Free, Before, VouchedLog
  <1>21. \A q \in Peer : (Past(q)' => Past(q)) /\ (Answered(q)' => Answered(q))
    <2>1. HasAck(inbox'[p]) => HasAck(inbox[p])
      <3>1. HasAck(Tail(inbox[p])) => HasAck(inbox[p])
        BY <1>5 DEF HasAck
      <3>2. QED
        BY <1>9, <3>1
    <2>2. m.t = "sync-ack" => HasAck(inbox[p])
      BY <1>5 DEF HasAck
    <2>3. \A q \in Peer : HasAck(inbox'[q]) => HasAck(inbox[q])
      BY <1>9, <2>1
    <2>4. \A q \in Peer : asked'[q] = "answered" \/ HasAck(inbox'[q]) => Answered(q)
      BY <1>13, <2>2, <2>3 DEF Answered
    <2>5. \A q \in Peer : Answered(q)' => Answered(q)
      BY <2>4 DEF Answered, HasAck
    <2>6. QED
      BY <1>4, <2>5 DEF Past
  <1>22. SubsOK'
    <2>1. SUFFICES ASSUME NEW q \in Peer, step[q] \in {"grants", "envelopes"} \/ Answered(q)'
                   PROVE  q \in subs
      BY <1>4 DEF SubsOK
    <2>2. QED
      BY <1>1, <1>21, <2>1 DEF SubsOK
  <1>23. /\ \A x \in grantLog : x \in known[p] \/ Holds(inbox[p], x) => x \in known'[p] \/ Holds(inbox'[p], x)
         /\ \A w \in log :
              Answered(p) /\ w.by \in members \cup {p} /\ Reached(p, w) => Reached(p, w)'
    <2>1. \A w \in m.w : Authorized(w.by, known[p], mates[p]) => w \in doc'[p]
      BY <1>7, <1>12
    <2>2. mode' = mode /\ doc[p] \subseteq doc'[p]
      BY <1>4, <1>12
    <2>3. QED
      BY <1>2, <1>3, <1>9, <1>10, <1>14, <2>1, <2>2, ReceivedReaches
  <1>24. ASSUME NEW q \in Peer PROVE GrantsAt(q)' /\ WritesAt(q)'
    <2>1. CASE q = p
      <3>1. Past(p)' => \A x \in grantLog' : x \in known'[p] \/ Holds(inbox'[p], x)
        BY <1>1, <1>4, <1>21, <1>23 DEF GrantsAt
      <3>2. GrantsAt(p)'
        BY <3>1 DEF GrantsAt, Holds
      <3>3. refusals' = 0 /\ Answered(p)' =>
              \A w \in log' : ~w.early /\ w.by \in members' \cup {p} => Reached(p, w)'
        BY <1>1, <1>4, <1>21, <1>23 DEF WritesAt
      <3>4. WritesAt(p)'
        BY <3>3 DEF WritesAt
      <3>5. QED
        BY <2>1, <3>2, <3>4
    <2>2. CASE q # p
      <3>1. Keeps(inbox[q], inbox'[q]) /\ known[q] \subseteq known'[q] /\ doc[q] \subseteq doc'[q]
        <4>1. Len(inbox[q]) \in Nat
          BY <1>1, LenProperties DEF Types
        <4>2. QED
          BY <1>9, <1>10, <1>12, <2>2, <4>1 DEF Keeps
      <3>2. /\ GrantsAt(q) /\ WritesAt(q) /\ mode' = mode /\ grantLog' = grantLog /\ log' = log
            /\ members' \subseteq members /\ refusals' = refusals
        BY <1>1, <1>4
      <3>3. GrantsAt(q)'
        BY <1>1, <1>14, <1>21, <3>1, <3>2, GrantsStay
      <3>4. WritesAt(q)'
        BY <1>1, <1>14, <1>21, <3>1, <3>2, WritesStay
      <3>5. QED
        BY <3>3, <3>4
    <2>3. QED
      BY <2>1, <2>2
  <1>25. QED
    BY <1>14, <1>15, <1>16, <1>17, <1>18, <1>19, <1>20, <1>22, <1>24 DEF IInv

LEMMA InvStep == ASSUME Parties PROVE IInv /\ [Next]_vars => IInv'
  <1>1. SUFFICES ASSUME IInv, [Next]_vars PROVE IInv'
    OBVIOUS
  <1>2. ASSUME NEW p \in Peer, GrantWriter(p) \/ LocalWrite(p) \/ Subscribe(p) \/ Receive(p) \/ Reload(p)
        PROVE  IInv'
    BY <1>1, <1>2, GrantWriterKeeps, LocalWriteKeeps, SubscribeKeeps, ReceiveKeeps, ReloadKeeps
  <1>3. ASSUME NEW p \in Peer,
               \/ HandleGrant(p) \/ StoreGrant(p) \/ StoreGrantFails(p) \/ HandleWrite(p)
        PROVE  IInv'
    BY <1>1, <1>3, HandleGrantKeeps, StoreGrantKeeps, StoreGrantFailsKeeps, HandleWriteKeeps
  <1>4. ASSUME NEW p \in Peer,
               \/ HandleSubscribe(p) \/ ReplayGrants(p) \/ ReplayEnvelopes(p) \/ RemoveMember(p)
        PROVE  IInv'
    BY <1>1, <1>4, HandleSubscribeKeeps, ReplayGrantsKeeps, ReplayEnvelopesKeeps, RemoveMemberKeeps
  <1>5. CASE Restart
    BY <1>1, <1>5, RestartKeeps
  <1>6. CASE UNCHANGED vars
    <2>1. /\ Types /\ ChainOK /\ DiskOK /\ InboxOK /\ KnownOK /\ SubsOK
          /\ OwnerOK /\ VouchedChain /\ VouchedLog /\ \A p \in Peer : GrantsAt(p) /\ WritesAt(p)
      BY <1>1 DEF IInv
    <2>2. UNCHANGED <<mode, granted, grantLog, members, log, subs, known, mates, doc, disk, chain, step,
                      inbox, asked, refusals, count>>
      BY <1>6 DEF vars, relayVars, spaceVars, wireVars
    <2>3. Types' /\ ChainOK' /\ DiskOK' /\ InboxOK' /\ KnownOK'
      BY <2>1, <2>2 DEF Types, ChainOK, DiskOK, InboxOK, KnownOK
    <2>4. SubsOK' /\ OwnerOK' /\ VouchedChain' /\ VouchedLog'
      BY <2>1, <2>2 DEF SubsOK, Answered, HasAck, OwnerOK, Holds, VouchedChain, Vouched, Free, Before, VouchedLog
    <2>5. \A p \in Peer : (Past(p)' => Past(p)) /\ (Answered(p)' => Answered(p))
      BY <2>2 DEF Past, Answered, HasAck
    <2>6. \A p \in Peer : Keeps(inbox[p], inbox'[p]) /\ known[p] \subseteq known'[p] /\ doc[p] \subseteq doc'[p]
      BY <2>1, <2>2, SameQueues
    <2>7. \A p \in Peer : GrantsAt(p)'
      BY <2>1, <2>2, <2>3, <2>5, <2>6, GrantsStay
    <2>8. \A p \in Peer : WritesAt(p)'
      BY <2>1, <2>2, <2>3, <2>5, <2>6, WritesStay
    <2>9. QED
      BY <2>3, <2>4, <2>7, <2>8 DEF IInv
  <1>7. QED
    BY <1>1, <1>2, <1>3, <1>4, <1>5, <1>6 DEF Next

LEMMA AlwaysInv == ASSUME Parties PROVE Spec => []IInv
  <1>1. Init => IInv
    BY InvInit
  <1>2. IInv /\ [Next]_vars => IInv'
    BY InvStep
  <1>3. QED
    BY <1>1, <1>2, PTL DEF Spec

-----------------------------------------------------------------------------
(* The theorems. *)

(* Type correctness: whatever the peers, ACLs and bounds, the relay's grants,*)
(* members, mirror and subscribers, the Spaces' grants, members, documents  *)
(* and storage and the messages between them stay in their sets.            *)
THEOREM TypeCorrect == ASSUME Parties PROVE Spec => []TypeOK
  <1>1. IInv => TypeOK
    <2>1. SUFFICES ASSUME Types PROVE TypeOK
      BY DEF IInv
    <2>2. ASSUME NEW p \in Peer
          PROVE  /\ \A i \in DOMAIN chain[p] : chain[p][i] \in Msg
                 /\ \A i \in DOMAIN inbox[p] : inbox[p][i] \in Msg
      <3>1. chain[p] \in Seq(Msg) /\ inbox[p] \in Seq(Msg)
        BY <2>1 DEF Types
      <3>2. QED
        BY <3>1, ElementOfSeq, LenProperties
    <2>3. QED
      BY <2>1, <2>2 DEF Types, TypeOK
  <1>2. QED
    BY <1>1, AlwaysInv, PTL

(* Grant-then-write is never seen as write-then-grant: what the relay mirrors *)
(* of an author who had seen its own grant, and who is still a member, is in  *)
(* every Space whose subscription has been answered and whose queue is empty, *)
(* for any number of peers, grants, reloads and restarts, under each ACL.     *)
THEOREM GrantsComeFirst == ASSUME Parties PROVE Spec => []ReadersAccept
  <1>1. IInv => ReadersAccept
    <2>1. SUFFICES ASSUME IInv, refusals = 0, NEW p \in Peer, asked[p] = "answered", inbox[p] = <<>>,
                          NEW w \in log, ~w.early, w.by \in members \cup {p}
                   PROVE  w \in doc[p]
      BY DEF ReadersAccept, Settled
    <2>2. Reached(p, w)
      BY <2>1 DEF IInv, WritesAt, Answered
    <2>3. 1..Len(inbox[p]) = {}
      <3>1. Len(inbox[p]) = 0
        BY <2>1, EmptySeq
      <3>2. QED
        BY <3>1
    <2>4. QED
      BY <2>2, <2>3 DEF Reached
  <1>2. QED
    BY <1>1, AlwaysInv, PTL

-----------------------------------------------------------------------------
(***************************************************************************)
(* Presence at one relay, for any members, connections, declarations and   *)
(* requests to watch.                                                      *)
(***************************************************************************)
CONSTANTS Member, Conn, Of, Watching, MaxDeclared, MaxWatches
VARIABLES conn, hello, connOf, memberOn, visible, watchers, pushed, live, declared, clock,
          watches, wished, latest, current

Presence == INSTANCE RelayPresence

(* Each connection is of one member; "nobody" is neither. *)
Identities ==
  /\ Of \in [Conn -> Member] /\ Presence!Nobody \notin Member /\ Presence!Nobody \notin Conn
  /\ MaxDeclared \in Nat /\ MaxWatches \in Nat

-----------------------------------------------------------------------------
(* The inductive invariant. *)

PresenceTypes ==
  /\ conn \in [Conn -> {"new", "open", "closed"}] /\ hello \subseteq Conn
  /\ connOf \in [Member -> Conn \cup {Presence!Nobody}]
  /\ memberOn \in [Conn -> Member \cup {Presence!Nobody}]
  /\ visible \in [Member -> [public: BOOLEAN, ts: 0..MaxDeclared]]
  /\ watchers \in [Member -> SUBSET Conn]
  /\ pushed \in [Conn -> Seq(Presence!Told)]
  /\ live \in [Conn -> [Member -> Presence!State \cup {"unknown"}]]
  /\ declared \subseteq Presence!Declaration /\ clock \in 0..MaxDeclared /\ watches \in 0..MaxWatches
  /\ wished \in [Member -> BOOLEAN]
  /\ latest \in [Member -> Conn \cup {Presence!Nobody}] /\ current \subseteq Conn \X Member

(* The two maps of PresenceTracker are each other's inverse. *)
TrackerInverse ==
  /\ \A m \in Member, c \in Conn : connOf[m] = c <=> memberOn[c] = m
  /\ \A c \in Conn : memberOn[c] \in {Presence!Nobody, Of[c]}

(* A hello is handled of a connection that has been opened. *)
HelloedWasOpen ==
  /\ \A c \in hello : conn[c] # "new"
  /\ \A m \in Member : latest[m] # Presence!Nobody => conn[latest[m]] # "new"

(* Each declaration has a time stamp of its own. *)
StampsApart ==
  /\ \A d \in declared : d.ts <= clock /\ d.ts # visible[d.who].ts
  /\ \A m \in Member : visible[m].ts <= clock
  /\ \A d, e \in declared : d.ts = e.ts => d = e

(* The last declaration of m is in force, or to be handled and the newest. *)
InForce(m) ==
  /\ visible[m].public = wished[m]
  /\ \A e \in declared : e.who = m => e.ts < visible[m].ts

Awaited(m) ==
  \E d \in declared :
    /\ d.who = m /\ d.public = wished[m] /\ visible[m].ts < d.ts
    /\ \A e \in declared : e.who = m /\ e # d => e.ts < d.ts

LastIsKnown == \A m \in Member : InForce(m) \/ Awaited(m)

(* Who has been told of a visible member is a watcher with an open connection. *)
ToldAreWatching ==
  /\ \A m \in Member : \A c \in watchers[m] : conn[c] = "open"
  /\ \A e \in current : e[1] \in watchers[e[2]] /\ visible[e[2]].public

(* What a Space that has received l will think of m after the pushes q. *)
EndsAs(q, l, m, on) ==
  \/ /\ \A i \in 1..Len(q) : q[i].who # m
     /\ (l = "on") = on
  \/ \E i \in 1..Len(q) :
       /\ q[i].who = m /\ (q[i].online = "on") = on
       /\ \A j \in 1..Len(q) : j > i => q[j].who # m

(* The pushes on their way end with what the relay knows. *)
WillAgree ==
  \A c \in Conn, m \in Member :
    <<c, m>> \in current => EndsAs(pushed[c], live[c][m], m, Presence!Online(m))

PresenceInv ==
  /\ PresenceTypes /\ TrackerInverse /\ HelloedWasOpen /\ Presence!NewestTabCounts
  /\ StampsApart /\ LastIsKnown /\ ToldAreWatching /\ WillAgree

-----------------------------------------------------------------------------
(* Queues of pushes. *)

LEMMA PushIsTold ==
  ASSUME NEW m \in Member, NEW on \in BOOLEAN
  PROVE  /\ Presence!Push(m, on) \in Presence!Told /\ Presence!Push(m, on).who = m
         /\ (Presence!Push(m, on).online = "on") = on
BY DEF Presence!Push, Presence!Told, Presence!State

(* The push that is added last counts. *)
LEMMA EndsWithPush ==
  ASSUME NEW q \in Seq(Presence!Told), NEW l, NEW m \in Member, NEW on \in BOOLEAN
  PROVE  EndsAs(Append(q, Presence!Push(m, on)), l, m, on)
  <1> DEFINE n == Len(q) + 1
             r == Append(q, Presence!Push(m, on))
  <1>1. Len(q) \in Nat /\ Len(r) = n /\ r[n] = Presence!Push(m, on)
    BY PushIsTold
  <1>2. n \in 1..Len(r) /\ \A j \in 1..Len(r) : ~ (j > n)
    BY <1>1
  <1>3. r[n].who = m /\ (r[n].online = "on") = on
    BY <1>1, PushIsTold
  <1> HIDE DEF n, r
  <1>4. EndsAs(r, l, m, on)
    BY <1>2, <1>3 DEF EndsAs
  <1>5. QED
    BY <1>4 DEF r

(* A push about somebody else does not. *)
LEMMA EndsWithOther ==
  ASSUME NEW q \in Seq(Presence!Told), NEW l, NEW m \in Member, NEW on \in BOOLEAN,
         NEW p \in Presence!Told, p.who # m, EndsAs(q, l, m, on)
  PROVE  EndsAs(Append(q, p), l, m, on)
  <1> DEFINE r == Append(q, p)
  <1>1. /\ Len(q) \in Nat /\ Len(r) = Len(q) + 1
        /\ \A i \in 1..Len(q) : r[i] = q[i]
        /\ r[Len(q) + 1] = p
    OBVIOUS
  <1> HIDE DEF r
  <1>2. \A i \in 1..Len(r) : i \in 1..Len(q) \/ i = Len(q) + 1
    BY <1>1
  <1>3. \A i \in 1..Len(q) : i \in 1..Len(r)
    BY <1>1
  <1>4. CASE (\A i \in 1..Len(q) : q[i].who # m) /\ (l = "on") = on
    <2>1. \A i \in 1..Len(r) : r[i].who # m
      BY <1>1, <1>2, <1>4
    <2>2. QED
      BY <1>4, <2>1 DEF EndsAs, r
  <1>5. CASE \E i \in 1..Len(q) :
               /\ q[i].who = m /\ (q[i].online = "on") = on
               /\ \A j \in 1..Len(q) : j > i => q[j].who # m
    <2>1. PICK i \in 1..Len(q) :
               /\ q[i].who = m /\ (q[i].online = "on") = on
               /\ \A j \in 1..Len(q) : j > i => q[j].who # m
      BY <1>5
    <2>2. i \in 1..Len(r) /\ r[i].who = m /\ (r[i].online = "on") = on
      BY <1>1, <1>3, <2>1
    <2>3. \A j \in 1..Len(r) : j > i => r[j].who # m
      BY <1>1, <1>2, <2>1
    <2>4. QED
      BY <2>2, <2>3 DEF EndsAs, r
  <1>6. QED
    BY <1>4, <1>5 DEF EndsAs

(* Receiving the first push changes nothing of where they end. *)
LEMMA EndsWithTail ==
  ASSUME NEW q \in Seq(Presence!Told), q # <<>>, NEW l, NEW m \in Member, NEW on \in BOOLEAN,
         EndsAs(q, l, m, on)
  PROVE  EndsAs(Tail(q), IF Head(q).who = m THEN Head(q).online ELSE l, m, on)
  <1> DEFINE r == Tail(q)
             now == IF Head(q).who = m THEN Head(q).online ELSE l
  <1>1. /\ Len(q) \in Nat \ {0} /\ Len(r) = Len(q) - 1 /\ Head(q) = q[1]
        /\ \A i \in 1..Len(r) : r[i] = q[i + 1]
    BY HeadTailProperties, EmptySeq, LenProperties
  <1> HIDE DEF r
  <1>2. CASE (\A i \in 1..Len(q) : q[i].who # m) /\ (l = "on") = on
    <2>1. Head(q).who # m
      BY <1>1, <1>2
    <2>2. \A i \in 1..Len(r) : r[i].who # m
      <3>1. \A i \in 1..Len(r) : i + 1 \in 1..Len(q)
        BY <1>1
      <3>2. QED
        BY <1>1, <1>2, <3>1
    <2>3. EndsAs(r, now, m, on)
      BY <1>2, <2>1, <2>2 DEF EndsAs
    <2>4. QED
      BY <2>3 DEF r
  <1>3. CASE \E i \in 1..Len(q) :
               /\ q[i].who = m /\ (q[i].online = "on") = on
               /\ \A j \in 1..Len(q) : j > i => q[j].who # m
    <2>1. PICK i \in 1..Len(q) :
               /\ q[i].who = m /\ (q[i].online = "on") = on
               /\ \A j \in 1..Len(q) : j > i => q[j].who # m
      BY <1>3
    <2>2. CASE i = 1
      <3>1. now = q[1].online /\ (now = "on") = on
        BY <1>1, <2>1, <2>2
      <3>2. \A k \in 1..Len(r) : k + 1 \in 1..Len(q) /\ k + 1 > i
        BY <1>1, <2>2
      <3>3. \A k \in 1..Len(r) : r[k].who # m
        BY <1>1, <2>1, <3>2
      <3>4. EndsAs(r, now, m, on)
        BY <3>1, <3>3 DEF EndsAs
      <3>5. QED
        BY <3>4 DEF r
    <2>3. CASE i # 1
      <3>1. i - 1 \in 1..Len(r) /\ (i - 1) + 1 = i
        BY <1>1, <2>1, <2>3
      <3>2. r[i - 1] = q[i]
        BY <1>1, <3>1
      <3>3. \A k \in 1..Len(r) : k > i - 1 => k + 1 \in 1..Len(q) /\ k + 1 > i
        BY <1>1, <2>1
      <3>4. \A k \in 1..Len(r) : k > i - 1 => r[k].who # m
        BY <1>1, <2>1, <3>3
      <3>5. EndsAs(r, now, m, on)
        BY <2>1, <3>1, <3>2, <3>4 DEF EndsAs
      <3>6. QED
        BY <3>5 DEF r
    <2>4. QED
      BY <2>2, <2>3
  <1>4. QED
    BY <1>2, <1>3 DEF EndsAs

-----------------------------------------------------------------------------
(* Pushes of a broadcast. *)

LEMMA BroadcastAt ==
  ASSUME PresenceTypes, NEW m \in Member, NEW on \in BOOLEAN, Presence!Broadcast(m, on)
  PROVE  /\ pushed' \in [Conn -> Seq(Presence!Told)]
         /\ \A c \in Conn : pushed'[c] =
              IF visible[m].public /\ c \in watchers[m] /\ conn[c] = "open"
              THEN Append(pushed[c], Presence!Push(m, on)) ELSE pushed[c]
         /\ current' \subseteq Conn \X Member
         /\ \A e \in current' : e \in current \/ (visible[m].public /\ e[2] = m /\ e[1] \in watchers[m])
  <1> DEFINE ws == IF visible[m].public THEN watchers[m] ELSE {}
  <1>1. /\ pushed' = [c \in Conn |-> IF c \in ws /\ conn[c] = "open"
                                    THEN Append(pushed[c], Presence!Push(m, on)) ELSE pushed[c]]
        /\ current' = current \cup {<<c, m>> : c \in ws}
    BY DEF Presence!Broadcast
  <1>2. ws \subseteq Conn /\ \A c : c \in ws <=> visible[m].public /\ c \in watchers[m]
    BY DEF PresenceTypes
  <1> HIDE DEF ws
  <1>3. \A c \in Conn : Append(pushed[c], Presence!Push(m, on)) \in Seq(Presence!Told)
    BY PushIsTold DEF PresenceTypes
  <1>4. pushed' \in [Conn -> Seq(Presence!Told)]
    BY <1>1, <1>3 DEF PresenceTypes
  <1>5. current' \subseteq Conn \X Member
    BY <1>1, <1>2 DEF PresenceTypes
  <1>6. \A e \in current' : e \in current \/ (visible[m].public /\ e[2] = m /\ e[1] \in watchers[m])
    BY <1>1, <1>2
  <1>7. QED
    BY <1>1, <1>2, <1>4, <1>5, <1>6

(* What a connection that closes makes of the queues. *)
LEMMA DisconnectAt ==
  ASSUME Identities, PresenceTypes, NEW c \in Conn, Presence!Disconnect(c)
  PROVE  /\ pushed' \in [Conn -> Seq(Presence!Told)]
         /\ pushed'[c] = <<>>
         /\ \A d \in Conn : d # c =>
              \/ pushed'[d] = pushed[d] /\ (memberOn[c] = Presence!Nobody \/ ~ visible[memberOn[c]].public
                                           \/ d \notin watchers[memberOn[c]] \/ conn[d] # "open")
              \/ /\ memberOn[c] \in Member /\ visible[memberOn[c]].public
                 /\ pushed'[d] = Append(pushed[d], Presence!Push(memberOn[c], FALSE))
  <1> DEFINE m == memberOn[c]
             ws == IF m # Presence!Nobody /\ visible[m].public THEN watchers[m] ELSE {}
             now(d) == IF d = c THEN <<>>
                       ELSE IF d \in ws /\ conn[d] = "open" THEN Append(pushed[d], Presence!Push(m, FALSE))
                       ELSE pushed[d]
  <1>1. pushed' = [d \in Conn |-> now(d)]
    BY DEF Presence!Disconnect, Presence!Leaver
  <1>2. m \in Member \cup {Presence!Nobody}
    BY DEF PresenceTypes
  <1>3. \A d : d \in ws => m \in Member /\ visible[m].public /\ d \in watchers[m]
    BY <1>2
  <1>4. \A d : d \notin ws => m = Presence!Nobody \/ ~ visible[m].public \/ d \notin watchers[m]
    BY <1>2
  <1> HIDE DEF ws
  <1>5. ASSUME NEW d \in Conn PROVE now(d) \in Seq(Presence!Told)
    <2>1. d \in ws => Append(pushed[d], Presence!Push(m, FALSE)) \in Seq(Presence!Told)
      <3>1. SUFFICES ASSUME d \in ws PROVE Append(pushed[d], Presence!Push(m, FALSE)) \in Seq(Presence!Told)
        OBVIOUS
      <3>2. m \in Member
        BY <1>3, <3>1
      <3>3. Presence!Push(m, FALSE) \in Presence!Told
        BY <3>2, PushIsTold
      <3>4. pushed[d] \in Seq(Presence!Told)
        BY DEF PresenceTypes
      <3>5. QED
        BY <3>3, <3>4, AppendProperties
    <2>2. <<>> \in Seq(Presence!Told) /\ pushed[d] \in Seq(Presence!Told)
      BY EmptySeq DEF PresenceTypes
    <2>3. QED
      BY <2>1, <2>2
  <1>6. pushed' \in [Conn -> Seq(Presence!Told)]
    BY <1>1, <1>5
  <1>7. \A d \in Conn : pushed'[d] = now(d)
    BY <1>1
  <1>8. QED
    BY <1>3, <1>4, <1>6, <1>7

-----------------------------------------------------------------------------
(* The inductive invariant holds initially, and each step keeps it. *)

LEMMA PresenceInit ==
  ASSUME Identities
  PROVE  Presence!Init => PresenceInv
  <1>1. SUFFICES ASSUME Presence!Init PROVE PresenceInv
    OBVIOUS
  <1>2. <<>> \in Seq(Presence!Told)
    BY EmptySeq
  <1>3. PresenceTypes
    BY <1>1, <1>2 DEF Identities, Presence!Init, PresenceTypes, Presence!Declaration, Presence!State
  <1>4. TrackerInverse /\ HelloedWasOpen /\ Presence!NewestTabCounts
    BY <1>1 DEF Identities, Presence!Init, TrackerInverse, HelloedWasOpen, Presence!NewestTabCounts
  <1>5. StampsApart /\ LastIsKnown
    <2>1. /\ declared = {} /\ clock = 0 /\ wished = [m \in Member |-> FALSE]
          /\ \A m \in Member : visible[m].public = FALSE /\ visible[m].ts = 0
      BY <1>1 DEF Presence!Init
    <2>2. StampsApart
      BY <2>1 DEF StampsApart
    <2>3. \A m \in Member : InForce(m)
      BY <2>1 DEF InForce
    <2>4. QED
      BY <2>2, <2>3 DEF LastIsKnown
  <1>6. ToldAreWatching /\ WillAgree
    BY <1>1 DEF Presence!Init, ToldAreWatching, WillAgree
  <1>7. QED
    BY <1>3, <1>4, <1>5, <1>6 DEF PresenceInv

LEMMA PresenceTypesStep ==
  ASSUME Identities, PresenceTypes, [Presence!Next]_Presence!vars
  PROVE  PresenceTypes'
  <1> USE DEF Identities, PresenceTypes
  <1>1. ASSUME NEW c \in Conn, Presence!Open(c) PROVE PresenceTypes'
    BY <1>1 DEF Presence!Open
  <1>2. ASSUME NEW c \in Conn, Presence!HandleHello(c) PROVE PresenceTypes'
    <2>1. /\ Of[c] \in Member /\ Presence!Broadcast(Of[c], TRUE)
          /\ UNCHANGED <<conn, visible, watchers, live, declared, clock, watches, wished>>
      BY <1>2 DEF Presence!HandleHello
    <2>2. pushed' \in [Conn -> Seq(Presence!Told)] /\ current' \subseteq Conn \X Member
      BY <2>1, BroadcastAt
    <2>3. /\ hello' \subseteq Conn /\ connOf' \in [Member -> Conn \cup {Presence!Nobody}]
          /\ latest' \in [Member -> Conn \cup {Presence!Nobody}]
      BY <1>2, <2>1 DEF Presence!HandleHello
    <2>4. memberOn' \in [Conn -> Member \cup {Presence!Nobody}]
      <3>1. Presence!Displaced(Of[c], c) \in [Conn -> Member \cup {Presence!Nobody}]
        BY DEF Presence!Displaced
      <3>2. QED
        BY <1>2, <2>1, <3>1 DEF Presence!HandleHello
    <2>5. QED
      BY <2>1, <2>2, <2>3, <2>4
  <1>3. ASSUME NEW c \in Conn, Presence!Disconnect(c) PROVE PresenceTypes'
    <2>1. pushed' \in [Conn -> Seq(Presence!Told)]
      BY <1>3, DisconnectAt
    <2>2. UNCHANGED <<hello, visible, live, declared, clock, wished, latest, watches>>
      BY <1>3 DEF Presence!Disconnect
    <2>3. /\ conn' \in [Conn -> {"new", "open", "closed"}]
          /\ connOf' \in [Member -> Conn \cup {Presence!Nobody}]
          /\ memberOn' \in [Conn -> Member \cup {Presence!Nobody}]
          /\ watchers' \in [Member -> SUBSET Conn]
          /\ current' \subseteq Conn \X Member
      BY <1>3 DEF Presence!Disconnect
    <2>4. QED
      BY <2>1, <2>2, <2>3
  <1>4. ASSUME NEW c \in Conn, NEW m \in Member, Presence!Watch(c, m) PROVE PresenceTypes'
    <2>1. UNCHANGED <<conn, hello, connOf, memberOn, visible, live, declared, clock, wished,
                      latest>>
      BY <1>4 DEF Presence!Watch
    <2>2. watches' \in 0..MaxWatches /\ watchers' \in [Member -> SUBSET Conn]
      BY <1>4 DEF Presence!Watch
    <2>3. pushed' \in [Conn -> Seq(Presence!Told)] /\ current' \subseteq Conn \X Member
      <3>1. Presence!Online(m) \in BOOLEAN
        BY DEF Presence!Online
      <3>2. Append(pushed[c], Presence!Push(m, Presence!Online(m))) \in Seq(Presence!Told)
        BY <3>1, PushIsTold
      <3>3. CASE visible[m].public
        <4>1. /\ pushed' = [pushed EXCEPT ![c] = Append(@, Presence!Push(m, Presence!Online(m)))]
              /\ current' = current \cup {<<c, m>>}
          BY <1>4, <3>3 DEF Presence!Watch
        <4>2. pushed' \in [Conn -> Seq(Presence!Told)]
          BY <3>2, <4>1
        <4>3. QED
          BY <4>1, <4>2
      <3>4. CASE ~ visible[m].public
        BY <1>4, <3>4 DEF Presence!Watch
      <3>5. QED
        BY <3>3, <3>4
    <2>4. QED
      BY <2>1, <2>2, <2>3
  <1>5. ASSUME NEW c \in Conn, NEW m \in Member, Presence!Unwatch(c, m) PROVE PresenceTypes'
    BY <1>5 DEF Presence!Unwatch
  <1>6. ASSUME NEW m \in Member, NEW public \in BOOLEAN, Presence!Declare(m, public) PROVE PresenceTypes'
    <2>1. clock + 1 \in 1..MaxDeclared
      BY <1>6 DEF Presence!Declare
    <2>2. [who |-> m, public |-> public, ts |-> clock + 1] \in Presence!Declaration
      BY <2>1 DEF Presence!Declaration
    <2>3. QED
      BY <1>6, <2>1, <2>2 DEF Presence!Declare
  <1>7. ASSUME NEW d \in declared, Presence!HandleVisibility(d) PROVE PresenceTypes'
    <2>1. d.who \in Member /\ [public |-> d.public, ts |-> d.ts] \in [public: BOOLEAN, ts: 0..MaxDeclared]
      BY DEF Presence!Declaration
    <2>2. visible' \in [Member -> [public: BOOLEAN, ts: 0..MaxDeclared]]
      BY <1>7, <2>1 DEF Presence!HandleVisibility
    <2>3. declared' \subseteq Presence!Declaration /\ current' \subseteq Conn \X Member
      BY <1>7 DEF Presence!HandleVisibility
    <2>4. QED
      BY <1>7, <2>2, <2>3 DEF Presence!HandleVisibility
  <1>8. ASSUME NEW c \in Conn, Presence!Receive(c) PROVE PresenceTypes'
    <2>1. Head(pushed[c]) \in Presence!Told /\ Tail(pushed[c]) \in Seq(Presence!Told)
      BY <1>8, HeadTailProperties DEF Presence!Receive
    <2>2. pushed' \in [Conn -> Seq(Presence!Told)]
      BY <1>8, <2>1 DEF Presence!Receive
    <2>3. live' \in [Conn -> [Member -> Presence!State \cup {"unknown"}]]
      BY <1>8, <2>1 DEF Presence!Receive, Presence!Told
    <2>4. QED
      BY <1>8, <2>2, <2>3 DEF Presence!Receive
  <1>9. CASE UNCHANGED Presence!vars
    BY <1>9 DEF Presence!vars
  <1> HIDE DEF PresenceTypes, Identities
  <1>10. QED
    BY <1>1, <1>2, <1>3, <1>4, <1>5, <1>6, <1>7, <1>8, <1>9 DEF Presence!Next

LEMMA TrackerStep ==
  ASSUME Identities, PresenceTypes, TrackerInverse, [Presence!Next]_Presence!vars
  PROVE  TrackerInverse'
  <1>1. ASSUME NEW c \in Conn, Presence!HandleHello(c) PROVE TrackerInverse'
    <2> DEFINE m0 == Of[c]
    <2>1. /\ m0 \in Member /\ connOf' = [connOf EXCEPT ![m0] = c]
          /\ memberOn' = [Presence!Displaced(m0, c) EXCEPT ![c] = m0]
      BY <1>1 DEF Presence!HandleHello, Identities
    <2>2. \A d \in Conn : memberOn'[d] = IF d = c THEN m0
                                        ELSE IF d = connOf[m0] THEN Presence!Nobody ELSE memberOn[d]
      BY <2>1 DEF Presence!Displaced
    <2>3. \A m \in Member : connOf'[m] = IF m = m0 THEN c ELSE connOf[m]
      BY <2>1 DEF PresenceTypes
    <2>4. memberOn[c] \in {Presence!Nobody, m0}
      BY DEF TrackerInverse
    <2> HIDE DEF m0
    <2>5. ASSUME NEW m \in Member, NEW d \in Conn PROVE connOf'[m] = d <=> memberOn'[d] = m
      <3>1. (connOf[m] = d <=> memberOn[d] = m) /\ (connOf[m0] = d <=> memberOn[d] = m0)
            /\ (connOf[m] = c <=> memberOn[c] = m)
        BY <2>1 DEF TrackerInverse
      <3>2. m # Presence!Nobody /\ m0 # Presence!Nobody /\ d # Presence!Nobody
        BY <2>1 DEF Identities
      <3>3. QED
        BY <2>2, <2>3, <2>4, <3>1, <3>2
    <2>6. \A d \in Conn : memberOn'[d] \in {Presence!Nobody, Of[d]}
      BY <2>2 DEF TrackerInverse, m0
    <2>7. QED
      BY <2>5, <2>6 DEF TrackerInverse
  <1>2. ASSUME NEW c \in Conn, Presence!Disconnect(c) PROVE TrackerInverse'
    <2>1. /\ connOf' = [m \in Member |-> IF memberOn[c] = m THEN Presence!Nobody ELSE connOf[m]]
          /\ memberOn' = [memberOn EXCEPT ![c] = Presence!Nobody]
      BY <1>2 DEF Presence!Disconnect
    <2>2. ASSUME NEW m \in Member, NEW d \in Conn PROVE connOf'[m] = d <=> memberOn'[d] = m
      <3>1. /\ connOf'[m] = IF memberOn[c] = m THEN Presence!Nobody ELSE connOf[m]
            /\ memberOn'[d] = IF d = c THEN Presence!Nobody ELSE memberOn[d]
        BY <2>1 DEF PresenceTypes
      <3>2. (connOf[m] = d <=> memberOn[d] = m) /\ (connOf[m] = c <=> memberOn[c] = m)
        BY DEF TrackerInverse
      <3>3. m # Presence!Nobody /\ d # Presence!Nobody
        BY DEF Identities
      <3>4. QED
        BY <3>1, <3>2, <3>3
    <2>3. \A d \in Conn : memberOn'[d] \in {Presence!Nobody, Of[d]}
      BY <2>1 DEF TrackerInverse, PresenceTypes
    <2>4. QED
      BY <2>2, <2>3 DEF TrackerInverse
  <1>3. CASE UNCHANGED <<connOf, memberOn>>
    BY <1>3 DEF TrackerInverse
  <1>4. \/ \E c \in Conn : Presence!HandleHello(c) \/ Presence!Disconnect(c)
        \/ UNCHANGED <<connOf, memberOn>>
    BY DEF Presence!Next, Presence!Open, Presence!Receive, Presence!Watch, Presence!Unwatch, Presence!Declare, Presence!HandleVisibility, Presence!vars
  <1>5. QED
    BY <1>1, <1>2, <1>3, <1>4

LEMMA HelloedStep ==
  ASSUME Identities, PresenceTypes, HelloedWasOpen, [Presence!Next]_Presence!vars
  PROVE  HelloedWasOpen'
  <1>1. ASSUME NEW c \in Conn, Presence!Open(c) PROVE HelloedWasOpen'
    <2>1. /\ \A d \in Conn : conn'[d] = IF d = c THEN "open" ELSE conn[d]
          /\ hello' = hello \cup {c} /\ latest' = latest
      BY <1>1 DEF Presence!Open, PresenceTypes
    <2>2. \A d \in hello : d \in Conn
      BY DEF PresenceTypes
    <2>3. \A m \in Member : latest[m] # Presence!Nobody => latest[m] \in Conn
      BY DEF PresenceTypes
    <2>4. QED
      BY <2>1, <2>2, <2>3 DEF HelloedWasOpen
  <1>2. ASSUME NEW c \in Conn, Presence!HandleHello(c) PROVE HelloedWasOpen'
    <2>1. /\ c \in hello /\ hello' = hello \ {c} /\ conn' = conn
          /\ \A m \in Member : latest'[m] = IF m = Of[c] THEN c ELSE latest[m]
      BY <1>2 DEF Presence!HandleHello, PresenceTypes
    <2>2. QED
      BY <2>1 DEF HelloedWasOpen
  <1>3. ASSUME NEW c \in Conn, Presence!Disconnect(c) PROVE HelloedWasOpen'
    <2>1. /\ \A d \in Conn : conn'[d] = IF d = c THEN "closed" ELSE conn[d]
          /\ hello' = hello /\ latest' = latest
      BY <1>3 DEF Presence!Disconnect, PresenceTypes
    <2>2. \A d \in hello : d \in Conn
      BY DEF PresenceTypes
    <2>3. \A m \in Member : latest[m] # Presence!Nobody => latest[m] \in Conn
      BY DEF PresenceTypes
    <2>4. QED
      BY <2>1, <2>2, <2>3 DEF HelloedWasOpen
  <1>4. CASE UNCHANGED <<conn, hello, latest>>
    BY <1>4 DEF HelloedWasOpen
  <1>5. \/ \E c \in Conn : Presence!Open(c) \/ Presence!HandleHello(c) \/ Presence!Disconnect(c)
        \/ UNCHANGED <<conn, hello, latest>>
    BY DEF Presence!Next, Presence!Receive, Presence!Watch, Presence!Unwatch, Presence!Declare, Presence!HandleVisibility, Presence!vars
  <1>6. QED
    BY <1>1, <1>2, <1>3, <1>4, <1>5

(* A connection that closes takes its member offline only if it is the one *)
(* the tracker knows the member by.                                        *)
LEMMA NewestStep ==
  ASSUME Identities, PresenceTypes, TrackerInverse, HelloedWasOpen, Presence!NewestTabCounts, [Presence!Next]_Presence!vars
  PROVE  Presence!NewestTabCounts'
  <1>1. ASSUME NEW c \in Conn, Presence!Open(c) PROVE Presence!NewestTabCounts'
    <2>1. /\ \A d \in Conn : d # c => conn'[d] = conn[d]
          /\ conn[c] = "new" /\ connOf' = connOf /\ latest' = latest
      BY <1>1 DEF Presence!Open, PresenceTypes
    <2>2. \A m \in Member : latest[m] # c
      BY <2>1 DEF HelloedWasOpen, Identities
    <2>3. QED
      BY <2>1, <2>2 DEF Presence!NewestTabCounts
  <1>2. ASSUME NEW c \in Conn, Presence!HandleHello(c) PROVE Presence!NewestTabCounts'
    <2>1. /\ \A m \in Member : m = Of[c] => latest'[m] = c /\ connOf'[m] = c
          /\ \A m \in Member : m # Of[c] => latest'[m] = latest[m] /\ connOf'[m] = connOf[m]
          /\ conn' = conn
      BY <1>2 DEF Presence!HandleHello, PresenceTypes
    <2>2. QED
      BY <2>1 DEF Presence!NewestTabCounts
  <1>3. ASSUME NEW c \in Conn, Presence!Disconnect(c) PROVE Presence!NewestTabCounts'
    <2>1. /\ \A d \in Conn : conn'[d] = IF d = c THEN "closed" ELSE conn[d]
          /\ latest' = latest
          /\ \A m \in Member : connOf'[m] = IF memberOn[c] = m THEN Presence!Nobody ELSE connOf[m]
      BY <1>3 DEF Presence!Disconnect, PresenceTypes
    <2>2. ASSUME NEW m \in Member, NEW d \in Conn, latest'[m] = d, conn'[d] = "open"
          PROVE  connOf'[m] = d
      <3>1. d # c /\ connOf[m] = d
        BY <2>1, <2>2 DEF Presence!NewestTabCounts
      <3>2. memberOn[c] # m
        BY <3>1 DEF TrackerInverse
      <3>3. QED
        BY <2>1, <3>1, <3>2
    <2>3. QED
      BY <2>2 DEF Presence!NewestTabCounts
  <1>4. CASE UNCHANGED <<conn, connOf, latest>>
    BY <1>4 DEF Presence!NewestTabCounts
  <1>5. \/ \E c \in Conn : Presence!Open(c) \/ Presence!HandleHello(c) \/ Presence!Disconnect(c)
        \/ UNCHANGED <<conn, connOf, latest>>
    BY DEF Presence!Next, Presence!Receive, Presence!Watch, Presence!Unwatch, Presence!Declare, Presence!HandleVisibility, Presence!vars
  <1>6. QED
    BY <1>1, <1>2, <1>3, <1>4, <1>5

(* Declarations are handled in any order; the newest has the last word. *)
LEMMA DeclarationStep ==
  ASSUME Identities, PresenceTypes, StampsApart, LastIsKnown, [Presence!Next]_Presence!vars
  PROVE  StampsApart' /\ LastIsKnown'
  <1>1. /\ \A m \in Member : visible[m].ts \in Nat
        /\ \A d \in declared : d.who \in Member /\ d.ts \in Nat
        /\ clock \in Nat
    BY DEF PresenceTypes, Presence!Declaration, Identities
  <1>2. ASSUME NEW m \in Member, NEW public \in BOOLEAN, Presence!Declare(m, public)
        PROVE  StampsApart' /\ LastIsKnown'
    <2> DEFINE new == [who |-> m, public |-> public, ts |-> clock + 1]
    <2>1. /\ clock' = clock + 1 /\ declared' = declared \cup {new} /\ visible' = visible
          /\ \A n \in Member : wished'[n] = IF n = m THEN public ELSE wished[n]
      BY <1>2 DEF Presence!Declare, PresenceTypes
    <2>2. new.who = m /\ new.public = public /\ new.ts = clock + 1
      OBVIOUS
    <2> HIDE DEF new
    <2>3. /\ \A d \in declared : d.ts < new.ts
          /\ \A n \in Member : visible[n].ts < new.ts
      BY <1>1, <2>2 DEF StampsApart
    <2>4. StampsApart'
      <3>1. ASSUME NEW d \in declared' PROVE d.ts <= clock' /\ d.ts # visible'[d.who].ts
        BY <1>1, <2>1, <2>2, <2>3, <3>1 DEF StampsApart
      <3>2. ASSUME NEW n \in Member PROVE visible'[n].ts <= clock'
        BY <1>1, <2>1 DEF StampsApart
      <3>3. ASSUME NEW d \in declared', NEW e \in declared', d.ts = e.ts PROVE d = e
        BY <1>1, <2>1, <2>2, <2>3, <3>3 DEF StampsApart
      <3>4. QED
        BY <3>1, <3>2, <3>3 DEF StampsApart
    <2>5. ASSUME NEW n \in Member PROVE InForce(n)' \/ Awaited(n)'
      <3>1. CASE n = m
        <4>1. new \in declared' /\ new.who = n /\ visible'[n].ts < new.ts
          BY <2>1, <2>2, <2>3, <3>1
        <4>2. new.public = wished'[n]
          BY <2>1, <2>2, <3>1, Zenon
        <4>3. \A e \in declared' : e.who = n /\ e # new => e.ts < new.ts
          BY <2>1, <2>3
        <4>4. Awaited(n)'
          BY <4>1, <4>2, <4>3 DEF Awaited
        <4>5. QED
          BY <4>4
      <3>2. CASE n # m
        <4>1. InForce(n) \/ Awaited(n)
          BY DEF LastIsKnown
        <4>2. InForce(n) => InForce(n)'
          BY <2>1, <2>2, <3>2 DEF InForce
        <4>3. Awaited(n) => Awaited(n)'
          BY <2>1, <2>2, <3>2 DEF Awaited
        <4>4. QED
          BY <4>1, <4>2, <4>3
      <3>3. QED
        BY <3>1, <3>2
    <2>6. QED
      BY <2>4, <2>5 DEF LastIsKnown
  <1>3. ASSUME NEW d \in declared, Presence!HandleVisibility(d)
        PROVE  StampsApart' /\ LastIsKnown'
    <2>1. declared' = declared \ {d} /\ clock' = clock /\ wished' = wished /\ d.who \in Member
      BY <1>1, <1>3 DEF Presence!HandleVisibility
    <2>2. CASE ~ Presence!Newer(d)
      <3>1. visible' = visible /\ ~ (d.ts > visible[d.who].ts)
        BY <1>3, <2>2 DEF Presence!HandleVisibility, Presence!Newer
      <3>2. StampsApart'
        BY <2>1, <3>1 DEF StampsApart
      <3>3. ASSUME NEW n \in Member PROVE InForce(n)' \/ Awaited(n)'
        <4>1. CASE InForce(n)
          BY <2>1, <3>1, <4>1 DEF InForce
        <4>2. CASE Awaited(n)
          <5>1. PICK w \in declared :
                  /\ w.who = n /\ w.public = wished[n] /\ visible[n].ts < w.ts
                  /\ \A e \in declared : e.who = n /\ e # w => e.ts < w.ts
            BY <4>2 DEF Awaited
          <5>2. w # d
            BY <1>1, <3>1, <5>1
          <5>3. Awaited(n)'
            BY <2>1, <3>1, <5>1, <5>2 DEF Awaited
          <5>4. QED
            BY <5>3
        <4>3. QED
          BY <4>1, <4>2 DEF LastIsKnown
      <3>4. QED
        BY <3>2, <3>3 DEF LastIsKnown
    <2>3. CASE Presence!Newer(d)
      <3>1. /\ d.ts > visible[d.who].ts
            /\ \A n \in Member : n # d.who => visible'[n] = visible[n]
            /\ visible'[d.who].ts = d.ts /\ visible'[d.who].public = d.public
        BY <1>3, <2>1, <2>3 DEF Presence!HandleVisibility, Presence!Newer, PresenceTypes
      <3>2. StampsApart'
        <4>1. ASSUME NEW e \in declared' PROVE e.ts <= clock' /\ e.ts # visible'[e.who].ts
          <5>1. e \in declared /\ e # d /\ e.who \in Member
            BY <1>1, <2>1
          <5>2. e.ts # d.ts
            BY <5>1 DEF StampsApart
          <5>3. QED
            BY <2>1, <3>1, <5>1, <5>2 DEF StampsApart
        <4>2. ASSUME NEW n \in Member PROVE visible'[n].ts <= clock'
          BY <2>1, <3>1 DEF StampsApart
        <4>3. ASSUME NEW x \in declared', NEW y \in declared', x.ts = y.ts PROVE x = y
          BY <2>1, <4>3 DEF StampsApart
        <4>4. QED
          BY <4>1, <4>2, <4>3 DEF StampsApart
      <3>3. ASSUME NEW n \in Member PROVE InForce(n)' \/ Awaited(n)'
        <4>1. CASE InForce(n)
          <5>1. n # d.who
            BY <1>1, <3>1, <4>1 DEF InForce
          <5>2. InForce(n)'
            BY <2>1, <3>1, <4>1, <5>1 DEF InForce
          <5>3. QED
            BY <5>2
        <4>2. CASE Awaited(n)
          <5>1. PICK w \in declared :
                  /\ w.who = n /\ w.public = wished[n] /\ visible[n].ts < w.ts
                  /\ \A e \in declared : e.who = n /\ e # w => e.ts < w.ts
            BY <4>2 DEF Awaited
          <5>2. CASE w = d
            <6>1. InForce(n)'
              BY <2>1, <3>1, <5>1, <5>2 DEF InForce
            <6>2. QED
              BY <6>1
          <5>3. CASE w # d
            <6>1. visible'[n].ts < w.ts
              BY <3>1, <5>1, <5>3
            <6>2. Awaited(n)'
              BY <2>1, <5>1, <5>3, <6>1 DEF Awaited
            <6>3. QED
              BY <6>2
          <5>4. QED
            BY <5>2, <5>3
        <4>3. QED
          BY <4>1, <4>2 DEF LastIsKnown
      <3>4. QED
        BY <3>2, <3>3 DEF LastIsKnown
    <2>4. QED
      BY <2>2, <2>3
  <1>4. CASE UNCHANGED <<declared, clock, visible, wished>>
    BY <1>4 DEF StampsApart, LastIsKnown, InForce, Awaited
  <1>5. \/ \E m \in Member, public \in BOOLEAN : Presence!Declare(m, public)
        \/ \E d \in declared : Presence!HandleVisibility(d)
        \/ UNCHANGED <<declared, clock, visible, wished>>
    BY DEF Presence!Next, Presence!Open, Presence!HandleHello, Presence!Disconnect, Presence!Receive, Presence!Watch, Presence!Unwatch, Presence!vars
  <1>6. QED
    BY <1>2, <1>3, <1>4, <1>5

(* A connection that closes is no watcher any more, and nobody is told of a *)
(* member that is not visible.                                             *)
LEMMA WatchingStep ==
  ASSUME Identities, PresenceTypes, ToldAreWatching, [Presence!Next]_Presence!vars
  PROVE  ToldAreWatching'
  <1>1. /\ \A m \in Member : watchers[m] \subseteq Conn
        /\ \A e \in current : e[1] \in Conn /\ e[2] \in Member /\ e = <<e[1], e[2]>>
    BY DEF PresenceTypes
  <1>2. ASSUME NEW c \in Conn, Presence!Open(c) PROVE ToldAreWatching'
    <2>1. /\ \A d \in Conn : conn'[d] = IF d = c THEN "open" ELSE conn[d]
          /\ UNCHANGED <<watchers, current, visible>>
      BY <1>2 DEF Presence!Open, PresenceTypes
    <2>2. QED
      BY <1>1, <2>1 DEF ToldAreWatching
  <1>3. ASSUME NEW c \in Conn, Presence!HandleHello(c) PROVE ToldAreWatching'
    <2>1. /\ Of[c] \in Member /\ Presence!Broadcast(Of[c], TRUE)
          /\ UNCHANGED <<conn, visible, watchers>>
      BY <1>3 DEF Presence!HandleHello, Identities
    <2>2. \A e \in current' : \/ e \in current
                              \/ visible[Of[c]].public /\ e[2] = Of[c] /\ e[1] \in watchers[Of[c]]
      BY <2>1, BroadcastAt
    <2>3. QED
      BY <2>1, <2>2 DEF ToldAreWatching
  <1>4. ASSUME NEW c \in Conn, Presence!Disconnect(c) PROVE ToldAreWatching'
    <2>1. /\ \A d \in Conn : d # c => conn'[d] = conn[d]
          /\ \A m \in Member : watchers'[m] = watchers[m] \ {c}
          /\ current' = {e \in current : e[1] # c} /\ visible' = visible
      BY <1>4 DEF Presence!Disconnect, PresenceTypes
    <2>2. \A m \in Member : \A d \in watchers'[m] : conn'[d] = "open"
      BY <1>1, <2>1 DEF ToldAreWatching
    <2>3. \A e \in current' : e[1] \in watchers'[e[2]] /\ visible'[e[2]].public
      BY <1>1, <2>1 DEF ToldAreWatching
    <2>4. QED
      BY <2>2, <2>3 DEF ToldAreWatching
  <1>5. ASSUME NEW c \in Conn, NEW m \in Member, Presence!Watch(c, m) PROVE ToldAreWatching'
    <2>1. /\ conn[c] = "open" /\ conn' = conn /\ visible' = visible
          /\ \A n \in Member : watchers'[n] = IF n = m THEN watchers[n] \cup {c} ELSE watchers[n]
      BY <1>5 DEF Presence!Watch, PresenceTypes
    <2>2. \A e \in current' : e \in current \/ (e = <<c, m>> /\ visible[m].public)
      BY <1>5 DEF Presence!Watch
    <2>3. \A n \in Member : \A d \in watchers'[n] : conn'[d] = "open"
      BY <2>1 DEF ToldAreWatching
    <2>4. ASSUME NEW e \in current' PROVE e[1] \in watchers'[e[2]] /\ visible'[e[2]].public
      <3>1. CASE e \in current
        BY <1>1, <2>1, <3>1 DEF ToldAreWatching
      <3>2. CASE e = <<c, m>> /\ visible[m].public
        BY <2>1, <3>2
      <3>3. QED
        BY <2>2, <3>1, <3>2
    <2>5. QED
      BY <2>3, <2>4 DEF ToldAreWatching
  <1>6. ASSUME NEW c \in Conn, NEW m \in Member, Presence!Unwatch(c, m) PROVE ToldAreWatching'
    <2>1. /\ conn' = conn /\ visible' = visible /\ current' = current \ {<<c, m>>}
          /\ \A n \in Member : watchers'[n] = IF n = m THEN watchers[n] \ {c} ELSE watchers[n]
      BY <1>6 DEF Presence!Unwatch, PresenceTypes
    <2>2. \A n \in Member : \A d \in watchers'[n] : conn'[d] = "open"
      BY <2>1 DEF ToldAreWatching
    <2>3. ASSUME NEW e \in current' PROVE e[1] \in watchers'[e[2]] /\ visible'[e[2]].public
      <3>1. e \in current /\ ~ (e[1] = c /\ e[2] = m)
        BY <1>1, <2>1
      <3>2. QED
        BY <1>1, <2>1, <3>1 DEF ToldAreWatching
    <2>4. QED
      BY <2>2, <2>3 DEF ToldAreWatching
  <1>7. ASSUME NEW d \in declared, Presence!HandleVisibility(d) PROVE ToldAreWatching'
    <2>1. conn' = conn /\ watchers' = watchers /\ d.who \in Member
      BY <1>7 DEF Presence!HandleVisibility, PresenceTypes, Presence!Declaration
    <2>2. ASSUME NEW e \in current' PROVE e \in current /\ visible'[e[2]].public
      <3>1. CASE ~ Presence!Newer(d)
        BY <1>7, <3>1 DEF Presence!HandleVisibility, ToldAreWatching
      <3>2. CASE Presence!Newer(d)
        <4>1. /\ visible' = [visible EXCEPT ![d.who] = [public |-> d.public, ts |-> d.ts]]
              /\ current' = IF d.public THEN current ELSE {x \in current : x[2] # d.who}
          BY <1>7, <3>2 DEF Presence!HandleVisibility
        <4>2. e \in current /\ (e[2] = d.who => d.public)
          BY <4>1
        <4>3. /\ e[2] = d.who => visible'[e[2]].public = d.public
              /\ e[2] # d.who => visible'[e[2]] = visible[e[2]]
          BY <1>1, <2>1, <4>1, <4>2 DEF PresenceTypes
        <4>4. QED
          BY <4>2, <4>3 DEF ToldAreWatching
      <3>3. QED
        BY <3>1, <3>2
    <2>3. QED
      BY <2>1, <2>2 DEF ToldAreWatching
  <1>8. CASE UNCHANGED <<conn, watchers, current, visible>>
    BY <1>8 DEF ToldAreWatching
  <1>9. \/ \E c \in Conn : Presence!Open(c) \/ Presence!HandleHello(c) \/ Presence!Disconnect(c)
        \/ \E c \in Conn, m \in Member : Presence!Watch(c, m) \/ Presence!Unwatch(c, m)
        \/ \E d \in declared : Presence!HandleVisibility(d)
        \/ UNCHANGED <<conn, watchers, current, visible>>
    BY DEF Presence!Next, Presence!Receive, Presence!Declare, Presence!vars
  <1>10. QED
    BY <1>2, <1>3, <1>4, <1>5, <1>6, <1>7, <1>8, <1>9

(* Each change of what the relay knows of a visible member is pushed to all *)
(* that have been told of it.                                              *)
LEMMA AgreeStep ==
  ASSUME Identities, PresenceTypes, TrackerInverse, ToldAreWatching, WillAgree, [Presence!Next]_Presence!vars
  PROVE  WillAgree'
  <1>1. /\ \A c \in Conn : pushed[c] \in Seq(Presence!Told)
        /\ \A m \in Member : Presence!Online(m) \in BOOLEAN /\ Presence!Online(m)' \in BOOLEAN
    BY DEF PresenceTypes, Presence!Online
  <1>2. \A c \in Conn, m \in Member : <<c, m>> \in current =>
          c \in watchers[m] /\ visible[m].public /\ conn[c] = "open"
    BY DEF ToldAreWatching
  <1>3. ASSUME NEW c \in Conn, Presence!HandleHello(c) PROVE WillAgree'
    <2> DEFINE m0 == Of[c]
    <2>1. m0 \in Member /\ Presence!Broadcast(m0, TRUE) /\ live' = live
      BY <1>3 DEF Presence!HandleHello, Identities
    <2>2. \A m \in Member : connOf'[m] = IF m = m0 THEN c ELSE connOf[m]
      BY <1>3, <2>1 DEF Presence!HandleHello, PresenceTypes
    <2>3. Presence!Online(m0)' = TRUE /\ \A m \in Member : m # m0 => Presence!Online(m)' = Presence!Online(m)
      BY <2>1, <2>2 DEF Presence!Online, Identities
    <2> HIDE DEF m0
    <2>4. /\ \A d \in Conn : pushed'[d] =
               IF visible[m0].public /\ d \in watchers[m0] /\ conn[d] = "open"
               THEN Append(pushed[d], Presence!Push(m0, TRUE)) ELSE pushed[d]
          /\ \A e \in current' : \/ e \in current
                                 \/ visible[m0].public /\ e[2] = m0 /\ e[1] \in watchers[m0]
      BY <2>1, BroadcastAt
    <2>5. ASSUME NEW d \in Conn, NEW m \in Member, <<d, m>> \in current'
          PROVE  EndsAs(pushed'[d], live'[d][m], m, Presence!Online(m)')
      <3>1. CASE m = m0
        <4>1. d \in watchers[m0] /\ visible[m0].public
          BY <1>2, <2>4, <2>5, <3>1
        <4>2. conn[d] = "open"
          BY <2>1, <4>1 DEF ToldAreWatching
        <4>3. pushed'[d] = Append(pushed[d], Presence!Push(m0, TRUE))
          BY <2>4, <4>1, <4>2
        <4>4. EndsAs(Append(pushed[d], Presence!Push(m0, TRUE)), live'[d][m], m0, TRUE)
          BY <1>1, <2>1, EndsWithPush
        <4>5. QED
          BY <2>3, <3>1, <4>3, <4>4
      <3>2. CASE m # m0
        <4>1. <<d, m>> \in current
          BY <2>4, <2>5, <3>2
        <4>2. EndsAs(pushed[d], live[d][m], m, Presence!Online(m))
          BY <4>1 DEF WillAgree
        <4>3. Presence!Push(m0, TRUE) \in Presence!Told /\ Presence!Push(m0, TRUE).who # m
          BY <2>1, <3>2, PushIsTold
        <4>4. EndsAs(Append(pushed[d], Presence!Push(m0, TRUE)), live[d][m], m, Presence!Online(m))
          BY <1>1, <4>2, <4>3, EndsWithOther
        <4>5. QED
          BY <2>1, <2>3, <2>4, <3>2, <4>2, <4>4
      <3>3. QED
        BY <3>1, <3>2
    <2>6. QED
      BY <2>5 DEF WillAgree
  <1>4. ASSUME NEW c \in Conn, Presence!Disconnect(c) PROVE WillAgree'
    <2>1. /\ current' = {e \in current : e[1] # c} /\ live' = live
          /\ \A m \in Member : connOf'[m] = IF memberOn[c] = m THEN Presence!Nobody ELSE connOf[m]
      BY <1>4 DEF Presence!Disconnect
    <2>2. \A m \in Member : Presence!Online(m)' = IF memberOn[c] = m THEN FALSE ELSE Presence!Online(m)
      BY <2>1 DEF Presence!Online
    <2>3. ASSUME NEW d \in Conn, NEW m \in Member, <<d, m>> \in current'
          PROVE  EndsAs(pushed'[d], live'[d][m], m, Presence!Online(m)')
      <3>1. d # c /\ <<d, m>> \in current
        BY <2>1, <2>3
      <3>2. d \in watchers[m] /\ visible[m].public /\ conn[d] = "open"
        BY <1>2, <3>1
      <3>3. EndsAs(pushed[d], live[d][m], m, Presence!Online(m))
        BY <3>1 DEF WillAgree
      <3>4. \/ pushed'[d] = pushed[d] /\ (memberOn[c] = Presence!Nobody \/ ~ visible[memberOn[c]].public
                                          \/ d \notin watchers[memberOn[c]] \/ conn[d] # "open")
            \/ /\ memberOn[c] \in Member /\ visible[memberOn[c]].public
               /\ pushed'[d] = Append(pushed[d], Presence!Push(memberOn[c], FALSE))
        BY <1>4, <3>1, DisconnectAt
      <3>5. CASE memberOn[c] = m
        <4>1. pushed'[d] = Append(pushed[d], Presence!Push(m, FALSE))
          BY <3>2, <3>4, <3>5 DEF Identities
        <4>2. EndsAs(Append(pushed[d], Presence!Push(m, FALSE)), live'[d][m], m, FALSE)
          BY <1>1, EndsWithPush
        <4>3. QED
          BY <2>2, <3>5, <4>1, <4>2
      <3>6. CASE memberOn[c] # m
        <4>1. Presence!Online(m)' = Presence!Online(m) /\ live'[d][m] = live[d][m]
          BY <2>1, <2>2, <3>6
        <4>2. CASE pushed'[d] = pushed[d]
          BY <3>3, <4>1, <4>2
        <4>3. CASE memberOn[c] \in Member /\ pushed'[d] = Append(pushed[d], Presence!Push(memberOn[c], FALSE))
          <5>1. Presence!Push(memberOn[c], FALSE) \in Presence!Told /\ Presence!Push(memberOn[c], FALSE).who # m
            BY <3>6, <4>3, PushIsTold
          <5>2. EndsAs(Append(pushed[d], Presence!Push(memberOn[c], FALSE)), live[d][m], m, Presence!Online(m))
            BY <1>1, <3>3, <5>1, EndsWithOther
          <5>3. QED
            BY <4>1, <4>3, <5>2
        <4>4. QED
          BY <3>4, <4>2, <4>3
      <3>7. QED
        BY <3>5, <3>6
    <2>4. QED
      BY <2>3 DEF WillAgree
  <1>5. ASSUME NEW c \in Conn, NEW m \in Member, Presence!Watch(c, m) PROVE WillAgree'
    <2>1. live' = live /\ connOf' = connOf /\ \A n \in Member : Presence!Online(n)' = Presence!Online(n)
      BY <1>5 DEF Presence!Watch, Presence!Online
    <2>2. CASE ~ visible[m].public
      <3>1. pushed' = pushed /\ current' = current
        BY <1>5, <2>2 DEF Presence!Watch
      <3>2. QED
        BY <2>1, <3>1 DEF WillAgree
    <2>3. CASE visible[m].public
      <3>1. /\ pushed' = [pushed EXCEPT ![c] = Append(@, Presence!Push(m, Presence!Online(m)))]
            /\ current' = current \cup {<<c, m>>}
        BY <1>5, <2>3 DEF Presence!Watch
      <3>2. \A d \in Conn : pushed'[d] = IF d = c THEN Append(pushed[d], Presence!Push(m, Presence!Online(m)))
                                        ELSE pushed[d]
        BY <3>1 DEF PresenceTypes
      <3>3. ASSUME NEW d \in Conn, NEW n \in Member, <<d, n>> \in current'
            PROVE  EndsAs(pushed'[d], live'[d][n], n, Presence!Online(n)')
        <4>1. CASE d = c /\ n = m
          <5>1. EndsAs(Append(pushed[d], Presence!Push(m, Presence!Online(m))), live[d][n], m, Presence!Online(m))
            BY <1>1, EndsWithPush
          <5>2. QED
            BY <2>1, <3>2, <4>1, <5>1
        <4>2. CASE ~ (d = c /\ n = m)
          <5>1. EndsAs(pushed[d], live[d][n], n, Presence!Online(n))
            <6>1. <<d, n>> \in current
              BY <3>1, <3>3, <4>2
            <6>2. QED
              BY <6>1 DEF WillAgree
          <5>2. CASE d # c
            BY <2>1, <3>2, <5>1, <5>2
          <5>3. CASE d = c
            <6>1. Presence!Push(m, Presence!Online(m)) \in Presence!Told /\ Presence!Push(m, Presence!Online(m)).who # n
              BY <1>1, <4>2, <5>3, PushIsTold
            <6>2. EndsAs(Append(pushed[d], Presence!Push(m, Presence!Online(m))), live[d][n], n, Presence!Online(n))
              BY <1>1, <5>1, <6>1, EndsWithOther
            <6>3. QED
              BY <2>1, <3>2, <5>3, <6>2
          <5>4. QED
            BY <5>2, <5>3
        <4>3. QED
          BY <4>1, <4>2
      <3>4. QED
        BY <3>3 DEF WillAgree
    <2>4. QED
      BY <2>2, <2>3
  <1>6. ASSUME NEW c \in Conn, Presence!Receive(c) PROVE WillAgree'
    <2> DEFINE h == Head(pushed[c])
    <2>1. /\ current' = current /\ connOf' = connOf /\ pushed[c] # <<>>
          /\ \A m \in Member : Presence!Online(m)' = Presence!Online(m)
      BY <1>6 DEF Presence!Receive, Presence!Online
    <2>2. h \in Presence!Told
      BY <1>1, <2>1, HeadTailProperties
    <2> HIDE DEF h
    <2>3. h.who \in Member
      BY <2>2 DEF Presence!Told
    <2>4. \A d \in Conn : pushed'[d] = IF d = c THEN Tail(pushed[d]) ELSE pushed[d]
      BY <1>6 DEF Presence!Receive, PresenceTypes
    <2>5. live' = [live EXCEPT ![c][h.who] = h.online]
      BY <1>6 DEF Presence!Receive, h
    <2>6. \A d \in Conn, m \in Member :
            live'[d][m] = IF d = c /\ m = h.who THEN h.online ELSE live[d][m]
      BY <2>3, <2>5 DEF PresenceTypes
    <2>7. ASSUME NEW d \in Conn, NEW m \in Member, <<d, m>> \in current'
          PROVE  EndsAs(pushed'[d], live'[d][m], m, Presence!Online(m)')
      <3>1. EndsAs(pushed[d], live[d][m], m, Presence!Online(m))
        BY <2>1, <2>7 DEF WillAgree
      <3>2. CASE d # c
        BY <2>1, <2>4, <2>6, <3>1, <3>2
      <3>3. CASE d = c
        <4>1. EndsAs(Tail(pushed[d]), IF Head(pushed[d]).who = m THEN Head(pushed[d]).online
                                      ELSE live[d][m], m, Presence!Online(m))
          BY <1>1, <2>1, <3>1, <3>3, EndsWithTail
        <4>2. live'[d][m] = IF Head(pushed[d]).who = m THEN Head(pushed[d]).online ELSE live[d][m]
          BY <2>6, <3>3 DEF h
        <4>3. QED
          BY <2>1, <2>4, <3>3, <4>1, <4>2
      <3>4. QED
        BY <3>2, <3>3
    <2>8. QED
      BY <2>7 DEF WillAgree
  <1>7. CASE current' \subseteq current /\ UNCHANGED <<pushed, live, connOf>>
    BY <1>7 DEF WillAgree, Presence!Online
  <1>8. ASSUME NEW d \in declared, Presence!HandleVisibility(d)
        PROVE  current' \subseteq current /\ UNCHANGED <<pushed, live, connOf>>
    BY <1>8 DEF Presence!HandleVisibility
  <1>9. ASSUME NEW c \in Conn, NEW m \in Member, Presence!Unwatch(c, m)
        PROVE  current' \subseteq current /\ UNCHANGED <<pushed, live, connOf>>
    BY <1>9 DEF Presence!Unwatch
  <1>10. \/ \E c \in Conn : Presence!HandleHello(c) \/ Presence!Disconnect(c) \/ Presence!Receive(c)
         \/ \E c \in Conn, m \in Member : Presence!Watch(c, m) \/ Presence!Unwatch(c, m)
         \/ \E d \in declared : Presence!HandleVisibility(d)
         \/ current' \subseteq current /\ UNCHANGED <<pushed, live, connOf>>
    BY DEF Presence!Next, Presence!Open, Presence!Declare, Presence!vars
  <1>11. QED
    BY <1>3, <1>4, <1>5, <1>6, <1>7, <1>8, <1>9, <1>10

LEMMA PresenceStep ==
  ASSUME Identities
  PROVE  PresenceInv /\ [Presence!Next]_Presence!vars => PresenceInv'
  <1>1. SUFFICES ASSUME PresenceInv, [Presence!Next]_Presence!vars PROVE PresenceInv'
    OBVIOUS
  <1>2. /\ PresenceTypes /\ TrackerInverse /\ HelloedWasOpen /\ Presence!NewestTabCounts
        /\ StampsApart /\ LastIsKnown /\ ToldAreWatching /\ WillAgree
    BY <1>1 DEF PresenceInv
  <1>3. PresenceTypes' /\ TrackerInverse' /\ HelloedWasOpen'
    BY <1>1, <1>2, PresenceTypesStep, TrackerStep, HelloedStep
  <1>4. Presence!NewestTabCounts' /\ StampsApart' /\ LastIsKnown'
    BY <1>1, <1>2, NewestStep, DeclarationStep
  <1>5. ToldAreWatching' /\ WillAgree'
    BY <1>1, <1>2, WatchingStep, AgreeStep
  <1>6. QED
    BY <1>3, <1>4, <1>5 DEF PresenceInv

LEMMA PresenceHolds ==
  ASSUME Identities
  PROVE  Presence!Spec => []PresenceInv
  <1>1. Presence!Init => PresenceInv
    BY PresenceInit
  <1>2. PresenceInv /\ [Presence!Next]_Presence!vars => PresenceInv'
    BY PresenceStep
  <1>3. QED
    BY <1>1, <1>2, PTL DEF Presence!Spec

-----------------------------------------------------------------------------
(* The results. *)

(* The type invariant of presence: what a queue holds are pushes. *)
THEOREM PresenceTypeCorrect ==
  ASSUME Identities
  PROVE  Presence!Spec => []Presence!TypeOK
  <1>1. PresenceInv => Presence!TypeOK
    <2>1. SUFFICES ASSUME PresenceTypes PROVE Presence!TypeOK
      BY DEF PresenceInv
    <2>2. \A c \in Conn : \A i \in DOMAIN pushed[c] : pushed[c][i] \in Presence!Told
      BY <2>1 DEF PresenceTypes
    <2>3. QED
      BY <2>1, <2>2 DEF PresenceTypes, Presence!TypeOK
  <1>2. QED
    BY <1>1, PresenceHolds, PTL

(* A Space that has been told of a visible member it watches agrees with the *)
(* relay once its pushes are in, in whatever order the tabs of that member  *)
(* say hello and close, hellos of closed connections and declarations       *)
(* handled late included.                                                  *)
THEOREM WatchersHearTheRelay ==
  ASSUME Identities
  PROVE  Presence!Spec => []Presence!WatchersAgree
  <1>1. PresenceInv => Presence!WatchersAgree
    <2>1. SUFFICES ASSUME WillAgree,
                          NEW c \in Conn, NEW m \in Member, <<c, m>> \in current, pushed[c] = <<>>
                   PROVE  (live[c][m] = "on") = Presence!Online(m)
      BY DEF PresenceInv, Presence!WatchersAgree
    <2>2. EndsAs(<<>>, live[c][m], m, Presence!Online(m))
      BY <2>1 DEF WillAgree
    <2>3. Len(<<>>) = 0 /\ ~ \E i \in 1..0 : TRUE
      OBVIOUS
    <2>4. QED
      BY <2>2, <2>3 DEF EndsAs
  <1>2. QED
    BY <1>1, PresenceHolds, PTL

(* While the tab whose hello was handled last is open, the tracker knows the *)
(* member by it: other tabs that close do not set the member offline.      *)
THEOREM NewestTabStays ==
  ASSUME Identities
  PROVE  Presence!Spec => []Presence!NewestTabCounts
  <1>1. PresenceInv => Presence!NewestTabCounts
    BY DEF PresenceInv
  <1>2. QED
    BY <1>1, PresenceHolds, PTL

(* With all declarations of a member handled, in whatever order, the relay  *)
(* goes by the one made last.                                              *)
THEOREM LastWordCounts ==
  ASSUME Identities
  PROVE  Presence!Spec => []Presence!LastDeclarationCounts
  <1>1. PresenceInv => Presence!LastDeclarationCounts
    <2>1. SUFFICES ASSUME LastIsKnown,
                          NEW m \in Member, \A d \in declared : d.who # m
                   PROVE  visible[m].public = wished[m]
      BY DEF PresenceInv, Presence!LastDeclarationCounts
    <2>2. ~ Awaited(m)
      BY <2>1 DEF Awaited
    <2>3. QED
      BY <2>1, <2>2 DEF LastIsKnown, InForce
  <1>2. QED
    BY <1>1, PresenceHolds, PTL
=============================================================================
