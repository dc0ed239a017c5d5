--------------------------- MODULE LiteReconcile ---------------------------
(***************************************************************************)
(* Qu Lite: range-based set reconciliation between two peers               *)
(* (packages/lite/src/sync/negentropy.js, as sync.js drives it).           *)
(*                                                                         *)
(* Items are ordered by time stamp and id; their place in that order names *)
(* them.  A message is a sequence of ranges, each up to a bound: to skip,  *)
(* to compare by fingerprint, or with the ids listed.  A fingerprint is    *)
(* the set it stands for: no collisions.  Both sides have loaded their     *)
(* items before the first message.  Lengths count ranges and ids.          *)
(***************************************************************************)
EXTENDS Naturals, Sequences, FiniteSets

CONSTANTS
  NItems,   \* items are 1..NItems
  TsOf,     \* item -> time stamp, not decreasing
  Buckets,  \* 16 in the code
  Limits    \* frame size limits to consider, 0: none

Item == 1..NItems
Infinity == NItems + 1       \* Number.MAX_VALUE
Side == {"initiator", "responder"}

VARIABLES
  limit,  \* frameSizeLimit of both
  items,  \* side -> the items it holds
  turn,   \* the side that has a message to answer, or "done"
  msg,    \* that message
  have,   \* what the initiator knows the responder lacks
  need,   \* what it knows itself to lack
  rounds  \* messages the responder has answered (history)

vars == <<limit, items, turn, msg, have, need, rounds>>

Span(upto, mode, ids) == [upto |-> upto, mode |-> mode, ids |-> ids]
Within(s, low, upto) == {i \in s : low <= i /\ i < upto}
First(s, n) == {i \in s : Cardinality({j \in s : j <= i}) <= n}
Least(s) == CHOOSE i \in s : \A j \in s : i <= j

-----------------------------------------------------------------------------
(* Plausible bugs in the operators of the next section, for mutation runs. *)

NotShrunk(upto, rest) == upto          \* the ids that did not fit are forgotten
ReserveTwice(n) == limit # 0 /\ n > limit - 2   \* the reserve is taken off twice
-----------------------------------------------------------------------------
(* getMinimalBound(): above prev, not above curr. *)
MinimalBound(prev, curr) ==
  IF TsOf[prev] = TsOf[curr] THEN curr ELSE Least({i \in Item : TsOf[i] = TsOf[curr]})

(* exceededFrameSizeLimit() *)
Exceeded(n) == limit # 0 /\ n > limit

(* The bound of a list of ids that was cut short: the first one left out. *)
EndBound(upto, rest) == IF rest = {} THEN upto ELSE Least(rest)

-----------------------------------------------------------------------------
(* How many of n items are in the first b buckets. *)
BucketEnds(n) ==
  LET end[b \in 0..Buckets] ==
        IF b = 0 THEN 0 ELSE end[b - 1] + n \div Buckets + (IF b <= n % Buckets THEN 1 ELSE 0)
  IN  end

(* splitRange() *)
Split(own, upto) ==
  LET n == Cardinality(own)
      end == BucketEnds(n)
      bucket(b) == First(own, end[b]) \ First(own, end[b - 1])
      bound(b) == IF b = Buckets THEN upto
                  ELSE MinimalBound(CHOOSE i \in bucket(b) : \A j \in bucket(b) : j <= i,
                                    Least(bucket(b + 1)))
  IN  IF n < Buckets * 2 THEN <<Span(upto, "ids", own)>>
      ELSE [b \in 1..Buckets |-> Span(bound(b), "fingerprint", bucket(b))]

(* The length of ranges with the ids they list, and for how many there is room. *)
Length(o) == Len(o) + Cardinality(UNION {o[k].ids : k \in {j \in DOMAIN o : o[j].mode = "ids"}})
Fitting(n, room) == IF limit = 0 \/ n <= room THEN n ELSE room

(* reconcile(): one range of the query.  acc: what the loop has so far. *)
Answer(side, acc, r) ==
  LET all == items[side]
      own == Within(all, acc.low, r.upto)
      splits == r.mode = "fingerprint" /\ r.ids # own
      lists == r.mode = "ids" /\ side = "responder"
      finds == r.mode = "ids" /\ side = "initiator"
      skipped == IF acc.skip /\ (splits \/ lists) THEN <<Span(acc.prev, "skip", {})>> ELSE <<>>
      (* the responder lists ids while the message is not over the limit *)
      listed == First(own, Fitting(Cardinality(own), limit - acc.len + 1))
      end == IF lists THEN EndBound(r.upto, own \ listed) ELSE r.upto
      o == skipped \o (IF splits THEN Split(own, r.upto)
                       ELSE IF lists THEN <<Span(end, "ids", listed)>> ELSE <<>>)
      len == acc.len + Length(o)
      over == Exceeded(len)
  IN  IF acc.over THEN acc
      ELSE [low |-> end, prev |-> r.upto, skip |-> ~splits /\ ~lists, len |-> len, over |-> over,
            out |-> (IF over /\ ~lists THEN acc.out ELSE acc.out \o o) \o
                    (IF over THEN <<Span(Infinity, "fingerprint", Within(all, end, Infinity))>> ELSE <<>>),
            have |-> acc.have \cup (IF finds THEN own \ r.ids ELSE {}),
            need |-> acc.need \cup (IF finds THEN r.ids \ own ELSE {})]

Answered(side) ==
  LET start == [low |-> 1, prev |-> 1, skip |-> FALSE, len |-> 0, over |-> FALSE, out |-> <<>>,
                have |-> have, need |-> need]
      after[k \in 0..Len(msg)] ==
        IF k = 0 THEN start ELSE CHOOSE x \in {Answer(side, a, msg[k]) : a \in {after[k - 1]}} : TRUE
  IN  after[Len(msg)]

-----------------------------------------------------------------------------
TypeOK ==
  /\ limit \in Limits /\ items \in [Side -> SUBSET Item] /\ turn \in Side \cup {"done"}
  /\ \A i \in DOMAIN msg : /\ msg[i].upto \in 1..Infinity /\ msg[i].ids \subseteq Item
                           /\ msg[i].mode \in {"skip", "fingerprint", "ids"}
  /\ have \subseteq Item /\ need \subseteq Item /\ rounds \in Nat

(* initiate() *)
Init ==
  /\ limit \in Limits /\ items \in [Side -> SUBSET Item]
  /\ turn = "responder" /\ msg = Split(items["initiator"], Infinity)
  /\ have = {} /\ need = {} /\ rounds = 0

Respond ==
  /\ turn = "responder" /\ turn' = "initiator"
  /\ msg' = Answered("responder").out /\ rounds' = rounds + 1
  /\ UNCHANGED <<limit, items, have, need>>

(* An empty answer ends the session. *)
Continue ==
  /\ turn = "initiator"
  /\ LET a == Answered("initiator")
     IN  /\ have' = a.have /\ need' = a.need /\ msg' = a.out
         /\ turn' = IF a.out = <<>> THEN "done" ELSE "responder"
  /\ UNCHANGED <<limit, items, rounds>>

Next == Respond \/ Continue
Spec == Init /\ [][Next]_vars

-----------------------------------------------------------------------------
(***************************************************************************)
(* What a session that ends has found is true, and without a frame limit   *)
(* it is the whole difference, whatever both sides hold.  With a limit the *)
(* code can miss some: a range whose split did not fit is left out of the  *)
(* fingerprint of the rest as well (negentropy.js:403).                    *)
(***************************************************************************)
DifferenceFound ==
  LET lacks(s, t) == items[s] \ items[t]
  IN  turn = "done" =>
        /\ have \subseteq lacks("initiator", "responder")
        /\ need \subseteq lacks("responder", "initiator")
        /\ limit = 0 => /\ have = lacks("initiator", "responder")
                        /\ need = lacks("responder", "initiator")

(***************************************************************************)
(* A session does not go on for ever: messages that are cut at the limit   *)
(* still settle two items or more each time, a last round none.  (So with  *)
(* the limits checked; one with less room settles fewer.  The code refuses *)
(* limits below 4096 bytes, negentropy.js:261.)                            *)
(***************************************************************************)
SessionEnds == rounds <= Cardinality(UNION {items[s] : s \in Side}) \div 2 + 1
=============================================================================
