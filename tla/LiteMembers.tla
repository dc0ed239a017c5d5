---------------------------- MODULE LiteMembers ----------------------------
(***************************************************************************)
(* Qu Lite: who belongs to a group, and how a new epoch key reaches its    *)
(* members (packages/lite/src/members.js, space.js).                       *)
(*                                                                         *)
(* Member entries, the admin list and key packages are records like any    *)
(* other: they arrive in any order, and every device judges each of them   *)
(* by the list it has.  A record that is deferred or refused is judged     *)
(* again: reindex() retries the one, the next reconcile offers the other;  *)
(* both are the same step here.  Of a key the newest record counts         *)
(* (LiteStore shows that).  One device per person, signatures verify.      *)
(*                                                                         *)
(* An invite is a bearer object.  Nothing consumes it: whoever has the     *)
(* link may open it, a second time, after others, after being removed.     *)
(*                                                                         *)
(* promote() only makes admins, but the list it writes leaves out who was  *)
(* removed, or revealed itself as a member meanwhile: from there on the    *)
(* order of arrival decides whether records of that admin are accepted.    *)
(***************************************************************************)
EXTENDS Naturals, FiniteSets, FiniteSetsExt

CONSTANTS
  Person,     \* aliases, each with one device
  Owner,      \* the founder
  Newcomer,   \* those who have not joined yet; the others are members
  Number,     \* Person -> its rank among aliases, 1..Cardinality(Person)
  Ahead,      \* Person -> how far its clock is ahead of the others
  MaxEpoch,   \* bound: epochs
  MaxRecords, \* bound: records written
  MaxInvites, \* bound: invites issued
  MaxCrashes  \* bound: processes that stop between two writes

Nobody == "nobody"
NoEpoch == [n |-> 0, maker |-> Nobody]
Founding == [n |-> 0, maker |-> Owner]

VARIABLES
  recs,      \* all records written
  accepted,  \* device -> records it has indexed
  epochs,    \* device -> epoch number -> who made the one it holds
  adm,       \* device -> the admin list it goes by: seq and members
  tokens,    \* invites issued: token and what comes with it
  rotating,  \* devices between the entry that removes and the new epoch
  overtaken, \* somebody joined without an epoch that was out, or was not known
             \* to who made one (history)
  handed,    \* person -> later epochs that came with an invite it opened (history)
  crashes

vars == <<recs, accepted, epochs, adm, tokens, rotating, overtaken, handed, crashes>>

-----------------------------------------------------------------------------
Best(R) == CHOOSE r \in R : \A s \in R : s.h <= r.h
SameKey(r, s) == r.kind = s.kind /\ r.who = s.who /\ r.n = s.n
Current(r, R) == \A s \in R : SameKey(r, s) => s.h <= r.h

EntriesOf(d, x) == {r \in accepted[d] : r.kind = "entry" /\ r.who = x}
Role(d, x) == IF EntriesOf(d, x) = {} THEN "none" ELSE Best(EntriesOf(d, x)).role
IsAdmin(d, x) == x = Owner \/ x \in adm[d].list
Listed(d) == {x \in Person : EntriesOf(d, x) # {}}
Active(d) == {x \in Person : Role(d, x) \in {"owner", "admin", "member"}}
LastOf(known) == Max({n \in 0..MaxEpoch : known[n] # Nobody} \cup {0})
Latest(d) == LastOf(epochs[d])

-----------------------------------------------------------------------------
(* Plausible bugs in the operators of the next section, for mutation runs. *)

Everybody(d) == Listed(d)                 \* boxes for removed members too
UnderTheNew(d) == [n |-> Latest(d) + 1, maker |-> d]  \* sealed with the key it carries
ListKept(d, r) == [seq |-> r.n, list |-> adm[d].list] \* the list is not taken over
-----------------------------------------------------------------------------
(* rotate(): for whom the new key is boxed. *)
Recipients(d) == Active(d)

(* The epoch its key package is published under: the old one. *)
PublishedUnder(d) == [n |-> Latest(d), maker |-> epochs[d][Latest(d)]]

(* judge() of an ordinary record: what its author's entry allows. *)
PostAllowed(d, r) ==
  /\ Role(d, r.by) # "none"
  /\ Role(d, r.by) = "removed" => r.h <= Best(EntriesOf(d, r.by)).h

(* judge() of an own entry: re-written with the same role, or by an invite. *)
SelfAllowed(d, r) ==
  IF Role(d, r.by) # "none"
  THEN Role(d, r.by) # "removed" /\ r.role = Role(d, r.by)
  ELSE /\ r.token.by # Nobody /\ r.token.role = r.role /\ IsAdmin(d, r.token.by)
       /\ \A x \in Listed(d) \ {r.by} : Best(EntriesOf(d, x)).token # r.token

(* addAdmins(): the newest list the owner signed. *)
Adopted(d, r) == IF r.n > adm[d].seq THEN [seq |-> r.n, list |-> r.to] ELSE adm[d]

-----------------------------------------------------------------------------
(* admit() and judge(): the epoch must be known, then who wrote it decides. *)
Judged(d, r) ==
  \/ r.by = Owner
  \/ r.kind = "entry" /\ IsAdmin(d, r.by)
  \/ r.kind = "entry" /\ r.who = r.by /\ SelfAllowed(d, r)
  \/ r.kind \in {"grants", "keys"} /\ IsAdmin(d, r.by)
  \/ r.kind = "post" /\ PostAllowed(d, r)

Admissible(d, r) ==
  /\ r \in recs \ accepted[d] /\ epochs[d][r.ep.n] = r.ep.maker
  /\ Judged(d, r)

NoToken == [by |-> Nobody, role |-> "none", id |-> 0]
Token == [by: Person, role: {"member", "admin"}, id: 1..MaxInvites] \cup {NoToken}
Record == [kind: {"entry", "grants", "keys", "post"}, by: Person, h: Nat, ep: [n: 0..MaxEpoch, maker: Person],
           who: Person \cup {Nobody}, role: {"owner", "admin", "member", "removed", "none"}, token: Token,
           n: 0..MaxRecords, to: SUBSET Person]

TypeOK ==
  /\ recs \subseteq Record /\ \A d \in Person : accepted[d] \subseteq recs
  /\ epochs \in [Person -> [0..MaxEpoch -> Person \cup {Nobody}]]
  /\ adm \in [Person -> [seq: 0..MaxRecords, list: SUBSET Person]]
  /\ \A t \in tokens : t.token \in Token
  /\ rotating \subseteq Person /\ overtaken \in BOOLEAN /\ crashes \in 0..MaxCrashes
  /\ handed \in [Person -> SUBSET (1..MaxEpoch)]

Founded(x) ==
  [kind |-> "entry", by |-> Owner, h |-> Number[x], ep |-> Founding, who |-> x,
   role |-> IF x = Owner THEN "owner" ELSE "member", token |-> NoToken, n |-> 0, to |-> {}]

Init ==
  /\ recs = {Founded(x) : x \in Person \ Newcomer}
  /\ accepted = [d \in Person |-> IF d \in Newcomer THEN {} ELSE recs]
  /\ epochs = [d \in Person |-> [n \in 0..MaxEpoch |->
                 IF n = 0 /\ d \notin Newcomer THEN Owner ELSE Nobody]]
  /\ adm = [d \in Person |-> [seq |-> 0, list |-> {}]]
  /\ tokens = {} /\ rotating = {} /\ overtaken = FALSE /\ crashes = 0
  /\ handed = [d \in Person |-> {}]

-----------------------------------------------------------------------------
(* A write of d: its clock is past whatever it has accepted. *)
Now(d) ==
  LET K == Cardinality(Person)
  IN  (Max({r.h : r \in accepted[d]} \cup {0}) \div K + 1 + Ahead[d]) * K + Number[d]

Blank(d, kind) ==
  [kind |-> kind, by |-> d, h |-> Now(d), ep |-> [n |-> Latest(d), maker |-> epochs[d][Latest(d)]],
   who |-> Nobody, role |-> "none", token |-> NoToken, n |-> 0, to |-> {}]

Written == Cardinality(recs) - Cardinality(Person \ Newcomer)
Writes(d, R) ==
  /\ Written + Cardinality(R) <= MaxRecords
  /\ recs' = recs \cup R /\ accepted' = [accepted EXCEPT ![d] = @ \cup R]

(* invite(): the token, the admin list, and the epochs that its bearer will *)
(* take over from it: those made by who is on that list (addEpoch()).      *)
Invite(d, role) ==
  /\ IsAdmin(d, d) /\ Cardinality(tokens) < MaxInvites
  /\ tokens' = tokens \cup
       {[token |-> [by |-> d, role |-> role, id |-> Cardinality(tokens) + 1], adm |-> adm[d],
         epochs |-> [n \in 0..MaxEpoch |->
                       IF n = 0 \/ IsAdmin(d, epochs[d][n]) THEN epochs[d][n] ELSE Nobody]]}
  /\ UNCHANGED <<recs, accepted, epochs, adm, rotating, overtaken, handed, crashes>>

(* acceptInvite() in a process of its own: what the invite brings, then what *)
(* the device has stored.                                                    *)
Merged(known, brought) == [n \in 0..MaxEpoch |-> IF brought[n] # Nobody THEN brought[n] ELSE known[n]]
Newer(L, M) == IF L.seq < M.seq THEN M ELSE L

(* join(): the own entry, unless there is one. *)
Join(x, t, known) ==
  /\ x \notin Listed(x)
  /\ Writes(x, {[Blank(x, "entry") EXCEPT !.who = x, !.role = t.token.role, !.token = t.token,
                  !.ep = [n |-> LastOf(known), maker |-> known[LastOf(known)]]]})
  /\ overtaken' = (overtaken \/ \E r \in recs : r.kind = "keys" /\ t.epochs[r.n] = Nobody)

AcceptInvite(x) ==
  /\ x \notin rotating
  /\ \E t \in tokens :
       /\ epochs' = [epochs EXCEPT ![x] = Merged(@, t.epochs)]
       /\ adm' = [adm EXCEPT ![x] = Newer(@, t.adm)]
       /\ handed' = [handed EXCEPT ![x] = @ \cup {n \in 1..MaxEpoch : t.epochs[n] # Nobody}]
       /\ \/ Join(x, t, Merged(epochs[x], t.epochs))
          \/ x \in Listed(x) /\ UNCHANGED <<recs, accepted, overtaken>>
  /\ UNCHANGED <<tokens, rotating, crashes>>

(* reveal(): the own entry again, without the token. *)
Reveal(d) ==
  /\ d # Owner /\ Role(d, d) \in {"admin", "member"}
  /\ Writes(d, {[Blank(d, "entry") EXCEPT !.who = d, !.role = Role(d, d)]})
  /\ UNCHANGED <<epochs, adm, tokens, rotating, overtaken, handed, crashes>>

(* promote(): the entry, then the admin list, which is kept at once. *)
Promote(x) ==
  /\ x # Owner /\ Role(Owner, x) \in {"member", "admin"}
  /\ LET old == Best(EntriesOf(Owner, x))
         list == {y \in Person : y = x \/ Role(Owner, y) = "admin"}
     IN  /\ Writes(Owner,
              {[Blank(Owner, "entry") EXCEPT !.who = x, !.role = "admin", !.token = old.token],
               [Blank(Owner, "grants") EXCEPT !.n = adm[Owner].seq + 1, !.to = list]})
         /\ adm' = [adm EXCEPT ![Owner] = [seq |-> @.seq + 1, list |-> list]]
  /\ UNCHANGED <<epochs, tokens, rotating, overtaken, handed, crashes>>

(* remove() up to the rotation. *)
Remove(d, x) ==
  /\ IsAdmin(d, d) /\ d \notin rotating /\ x \in Listed(d) \ {Owner}
  /\ Writes(d, {[Blank(d, "entry") EXCEPT !.who = x, !.role = "removed",
                  !.token = Best(EntriesOf(d, x)).token]})
  /\ rotating' = rotating \cup {d}
  /\ UNCHANGED <<epochs, adm, tokens, overtaken, handed, crashes>>

(* rotate(), by itself or as the rest of remove(). *)
Rotate(d) ==
  /\ IsAdmin(d, d) /\ rotating' = rotating \ {d} /\ Latest(d) < MaxEpoch
  /\ Writes(d, {[Blank(d, "keys") EXCEPT !.n = Latest(d) + 1, !.to = Recipients(d),
                  !.ep = PublishedUnder(d)]})
  /\ epochs' = [epochs EXCEPT ![d][Latest(d) + 1] = d]
  /\ overtaken' = (overtaken \/ \E r \in recs : r.kind = "entry" /\ r.who \notin Listed(d))
  /\ UNCHANGED <<adm, tokens, handed, crashes>>

Post(d) ==
  /\ Role(d, d) \in {"owner", "admin", "member"}
  /\ Writes(d, {Blank(d, "post")})
  /\ UNCHANGED <<epochs, adm, tokens, rotating, overtaken, handed, crashes>>

(* admit() and onRecord() on a record that may be indexed now. *)
Deliver(d, r) ==
  /\ Admissible(d, r) /\ accepted' = [accepted EXCEPT ![d] = @ \cup {r}]
  /\ adm' = IF r.kind = "grants" THEN [adm EXCEPT ![d] = Adopted(d, r)] ELSE adm
  /\ epochs' = IF r.kind = "keys" /\ Current(r, accepted[d]) /\ epochs[d][r.n] = Nobody /\ d \in r.to
               THEN [epochs EXCEPT ![d][r.n] = r.by] ELSE epochs
  /\ UNCHANGED <<recs, tokens, rotating, overtaken, handed, crashes>>

(* Records and the keys kept at once survive; the rest of remove() does not. *)
Crash(d) ==
  /\ d \in rotating /\ crashes < MaxCrashes /\ crashes' = crashes + 1
  /\ rotating' = rotating \ {d}
  /\ UNCHANGED <<recs, accepted, epochs, adm, tokens, overtaken, handed>>

Next ==
  \/ \E d \in Person :
       AcceptInvite(d) \/ Reveal(d) \/ Promote(d) \/ Rotate(d) \/ Post(d) \/ Crash(d)
  \/ \E d \in Person, role \in {"member", "admin"} : Invite(d, role)
  \/ \E d, x \in Person : Remove(d, x)
  \/ \E d \in Person, r \in recs : Deliver(d, r)

Spec == Init /\ [][Next]_vars

-----------------------------------------------------------------------------
(* Nothing more can be indexed anywhere, and nobody is about to rotate. *)
Stable == rotating = {} /\ \A d \in Person, r \in recs : ~Admissible(d, r)

EverRemoved == {r.who : r \in {s \in recs : s.role = "removed"}}
Rivals == \E r, s \in recs : r.kind = "keys" /\ s.kind = "keys" /\ r.n = s.n /\ r # s
Member(d) == epochs[d][0] # Nobody /\ d \notin EverRemoved

(* No admin list leaves out somebody whom an earlier one named. *)
NoneDemoted ==
  \A r, s \in {x \in recs : x.kind = "grants"} : r.n <= s.n => r.to \subseteq s.to

(* No link was opened by two: each would be 'token used' to the other. *)
OpenedOnce ==
  \A r, s \in {x \in recs : x.kind = "entry"} : r.token = s.token /\ r.token # NoToken => r.who = s.who

(***************************************************************************)
(* "What cannot be decided yet is deferred" heals every order of arrival:  *)
(* once nothing more can be indexed, devices that hold the same epochs     *)
(* have indexed the same records of members never removed, though each     *)
(* judged them by a list that was still growing.  Three things it does not *)
(* heal: a list that leaves somebody out, a link opened by two persons     *)
(* (each device refuses whom it sees second), and rival epochs of one      *)
(* number, of which an invite replaces the one that was there.             *)
(***************************************************************************)
AcceptedAlike ==
  Stable /\ NoneDemoted /\ OpenedOnce /\ ~Rivals => \A d, e \in Person :
    epochs[d] = epochs[e] =>
      {r \in accepted[d] : r.by \notin EverRemoved} = {r \in accepted[e] : r.by \notin EverRemoved}

(***************************************************************************)
(* A new epoch key reaches "exactly the remaining members" (members.js:3). *)
(* None stays behind, if one admin at a time rotates, knows whom it makes  *)
(* the key for, and no invite then hands out the epochs without it.        *)
(***************************************************************************)
RemainingFollow ==
  Stable /\ NoneDemoted /\ ~Rivals /\ ~overtaken =>
    \A r \in recs : r.kind = "keys" =>
      \A d \in Person : Member(d) => epochs[d][r.n] = r.by

(***************************************************************************)
(* And nobody else whom its maker had removed before ever holds it, unless *)
(* it opens an invite that carries it: an old one never does, a later one  *)
(* of any administrator is not kept from whoever was removed.              *)
(***************************************************************************)
RemovedStaysOut ==
  \A r \in recs : r.kind = "keys" /\ ~Rivals =>
    \A d \in Person \ {r.by} :
      /\ Role(r.by, d) = "removed" /\ Best(EntriesOf(r.by, d)).by = r.by
      /\ Best(EntriesOf(r.by, d)).h < r.h
      => epochs[d][r.n] = Nobody \/ r.n \in handed[d]
=============================================================================
