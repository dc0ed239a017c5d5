----------------------------- MODULE MC_Services -----------------------------
(***************************************************************************)
(* Eight components that do not share state, checked by one run: a         *)
(* behaviour is one of `part`, and the others' variables stay NotHere.     *)
(* The bounds are the smallest at which each property's cases happen       *)
(* (README.md, sections 6 to 10).  Three components are checked twice, at  *)
(* different bounds and over the same variables: what a Space does with    *)
(* several Nodes, and with one that is written to (storage); a group       *)
(* that one person may join, and two (links); two downstream relays, and   *)
(* one with a snapshot (compacting).                                       *)
(*                                                                         *)
(* SpaceCache is extended, so that the run checks the definitions its      *)
(* theorems are about; it stays in an initial state while another          *)
(* component is checked.  The others are instances.                        *)
(***************************************************************************)
EXTENDS SpaceCache

CONSTANTS owner, guest, reader,      \* WriteAccess: peers
          alice, bob, tab1, tab2, tab3,  \* RelayPresence: members and connections
          founder, deputy, joiner,   \* LiteMembers: persons
          d1, d2,                    \* LiteText, Hlc: devices
          hub, east, west,           \* Federation: relays
          edit, snap,                \* and writes, one of them a snapshot
          Stored,                    \* SpaceCache: the Node that is written to
          NotHere

VARIABLES
  part,
  mode, granted, grantLog, members, aclLog, subs, chain, step, known, mates, peerDoc, peerDisk,
  inbox, asked, refusals, count,
  conn, hello, connOf, memberOn, visible, watchers, pushed, live, declared, clock,
  watches, wished, latest, current,
  recs, accepted, epochs, adm, tokens, rotating, overtaken, handed, stops,
  batches, held, text, queue, own, dropping, opens, edits, early,
  wall, hlc, top, carries, seen, issued, receipts,
  limit, items, turn, msg, have, need, rounds,
  mirror, covers, relaySubs, task, ingesting, federated, signing, up, down, written, shown,
  promised, crossed, relayRestarts

Tabs == tab1 :> alice @@ tab2 :> alice @@ tab3 :> bob
BobWatchesAlice == {<<tab3, alice>>}
AliasOrder == founder :> 1 @@ deputy :> 2 @@ joiner :> 3
JoinerAhead == founder :> 0 @@ deputy :> 0 @@ joiner :> 2
SiteOrder == d1 :> 1 @@ d2 :> 2
TwoAuthors == d1 :> "alice" @@ d2 :> "bob"
Stamps == <<1, 1, 2, 2, 2, 6, 7>>    \* items 1 and 2 share one, and so do 3, 4 and 5
Peers == {owner, guest, reader}
Readers == {reader}
AclModes == {"content", "named", "members"}
Accounts == {alice, bob}
AllTabs == {tab1, tab2, tab3}
Persons == {founder, deputy, joiner}
JoinerOnly == {joiner}
BothNew == {deputy, joiner}
Devices == {d1, d2}
FrameLimits == {0, 5}
Branches == {east, west}
Branch == {east}
Edits == {edit}
EditAndSnapshot == {edit, snap}
Snapshots == {snap}
NoSnapshots == {}

Access == INSTANCE WriteAccess WITH
  Peer <- Peers, Reader <- Readers, Owner <- owner,
  Modes <- AclModes, MaxWrites <- 1, MaxGrants <- 2, MaxLeaves <- 1,
  MaxReloads <- 1, MaxRestarts <- 1, MaxFails <- 1, MaxEvents <- 3,
  log <- aclLog, doc <- peerDoc, disk <- peerDisk

Presence == INSTANCE RelayPresence WITH
  Member <- Accounts, Conn <- AllTabs,
  Of <- Tabs, Watching <- BobWatchesAlice,
  MaxDeclared <- 2, MaxWatches <- 2

Storage == INSTANCE SpaceCache WITH Used <- Stored, WrittenTo <- Stored

Members == INSTANCE LiteMembers WITH
  Person <- Persons, Owner <- founder, Newcomer <- JoinerOnly, Number <- AliasOrder,
  Ahead <- JoinerAhead, MaxEpoch <- 2, MaxRecords <- 3, MaxInvites <- 1, MaxCrashes <- 1,
  crashes <- stops

Links == INSTANCE LiteMembers WITH
  Person <- Persons, Owner <- founder, Newcomer <- BothNew, Number <- AliasOrder,
  Ahead <- JoinerAhead, MaxEpoch <- 2, MaxRecords <- 4, MaxInvites <- 1, MaxCrashes <- 0,
  crashes <- stops

TextDoc == INSTANCE LiteText WITH
  Device <- Devices, Rank <- SiteOrder, AuthorOf <- TwoAuthors,
  MaxCost <- 10, MaxReopens <- 1, recs <- batches, doc <- text

Clock == INSTANCE Hlc WITH
  Device <- Devices, MaxCounter <- 1, MaxDriftMs <- 1, MaxMs <- 2, MaxTicks <- 3,
  MaxReceipts <- 2, clock <- hlc

Reconcile == INSTANCE LiteReconcile WITH
  NItems <- 7, TsOf <- Stamps, Buckets <- 2, Limits <- FrameLimits

Federated == INSTANCE Federation WITH
  Upstream <- hub, Downstream <- Branches, Envelope <- Edits, Snapshot <- NoSnapshots,
  MaxRestarts <- 1, log <- mirror, subs <- relaySubs, restarts <- relayRestarts

Compacting == INSTANCE Federation WITH
  Upstream <- hub, Downstream <- Branch, Envelope <- EditAndSnapshot, Snapshot <- Snapshots,
  MaxRestarts <- 1, log <- mirror, subs <- relaySubs, restarts <- relayRestarts

accessVars == <<mode, granted, grantLog, members, aclLog, subs, chain, step, known, mates, peerDoc,
                peerDisk, inbox, asked, refusals, count>>
presenceVars == <<conn, hello, connOf, memberOn, visible, watchers, pushed, live, declared,
                  clock, watches, wished, latest, current>>
membersVars == <<recs, accepted, epochs, adm, tokens, rotating, overtaken, handed, stops>>
textVars == <<batches, held, text, queue, own, dropping, opens, edits, early>>
clockVars == <<wall, hlc, top, carries, seen, issued, receipts>>
reconcileVars == <<limit, items, turn, msg, have, need, rounds>>
federationVars == <<mirror, covers, relaySubs, task, ingesting, federated, signing, up, down,
                    written, shown, promised, crossed, relayRestarts>>
allVars == <<part, accessVars, presenceVars, vars, membersVars, textVars, clockVars,
          reconcileVars, federationVars>>

-----------------------------------------------------------------------------
AccessIdle ==
  /\ mode = NotHere /\ granted = NotHere /\ grantLog = NotHere /\ members = NotHere /\ aclLog = NotHere
  /\ subs = NotHere /\ chain = NotHere /\ step = NotHere /\ known = NotHere /\ mates = NotHere /\ peerDoc = NotHere
  /\ peerDisk = NotHere /\ inbox = NotHere /\ asked = NotHere /\ refusals = NotHere /\ count = NotHere
PresenceIdle ==
  /\ conn = NotHere /\ hello = NotHere /\ connOf = NotHere /\ memberOn = NotHere /\ visible = NotHere
  /\ watchers = NotHere /\ pushed = NotHere /\ live = NotHere /\ declared = NotHere /\ clock = NotHere
  /\ watches = NotHere /\ wished = NotHere /\ latest = NotHere /\ current = NotHere
MembersIdle ==
  /\ recs = NotHere /\ accepted = NotHere /\ epochs = NotHere /\ adm = NotHere /\ tokens = NotHere
  /\ rotating = NotHere /\ overtaken = NotHere /\ handed = NotHere /\ stops = NotHere
TextIdle ==
  /\ batches = NotHere /\ held = NotHere /\ text = NotHere /\ queue = NotHere /\ own = NotHere
  /\ dropping = NotHere /\ opens = NotHere /\ edits = NotHere /\ early = NotHere
ClockIdle ==
  /\ wall = NotHere /\ hlc = NotHere /\ top = NotHere /\ carries = NotHere /\ seen = NotHere
  /\ issued = NotHere /\ receipts = NotHere
ReconcileIdle ==
  /\ limit = NotHere /\ items = NotHere /\ turn = NotHere /\ msg = NotHere /\ have = NotHere
  /\ need = NotHere /\ rounds = NotHere

FederationIdle ==
  /\ mirror = NotHere /\ covers = NotHere /\ relaySubs = NotHere /\ task = NotHere /\ ingesting = NotHere
  /\ federated = NotHere /\ signing = NotHere /\ up = NotHere /\ down = NotHere
  /\ written = NotHere /\ shown = NotHere /\ promised = NotHere /\ crossed = NotHere
  /\ relayRestarts = NotHere

IsPart(p) == part = p
Initially(p, init, idle) == (IsPart(p) /\ init) \/ (~IsPart(p) /\ idle)
Either(p, initP, q, initQ, idle) ==
  \/ IsPart(p) /\ initP
  \/ IsPart(q) /\ initQ
  \/ ~IsPart(p) /\ ~IsPart(q) /\ idle

AnyInit ==
  /\ part \in {"access", "presence", "cache", "storage", "members", "links", "text", "clock",
              "reconcile", "federation", "compacting"}
  /\ Initially("access", Access!Init, AccessIdle)
  /\ Initially("presence", Presence!Init, PresenceIdle)
  /\ Init /\ (IsPart("storage") => cap = 1) /\ (~IsPart("cache") /\ ~IsPart("storage") => cap = 0)
  /\ Either("members", Members!Init, "links", Links!Init, MembersIdle)
  /\ Initially("text", TextDoc!Init, TextIdle)
  /\ Initially("clock", Clock!Init, ClockIdle)
  /\ Initially("reconcile", Reconcile!Init, ReconcileIdle)
  /\ Either("federation", Federated!Init, "compacting", Compacting!Init, FederationIdle)

AnyNext ==
  /\ UNCHANGED part
  /\ \/ IsPart("access") /\ Access!Next /\ UNCHANGED <<presenceVars, vars, membersVars, textVars, clockVars, reconcileVars, federationVars>>
     \/ IsPart("presence") /\ Presence!Next /\ UNCHANGED <<accessVars, vars, membersVars, textVars, clockVars, reconcileVars, federationVars>>
     \/ IsPart("cache") /\ Next /\ UNCHANGED <<accessVars, presenceVars, membersVars, textVars, clockVars, reconcileVars, federationVars>>
     \/ IsPart("storage") /\ Storage!Next /\ UNCHANGED <<accessVars, presenceVars, membersVars, textVars, clockVars, reconcileVars, federationVars>>
     \/ IsPart("members") /\ Members!Next /\ UNCHANGED <<accessVars, presenceVars, vars, textVars, clockVars, reconcileVars, federationVars>>
     \/ IsPart("links") /\ Links!Next /\ UNCHANGED <<accessVars, presenceVars, vars, textVars, clockVars, reconcileVars, federationVars>>
     \/ IsPart("text") /\ TextDoc!Next /\ UNCHANGED <<accessVars, presenceVars, vars, membersVars, clockVars, reconcileVars, federationVars>>
     \/ IsPart("clock") /\ Clock!Next /\ UNCHANGED <<accessVars, presenceVars, vars, membersVars, textVars, reconcileVars, federationVars>>
     \/ IsPart("reconcile") /\ Reconcile!Next /\ UNCHANGED <<accessVars, presenceVars, vars, membersVars, textVars, clockVars, federationVars>>
     \/ IsPart("federation") /\ Federated!Next /\ UNCHANGED <<accessVars, presenceVars, vars, membersVars, textVars, clockVars, reconcileVars>>
     \/ IsPart("compacting") /\ Compacting!Next /\ UNCHANGED <<accessVars, presenceVars, vars, membersVars, textVars, clockVars, reconcileVars>>

AnySpec == AnyInit /\ [][AnyNext]_allVars

-----------------------------------------------------------------------------
(* Each component's state has the type its own TypeOK gives. *)
TypesOK ==
  /\ IsPart("access") => Access!TypeOK
  /\ IsPart("presence") => Presence!TypeOK
  /\ IsPart("cache") \/ IsPart("storage") => TypeOK
  /\ IsPart("members") => Members!TypeOK
  /\ IsPart("links") => Links!TypeOK
  /\ IsPart("text") => TextDoc!TypeOK
  /\ IsPart("clock") => Clock!TypeOK
  /\ IsPart("reconcile") => Reconcile!TypeOK
  /\ IsPart("federation") => Federated!TypeOK
  /\ IsPart("compacting") => Compacting!TypeOK

(***************************************************************************)
(* The properties, by the names they have where they are stated and        *)
(* explained.  HeldIsAttached, FreedOrWarm and SentIsStored are those of   *)
(* SpaceCache.                                                             *)
(***************************************************************************)
(* Spaces accept what the relay mirrored of authors who held their grant. *)
ReadersAccept == IsPart("access") => Access!ReadersAccept

(* Watching Spaces and the relay agree on who is online. *)
WatchersAgree == IsPart("presence") => Presence!WatchersAgree
(* Closing an older tab leaves a member online that has a newer one. *)
NewestTabCounts == IsPart("presence") => Presence!NewestTabCounts
(* The last declaration of visibility counts, however they are handled. *)
LastDeclarationCounts == IsPart("presence") => Presence!LastDeclarationCounts

(* Members with the same keys end with the same records. *)
AcceptedAlike ==
  (IsPart("members") => Members!AcceptedAlike) /\ (IsPart("links") => Links!AcceptedAlike)
(* A new epoch key reaches the members that remain. *)
RemainingFollow ==
  (IsPart("members") => Members!RemainingFollow) /\ (IsPart("links") => Links!RemainingFollow)
(* It does not reach those removed, unless an invite carries it to them. *)
RemovedStaysOut ==
  (IsPart("members") => Members!RemovedStaysOut) /\ (IsPart("links") => Links!RemovedStaysOut)

(* The same operations give the same text. *)
TextConverges == IsPart("text") => TextDoc!TextConverges
(* Compaction loses no edit that was flushed. *)
NothingLost == IsPart("text") => TextDoc!NothingLost

(* A clock issues above everything it has issued or accepted. *)
IssuedGrow == IsPart("clock") => Clock!IssuedGrow
(* Wrong clocks of others drag a clock by the allowed drift at most. *)
DriftBounded == IsPart("clock") => Clock!DriftBounded

(* A finished session has found the difference. *)
DifferenceFound == IsPart("reconcile") => Reconcile!DifferenceFound
(* A session takes a bounded number of rounds. *)
SessionEnds == IsPart("reconcile") => Reconcile!SessionEnds

(* Federated relays mirror, and show their users, the same writes. *)
BothDirections ==
  /\ IsPart("federation") => Federated!BothDirections
  /\ IsPart("compacting") => Compacting!BothDirections
=============================================================================
