# A TLA+ verification project for Qu V5

Qu V5 is a framework for distributed, end-to-end encrypted, offline-capable
applications.  It holds two synchronisation systems: **Space** (a `Y.Doc` per
Node, exchanged through relays that mirror signed envelopes) and **Qu Lite**
(`packages/lite`: immutable signed envelopes in a key-value store, exchanged by
set reconciliation).  This directory models the protocol cores of both,
model-checks them with TLC on small instances, and proves the central results
for every instance with TLAPS.

| module | what it is |
|---|---|
| `NodeSync` | one Node, any number of Spaces, one relay: subscribe, write, compact, catch-up, forwarding, acks, broken connections, restarts |
| `SharedLog` | what `NodeSync` promises; `NodeSync` is checked to implement it, and proved to where nothing is compacted |
| `NodeSync_proofs` | type correctness, the mirror's promises, the refinement of `SharedLog`, no gap between catch-up and live forwarding, no early sync-ack, proved |
| `MC_NodeSync` | instance for TLC; `sync_*.cfg`, `bug_compaction`, `bug_lost_frame`, `bug_late_ack` |
| `LiteStore` | what one Qu Lite device stores of one space: ingest, drop lists, indexes, deferral, expiry, restarts |
| `LiteStore_proofs` | every safety property of `LiteStore` but the refuted ones, proved |
| `MC_LiteStore` | instance for TLC; `store_merge`, `bug_undropped`, `bug_lost_reindex` |
| `LiteSync` | Qu Lite devices and their mirror: outbox, hello, sessions, acks, pending markers, broken links, reloads, restarts |
| `LiteSync_proofs` | every safety property of `LiteSync`, proved: no write of a device is lost, and a watching device misses nothing; and what an exchange of `LiteReconcile` finds |
| `MC_LiteSync` | instance for TLC; `lite_sync` |
| `WriteAccess` | who may write a Node, decided by the relay and again by every Space: grants, members, replay, restarts |
| `WriteAccess_proofs` | type correctness and `ReadersAccept`, and every property of `RelayPresence`, the relay's other service, proved |
| `RelayPresence` | hello, disconnect, watch, visibility, and what watching Spaces are told |
| `SpaceCache` | `useNode()`, reference counts, warm Nodes, hydration, the steps of a local write, the snapshots that replace a log |
| `SpaceCache_proofs` | every property of `SpaceCache`, proved |
| `Federation` | relays that subscribe to another relay as a client does, and the snapshots they mirror |
| `Federation_proofs` | every property of `Federation`, proved |
| `LiteMembers` | members, invites, administrators and epoch keys of a Qu Lite group |
| `LiteMembers_proofs` | every property of `LiteMembers`, and of `Hlc`, its clocks, proved |
| `LiteText` | the text CRDT, its batches and snapshots, compaction by its writers |
| `LiteText_proofs` | both properties of `LiteText`: texts converge, nothing flushed is lost; proved |
| `Hlc` | hybrid logical clocks on wall clocks that are wrong |
| `LiteReconcile` | the Negentropy exchange, against the set difference it should find |
| `MC_Services` | instance of the eight modules above for TLC, one at a time; `services` |
| `MC_LiteText` | two devices of one person; `bug_lost_text` |

`PROJECT.json` maps every definition to the lines it translates, and lists the
components, runs, mutants, hazards, disagreements and theorems.

## 1. Inventory

Paths are relative to `packages/`.

### Space: nodes over relays

* **Space** (`space-core/src/space.js`).  State: `_nodes` (id -> Y.Doc handle),
  `_syncedNodes`, reference counts and a warm cache of released Nodes with
  timers, grants, groups, an incoming queue, a storage adapter.  Operations:
  `createNode`, `subscribeNode`, `unsubscribeNode`, `useNode`/release,
  field writes (through Yjs' update event), `compactNode`, `_handleIncoming`
  (write, sync-ack, write-ack, grants, membership), re-subscription when the
  transport reports `open`.  Hard: every seal, signature and verification is an
  `await`, so requests are sent in completion order, and the Node a message is
  for may be gone or rebuilt when its verification ends.  Correct means: what is
  shown was really written; nothing falls between catch-up and live forwarding;
  `isNodeSynced()` is true only when the history is in; everything written
  arrives everywhere.
* **Client transport** (`space-transport/src/ws-client-transport.js`).  State:
  the socket, a send queue, a back-off timer.  `send` passes on or queues, `open`
  flushes.  Hard: what a broken socket had accepted is nowhere any more.
* **Relay** (`space-transport/src/relay.js`, `ws-server-hub.js`).  State:
  `subscribers`, `mirrorCount`, one promise chain per connection, presence, a
  mirror per Node in `space-storage/src/file-store.js`.  Handlers: subscribe
  (register, load, replay, sync-ack), unsubscribe, write (verify, ACL, mirror,
  ack, forward), hello, watch, visibility, grants, membership; disconnect.
  Hard: chains of different connections interleave at every `await`; a
  disconnect may overtake a running handler; a restart keeps only the files.
* **Reference counts and warm cache** (`space.js` `useNode`, `_releaseNode`,
  `_goWarm`).  Hard: a timer that tears down what is being re-acquired; a second
  caller that gets a half-hydrated Node; a count that a failing load leaves behind.
* **Local storage** (`space-storage/src/*-store.js`).  Hard: a crash between
  the local append and the send; a snapshot, the Space's own or another's, that
  replaces the log while a write is under way.
* **Write access**: grants (`space-core/src/grant.js`), groups
  (`group-membership.js`), Kind schemas.  The relay and each Space decide on
  their own from what has reached them.  Hard: a write that arrives before the
  grant it needs; a grant that is remembered but not stored.
* **Presence** (`presence-tracker.js`, `presence.js`, `presence-visibility.js`).
  Hard: a hello that finishes verifying after the peer has gone; visibility
  settings out of order.
* **Federation** (`federation.js`).  A relay subscribes to another as a client
  does.  Hard: it remembers for ever that it has; what comes down is taken in
  concurrently, so that a snapshot may overtake what came with it.
* **Delivery status, upload outbox, sync guard, automatic compaction**
  (`space-plugins/src`).  State: maps read, awaited over and written back; a
  wait for a write-ack.  Hard: two such patches at once; an ack that came early.
* **Event bus** (`events/src/event-bus.js`).  Hard: `once`, `off` and `emit`
  while an emit is awaiting a handler.
* **Application core** (`app-core/src/resolver.js`): waits for the sync-ack, or
  for a timeout, and resolves what is there.

### Qu Lite: envelopes over mirrors

* **Envelope store** (`lite/src/envelopes.js`, `gc.js`, `compaction.js`).
  State, all in one key-value store: `rec/` (sealed envelopes), `sx/` (sync
  index), `gone/` (markers of dropped entries), `grp/`.  `ingest()` reads,
  verifies, offers the envelope to the record layer and ends in one atomic
  batch under a lock per space; drop lists remove entries; `expire()` removes
  drop lists past the horizon.  Hard: any number of ingests are under way, each
  acting on what it read earlier; commits fail; the device restarts.
* **Records** (`records.js`, `writeset.js`).  State: `idx/`, `head/`, `loc/`,
  `defer/`.  Last write wins by (hlc, author); what cannot be judged yet is
  deferred and retried by `reindex()`.  Correct means: devices with the same
  envelopes show the same; what was dropped stays away.
* **Sync** (`sync/sync.js`, `sync/negentropy.js`).  State: `outbox/`,
  `sync/pending/` (durable), sessions, peers.  Hello, reconcile, ingest, ack.
  Hard: everything that can happen between two links of the same peer.
* **Members and epochs** (`members.js`, `space.js`, `inbox.js`).  A member list
  that decides whose envelopes count, and keys that rotate.  Hard: two
  administrators at once; a list that arrives after what it decides about; an
  invite that several people open, or that somebody opens again.
* **Mirror** (`mirror.js`): quota and usage per space.
* **Clock** (`hlc.js`), **status** (`status.js`), **text** (`text.js`), links
  (`net/`), kernel, mounts and drivers.

### What is left aside

Cryptography and codecs (signatures and seals are assumed sound; that they take
time is modelled), Yjs (external: updates are a set, integrated in clock
order), WebRTC on top of the browser's stack, HTTP and blob servers, and all of
the renderer, components, editor, shell and reference applications: they hold
no protocol state.

## 2. Plan

What loses or corrupts data came first: `NodeSync` with `SharedLog`, then
`LiteStore`, then `LiteSync`; after them the components around these cores,
`WriteAccess`, `SpaceCache`, `RelayPresence`, `Federation` for Space and
`LiteMembers`, `LiteText`, `Hlc`, `LiteReconcile` for Qu Lite.  All of these are
written and checked, and have proofs.

Left, in this order:

1. Proofs: `SessionEnds` of `LiteReconcile`, if a bound can be found that holds
   for every limit.
2. Modules: the plugins that keep a map in one field (delivery status, upload
   outbox), the quotas of `mirror.js`, group membership as a write ACL.

How the modules compose: each takes from another only what that one's
properties promise, and says so in its first comment.  `WriteAccess`,
`SpaceCache`, `RelayPresence` and `Federation` take a frame on an open
connection to arrive in order and a subscriber to miss nothing, which is
`NodeSync`'s subject.  `LiteMembers` and `LiteText` take the newest record of a
key to win and a dropped record to stay away (`LiteStore`).  `LiteSync` takes an
exchange to find the difference (`LiteReconcile`) and an accepted envelope to be
stored atomically (`LiteStore`).  `WriteAccess`, `LiteSync` and `Federation` are
themselves compositions: several Spaces or devices, the wire and a server.

## 3. NodeSync

### State and code

| variable | code |
|---|---|
| `attached`, `docNo`, `doc` | `Space._nodes` and the Y.Doc behind the handle; a new Y.Doc gets a new number, as Yjs draws a new clientID |
| `synced` | `Space._syncedNodes` |
| `pend` | messages whose seal or signature WebCrypto has not delivered |
| `busy` | the envelope `_handleIncoming` is verifying and the Y.Doc it looked up for it |
| `up`, `conn`, `sendQ` | `WsClientTransport`: socket, which one, `_sendQueue` |
| `inq` | frames towards the client and `Space._incomingQueue` |
| `sockets`, `rq`, `task` | the hub's sockets; per connection the frames, and what its chain in `relay.peerQueues` awaits |
| `subs` | `relay.subscribers.get(id)` |
| `mirror` | the file of the Node |
| `written`, `acked` | history, for the properties |

Every `await` splits an action: signing (`pend` -> `Transmit`), verification of
an incoming envelope (`ReceiveEnvelope` -> `ApplyEnvelope`), reading the mirror
(`HandleSubscribe` -> `LoadMirror` -> `Replay`), writing it (`AcceptWrite` ->
`ForwardWrite`).  Three awaits are merged with a neighbour because nothing
another actor can change is read between: `handleSubscribe`'s signature check
with the registration, `handleWrite`'s checks with the append (a file store
writes whole lines, so the order of the appends is the order of the log), and
the Node look-up with the arrival of the message.  A lost frame is modelled
where it is lost: a broken connection keeps a prefix of what was sent in each
direction.  The hub may notice much later, so the next connection often opens
while the relay still holds the old one.

Each Node has `acl.write: 'members'` and all peers are members.  The Spaces have
no local storage; the relay has the file store.  A message carries two history
fields that are not on the wire (the Y.Doc a request was made for, the content
an ack speaks for); no action branches on them.

### Runs

Two Spaces are enough for every hazard listed: the interesting pairs are writer
and subscriber, and an old and a new connection of the same Space.

| run | bounds | shows |
|---|---|---|
| `sync_drop` | 2 writing Spaces, 1 write, 1 dropped connection | safety: `RemoteIsMirrored`, `AckedIsMirrored`, `AttachedIsSubscribed`, `NoMissedUpdate`, and that it all implements `SharedLog` |
| `sync_resubscribe` | 2 writing Spaces; 1 write, 1 release and 1 compaction, 2 of the three in one behaviour | a sync-ack that answers the current Y.Doc's own request is never early (`SyncAckComplete`); `NoMissedUpdate` with Nodes that are released and logs that are replaced |
| `sync_recovers` | writer and reader; 2 writes, or 1 and a restart of the relay | liveness: what is mirrored reaches every user, every user is told it is synced, and without a restart every write is integrated everywhere, whatever the order its seals complete in |

`MaxEvents` bounds writes, releases, compactions, drops and restarts together:
it lets one run take any pair of them without paying for all at once.
`WrittenReachesUsers` needs two writes, because one cannot be out of order with
itself.  Otherwise one write suffices: it is forwarded, replayed, acknowledged,
lost or compacted away against every interleaving of the other Space's requests.
One drop gives two connections of one Space that coexist at the relay.  Peers
are symmetric where both may write; the liveness run uses no symmetry.  Deadlock
checking is off: the application may stop calling.

The bounds hide nothing the properties speak of, except where the properties
say so: `RemoteIsMirrored`, `AckedIsMirrored` and `SharedSpec` are checked
without compaction, since `compactNode()` may drop what it did not know (see
section 11), and `AttachedIsSubscribed` without releases.

### Fairness

`FairSpec` is weak fairness of `SystemStep` as a whole: while some promise can
settle, some frame on an open socket can arrive, a closed client can reconnect
(its back-off timer is always re-armed, `ws-client-transport.js:149-171`) or the
hub can notice a dead socket, one of these happens.  This is less than fairness
of every action, and enough because between two calls or failures `SystemStep`
can happen only finitely often, so that all of them get done.  Neither a call of
the application nor a failure is assumed to happen.

### Proofs

`NodeSync_proofs` proves, for every set of peers and every bound:

* `TypeCorrect`: `Spec => []TypeOK`.
* `RemoteMirrored` and `AckedMirrored`, under `MaxCompacts = 0`: what a Space
  shows and did not write itself is in the relay's file, and so is whatever was
  acknowledged.

Neither is inductive: a Space gets an update from `busy`, `busy` from `inq`,
`inq` from what a relay chain holds in `task`.  `MirrorInv` strengthens them by
`DeliveredIsMirrored` (whatever is on any of these stations is in the mirror
already), `SentIsWritten` (what is under way to the relay was really written)
and `Uncompacted` (no snapshot is under way, so that the mirror only grows).
The lemmas on sequences (`ElemsOfAppend`, `ElemsOfConcat`, `ElemsOfTail`,
`ElemsOfPrefix`) say what queue operations do to the set of queued messages.
The assumptions are `WriterAssumption` and `BoundsAssumption` (the bounds are
natural numbers).

* `ImplementsSharedLog`, under `MaxCompacts = 0`: `Spec => SharedSpec`.  A local
  write is `Write` of the abstract log, the append of a new update by
  `AcceptWrite` is `Accept`, the integration of an update by `ApplyEnvelope` is
  `Deliver`; every other step changes nothing the abstract log has.  That an
  accepted update was written and a delivered one was accepted is `MirrorInv`.

Also proved, for every set of peers and every bound:

* `SubscriptionHolds`, under `MaxReleases = 0`: `AttachedIsSubscribed`.
  `SubscribedInv` says that no unsubscribe is on its way, that the hub knows
  nothing of a connection before its client opens it (`Fresh`), and that
  whoever is being caught up is subscribed already: `handleSubscribe()`
  registers before it reads the mirror.
* `NothingFallsBetween`, if nothing is compacted or nothing is released:
  `NoMissedUpdate`.  The order in `handleSubscribe()` and `acceptWrite()` decides
  it: an update is mirrored, then forwarded to who is subscribed then; a Space
  is subscribed, then sent what is mirrored then.  `NoMissedUpdate` names the
  stations in between; `CatchUpInv` adds that what a Space sends is its own or, in a
  snapshot, what its Y.Doc has (`SentByOwner`, since a forward leaves the sender
  out), that a Y.Doc that is gone has nothing (`DetachedIsEmpty`), and that only a
  replay holds what was read from the mirror (`LogIsReplayed`).
* `SyncAckNeverEarly`, with any releases and compactions: `SyncAckComplete`.
  `AckInv` says that requests and acks name this Y.Doc or an earlier one
  (`NumbersKnown`), and that what an ack for this one speaks of is in it, being
  verified for it, or in front of the ack in the same queue (`AcksAreLast`).

The hypothesis of `NothingFallsBetween` is not an artefact.  With two compactions
and a release, a snapshot sealed by a Y.Doc that was released meanwhile is
mirrored after the next Y.Doc has read the log, and is not forwarded to the Space
that sent it.  With one compaction the property holds on the instance
`sync_resubscribe` explores.

Only model-checked: liveness, which is out of the provers' reach, and
`NoMissedUpdate` where a compaction and a release meet.

## 4. LiteStore

### State and code

| variable | code |
|---|---|
| `rec`, `sx`, `gone` | the key ranges of `envelopes.js`: sealed envelopes, sync index, markers |
| `head`, `loc`, `deferred` | the key ranges of `records.js`; `loc` also tells whether `idx/` lists the entry |
| `task` | the ingest pipeline of an envelope: what it awaits and what it read |
| `known`, `due` | whether the list with the missing authors has arrived; the timer of `members.js` |
| `queue`, `fetched` | `reindex()`: keys still to visit, the envelope read and waiting for the lock |

An envelope is a version of a keyed entry, a log entry, or a drop list, known
only by the relations the code tests: `KeyOf`, `Version` (the rank of (hlc,
author)), `Targets`, `Deleted`.  `Unknown` are the envelopes whose author's
membership arrives later than they do.  A pipeline reads the markers
(`IngestEntry`), a drop list its targets one by one (`ReadTarget`), the record
layer decides (`Admit`), and the batch commits under the lock
(`CommitEntry`, `CommitDropList`) or is refused (`CommitFails`).  The batch is
atomic (`writeset.js` and every driver's `batch`), which is why it is one
action.  Markers are read again inside the lock for an entry, but not a drop
list's targets.

Everybody is honest (`TargetAssumption`): a drop list names log entries and
versions a newer one replaces, as `compaction.js` chooses them.  Two versions
never tie in (hlc, author) (`EntryAssumption`).

### Runs

`store_merge`: three versions of one entry, the last a tombstone; a log entry;
two overlapping drop lists; one version and one drop list with an author who is
unknown at first; commits may fail and the device may restart at any time.
Three versions are needed for a version to lose to a head that was itself
replaced; two drop lists to have a marker owned by one and expired by it while
the other is held.  There is no bound on arrivals, retries, expiries or
restarts: the state space is finite by itself, and all of it is explored.

* `NewestIsHead`, `OneListed`: last write wins in every order of arrivals,
  drops, expiries and retries, and nothing but the current version is listed.
  As it speaks of any device that holds the newest version, it says that
  devices converge.
* `ClaimIsServable`: reconcile never offers an id that cannot be sent.
* `DroppedIsUnread`, `ReadableIsHeld`: what was dropped is not readable, and
  what is readable is held.  Both leave out the envelopes of `Unknown`, for
  which they are false (section 11).

`FairSpec`, used by `bug_lost_reindex` only, is weak fairness of the steps of a
pipeline and of `reindex()`: awaited storage operations settle, and a timer that
is set fires.  Arrivals, restarts and expiries are not assumed.

### Proofs

`LiteStore_proofs` proves every safety property of `store_merge` for any sets of
entries, keys and drop lists (`TypeCorrect`, `LastWriteWins`, `ListedIsCurrent`,
`ClaimsServed`, `NothingComesBack`, `IndexHasEnvelope`).  They hold together:
the inductive invariant `IInv` is their conjunction with

* `PlanInv`: a drop list's pipeline plans to drop only its targets, and to
  remove only what it drops;
* `MarkerInv`: a marker's drop list is held and names the entry;
* `DeferInv`: only envelopes of `Unknown` are deferred or retried, which is what
  keeps the others from being indexed after they were dropped;
* `HeadInv`: a head is an indexed version of its own key;
* `NewestInv`: the newest version, once indexed, is the head, and once decided,
  is indexed.  It rests on `TargetAssumption`: no drop list names it.

The lemmas `NewestWins` and `NewestStays` carry the argument of last write wins
(indexing the newest version makes it the head; indexing anything else leaves
it there); `IndexStep` combines them for the two actions that index.  The
assumptions are those of the module, which TLC evaluates in every run.

## 5. LiteSync

### State and code

| variable | code |
|---|---|
| `held`, `store` | `rec/<sid>/` on a client and at the mirror (`envelopes.js`) |
| `outbox`, `pending` | `sync/out/<sid>/` and `sync/pending/<mirror>/` (`sync.js`); both survive a reload |
| `active`, `sess` | the scopes being reconciled, and the sessions a client initiates: loading its item set, waiting for the answer, waiting for what it wanted |
| `greet` | the mirror's hello: handled in two steps, because announcing the grants is awaited before the outbox is flushed |
| `link`, `hiDone`, `toM`, `toC`, `stale` | `net/link.js`, `net/ws.js`: the link, the frames on it, and dead links of a client the mirror has not noticed |
| `local` | writes committed and not yet forwarded (`qu.write.stored` is awaited) |
| `pipe`, `pipeM`, `fresh` | envelopes being ingested; at the mirror also those committed and not yet forwarded and acked |
| `peers` | the mirror's `peers`, kept by name |

A local write and its outbox entry are one batch (`Write`).  `GreetMirror` pushes
the outbox again and starts a reconcile if the application watches or a marker
is left.  A session sets its marker before it does anything else (`Started`) and
removes it only if it completes (`Finished`): a session that fails, is cut off or
times out leaves it, and `Retry` or the next hello takes it up.  The mirror
stores, forwards to whom it believes connected (`Deliver`) and acks.  What a
Negentropy exchange finds is one round here; `LiteReconcile` shows that it finds
the difference.

### Run, bounds, fairness

`lite_sync`: one client that watches, its mirror, one write of each side (the
other device's arrives at the mirror at any time), two concurrent sessions, and
one fault of any kind, at any moment: a broken link, a reload, a restart of the
mirror, or a session that times out.  `MaxFaults` bounds the faults of one
behaviour together.  One client is enough because clients meet only in the
mirror's store, where `Arrive` stands for the others; two sessions, because they
share one marker; two envelopes, because one direction needs the outbox and the
other the reconcile.

* `SentIsMirrored`: a local write is in the outbox until the mirror holds it.
* `NothingMissed`: a greeted client without a session and without a marker has,
  or is about to be sent, all the mirror has.  This is what a wrongly removed
  marker, or an envelope between an item set and a forward, would break.
* `OutboxDrains`, `Delivered`: in the end every outbox is empty, and every
  watching client holds what the mirror holds.

`LiveSpec` is weak fairness of `System` as a whole: while a frame can arrive, an
awaited storage operation can return, a retry timer can fire, or a closed link
can be opened again, one of these happens.  The code re-arms both timers
(`sync.js`, `net/ws.js`).  Writes and faults are not assumed.

`PromptClose = TRUE` is an assumption about the network: the mirror hears that a
link is dead before the same client is back on a new one.  With `FALSE` the late
close takes the new link's peer away and `NothingMissed` fails (section 11).

### Proofs

`LiteSync_proofs` proves `TypeCorrect` and `WritesAreKept` (`SentIsMirrored`) for
any devices, sessions, envelopes and bounds, whether or not `PromptClose`.  An
entry leaves an outbox only for an ack, so the invariant says what acks may name:
`LinkOK` has every frame to a client in `Told(store)`, the messages that name
nothing but stored envelopes, and `ClientOK` and `MirrorOK` say the same of what
has been taken from such frames and of what the mirror is about to ack.  As the
store only grows (`ToldGrows`), this survives every step; `DurableOK` has the
outbox within what the device holds, and `FaultOK` bounds the dead links by the
faults.  `BoundsAssumption`, which TLC evaluates in `lite_sync`, is all that is
assumed of the constants: natural bounds, session slots that are positive
numbers, a finite `Rec` (the mirror lines up the frames it sends), `Watcher` among
the clients and `Other` not one of them.

`WatchersCatchUp` proves `NothingMissed` for any number of devices, envelopes,
sessions and faults, under `PromptClose = TRUE`.  Its invariant `CatchUpInv` adds
to `IInv`, for each client: `Phase` (a new link carries nothing of the last one, its hi
comes first, and the mirror knows the peer from then until the link is cut),
`Holder` (what the mirror got from a client, that client holds, so that it need not
be sent back) and `ExchangeCovers`: what the mirror stores is held by the client, on
its way to it, named by the answer that is coming, or among what a session waits
for.  With `PromptClose = FALSE` the
theorem would be false (section 11).

Only model-checked: the liveness properties `OutboxDrains` and `Delivered`.

## 6. WriteAccess

One Node and an owner, a guest and a reader, under the ACLs `content`, `named`
and `members`, chosen initially.  `granted` and `grantLog` are the relay's grants
in memory and in storage, `members` its member list, `log` its mirror, `chain`
and `step` its promise chain per connection; `known`, `mates`, `doc`, `disk` are
the grants, the members, the document and the storage of each Space, `inbox` its
incoming queue.  Granting is applied at home and sent (`GrantWriter`), added to
the relay's memory (`HandleGrant`), then stored and told to everybody
(`StoreGrant`), or the append fails.  A subscription is registered, then the
grants are read, then the envelopes (`HandleSubscribe`, `ReplayGrants`,
`ReplayEnvelopes`).  A reload rebuilds a Space from its storage with no grants
known; a restart empties the relay's memory.

`ReadersAccept`: whatever the relay mirrors of an author who had seen its grant
is in every Space that has been answered and has emptied its queue.  It is the
agreement of two checks of one rule in two places, each with its own copy of the
grants, over replay, restart and reload.  Excepted are grants whose append
failed, writes made before the author knew of its grant, and removed members:
there the two checks do differ (section 11).

Bounds: one write, two grants, one removal, one reload, one restart, one failing
append, any three of the events in one behaviour: a write, what it needs, and
one disturbance.

`WriteAccess_proofs` proves `ReadersAccept` for any peers, ACLs and bounds
(`GrantsComeFirst`), and type correctness, if the owner is one of finitely many
peers and the ACLs are the three there are (`Parties`, a hypothesis).  The
property compares a reader's copy of the grants with a decision the relay took
from its own, so `IInv` follows each grant and each envelope past every station:

* `GrantsAt`: past the replay of the grants a Space knows each stored grant, or
  is being told it; past the replay of the envelopes it has each mirrored one, or
  has it queued behind a grant it needs (`WritesAt`).  Both rest on the order
  in `handleSubscribe()`: register, then the grants, then the envelopes
  (`SubsOK`).
* `VouchedChain`, `VouchedLog`: when a write that needs a grant is handled, that
  grant has been stored already, so that readers were told before.  For the owner
  under `content`, whose own grant goes the same way as its writes, this is the
  order of one promise chain (`OwnerOK`).
* `ChainOK`, `DiskOK`, `InboxOK`, `KnownOK`: a Space sends only its own writes,
  which are on its disk; only stored grants are told, and only who has left is
  said to have left.

## 7. SpaceCache and RelayPresence

**SpaceCache.**  The cache: `node` is the generation of the attached Y.Doc per id,
`refs` the reference counts, `warm` and `timers` the warm cache, `call` what a
caller of `useNode()` awaits or holds.  `useNode()` is split at its awaits
(`UseNode`, `ReadLog`, `Hydrated`, `Resolve`, or `LoadFails` from the two middle
ones); a release puts a Node into the warm cache and evicts what exceeds the cap,
a timer tears it down (`Expire`).

The write path: `writes` and `at` are what has become of each local write and of
which Node it is, `log` what replaying a Node's log in storage gives, `doc` what the
attached Y.Doc has.  A write is sealed, stored, then sent, and the process may
stop between any two of these.  `Encode` is the synchronous part of
`compactNode()`; like the snapshot of another Space (`Receive`, `Apply`, at their
awaits), it ends in `Replace`, where `storage.replace()` drops the log for what the
snapshot covers.  `snaps` has the one of either kind that is under way.  A
received snapshot covers any of the writes sent before it was made.

* `HeldIsAttached`: what a caller holds is what the Space feeds, whatever others
  release, evict or let expire.
* `FreedOrWarm`: the warm cache is within its cap, and an attached Node has a
  caller that holds it or awaits it, or is warm with its timer running.  Callers
  are counted, not references.  Excepted are group Nodes, which are never freed,
  and a Node of which a load has failed in this process: `useNode()` has counted
  the caller it throws at (`space.js:1103-1109`), so nothing ever frees the Node
  (`leaked`, and section 11).
* `SentIsStored`: what was sent is in the log that the next Space hydrates from,
  wherever the process stops and whatever replaces the log.  The code does not
  keep that promise for every write, and the property names those it does not
  keep it for (`raced`): a write made while a snapshot of its Node is under way,
  which `replace()` then drops (`space.js:941-957`, `:1412`); one still being
  sealed when a later Y.Doc of its Node reads the log, which that Y.Doc then
  lacks and its snapshots with it; and one left out by the snapshot of a Y.Doc that
  is not loaded, or of a Space that had not seen it.  Left is what the code does
  keep: a snapshot of a loaded Y.Doc with no write under way loses nothing, after
  any number of releases, reloads and crashes.

Bounds: three Nodes, one of them a group's, two callers, caps 0 and 1, two
generations of each Y.Doc: the smallest in which one Node evicts another, and in
which a Node is rebuilt under a caller (part `cache`, which writes nothing); and one
Node that is written to once, with all the rest (part `storage`): what can be
lost is lost with one write, one snapshot of either kind and one reload.
Envelopes of its own that the relay sends back to a Space are `NodeSync`'s subject.

`SpaceCache_proofs` proves all three for any Nodes, callers, caps and bounds
(`HandlesStayAttached`, `NothingLeftAttached`, `WritesSurvive`).  `HeldIsAttached`
is not inductive: a timer or an eviction takes a Node away if it is in the warm
cache, so `WarmInv` says that a Node in use is not there, has no timer, and that
no Node is there twice; and a release makes a Node warm when its count reaches
zero, so `CountInv` says that the count of a Node is its callers and its failed
loads.  `KeptInv` is `FreedOrWarm` by the count; with `CountInv` it becomes the
property about callers.  Writes have an invariant of their own, `WInv`: what is
stored or sent is in the log (`LogInv`); a loaded Y.Doc has all of its Node's
writes that are being sealed, stored or sent (`DocInv`); and a snapshot under way
covers them all (`SnapInv`), so that replacing the log takes none away; all but
the raced ones.  `BoundsAssumption`: natural numbers, and a finite set of callers,
since `CountInv` counts them.

**RelayPresence.**  `conn`, `hello` are the connections and the hellos being
verified; `connOf`, `memberOn` the two maps of `presence-tracker.js`; `visible`,
`watchers` the relay's maps; `pushed`, `live` the pushes under way and what the
watching Space shows; `declared` declarations of visibility not yet handled.  A
hello is handled some time after it came, even if its connection has gone.

* `WatchersAgree`: a Space that watches and has been told since the member became
  visible shows, with its queue empty, what the relay knows.
* `NewestTabCounts`: closing an older tab leaves the member online.
* `LastDeclarationCounts`: the last declaration counts, in whatever order they are
  verified.

Bounds: one member with two tabs and one who watches with one; two
declarations, two requests to watch.

The second part of `WriteAccess_proofs` proves the three properties (`WatchersHearTheRelay`,
`NewestTabStays`, `LastWordCounts`) and `TypeOK` (`PresenceTypeCorrect`) for any
members, tabs and bounds.  The inductive invariant is `PresenceInv`.
The only hypothesis is `Identities`: natural bounds, each
connection is of one member, and "nobody" is neither.  The invariant says that the
two maps of the tracker are inverse (`TrackerInverse`), that a hello is handled of
a connection that has been opened (`HelloedWasOpen`), that each declaration has
a stamp of its own, and the last is in force or the newest still to be handled
(`StampsApart`, `LastIsKnown`).  For the Spaces it says that who was told still
watches (`ToldAreWatching`), and that the last push on its way to a watcher, or
what it shows if there is none, is what the relay knows (`WillAgree`): pushes
arrive in order, so only the last one counts.

## 8. Federation

`log`, `subs`, `task` are a relay's mirror, subscribers and promise chains for one
Node; `federated` and `signing` are `federatedNodeIds` and the request being
signed; `up` and `down` the frames on a link; `ingesting` the `ingestFederated()`
calls, which nobody awaits and which therefore overtake each other.  The user's
subscription and its effect on the link are one action (`Registered`), since the
bus handler adds the id before it awaits the signature.  A write of a local user
is mirrored, then forwarded and sent up (`Mirror`, `Forward`); one from the
upstream is mirrored and forwarded and never sent up again
(`MirrorFederated`, `ForwardFederated`).  Both end in `acceptWrite()`: a write joins
the mirror, a snapshot replaces it (`Mirrored`, `relay.js:848`).  A snapshot is an
envelope like any other, and carries what its author had when it made it
(`covers`, `Carried`).

`BothDirections`: with nothing under way, a federated relay has what its upstream
has, every user has what its relay has, and what users of a federated relay wrote
is upstream, as envelopes of their own or within a snapshot.  It holds but for
the writes that cross with a snapshot (`crossed`), which may replace a mirror that
had them: a write that the author of a snapshot had not seen, one made while a
snapshot is under way, and one replayed to a relay together with an older
snapshot, since the two may be taken in in the wrong order.  For these nothing is
promised, and with `crossed` left out the property fails in each of the three ways
(section 11).  What it shows beyond that: a snapshot that covers what it replaces
loses nothing on any relay, in any order of arrival.

Bounds: two relays below one, one write, one restart of a downstream relay (part
`federation`); and one relay below, a write
and a snapshot, one restart (`compacting`), so that the snapshot is made before,
while and after the write is on its way, on either side of the link.

`Federation_proofs` proves `TypeOK` and `BothDirections` (`FederatedBothWays`) for
any relays below one, any envelopes, any of them snapshots, and any number of
restarts, under `Topology`: the upstream is not one of the others, no relay is
named like a user, the request to subscribe is no envelope, and envelopes are
finitely many (a replay is a finite sequence).  The invariant follows each
*write* (`Has`: a mirror has it, in whichever envelope).  `CrossInv` carries the
snapshots: one that a relay is still to mirror or pass on has every write that it
does not cross with, so that replacing a mirror by it takes away only what
crosses (`MirroredHas`).  `BothDirections` speaks of the moments when nothing is
under way; the rest says what is still to happen otherwise.  `DownInv`: what the
upstream has a federated relay has, or it comes down (`ComesDown`: its request or
its replay is still to come, or an envelope with the write is about to be
forwarded, on the link or being ingested).  `OutInv` and `UpInv` say the same of
the user of a relay and of the way up.  Three more are needed: a user has what it
writes and what its snapshots cover (`OwnIsShown`, since a forward leaves the sender
out), a relay has what it sends up (`SentUpIsMirrored`, since the upstream does not
send it back), and a federated relay has asked or is subscribed (`AsksOrFollows`).

## 9. LiteMembers

Records (`recs`) are member entries, admin lists, key packages and posts; each
device has those it has indexed (`accepted`), the epochs whose keys it holds
(`epochs`) and the admin list it goes by (`adm`).  `Judged` is `judge()`:
whether a record counts by what the device has accepted so far.  A record that
cannot be judged, or is refused, is offered again, so `Deliver` is enabled as
long as the answer may change.  `Rotate` keeps the new key, boxes it for the
members the device knows and publishes it under the old epoch; `Remove` writes
the entry first, and the process may stop before the rotation.

An invite (`tokens`) is a bearer object: its token, the issuer's admin list and
epochs.  Several may be out, as member or as administrator, and nothing consumes
one: `AcceptInvite` is open to everybody at any time, to a second person, to one
who is in, and to one who has been removed.  It takes over the epochs and the
newer admin list (`Merged`: what is brought wins, because the opening device
stores it over what it had; `Newer`), and writes the own entry only if it has
indexed none (`Join`).

* `AcceptedAlike`: once nothing more can be indexed, devices with the same epochs
  have indexed the same records of members never removed.  Three things are
  excepted, because the order of arrival decides in them for good: an admin list
  that leaves out somebody an earlier one named (`NoneDemoted`), a link opened by
  two people, of whom every device accepts the one it hears of first
  (`OpenedOnce`; "token used", `members.js:180`), and two epochs of one number
  (`Rivals`).
* `RemainingFollow`: a new epoch key then reaches all who remain, if
  administrators did not rotate at once, knew who had joined, and handed out no
  epochs without the new one (`overtaken`).
* `RemovedStaysOut`: it does not reach somebody else whom the rotating
  administrator itself had removed, if no other administrator makes an epoch of
  the same number, unless the removed one opens an invite that carries it
  (`handed`): `acceptInvite()` takes the epochs over before anything asks for the
  member list (`members.js:359-367`).  So an invite is no less than the keys it has.

The hypotheses are what larger instances (three and four persons, up to nine
records, three epochs, simulated at random) showed to be needed.  An admin list
is written from the roles the founder has indexed, so it leaves out an
administrator who was removed, and one whose own entry, written as a member,
overtakes its promotion: `judge()` passes what an administrator writes about
itself.  A removal by another administrator may reach the one who rotates only after its
rotation; and an administrator who lacks the newest epoch invites newcomers into
an older one.

Bounds: founder, member, newcomer; two new epochs; three records beside the
founding ones (removal, rotation and one more; or invite, promotion and its
list); one invite, which all three may open, as often as they like; one crash; the
newcomer's clock is ahead, so that records of one person are not ordered as they
were written (part `members`).  With one record more and without the crash, two
newcomers and the founder (part `links`): two entries by one link, a removal and a
rotation.  `promote()` only makes administrators here; what it can take back is
not modelled.

### What is proved

All three, and type correctness, for any persons, ranks, clocks that run ahead,
invites and bounds; the only hypothesis is `Group`: finitely many persons, distinct
ranks, a founder who is in from the start.  Two inductive invariants:

* `IInv`, for `KeysPassTheRemovedBy`.  The difficulty is that a removal and a
  rotation are ordered by clocks alone: `Stamped` (a time stamp names its device)
  makes the entries of different devices distinct, `Own` puts a device's clock past
  whatever it wrote.  `BoxedAgain`: if the key is boxed for somebody its maker had
  removed before, the maker has indexed a newer entry.  `KeptOut`: if it is not,
  the removed one never holds it but by an invite (`handed`), since epochs are
  learnt from such a box or from an invite only; that no invite has an epoch
  before there is a key package of it is `Announced`.
* `AgreeInv`, for `OrderOfArrivalHeals` and `KeysReachTheRemaining`.  It says of a
  device why another, with the same epochs, will accept what it has accepted,
  without naming that other, as long as no list leaves anybody out and no epochs
  are rivals (`Calm`).  `Fits`: a key package or somebody else's entry is by an
  administrator of its list; of each person it knows there is an entry that
  counts without another (`Root`: by an administrator, or by an administrator's
  invite); an administrator's entry has a list that it can open.  `Backed`: its
  list is a record that it can open, so that the other, once stable, goes by a
  list at least as new.  `Vouched`: the makers of the epochs it holds are
  administrators of its list, so that a later device verifies all of an invite;
  `Handouts`: an invite brings epochs and a list that fit together, and opening
  it, for the first or the tenth time, keeps the rest (`OpenedSound`).
  `InvitedAlike`: who was invited as administrator has no entry as a member.
  `Entered`: who is in has an entry of its own.  `Reached`: who is in holds a new
  epoch or is boxed for it, unless `overtaken`.  From there a device that is stable
  holds epoch after epoch: a package is published under the epoch before, by
  somebody whom a list published no later names (`KeyShaped`).  `OpenedOnce` is
  needed only at the end: without it an entry by invite is refused as a copy.

## 10. LiteText, Hlc, LiteReconcile

**LiteText.**  `doc` is a device's `TextCrdt` (characters in order, pending
operations, deleted ids, clock), `queue` what is not yet flushed, `held` the
records a device has, `own` and `dropping` the own batches of `compact()`.
`Integrate`, `Retry`, `Apply` and `Load` translate the CRDT; `Flush`, `Snapshot`
and `DropOwn` write records; `Reopen` loses the queue and loads what is held.

* `TextConverges`: the same characters and deletions give the same text, whether
  they came one by one, in batches or in snapshots, and after reopening.
* `NothingLost`: whoever holds all records and opens the text has every flushed
  edit, unless a drop list overtook the snapshot it relies on.

Two authors with a device each in `services`; one author with two devices in
`bug_lost_text`, where `NothingLost` fails.  `MaxCost` (two for an edit, one for a
record) allows three edits with their batches, or two with snapshots and drops.

`LiteText_proofs` proves both for any number of devices, edits, records and
sessions (`TextsConverge`, `NothingIsLost`).

*Convergence* rests on one fact about `#integrate()`: a text is always in the order
`Canon`, in which every character stands behind the one it was typed after, with
only characters of greater ids between the two (`InsertedCanon`).  That order leaves
no choice: two texts in it that have the same characters are the same
(`OneOrder`).  If they were not, some pair of characters would stand crossed; of the
crossed pairs take one whose greater id is least, and what stands between its two
in one of the texts makes a crossed pair with a lesser one (`CrossedLower`).  `Kept`
is the inductive invariant: the characters of a text were flushed or are in its own
queue, each text is in order (`DocSet`), every id was given by one session at a
counter its clock has passed (`SitedBy`), so that an id names one character
(`Good`), and a character was typed after one with a lesser id.  The loops
(`#retry()`, the operations of a batch, of a snapshot and of `open()`) are folds:
what one step keeps, the fold keeps (`FoldExists`, `IntegrateFold`, `PassFold`,
`ApplyFold`), and the two sorts are stated by ranks (`InOrder`: an operation's place
is the number of those before it), which the provers can count (`Ranks`).  `Sites` is the
hypothesis: finitely many devices, and each session has a site of its own, which
`text.js:229` draws at random.

*Nothing lost* needs more (`Lossless`): the times of records are distinct
(`Numbered`); a later snapshot of a device has what its earlier ones have, and a
batch is dropped only after a snapshot of its device that has its operations
(`Covered`); whoever holds a drop list holds the snapshots it relies on, which is
what `early` being false means (`Complete`); what is flushed was typed after
something flushed (`Closed`); no character is queued twice, or queued and flushed
(`Apart`); and a text has what its own device has queued and written, and nothing
beyond what it would load (`Sound`).  The last is why a snapshot may replace the
batches: a device's snapshot has all the device has written.  Then opening reaches
every operation (`Reaches`) and, since `open()` goes in counter order and
predecessors have lesser ids, applies every character at once (`LoadHas`).  The
hypothesis `OneDeviceEach` is needed for the snapshots: with two devices of one
identity `Covered` holds per device, but the newest snapshot of the *identity* counts,
and `bug_lost_text` shows the loss.

**Hlc.**  `advance()`, `tick()` and `recv()` on devices whose wall clocks go
forward and back, with a counter that overflows.  `IssuedGrow`: a clock issues
above all it has issued or accepted.  `DriftBounded`: a clock is ahead of the
highest time its own wall clock showed by the allowed drift and its own
overflows at most, even if devices pass a wrong time on.  `MaxCounter`,
`MaxDriftMs` = 1 stand for 65535 and five minutes, so that overflow and refusal
happen.  `LiteMembers_proofs` proves both properties for every width and drift
(`ClocksGrow`, `DriftStaysBounded`).  `IssuedGrow` speaks of the moment of issue;
what carries it over is `ClockAbove`: a clock is never below what it has issued
or accepted.  `NaturalBounds` is the assumption.

**LiteReconcile.**  Both sides of an exchange over seven items, three of which
share a time stamp; two buckets instead of sixteen, so that four items split a
range; without a frame limit and with one of five units.  All pairs of item sets
are initial states.  `DifferenceFound`: without a limit the initiator ends with
exactly the difference in each direction; with a limit, with nothing untrue.
`SessionEnds`: messages cut at the limit do not go on for ever: every round but the
last settles two items at least.  The bound is that of the limits checked; a limit
with room for less settles fewer (the code refuses limits under 4096 bytes,
`negentropy.js:261`).

`LiteSync_proofs` proves `DifferenceFound` for any item sets, time stamps, numbers
of buckets and limits (`SessionsFindTheDifference`).  The invariant
(`ReconcileInv`) has three parts: what has been found is true; every range of the
message in flight that lists ids lists exactly its sender's items between its two
bounds (`Exact`), and without a limit the fingerprints are of exactly those items
too; and without a limit every item that differs and has not been found lies in a
range that is not skipped (`Covers`).  With a limit the fingerprint of the rest is
left out of `Exact` on purpose: a range whose split did not fit is passed over
(`negentropy.js:403`), so the rest is compared over less than its bounds say, and a
difference there can be missed.  The lemmas carry the details that make it true:
the shares of `splitRange` add up and none is empty (`BucketsFill`), a bound cut
from two time stamps still separates their items, also when the stamps are equal
(`MinimalBoundIs`), a list that was cut is always over the limit, so nothing is
answered after it in that message (`Listed`, `LengthOf`), and the loop keeps its
place in the message (`OnTrack`, `RangeAnswered`).  The loop itself is a recursive
function over the message: that it is defined and keeps `AccOK` is shown by a
least counterexample (`HasMin`).  `Sorted` is the assumption: items are numbered
in the order of their time stamps and there is at least one bucket.

### The run `services`

The eight modules of sections 6 to 10 do not share state, so one run checks them
one at a time: `part`, fixed initially, says which, and the others stay where they
are.  Three are checked twice, at bounds that would be too many together:
`SpaceCache` with several Nodes (`cache`) and with one that is written to
(`storage`), `LiteMembers` with one newcomer (`members`) and with two (`links`),
`Federation` with two relays below one (`federation`) and with a snapshot
(`compacting`).  The exceptions that `SentIsStored`, `FreedOrWarm`, `BothDirections`,
`AcceptedAlike` and `RemovedStaysOut` make are needed: with any one of them left
out TLC finds a counterexample in these parts.  `SpaceCache` is extended, so that its properties are the very definitions
its theorems state; the others are instances, and each of their properties is
guarded by its part.

## 11. Disagreements found

Each of the first six has a run that finds it.

* `bug_compaction`: `acceptWrite()` replaces the mirrored log by a snapshot
  whose author had not seen all of it; another Space's write that was mirrored
  meanwhile is gone for every later reader, although `envelope.js:79-84` says
  the snapshot "by construction reconstructs the exact same current state".
* `bug_lost_frame`: the send queue is spliced into the socket and forgotten.  If
  the connection breaks before the frame arrives the write never reaches the
  relay, against "nothing is dropped" (`ws-client-transport.js:22-23`).
* `bug_late_ack`: the sync-ack of a released subscription flags the Y.Doc built
  after it, which the comment above the check (`space.js:1337-1338`) rules out.
* `bug_undropped`: a drop list looks for its target's envelope outside the lock;
  if the target commits in between, its envelope is kept for ever, against
  `gc.js:15-16`.
* `bug_lost_reindex`: `reindex()` lists what is deferred once; an envelope judged
  by the old member list and committed after that is not retried, against
  "re-checked automatically" (`lite/README.md:169-170`).
* `bug_lost_text`: a snapshot's key is the author's alias (`text.js:311`), so
  that two devices of one person overwrite each other's snapshot after each has
  dropped its own batches, against "nothing can be lost, whoever compacts when"
  (`text.js:31-32`, `lite/README.md:338-339`).

Read in the code, not given a run.  *Space and relay:*

* Two requests of one Space are signed concurrently: an unsubscribe that
  overtakes the next subscribe leaves a Node in use unsubscribed
  (`space.js:848`), which is why `AttachedIsSubscribed` is run without releases.
* A handler that awaits while its connection is torn down adds the dead
  connection to `subscribers` again (`relay.js:587`); harmless to delivery, it
  is never removed.  In the same way a hello handled after its disconnect leaves
  the member online (`relay.js:545`).
* The `seq` of a write-ack starts again after a restart (`relay.js:394`).
* A second caller of `useNode()` gets a Node whose hydration is under way, and
  what it writes then is dropped by the seal guard (`space.js:1107`, `:1259`).  A
  failing load leaves the count and the guard behind (`space.js:1103-1109`): the
  Node stays attached and subscribed for nobody, and `FreedOrWarm` excepts it.  The
  count of a group's Node only grows.
* A snapshot replaces a Space's own log as well: another Space's does so after two
  awaits and whatever this Space has stored (`space.js:1388-1412`), its own after
  the seal of what it encoded before (`space.js:941-957`), or of a Y.Doc whose log
  is still being applied.  A write that was stored and sent is then gone from its
  author's storage, against "by construction reconstructs the exact same current
  state" (`envelope.js:79-84`); `SentIsStored` excepts these.
* A write that was stored but not sent when the process stopped is never sent
  later (`space.js:1279-1284`).
* What a removed member had written is accepted as it is forwarded and refused
  when replayed (`space.js:528-530`, `relay.js:998`), and a grant whose append
  fails holds in the relay's memory only (`relay.js:675`).
* Watched identities are not watched again after a reconnect
  (`space.js:355-360`), and of two declarations of visibility in one
  millisecond the second is dropped (`relay.js:497`).
* Federation: a broken link is not subscribed again (`federation.js:88`); what
  is written before the first local subscriber, or before a middle relay of a
  chain federates, is never sent up (`federation.js:97-98`); the sync-ack does
  not wait for the upstream's replay.  What is sent up lacks its `groupRef`, so
  that the upstream cannot authorise a write of a group's Node.  `acceptWrite()`
  replaces the mirror by a snapshot that came from upstream too (`relay.js:848`):
  one that overtakes, or is overtaken by, the writes that came down with it
  (`federation.js:76`, nobody awaits), or crosses with a local write, leaves this
  relay without them, and they do not come again; `BothDirections` excepts these.
* Plugins: `delivery-status.js:77` and `upload-outbox.js:115-124` write back a
  map read before an await.  `event-bus.js:76-86`: a `once()` handler behind a
  slow one may fire twice.

*Qu Lite:*

* `reindex()` reads an envelope outside the lock; if a drop list removes it
  meanwhile, the retry indexes an entry without envelope.  This is why
  `DroppedIsUnread` and `ReadableIsHeld` leave out `Unknown`.
* The timer that calls `reindex()` is not durable (`members.js:107`).
* If two drop lists name an entry, the expiry of the one that owns the marker
  lets the entry back in while the other is held; and until then two devices
  with the same envelopes may have different sync indexes (`envelopes.js:199`).
* A tie of (hlc, author) is decided by the order of arrival (`records.js:51`).
* The late close of an old link removes the state of the new one
  (`link.js:96-104`, `sync.js:311-322`, `envelopes.js:97-100`): `PromptClose` in
  `LiteSync`.  Two sessions of a scope share one pending marker
  (`sync.js:203-205`).
* Two administrators who rotate at once split the group, and who accepts an
  invite during a rotation misses the new key (`members.js:314`, `:260`).  A
  crash between keeping an epoch key and publishing it leaves its holder alone
  with it (`members.js:315-325`).
* An invite is called single-use (`members.js:26`, `lite/README.md:168`), but
  nothing consumes it: when two people have opened one link, each device refuses
  the one it hears of second, "token used" (`members.js:180`), and devices disagree
  about the two for good.  A removed person that opens an invite made later holds
  the epochs it brings, though its entry stays "removed" (`members.js:359-367`).
* Opening an invite of a group that is open already makes a second `Space` object
  (`records.js:276`), while the manager keeps the first (`members.js:92`): the two
  then learn epochs and lists apart from each other until the process restarts.  At
  a restart, epochs that an invite brought are refused if the admin list that vouches
  for their maker came with the invite only and no record of it has arrived
  (`members.js:166-170`).
* A drop list that overtakes the snapshot it relies on hides the text until the
  snapshot arrives; `flush()` empties its queue before the write that may fail
  (`text.js:290`).
* A clock is kept in memory only: after a restart a device whose wall clock is
  behind may issue below what it had issued (`hlc.js:34`).
* With a frame limit one exchange may miss a part of the difference
  (`negentropy.js:401-408`); the next exchange goes on.
* `mirror.js:52`, `:71`: usage is scanned and the quota checked outside the lock.

## 12. What is not modelled

Whole components (`PROJECT.json` has them all): group membership as a write ACL,
delivery status, upload outbox, automatic compaction, the event bus and Qu Lite's
status could be modelled and are not yet.  Kernel, mounts, drivers, links and the
mirror's quotas appear only as what the models assume of them: a batch is atomic,
a frame arrives in order or not at all.  Cryptography is assumed sound.  Kind
schemas and codecs, server processes, blobs and WebRTC are I/O around libraries;
application core, shell, renderer, components, editor and bootstrap hold no
protocol state beyond a wait for the sync-ack.  These make up most of the lines
of the repository, and are why the map covers a small share of them.

Inside the modules:

* `NodeSync`: the contents of updates, debug events, notify hints, `seq` numbers.
  `replace()` of the file store is one step, as it is in `SpaceCache`, though it is
  a plain `writeFile` that a crash can leave half done (`file-store.js:60-63`).
* `LiteStore`: refused and duplicate envelopes, the read cache, `scrub()` and
  `forget()`.
* `LiteSync`: the busy answer, shards and time windows, links scoped to a space,
  mirrors that synchronise with each other, an item that is wanted and gone.
* `WriteAccess`: joining by oneself, relay administrators, groups.
* `RelayPresence`: reconnecting.  `SpaceCache`: `staleAfter`, changing the cap; a
  storage that refuses to append; two `compactNode()` calls at once; the writes of
  other Spaces, which only add to a log.
* `Federation`: broken links, chains of relays, and write access: every envelope
  is authorised everywhere, so that the `groupRef` missing on the way up
  (`federation.js:97-98`) does not show.
* `LiteMembers`: demotion by `promote()`, the inbox's own key exchange.  Opening an
  invite is one step, in a process of its own, although `acceptInvite()` awaits in
  it; `rotate()` is one step from keeping the key to publishing it.
* `LiteText`: a run of characters is a character each; `set()`'s difference,
  anchors and cursors are left out.  (`set()` counts UTF-16 units where the CRDT
  counts code points, `text.js:341`, so an edit behind an emoji lands elsewhere.)
  Reopening is one step: records that arrive while `open()` awaits its two queries,
  before it listens for new ones (`text.js:252-270`), are not missed here.
* `Hlc`: a restart.  `LiteReconcile`: the encoding, and collisions of
  fingerprints.

`SessionEnds` of `LiteReconcile` holds on the instance checked and is not proved: how
many rounds a session takes depends on how the sets are split, round after round, and
no bound is known that holds for every limit.  `TypeOK` of `LiteText` and of
`LiteReconcile` is checked only: what matters of it is in the invariants proved.

The assumptions of `NodeSync`, `LiteStore`, `LiteSync` and `SpaceCache` are stated in
the modules and evaluated by TLC; those of `Hlc` (`NaturalBounds`), `LiteText` (`Sites`,
`OneDeviceEach`), `RelayPresence` (`Identities`), `Federation` (`Topology`),
`WriteAccess` (`Parties`), `LiteMembers` (`Group`) and `LiteReconcile` (`Sorted`) are
hypotheses of their theorems, since `MC_Services` takes these modules as instances.
Liveness is checked by TLC only; the prover has no rules for fairness or `ENABLED`.

## 13. Running it

    tlc -workers 2 -config sync_drop.cfg MC_NodeSync.tla
    tlc -workers 2 -config store_merge.cfg MC_LiteStore.tla
    tlc -workers 2 -config lite_sync.cfg MC_LiteSync.tla
    tlc -workers 2 -config services.cfg MC_Services.tla
    tlc -workers 2 -config bug_lost_text.cfg MC_LiteText.tla
    tlapm NodeSync_proofs.tla
    tlapm LiteStore_proofs.tla
    tlapm LiteSync_proofs.tla
    tlapm SpaceCache_proofs.tla
    tlapm WriteAccess_proofs.tla
    tlapm Federation_proofs.tla
    tlapm LiteMembers_proofs.tla
    tlapm LiteText_proofs.tla

The largest run, `sync_resubscribe`, has 3.1 million distinct states.  A run
named `bug_*` is expected to end with a counterexample: its property states what
the documentation says, and the trace shows how the code departs from it.
