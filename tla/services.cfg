SPECIFICATION AnySpec
CONSTANTS
  owner = owner
  guest = guest
  reader = reader
  alice = alice
  bob = bob
  tab1 = tab1
  tab2 = tab2
  tab3 = tab3
  founder = founder
  deputy = deputy
  joiner = joiner
  d1 = d1
  d2 = d2
  hub = hub
  east = east
  west = west
  edit = edit
  snap = snap
  NotHere = NotHere
  Id = {x, y, z}
  Group = {z}
  Used = {x, y, z}
  WrittenTo = {}
  Stored = {x}
  Caller = {u1, u2}
  WarmCaps = {0, 1}
  MaxGens = 2
  MaxRefs = 3
  MaxWrites = 1
  MaxFails = 1
  MaxCrashes = 1
INVARIANT TypesOK
INVARIANT ReadersAccept
INVARIANT WatchersAgree
INVARIANT NewestTabCounts
INVARIANT LastDeclarationCounts
INVARIANT HeldIsAttached
INVARIANT FreedOrWarm
INVARIANT SentIsStored
INVARIANT AcceptedAlike
INVARIANT RemainingFollow
INVARIANT RemovedStaysOut
INVARIANT TextConverges
INVARIANT NothingLost
INVARIANT IssuedGrow
INVARIANT DriftBounded
INVARIANT DifferenceFound
INVARIANT SessionEnds
INVARIANT BothDirections
CHECK_DEADLOCK FALSE
