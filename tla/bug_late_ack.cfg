SPECIFICATION Spec
CONSTANTS
  Peer = {p, q}
  Writer = {p, q}
  MaxReleases = 1
  MaxWrites = 1
  MaxCompacts = 0
  MaxDrops = 0
  MaxRestarts = 0
  MaxEvents = 9
PROPERTIES
  SyncFlagHonest
\* The application may simply stop calling.
CHECK_DEADLOCK FALSE
