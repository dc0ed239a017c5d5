SPECIFICATION Spec
CONSTANTS
  Peer = {p, q}
  Writer = {p, q}
  MaxReleases = 1
  MaxWrites = 1
  MaxCompacts = 1
  MaxDrops = 0
  MaxRestarts = 0
  MaxEvents = 2
SYMMETRY Symmetry
INVARIANTS
  NoMissedUpdate
PROPERTIES
  SyncAckComplete
\* The application may simply stop calling.
CHECK_DEADLOCK FALSE
