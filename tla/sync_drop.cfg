SPECIFICATION Spec
CONSTANTS
  Peer = {p, q}
  Writer = {p, q}
  MaxReleases = 0
  MaxWrites = 1
  MaxCompacts = 0
  MaxDrops = 1
  MaxRestarts = 0
  MaxEvents = 9
SYMMETRY Symmetry
INVARIANTS
  TypeOK
  RemoteIsMirrored
  AckedIsMirrored
  AttachedIsSubscribed
  NoMissedUpdate
PROPERTIES
  SharedSpec
\* The application may simply stop calling.
CHECK_DEADLOCK FALSE
