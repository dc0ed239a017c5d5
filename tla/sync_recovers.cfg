SPECIFICATION FairSpec
CONSTANTS
  Peer = {p, q}
  Writer = {p}
  MaxReleases = 0
  MaxWrites = 2
  MaxCompacts = 0
  MaxDrops = 0
  MaxRestarts = 1
  MaxEvents = 2
PROPERTIES
  MirroredReachesUsers
  EventuallySynced
  WrittenReachesUsers
\* The application may simply stop calling.
CHECK_DEADLOCK FALSE
