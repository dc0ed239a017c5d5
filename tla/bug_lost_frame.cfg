SPECIFICATION FairSpec
CONSTANTS
  Peer = {p}
  Writer = {p}
  MaxReleases = 0
  MaxWrites = 1
  MaxCompacts = 0
  MaxDrops = 1
  MaxRestarts = 0
  MaxEvents = 9
PROPERTIES
  QueuedReachesMirror
\* The application may simply stop calling.
CHECK_DEADLOCK FALSE
