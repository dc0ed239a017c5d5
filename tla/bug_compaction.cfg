SPECIFICATION Spec
CONSTANTS
  Peer = {p, q}
  Writer = {p, q}
  MaxReleases = 0
  MaxWrites = 1
  MaxCompacts = 1
  MaxDrops = 0
  MaxRestarts = 0
  MaxEvents = 9
PROPERTIES
  MirrorGrows
\* The application may simply stop calling.
CHECK_DEADLOCK FALSE
