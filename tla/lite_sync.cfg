SPECIFICATION MC_Spec
CONSTANTS
  a = a
  r1 = r1
  r2 = r2
  Client = {a}
  Watcher = {a}
  Rec = {r1, r2}
  Other = other
  Author <- MC_Author
  Slot = {1, 2}
  PromptClose = TRUE
  MaxBreaks = 1
  MaxReloads = 1
  MaxRestarts = 1
  MaxTimeouts = 1
  MaxFaults = 1
INVARIANT TypeOK
INVARIANT SentIsMirrored
INVARIANT NothingMissed
PROPERTY OutboxDrains
PROPERTY Delivered
CHECK_DEADLOCK FALSE
