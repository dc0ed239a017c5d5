SPECIFICATION Spec
CONSTANTS
  d1 = d1
  d2 = d2
  Device = {d1, d2}
  Rank <- SiteOrder
  AuthorOf <- OneAuthor
  MaxCost = 10
  MaxReopens = 0
INVARIANT NothingLost
CHECK_DEADLOCK FALSE
