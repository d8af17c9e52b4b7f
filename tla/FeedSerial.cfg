SPECIFICATION FeedSpec
CONSTANTS
  Readers = {d1}
  Ops = {o1, o2, o3, o4}
  Items = {i1, i2, i3}
  Versions = {1, 2, 3}
  Bundle = 5
  Page = 2
  Limit = 1
  MaxOpen = 1
  MaxRev = 5
  NoOp = NoOp
  NoItem = NoItem
SYMMETRY Symmetry
INVARIANTS FeedTypeOK NothingSkipped CaughtUpReaderAgrees ListingAccountsForItems
PROPERTY ReplicaMovesForward
CHECK_DEADLOCK FALSE
