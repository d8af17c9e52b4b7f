SPECIFICATION FeedSpec
CONSTANTS
  Readers = {d1}
  Ops = {o1, o2, o3, o4}
  Items = {i1, i2}
  Versions = {1, 2, 3}
  Bundle = 4
  Page = 1
  Limit = 1
  MaxOpen = 2
  MaxRev = 4
  NoOp = NoOp
  NoItem = NoItem
SYMMETRY Symmetry
INVARIANT NothingSkipped
CHECK_DEADLOCK FALSE
