SPECIFICATION FairSpec
CONSTANTS
  Devices = {d1}
  Slots = {s1}
  Ops = {o1, o2}
  Items = {i1, i2}
  LocalIds = {l1}
  Versions = {1}
  Bundle = 3
  NoOp = NoOp
  NoItem = NoItem
PROPERTY QueueDrains
CHECK_DEADLOCK FALSE
