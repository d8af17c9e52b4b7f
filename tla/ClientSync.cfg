SPECIFICATION Spec
CONSTANTS
  Devices = {d1, d2}
  Slots = {s1}
  Ops = {o1, o2, o3}
  Items = {i1, i2}
  LocalIds = {l1, l2}
  Versions = {1}
  Bundle = 3
  NoOp = NoOp
  NoItem = NoItem
SYMMETRY Symmetry
INVARIANTS TypeOK SyncedDeviceAgrees RetriesApplyOnce
PROPERTY NoOperationLost
CHECK_DEADLOCK FALSE
