SPECIFICATION Spec
CONSTANTS
  Devices = {d1, d2}
  Slots = {s1}
  Ops = {o1, o2, o3, o4}
  Items = {i1}
  LocalIds = {l1}
  Versions = {1}
  Bundle = 4
  NoOp = NoOp
  NoItem = NoItem
SYMMETRY Symmetry
PROPERTY NoBlindOverwrite
CHECK_DEADLOCK FALSE
