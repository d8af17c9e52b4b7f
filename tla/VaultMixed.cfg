SPECIFICATION Spec
CONSTANTS
  Calls = {c1, c2, c3}
  Ops = {o1, o2}
  Items = {i1, i2}
  Versions = {1, 2}
  Paths = {"push", "direct"}
  NoOp = NoOp
  NoItem = NoItem
SYMMETRY Symmetry
INVARIANTS TypeInv AckIsLogged OneWinnerPerVersion
PROPERTY NoLostUpdate
CHECK_DEADLOCK FALSE
