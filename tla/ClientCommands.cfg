SPECIFICATION Spec
CONSTANTS
  Users = {u1, u2}
  Keys = {k1, k2}
  Ops = {o1, o2}
  Large = {o2}
  Blobs = {b1}
  Beside = 1
  Changes = 2
  Slots = {s1, s2}
  None = None
SYMMETRY Symmetry
INVARIANTS TypeOK KeysRecoverable SealedForOwner RowBlobCommitted OwnDataReadable
PROPERTY QueuedOpSurvives
CHECK_DEADLOCK FALSE
