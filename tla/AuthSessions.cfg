SPECIFICATION FairSpec
CONSTANTS
  Users = {u1, u2}
  Devices = {d1}
  Tokens = {t1, t2, t3}
  Workers = {w1, w2}
  None = None
INVARIANTS TypeOK RevokedDeviceHasNoSession OneTimeRefresh
  SessionBelongsToDeviceOwner RegistrationIsAtomic
PROPERTY EveryCallEnds
CHECK_DEADLOCK FALSE
