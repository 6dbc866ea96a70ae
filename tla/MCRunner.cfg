SPECIFICATION Spec
CONSTANTS
  real = real
  fake = fake
  Runs = {r1, r2}
  CPEs = {real, fake}
  Registered = {real}
  Requests <- MCRequests
  NVDEnabled = TRUE
  HasTTL = TRUE
  TTL = 2
  Total = 1
  WriteTimeout = 1
  MaxTime = 4
SYMMETRY Symmetry
INVARIANTS
  TypeOK
  PinnedIsVouchedFor
PROPERTIES
  MappingsExpire
