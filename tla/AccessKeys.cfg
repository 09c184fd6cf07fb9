CONSTANTS
  User = {u1, u2}
  NoUser = NoUser
  Fingerprint = {f1}
  NoDevice = NoDevice
  AccessKey = {k1}
  None = None
  Policy <- MCQuotaPolicy
  Request = {r1, r2}
  MaxUsage = 1
SPECIFICATION Spec
SYMMETRY Symmetry
INVARIANTS QuotaHeld BlockHolds
PROPERTIES ImplementsRegistry
