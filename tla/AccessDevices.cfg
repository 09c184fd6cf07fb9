CONSTANTS
  User = {u1, u2}
  NoUser = NoUser
  Fingerprint = {f1, f2, f3}
  NoDevice = NoDevice
  AccessKey = {}
  None = None
  Policy <- MCDevicePolicy
  Request = {r1, r2}
  MaxUsage = 0
SPECIFICATION Spec
SYMMETRY Symmetry
INVARIANTS TypeOK NoOrphans DevicesBounded
PROPERTIES OneOwner
