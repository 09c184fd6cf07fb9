CONSTANTS
  MaxKeys = 2
  Kind <- MCKind
  PageLimit = 1
  MaxVersion = 2
  Request = {r1, r2}
  Script = Script
SPECIFICATION Spec
INVARIANTS KeysHaveClients
