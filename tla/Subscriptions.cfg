CONSTANTS
  MaxKeys = 3
  Kind <- MCKind
  MaxNodes = 2
  PageLimit = 2
  Request = {r1}
SPECIFICATION Spec
INVARIANTS TypeOK ServedInTime KeptAreServed LinkPrefersUsable
