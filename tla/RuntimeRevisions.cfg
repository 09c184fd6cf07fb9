CONSTANTS
  MaxKeys = 2
  Kind <- MCKind
  PageLimit = 1
  MaxVersion = 3
  Request = {r1, r2}
  Script = Script
SPECIFICATION Spec
SYMMETRY Symmetry
INVARIANTS TypeOK PointedIsMarked RevokedLeaves KeysStay
PROPERTIES ImplementsLog ScriptAppliesNewer
