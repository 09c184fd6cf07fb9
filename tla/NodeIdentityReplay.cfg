CONSTANTS
  n1 = n1
  k1 = k1
  k2 = k2
  a = a
  b = b
  Node = {n1}
  Key = {k1, k2}
  Nonce = {a, b}
  Sent <- MCSent
  OwnerKey = OwnerKey
  NoKey = NoKey
  Request = {r1, r2}
  NoMsg = NoMsg
  Skew = 1
  MaxTime = 4
  NoTime = NoTime
SPECIFICATION Spec

PROPERTIES TakenOnce
