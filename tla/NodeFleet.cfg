CONSTANTS
  Node = {n1}
  CertId = {c1, c2, c3}
  Request = {r1, r2}
  NoCert = NoCert
  NoReq = NoReq
\* No symmetry: EndsHeard is a liveness property.
SPECIFICATION FairSpec
INVARIANTS TypeOK OutForAReason StaysOut RevokedGetsNone
PROPERTIES EndsHeard
