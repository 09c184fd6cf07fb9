CONSTANTS
  Node = {n1, n2}
  CertId = {c1, c2, c3}
  Request = {r1, r2}
  MaxTime = 2
  NoCert = NoCert
  NoRow = NoRow
  TTL = 2
  RenewBefore = 1
\* No symmetry: GapCloses is a liveness property.
SPECIFICATION FairSpec
INVARIANTS TypeOK OneActiveCert GapExplained Lineage
PROPERTIES HistoryKept SweepTakesOnlyDue ImplementsSlot GapCloses
\* The clock and the uuids are bounded: the model may run out of both.
CHECK_DEADLOCK FALSE
