SPECIFICATION Spec
CONSTANTS
  Sub = {s1, s2, s3}
  Request = {p1, p2}
  Padded = 3
  Base = 2
  MaxMonth = 2
INVARIANTS
  NumbersGapless
PROPERTY ImplementsLedger
