SPECIFICATION CatalogueSpec
SYMMETRY CatalogueSymmetry
CONSTANTS
  Plan = {i1, i2}
  Skill = {s1}
  Sale = {y1}
  Name <- Names
  Free = "free"
  Within <- NamesWithin
  Price = {0, 1}
  Terms = {t1, t2}
  Request = {r1, r2}
  MaxRequest = 4
  MaxFail = 1
  Null = Null
  Gone = Gone
INVARIANTS
  FreeCostsNothingUnlessRaced
  AskedAsSold
  TogglesCountUnlessRaced
CHECK_DEADLOCK FALSE
