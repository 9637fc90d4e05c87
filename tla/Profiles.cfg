SPECIFICATION ProfileSpec
SYMMETRY ProfileSymmetry
CONSTANTS
  Key = {k1, k2}
  Entry = {e1, e2}
  Form <- Forms
  Lines <- BodyLines
  UserBody <- UserBodies
  CompanyBody <- CompanyBodies
  Null = Null
  Request = {r1, r2}
  MaxEntries = 2
  MaxRequest = 4
  MaxFail = 1
CONSTRAINT Budget
INVARIANTS
  NamedFilesExist
  StraysExplained
  TotalAgreesUnlessRaced
PROPERTY VerdictsSoundUnlessRaced
CHECK_DEADLOCK FALSE
