SPECIFICATION AccountSpec
CONSTRAINT Budget
SYMMETRY AccountSymmetry
CONSTANTS
  Role = {"user"}
  Email = {e1}
  Draft = {d1, d2}
  Null = Null
  Request = {r1, r2}
  MaxCode = 2
  MaxLink = 1
  MaxToken = 3
  MaxFail = 1
INVARIANTS
  SignedUpMeansProven
  OneSessionPerLogin
  LinkOnceUnlessRaced
CHECK_DEADLOCK FALSE
