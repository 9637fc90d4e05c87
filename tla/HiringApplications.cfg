SPECIFICATION HiringSpec
SYMMETRY HiringSymmetry
CONSTANTS
  Job = {j1}
  Candidate = {c1, c2}
  App = {a1, a2, a3}
  Offer = {o1}
  Null = Null
  Request = {r1, r2}
  Ops = {"post", "moderate", "apply", "withdraw"}
  Manual = {}
  FiledAs = {"withdrawn"}
  Counts = {2}
  MaxFail = 1
INVARIANTS
  BlockedStaysHidden
  CountAgrees
  OneApplicationUnlessRaced
