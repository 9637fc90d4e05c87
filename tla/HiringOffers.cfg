SPECIFICATION HiringSpec
SYMMETRY HiringSymmetry
CONSTANTS
  Job = {j1}
  Candidate = {c1}
  App = {a1}
  Offer = {o1, o2}
  Null = Null
  Request = {r1, r2}
  Ops = {"post", "apply", "withdraw", "review", "offer", "respond", "sign", "verify"}
  Manual = {"reviewing", "shortlisted"}
  FiledAs = {"pending", "reviewing", "shortlisted", "interviewed", "offered", "rejected", "withdrawn", "hired"}
  Counts = {}
  MaxFail = 1
INVARIANTS
  OneActiveOfferUnlessRaced
  HiredMeansVerified
PROPERTIES
  WithdrawnInTimeUnlessRaced
  ImplementsProtocol
