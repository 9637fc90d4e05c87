SPECIFICATION CallSpec
SYMMETRY CallSymmetry
CONSTANTS
  User = {u1, u2}
  Event = {e1, e2, e3}
  MaxFail = 1
INVARIANTS
  OneEntryUnlessOverlapped
  ActiveMeansTwoUsers
  OneInitiator
  EmptyMeansEnded
PROPERTY OverForGood
