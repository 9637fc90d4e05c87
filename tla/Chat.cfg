SPECIFICATION ChatSpec
SYMMETRY ChatSymmetry
CONSTANTS
  User = {u1}
  Company = {k1}
  Job = {}
  Null = Null
  Conv = {c1, c2}
  Request = {r1, r2}
  PageSize = 1
  JoinSize = 2
  MaxMsg = 2
  MaxFail = 1
INVARIANTS
  OneConversationUnlessRaced
  LastIsNewestUnlessRaced
  UnreadExplained
PROPERTY NothingTakenBack
CHECK_DEADLOCK FALSE
