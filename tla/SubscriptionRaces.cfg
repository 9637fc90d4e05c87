SPECIFICATION Spec
SYMMETRY SlotSymmetry
CONSTANTS
  Company = {c1}
  Sub = {1, 2}
  Pay = {1, 2}
  Intent = {1, 2}
  Null = Null
  Client = {r1, r2}
  Worker = {r1, r2}
  Ops = {"create", "confirm", "retry", "cancel", "process"}
  Durations = {1}
  MaxNow = 2
  MaxFail = 1
  MaxCredits = 0
INVARIANTS
  TypeOK
  CompletedMeansInvoiced
  WalkInLiveMeansPaid
  StrandedOnlyByFailure
PROPERTIES
  ImplementsLifecycle
