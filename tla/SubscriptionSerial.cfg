SPECIFICATION Spec
CONSTANTS
  Company = {c1}
  Sub = {1, 2, 3}
  Pay = {1, 2, 3}
  Intent = {1, 2, 3}
  Null = Null
  Client = {r1}
  Worker = {r1}
  Ops = {"create", "cancel", "confirm", "process", "retry", "addon"}
  Durations = {1}
  MaxNow = 4
  MaxFail = 1
  MaxCredits = 1
INVARIANTS
  QueuedFlagAgrees
  NoEarlyExpiry
  QueueIsLed
  CompletedMeansCharged
CONSTRAINT OneCharge
