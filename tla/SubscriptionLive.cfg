SPECIFICATION FairSpec
CONSTANTS
  Company = {c1}
  Sub = {1, 2, 3}
  Pay = {1, 2, 3}
  Intent = {1, 2, 3}
  Null = Null
  Client = {r1}
  Worker = {w1}
  Ops = {"create", "cancel", "process"}
  Durations = {1}
  MaxNow = 3
  MaxFail = 1
  MaxCredits = 0
PROPERTY DueIsServed
