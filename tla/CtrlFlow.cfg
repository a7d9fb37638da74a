SPECIFICATION FairSpec
CONSTANTS
  Devs = {d1, d2}
  First = d1
  None = None
  Users = {u1}
  App = app
  Slots = 1
  Tries = 2
  AppAlone = TRUE
  MaxCalls = 3
INVARIANTS OpenWhenUsed OkIsAnswered NoneLost
PROPERTIES CallsReturn
CHECK_DEADLOCK FALSE
