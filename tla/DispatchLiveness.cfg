SPECIFICATION FairSpec
CONSTANTS
  c1 = c1
  c2 = c2
  j1 = j1
  w1 = w1
  Manager = Manager
  None = None
  Conns = {c1}
  Jobs = {j1}
  Callers = {w1}
  QueueCap = 1
  WireCap = 1
  Beating = {}
  Redispatching = {c1}
  Reported = {"processing"}
  MaxAttempts = 1
  MaxRestarts = 1
PROPERTIES
  JobsLeavePending
  ClosedSocketLeaves
CHECK_DEADLOCK FALSE
