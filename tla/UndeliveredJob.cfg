SPECIFICATION Spec
CONSTANTS
  c1 = c1
  c2 = c2
  j1 = j1
  w1 = w1
  Manager = Manager
  None = None
  Conns = {c1}
  Jobs = {j1}
  Callers = {}
  QueueCap = 2
  WireCap = 1
  Beating = {}
  Redispatching = {}
  Reported = {"processing"}
  MaxAttempts = 2
  MaxRestarts = 0
INVARIANT
  UndeliveredMeansNotTaken
CHECK_DEADLOCK FALSE
