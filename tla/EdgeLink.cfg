SPECIFICATION Spec
CONSTANTS
  c1 = c1
  c2 = c2
  j1 = j1
  w1 = w1
  Manager = Manager
  None = None
  Conns = {c1, c2}
  Jobs = {j1}
  Callers = {}
  QueueCap = 1
  WireCap = 1
  Beating = {c2}
  Redispatching = {c2}
  Reported = {"completed"}
  MaxAttempts = 2
  MaxRestarts = 0
INVARIANTS
  TypeOK
  WaitersAreWaiting
  LiveSocketIsCurrent
  DeadSocketIsReported
PROPERTIES
  KeepsPromise
CHECK_DEADLOCK FALSE
