SPECIFICATION Spec
CONSTANTS
  s1 = s1
  s2 = s2
  g1 = g1
  g2 = g2
  u1 = u1
  u2 = u2
  l1 = l1
  l2 = l2
  None = None
  Sessions = {s1, s2}
  Generations = {g1, g2}
  Entries <- MCEntries
  MaxAttempts = 2
  Users = {u1, u2}
  Loops = {l1}
  Faults = {}
INVARIANTS
  BoundUserLoggedIn
CHECK_DEADLOCK FALSE
