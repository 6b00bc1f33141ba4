SPECIFICATION Spec
CONSTANTS
  u1 = u1
  n1 = n1
  n2 = n2
  p1 = p1
  p2 = p2
  j1 = j1
  j2 = j2
  e1 = e1
  e2 = e2
  h1 = h1
  h2 = h2
  None = None
  Users = {u1}
  Nodes = {n1, n2}
  Printers = {p1, p2}
  NodeOf <- TwoNodes
  Jobs = {j1, j2}
  Documents <- MCDocuments
  Events = {e1, e2}
  Reports <- TwoJobReports
  Handlers = {h1}
  InitialQuota = 3
  GrantAmounts = {1}
  MaxGrants = 1
  Tasks = {"lifecycle"}
  MaxDispatches = 0
  Faults = {"read", "restart"}
INVARIANTS
  TypeOK
  LedgerChain
PROPERTIES
  KeepsQuotaPromise
CHECK_DEADLOCK FALSE
