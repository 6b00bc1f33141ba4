SPECIFICATION Spec
CONSTANTS
  u1 = u1
  n1 = n1
  n2 = n2
  p1 = p1
  p2 = p2
  j1 = j1
  j2 = j2
  e1 = e1
  e2 = e2
  h1 = h1
  h2 = h2
  None = None
  Users = {u1}
  Nodes = {n1}
  Printers = {p1}
  NodeOf <- OneNode
  Jobs = {j1}
  Documents <- MCDocuments
  Events = {e1, e2}
  Reports <- OneJobReports
  Handlers = {h1, h2}
  InitialQuota = 2
  GrantAmounts = {}
  MaxGrants = 0
  Tasks = {"cleanup", "sweep"}
  MaxDispatches = 1
  Faults = {"write", "restart"}
INVARIANTS
  QuotaPostedOnce
  ReceiptsAgree
PROPERTIES
  ClosedIsFinal
  AcceptedStaysAccepted
SYMMETRY MCSymmetry
CHECK_DEADLOCK FALSE
