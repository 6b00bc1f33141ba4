SPECIFICATION FleetSpec
CONSTANTS
  p1 = p1
  p2 = p2
  k1 = k1
  a1 = a1
  a2 = a2
  e1 = e1
  e2 = e2
  None = None
  Printers = {p1}
  FleetJobs = {k1}
  Admins = {a1, a2}
  Edges = {e1}
SYMMETRY FleetSymmetry
INVARIANTS
  DisabledPrinterSettled
