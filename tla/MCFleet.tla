------------------------------- MODULE MCFleet -------------------------------
EXTENDS Fleet, TLC
CONSTANTS p1, p2, k1, a1, a2, e1, e2
FleetSymmetry == Permutations(Printers) \cup Permutations(Edges) \cup Permutations(Admins)
=============================================================================
