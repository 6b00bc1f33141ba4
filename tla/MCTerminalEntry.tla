-------------------------- MODULE MCTerminalEntry ---------------------------
(* Small instances of TerminalEntry for TLC.                               *)
EXTENDS TerminalEntry, TLC

CONSTANTS s1, s2, g1, g2, u1, u2, l1, l2

MCEntries == 1..2

(* Sessions, generations, users and read loops differ only in their names. *)
MCSymmetry == Permutations(Sessions) \cup Permutations(Generations)
                \cup Permutations(Users) \cup Permutations(Loops)
=============================================================================
