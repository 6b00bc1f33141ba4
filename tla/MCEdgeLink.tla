----------------------------- MODULE MCEdgeLink -----------------------------
(* Small instances of EdgeLink for TLC: the sockets, jobs and callers of   *)
(* the configurations are model values.                                    *)
EXTENDS EdgeLink

CONSTANTS c1, c2, j1, w1
=============================================================================
