------------------------- MODULE MCPrintSettlement --------------------------
(* Small instances of PrintSettlement for TLC.                             *)
EXTENDS PrintSettlement, TLC

CONSTANTS u1, n1, n2, p1, p2, j1, j2, e1, e2, h1, h2

(* Three pages on two sheets: one point is charged after one or two sides. *)
MCDocuments == {[pages |-> 3, copies |-> 1, duplex |-> "longedge", color |-> "mono"]}

Update(e, n, j, status, code, impressions, consumed) ==
  [event |-> e, node |-> n, job |-> j, status |-> status, code |-> code,
   impressions |-> impressions, consumed |-> consumed]

(* The handlers differ only in their names.                                *)
MCSymmetry == Permutations(Handlers)

-----------------------------------------------------------------------------
(* One job, two handlers: a whole print, a partial one under the same      *)
(* event id, a wrong count, uncertainty and a progress report compete with *)
(* dispatches, timeouts and the deletion of the printer.                   *)
OneNode == [p \in {p1} |-> n1]

OneJobReports ==
  { Update(e1, n1, j1, "completed", "", 3, 2),
    Update(e1, n1, j1, "failed", "other", 1, 1),
    Update(e2, n1, j1, "completed", "", 2, 1),
    Update(e2, n1, j1, "unconfirmed", "print_timeout_unconfirmed", 0, 0),
    Update(e2, n1, j1, "processing", "", 0, 0) }

(* Two jobs of one user on the printers of two nodes: there is quota for   *)
(* one of them until a refund or a grant, an event id is used for both, and*)
(* a node reports another node's job.                                      *)
TwoNodes == [p \in {p1, p2} |-> IF p = p1 THEN n1 ELSE n2]

TwoJobReports ==
  { Update(e1, n1, j1, "failed", "other", 1, 1),
    Update(e2, n1, j1, "unconfirmed", "other", 0, 0),
    Update(e1, n2, j2, "canceled", "other", 2, 1),
    Update(e2, n2, j1, "completed", "", 3, 2) }
=============================================================================
