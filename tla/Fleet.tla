------------------------------- MODULE Fleet -------------------------------
(***************************************************************************)
(* The lifecycle of one Edge node and of its printers: an administrator    *)
(* disables, enables and deletes them, the Edge registers and deletes its  *)
(* printers, and meanwhile jobs are authorised and upload tokens issued.   *)
(*                                                                         *)
(* The requests are processes.  A request that closes a node or a printer  *)
(* commits the row first, then lists the active jobs, settles them one by  *)
(* one and revokes the upload tokens, each in a transaction of its own     *)
(* (handlers/edge_node_handler.go, handlers/printer_handler.go).  A        *)
(* registration and an administrator's edit of a printer read the whole    *)
(* row and later write the whole row.                                      *)
(*                                                                         *)
(* Alerts and the observed status are Availability's, the sockets are      *)
(* EdgeLink's, the life of a single token is AccessTokens'.                *)
(***************************************************************************)
EXTENDS Naturals, FiniteSets

CONSTANTS
  Printers,   \* identities of printer rows, all of one reported name
  FleetJobs,  \* identities of print jobs
  Admins,     \* administrators' requests that may run at once
  Edges,      \* the Edge's HTTP requests that may run at once
  None

ASSUME FleetAssumption ==
  /\ Admins \cap Edges = {}
  /\ None \notin Printers \cup FleetJobs
  /\ "node" \notin Printers

VARIABLES
  node,       \* the node's row: not deleted, enabled
  printer,    \* the printers' rows
  work,       \* the print jobs that refer to the printers
  token,      \* an upload token of each printer that can still be used
  request,    \* where each administrator's and Edge's request stands
  passed,     \* the socket's message that has passed its checks
  abandoned   \* history: what a closing gave up before its last step

fleetVars == <<node, printer, work, token, request, passed, abandoned>>

Requests == Admins \cup Edges
Closings == {"node", "nodeGone", "printer", "printerGone"}
Idle == [stage |-> "idle"]

(* A printer row.  `blind` is a history variable: the row was last disabled *)
(* by a write that had not read it enabled.                                *)
Deleted == [row |-> "deleted", enabled |-> TRUE, blind |-> FALSE]
Row == [row : {"absent", "live", "deleted"}, enabled : BOOLEAN, blind : BOOLEAN]

(* An upload token is `valid` from its issue for an open printer.  It is   *)
(* `left` when a disable has failed to revoke it, or was faster than its   *)
(* registration, and `unregistered` when it was handed out without a row.  *)
Tokens == {"none", "valid", "left", "unregistered"}

Editing == [stage : {"edit"}, p : Printers, read : BOOLEAN, want : BOOLEAN]
Creating == [stage : {"create"}]
Closing == [stage : {"list", "settle"}, what : Closings,
            p : Printers \cup {None}, left : SUBSET FleetJobs]

FleetTypeOK ==
  /\ node \in [live : BOOLEAN, enabled : BOOLEAN]
  /\ printer \in [Printers -> Row]
  /\ work \in [FleetJobs -> [state : {"none", "active", "ended"},
                             at : Printers \cup {None},
                             by : {"portal", "socket"}]]
  /\ token \in [Printers -> Tokens]
  /\ request \in [Requests -> {Idle} \cup Editing \cup Creating \cup Closing]
  /\ passed \in [ask : {"nothing", "token", "job"}, p : Printers \cup {None}]
  /\ abandoned \subseteq {"node"} \cup Printers

FleetInit ==
  /\ node = [live |-> TRUE, enabled |-> TRUE]
  /\ printer = [p \in Printers |-> [row |-> "absent", enabled |-> TRUE, blind |-> FALSE]]
  /\ work = [j \in FleetJobs |-> [state |-> "none", at |-> None, by |-> "portal"]]
  /\ token = [p \in Printers |-> "none"]
  /\ request = [r \in Requests |-> Idle]
  /\ passed = [ask |-> "nothing", p |-> None]
  /\ abandoned = {}

-----------------------------------------------------------------------------
Live == {p \in Printers : printer[p].row = "live"}

(* A new task may be admitted: both rows live and enabled.                 *)
NodeOpen == node.live /\ node.enabled
Open(p) == NodeOpen /\ printer[p].row = "live" /\ printer[p].enabled

(* Mutant: the jobs of soft-deleted printers are left out of the list.     *)
ActiveOf_LivePrinters(what, p) ==
  {j \in FleetJobs : /\ work[j].state = "active"
                     /\ work[j].at \in Live
                     /\ what \in {"printer", "printerGone"} => work[j].at = p}

(* pj.status IN ('pending','dispatched','processing'), by node or printer. *)
ActiveOf(what, p) ==
  {j \in FleetJobs : /\ work[j].state = "active"
                     /\ what \in {"printer", "printerGone"} => work[j].at = p}

Close(what, p) == [stage |-> "list", what |-> what, p |-> p, left |-> {}]
Subject(c) == IF c.what \in {"node", "nodeGone"} THEN "node" ELSE c.p

-----------------------------------------------------------------------------
(* EdgeRegisterPrinter, first half: the node exists and is enabled; a live *)
(* row of the reported name is read whole, or there is none.               *)
RegisterLookup(e) ==
  /\ request[e] = Idle
  /\ NodeOpen
  /\ \/ \E p \in Live :
          request' = [request EXCEPT ![e] =
            [stage |-> "edit", p |-> p, read |-> printer[p].enabled,
             want |-> printer[p].enabled]]
     \/ Live = {} /\ request' = [request EXCEPT ![e] = [stage |-> "create"]]
  /\ UNCHANGED <<node, printer, work, token, passed, abandoned>>

(* Mutant: no unique index over the live rows of a name.                   *)
CreatePrinter_NoIndex(e) ==
  /\ request[e].stage = "create"
  /\ \E p \in Printers :
       /\ printer[p].row = "absent"
       /\ printer' = [printer EXCEPT ![p] =
            [row |-> "live", enabled |-> TRUE, blind |-> FALSE]]
  /\ request' = [request EXCEPT ![e] = Idle]
  /\ UNCHANGED <<node, work, token, passed, abandoned>>

(* Second half, no row found: CreatePrinter, which the unique index over   *)
(* the live rows of a name refuses when another registration was faster.   *)
CreatePrinter(e) ==
  /\ request[e].stage = "create"
  /\ \/ /\ Live = {}
        /\ \E p \in Printers :
             /\ printer[p].row = "absent"
             /\ printer' = [printer EXCEPT ![p] =
                  [row |-> "live", enabled |-> TRUE, blind |-> FALSE]]
     \/ Live # {} /\ printer' = printer
  /\ request' = [request EXCEPT ![e] = Idle]
  /\ UNCHANGED <<node, work, token, passed, abandoned>>

(* UpdatePrinter (the administrator's), first half: the row is read.       *)
EditPrinter(a, p, want) ==
  /\ request[a] = Idle
  /\ printer[p].row = "live"
  /\ request' = [request EXCEPT ![a] =
       [stage |-> "edit", p |-> p, read |-> printer[p].enabled, want |-> want]]
  /\ UNCHANGED <<node, printer, work, token, passed, abandoned>>

(* Second half of either: the whole row is written back, whatever it has   *)
(* become since.  Nothing reads the `enabled` of a row that was deleted in *)
(* between again.  Only an administrator's write that read the row enabled *)
(* goes on to settle.                                                      *)
WritePrinter(r) ==
  /\ request[r].stage = "edit"
  /\ LET p == request[r].p
         want == request[r].want
         disabling == r \in Admins /\ request[r].read /\ ~want
     IN /\ printer' = IF p \notin Live THEN printer ELSE [printer EXCEPT
             ![p].enabled = want,
             ![p].blind = ~want /\ ~disabling /\ (@ \/ printer[p].enabled)]
        /\ request' = [request EXCEPT ![r] = IF disabling THEN Close("printer", p) ELSE Idle]
        /\ abandoned' = IF want /\ p \in Live THEN abandoned \ {p} ELSE abandoned
  /\ UNCHANGED <<node, work, token, passed>>

(* DeletePrinter and EdgeDeletePrinter: the soft delete, then the closing. *)
DeletePrinter(r, p) ==
  /\ request[r] = Idle
  /\ r \in Edges => NodeOpen
  /\ printer[p].row = "live"
  /\ printer' = [printer EXCEPT ![p] = Deleted]
  /\ request' = [request EXCEPT ![r] = Close("printerGone", p)]
  /\ UNCHANGED <<node, work, token, passed, abandoned>>

(* UpdateEnabled: one statement over the node's row, then the closing.     *)
UpdateEnabled(a, enabled) ==
  /\ request[a] = Idle
  /\ node.live
  /\ node' = [node EXCEPT !.enabled = enabled]
  /\ request' = [request EXCEPT ![a] = IF enabled THEN Idle ELSE Close("node", None)]
  /\ abandoned' = IF enabled THEN abandoned \ {"node"} ELSE abandoned
  /\ UNCHANGED <<printer, work, token, passed>>

(* DeleteEdgeNode: one transaction deletes the node and its printers (the  *)
(* tickets, alerts and contacts of the node go with it).                   *)
DeleteEdgeNode(a) ==
  /\ request[a] = Idle
  /\ node.live
  /\ node' = [node EXCEPT !.live = FALSE]
  /\ printer' = [p \in Printers |-> IF p \in Live THEN Deleted ELSE printer[p]]
  /\ request' = [request EXCEPT ![a] = Close("nodeGone", None)]
  /\ UNCHANGED <<work, token, passed, abandoned>>

-----------------------------------------------------------------------------
(* After the commit: the active jobs are counted and listed.  The count    *)
(* only spares the list.                                                   *)
ListActive(r) ==
  /\ request[r].stage = "list"
  /\ request' = [request EXCEPT ![r].stage = "settle",
                                ![r].left = ActiveOf(request[r].what, request[r].p)]
  /\ UNCHANGED <<node, printer, work, token, passed, abandoned>>

(* settleActiveJobs: ApplyJobResult fails one listed job; a job that has   *)
(* ended since is left as it is.                                           *)
SettleJob(r) ==
  /\ request[r].stage = "settle"
  /\ \E j \in request[r].left :
       /\ work' = [work EXCEPT ![j].state = "ended"]
       /\ request' = [request EXCEPT ![r].left = @ \ {j}]
  /\ UNCHANGED <<node, printer, token, passed, abandoned>>

(* The count, the list or a settlement fails: the handler answers 500 and  *)
(* does none of what was to follow.                                        *)
SettleFails(r) ==
  /\ \/ request[r].stage = "list"
     \/ request[r].stage = "settle" /\ request[r].left # {}
  /\ abandoned' = abandoned \cup {Subject(request[r])}
  /\ request' = [request EXCEPT ![r] = Idle]
  /\ UNCHANGED <<node, printer, work, token, passed>>

(* Mutant: disabling a printer leaves its tokens.                          *)
Revoked_NodeOnly(c) == IF c.what = "node" THEN Printers ELSE {}

(* The last steps: a disable revokes the upload tokens of the node or of   *)
(* the printer; a deletion leaves them to the upload's own checks.         *)
Revoked(c) == CASE c.what = "node" -> Printers
                [] c.what = "printer" -> {c.p}
                [] OTHER -> {}

(* Revocations look for rows.  An unregistered token has none, and a       *)
(* revocation that fails ends the request like one that succeeds: its      *)
(* error is logged (UpdatePrinter) or dropped (UpdateEnabled).             *)
Revocable(c) == {p \in Revoked(c) : token[p] \in {"valid", "left"}}

FinishClosing(r) ==
  /\ request[r].stage = "settle"
  /\ request[r].left = {}
  /\ \E to \in {"none", "left"} :
       token' = [p \in Printers |-> IF p \in Revocable(request[r]) THEN to ELSE token[p]]
  /\ request' = [request EXCEPT ![r] = Idle]
  /\ UNCHANGED <<node, printer, work, passed, abandoned>>

-----------------------------------------------------------------------------
(* Authorize: one transaction that locks the printer's and the node's row, *)
(* checks both and inserts the job.                                        *)
Authorize(j, p) ==
  /\ work[j].state = "none"
  /\ Open(p)
  /\ work' = [work EXCEPT ![j] = [state |-> "active", at |-> p, by |-> "portal"]]
  /\ UNCHANGED <<node, printer, token, request, passed, abandoned>>

(* submit_print_params and request_upload_token over the socket: the same  *)
(* checks, but nothing is locked between them and the write that follows.  *)
PassChecks(ask, p) ==
  /\ passed.ask = "nothing"
  /\ Open(p)
  /\ passed' = [ask |-> ask, p |-> p]
  /\ UNCHANGED <<node, printer, work, token, request, abandoned>>

CreatePrintJob(j) ==
  /\ passed.ask = "job"
  /\ work[j].state = "none"
  /\ work' = [work EXCEPT ![j] = [state |-> "active", at |-> passed.p, by |-> "socket"]]
  /\ passed' = [ask |-> "nothing", p |-> None]
  /\ UNCHANGED <<node, printer, token, request, abandoned>>

(* GenerateUploadToken pre-registers the token and hands it out even when  *)
(* that fails.  Earlier tokens stay as they are: `token` goes on with any  *)
(* one of them.                                                            *)
IssueToken ==
  /\ passed.ask = "token"
  /\ LET p == passed.p
     IN \E t \in {token[p], "unregistered", IF Open(p) THEN "valid" ELSE "left"} :
          token' = [token EXCEPT ![p] = t]
  /\ passed' = [ask |-> "nothing", p |-> None]
  /\ UNCHANGED <<node, printer, work, request, abandoned>>

(* The Edge reports the end of a job.                                      *)
JobEnds(j) ==
  /\ work[j].state = "active"
  /\ work' = [work EXCEPT ![j].state = "ended"]
  /\ UNCHANGED <<node, printer, token, request, passed, abandoned>>

(* The server stops: the requests are gone, the rows stay.                 *)
Restart ==
  /\ request' = [r \in Requests |-> Idle]
  /\ passed' = [ask |-> "nothing", p |-> None]
  /\ abandoned' = abandoned \cup
       {Subject(request[r]) : r \in {s \in Requests : request[s].stage \in {"list", "settle"}}}
  /\ UNCHANGED <<node, printer, work, token>>

FleetNext ==
  \/ \E e \in Edges : RegisterLookup(e) \/ CreatePrinter(e)
  \/ \E a \in Admins, p \in Printers, want \in BOOLEAN : EditPrinter(a, p, want)
  \/ \E r \in Requests, p \in Printers : DeletePrinter(r, p)
  \/ \E a \in Admins, enabled \in BOOLEAN : UpdateEnabled(a, enabled)
  \/ \E a \in Admins : DeleteEdgeNode(a)
  \/ \E r \in Requests : \/ WritePrinter(r) \/ ListActive(r) \/ SettleJob(r)
                         \/ SettleFails(r) \/ FinishClosing(r)
  \/ \E j \in FleetJobs, p \in Printers : Authorize(j, p)
  \/ \E ask \in {"token", "job"}, p \in Printers : PassChecks(ask, p)
  \/ \E j \in FleetJobs : CreatePrintJob(j) \/ JobEnds(j)
  \/ IssueToken
  \/ Restart

FleetSpec == FleetInit /\ [][FleetNext]_fleetVars

-----------------------------------------------------------------------------
(* A closing of p's printer or node that can still reach job j.            *)
WillSettle(j, p) ==
  \E r \in Requests :
    /\ request[r].stage \in {"list", "settle"}
    /\ Subject(request[r]) \in {"node", p}
    /\ request[r].stage = "settle" => j \in request[r].left

(* A job that the portal's transaction authorised is never left active on  *)
(* a node or a printer that is disabled or deleted: the closing that       *)
(* follows the commit still has to settle it.  What remains are the two    *)
(* gaps the code has: the closing gave up, or the row was disabled by a    *)
(* write that did not know that it disabled it.                            *)
AuthorizedJobsSettled ==
  \A j \in FleetJobs :
    LET p == work[j].at IN
    work[j].state = "active" /\ work[j].by = "portal" =>
      \/ Open(p)
      \/ WillSettle(j, p)
      \/ abandoned \cap {"node", p} # {}
      \/ printer[p].blind

(* Claim of printer_handler.go: UpdatePrinter commits the row before the   *)
(* settlement, so a racing authorisation observes the disabled state or is *)
(* settled.                                                                *)
DisabledPrinterSettled ==
  \A j \in FleetJobs :
    work[j].state = "active" /\ work[j].by = "portal" =>
      \/ printer[work[j].at].enabled
      \/ WillSettle(j, work[j].at)
      \/ abandoned \cap {"node", work[j].at} # {}

(* Two registrations of one printer leave one live row: the Edge finds its *)
(* printer by name, and the second row would never be found again.         *)
OneLivePrinter == Cardinality(Live) <= 1

(* Once a disable has run to its end, no upload token that was registered  *)
(* while the printer was open can be used, whatever closings, edits,       *)
(* registrations and restarts came between.  The exceptions are the code's:*)
(* a closing that gave up before its last step, a write that did not know  *)
(* that it disabled the row, and what no revocation reaches: the tokens of *)
(* one that failed and those registered after it (`left`), and tokens that *)
(* never had a row (`unregistered`).                                       *)
Disabling(p) ==
  \E r \in Requests :
    /\ request[r].stage \in {"list", "settle"}
    /\ request[r].what \in {"node", "printer"}
    /\ Subject(request[r]) \in {"node", p}

DisabledHasNoToken ==
  \A p \in Printers :
    node.live /\ printer[p].row = "live" /\ token[p] = "valid" =>
      \/ Open(p)
      \/ Disabling(p)
      \/ abandoned \cap {"node", p} # {}
      \/ printer[p].blind
=============================================================================
