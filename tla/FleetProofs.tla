---------------------------- MODULE FleetProofs ----------------------------
(***************************************************************************)
(* Proofs about Fleet, for any number of printers, jobs, administrators    *)
(* and requests of the Edge.                                               *)
(*                                                                         *)
(* AuthorizedJobsSettled is not inductive: enabling a node again forgets   *)
(* that an earlier closing of the node gave up, and nothing says that a    *)
(* printer below it is then settled for a reason of its own.  FleetInv     *)
(* therefore keeps the two reasons apart: each active job is safe on       *)
(* account of its node (NodeSettles) and on account of its printer         *)
(* (PrinterSettles), and the same for each valid token.                    *)
(***************************************************************************)
EXTENDS Fleet, FiniteSetTheorems, TLAPS

(* A request after its commit, before its last step.                       *)
Closes(c) == c.stage \in {"list", "settle"}

(* A closing of s, the node or a printer, that will still fail job j.      *)
Reaches(c, j, s) ==
  Closes(c) /\ Subject(c) = s /\ (c.stage = "settle" => j \in c.left)

SettledFor(j, s) == \E r \in Requests : Reaches(request[r], j, s)

ByPortal(j) == work[j].state = "active" /\ work[j].by = "portal"

(* An authorised job is safe on account of its node ...                    *)
NodeSettles ==
  \A j \in FleetJobs : ByPortal(j) =>
    NodeOpen \/ SettledFor(j, "node") \/ "node" \in abandoned

(* ... and on account of its printer.                                      *)
PrinterSettled(j, p) ==
  \/ ~node.live
  \/ printer[p].row = "live" /\ printer[p].enabled
  \/ SettledFor(j, p)
  \/ p \in abandoned
  \/ printer[p].blind

PrinterSettles ==
  \A j \in FleetJobs : ByPortal(j) =>
    work[j].at \in Printers /\ PrinterSettled(j, work[j].at)

(* A disable of s that will still revoke tokens.                           *)
Revokes(c, s) == Closes(c) /\ c.what \in {"node", "printer"} /\ Subject(c) = s

RevokedFor(s) == \E r \in Requests : Revokes(request[r], s)

(* A valid token is safe on account of its node and of its printer.       *)
NodeRevokes ==
  \A p \in Printers : token[p] = "valid" =>
    NodeOpen \/ ~node.live \/ RevokedFor("node") \/ "node" \in abandoned

PrinterRevokes ==
  \A p \in Printers : token[p] = "valid" /\ printer[p].row = "live" =>
    printer[p].enabled \/ RevokedFor(p) \/ p \in abandoned \/ printer[p].blind

(* A closing of a printer names it.                                        *)
Named(c) == Closes(c) /\ c.what \in {"printer", "printerGone"} => c.p \in Printers

ClosingsNamed == \A r \in Requests : Named(request[r])

LiveUnique == \A p, q \in Live : p = q

Typed == FleetTypeOK /\ ClosingsNamed

FleetInv ==
  /\ Typed /\ LiveUnique
  /\ NodeSettles /\ PrinterSettles
  /\ NodeRevokes /\ PrinterRevokes

-----------------------------------------------------------------------------
Request == {Idle} \cup Editing \cup Creating \cup Closing

LEMMA Shapes ==
  ASSUME NEW c \in Request
  PROVE  /\ Closes(c) => c \in Closing
         /\ c.stage = "edit" => c \in Editing
         /\ c.stage = "create" => c \in Creating
BY DEF Request, Idle, Editing, Creating, Closing, Closes

LEMMA ClosingIsNamed ==
  ASSUME NEW c \in Closing, Named(c), Closes(c)
  PROVE  Subject(c) \in {"node"} \cup Printers
BY DEF Closing, Closings, Named, Subject

LEMMA CloseTyped ==
  ASSUME NEW what \in Closings, NEW p \in Printers \cup {None},
         what \in {"printer", "printerGone"} => p \in Printers
  PROVE  /\ Close(what, p) \in Closing
         /\ Named(Close(what, p))
         /\ Closes(Close(what, p))
         /\ \A j : Reaches(Close(what, p), j, Subject(Close(what, p)))
BY DEF Close, Closing, Closings, Named, Closes, Reaches, Subject

LEMMA IdleTyped == Idle \in Request /\ ~Closes(Idle) /\ Named(Idle)
BY DEF Idle, Request, Closes, Named

(* The requests when one of them changes.                                  *)
LEMMA OneRequest ==
  ASSUME Typed, NEW r \in Requests, NEW c \in Request, Named(c),
         request' = [request EXCEPT ![r] = c]
  PROVE  /\ request' \in [Requests -> Request]
         /\ ClosingsNamed'
         /\ request'[r] = c
         /\ \A s \in Requests \ {r} : request'[s] = request[s]
BY DEF Typed, FleetTypeOK, Request, ClosingsNamed, Named, Closes

(* What the closings will still do, when one request changes.              *)
LEMMA OthersSettle ==
  ASSUME Typed, NEW r \in Requests, NEW c \in Request, Named(c),
         request' = [request EXCEPT ![r] = c]
  PROVE  /\ \A j, s : SettledFor(j, s) => SettledFor(j, s)' \/ Reaches(request[r], j, s)
         /\ \A s : RevokedFor(s) => RevokedFor(s)' \/ Revokes(request[r], s)
         /\ \A j, s : Reaches(c, j, s) => SettledFor(j, s)'
         /\ \A s : Revokes(c, s) => RevokedFor(s)'
BY OneRequest DEF SettledFor, RevokedFor, Reaches, Revokes, Closes, Subject

-----------------------------------------------------------------------------
LEMMA TypedRequest ==
  ASSUME Typed, NEW r \in Requests, NEW c \in Request, Named(c),
         request' = [request EXCEPT ![r] = c],
         UNCHANGED <<node, printer, work, token, passed, abandoned>>
  PROVE  Typed'
<1>1. request' \in [Requests -> Request] /\ ClosingsNamed'
  BY OneRequest
<1> QED
  BY <1>1 DEF Typed, FleetTypeOK, Request

(* A request that was not closing anything goes on to something else.      *)
LEMMA RequestMoves ==
  ASSUME FleetInv, NEW r \in Requests, NEW c \in Request, Named(c),
         ~Closes(request[r]),
         request' = [request EXCEPT ![r] = c],
         UNCHANGED <<node, printer, work, token, passed, abandoned>>
  PROVE  FleetInv'
<1>1. Typed'
  BY TypedRequest DEF FleetInv
<1>2. /\ \A j, s : SettledFor(j, s) => SettledFor(j, s)'
      /\ \A s : RevokedFor(s) => RevokedFor(s)'
  BY OthersSettle DEF FleetInv, Reaches, Revokes
<1>3. LiveUnique'
  BY DEF FleetInv, LiveUnique, Live
<1>4. NodeSettles' /\ PrinterSettles'
  BY <1>2 DEF FleetInv, NodeSettles, PrinterSettles, PrinterSettled, ByPortal, NodeOpen
<1>5. NodeRevokes' /\ PrinterRevokes'
  BY <1>2 DEF FleetInv, NodeRevokes, PrinterRevokes, NodeOpen
<1> QED
  BY <1>1, <1>3, <1>4, <1>5 DEF FleetInv

LEMMA LookupKeeps ==
  ASSUME FleetInv, NEW e \in Edges, RegisterLookup(e)
  PROVE  FleetInv'
<1>1. e \in Requests /\ ~Closes(request[e])
  BY IdleTyped DEF RegisterLookup, Requests
<1>2. CASE \E p \in Live : request' = [request EXCEPT ![e] =
             [stage |-> "edit", p |-> p, read |-> printer[p].enabled, want |-> printer[p].enabled]]
  <2>1. PICK p \in Live : request' = [request EXCEPT ![e] =
             [stage |-> "edit", p |-> p, read |-> printer[p].enabled, want |-> printer[p].enabled]]
    BY <1>2
  <2>2. p \in Printers /\ printer[p].enabled \in BOOLEAN
    BY DEF Live, FleetInv, Typed, FleetTypeOK, Row
  <2> DEFINE c == [stage |-> "edit", p |-> p, read |-> printer[p].enabled, want |-> printer[p].enabled]
  <2>3. c \in Request /\ Named(c)
    BY <2>2 DEF Request, Editing, Named, Closes
  <2> HIDE DEF c
  <2> QED
    BY <1>1, <2>1, <2>3, RequestMoves DEF RegisterLookup, c
<1>3. CASE Live = {} /\ request' = [request EXCEPT ![e] = [stage |-> "create"]]
  <2>1. [stage |-> "create"] \in Request /\ Named([stage |-> "create"])
    BY DEF Request, Creating, Named, Closes
  <2> QED
    BY <1>1, <1>3, <2>1, RequestMoves DEF RegisterLookup
<1> QED
  BY <1>2, <1>3 DEF RegisterLookup

LEMMA EditKeeps ==
  ASSUME FleetInv, NEW a \in Admins, NEW p \in Printers, NEW want \in BOOLEAN,
         EditPrinter(a, p, want)
  PROVE  FleetInv'
<1> DEFINE c == [stage |-> "edit", p |-> p, read |-> printer[p].enabled, want |-> want]
<1>1. a \in Requests /\ ~Closes(request[a])
  BY IdleTyped DEF EditPrinter, Requests
<1>2. c \in Request /\ Named(c)
  BY DEF Request, Editing, Named, Closes, FleetInv, Typed, FleetTypeOK, Row
<1>3. /\ request' = [request EXCEPT ![a] = c]
      /\ UNCHANGED <<node, printer, work, token, passed, abandoned>>
  BY DEF EditPrinter
<1> HIDE DEF c
<1> QED
  BY <1>1, <1>2, <1>3, RequestMoves

NewPrinter == [row |-> "live", enabled |-> TRUE, blind |-> FALSE]

LEMMA CreateKeeps ==
  ASSUME FleetInv, NEW e \in Edges, CreatePrinter(e)
  PROVE  FleetInv'
<1>1. /\ e \in Requests /\ ~Closes(request[e])
      /\ request' = [request EXCEPT ![e] = Idle]
      /\ UNCHANGED <<node, work, token, passed, abandoned>>
  BY DEF CreatePrinter, Requests, Closes
<1>2. CASE printer' = printer
  BY <1>1, <1>2, IdleTyped, RequestMoves
<1>3. CASE /\ Live = {}
           /\ \E p \in Printers : /\ printer[p].row = "absent"
                                 /\ printer' = [printer EXCEPT ![p] = NewPrinter]
  <2>1. PICK q \in Printers : printer[q].row = "absent" /\ printer' = [printer EXCEPT ![q] = NewPrinter]
    BY <1>3
  <2>2. printer \in [Printers -> Row] /\ NewPrinter \in Row
    BY DEF FleetInv, Typed, FleetTypeOK, Row, NewPrinter
  <2>3. /\ printer'[q] = NewPrinter
        /\ \A p \in Printers \ {q} : printer'[p] = printer[p]
        /\ printer' \in [Printers -> Row]
    BY <2>1, <2>2
  <2>4. request' \in [Requests -> Request] /\ ClosingsNamed'
    BY <1>1, OneRequest, IdleTyped DEF FleetInv
  <2>5. Typed'
    BY <1>1, <2>3, <2>4 DEF FleetInv, Typed, FleetTypeOK, Request
  <2>6. Live' = {q}
    BY <1>3, <2>3 DEF Live, NewPrinter
  <2>7. LiveUnique'
    BY <2>6 DEF LiveUnique
  <2>8. /\ \A j, s : SettledFor(j, s) => SettledFor(j, s)'
        /\ \A s : RevokedFor(s) => RevokedFor(s)'
    BY <1>1, IdleTyped, OthersSettle DEF FleetInv, Reaches, Revokes
  <2>9. NodeSettles' /\ NodeRevokes'
    BY <1>1, <2>8 DEF FleetInv, NodeSettles, NodeRevokes, ByPortal, NodeOpen
  <2>10. PrinterSettles'
    BY <1>1, <2>3, <2>8 DEF FleetInv, PrinterSettles, PrinterSettled, ByPortal, NewPrinter
  <2>11. PrinterRevokes'
    BY <1>1, <2>3, <2>8 DEF FleetInv, PrinterRevokes, NewPrinter
  <2> QED
    BY <2>5, <2>7, <2>9, <2>10, <2>11 DEF FleetInv
<1> QED
  BY <1>2, <1>3 DEF CreatePrinter, NewPrinter

LEMMA WriteKeeps ==
  ASSUME FleetInv, NEW r \in Requests, WritePrinter(r)
  PROVE  FleetInv'
<1>1. request[r] \in Editing /\ ~Closes(request[r])
  BY Shapes DEF WritePrinter, FleetInv, Typed, FleetTypeOK, Request, Closes
<1>2. PICK p, want, disabling :
        /\ p = request[r].p /\ want = request[r].want
        /\ disabling = (r \in Admins /\ request[r].read /\ ~want)
  OBVIOUS
<1>3. p \in Printers /\ want \in BOOLEAN /\ disabling \in BOOLEAN /\ (disabling => ~want)
  BY <1>1, <1>2 DEF Editing
<1>4. PICK c : c = IF disabling THEN Close("printer", p) ELSE Idle
  OBVIOUS
<1>5. /\ c \in Request /\ Named(c)
      /\ disabling => \A j : Reaches(c, j, p)
      /\ disabling => Revokes(c, p)
  <2>1. CASE disabling
    <3>1. "printer" \in Closings /\ Subject(Close("printer", p)) = p
      BY DEF Closings, Subject, Close
    <3> QED
      BY <1>3, <1>4, <2>1, <3>1, CloseTyped DEF Request, Revokes, Close
  <2>2. CASE ~disabling
    BY <1>4, <2>2, IdleTyped
  <2> QED
    BY <2>1, <2>2
<1>6. /\ request' = [request EXCEPT ![r] = c]
      /\ printer' = IF p \notin Live THEN printer ELSE [printer EXCEPT
             ![p].enabled = want,
             ![p].blind = ~want /\ ~disabling /\ (@ \/ printer[p].enabled)]
      /\ abandoned' = IF want /\ p \in Live THEN abandoned \ {p} ELSE abandoned
      /\ UNCHANGED <<node, work, token, passed>>
  BY <1>2, <1>4 DEF WritePrinter
<1>7. printer \in [Printers -> Row] /\ abandoned \subseteq {"node"} \cup Printers
  BY DEF FleetInv, Typed, FleetTypeOK
<1>8. /\ printer' \in [Printers -> Row]
      /\ \A q \in Printers \ {p} : printer'[q] = printer[q]
      /\ printer'[p].row = printer[p].row
      /\ p \notin Live => printer' = printer
      /\ p \in Live => /\ printer'[p].enabled = want
                       /\ printer'[p].blind = (~want /\ ~disabling /\ (printer[p].blind \/ printer[p].enabled))
  BY <1>3, <1>6, <1>7 DEF Row
<1>9. Live' = Live
  BY <1>8 DEF Live
<1>10. /\ abandoned' \subseteq {"node"} \cup Printers
       /\ "node" \in abandoned => "node" \in abandoned'
       /\ \A q \in Printers : q \in abandoned => q \in abandoned' \/ (q = p /\ want /\ p \in Live)
  BY <1>3, <1>6, <1>7, FleetAssumption
<1>11. request' \in [Requests -> Request] /\ ClosingsNamed'
  BY <1>5, <1>6, OneRequest DEF FleetInv
<1>12. /\ \A j, s : SettledFor(j, s) => SettledFor(j, s)'
       /\ \A s : RevokedFor(s) => RevokedFor(s)'
       /\ disabling => \A j : SettledFor(j, p)'
       /\ disabling => RevokedFor(p)'
  BY <1>1, <1>5, <1>6, OthersSettle DEF FleetInv, Reaches, Revokes
<1>13. Typed'
  BY <1>6, <1>8, <1>10, <1>11 DEF FleetInv, Typed, FleetTypeOK, Request
<1>14. LiveUnique'
  BY <1>9 DEF FleetInv, LiveUnique
<1>15. NodeSettles' /\ NodeRevokes'
  BY <1>6, <1>10, <1>12 DEF FleetInv, NodeSettles, NodeRevokes, ByPortal, NodeOpen
<1>16. PrinterSettles'
  <2> SUFFICES ASSUME NEW j \in FleetJobs, ByPortal(j)
               PROVE  work[j].at \in Printers /\ PrinterSettled(j, work[j].at)'
    BY <1>6 DEF PrinterSettles, ByPortal, PrinterSettled
  <2>1. work[j].at \in Printers /\ PrinterSettled(j, work[j].at)
    BY DEF FleetInv, PrinterSettles
  <2>2. CASE work[j].at # p
    BY <1>6, <1>8, <1>10, <1>12, <2>1, <2>2 DEF PrinterSettled
  <2>3. CASE work[j].at = p
    BY <1>3, <1>6, <1>8, <1>10, <1>12, <2>1, <2>3 DEF PrinterSettled, Live
  <2> QED
    BY <2>2, <2>3
<1>17. PrinterRevokes'
  <2> SUFFICES ASSUME NEW q \in Printers, token[q] = "valid", printer'[q].row = "live"
               PROVE  printer'[q].enabled \/ RevokedFor(q)' \/ q \in abandoned' \/ printer'[q].blind
    BY <1>6 DEF PrinterRevokes
  <2>1. printer[q].enabled \/ RevokedFor(q) \/ q \in abandoned \/ printer[q].blind
    BY <1>8 DEF FleetInv, PrinterRevokes
  <2>2. CASE q # p
    BY <1>8, <1>10, <1>12, <2>1, <2>2
  <2>3. CASE q = p
    BY <1>3, <1>8, <1>10, <1>12, <2>1, <2>3 DEF Live
  <2> QED
    BY <2>2, <2>3
<1> QED
  BY <1>13, <1>14, <1>15, <1>16, <1>17 DEF FleetInv

LEMMA DeleteKeeps ==
  ASSUME FleetInv, NEW r \in Requests, NEW p \in Printers, DeletePrinter(r, p)
  PROVE  FleetInv'
<1> DEFINE c == Close("printerGone", p)
<1>1. /\ c \in Request /\ Named(c)
      /\ \A j : Reaches(c, j, p)
  <2>1. "printerGone" \in Closings /\ Subject(c) = p
    BY DEF Closings, Subject, Close
  <2> QED
    BY <2>1, CloseTyped DEF Request
<1>2. /\ ~Closes(request[r])
      /\ request' = [request EXCEPT ![r] = c]
      /\ printer' = [printer EXCEPT ![p] = Deleted]
      /\ UNCHANGED <<node, work, token, passed, abandoned>>
  BY IdleTyped DEF DeletePrinter
<1> HIDE DEF c
<1>3. /\ printer' \in [Printers -> Row]
      /\ printer'[p].row = "deleted"
      /\ \A q \in Printers \ {p} : printer'[q] = printer[q]
  BY <1>2 DEF FleetInv, Typed, FleetTypeOK, Row, Deleted
<1>4. Live' \subseteq Live
  BY <1>3 DEF Live
<1>5. request' \in [Requests -> Request] /\ ClosingsNamed'
  BY <1>1, <1>2, OneRequest DEF FleetInv
<1>6. /\ \A j, s : SettledFor(j, s) => SettledFor(j, s)'
      /\ \A s : RevokedFor(s) => RevokedFor(s)'
      /\ \A j : SettledFor(j, p)'
  BY <1>1, <1>2, OthersSettle DEF FleetInv, Reaches, Revokes
<1>7. Typed'
  BY <1>2, <1>3, <1>5 DEF FleetInv, Typed, FleetTypeOK, Request
<1>8. LiveUnique'
  BY <1>4 DEF FleetInv, LiveUnique
<1>9. NodeSettles' /\ NodeRevokes'
  BY <1>2, <1>6 DEF FleetInv, NodeSettles, NodeRevokes, ByPortal, NodeOpen
<1>10. PrinterSettles'
  BY <1>2, <1>3, <1>6 DEF FleetInv, PrinterSettles, PrinterSettled, ByPortal
<1>11. PrinterRevokes'
  BY <1>2, <1>3, <1>6 DEF FleetInv, PrinterRevokes
<1> QED
  BY <1>7, <1>8, <1>9, <1>10, <1>11 DEF FleetInv

LEMMA EnabledKeeps ==
  ASSUME FleetInv, NEW a \in Admins, NEW enabled \in BOOLEAN, UpdateEnabled(a, enabled)
  PROVE  FleetInv'
<1>1. PICK c : c = IF enabled THEN Idle ELSE Close("node", None)
  OBVIOUS
<1>2. /\ c \in Request /\ Named(c)
      /\ ~enabled => \A j : Reaches(c, j, "node")
      /\ ~enabled => Revokes(c, "node")
  <2>1. "node" \in Closings /\ Subject(Close("node", None)) = "node"
    BY DEF Closings, Subject, Close
  <2> QED
    BY <1>1, <2>1, CloseTyped, IdleTyped DEF Request, Revokes, Close
<1>3. /\ a \in Requests /\ ~Closes(request[a])
      /\ request' = [request EXCEPT ![a] = c]
      /\ node.live
      /\ node' = [node EXCEPT !.enabled = enabled]
      /\ abandoned' = IF enabled THEN abandoned \ {"node"} ELSE abandoned
      /\ UNCHANGED <<printer, work, token, passed>>
  BY <1>1, IdleTyped DEF UpdateEnabled, Requests
<1>4. /\ node' \in [live : BOOLEAN, enabled : BOOLEAN]
      /\ node'.live /\ node'.enabled = enabled
      /\ abandoned' \subseteq {"node"} \cup Printers
      /\ \A q \in Printers : q \in abandoned => q \in abandoned'
      /\ ~enabled => abandoned' = abandoned
  BY <1>3, FleetAssumption DEF FleetInv, Typed, FleetTypeOK
<1>5. request' \in [Requests -> Request] /\ ClosingsNamed'
  BY <1>2, <1>3, OneRequest DEF FleetInv
<1>6. /\ \A j, s : SettledFor(j, s) => SettledFor(j, s)'
      /\ \A s : RevokedFor(s) => RevokedFor(s)'
      /\ ~enabled => \A j : SettledFor(j, "node")'
      /\ ~enabled => RevokedFor("node")'
  BY <1>2, <1>3, OthersSettle DEF FleetInv, Reaches, Revokes
<1>7. Typed'
  BY <1>3, <1>4, <1>5 DEF FleetInv, Typed, FleetTypeOK, Request
<1>8. LiveUnique'
  BY <1>3 DEF FleetInv, LiveUnique, Live
<1>9. NodeSettles' /\ NodeRevokes'
  BY <1>3, <1>4, <1>6 DEF NodeSettles, NodeRevokes, NodeOpen
<1>10. PrinterSettles'
  BY <1>3, <1>4, <1>6 DEF FleetInv, PrinterSettles, PrinterSettled, ByPortal
<1>11. PrinterRevokes'
  BY <1>3, <1>4, <1>6 DEF FleetInv, PrinterRevokes
<1> QED
  BY <1>7, <1>8, <1>9, <1>10, <1>11 DEF FleetInv

LEMMA DeleteNodeKeeps ==
  ASSUME FleetInv, NEW a \in Admins, DeleteEdgeNode(a)
  PROVE  FleetInv'
<1> DEFINE c == Close("nodeGone", None)
<1>1. /\ c \in Request /\ Named(c)
      /\ \A j : Reaches(c, j, "node")
  <2>1. "nodeGone" \in Closings /\ Subject(c) = "node"
    BY DEF Closings, Subject, Close
  <2> QED
    BY <2>1, CloseTyped DEF Request
<1>2. /\ a \in Requests /\ ~Closes(request[a])
      /\ request' = [request EXCEPT ![a] = c]
      /\ node' = [node EXCEPT !.live = FALSE]
      /\ printer' = [p \in Printers |-> IF p \in Live THEN Deleted ELSE printer[p]]
      /\ UNCHANGED <<work, token, passed, abandoned>>
  BY IdleTyped DEF DeleteEdgeNode, Requests
<1> HIDE DEF c
<1>3. /\ node' \in [live : BOOLEAN, enabled : BOOLEAN]
      /\ ~node'.live
  BY <1>2 DEF FleetInv, Typed, FleetTypeOK
<1>4. printer' \in [Printers -> Row] /\ Live' = {}
  BY <1>2 DEF FleetInv, Typed, FleetTypeOK, Row, Deleted, Live
<1>5. request' \in [Requests -> Request] /\ ClosingsNamed'
  BY <1>1, <1>2, OneRequest DEF FleetInv
<1>6. \A j : SettledFor(j, "node")'
  BY <1>1, <1>2, OthersSettle DEF FleetInv
<1>7. Typed'
  BY <1>2, <1>3, <1>4, <1>5 DEF FleetInv, Typed, FleetTypeOK, Request
<1>8. LiveUnique' /\ PrinterRevokes'
  BY <1>4 DEF LiveUnique, PrinterRevokes, Live
<1>9. NodeSettles' /\ NodeRevokes'
  BY <1>3, <1>6 DEF NodeSettles, NodeRevokes
<1>10. PrinterSettles'
  BY <1>2, <1>3 DEF FleetInv, PrinterSettles, PrinterSettled, ByPortal
<1> QED
  BY <1>7, <1>8, <1>9, <1>10 DEF FleetInv

-----------------------------------------------------------------------------
LEMMA ListKeeps ==
  ASSUME FleetInv, NEW r \in Requests, ListActive(r)
  PROVE  FleetInv'
<1>1. PICK d : d = ActiveOf(request[r].what, request[r].p)
  OBVIOUS
<1>2. PICK c : c = [request[r] EXCEPT !.stage = "settle", !.left = d]
  OBVIOUS
<1>3. request[r] \in Closing /\ Closes(request[r]) /\ Named(request[r])
  BY Shapes DEF ListActive, FleetInv, Typed, FleetTypeOK, ClosingsNamed, Request, Closes
<1>4. /\ c \in Closing /\ Named(c) /\ Closes(c)
      /\ Subject(c) = Subject(request[r])
      /\ c.what = request[r].what
      /\ c.left = d
  BY <1>1, <1>2, <1>3 DEF Closing, Named, Closes, Subject, ActiveOf
<1>5. /\ request' = [request EXCEPT ![r] = c]
      /\ UNCHANGED <<node, printer, work, token, passed, abandoned>>
  <2>2. request \in [Requests -> Request]
    BY DEF FleetInv, Typed, FleetTypeOK, Request
  <2>3. request' = [request EXCEPT ![r].stage = "settle", ![r].left = d]
    BY <1>1 DEF ListActive
  <2>4. request'[r] = c /\ \A q \in Requests \ {r} : request'[q] = request[q]
    BY <1>2, <2>2, <2>3
  <2>5. request' = [q \in Requests |-> request'[q]]
    BY <2>2, <2>3
  <2>6. request' = [request EXCEPT ![r] = c]
    BY <2>2, <2>4, <2>5
  <2> QED
    BY <2>6 DEF ListActive
<1>6. \A j \in FleetJobs : work[j].state = "active"
        /\ (request[r].what \in {"printer", "printerGone"} => work[j].at = request[r].p) => j \in d
  BY <1>1 DEF ActiveOf
<1>7. \A j \in FleetJobs : ByPortal(j) /\ Reaches(request[r], j, "node") => Reaches(c, j, "node")
  BY <1>3, <1>4, <1>6, FleetAssumption DEF ByPortal, Reaches, Subject, Named, Closing, Closings
<1>8. \A j \in FleetJobs : ByPortal(j) /\ Reaches(request[r], j, work[j].at) /\ work[j].at \in Printers
        => Reaches(c, j, work[j].at)
  BY <1>3, <1>4, <1>6, FleetAssumption DEF ByPortal, Reaches, Subject, Named, Closing, Closings
<1>9. \A s : Revokes(request[r], s) => Revokes(c, s)
  BY <1>4 DEF Revokes
<1>10. /\ \A j \in FleetJobs : ByPortal(j) /\ SettledFor(j, "node") => SettledFor(j, "node")'
       /\ \A j \in FleetJobs : ByPortal(j) /\ work[j].at \in Printers /\ SettledFor(j, work[j].at)
            => SettledFor(j, work[j].at)'
       /\ \A s : RevokedFor(s) => RevokedFor(s)'
  <2>1. c \in Request
    BY <1>4 DEF Request
  <2>2. Typed
    BY DEF FleetInv
  <2> QED
    BY <1>4, <1>5, <1>7, <1>8, <1>9, <2>1, <2>2, OthersSettle
<1>11. Typed'
  BY <1>4, <1>5, TypedRequest DEF FleetInv, Request
<1>12. LiveUnique'
  BY <1>5 DEF FleetInv, LiveUnique, Live
<1>13. NodeSettles' /\ NodeRevokes'
  BY <1>5, <1>10 DEF FleetInv, NodeSettles, NodeRevokes, ByPortal, NodeOpen
<1>14. PrinterSettles'
  <2> SUFFICES ASSUME NEW j \in FleetJobs, ByPortal(j)
               PROVE  work[j].at \in Printers /\ PrinterSettled(j, work[j].at)'
    BY <1>5 DEF PrinterSettles, ByPortal, PrinterSettled
  <2>1. work[j].at \in Printers /\ PrinterSettled(j, work[j].at)
    BY DEF FleetInv, PrinterSettles
  <2> QED
    BY <1>5, <1>10, <2>1 DEF PrinterSettled
<1>15. PrinterRevokes'
  BY <1>5, <1>10 DEF FleetInv, PrinterRevokes
<1> QED
  BY <1>11, <1>12, <1>13, <1>14, <1>15 DEF FleetInv

LEMMA SettleKeeps ==
  ASSUME FleetInv, NEW r \in Requests, SettleJob(r)
  PROVE  FleetInv'
<1>1. PICK k \in request[r].left :
        /\ work' = [work EXCEPT ![k].state = "ended"]
        /\ request' = [request EXCEPT ![r].left = @ \ {k}]
  BY DEF SettleJob
<1>2. request[r] \in Closing /\ Closes(request[r]) /\ Named(request[r])
  BY Shapes DEF SettleJob, FleetInv, Typed, FleetTypeOK, ClosingsNamed, Request, Closes
<1>3. k \in FleetJobs
  BY <1>2 DEF Closing
<1>4. PICK c : c = [request[r] EXCEPT !.left = request[r].left \ {k}]
  OBVIOUS
<1>5. /\ c \in Closing /\ Named(c) /\ Closes(c)
      /\ Subject(c) = Subject(request[r])
      /\ c.what = request[r].what /\ c.stage = request[r].stage
      /\ c.left = request[r].left \ {k}
  BY <1>2, <1>4 DEF Closing, Named, Closes, Subject
<1>6. request' = [request EXCEPT ![r] = c]
  <2>1. request \in [Requests -> Request]
    BY DEF FleetInv, Typed, FleetTypeOK, Request
  <2>2. request'[r] = c /\ \A q \in Requests \ {r} : request'[q] = request[q]
    BY <1>1, <1>4, <2>1
  <2>3. request' = [q \in Requests |-> request'[q]]
    BY <1>1, <2>1
  <2> QED
    BY <2>1, <2>2, <2>3
<1>7. UNCHANGED <<node, printer, token, passed, abandoned>>
  BY DEF SettleJob
<1>8. /\ work' \in [FleetJobs -> [state : {"none", "active", "ended"},
                                at : Printers \cup {None}, by : {"portal", "socket"}]]
      /\ work'[k].state = "ended"
      /\ \A j \in FleetJobs \ {k} : work'[j] = work[j]
  BY <1>1, <1>3 DEF FleetInv, Typed, FleetTypeOK
<1>9. \A j \in FleetJobs : ByPortal(j)' => j # k /\ ByPortal(j) /\ work'[j].at = work[j].at
  BY <1>8 DEF ByPortal
<1>10. /\ \A j, s : j # k /\ SettledFor(j, s) => SettledFor(j, s)'
       /\ \A s : RevokedFor(s) => RevokedFor(s)'
  <2>1. c \in Request
    BY <1>5 DEF Request
  <2>2. Typed
    BY DEF FleetInv
  <2>3. \A j, s : j # k /\ Reaches(request[r], j, s) => Reaches(c, j, s)
    BY <1>5 DEF Reaches
  <2>4. \A s : Revokes(request[r], s) => Revokes(c, s)
    BY <1>5 DEF Revokes
  <2> QED
    BY <1>5, <1>6, <2>1, <2>2, <2>3, <2>4, OthersSettle
<1>11. request' \in [Requests -> Request] /\ ClosingsNamed'
  BY <1>5, <1>6, OneRequest DEF FleetInv, Request
<1>12. Typed'
  BY <1>7, <1>8, <1>11 DEF FleetInv, Typed, FleetTypeOK, Request
<1>13. LiveUnique'
  BY <1>7 DEF FleetInv, LiveUnique, Live
<1>14. NodeSettles' /\ NodeRevokes'
  BY <1>7, <1>9, <1>10 DEF FleetInv, NodeSettles, NodeRevokes, NodeOpen
<1>15. PrinterSettles'
  <2> SUFFICES ASSUME NEW j \in FleetJobs, ByPortal(j)'
               PROVE  work'[j].at \in Printers /\ PrinterSettled(j, work[j].at)'
    BY DEF PrinterSettles
  <2>1. ByPortal(j) /\ j # k /\ work'[j].at = work[j].at
    BY <1>9
  <2>2. work[j].at \in Printers /\ PrinterSettled(j, work[j].at)
    BY <2>1 DEF FleetInv, PrinterSettles
  <2> QED
    BY <1>7, <1>10, <2>1, <2>2 DEF PrinterSettled
<1>16. PrinterRevokes'
  BY <1>7, <1>10 DEF FleetInv, PrinterRevokes
<1> QED
  BY <1>12, <1>13, <1>14, <1>15, <1>16 DEF FleetInv

LEMMA FailKeeps ==
  ASSUME FleetInv, NEW r \in Requests, SettleFails(r)
  PROVE  FleetInv'
<1>1. request[r] \in Closing /\ Closes(request[r]) /\ Named(request[r])
  BY Shapes DEF SettleFails, FleetInv, Typed, FleetTypeOK, ClosingsNamed, Request, Closes
<1>2. Subject(request[r]) \in {"node"} \cup Printers
  BY <1>1, ClosingIsNamed
<1>3. /\ abandoned' = abandoned \cup {Subject(request[r])}
      /\ request' = [request EXCEPT ![r] = Idle]
      /\ UNCHANGED <<node, printer, work, token, passed>>
  BY DEF SettleFails
<1>4. /\ \A j, s : SettledFor(j, s) => SettledFor(j, s)' \/ s \in abandoned'
      /\ \A s : RevokedFor(s) => RevokedFor(s)' \/ s \in abandoned'
  BY <1>3, IdleTyped, OthersSettle DEF FleetInv, Reaches, Revokes
<1>5. request' \in [Requests -> Request] /\ ClosingsNamed'
  BY <1>3, IdleTyped, OneRequest DEF FleetInv
<1>6. Typed'
  BY <1>2, <1>3, <1>5 DEF FleetInv, Typed, FleetTypeOK, Request
<1>7. LiveUnique'
  BY <1>3 DEF FleetInv, LiveUnique, Live
<1>8. NodeSettles' /\ NodeRevokes'
  BY <1>3, <1>4 DEF FleetInv, NodeSettles, NodeRevokes, ByPortal, NodeOpen
<1>9. PrinterSettles' /\ PrinterRevokes'
  BY <1>3, <1>4 DEF FleetInv, PrinterSettles, PrinterSettled, PrinterRevokes, ByPortal
<1> QED
  BY <1>6, <1>7, <1>8, <1>9 DEF FleetInv

LEMMA FinishKeeps ==
  ASSUME FleetInv, NEW r \in Requests, FinishClosing(r)
  PROVE  FleetInv'
<1>1. /\ request[r] \in Closing /\ Closes(request[r]) /\ Named(request[r])
      /\ request[r].stage = "settle" /\ request[r].left = {}
  BY Shapes DEF FinishClosing, FleetInv, Typed, FleetTypeOK, ClosingsNamed, Request, Closes
<1>2. /\ \E to \in {"none", "left"} :
           token' = [p \in Printers |-> IF p \in Revocable(request[r]) THEN to ELSE token[p]]
      /\ request' = [request EXCEPT ![r] = Idle]
      /\ UNCHANGED <<node, printer, work, passed, abandoned>>
  BY DEF FinishClosing
<1>3. /\ token' \in [Printers -> Tokens]
      /\ \A p \in Printers : token'[p] = "valid" => token[p] = "valid" /\ p \notin Revoked(request[r])
  BY <1>2 DEF FleetInv, Typed, FleetTypeOK, Tokens, Revocable
<1>4. \A p \in Printers : p \notin Revoked(request[r]) =>
        ~Revokes(request[r], "node") /\ ~Revokes(request[r], p)
  BY <1>1, FleetAssumption DEF Revoked, Revokes, Subject, Named, Closing, Closings
<1>5. /\ \A j, s : SettledFor(j, s) => SettledFor(j, s)'
      /\ \A s : RevokedFor(s) => RevokedFor(s)' \/ Revokes(request[r], s)
  BY <1>1, <1>2, IdleTyped, OthersSettle DEF FleetInv, Reaches
<1>6. request' \in [Requests -> Request] /\ ClosingsNamed'
  BY <1>2, IdleTyped, OneRequest DEF FleetInv
<1>7. Typed'
  BY <1>2, <1>3, <1>6 DEF FleetInv, Typed, FleetTypeOK, Request
<1>8. LiveUnique'
  BY <1>2 DEF FleetInv, LiveUnique, Live
<1>9. NodeSettles' /\ PrinterSettles'
  BY <1>2, <1>5 DEF FleetInv, NodeSettles, PrinterSettles, PrinterSettled, ByPortal, NodeOpen
<1>10. NodeRevokes' /\ PrinterRevokes'
  BY <1>2, <1>3, <1>4, <1>5 DEF FleetInv, NodeRevokes, PrinterRevokes, NodeOpen
<1> QED
  BY <1>7, <1>8, <1>9, <1>10 DEF FleetInv

-----------------------------------------------------------------------------
(* Steps that touch a job, a token or the passed message only.             *)
LEMMA SameRequests ==
  ASSUME UNCHANGED request
  PROVE  /\ \A j, s : SettledFor(j, s) <=> SettledFor(j, s)'
         /\ \A s : RevokedFor(s) <=> RevokedFor(s)'
         /\ ClosingsNamed <=> ClosingsNamed'
BY DEF SettledFor, RevokedFor, ClosingsNamed, Reaches, Revokes, Named, Closes, Subject

LEMMA JobsKeep ==
  ASSUME FleetInv, NEW j \in FleetJobs,
         \/ \E p \in Printers : Authorize(j, p)
         \/ CreatePrintJob(j)
         \/ JobEnds(j)
  PROVE  FleetInv'
<1>1. /\ UNCHANGED <<node, printer, token, request, abandoned>>
      /\ passed' \in [ask : {"nothing", "token", "job"}, p : Printers \cup {None}]
  BY DEF FleetInv, Typed, FleetTypeOK, Authorize, CreatePrintJob, JobEnds
<1>2. work' \in [FleetJobs -> [state : {"none", "active", "ended"},
                             at : Printers \cup {None}, by : {"portal", "socket"}]]
  BY DEF FleetInv, Typed, FleetTypeOK, Authorize, CreatePrintJob, JobEnds
<1>3. \A k \in FleetJobs :
        ByPortal(k)' => \/ ByPortal(k) /\ work'[k] = work[k]
                        \/ work'[k].at \in Printers /\ Open(work'[k].at)
  BY DEF FleetInv, Typed, FleetTypeOK, Authorize, CreatePrintJob, JobEnds, ByPortal
<1>4. Typed' /\ LiveUnique'
  BY <1>1, <1>2, SameRequests DEF FleetInv, Typed, FleetTypeOK, LiveUnique, Live
<1>5. NodeSettles'
  BY <1>1, <1>3, SameRequests DEF FleetInv, NodeSettles, NodeOpen, Open
<1>6. PrinterSettles'
  <2> SUFFICES ASSUME NEW k \in FleetJobs, ByPortal(k)'
               PROVE  work'[k].at \in Printers /\ PrinterSettled(k, work[k].at)'
    BY DEF PrinterSettles
  <2>1. CASE ByPortal(k) /\ work'[k] = work[k]
    BY <1>1, <2>1, SameRequests DEF FleetInv, PrinterSettles, PrinterSettled
  <2>2. CASE work'[k].at \in Printers /\ Open(work'[k].at)
    BY <1>1, <2>2 DEF PrinterSettled, Open
  <2> QED
    BY <1>3, <2>1, <2>2
<1>7. NodeRevokes' /\ PrinterRevokes'
  BY <1>1, SameRequests DEF FleetInv, NodeRevokes, PrinterRevokes, NodeOpen
<1> QED
  BY <1>4, <1>5, <1>6, <1>7 DEF FleetInv

LEMMA PassKeeps ==
  ASSUME FleetInv, NEW ask \in {"token", "job"}, NEW p \in Printers, PassChecks(ask, p)
  PROVE  FleetInv'
<1>1. /\ UNCHANGED <<node, printer, work, token, request, abandoned>>
      /\ passed' \in [ask : {"nothing", "token", "job"}, p : Printers \cup {None}]
  BY DEF PassChecks
<1>2. Typed' /\ LiveUnique'
  BY <1>1, SameRequests DEF FleetInv, Typed, FleetTypeOK, LiveUnique, Live
<1>3. NodeSettles' /\ PrinterSettles'
  BY <1>1, SameRequests DEF FleetInv, NodeSettles, PrinterSettles, PrinterSettled, ByPortal, NodeOpen
<1>4. NodeRevokes' /\ PrinterRevokes'
  BY <1>1, SameRequests DEF FleetInv, NodeRevokes, PrinterRevokes, NodeOpen
<1> QED
  BY <1>2, <1>3, <1>4 DEF FleetInv

LEMMA IssueKeeps ==
  ASSUME FleetInv, IssueToken
  PROVE  FleetInv'
<1>1. /\ UNCHANGED <<node, printer, work, request, abandoned>>
      /\ passed' \in [ask : {"nothing", "token", "job"}, p : Printers \cup {None}]
  BY DEF IssueToken
<1>2. /\ token' \in [Printers -> Tokens]
      /\ \A q \in Printers : token'[q] = "valid" => token[q] = "valid" \/ Open(q)
  <2>1. PICK t \in {token[passed.p], "unregistered", IF Open(passed.p) THEN "valid" ELSE "left"} :
          token' = [token EXCEPT ![passed.p] = t]
    BY DEF IssueToken
  <2>2. /\ token \in [Printers -> Tokens]
        /\ \A q \in Printers : token'[q] = IF q = passed.p THEN t ELSE token[q]
    BY <2>1 DEF FleetInv, Typed, FleetTypeOK
  <2>3. t = "valid" => token[passed.p] = "valid" \/ Open(passed.p)
    BY <2>1
  <2>4. passed.p \in Printers => t \in Tokens
    BY <2>1, <2>2 DEF Tokens
  <2>5. token' \in [Printers -> Tokens]
    BY <2>1, <2>2, <2>4
  <2> QED
    BY <2>2, <2>3, <2>5
<1>3. Typed' /\ LiveUnique'
  BY <1>1, <1>2, SameRequests DEF FleetInv, Typed, FleetTypeOK, LiveUnique, Live
<1>4. NodeSettles' /\ PrinterSettles'
  BY <1>1, SameRequests DEF FleetInv, NodeSettles, PrinterSettles, PrinterSettled, ByPortal, NodeOpen
<1>5. NodeRevokes' /\ PrinterRevokes'
  BY <1>1, <1>2, SameRequests DEF FleetInv, NodeRevokes, PrinterRevokes, NodeOpen, Open
<1> QED
  BY <1>3, <1>4, <1>5 DEF FleetInv

LEMMA RestartKeeps ==
  ASSUME FleetInv, Restart
  PROVE  FleetInv'
<1>1. /\ request' = [r \in Requests |-> Idle]
      /\ abandoned' = abandoned \cup
           {Subject(request[r]) : r \in {q \in Requests : request[q].stage \in {"list", "settle"}}}
      /\ passed' \in [ask : {"nothing", "token", "job"}, p : Printers \cup {None}]
      /\ UNCHANGED <<node, printer, work, token>>
  BY DEF Restart
<1>2. \A r \in Requests : Closes(request[r]) => Subject(request[r]) \in {"node"} \cup Printers
  BY Shapes, ClosingIsNamed DEF FleetInv, Typed, FleetTypeOK, ClosingsNamed, Request
<1>3. /\ abandoned' \subseteq {"node"} \cup Printers
      /\ abandoned \subseteq abandoned'
      /\ \A r \in Requests : Closes(request[r]) => Subject(request[r]) \in abandoned'
  <2> DEFINE S == {Subject(request[r]) : r \in {q \in Requests : request[q].stage \in {"list", "settle"}}}
  <2>1. abandoned' = abandoned \cup S /\ abandoned \subseteq {"node"} \cup Printers
    BY <1>1 DEF FleetInv, Typed, FleetTypeOK
  <2>2. \A r \in Requests : Closes(request[r]) => Subject(request[r]) \in S
    BY DEF Closes
  <2>3. S \subseteq {"node"} \cup Printers
    BY <1>2 DEF Closes
  <2> HIDE DEF S
  <2> QED
    BY <2>1, <2>2, <2>3
<1>4. /\ \A j, s : SettledFor(j, s) => s \in abandoned'
      /\ \A s : RevokedFor(s) => s \in abandoned'
  BY <1>3 DEF SettledFor, RevokedFor, Reaches, Revokes
<1>5. request' \in [Requests -> Request] /\ ClosingsNamed'
  BY <1>1, IdleTyped DEF ClosingsNamed
<1>6. Typed' /\ LiveUnique'
  BY <1>1, <1>3, <1>5 DEF FleetInv, Typed, FleetTypeOK, Request, LiveUnique, Live
<1>7. NodeSettles' /\ PrinterSettles'
  BY <1>1, <1>3, <1>4 DEF FleetInv, NodeSettles, PrinterSettles, PrinterSettled, ByPortal, NodeOpen
<1>8. NodeRevokes' /\ PrinterRevokes'
  BY <1>1, <1>3, <1>4 DEF FleetInv, NodeRevokes, PrinterRevokes, NodeOpen
<1> QED
  BY <1>6, <1>7, <1>8 DEF FleetInv

-----------------------------------------------------------------------------
LEMMA FleetInitInv == FleetInit => FleetInv
<1> SUFFICES ASSUME FleetInit PROVE FleetInv
  OBVIOUS
<1>1. request \in [Requests -> Request] /\ ClosingsNamed
  BY IdleTyped DEF FleetInit, ClosingsNamed
<1>2. Typed
  BY <1>1 DEF FleetInit, Typed, FleetTypeOK, Tokens, Request, Row
<1>3. LiveUnique /\ NodeSettles /\ PrinterSettles /\ NodeRevokes /\ PrinterRevokes
  BY DEF FleetInit, LiveUnique, Live, NodeSettles, PrinterSettles, NodeRevokes, PrinterRevokes, ByPortal
<1> QED
  BY <1>2, <1>3 DEF FleetInv

LEMMA FleetStep == FleetInv /\ [FleetNext]_fleetVars => FleetInv'
<1> SUFFICES ASSUME FleetInv, [FleetNext]_fleetVars PROVE FleetInv'
  OBVIOUS
<1>1. ASSUME NEW e \in Edges, RegisterLookup(e) \/ CreatePrinter(e) PROVE FleetInv'
  BY <1>1, LookupKeeps, CreateKeeps
<1>2. ASSUME NEW a \in Admins, NEW p \in Printers, NEW want \in BOOLEAN, EditPrinter(a, p, want)
      PROVE  FleetInv'
  BY <1>2, EditKeeps
<1>3. ASSUME NEW r \in Requests, NEW p \in Printers, DeletePrinter(r, p) PROVE FleetInv'
  BY <1>3, DeleteKeeps
<1>4. ASSUME NEW a \in Admins, NEW enabled \in BOOLEAN, UpdateEnabled(a, enabled) PROVE FleetInv'
  BY <1>4, EnabledKeeps
<1>5. ASSUME NEW a \in Admins, DeleteEdgeNode(a) PROVE FleetInv'
  BY <1>5, DeleteNodeKeeps
<1>6. ASSUME NEW r \in Requests, \/ WritePrinter(r) \/ ListActive(r) \/ SettleJob(r)
                                \/ SettleFails(r) \/ FinishClosing(r)
      PROVE  FleetInv'
  BY <1>6, WriteKeeps, ListKeeps, SettleKeeps, FailKeeps, FinishKeeps
<1>7. ASSUME NEW j \in FleetJobs, (\E p \in Printers : Authorize(j, p)) \/ CreatePrintJob(j) \/ JobEnds(j)
      PROVE  FleetInv'
  BY <1>7, JobsKeep
<1>8. ASSUME NEW ask \in {"token", "job"}, NEW p \in Printers, PassChecks(ask, p) PROVE FleetInv'
  BY <1>8, PassKeeps
<1>9. CASE IssueToken
  BY <1>9, IssueKeeps
<1>10. CASE Restart
  BY <1>10, RestartKeeps
<1>11. CASE UNCHANGED fleetVars
  <2>1. UNCHANGED <<node, printer, work, token, request, passed, abandoned>>
    BY <1>11 DEF fleetVars
  <2>2. Typed' /\ LiveUnique'
    BY <2>1, SameRequests DEF FleetInv, Typed, FleetTypeOK, LiveUnique, Live
  <2>3. NodeSettles' /\ PrinterSettles' /\ NodeRevokes' /\ PrinterRevokes'
    BY <2>1, SameRequests DEF FleetInv, NodeSettles, PrinterSettles, PrinterSettled, ByPortal,
       NodeOpen, NodeRevokes, PrinterRevokes
  <2> QED
    BY <2>2, <2>3 DEF FleetInv
<1> QED
  BY <1>1, <1>2, <1>3, <1>4, <1>5, <1>6, <1>7, <1>8, <1>9, <1>10, <1>11 DEF FleetNext

LEMMA FleetInvariant == FleetSpec => []FleetInv
BY FleetInitInv, FleetStep, PTL DEF FleetSpec

-----------------------------------------------------------------------------
(* A request of the fleet is always one of the shapes the handlers give it,*)
(* and rows, jobs and tokens keep to theirs.                               *)
THEOREM FleetTypes == FleetSpec => []FleetTypeOK
<1>1. FleetInv => FleetTypeOK
  BY DEF FleetInv, Typed
<1> QED
  BY <1>1, FleetInvariant, PTL

LEMMA SubjectReached ==
  ASSUME FleetInv, NEW j, NEW s, NEW p, SettledFor(j, s), s \in {"node", p}
  PROVE  WillSettle(j, p)
BY DEF SettledFor, WillSettle, Reaches, Closes

(* However many administrators and Edges close, edit, register and delete  *)
(* at once, over however many printers and jobs: a job authorised by the   *)
(* portal's transaction is active only where it may be, where a closing    *)
(* will still settle it, or behind one of the two gaps of the code.        *)
THEOREM AuthorizedJobsAreSettled == FleetSpec => []AuthorizedJobsSettled
<1>1. FleetInv => AuthorizedJobsSettled
  <2> SUFFICES ASSUME FleetInv, NEW j \in FleetJobs, ByPortal(j)
               PROVE  \/ Open(work[j].at)
                      \/ WillSettle(j, work[j].at)
                      \/ abandoned \cap {"node", work[j].at} # {}
                      \/ printer[work[j].at].blind
    BY DEF AuthorizedJobsSettled, ByPortal
  <2>1. NodeOpen \/ SettledFor(j, "node") \/ "node" \in abandoned
    BY DEF FleetInv, NodeSettles
  <2>2. PrinterSettled(j, work[j].at)
    BY DEF FleetInv, PrinterSettles
  <2>3. CASE SettledFor(j, "node") \/ SettledFor(j, work[j].at)
    BY <2>3, SubjectReached
  <2>4. CASE ~SettledFor(j, "node") /\ ~SettledFor(j, work[j].at)
    BY <2>1, <2>2, <2>4 DEF PrinterSettled, Open, NodeOpen
  <2> QED
    BY <2>3, <2>4
<1> QED
  BY <1>1, FleetInvariant, PTL

(* No order of registrations, edits and deletions leaves two live rows of  *)
(* one printer.                                                            *)
THEOREM LivePrinterIsUnique == FleetSpec => []OneLivePrinter
<1>1. FleetInv => OneLivePrinter
  <2> SUFFICES ASSUME FleetInv PROVE Cardinality(Live) <= 1
    BY DEF OneLivePrinter
  <2>1. CASE Live = {}
    BY <2>1, FS_EmptySet
  <2>2. CASE \E p : p \in Live
    <3>1. PICK p : p \in Live
      BY <2>2
    <3>2. Live = {p}
      BY <3>1 DEF FleetInv, LiveUnique
    <3> QED
      <4>1. Cardinality({p}) = 1
        BY FS_Singleton
      <4> QED
        BY <3>2, <4>1
  <2> QED
    BY <2>1, <2>2
<1> QED
  BY <1>1, FleetInvariant, PTL

(* A disable that has run to its end leaves no upload token usable that was*)
(* registered before it, but where the closing gave up, the write did not  *)
(* know that it disabled the row, or the revocation itself failed (then    *)
(* the token is `left`, not `valid`).                                      *)
THEOREM DisabledPrinterHasNoToken == FleetSpec => []DisabledHasNoToken
<1>1. FleetInv => DisabledHasNoToken
  <2> SUFFICES ASSUME FleetInv, NEW p \in Printers,
                      node.live, printer[p].row = "live", token[p] = "valid"
               PROVE  \/ Open(p)
                      \/ Disabling(p)
                      \/ abandoned \cap {"node", p} # {}
                      \/ printer[p].blind
    BY DEF DisabledHasNoToken
  <2>1. NodeOpen \/ RevokedFor("node") \/ "node" \in abandoned
    BY DEF FleetInv, NodeRevokes
  <2>2. printer[p].enabled \/ RevokedFor(p) \/ p \in abandoned \/ printer[p].blind
    BY DEF FleetInv, PrinterRevokes
  <2>3. RevokedFor("node") \/ RevokedFor(p) => Disabling(p)
    BY DEF RevokedFor, Revokes, Disabling, Closes
  <2> QED
    BY <2>1, <2>2, <2>3 DEF Open
<1> QED
  BY <1>1, FleetInvariant, PTL
=============================================================================
