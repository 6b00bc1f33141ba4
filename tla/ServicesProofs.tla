--------------------------- MODULE ServicesProofs ---------------------------
(***************************************************************************)
(* Proofs about the remaining components that MCServices brings together:  *)
(* Availability, PrinterMeter, PortalOutbox and EdgeCredentials, each in a *)
(* part of its own, and then about MCServices itself: every invariant of   *)
(* its run holds for any number of files, nodes, users and requests.       *)
(***************************************************************************)
EXTENDS MCServices, FileProofs, AdministrationProofs, StartupProofs

-----------------------------------------------------------------------------
(* Availability.  A sweep judges a node's sync interrupted only if it      *)
(* judges the node online, so that what it writes shows the alert.         *)
VerdictConsistent ==
  /\ listing.interrupted => listing.connection = "online"
  /\ listing.connection = "none" => listing = NotListed

AvailabilityInv == AvailabilityTypeOK /\ VerdictConsistent /\ SyncAlertShown

EdgeRows == [live : BOOLEAN, enabled : BOOLEAN,
             status : {"online", "unstable", "offline"},
             reason : {"none"} \cup NodeReasons,
             beat : Ages, overdue : BOOLEAN]

(* A step that leaves the node's health and opens no alert about its sync. *)
LEMMA HealthUntouched ==
  ASSUME AvailabilityInv, AvailabilityTypeOK', UNCHANGED listing,
         edge'.reason = edge.reason, alerts' \subseteq alerts \cup {"disk", "ipp", "lock"}
  PROVE  AvailabilityInv'
BY DEF AvailabilityInv, VerdictConsistent, SyncAlertShown

LEMMA EdgeSet ==
  ASSUME AvailabilityTypeOK
  PROVE  /\ \A x : edge' = [edge EXCEPT !.beat = x] /\ x \in Ages =>
              edge' \in EdgeRows /\ edge'.reason = edge.reason
         /\ \A x : edge' = [edge EXCEPT !.status = x] /\ x \in {"online", "unstable", "offline"} =>
              edge' \in EdgeRows /\ edge'.reason = edge.reason
         /\ \A x \in BOOLEAN : edge' = [edge EXCEPT !.overdue = x] =>
              edge' \in EdgeRows /\ edge'.reason = edge.reason
         /\ \A x \in BOOLEAN : edge' = [edge EXCEPT !.enabled = x] =>
              edge' \in EdgeRows /\ edge'.reason = edge.reason
         /\ \A x \in BOOLEAN : edge' = [edge EXCEPT !.live = x] =>
              edge' \in EdgeRows /\ edge'.reason = edge.reason
BY DEF AvailabilityTypeOK, EdgeRows

LEMMA QuietStepKeeps ==
  ASSUME AvailabilityInv,
         \/ AgeHeartbeat \/ AgePrinterStatus \/ MarkUnstable \/ CheckAndUpdateOfflineNodes
         \/ \E enabled \in BOOLEAN : SetNodeEnabled(enabled)
  PROVE  AvailabilityInv'
<1>1. edge' \in EdgeRows /\ edge'.reason = edge.reason
  <2>1. CASE AgeHeartbeat
    <3>1. edge' = [edge EXCEPT !.beat = Older(edge.beat)] /\ Older(edge.beat) \in Ages
      BY <2>1 DEF AgeHeartbeat, Older, Ages
    <3> QED
      BY <3>1, EdgeSet DEF AvailabilityInv
  <2>2. CASE AgePrinterStatus
    BY <2>2, EdgeSet DEF AgePrinterStatus, AvailabilityInv
  <2>3. CASE MarkUnstable \/ CheckAndUpdateOfflineNodes
    BY <2>3, EdgeSet DEF MarkUnstable, CheckAndUpdateOfflineNodes, AvailabilityInv
  <2>4. CASE \E enabled \in BOOLEAN : SetNodeEnabled(enabled)
    BY <2>4, EdgeSet DEF SetNodeEnabled, AvailabilityInv
  <2> QED
    BY <2>1, <2>2, <2>3, <2>4
<1>2. UNCHANGED <<device, alerts, listing>>
  BY DEF AgeHeartbeat, AgePrinterStatus, MarkUnstable, CheckAndUpdateOfflineNodes, SetNodeEnabled
<1>3. AvailabilityTypeOK'
  BY <1>1, <1>2 DEF AvailabilityInv, AvailabilityTypeOK, EdgeRows
<1> QED
  BY <1>1, <1>2, <1>3, HealthUntouched

(* The health of an interrupted sync outranks the heartbeat's.             *)
LEMMA ApplyHeartbeatKeeps ==
  ASSUME AvailabilityInv, NEW load \in BOOLEAN, ApplyHeartbeat(load)
  PROVE  AvailabilityInv'
<1> USE DEF AvailabilityInv
<1>1. /\ edge' \in EdgeRows
      /\ edge.reason = "sync" => edge'.reason = "sync"
  <2>1. CASE ~edge.live
    BY <2>1 DEF ApplyHeartbeat, AvailabilityTypeOK, EdgeRows
  <2>2. CASE edge.live
    <3>1. /\ edge' = [edge EXCEPT !.status = "online", !.beat = "fresh",
                                  !.reason = Health(edge.reason, load)]
          /\ Health(edge.reason, load) \in {"none", "sync", "disk"}
          /\ edge.reason = "sync" => Health(edge.reason, load) = "sync"
      BY <2>2 DEF ApplyHeartbeat, Health
    <3> HIDE DEF AvailabilityInv
    <3> QED
      BY <3>1 DEF AvailabilityInv, AvailabilityTypeOK, EdgeRows, NodeReasons, Ages
  <2> QED
    BY <2>1, <2>2
<1>2. /\ alerts' \subseteq alerts \cup {"disk"}
      /\ UNCHANGED <<device, listing>>
  BY DEF ApplyHeartbeat
<1>3. AvailabilityTypeOK'
  BY <1>1, <1>2 DEF AvailabilityTypeOK, EdgeRows, NodeReasons, PrinterReasons
<1> QED
  BY <1>1, <1>2, <1>3 DEF VerdictConsistent, SyncAlertShown

LEMMA ApplyPrinterSnapshotKeeps ==
  ASSUME AvailabilityInv, NEW status \in Observed, NEW ready \in BOOLEAN,
         ApplyPrinterSnapshot(status, ready)
  PROVE  AvailabilityInv'
<1> USE DEF AvailabilityInv
<1>1. PICK reason : /\ reason = IF edge.reason = "sync" THEN "none" ELSE edge.reason
                    /\ edge' = [edge EXCEPT !.overdue = FALSE, !.reason = reason]
  BY DEF ApplyPrinterSnapshot
<1>2. reason \in {"none"} \cup NodeReasons
  BY <1>1 DEF AvailabilityTypeOK
<1>3. edge' \in EdgeRows
  BY <1>1, <1>2 DEF AvailabilityTypeOK, EdgeRows
<1>4. /\ alerts' \subseteq (alerts \cup {"ipp"}) \ {"sync"}
      /\ UNCHANGED <<device, listing>>
  BY DEF ApplyPrinterSnapshot, Reconciled
<1>5. AvailabilityTypeOK'
  BY <1>3, <1>4 DEF AvailabilityTypeOK, EdgeRows, NodeReasons, PrinterReasons
<1> QED
  BY <1>4, <1>5 DEF VerdictConsistent, SyncAlertShown

LEMMA SweepListKeeps ==
  ASSUME AvailabilityInv, SweepList
  PROVE  AvailabilityInv'
<1> USE DEF AvailabilityInv
<1> DEFINE connection == Connection(edge.status, edge.beat)
<1>1. PICK interrupted \in BOOLEAN :
        /\ interrupted = (connection = "online" /\ edge.enabled /\ device.live /\ edge.overdue)
        /\ listing' = [connection |-> connection, enabled |-> edge.enabled,
                       interrupted |-> interrupted]
  BY DEF SweepList
<1>2. connection \in {"online", "unstable", "offline"}
  BY DEF Connection
<1> HIDE DEF connection
<1>3. /\ listing' \in [connection : {"none", "online", "unstable", "offline"},
                      enabled : BOOLEAN, interrupted : BOOLEAN]
      /\ VerdictConsistent'
  BY <1>1, <1>2 DEF AvailabilityTypeOK, VerdictConsistent
<1> QED
  BY <1>3 DEF SweepList, AvailabilityTypeOK, SyncAlertShown

(* The write opens the alert and the health together, and takes away the   *)
(* health only with the alert.                                             *)
LEMMA SweepNodeKeeps ==
  ASSUME AvailabilityInv, SweepNode
  PROVE  AvailabilityInv'
<1> USE DEF AvailabilityInv
<1>1. SweptReason \in {"none"} \cup NodeReasons
  BY DEF SweptReason, AvailabilityTypeOK, NodeReasons
<1>2. listing.connection \in {"online", "unstable", "offline"}
  BY DEF SweepNode, AvailabilityTypeOK, NotListed, VerdictConsistent
<1>3. PICK reason : /\ reason = SweptReason
                    /\ edge' = [edge EXCEPT !.status = listing.connection, !.reason = reason]
  BY DEF SweepNode
<1>4. edge' \in EdgeRows /\ edge'.reason = SweptReason
  BY <1>1, <1>2, <1>3 DEF AvailabilityTypeOK, EdgeRows
<1>5. /\ alerts' \subseteq alerts \cup {"sync"}
      /\ "sync" \in alerts' => listing.interrupted
      /\ listing' = NotListed /\ UNCHANGED device
  BY DEF SweepNode
<1>6. AvailabilityTypeOK'
  BY <1>4, <1>5 DEF AvailabilityTypeOK, EdgeRows, NotListed, NodeReasons
<1>7. ASSUME listing.interrupted PROVE SweptReason = "sync"
  <2>1. listing.connection = "online"
    BY <1>7 DEF VerdictConsistent
  <2>2. listing.interrupted = TRUE
    BY <1>7 DEF AvailabilityTypeOK
  <2> QED
    BY <2>1, <2>2 DEF SweptReason
<1> QED
  BY <1>4, <1>5, <1>6, <1>7 DEF VerdictConsistent, SyncAlertShown, NotListed

LEMMA AdministeredKeeps ==
  ASSUME AvailabilityInv,
         \/ OpenPrinterUnconfirmed \/ DeleteNodeRow \/ CleanupOrphaned
         \/ \E enabled \in BOOLEAN : UpdatePrinter(enabled)
         \/ \E byEdge \in BOOLEAN : DeletePrinterRow(byEdge)
  PROVE  AvailabilityInv'
<1>1. edge' \in EdgeRows /\ edge'.reason = edge.reason
  <2>1. CASE DeleteNodeRow
    BY <2>1, EdgeSet DEF DeleteNodeRow, AvailabilityInv
  <2>2. CASE UNCHANGED edge
    BY <2>2 DEF AvailabilityInv, AvailabilityTypeOK, EdgeRows
  <2> QED
    BY <2>1, <2>2 DEF OpenPrinterUnconfirmed, CleanupOrphaned, UpdatePrinter, DeletePrinterRow
<1>2. device' \in [live : BOOLEAN, enabled : BOOLEAN]
  BY DEF AvailabilityInv, AvailabilityTypeOK, OpenPrinterUnconfirmed, DeleteNodeRow,
     CleanupOrphaned, UpdatePrinter, DeletePrinterRow
<1>3. alerts' \subseteq alerts \cup {"lock"} /\ UNCHANGED listing
  BY DEF OpenPrinterUnconfirmed, DeleteNodeRow, CleanupOrphaned, UpdatePrinter, DeletePrinterRow
<1>4. AvailabilityTypeOK'
  BY <1>1, <1>2, <1>3 DEF AvailabilityInv, AvailabilityTypeOK, EdgeRows, PrinterReasons
<1> QED
  BY <1>1, <1>3, <1>4, HealthUntouched

LEMMA AvailabilityStepKeeps ==
  AvailabilityInv /\ [AvailabilityNext]_availVars => AvailabilityInv'
<1>1. ASSUME AvailabilityInv, UNCHANGED availVars
      PROVE  AvailabilityInv'
  BY <1>1 DEF availVars, AvailabilityInv, AvailabilityTypeOK, VerdictConsistent, SyncAlertShown
<1>2. ASSUME AvailabilityInv, AvailabilityNext
      PROVE  AvailabilityInv'
  BY <1>2, QuietStepKeeps, ApplyHeartbeatKeeps, ApplyPrinterSnapshotKeeps, SweepListKeeps,
     SweepNodeKeeps, AdministeredKeeps DEF AvailabilityNext
<1> QED
  BY <1>1, <1>2

LEMMA AvailabilityStart == AvailabilityInit => AvailabilityInv
BY DEF AvailabilityInit, AvailabilityInv, AvailabilityTypeOK, VerdictConsistent,
   SyncAlertShown, NotListed, NodeReasons, Ages

(* An open alert about interrupted status sync is the node's health,       *)
(* whatever comes between the list and the write of a sweep.               *)
THEOREM SyncAlertsShown == AvailabilitySpec => [](AvailabilityTypeOK /\ SyncAlertShown)
<1>1. AvailabilityInv => AvailabilityTypeOK /\ SyncAlertShown
  BY DEF AvailabilityInv
<1> QED
  BY <1>1, AvailabilityStart, AvailabilityStepKeeps, PTL DEF AvailabilitySpec

-----------------------------------------------------------------------------
(* PortalOutbox.  A row says delivered, and a handler or the task is about *)
(* to say so, only for an event a socket has taken; a pass looks at events *)
(* that exist, and the task holds one exactly between claim and record.    *)
SentWasTaken ==
  /\ \A e \in Events : login[e] = "sent" \/ event[e] = "delivered" => e \in notified
  /\ task.stage = "sent" => task.claimed \in notified
  /\ task.stage \in {"claimed", "sent"} => task.claimed \in Events

EventsExist ==
  /\ \A e \in Events : login[e] = "none" <=> event[e] = "none"
  /\ \A e \in batch \cup due : event[e] # "none"
  /\ task.stage \in {"claimed", "sent"} => event[task.claimed] # "none"

OutboxInv == PortalOutboxTypeOK /\ SentWasTaken /\ EventsExist

Tasks == [stage : {"waiting", "passing", "claimed", "sent"}, claimed : Events \cup {Nobody}]

LEMMA TaskTypes ==
  /\ Between \in Tasks /\ Between.stage = "waiting"
  /\ Passing \in Tasks /\ Passing.stage = "passing"
BY DEF Between, Passing, Tasks

LEMMA LoginStepKeeps ==
  ASSUME OutboxInv, NEW e \in Events,
         EnqueueEvent(e) \/ NotifyAtLogin(e) \/ \E ok \in BOOLEAN : MarkAtLogin(e, ok)
  PROVE  OutboxInv'
<1> USE DEF OutboxInv
<1>1. CASE EnqueueEvent(e)
  <2>1. PortalOutboxTypeOK'
    BY <1>1 DEF EnqueueEvent, PortalOutboxTypeOK
  <2> QED
    BY <1>1, <2>1 DEF EnqueueEvent, PortalOutboxTypeOK, SentWasTaken, EventsExist
<1>2. CASE NotifyAtLogin(e)
  <2>1. PICK l \in {"sent", "over"} :
          /\ login' = [login EXCEPT ![e] = l]
          /\ l = "sent" => e \in notified'
          /\ notified \subseteq notified' /\ notified' \subseteq Events
    BY <1>2 DEF NotifyAtLogin, PortalOutboxTypeOK
  <2>2. login[e] = "committed" /\ UNCHANGED <<event, due, batch, task, online, faults>>
    BY <1>2 DEF NotifyAtLogin
  <2>3. PortalOutboxTypeOK'
    BY <2>1, <2>2 DEF PortalOutboxTypeOK
  <2> QED
    BY <2>1, <2>2, <2>3 DEF PortalOutboxTypeOK, SentWasTaken, EventsExist
<1>3. ASSUME NEW ok \in BOOLEAN, MarkAtLogin(e, ok)
      PROVE  OutboxInv'
  <2>1. /\ login[e] = "sent" /\ login' = [login EXCEPT ![e] = "over"]
        /\ event' = event \/ event' = [event EXCEPT ![e] = "delivered"]
        /\ UNCHANGED <<due, batch, task, online, notified>>
    BY <1>3 DEF MarkAtLogin, Delivered
  <2>2. PortalOutboxTypeOK'
    BY <1>3, <2>1, PortalOutboxAssumption DEF MarkAtLogin, Delivered, PortalOutboxTypeOK
  <2> QED
    BY <2>1, <2>2 DEF PortalOutboxTypeOK, SentWasTaken, EventsExist
<1> QED
  BY <1>1, <1>2, <1>3

LEMMA PassKeeps ==
  ASSUME OutboxInv, StartPass \/ EndPass \/ ClaimFails
  PROVE  OutboxInv'
<1> USE DEF OutboxInv
<1>1. /\ task' \in Tasks /\ task'.stage \in {"waiting", "passing"}
      /\ batch' = batch \/ batch' = due
      /\ UNCHANGED <<event, due, login, online, notified>>
  BY TaskTypes DEF StartPass, EndPass, ClaimFails
<1>2. faults' \in 0..MaxFaults
  BY PortalOutboxAssumption DEF StartPass, EndPass, ClaimFails, PortalOutboxTypeOK
<1>3. PortalOutboxTypeOK'
  BY <1>1, <1>2 DEF PortalOutboxTypeOK, Tasks
<1> QED
  BY <1>1, <1>3 DEF SentWasTaken, EventsExist, PortalOutboxTypeOK

LEMMA ClaimDueKeeps ==
  ASSUME OutboxInv, NEW e \in Events, ClaimDue(e)
  PROVE  OutboxInv'
<1> USE DEF OutboxInv
<1>1. PortalOutboxTypeOK'
  BY DEF ClaimDue, PortalOutboxTypeOK
<1> QED
  BY <1>1 DEF ClaimDue, SentWasTaken, EventsExist, PortalOutboxTypeOK

LEMMA NotifyClaimedKeeps ==
  ASSUME OutboxInv, NotifyClaimed
  PROVE  OutboxInv'
<1> USE DEF OutboxInv
<1>1. CASE task.claimed \in online
  <2>1. /\ notified' = notified \cup {task.claimed}
        /\ task' = [task EXCEPT !.stage = "sent"]
        /\ task.stage = "claimed" /\ UNCHANGED <<event, due, batch, login, online, faults>>
    BY <1>1 DEF NotifyClaimed
  <2>2. task' \in Tasks /\ task'.claimed = task.claimed /\ task'.stage = "sent"
    BY <2>1 DEF PortalOutboxTypeOK, Tasks
  <2>3. PortalOutboxTypeOK'
    BY <2>1, <2>2, <1>1 DEF PortalOutboxTypeOK, Tasks
  <2> QED
    BY <2>1, <2>2, <2>3 DEF SentWasTaken, EventsExist, PortalOutboxTypeOK
<1>2. CASE task.claimed \notin online
  <2>1. task' = Passing /\ UNCHANGED <<event, due, batch, login, online, faults, notified>>
    BY <1>2 DEF NotifyClaimed
  <2>2. PortalOutboxTypeOK'
    BY <2>1, TaskTypes DEF PortalOutboxTypeOK, Tasks
  <2> QED
    BY <2>1, <2>2, TaskTypes DEF SentWasTaken, EventsExist, PortalOutboxTypeOK
<1> QED
  BY <1>1, <1>2

LEMMA MarkClaimedKeeps ==
  ASSUME OutboxInv, NEW ok \in BOOLEAN, MarkClaimed(ok)
  PROVE  OutboxInv'
<1> USE DEF OutboxInv
<1>1. PICK e \in Events : e = task.claimed /\ e \in notified /\ event[e] # "none"
  BY DEF MarkClaimed, SentWasTaken, EventsExist
<1>2. /\ event' = event \/ event' = [event EXCEPT ![e] = "delivered"]
      /\ task' = Passing /\ UNCHANGED <<due, batch, login, online, notified>>
      /\ faults' \in 0..MaxFaults
  BY <1>1, PortalOutboxAssumption DEF MarkClaimed, Delivered, PortalOutboxTypeOK
<1>3. PortalOutboxTypeOK'
  BY <1>2, TaskTypes DEF PortalOutboxTypeOK, Tasks
<1> QED
  BY <1>1, <1>2, <1>3, TaskTypes DEF SentWasTaken, EventsExist, PortalOutboxTypeOK

LEMMA WorldKeeps ==
  ASSUME OutboxInv, NEW e \in Events, BecomesDue(e) \/ NodeConnects(e)
  PROVE  OutboxInv'
<1> USE DEF OutboxInv
<1>1. PortalOutboxTypeOK'
  BY DEF BecomesDue, NodeConnects, PortalOutboxTypeOK
<1> QED
  BY <1>1 DEF BecomesDue, NodeConnects, SentWasTaken, EventsExist, PortalOutboxTypeOK

LEMMA RestartOutboxKeeps ==
  ASSUME OutboxInv, RestartOutbox
  PROVE  OutboxInv'
<1> USE DEF OutboxInv
<1>1. /\ task' = Between /\ batch' = {} /\ online' = {}
      /\ UNCHANGED <<event, due, notified>> /\ faults' \in 0..MaxFaults
      /\ login' \in [Events -> {"none", "over"}]
      /\ \A e \in Events : login'[e] = "none" <=> login[e] = "none"
  BY PortalOutboxAssumption DEF RestartOutbox, PortalOutboxTypeOK
<1>2. PortalOutboxTypeOK'
  BY <1>1, TaskTypes DEF PortalOutboxTypeOK, Tasks
<1> QED
  BY <1>1, <1>2, TaskTypes DEF SentWasTaken, EventsExist, PortalOutboxTypeOK

LEMMA OutboxStepKeeps ==
  OutboxInv /\ [PortalOutboxNext]_outboxVars => OutboxInv'
<1>1. ASSUME OutboxInv, UNCHANGED outboxVars
      PROVE  OutboxInv'
  BY <1>1 DEF outboxVars, OutboxInv, PortalOutboxTypeOK, SentWasTaken, EventsExist
<1>2. ASSUME OutboxInv, PortalOutboxNext
      PROVE  OutboxInv'
  BY <1>2, LoginStepKeeps, PassKeeps, ClaimDueKeeps, NotifyClaimedKeeps, MarkClaimedKeeps,
     WorldKeeps, RestartOutboxKeeps DEF PortalOutboxNext
<1> QED
  BY <1>1, <1>2

LEMMA OutboxStart == PortalOutboxInit => OutboxInv
BY TaskTypes, PortalOutboxAssumption
DEF PortalOutboxInit, OutboxInv, PortalOutboxTypeOK, SentWasTaken, EventsExist, Tasks

(* The outbox records a login as delivered only if a socket of the node    *)
(* has taken the notice, whatever fails between the notice and its record. *)
THEOREM DeliveredWasNotified ==
  PortalOutboxSpec => [](PortalOutboxTypeOK /\ \A e \in Events : event[e] = "delivered" => e \in notified)
<1>1. OutboxInv => PortalOutboxTypeOK /\ \A e \in Events : event[e] = "delivered" => e \in notified
  BY DEF OutboxInv, SentWasTaken
<1> QED
  BY <1>1, OutboxStart, OutboxStepKeeps, PTL DEF PortalOutboxSpec

-----------------------------------------------------------------------------
(* EdgeCredentials.  A client, a code and a token are of a node that has a *)
(* row, a token of one that has been activated: no step makes a node       *)
(* pending again, and the cleanup removes no node that has a client.       *)
HoldersKnown ==
  /\ \A n \in token : HasRow(n) /\ ~Pending(n)
  /\ \A n \in EdgeNodes : client[n] # "none" \/ node[n].code # "none" => HasRow(n)

CredentialsInv == EdgeCredentialsTypeOK /\ HoldersKnown

NodeRows == [state : States, code : {"none", "valid", "expired"}, enabled : BOOLEAN, deleted : BOOLEAN]

(* The rows that switching a node and marking it deleted leave.            *)
Flags == BOOLEAN
ToggledRow(r, e, x) == [r EXCEPT !.enabled = e, !.state = x]
MarkedRow(r, d) == [r EXCEPT !.deleted = d]

LEMMA ToggledMarked ==
  ASSUME NEW r \in NodeRows, NEW x \in States, NEW b \in Flags
  PROVE  /\ ToggledRow(r, b, x) \in NodeRows /\ ToggledRow(r, b, x).state = x
         /\ MarkedRow(r, b) \in NodeRows /\ MarkedRow(r, b).state = r.state /\ MarkedRow(r, b).code = r.code
BY DEF NodeRows, Flags, ToggledRow, MarkedRow

(* The row any other step leaves, as a row of its own.                     *)

LEMMA RowChange ==
  ASSUME NEW r \in NodeRows, NEW x \in States
  PROVE  /\ \E q \in NodeRows : q = [r EXCEPT !.code = "expired"] /\ q.state = r.state
         /\ \E q \in NodeRows : q = [r EXCEPT !.state = x] /\ q.state = x
         /\ \E q \in NodeRows : q = [r EXCEPT !.state = x, !.code = "none"] /\ q.state = x
<1>1. /\ [r EXCEPT !.code = "expired"] \in NodeRows /\ [r EXCEPT !.code = "expired"].state = r.state
      /\ [r EXCEPT !.state = x] \in NodeRows /\ [r EXCEPT !.state = x].state = x
      /\ [r EXCEPT !.state = x, !.code = "none"] \in NodeRows
      /\ [r EXCEPT !.state = x, !.code = "none"].state = x
  BY DEF NodeRows
<1> QED
  BY <1>1, Zenon

(* A step that changes one node's row and leaves it a row that is as       *)
(* little pending as before.                                               *)
LEMMA NodeRowKeeps ==
  ASSUME CredentialsInv, NEW n \in EdgeNodes, NEW r \in NodeRows,
         node' = [node EXCEPT ![n] = r],
         r.state # "none", r.state = "pending_activation" => ~HasRow(n) \/ Pending(n),
         client' \in [EdgeNodes -> Clients],
         \A m \in EdgeNodes : m = n \/ client'[m] = "none" \/ client'[m] = client[m],
         removal' \in [EdgeNodes -> {"no", "nothing", "client"}],
         UNCHANGED <<token, asking>>
  PROVE  CredentialsInv'
<1>1. EdgeCredentialsTypeOK'
  BY DEF CredentialsInv, EdgeCredentialsTypeOK, NodeRows
<1>2. /\ node'[n] = r /\ \A m \in EdgeNodes \ {n} : node'[m] = node[m]
  BY DEF CredentialsInv, EdgeCredentialsTypeOK
<1>3. \A m \in token' : m \in EdgeNodes /\ HasRow(m)' /\ ~Pending(m)'
  BY <1>2 DEF CredentialsInv, EdgeCredentialsTypeOK, HoldersKnown, HasRow, Pending
<1>4. \A m \in EdgeNodes : client'[m] # "none" \/ node'[m].code # "none" => HasRow(m)'
  BY <1>2 DEF CredentialsInv, HoldersKnown, HasRow
<1> QED
  BY <1>1, <1>3, <1>4 DEF CredentialsInv, HoldersKnown, HasRow, Pending

LEMMA DeviceStepKeeps ==
  ASSUME CredentialsInv, NEW n \in EdgeNodes, CodeExpires(n) \/ Activate(n) \/ UpdateSelfProfile(n)
  PROVE  CredentialsInv'
<1>1. PICK r \in NodeRows :
        /\ node' = [node EXCEPT ![n] = r]
        /\ r.state # "none" /\ (r.state = "pending_activation" => Pending(n))
  <2>1. node[n] \in NodeRows /\ HasRow(n)
    BY DEF CredentialsInv, EdgeCredentialsTypeOK, NodeRows, HoldersKnown, CodeExpires, Activate,
       UpdateSelfProfile, Live, HasRow, Pending
  <2>2. CASE CodeExpires(n)
    <3>1. PICK q \in NodeRows : q = [node[n] EXCEPT !.code = "expired"] /\ q.state = node[n].state
      <4>1. node[n].state \in States
        BY <2>1 DEF NodeRows
      <4> QED
        BY <2>1, <4>1, RowChange, Zenon
    <3>2. node' = [node EXCEPT ![n] = q]
      BY <2>2, <3>1, Zenon DEF CodeExpires
    <3> QED
      BY <2>1, <3>1, <3>2 DEF HasRow, Pending
  <2>3. CASE Activate(n)
    <3>1. PICK q \in NodeRows : q = [node[n] EXCEPT !.state = "registered", !.code = "none"]
                                /\ q.state = "registered"
      <4>1. "registered" \in States 
        BY DEF States
      <4> QED
        BY <2>1, <4>1, RowChange, Zenon
    <3>2. node' = [node EXCEPT ![n] = q]
      BY <2>3, <3>1, Zenon DEF Activate
    <3> QED
      BY <3>1, <3>2
  <2>4. CASE UpdateSelfProfile(n)
    <3>1. PICK q \in NodeRows : q = [node[n] EXCEPT !.state = "active"] /\ q.state = "active"
      <4>1. "active" \in States 
        BY DEF States
      <4> QED
        BY <2>1, <4>1, RowChange, Zenon
    <3>2. node' = [node EXCEPT ![n] = q]
      BY <2>4, <3>1, Zenon DEF UpdateSelfProfile
    <3> QED
      BY <3>1, <3>2
  <2> QED
    BY <2>2, <2>3, <2>4
<1>2. /\ client' \in [EdgeNodes -> Clients]
      /\ \A m \in EdgeNodes : m = n \/ client'[m] = client[m]
      /\ UNCHANGED <<removal, token, asking>>
  BY DEF CredentialsInv, EdgeCredentialsTypeOK, Clients, CodeExpires, Activate, UpdateSelfProfile
<1> QED
  BY <1>1, <1>2, NodeRowKeeps DEF CredentialsInv, EdgeCredentialsTypeOK

LEMMA AdminNodeKeeps ==
  ASSUME CredentialsInv, NEW n \in EdgeNodes,
         CreatePending(n) \/ (\E enabled \in BOOLEAN : UpdateEnabled(n, enabled))
  PROVE  CredentialsInv'
<1>1. PICK r \in NodeRows :
        /\ node' = [node EXCEPT ![n] = r]
        /\ r.state # "none" /\ (r.state = "pending_activation" => ~HasRow(n) \/ Pending(n))
  <2>1. CASE CreatePending(n)
    <3> DEFINE r == [state |-> "pending_activation", code |-> "valid", enabled |-> TRUE, deleted |-> FALSE]
    <3>1. r \in NodeRows
      BY DEF NodeRows, States
    <3>2. node' = [node EXCEPT ![n] = r] /\ ~HasRow(n)
      BY <2>1 DEF CreatePending
    <3> QED
      BY <3>1, <3>2
  <2>2. ASSUME NEW enabled \in BOOLEAN, UpdateEnabled(n, enabled)
        PROVE  \E r \in NodeRows :
                 /\ node' = [node EXCEPT ![n] = r]
                 /\ r.state # "none" /\ (r.state = "pending_activation" => Pending(n))
    <3>1. node[n] \in NodeRows /\ HasRow(n)
      BY <2>2 DEF CredentialsInv, EdgeCredentialsTypeOK, NodeRows, UpdateEnabled, Live
    <3> DEFINE x == IF enabled /\ node[n].state = "disabled" THEN "active"
                    ELSE IF ~enabled THEN "disabled" ELSE node[n].state
    <3>2. PICK b \in Flags : node' = [node EXCEPT ![n] = ToggledRow(node[n], b, x)]
      BY <2>2 DEF UpdateEnabled, ToggledRow, Flags
    <3>3. x \in States /\ x # "none" /\ (x = "pending_activation" => Pending(n))
      BY <2>2, <3>1 DEF NodeRows, HasRow, Pending, States
    <3> HIDE DEF x
    <3>4. ToggledRow(node[n], b, x) \in NodeRows /\ ToggledRow(node[n], b, x).state = x
      BY <3>1, <3>2, <3>3, ToggledMarked
    <3> QED
      BY <3>2, <3>3, <3>4
  <2> QED
    BY <2>1, <2>2
<1>2. UNCHANGED <<client, removal, token, asking>>
  BY DEF CreatePending, UpdateEnabled
<1> QED
  BY <1>1, <1>2, NodeRowKeeps DEF CredentialsInv, EdgeCredentialsTypeOK

LEMMA HoldersStepKeeps ==
  ASSUME CredentialsInv, NEW n \in EdgeNodes,
         \/ ReadClient(n) \/ IssueToken(n) \/ TokenExpires(n) \/ CreateClient(n) \/ DeleteClient(n)
         \/ \E to \in {"enabled", "disabled"} : UpdateClient(n, to)
         \/ RemoveClient(n) \/ RollBackRemoval(n)
  PROVE  CredentialsInv'
<1>1. /\ UNCHANGED node
      /\ client' \in [EdgeNodes -> Clients] /\ removal' \in [EdgeNodes -> {"no", "nothing", "client"}]
      /\ \A m \in EdgeNodes : client'[m] # "none" => HasRow(m)
      /\ asking' \subseteq EdgeNodes /\ \A m \in token' : m \in token \/ m = n
      /\ n \in token' => HasRow(n) /\ ~Pending(n)
  BY DEF CredentialsInv, EdgeCredentialsTypeOK, HoldersKnown, Clients, ReadClient, IssueToken, TokenExpires,
     CreateClient, DeleteClient, UpdateClient, RemoveClient, RollBackRemoval,
     BoundNodeUsable, HasRow, Pending
<1> QED
  BY <1>1 DEF CredentialsInv, EdgeCredentialsTypeOK, HoldersKnown, HasRow, Pending

LEMMA MarkDeletedKeeps ==
  ASSUME CredentialsInv, NEW n \in EdgeNodes, MarkDeleted(n)
  PROVE  CredentialsInv'
<1>1. /\ node' \in [EdgeNodes -> NodeRows]
      /\ \A m \in EdgeNodes : node'[m].state = node[m].state /\ node'[m].code = node[m].code
  <2>1. node[n] \in NodeRows
    BY DEF CredentialsInv, EdgeCredentialsTypeOK, NodeRows
  <2>2. PICK marked \in Flags : node' = [node EXCEPT ![n] = MarkedRow(node[n], marked)]
    BY <2>1 DEF MarkDeleted, NodeRows, HasRow, Flags, MarkedRow
  <2>3. node[n].state \in States
    BY <2>1 DEF NodeRows
  <2> QED
    BY <2>1, <2>2, <2>3, ToggledMarked DEF CredentialsInv, EdgeCredentialsTypeOK, NodeRows
<1>2. /\ client' \in [EdgeNodes -> Clients] /\ removal' \in [EdgeNodes -> {"no", "nothing", "client"}]
      /\ \A m \in EdgeNodes : client'[m] = "none" \/ client'[m] = client[m]
      /\ UNCHANGED <<token, asking>>
  BY DEF CredentialsInv, EdgeCredentialsTypeOK, Clients, MarkDeleted
<1> QED
  BY <1>1, <1>2 DEF CredentialsInv, EdgeCredentialsTypeOK, NodeRows, HoldersKnown, HasRow, Pending

LEMMA CleanupExpiredKeeps ==
  ASSUME CredentialsInv, CleanupExpired
  PROVE  CredentialsInv'
<1>1. NoNode \in NodeRows
  BY DEF NoNode, NodeRows, States
<1>2. /\ node' \in [EdgeNodes -> NodeRows]
      /\ \A m \in EdgeNodes : node'[m] = node[m] \/ (Expired(m) /\ node'[m].code = "none")
      /\ UNCHANGED <<client, removal, token, asking>>
  BY <1>1 DEF CleanupExpired, CredentialsInv, EdgeCredentialsTypeOK, NodeRows, NoNode
<1>3. \A m \in EdgeNodes : m \in token \/ client[m] # "none" => ~Expired(m)
  BY DEF CleanupExpired, CredentialsInv, HoldersKnown, Expired
<1> QED
  BY <1>2, <1>3 DEF CredentialsInv, EdgeCredentialsTypeOK, NodeRows, HoldersKnown, HasRow, Pending

LEMMA CredentialsStepKeeps ==
  CredentialsInv /\ [EdgeCredentialsNext]_credentialVars => CredentialsInv'
<1>1. ASSUME CredentialsInv, UNCHANGED credentialVars
      PROVE  CredentialsInv'
  BY <1>1 DEF credentialVars, CredentialsInv, EdgeCredentialsTypeOK, HoldersKnown, HasRow, Pending
<1>2. ASSUME CredentialsInv, EdgeCredentialsNext
      PROVE  CredentialsInv'
  BY <1>2, DeviceStepKeeps, AdminNodeKeeps, HoldersStepKeeps, MarkDeletedKeeps, CleanupExpiredKeeps
  DEF EdgeCredentialsNext, DeviceNext, AdminNext
<1> QED
  BY <1>1, <1>2

LEMMA CredentialsStart == EdgeCredentialsInit => CredentialsInv
BY DEF EdgeCredentialsInit, CredentialsInv, EdgeCredentialsTypeOK, HoldersKnown, NoNode, States, Clients

(* A device holds a signed token only of a node that has a row and has     *)
(* been activated, and no client is left of a node the cleanup removed,    *)
(* although the cleanup looks at neither tokens nor the deletion's locks.  *)
THEOREM TokensOfKnownNodes ==
  EdgeCredentialsSpec => [](EdgeCredentialsTypeOK /\ HoldersKnown)
<1>1. CredentialsInv => EdgeCredentialsTypeOK /\ HoldersKnown
  BY DEF CredentialsInv
<1> QED
  BY <1>1, CredentialsStart, CredentialsStepKeeps, PTL DEF EdgeCredentialsSpec

-----------------------------------------------------------------------------
(* PrintQuota and PrinterMeter.  First the arithmetic of sides, copies and *)
(* sheets: division by the pages of a document, and by two.                *)
LEMMA DivMod ==
  ASSUME NEW n \in Nat, NEW p \in Nat \ {0}
  PROVE  /\ n \div p \in Nat /\ n % p \in 0..(p - 1)
         /\ n = p * (n \div p) + (n % p)
OBVIOUS

LEMMA DivModUnique ==
  ASSUME NEW p \in Nat \ {0}, NEW q \in Int, NEW e \in Int, NEW r \in 0..(p - 1), NEW s \in 0..(p - 1),
         p * q + r = p * e + s
  PROVE  q = e /\ r = s
<1>1. p * (q - e) = s - r
  OBVIOUS
<1>2. CASE q - e >= 1
  <2>1. p * (q - e) >= p
    BY <1>2
  <2> QED
    BY <1>1, <2>1
<1>3. CASE q - e <= -1
  <2>1. p * (q - e) <= -p
    BY <1>3
  <2> QED
    BY <1>1, <2>1
<1>4. CASE q = e
  BY <1>4, <1>1
<1> QED
  BY <1>2, <1>3, <1>4

LEMMA DivModSucc ==
  ASSUME NEW n \in Nat, NEW p \in Nat \ {0}
  PROVE  IF (n % p) + 1 = p
         THEN (n + 1) \div p = (n \div p) + 1 /\ (n + 1) % p = 0
         ELSE (n + 1) \div p = n \div p /\ (n + 1) % p = (n % p) + 1
<1> DEFINE q == n \div p
           r == n % p
           e == (n + 1) \div p
           s == (n + 1) % p
<1>1. q \in Nat /\ r \in 0..(p - 1) /\ n = p * q + r
  BY DivMod
<1>2. e \in Nat /\ s \in 0..(p - 1) /\ n + 1 = p * e + s
  <2>1. n + 1 \in Nat
    OBVIOUS
  <2> QED
    BY <2>1, DivMod
<1> HIDE DEF q, r, e, s
<1>3. CASE r + 1 = p
  <2>1. p * (q + 1) = p * q + p
    BY <1>1
  <2>2. p * (q + 1) + 0 = p * e + s
    BY <1>1, <1>2, <1>3, <2>1
  <2>3. 0 \in 0..(p - 1) /\ q + 1 \in Int /\ e \in Int
    BY <1>1, <1>2
  <2>4. q + 1 = e /\ s = 0
    BY <2>2, <2>3, <1>2, DivModUnique
  <2> QED
    BY <2>4, <1>3 DEF q, r, e, s
<1>4. CASE ~(r + 1 = p)
  <2>1. p * q + (r + 1) = p * e + s
    BY <1>1, <1>2
  <2>2. r + 1 \in 0..(p - 1) /\ q \in Int /\ e \in Int
    BY <1>1, <1>2, <1>4
  <2>3. e = q /\ s = r + 1
    BY <2>1, <2>2, <1>2, DivModUnique
  <2> QED
    BY <2>3, <1>4, Zenon DEF q, r, e, s
<1> QED
  BY <1>3, <1>4

LEMMA Halves ==
  ASSUME NEW k \in Nat
  PROVE  /\ k \div 2 \in Nat /\ (k + 1) \div 2 \in Nat
         /\ IF k % 2 = 1
            THEN (k + 1) \div 2 = (k \div 2) + 1 /\ ((k + 1) + 1) \div 2 = (k + 1) \div 2
                 /\ (k + 1) % 2 = 0
            ELSE (k + 1) \div 2 = k \div 2 /\ ((k + 1) + 1) \div 2 = ((k + 1) \div 2) + 1
                 /\ k % 2 = 0 /\ (k + 1) % 2 = 1
OBVIOUS

LEMMA SheetsPerCopyType ==
  ASSUME NEW d \in Document
  PROVE  /\ d.pages \in Nat \ {0} /\ d.copies \in Nat \ {0}
         /\ SheetsPerCopy(d) \in Nat
         /\ Multiplier(d) \in {1, 2}
BY DEF Document, SheetsPerCopy, Multiplier

(* The sheets of complete copies and of the copy that is being printed.    *)
LEMMA SettledParts ==
  ASSUME NEW d \in Document, NEW n \in Nat
  PROVE  \E q \in Nat, r \in 0..(d.pages - 1), o \in Nat :
           /\ q = n \div d.pages /\ r = n % d.pages
           /\ n = d.pages * q + r
           /\ o = (IF d.duplex = "simplex" THEN r ELSE (r + 1) \div 2)
           /\ o <= SheetsPerCopy(d) /\ (r = 0 => o = 0)
           /\ SettledSheets(d, n) = q * SheetsPerCopy(d) + o
<1> DEFINE q == n \div d.pages
           r == n % d.pages
           o == IF d.duplex = "simplex" THEN r ELSE (r + 1) \div 2
<1>1. q \in Nat /\ r \in 0..(d.pages - 1) /\ n = d.pages * q + r
  BY SheetsPerCopyType, DivMod
<1>2. SettledSheets(d, n) = (IF d.duplex = "simplex" THEN n ELSE q * SheetsPerCopy(d) + o)
  BY DEF SettledSheets
<1> HIDE DEF q, r
<1>3. o \in Nat /\ o <= SheetsPerCopy(d) /\ (r = 0 => o = 0)
  BY <1>1, SheetsPerCopyType DEF SheetsPerCopy
<1>4. SettledSheets(d, n) = q * SheetsPerCopy(d) + o
  <2>1. CASE d.duplex = "simplex"
    BY <1>1, <1>2, <2>1, SheetsPerCopyType DEF SheetsPerCopy
  <2>2. CASE d.duplex # "simplex"
    BY <1>2, <2>2
  <2> QED
    BY <2>1, <2>2
<1> HIDE DEF o
<1>5. q = n \div d.pages /\ r = n % d.pages
  BY DEF q, r
<1>6. o = IF d.duplex = "simplex" THEN r ELSE (r + 1) \div 2
  BY DEF o
<1> QED
  BY <1>1, <1>3, <1>4, <1>5, <1>6, Zenon

(* More copies of the sheets of one copy are more sheets.                  *)
LEMMA CopiesGrow ==
  ASSUME NEW a \in Nat, NEW b \in Nat, NEW s \in Nat, a <= b
  PROVE  a * s <= b * s /\ a * s \in Nat
<1>1. PICK c \in Nat : b = a + c
  <2>1. b - a \in Nat /\ b = a + (b - a)
    OBVIOUS
  <2> QED
    BY <2>1
<1>2. b * s = a * s + c * s /\ c * s \in Nat /\ a * s \in Nat
  BY <1>1
<1> QED
  BY <1>2

LEMMA SettledWithinPrice ==
  ASSUME NEW d \in Document, NEW n \in Nat, Countable(d, n)
  PROVE  /\ SettledSheets(d, n) \in Nat
         /\ SettledSheets(d, n) <= SheetsPerCopy(d) * d.copies
         /\ n = d.pages * d.copies => SettledSheets(d, n) = SheetsPerCopy(d) * d.copies
<1> DEFINE p == d.pages
           c == d.copies
           h == SheetsPerCopy(d)
<1>1. p \in Nat \ {0} /\ c \in Nat \ {0} /\ h \in Nat
  BY SheetsPerCopyType
<1>2. PICK q \in Nat, r \in 0..(p - 1), o \in Nat :
        /\ n = p * q + r
        /\ o <= h /\ (r = 0 => o = 0)
        /\ SettledSheets(d, n) = q * h + o
  BY SettledParts
<1>3. n <= p * c
  BY DEF Countable
<1> HIDE DEF p, c, h
<1>4. CASE q < c
  <2>1. q * h + h = (q + 1) * h /\ q * h \in Nat
    BY <1>1
  <2>2. (q + 1) * h <= c * h
    BY <1>1, <1>4, CopiesGrow
  <2>3. ~(n = p * c)
    <3>1. SUFFICES ASSUME n = p * c PROVE FALSE
      OBVIOUS
    <3>2. p * q + r = p * c + 0
      BY <1>1, <1>2, <3>1
    <3>3. q \in Int /\ c \in Int /\ 0 \in 0..(p - 1)
      BY <1>1
    <3> QED
      BY <1>1, <3>2, <3>3, <1>4, DivModUnique
  <2>4. c * h = h * c
    BY <1>1
  <2> QED
    BY <1>1, <1>2, <2>1, <2>2, <2>3, <2>4 DEF h, c, p
<1>5. CASE ~(q < c)
  <2>1. PICK k \in Nat : q = c + k
    <3>1. q - c \in Nat /\ q = c + (q - c)
      BY <1>1, <1>5
    <3> QED
      BY <3>1
  <2>2. p * q = p * c + p * k
    BY <1>1, <2>1
  <2>3. p * k + r <= 0 /\ p * k \in Nat
    BY <1>1, <1>2, <1>3, <2>2
  <2>4. k = 0 /\ r = 0
    BY <1>1, <2>3
  <2>5. q = c /\ o = 0
    BY <1>1, <1>2, <2>1, <2>4
  <2>6. SettledSheets(d, n) = h * c /\ h * c \in Nat
    BY <1>1, <1>2, <2>5
  <2> QED
    BY <2>6 DEF h, c, p
<1> QED
  BY <1>4, <1>5

(* The meter never charges more than the reservation made from the price,  *)
(* and charges a complete print exactly that, for every document and every *)
(* count of sides SettledQuotaUsage accepts.                               *)
THEOREM ChargeWithinPrice ==
  \A d \in Document, n \in Nat : Countable(d, n) =>
    /\ SettledQuotaUsage(d, n) <= QuotaUsage(d)
    /\ n = d.pages * d.copies => SettledQuotaUsage(d, n) = QuotaUsage(d)
<1> SUFFICES ASSUME NEW d \in Document, NEW n \in Nat, Countable(d, n)
             PROVE  /\ SettledQuotaUsage(d, n) <= QuotaUsage(d)
                    /\ n = d.pages * d.copies => SettledQuotaUsage(d, n) = QuotaUsage(d)
  OBVIOUS
<1> DEFINE a == SettledSheets(d, n)
           b == SheetsPerCopy(d) * d.copies
           m == Multiplier(d)
<1>1. /\ a \in Nat /\ a <= b
      /\ n = d.pages * d.copies => a = b
  BY SettledWithinPrice
<1>2. b \in Nat /\ m \in {1, 2}
  BY SheetsPerCopyType
<1>3. SettledQuotaUsage(d, n) = a * m /\ QuotaUsage(d) = b * m
  BY DEF SettledQuotaUsage, QuotaUsage
<1> HIDE DEF a, b, m
<1> QED
  BY <1>1, <1>2, <1>3

(* A later report of a printer never charges less than an earlier one of   *)
(* the same document: the settlement that takes the last count it has seen *)
(* cannot give points back.                                                *)
THEOREM ChargeGrows ==
  \A d \in Document : \A m \in Nat, n \in Nat :
    m <= n => SettledQuotaUsage(d, m) <= SettledQuotaUsage(d, n)
<1> SUFFICES ASSUME NEW d \in Document, NEW m \in Nat, NEW n \in Nat, m <= n
             PROVE  SettledQuotaUsage(d, m) <= SettledQuotaUsage(d, n)
  OBVIOUS
<1> DEFINE p == d.pages
           h == SheetsPerCopy(d)
<1>1. p \in Nat \ {0} /\ h \in Nat
  BY SheetsPerCopyType
<1>2. PICK q \in Nat, r \in 0..(p - 1), o \in Nat :
        /\ q = m \div p /\ r = m % p
        /\ m = p * q + r
        /\ o = (IF d.duplex = "simplex" THEN r ELSE (r + 1) \div 2)
        /\ o <= h /\ (r = 0 => o = 0)
        /\ SettledSheets(d, m) = q * h + o
  BY SettledParts, Zenon
<1>3. PICK e \in Nat, s \in 0..(p - 1), u \in Nat :
        /\ e = n \div p /\ s = n % p
        /\ n = p * e + s
        /\ u = (IF d.duplex = "simplex" THEN s ELSE (s + 1) \div 2)
        /\ u <= h /\ (s = 0 => u = 0)
        /\ SettledSheets(d, n) = e * h + u
  BY SettledParts, Zenon
<1> HIDE DEF p, h
<1>4. q <= e
  <2>1. SUFFICES ASSUME e + 1 <= q PROVE FALSE
    BY <1>2, <1>3
  <2>2. PICK k \in Nat : q = e + 1 + k
    <3>1. q - (e + 1) \in Nat /\ q = e + 1 + (q - (e + 1))
      BY <2>1
    <3> QED
      BY <3>1
  <2>3. p * q = p * e + p + p * k /\ p * k \in Nat
    BY <1>1, <2>2
  <2> QED
    BY <1>1, <1>2, <1>3, <2>3
<1>5. SettledSheets(d, m) <= SettledSheets(d, n)
  <2>1. CASE q = e
    <3>1. r <= s
      BY <1>1, <1>2, <1>3, <2>1
    <3>2. o <= u
      <4>1. r \in Nat /\ s \in Nat /\ (r + 1) \div 2 <= (s + 1) \div 2
        BY <1>1, <3>1
      <4> QED
        BY <1>2, <1>3, <3>1, <4>1
    <3>3. q * h \in Nat
      BY <1>1
    <3> QED
      BY <1>2, <1>3, <2>1, <3>2, <3>3
  <2>2. CASE q # e
    <3>1. q + 1 <= e
      BY <1>4, <2>2
    <3>2. (q + 1) * h <= e * h /\ e * h \in Nat
      BY <1>1, <3>1, CopiesGrow
    <3>3. (q + 1) * h = q * h + h /\ q * h \in Nat
      BY <1>1
    <3> QED
      BY <1>1, <1>2, <1>3, <3>2, <3>3
  <2> QED
    BY <2>1, <2>2
<1>6. SettledSheets(d, m) \in Nat /\ SettledSheets(d, n) \in Nat
  BY <1>1, <1>2, <1>3
<1> DEFINE a == SettledSheets(d, m)
           b == SettledSheets(d, n)
           x == Multiplier(d)
<1>7. x \in {1, 2} /\ SettledQuotaUsage(d, m) = a * x /\ SettledQuotaUsage(d, n) = b * x
  BY SheetsPerCopyType DEF SettledQuotaUsage
<1> HIDE DEF a, b, x
<1>8. a \in Nat /\ b \in Nat /\ a <= b
  BY <1>5, <1>6 DEF a, b
<1> QED
  BY <1>7, <1>8

(* The sheets that have gone through are of complete copies or of the copy *)
(* being printed, of which `Opened` sheets are used; after an odd page of  *)
(* a duplex copy the next side goes on a sheet that is already there.      *)
Copy == impressions \div doc.pages
Page == impressions % doc.pages
Opened == IF doc.duplex = "simplex" THEN Page ELSE (Page + 1) \div 2

SheetsKnown ==
  /\ \A x \in sheets : x[1] < Copy \/ (x[1] = Copy /\ x[2] < Opened)
  /\ doc.duplex # "simplex" /\ Page % 2 = 1 => <<Copy, Page \div 2>> \in sheets

MeterInv ==
  /\ doc \in Document /\ Countable(doc, impressions)
  /\ IsFiniteSet(sheets) /\ SheetsKnown
  /\ \A x \in sheets : x[1] \in Nat /\ x[2] \in Nat
  /\ SettledSheets(doc, impressions) = Cardinality(sheets)

LEMMA PagePosition ==
  ASSUME MeterInv
  PROVE  /\ doc.pages \in Nat \ {0} /\ doc.copies \in Nat \ {0} /\ impressions \in Nat
         /\ Copy \in Nat /\ Page \in 0..(doc.pages - 1) /\ Page \in Nat
<1>1. /\ doc.pages \in Nat \ {0} /\ doc.copies \in Nat \ {0} /\ impressions \in Nat
  BY SheetsPerCopyType DEF MeterInv, Countable
<1>2. /\ impressions \div doc.pages \in Nat
      /\ impressions % doc.pages \in 0..(doc.pages - 1)
  BY <1>1, DivMod, Zenon
<1>3. Copy \in Nat /\ Page \in 0..(doc.pages - 1)
  BY <1>2, Zenon DEF Copy, Page
<1> QED
  BY <1>1, <1>3

LEMMA PrintSideKeeps ==
  ASSUME MeterInv, PrintSide
  PROVE  MeterInv'
<1> DEFINE p == doc.pages
           h == SheetsPerCopy(doc)
           c == Copy
           g == Page
           x == IF doc.duplex = "simplex" THEN g ELSE g \div 2
<1>1. /\ p \in Nat \ {0} /\ impressions \in Nat /\ c \in Nat /\ g \in 0..(p - 1) /\ g \in Nat
      /\ h \in Nat /\ h = (IF doc.duplex = "simplex" THEN p ELSE (p + 1) \div 2)
  BY PagePosition, SheetsPerCopyType DEF MeterInv, SheetsPerCopy
<1>2. /\ impressions' = impressions + 1 /\ doc' = doc /\ sheets' = sheets \cup {<<c, x>>}
      /\ Countable(doc, impressions + 1)
  BY DEF PrintSide, NextSheet, Copy, Page
<1>3. IF g + 1 = p THEN Copy' = c + 1 /\ Page' = 0 ELSE Copy' = c /\ Page' = g + 1
  BY <1>1, <1>2, DivModSucc DEF Copy, Page
<1>4. /\ x \in Nat
      /\ Opened = (IF doc.duplex = "simplex" THEN g ELSE (g + 1) \div 2)
      /\ Opened' = (IF doc.duplex = "simplex" THEN Page' ELSE (Page' + 1) \div 2)
  BY <1>1, <1>2 DEF Opened
<1>5. /\ SettledSheets(doc, impressions) =
           (IF doc.duplex = "simplex" THEN impressions ELSE c * h + (g + 1) \div 2)
      /\ SettledSheets(doc, impressions)' =
           (IF doc.duplex = "simplex" THEN impressions + 1 ELSE Copy' * h + (Page' + 1) \div 2)
  BY <1>2, Zenon DEF SettledSheets, Copy, Page
<1>6. /\ \A y \in sheets : y[1] \in Nat /\ y[2] \in Nat
      /\ \A y \in sheets : y[1] < c \/ (y[1] = c /\ y[2] < Opened)
      /\ doc.duplex # "simplex" /\ g % 2 = 1 => <<c, g \div 2>> \in sheets
  BY DEF MeterInv, SheetsKnown
<1> HIDE DEF p, h, c, g
<1>7. <<c, x>> \in sheets <=> doc.duplex # "simplex" /\ g % 2 = 1
  <2>1. CASE doc.duplex = "simplex" \/ g % 2 # 1
    <3>1. x = Opened
      BY <1>1, <1>4, <2>1, Halves
    <3>2. ASSUME <<c, x>> \in sheets PROVE FALSE
      <4>1. c < c \/ x < Opened
        BY <1>6, <3>2
      <4> QED
        BY <1>1, <1>4, <3>1, <4>1
    <3> QED
      BY <2>1, <3>2
  <2>2. CASE ~(doc.duplex = "simplex" \/ g % 2 # 1)
    BY <1>6, <2>2
  <2> QED
    BY <2>1, <2>2
<1>8. /\ IsFiniteSet(sheets')
      /\ Cardinality(sheets) \in Nat
      /\ Cardinality(sheets') = IF <<c, x>> \in sheets THEN Cardinality(sheets) ELSE Cardinality(sheets) + 1
  BY <1>2, FS_AddElement, FS_CardinalityType DEF MeterInv
<1>9. SettledSheets(doc, impressions)' =
        IF doc.duplex # "simplex" /\ g % 2 = 1
        THEN SettledSheets(doc, impressions) ELSE SettledSheets(doc, impressions) + 1
  <2>1. CASE doc.duplex = "simplex"
    BY <1>1, <1>5, <2>1
  <2>2. CASE doc.duplex # "simplex" /\ ~(g + 1 = p)
    <3>1. Copy' * h + (Page' + 1) \div 2 = c * h + ((g + 1) + 1) \div 2
      BY <1>3, <2>2
    <3>2. c * h \in Nat
      BY <1>1
    <3> QED
      BY <1>1, <1>5, <2>2, <3>1, <3>2, Halves
  <2>3. CASE doc.duplex # "simplex" /\ g + 1 = p
    <3>1. Copy' * h = c * h + h /\ c * h \in Nat
      BY <1>1, <1>3, <2>3
    <3>2. (Page' + 1) \div 2 = 0
      BY <1>3, <2>3
    <3>3. h = ((g + 1) + 1) \div 2
      BY <1>1, <2>3
    <3>4. /\ g % 2 = 1 => h = (g + 1) \div 2
          /\ ~(g % 2 = 1) => h = ((g + 1) \div 2) + 1
      BY <1>1, <3>3, Halves
    <3>5. /\ SettledSheets(doc, impressions) = c * h + (g + 1) \div 2 /\ (g + 1) \div 2 \in Nat
          /\ SettledSheets(doc, impressions)' = (c * h + h) + 0
      BY <1>1, <1>5, <2>3, <3>1, <3>2, Halves
    <3> QED
      BY <1>1, <2>3, <3>1, <3>4, <3>5
  <2> QED
    BY <2>1, <2>2, <2>3
<1>10. /\ \A y \in sheets' : y[1] \in Nat /\ y[2] \in Nat
       /\ \A y \in sheets' : y[1] < Copy' \/ (y[1] = Copy' /\ y[2] < Opened')
  <2>1. ASSUME NEW y \in sheets' PROVE y[1] \in Nat /\ y[2] \in Nat /\ (y[1] < c \/ (y[1] = c /\ y[2] <= x))
    <3>1. CASE y \in sheets
      <4>1. Opened <= x + 1
        BY <1>1, <1>4, Halves
      <4>2. y[1] \in Nat /\ y[2] \in Nat /\ (y[1] < c \/ (y[1] = c /\ y[2] < Opened))
        BY <1>6, <3>1
      <4>3. Opened \in Nat
        BY <1>1, <1>4, Halves
      <4> QED
        BY <1>1, <1>4, <4>1, <4>2, <4>3
    <3>2. CASE y = <<c, x>>
      BY <1>1, <1>4, <3>2
    <3> QED
      BY <1>2, <2>1, <3>1, <3>2
  <2>2. Copy' = c => x < Opened'
    BY <1>1, <1>3, <1>4, Halves
  <2>3. Copy' = c \/ Copy' = c + 1
    BY <1>3
  <2>4. Copy' = c => Opened' \in Nat
    BY <1>1, <1>3, <1>4, Halves
  <2> HIDE DEF x
  <2> QED
    BY <1>1, <1>4, <2>1, <2>2, <2>3, <2>4
<1>11. doc.duplex # "simplex" /\ Page' % 2 = 1 => <<Copy', Page' \div 2>> \in sheets'
  <2>1. ASSUME doc.duplex # "simplex", Page' % 2 = 1
        PROVE  Copy' = c /\ Page' \div 2 = x
    BY <1>1, <1>3, <1>4, <2>1, Halves
  <2> QED
    BY <1>2, <2>1
<1>12. SheetsKnown'
  BY <1>2, <1>10, <1>11 DEF SheetsKnown
<1>13. SettledSheets(doc, impressions)' = Cardinality(sheets')
  BY <1>7, <1>8, <1>9 DEF MeterInv
<1> QED
  BY <1>2, <1>8, <1>10, <1>12, <1>13 DEF MeterInv

LEMMA MeterStart == MeterInit => MeterInv
<1> SUFFICES ASSUME MeterInit PROVE MeterInv
  OBVIOUS
<1>1. doc \in Document /\ impressions = 0 /\ sheets = {}
  BY MeterBounds DEF MeterInit, Document
<1>2. doc.pages \in Nat \ {0} /\ doc.copies \in Nat \ {0}
  BY <1>1, SheetsPerCopyType
<1>3. 0 \div doc.pages = 0 /\ 0 % doc.pages = 0
  <2>1. 0 \in Nat /\ 0 \in 0..(doc.pages - 1) /\ 0 \div doc.pages \in Nat /\ 0 % doc.pages \in 0..(doc.pages - 1)
        /\ doc.pages * 0 + 0 = doc.pages * (0 \div doc.pages) + (0 % doc.pages)
    BY <1>2, DivMod
  <2> QED
    BY <1>2, <2>1, DivModUnique
<1>4. SettledSheets(doc, impressions) = 0
  BY <1>1, <1>3, SheetsPerCopyType DEF SettledSheets
<1>5. IsFiniteSet(sheets) /\ Cardinality(sheets) = 0
  BY <1>1, FS_EmptySet
<1>6. SheetsKnown /\ Countable(doc, impressions)
  BY <1>1, <1>2, <1>3 DEF SheetsKnown, Page, Countable
<1> QED
  BY <1>1, <1>4, <1>5, <1>6 DEF MeterInv

LEMMA MeterStepKeeps == MeterInv /\ [PrintSide]_meterVars => MeterInv'
<1>1. ASSUME MeterInv, UNCHANGED meterVars
      PROVE  MeterInv'
  BY <1>1 DEF meterVars, MeterInv, SheetsKnown, Copy, Page, Opened
<1> QED
  BY <1>1, PrintSideKeeps

LEMMA MeterInvImplies == MeterInv => MeterMatchesPrice
BY ChargeWithinPrice, PagePosition DEF MeterInv, MeterMatchesPrice

(* The meter counts the physical sheets of any document, and charges a     *)
(* complete print exactly the reserved price, a partial one no more.       *)
THEOREM MeterIsExact == MeterSpec => []MeterMatchesPrice
BY MeterStart, MeterStepKeeps, MeterInvImplies, PTL DEF MeterSpec

-----------------------------------------------------------------------------
(* MCServices.  A step of the whole is a step of the component in focus    *)
(* and leaves every other one alone, so that the invariants of the         *)
(* components, conjoined, are inductive for it.                            *)
ServicesInv ==
  /\ AccessTokensInv /\ AvailabilityInv /\ FileStoreInv /\ OutboxInv
  /\ SessionFilesInv /\ PortalConfigInv /\ MeterInv
  /\ CredentialsInv /\ AccountsInv /\ OpsContactsInv /\ StartupInv

ComponentSteps ==
  /\ [AccessTokensNext]_tokenVars /\ [AvailabilityNext]_availVars
  /\ [FileStoreNext]_fileVars /\ [PortalOutboxNext]_outboxVars
  /\ [SessionFilesNext]_sessionVars /\ [PortalConfigNext]_portalVars
  /\ [PrintSide]_meterVars
  /\ [EdgeCredentialsNext]_credentialVars /\ [AccountsNext]_accountVars
  /\ [OpsContactsNext]_contactVars /\ [StartupNext]_startupVars

LEMMA ServicesStep == [ServicesNext]_servicesVars => ComponentSteps
<1>1. ASSUME UNCHANGED servicesVars
      PROVE  ComponentSteps
  BY <1>1 DEF servicesVars, peopleVars, ComponentSteps
<1>2. ASSUME ServicesNext
      PROVE  ComponentSteps
  <2>1. CASE TokensStep
    BY <2>1 DEF TokensStep, peopleVars, ComponentSteps, AccessTokensNext
  <2>2. CASE AvailabilityStep
    BY <2>2 DEF AvailabilityStep, peopleVars, ComponentSteps
  <2>3. CASE FilesStep
    BY <2>3 DEF FilesStep, peopleVars, ComponentSteps
  <2>4. CASE OutboxStep
    BY <2>4 DEF OutboxStep, peopleVars, ComponentSteps
  <2>5. CASE SessionsStep
    BY <2>5 DEF SessionsStep, peopleVars, ComponentSteps
  <2>6. CASE PortalsStep
    BY <2>6 DEF PortalsStep, peopleVars, ComponentSteps, PortalConfigNext
  <2>7. CASE MeterStep
    BY <2>7 DEF MeterStep, peopleVars, ComponentSteps
  <2>8. CASE CredentialsStep
    BY <2>8 DEF CredentialsStep, OtherComponents, ComponentSteps
  <2>9. CASE AccountsStep
    BY <2>9 DEF AccountsStep, OtherComponents, ComponentSteps
  <2>10. CASE ContactsStep
    BY <2>10 DEF ContactsStep, OtherComponents, ComponentSteps
  <2>11. CASE StartupStep
    BY <2>11 DEF StartupStep, OtherComponents, ComponentSteps
  <2> QED
    BY <1>2, <2>1, <2>2, <2>3, <2>4, <2>5, <2>6, <2>7, <2>8, <2>9, <2>10, <2>11
    DEF ServicesNext
<1> QED
  BY <1>1, <1>2

LEMMA ServicesStepKeeps == ServicesInv /\ [ServicesNext]_servicesVars => ServicesInv'
<1> SUFFICES ASSUME ServicesInv, [ServicesNext]_servicesVars
             PROVE  ServicesInv'
  OBVIOUS
<1>1. ComponentSteps
  BY ServicesStep
<1> QED
  BY <1>1, AccessTokensStep, AvailabilityStepKeeps, FileStoreStep, OutboxStepKeeps,
     SessionFilesStep, PortalConfigStep, MeterStepKeeps, CredentialsStepKeeps,
     AccountsStepKeeps, OpsContactsStep, StartupStepInv, Zenon
  DEF ServicesInv, ComponentSteps

LEMMA ServicesStart == ServicesInit => ServicesInv
BY AccessTokensStart, AvailabilityStart, FileStoreStart, OutboxStart, SessionFilesStart,
   PortalConfigStart, MeterStart, CredentialsStart, AccountsStart, OpsContactsStart,
   StartupInitInv, Zenon
DEF ServicesInit, ServicesInv

(* Every component of the run keeps its variables within their types.      *)
THEOREM ServicesTyped == ServicesSpec => []ServicesTypeOK
<1>1. ServicesInv => ServicesTypeOK
  BY DEF ServicesInv, ServicesTypeOK, AccessTokensInv, UploadsInv, AvailabilityInv, FileStoreInv,
     OutboxInv, SessionFilesInv, PortalConfigInv, CredentialsInv, AccountsInv, OpsContactsInv, StartupInv
<1> QED
  BY <1>1, ServicesStart, ServicesStepKeeps, PTL DEF ServicesSpec

(* The invariants of the components hold of the whole run.                 *)
THEOREM ServicesSafe ==
  ServicesSpec => [](/\ UploadTokenHolds /\ HandedTokenStands /\ SyncAlertShown
                     /\ RecentFileServed /\ ObjectsAccountedFor /\ NothingLeftBehind
                     /\ AssignmentsUsable /\ RevisionNotAhead /\ MeterMatchesPrice)
<1>1. ServicesInv =>
        /\ UploadTokenHolds /\ HandedTokenStands /\ SyncAlertShown
        /\ RecentFileServed /\ ObjectsAccountedFor /\ NothingLeftBehind
        /\ AssignmentsUsable /\ RevisionNotAhead /\ MeterMatchesPrice
  BY FileStoreInvImplies, MeterInvImplies
  DEF ServicesInv, AccessTokensInv, UploadsInv, DownloadsInv, AvailabilityInv, SessionFilesInv,
      PortalConfigInv, AssignmentsInv, ContextInv
<1> QED
  BY <1>1, ServicesStart, ServicesStepKeeps, PTL DEF ServicesSpec
=============================================================================
