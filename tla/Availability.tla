---------------------------- MODULE Availability ----------------------------
(***************************************************************************)
(* What the Cloud believes about one Edge node and its printer, and the    *)
(* alerts it keeps open for them: operations/status_service.go with the    *)
(* alert coordinator, and the queries over the node, printer and alert     *)
(* rows.                                                                   *)
(*                                                                         *)
(* Time is kept as ages.  The last heartbeat is "fresh" (at most 30 s      *)
(* old), "late" or "silent" (90 s and more); the last printer status is    *)
(* either at most 90 s old or `overdue`.  The sweep reads the list of      *)
(* nodes first and writes each node in a transaction of its own, so that a *)
(* heartbeat, a snapshot or a deletion may come between.                   *)
(*                                                                         *)
(* Of the alert policies one of each kind is kept: "sync" and "disk" of    *)
(* the node, "ipp" (connection scoped, opened after a delay) and "lock"    *)
(* (an unconfirmed job) of the printer.                                    *)
(***************************************************************************)
EXTENDS Naturals, FiniteSets

VARIABLES
  edge,     \* the node's row
  device,   \* the printer's row
  alerts,   \* open alerts
  listing   \* what a running sweep has read of the node, or NotListed

availVars == <<edge, device, alerts, listing>>

Ages == {"fresh", "late", "silent"}
NodeReasons == {"sync", "disk"}
PrinterReasons == {"ipp", "lock"}
Observed == {"idle", "ipp"}
NotListed == [connection |-> "none", enabled |-> FALSE, interrupted |-> FALSE]

AvailabilityTypeOK ==
  /\ edge \in [live : BOOLEAN, enabled : BOOLEAN,
               status : {"online", "unstable", "offline"},
               reason : {"none"} \cup NodeReasons,
               beat : Ages, overdue : BOOLEAN]
  /\ device \in [live : BOOLEAN, enabled : BOOLEAN]
  /\ alerts \subseteq NodeReasons \cup PrinterReasons
  /\ listing \in [connection : {"none", "online", "unstable", "offline"},
                  enabled : BOOLEAN, interrupted : BOOLEAN]

(* A node and a printer just registered.                                   *)
AvailabilityInit ==
  /\ edge = [live |-> TRUE, enabled |-> TRUE, status |-> "offline",
             reason |-> "none", beat |-> "fresh", overdue |-> FALSE]
  /\ device = [live |-> TRUE, enabled |-> TRUE]
  /\ alerts = {}
  /\ listing = NotListed

(* Time passes: no heartbeat, no printer status.                           *)
Older(age) == IF age = "fresh" THEN "late" ELSE "silent"

AgeHeartbeat ==
  /\ edge.beat # "silent"
  /\ edge' = [edge EXCEPT !.beat = Older(@)]
  /\ UNCHANGED <<device, alerts, listing>>

AgePrinterStatus ==
  /\ ~edge.overdue
  /\ edge' = [edge EXCEPT !.overdue = TRUE]
  /\ UNCHANGED <<device, alerts, listing>>

-----------------------------------------------------------------------------
(* Mutant: the heartbeat's own health overwrites an interrupted sync.      *)
Health_Overwrites(reason, load) == IF load THEN "disk" ELSE "none"

(* Mutant: the printer's last status counts as the node's health.          *)
Health_OfPrinter(reason, load) == IF reason = "sync" THEN "sync"
                                  ELSE IF load THEN "ipp" ELSE "none"

(* An interrupted printer sync outranks what the heartbeat reports.        *)
Health(reason, load) == IF reason = "sync" THEN "sync"
                        ELSE IF load THEN "disk" ELSE "none"

(* ApplyHeartbeat: the row only if it is not deleted, the alerts in any    *)
(* case (the deletion may come after handleMessage has found the node); a  *)
(* disabled node has no load alert.                                        *)
ApplyHeartbeat(load) ==
  /\ edge' = IF ~edge.live THEN edge
             ELSE [edge EXCEPT !.status = "online", !.beat = "fresh",
                               !.reason = Health(edge.reason, load)]
  /\ alerts' = IF load /\ edge.enabled THEN alerts \cup {"disk"} ELSE alerts \ {"disk"}
  /\ UNCHANGED <<device, listing>>

(* MarkUnstable: the node's socket is gone.                                *)
MarkUnstable ==
  /\ edge.live /\ edge.status = "online"
  /\ edge' = [edge EXCEPT !.status = "unstable"]
  /\ UNCHANGED <<device, alerts, listing>>

(* ReconcilePrinter: every other open alert of the printer is resolved,    *)
(* the one for the reported status opened once its delay has passed.       *)
Reconciled(status, enabled, ready) ==
  LET active == IF status = "ipp" /\ enabled THEN {"ipp"} ELSE {}
  IN (alerts \ (PrinterReasons \ active)) \cup (IF ready THEN active ELSE {})

(* ApplyPrinterSnapshot: a status ends the interruption of the sync.       *)
ApplyPrinterSnapshot(status, ready) ==
  /\ device.live
  /\ edge' = [edge EXCEPT !.overdue = FALSE,
                          !.reason = IF @ = "sync" THEN "none" ELSE @]
  /\ alerts' = Reconciled(status, device.enabled /\ edge.enabled, ready) \ {"sync"}
  /\ UNCHANGED <<device, listing>>

(* OpenPrinterUnconfirmed: a job's result stays unknown.  It is opened for *)
(* a deleted printer as well.                                              *)
OpenPrinterUnconfirmed ==
  /\ alerts' = alerts \cup {"lock"}
  /\ UNCHANGED <<edge, device, listing>>

-----------------------------------------------------------------------------
(* Mutant: "unstable" is tested before the age of the heartbeat.           *)
Connection_UnstableFirst(status, beat) ==
  IF status = "unstable" \/ beat = "late" THEN "unstable"
  ELSE IF beat = "silent" THEN "offline" ELSE "online"

Connection(status, beat) ==
  IF beat = "silent" THEN "offline"
  ELSE IF beat = "late" \/ status = "unstable" THEN "unstable" ELSE "online"

(* Sweep, first half: the list of nodes is read and judged.                *)
SweepList ==
  /\ listing = NotListed
  /\ edge.live
  /\ LET connection == Connection(edge.status, edge.beat)
     IN listing' = [connection |-> connection, enabled |-> edge.enabled,
                    interrupted |-> /\ connection = "online"
                                    /\ edge.enabled /\ device.live /\ edge.overdue]
  /\ UNCHANGED <<edge, device, alerts>>

(* Second half: the verdict is written, whatever the row has become.  An   *)
(* offline node has no health and no connection alerts of its printers; an *)
(* online node whose sync is interrupted gets the alert and the health.    *)
SweptReason ==
  IF listing.connection = "offline" THEN "none"
  ELSE IF listing.interrupted THEN "sync"
  ELSE IF listing.connection = "online" /\ edge.reason = "sync" THEN "none"
  ELSE edge.reason

SweepNode ==
  /\ listing # NotListed
  /\ edge' = [edge EXCEPT !.status = listing.connection, !.reason = SweptReason]
  /\ alerts' =
       (alerts \ ({"sync"} \cup IF listing.connection = "offline" /\ listing.enabled
                                THEN {"ipp"} ELSE {}))
       \cup (IF listing.interrupted THEN {"sync"} ELSE {})
  /\ listing' = NotListed
  /\ UNCHANGED <<device>>

(* CheckAndUpdateOfflineNodes, which the node list of the Admin console    *)
(* calls: an online node that has been silent (here, for three minutes).   *)
CheckAndUpdateOfflineNodes ==
  /\ edge.live /\ edge.status = "online" /\ edge.beat = "silent"
  /\ edge' = [edge EXCEPT !.status = "offline"]
  /\ UNCHANGED <<device, alerts, listing>>

-----------------------------------------------------------------------------
(* The administrator's switches and the deletions.                         *)
SetNodeEnabled(enabled) ==
  /\ edge.live
  /\ edge' = [edge EXCEPT !.enabled = enabled]
  /\ UNCHANGED <<device, alerts, listing>>

(* UpdatePrinter; open alerts of the printer stay until its next snapshot. *)
UpdatePrinter(enabled) ==
  /\ device.live
  /\ device' = [device EXCEPT !.enabled = enabled]
  /\ UNCHANGED <<edge, alerts, listing>>

(* DeletePrinter and its alerts; the Edge's own deletion leaves the alerts *)
(* to CleanupOrphaned.                                                     *)
DeletePrinterRow(byEdge) ==
  /\ device.live
  /\ device' = [device EXCEPT !.live = FALSE]
  /\ alerts' = IF byEdge THEN alerts ELSE alerts \ PrinterReasons
  /\ UNCHANGED <<edge, listing>>

(* DeleteForNodeTx and the soft deletes, in one transaction.               *)
DeleteNodeRow ==
  /\ edge.live
  /\ edge' = [edge EXCEPT !.live = FALSE]
  /\ device' = [device EXCEPT !.live = FALSE]
  /\ alerts' = {}
  /\ UNCHANGED <<listing>>

(* Mutant: only rows that are gone count as deleted, so that the soft      *)
(* deleted owners keep their alerts.                                       *)
Orphans_RowGone == {}

(* CleanupOrphaned, daily: alerts of a deleted node or printer.            *)
Orphans == (IF edge.live THEN {} ELSE NodeReasons \cup PrinterReasons)
           \cup (IF device.live THEN {} ELSE PrinterReasons)

CleanupOrphaned ==
  /\ alerts \cap Orphans # {}
  /\ alerts' = alerts \ Orphans
  /\ UNCHANGED <<edge, device, listing>>

AvailabilityNext ==
  \/ AgeHeartbeat \/ AgePrinterStatus
  \/ \E load \in BOOLEAN : ApplyHeartbeat(load)
  \/ MarkUnstable
  \/ \E status \in Observed, ready \in BOOLEAN : ApplyPrinterSnapshot(status, ready)
  \/ OpenPrinterUnconfirmed
  \/ SweepList \/ SweepNode
  \/ CheckAndUpdateOfflineNodes
  \/ \E enabled \in BOOLEAN : SetNodeEnabled(enabled) \/ UpdatePrinter(enabled)
  \/ \E byEdge \in BOOLEAN : DeletePrinterRow(byEdge)
  \/ DeleteNodeRow
  \/ CleanupOrphaned

(* The sweep and the daily cleanup run on tickers of the server.           *)
AvailabilityFairness ==
  /\ WF_availVars(SweepList)
  /\ WF_availVars(SweepNode)
  /\ WF_availVars(CleanupOrphaned)

AvailabilitySpec ==
  AvailabilityInit /\ [][AvailabilityNext]_availVars /\ AvailabilityFairness

-----------------------------------------------------------------------------
(* An open alert about interrupted status sync is shown as the node's      *)
(* health, and nothing that runs between the list and the write of a sweep *)
(* takes the health away and leaves the alert.                             *)
SyncAlertShown == "sync" \in alerts => edge.reason = "sync"

(* A node that stays silent is offline in the end, also when its socket's  *)
(* end had marked it unstable and whatever an older sweep still writes.    *)
SilentGoesOffline ==
  (edge.live /\ edge.beat = "silent") ~>
    (edge.status = "offline" \/ edge.beat # "silent" \/ ~edge.live)

(* A late heartbeat, sweep or job result opens alerts of a node or printer *)
(* that is already deleted; they are removed again in the end.             *)
OwnerDeleted(a) == IF a \in NodeReasons THEN ~edge.live ELSE ~device.live

OrphansRemoved ==
  (\E a \in alerts : OwnerDeleted(a)) ~> (\A a \in alerts : ~OwnerDeleted(a))
=============================================================================
