---------------------------- MODULE PortalOutbox ----------------------------
(***************************************************************************)
(* The notification that a user has logged in at a terminal.  The login    *)
(* transaction leaves an event in portal_session_ready_outbox; the login   *)
(* handler tries to notify the Edge at once and the outbox task of main.go *)
(* does it for whatever is still pending, every five seconds.              *)
(*                                                                         *)
(* Each event is for a node of its own.  An event is due when its          *)
(* next_attempt_at has passed; a claim and a retry move that into the      *)
(* future, and time brings it back.  A notification counts as sent when    *)
(* the node's socket has taken it into its queue.                          *)
(***************************************************************************)
EXTENDS Naturals

CONSTANTS
  Events,
  MaxFaults,   \* bound: failing updates and restarts
  Nobody

ASSUME PortalOutboxAssumption == MaxFaults \in Nat /\ Nobody \notin Events

VARIABLES
  event,     \* status of each event's row
  due,       \* events whose next_attempt_at has passed
  batch,     \* events due at the time of the running pass
  task,      \* where the outbox task stands, and the event it has claimed
  login,     \* where the login handler of each event stands
  online,    \* nodes (events) whose socket is in the table
  notified,  \* history: events a socket has taken
  faults

outboxVars == <<event, due, batch, task, login, online, notified, faults>>

Between == [stage |-> "waiting", claimed |-> Nobody]
Passing == [stage |-> "passing", claimed |-> Nobody]

PortalOutboxTypeOK ==
  /\ event \in [Events -> {"none", "pending", "delivered"}]
  /\ due \subseteq Events /\ batch \subseteq Events
  /\ online \subseteq Events /\ notified \subseteq Events
  /\ task \in [stage : {"waiting", "passing", "claimed", "sent"},
               claimed : Events \cup {Nobody}]
  /\ login \in [Events -> {"none", "committed", "sent", "over"}]
  /\ faults \in 0..MaxFaults

PortalOutboxInit ==
  /\ event = [e \in Events |-> "none"]
  /\ due = {} /\ batch = {} /\ online = {} /\ notified = {}
  /\ task = Between
  /\ login = [e \in Events |-> "none"]
  /\ faults = 0

-----------------------------------------------------------------------------
(* The last statement of the login's transaction (EnqueueTx).              *)
EnqueueEvent(e) ==
  /\ event[e] = "none"
  /\ event' = [event EXCEPT ![e] = "pending"]
  /\ due' = due \cup {e}
  /\ login' = [login EXCEPT ![e] = "committed"]
  /\ UNCHANGED <<batch, task, online, notified, faults>>

(* CompleteLogin after the commit: without a socket the answer is          *)
(* "notification pending".                                                 *)
NotifyAtLogin(e) ==
  /\ login[e] = "committed"
  /\ login' = [login EXCEPT ![e] = IF e \in online THEN "sent" ELSE "over"]
  /\ notified' = IF e \in online THEN notified \cup {e} ELSE notified
  /\ UNCHANGED <<event, due, batch, task, online, faults>>

Delivered(e, ok) ==
  /\ ok \/ faults < MaxFaults
  /\ faults' = IF ok THEN faults ELSE faults + 1
  /\ event' = IF ok THEN [event EXCEPT ![e] = "delivered"] ELSE event

MarkAtLogin(e, ok) ==
  /\ login[e] = "sent"
  /\ Delivered(e, ok)
  /\ login' = [login EXCEPT ![e] = "over"]
  /\ UNCHANGED <<due, batch, task, online, notified>>

-----------------------------------------------------------------------------
(* The task: `now` is the time of the tick for the whole pass, so an event *)
(* is claimed at most once in it.                                          *)
StartPass ==
  /\ task = Between
  /\ task' = Passing
  /\ batch' = due
  /\ UNCHANGED <<event, due, login, online, notified, faults>>

(* Mutant: the claim already marks the event delivered.                    *)
ClaimDue_Marks(e) ==
  /\ task = Passing
  /\ e \in batch /\ event[e] = "pending"
  /\ batch' = batch \ {e}
  /\ due' = due \ {e}
  /\ event' = [event EXCEPT ![e] = "delivered"]
  /\ task' = [stage |-> "claimed", claimed |-> e]
  /\ UNCHANGED <<login, online, notified, faults>>

(* ClaimDue: the event is leased for five minutes.                         *)
ClaimDue(e) ==
  /\ task = Passing
  /\ e \in batch /\ event[e] = "pending"
  /\ batch' = batch \ {e}
  /\ due' = due \ {e}
  /\ task' = [stage |-> "claimed", claimed |-> e]
  /\ UNCHANGED <<event, login, online, notified, faults>>

EndPass ==
  /\ task = Passing
  /\ \A e \in batch : event[e] # "pending"
  /\ task' = Between
  /\ UNCHANGED <<event, due, batch, login, online, notified, faults>>

(* A failing ClaimDue ends the pass; the events stay due.                  *)
ClaimFails ==
  /\ task = Passing /\ faults < MaxFaults
  /\ task' = Between
  /\ faults' = faults + 1
  /\ UNCHANGED <<event, due, batch, login, online, notified>>

(* IsNodeConnected and DispatchPortalSessionReady; Retry sets a delay of 1 *)
(* to 256 s, and if it fails the lease still stands.                       *)
NotifyClaimed ==
  /\ task.stage = "claimed"
  /\ IF task.claimed \in online
     THEN /\ notified' = notified \cup {task.claimed}
          /\ task' = [task EXCEPT !.stage = "sent"]
     ELSE /\ task' = Passing
          /\ UNCHANGED notified
  /\ UNCHANGED <<event, due, batch, login, online, faults>>

MarkClaimed(ok) ==
  /\ task.stage = "sent"
  /\ Delivered(task.claimed, ok)
  /\ task' = Passing
  /\ UNCHANGED <<due, batch, login, online, notified>>

-----------------------------------------------------------------------------
BecomesDue(e) ==
  /\ event[e] = "pending" /\ e \notin due
  /\ due' = due \cup {e}
  /\ UNCHANGED <<event, batch, task, login, online, notified, faults>>

NodeConnects(e) ==
  /\ online' = IF e \in online THEN online \ {e} ELSE online \cup {e}
  /\ UNCHANGED <<event, due, batch, task, login, notified, faults>>

(* The server restarts: its sockets, its handlers and the task are gone.   *)
RestartOutbox ==
  /\ faults < MaxFaults
  /\ faults' = faults + 1
  /\ task' = Between
  /\ batch' = {} /\ online' = {}
  /\ login' = [e \in Events |-> IF login[e] = "none" THEN "none" ELSE "over"]
  /\ UNCHANGED <<event, due, notified>>

OutboxTask == StartPass \/ (\E e \in Events : ClaimDue(e)) \/ EndPass \/ NotifyClaimed \/ MarkClaimed(TRUE)

PortalOutboxNext ==
  \/ \E e \in Events : EnqueueEvent(e) \/ NotifyAtLogin(e) \/ BecomesDue(e) \/ NodeConnects(e)
  \/ \E e \in Events, ok \in BOOLEAN : MarkAtLogin(e, ok)
  \/ StartPass \/ EndPass \/ ClaimFails \/ NotifyClaimed \/ RestartOutbox
  \/ \E e \in Events : ClaimDue(e)
  \/ \E ok \in BOOLEAN : MarkClaimed(ok)

(* The task runs, time passes.                                             *)
OutboxFairness == WF_outboxVars(OutboxTask) /\ \A e \in Events : WF_outboxVars(BecomesDue(e))

PortalOutboxSpec == PortalOutboxInit /\ [][PortalOutboxNext]_outboxVars /\ OutboxFairness

-----------------------------------------------------------------------------
(* A node whose socket stays up in the end is notified of every login,     *)
(* whatever stopped between the commit, the notice and its record: the     *)
(* event remains pending until a socket has taken the notice.  It is said  *)
(* of one login among the others; the module treats all of them alike.     *)
LoginReachesEdge ==
  LET e == CHOOSE v \in Events : TRUE
  IN <>[](e \in online) => (event[e] = "pending" ~> e \in notified)
=============================================================================
