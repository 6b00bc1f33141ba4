-------------------------- MODULE DispatchPromise ---------------------------
(***************************************************************************)
(* What the dispatch of print jobs promises, without sockets, queues,      *)
(* acknowledgements or retries: the Cloud calls a job dispatched only when *)
(* the Edge node has it, calls it doubtful only while nothing is known of  *)
(* it, and never reopens a job whose outcome is recorded.  EdgeLink is     *)
(* shown to implement this module.                                         *)
(***************************************************************************)

CONSTANT Jobs     \* print job ids

VARIABLES
  jobs,           \* status of the job row; a failed job carries its reason
  inbox           \* the jobs the Edge node has taken in

Queued   == {"pending", "dispatched"}
Failures == {"failed", "undelivered", "rejected"}
Closed   == {"completed"} \cup Failures
Open     == Queued \cup {"processing", "unconfirmed"}
Statuses == Open \cup Closed \cup {"absent"}

Init ==
  /\ jobs = [j \in Jobs |-> "absent"]
  /\ inbox = {}

Move(j, from, to) ==
  /\ jobs[j] \in from
  /\ jobs' = [jobs EXCEPT ![j] = to]
  /\ UNCHANGED inbox

Create(j) == Move(j, {"absent"}, "pending")

(* A job reaches the Edge late, more than once, or after it was settled.   *)
Deliver(j) ==
  /\ jobs[j] # "absent"
  /\ inbox' = inbox \cup {j}
  /\ UNCHANGED jobs

Acknowledge(j) == j \in inbox /\ Move(j, {"pending"}, "dispatched")
Doubt(j)       == Move(j, {"pending"}, "unconfirmed")

(* The dispatch failed, the Edge says so, or the node was deleted.         *)
Fail(j, why) == Move(j, Open, why)

(* What the Edge says of a job it has.                                     *)
Report(j, status) == j \in inbox /\ Move(j, Open, status)

Next ==
  \E j \in Jobs :
    \/ Create(j) \/ Deliver(j) \/ Acknowledge(j) \/ Doubt(j)
    \/ \E why \in Failures : Fail(j, why)
    \/ \E status \in {"processing", "completed"} : Report(j, status)

Spec == Init /\ [][Next]_<<jobs, inbox>>
=============================================================================
