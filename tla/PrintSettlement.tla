-------------------------- MODULE PrintSettlement ---------------------------
(***************************************************************************)
(* The life of a print job row and of the quota it reserves.               *)
(*                                                                         *)
(* Every database transaction that changes a job takes the job's row lock  *)
(* (SELECT ... FOR UPDATE, or a guarded UPDATE) and holds it to its commit,*)
(* so a transaction is one step here.  What is NOT one step is modelled as *)
(* separate steps: a handler that reads before its transaction begins, the *)
(* receipt lookup that precedes the row lock, the maintenance tasks that   *)
(* list jobs first and settle them one by one later, and a dispatch whose  *)
(* outcome is recorded long after the job was read.  A restart of the      *)
(* server may fall between any two steps.                                  *)
(***************************************************************************)
EXTENDS PrintQuota, Sequences, FiniteSets

CONSTANTS
  Users,          \* portal accounts that hold quota
  Nodes,          \* Edge nodes
  Printers,       \* printers
  NodeOf,         \* the node a printer belongs to
  Jobs,           \* job ids; a portal job's id stands for its (node, confirmation_id)
  Documents,      \* the print settings users ask for
  Events,         \* event ids of terminal reports
  Reports,        \* the job_update messages the Edge may send, each any number of times
  Tasks,          \* maintenance tasks that run: stale job cleanup, sweep, lifecycle settlement
  Handlers,       \* message handlers that may run at once (read loops of old and new sockets)
  InitialQuota,   \* the initial_grant of a portal account
  GrantAmounts,   \* amounts an administrator grants
  MaxGrants,      \* bound: grants per user
  MaxDispatches,  \* bound: dispatches of one job in flight at once
  Faults,         \* what goes wrong: a failed read, a failed transaction, a restart
  None            \* no user, printer, document, job or report

Queued    == {"pending", "dispatched"}
Active    == Queued \cup {"processing"}
Closed    == {"completed", "failed", "canceled"}
Terminal  == Closed \cup {"unconfirmed"}
Statuses  == Active \cup Terminal

(* error_code: the two codes of a recoverable uncertainty, no code, and    *)
(* any other one ("other": dispatch_failed, printer_disabled, ...).        *)
Codes == {"", "dispatch_ack_timeout", "print_timeout_unconfirmed", "other"}

Unset == -1       \* SQL NULL in a usage column

Report == [event: Events, node: Nodes, job: Jobs,
           status: Terminal \cup {"processing"}, code: Codes,
           impressions: Nat, consumed: Nat]

ASSUME ModelConstants ==
  /\ NodeOf \in [Printers -> Nodes]
  /\ Documents \subseteq Document
  /\ Reports \subseteq Report
  /\ Tasks \subseteq {"cleanup", "sweep", "lifecycle"}
  /\ InitialQuota \in Nat
  /\ GrantAmounts \subseteq Nat \ {0}
  /\ MaxGrants \in Nat /\ MaxDispatches \in Nat
  /\ Faults \subseteq {"read", "write", "restart"}
  /\ None \notin Users /\ None \notin Printers /\ None \notin Jobs
  /\ None \notin Documents /\ None \notin Reports

VARIABLES
  jobs,        \* print_jobs: the row of a created job, NoRow before
  balance,     \* users.print_quota_balance
  ledger,      \* print_quota_transactions of each user, in commit order
  receipts,    \* edge_job_update_receipts: the report recorded for an event id
  deleted,     \* printers with deleted_at set
  lockAlerts,  \* printers with an open printer_unconfirmed_lock alert
  handler,     \* the message handlers: what each has read so far
  verdict,     \* the last job_update_ack sent for each report
  listed,      \* the jobs each maintenance task has listed and not yet settled
  dispatches   \* dispatches of each job whose outcome is not yet recorded

stored  == <<jobs, balance, ledger, receipts, deleted, lockAlerts>>
running == <<handler, verdict, listed, dispatches>>
vars    == <<stored, running>>

Row == [status: Statuses, code: Codes, owner: Users \cup {None}, printer: Printers,
        doc: Documents \cup {None}, reserved: Nat,
        consumed: Nat \cup {Unset}, impressions: Nat \cup {Unset}]

NoRow == [status |-> "absent", code |-> "", owner |-> None, printer |-> None,
          doc |-> None, reserved |-> 0, consumed |-> Unset, impressions |-> Unset]

LedgerRow == [kind: {"initial_grant", "admin_grant",
                     "authorization_reserve", "settlement_refund"},
              job: Jobs \cup {None}, delta: Int, after: Nat]

Idle == [stage |-> "idle", report |-> None]

Exists(j)    == jobs[j].status # "absent"
Metered(row) == row.reserved > 0
Charged(row) == IF row.consumed = Unset THEN 0 ELSE row.consumed

Init ==
  /\ jobs = [j \in Jobs |-> NoRow]
  /\ balance = [u \in Users |-> InitialQuota]
  /\ ledger = [u \in Users |-> <<[kind |-> "initial_grant", job |-> None,
                                  delta |-> InitialQuota, after |-> InitialQuota]>>]
  /\ receipts = [e \in Events |-> None]
  /\ deleted = {}
  /\ lockAlerts = {}
  /\ handler = [h \in Handlers |-> Idle]
  /\ verdict = [r \in Reports |-> "none"]
  /\ listed = [t \in Tasks |-> {}]
  /\ dispatches = [j \in Jobs |-> 0]

-----------------------------------------------------------------------------
(* Quota: one transaction changes the balance and appends to the ledger.   *)

(* Mutant: balance_after is the balance before the change.                 *)
Post_StaleBalance(u, kind, j, delta) ==
  /\ balance' = [balance EXCEPT ![u] = @ + delta]
  /\ ledger' = [ledger EXCEPT ![u] = Append(@, [kind |-> kind, job |-> j,
                                                delta |-> delta, after |-> balance[u]])]

Post(u, kind, j, delta) ==
  /\ balance' = [balance EXCEPT ![u] = @ + delta]
  /\ ledger' = [ledger EXCEPT ![u] = Append(@, [kind |-> kind, job |-> j,
                                                delta |-> delta, after |-> balance[u] + delta])]

Refund(j, amount) ==
  IF amount > 0
  THEN Post(jobs[j].owner, "settlement_refund", j, amount)
  ELSE UNCHANGED <<balance, ledger>>

GrantCount(u) == Cardinality({i \in DOMAIN ledger[u] : ledger[u][i].kind = "admin_grant"})

Grant(u, amount) ==
  /\ GrantCount(u) < MaxGrants
  /\ Post(u, "admin_grant", None, amount)
  /\ UNCHANGED <<jobs, receipts, deleted, lockAlerts, running>>

(* Mutant: a repeated confirmation reserves again.                         *)
Reservable_Repeated(j, u, p, d) ==
  p \notin deleted /\ balance[u] >= QuotaUsage(d)

(* Mutant: the balance is not compared with the price.                     *)
Reservable_Overdraft(j, u, p, d) == ~Exists(j) /\ p \notin deleted

Reservable(j, u, p, d) ==
  /\ ~Exists(j)
  /\ p \notin deleted
  /\ balance[u] >= QuotaUsage(d)

(* A new authorization.  The session, user, printer and availability       *)
(* checks hold or the handler answers an error and changes nothing; they   *)
(* are left open here except the printer's deletion, which is final.  A    *)
(* repeated confirmation finds its row (Exists) and changes nothing.       *)
Authorize(j, u, p, d) ==
  /\ Reservable(j, u, p, d)
  /\ jobs' = [jobs EXCEPT ![j] =
       [status |-> "pending", code |-> "", owner |-> u, printer |-> p, doc |-> d,
        reserved |-> QuotaUsage(d), consumed |-> Unset, impressions |-> Unset]]
  /\ Post(u, "authorization_reserve", j, -QuotaUsage(d))
  /\ UNCHANGED <<receipts, deleted, lockAlerts, running>>

(* A job without quota, created by submit_print_params.  The printer was   *)
(* read before the insert, so it may have been deleted in between.         *)
SubmitPrintParams(j, p) ==
  /\ ~Exists(j)
  /\ jobs' = [jobs EXCEPT ![j] =
       [status |-> "pending", code |-> "", owner |-> None, printer |-> p, doc |-> None,
        reserved |-> 0, consumed |-> Unset, impressions |-> Unset]]
  /\ UNCHANGED <<balance, ledger, receipts, deleted, lockAlerts, running>>

-----------------------------------------------------------------------------
(* The two transactions that move a job.                                   *)

Supersedable(row) ==
  /\ row.status = "unconfirmed"
  /\ row.code \in {"", "dispatch_ack_timeout", "print_timeout_unconfirmed"}

(* Mutant: a failed job may still be moved, say by a late printed result.  *)
Immutable_FailedReopens(row) ==
  \/ row.status \in {"completed", "canceled"}
  \/ row.status = "unconfirmed" /\ ~Supersedable(row)

Immutable(row) ==
  \/ row.status \in Closed
  \/ row.status = "unconfirmed" /\ ~Supersedable(row)

Moved(row, status, code) == [row EXCEPT !.status = status, !.code = code]

(* OpenPrinterUnconfirmed, in the same transaction.                        *)
RaiseLockAlert(j, status) ==
  lockAlerts' = IF status = "unconfirmed" THEN lockAlerts \cup {jobs[j].printer}
                                          ELSE lockAlerts

(* Mutant: a failure returns the whole price but forgets what it refunds.  *)
ApplyJobResult_NoRefund(j, status, code) ==
  IF Immutable(jobs[j])
  THEN UNCHANGED <<jobs, balance, ledger, lockAlerts>>
  ELSE /\ jobs' = [jobs EXCEPT ![j] = Moved(@, status, code)]
       /\ RaiseLockAlert(j, status)
       /\ UNCHANGED <<balance, ledger>>

ApplyJobResult(j, status, code) ==
  IF Immutable(jobs[j])
  THEN UNCHANGED <<jobs, balance, ledger, lockAlerts>>
  ELSE /\ jobs' = [jobs EXCEPT ![j] =
                      Moved(@, status, IF status \in {"processing", "completed"}
                                       THEN "" ELSE code)]
       /\ IF status \in {"failed", "canceled"}
          THEN Refund(j, jobs[j].reserved - Charged(jobs[j]))
          ELSE UNCHANGED <<balance, ledger>>
       /\ RaiseLockAlert(j, status)

-----------------------------------------------------------------------------
(* handleJobUpdate.  The handler reads the job and its printer first.      *)

Owned(r) ==
  /\ Exists(r.job)
  /\ jobs[r.job].printer \notin deleted
  /\ NodeOf[jobs[r.job].printer] = r.node

(* What the handler answers is kept per report; processing gets no answer. *)
Answer(h, answer) ==
  /\ handler' = [handler EXCEPT ![h] = Idle]
  /\ verdict' = [verdict EXCEPT ![handler[h].report] = answer]

(* Unknown job, deleted printer or another node's job; a failed read is    *)
(* answered the same way.                                                  *)
RefuseUnowned(h, r) ==
  /\ handler[h] = Idle
  /\ r.status \in Terminal
  /\ ~Owned(r) \/ "read" \in Faults
  /\ verdict' = [verdict EXCEPT ![r] = "rejected"]
  /\ UNCHANGED <<stored, handler, listed, dispatches>>

(* A processing report for what the handler sees as a final job is dropped;*)
(* this test is stricter than Immutable and is made before the row lock.   *)
SeenFinal(row) ==
  \/ row.status \in Closed
  \/ /\ row.status = "unconfirmed"
     /\ row.code \notin {"dispatch_ack_timeout", "print_timeout_unconfirmed"}

Receive(h, r) ==
  /\ handler[h] = Idle
  /\ Owned(r)
  /\ r.status = "processing" => ~SeenFinal(jobs[r.job])
  /\ handler' = [handler EXCEPT ![h] = [stage |-> "received", report |-> r]]
  /\ UNCHANGED <<stored, verdict, listed, dispatches>>

ApplyProcessing(h) ==
  LET r == handler[h].report
  IN  /\ handler[h].stage = "received"
      /\ r.status = "processing"
      /\ ApplyJobResult(r.job, "processing", r.code)
      /\ handler' = [handler EXCEPT ![h] = Idle]
      /\ UNCHANGED <<receipts, deleted, verdict, listed, dispatches>>

(* ApplyTerminalJobUpdate, first read: the receipt, before any row lock.   *)

(* Mutant: the lookup takes any earlier event for a conflict.              *)
Matches_EventOnly(receipt, r) == receipt = r /\ receipt.status = "unconfirmed"

Matches(receipt, r) == receipt = r

AnswerFromReceipt(h) ==
  LET r == handler[h].report
  IN  /\ handler[h].stage = "received"
      /\ r.status \in Terminal
      /\ receipts[r.event] # None
      /\ Answer(h, IF Matches(receipts[r.event], r) THEN "accepted" ELSE "rejected")
      /\ UNCHANGED <<stored, listed, dispatches>>

FindNoReceipt(h) ==
  LET r == handler[h].report
  IN  /\ handler[h].stage = "received"
      /\ r.status \in Terminal
      /\ receipts[r.event] = None
      /\ handler' = [handler EXCEPT ![h] = [stage |-> "unreceipted", report |-> r]]
      /\ UNCHANGED <<stored, verdict, listed, dispatches>>

(* The rest of the transaction, under the row lock of the job.             *)
ValidUsage(row, r) ==
  /\ Countable(row.doc, r.impressions)
  /\ r.consumed = SettledQuotaUsage(row.doc, r.impressions)
  /\ r.status = "completed" => r.consumed = row.reserved
  /\ r.consumed <= row.reserved

(* A result for a job that already has a final one must repeat it.         *)
Disputed(row, r) ==
  \/ row.status # r.status
  \/ /\ Metered(row) /\ row.status # "unconfirmed"
     /\ \/ row.consumed = Unset
        \/ row.impressions # r.impressions
        \/ row.consumed # r.consumed

Refused(row, r) ==
  IF Immutable(row) THEN Disputed(row, r)
  ELSE Metered(row) /\ r.status # "unconfirmed" /\ ~ValidUsage(row, r)

RejectReport(h) ==
  /\ handler[h].stage = "unreceipted"
  /\ Refused(jobs[handler[h].report.job], handler[h].report)
  /\ Answer(h, "rejected")
  /\ UNCHANGED <<stored, listed, dispatches>>

MeteredResult(row, r) == Metered(row) /\ r.status # "unconfirmed"

SettledRow(row, r) ==
  [row EXCEPT !.status = r.status,
              !.code = IF r.status = "completed" THEN "" ELSE r.code,
              !.consumed = IF MeteredResult(row, r) THEN r.consumed ELSE @,
              !.impressions = IF MeteredResult(row, r) THEN r.impressions ELSE @]

(* The receipt's primary key is checked at the insert: a receipt that      *)
(* another handler committed since the lookup fails the whole transaction, *)
(* and the report stays unanswered (Abandon).                              *)
AcceptReport(h) ==
  LET r   == handler[h].report
      row == jobs[r.job]
  IN  /\ handler[h].stage = "unreceipted"
      /\ ~Refused(row, r)
      /\ receipts[r.event] = None
      /\ receipts' = [receipts EXCEPT ![r.event] = r]
      /\ IF Immutable(row)
         THEN UNCHANGED <<jobs, balance, ledger, lockAlerts>>
         ELSE /\ jobs' = [jobs EXCEPT ![r.job] = SettledRow(row, r)]
              /\ IF MeteredResult(row, r)
                 THEN Refund(r.job, row.reserved - r.consumed)
                 ELSE UNCHANGED <<balance, ledger>>
              /\ RaiseLockAlert(r.job, r.status)
      /\ Answer(h, "accepted")
      /\ UNCHANGED <<deleted, listed, dispatches>>

(* A database error, or a receipt committed since the lookup: the handler  *)
(* logs it, the transaction is rolled back and the Edge gets no answer.    *)
Abandon(h) ==
  LET r == handler[h].report
  IN  /\ handler[h] # Idle
      /\ "write" \in Faults \/ (handler[h].stage = "unreceipted" /\ receipts[r.event] # None
                    /\ ~Refused(jobs[r.job], r))
      /\ handler' = [handler EXCEPT ![h] = Idle]
      /\ UNCHANGED <<stored, verdict, listed, dispatches>>

-----------------------------------------------------------------------------
(* Dispatch outcomes (websocket/print_job_dispatch.go).  A dispatch starts *)
(* from a job read as pending or dispatched: when it was created, or when  *)
(* its node reconnects.                                                    *)

StartDispatch(j) ==
  /\ jobs[j].status \in Queued
  /\ dispatches[j] < MaxDispatches
  /\ dispatches' = [dispatches EXCEPT ![j] = @ + 1]
  /\ UNCHANGED <<stored, handler, verdict, listed>>

EndDispatch(j) ==
  /\ dispatches[j] > 0
  /\ dispatches' = [dispatches EXCEPT ![j] = @ - 1]
  /\ UNCHANGED <<receipts, deleted, handler, verdict, listed>>

(* Mutant: the acknowledgement overwrites whatever the job has become.     *)
MarkDispatched_Unguarded(j) ==
  /\ EndDispatch(j)
  /\ jobs' = [jobs EXCEPT ![j] = Moved(@, "dispatched", "")]
  /\ UNCHANGED <<balance, ledger, lockAlerts>>

MarkDispatched(j) ==
  /\ EndDispatch(j)
  /\ jobs' = IF jobs[j].status = "pending"
             THEN [jobs EXCEPT ![j] = Moved(@, "dispatched", "")]
             ELSE jobs
  /\ UNCHANGED <<balance, ledger, lockAlerts>>

ApplyDispatchUnconfirmed(j) ==
  /\ EndDispatch(j)
  /\ IF jobs[j].status = "pending"
     THEN /\ jobs' = [jobs EXCEPT ![j] = Moved(@, "unconfirmed", "dispatch_ack_timeout")]
          /\ RaiseLockAlert(j, "unconfirmed")
     ELSE UNCHANGED <<jobs, lockAlerts>>
  /\ UNCHANGED <<balance, ledger>>

FailDispatch(j) ==
  /\ EndDispatch(j)
  /\ ApplyJobResult(j, "failed", "other")

-----------------------------------------------------------------------------
(* The tasks that list jobs and settle them later, one transaction each:   *)
(* CleanupStaleJobs, sweepStaleJobs and the settlement after a printer or  *)
(* a node is disabled or deleted.  How long a job has been still is left   *)
(* open: any subset of the candidates may be stale.                        *)

DeletePrinters(S) ==
  /\ S \ deleted # {}
  /\ deleted' = deleted \cup S
  /\ UNCHANGED <<jobs, balance, ledger, receipts, lockAlerts, running>>

Candidates(t) ==
  {j \in Jobs : jobs[j].status \in IF t = "sweep" THEN {"processing"} ELSE Queued}

ListStale(t, S) ==
  /\ t \in {"cleanup", "sweep"} \cap Tasks
  /\ listed[t] = {}
  /\ S \subseteq Candidates(t) /\ S # {}
  /\ listed' = [listed EXCEPT ![t] = S]
  /\ UNCHANGED <<stored, handler, verdict, dispatches>>

(* After a disable or delete of the printers S (one printer, or a node's). *)
ListActiveJobs(S) ==
  /\ "lifecycle" \in Tasks
  /\ listed["lifecycle"] = {}
  /\ listed' = [listed EXCEPT !["lifecycle"] =
                  {j \in Jobs : jobs[j].status \in Active /\ jobs[j].printer \in S}]
  /\ listed'["lifecycle"] # {}
  /\ UNCHANGED <<stored, handler, verdict, dispatches>>

SettleListed(t, j) ==
  /\ j \in listed[t]
  /\ listed' = [listed EXCEPT ![t] = @ \ {j}]
  /\ IF t = "sweep"
     THEN ApplyJobResult(j, "unconfirmed", "print_timeout_unconfirmed")
     ELSE ApplyJobResult(j, "failed", "other")
  /\ UNCHANGED <<receipts, deleted, handler, verdict, dispatches>>

(* A database error ends the task; what is left is not settled.            *)
AbandonTask(t) ==
  /\ "write" \in Faults
  /\ listed[t] # {}
  /\ listed' = [listed EXCEPT ![t] = {}]
  /\ UNCHANGED <<stored, handler, verdict, dispatches>>

(* A printer snapshot (ReconcilePrinter) or the deletion of the printer's  *)
(* alerts closes the lock alert, whatever its job has become.              *)
CloseLockAlert(p) ==
  /\ p \in lockAlerts
  /\ lockAlerts' = lockAlerts \ {p}
  /\ UNCHANGED <<jobs, balance, ledger, receipts, deleted, running>>

Restart ==
  /\ "restart" \in Faults
  /\ handler' = [h \in Handlers |-> Idle]
  /\ listed' = [t \in Tasks |-> {}]
  /\ dispatches' = [j \in Jobs |-> 0]
  /\ UNCHANGED <<stored, verdict>>

-----------------------------------------------------------------------------
PrinterScopes == {{p} : p \in Printers} \cup
                 {{p \in Printers : NodeOf[p] = n} : n \in Nodes}

QuotaStep ==
  \/ \E u \in Users, a \in GrantAmounts : Grant(u, a)
  \/ \E j \in Jobs, u \in Users, p \in Printers, d \in Documents : Authorize(j, u, p, d)
  \/ \E j \in Jobs, p \in Printers : SubmitPrintParams(j, p)

HandlerStep(h) ==
  \/ ApplyProcessing(h)
  \/ AnswerFromReceipt(h)
  \/ FindNoReceipt(h)
  \/ RejectReport(h)
  \/ AcceptReport(h)
  \/ Abandon(h)

ReportStep ==
  \/ \E h \in Handlers, r \in Reports : RefuseUnowned(h, r)
  \/ \E h \in Handlers, r \in Reports : Receive(h, r)
  \/ \E h \in Handlers : HandlerStep(h)

DispatchStep ==
  \E j \in Jobs :
    \/ StartDispatch(j)
    \/ MarkDispatched(j)
    \/ ApplyDispatchUnconfirmed(j)
    \/ FailDispatch(j)

MaintenanceStep ==
  \/ \E S \in PrinterScopes : DeletePrinters(S)
  \/ \E t \in Tasks, S \in SUBSET Jobs : ListStale(t, S)
  \/ \E S \in PrinterScopes : ListActiveJobs(S)
  \/ \E t \in Tasks, j \in Jobs : SettleListed(t, j)
  \/ \E t \in Tasks : AbandonTask(t)
  \/ \E p \in Printers : CloseLockAlert(p)
  \/ Restart

Next == QuotaStep \/ ReportStep \/ DispatchStep \/ MaintenanceStep

Spec == Init /\ [][Next]_vars

-----------------------------------------------------------------------------
(* Properties.                                                             *)

TypeOK ==
  /\ jobs \in [Jobs -> Row \cup {NoRow}]
  /\ balance \in [Users -> Nat]
  /\ ledger \in [Users -> Seq(LedgerRow)]
  /\ receipts \in [Events -> Reports \cup {None}]
  /\ deleted \subseteq Printers
  /\ lockAlerts \subseteq Printers
  /\ handler \in [Handlers -> {Idle} \cup
                   [stage: {"received", "unreceipted"}, report: Reports]]
  /\ verdict \in [Reports -> {"none", "accepted", "rejected"}]
  /\ listed \in [Tasks -> SUBSET Jobs]
  /\ dispatches \in [Jobs -> Nat]

Chained(l, total) ==
  /\ l # <<>>
  /\ l[1].after = l[1].delta
  /\ \A i \in 2..Len(l) : l[i].after = l[i-1].after + l[i].delta
  /\ l[Len(l)].after = total

(* The ledger is an audit trail: every row's balance_after is the previous *)
(* row's plus its own delta, and the last one is the balance the user has, *)
(* whatever order reservations, refunds and grants commit in.              *)
LedgerChain == \A u \in Users : Chained(ledger[u], balance[u])

IsPost(row, kind, j) == row.kind = kind /\ row.job = j

(* The indexes of the rows of one kind that one user's ledger has for job j.*)
Posts(u, kind, j) == {i \in DOMAIN ledger[u] : IsPost(ledger[u][i], kind, j)}

(* A reservation is taken once, from the job's owner, for its whole price. *)
ReservedOnce ==
  \A u \in Users, j \in Jobs :
    LET p == Posts(u, "authorization_reserve", j)
    IN  /\ p # {} <=> (Metered(jobs[j]) /\ jobs[j].owner = u)
        /\ \A i \in p : ledger[u][i].delta = -jobs[j].reserved
        /\ \A i, k \in p : i = k

(* A reservation is settled once: what was not consumed comes back in one  *)
(* refund, exactly when the job closes, however many timeouts, dispatch    *)
(* failures, lifecycle settlements and Edge reports compete for the job;   *)
(* and a completed job costs its whole reservation.                        *)
SettledOnce ==
  \A j \in Jobs :
    LET row == jobs[j]
    IN  /\ row.consumed # Unset => row.status \in Closed
        /\ Metered(row) /\ row.status = "completed" => row.consumed = row.reserved
        /\ \A u \in Users :
             LET p == Posts(u, "settlement_refund", j)
             IN  /\ p # {} <=> ( /\ row.owner = u
                                 /\ row.status \in Closed
                                 /\ Charged(row) < row.reserved )
                 /\ \A i \in p : ledger[u][i].delta = row.reserved - Charged(row)
                 /\ \A i, k \in p : i = k

(* The rows the ledgers have for a job are those of one reservation and of *)
(* one settlement, whatever order they were posted in.                     *)
QuotaPostedOnce == ReservedOnce /\ SettledOnce

(* What the row of a job says of the quota held for it.                    *)
HoldOf(row) ==
  IF ~Metered(row)
  THEN [stage |-> "free"]
  ELSE IF row.status \notin Closed
  THEN [stage |-> "held", user |-> row.owner, price |-> row.reserved]
  ELSE IF row.status = "completed"
  THEN [stage |-> "spent", user |-> row.owner, price |-> row.reserved]
  ELSE [stage |-> "released", user |-> row.owner, price |-> row.reserved,
        cost |-> Charged(row)]

Holds == [j \in Jobs |-> HoldOf(jobs[j])]

Promise == INSTANCE QuotaPromise WITH available <- balance, holds <- Holds

(* The quota keeps its promise: every step of the database, seen as what   *)
(* users can spend and what is held for their jobs, holds a price, spends  *)
(* it, returns what is left of it, grants, or changes neither.             *)
KeepsQuotaPromise == Promise!Spec

(* Whatever was charged for was reported: a consumption on a job row is    *)
(* the consumption of a recorded receipt of that job.                      *)
ChargeHasReceipt ==
  \A j \in Jobs : jobs[j].consumed # Unset =>
    \E e \in Events :
      /\ receipts[e] # None
      /\ receipts[e].job = j
      /\ receipts[e].status = jobs[j].status
      /\ receipts[e].consumed = jobs[j].consumed

(* What the Edge was told is final stays so: the job a closing receipt     *)
(* names has, ever after, the status and the usage of that receipt.        *)
ReceiptHonoured ==
  \A e \in Events :
    LET r == receipts[e]
    IN  (r # None /\ r.status \in Closed) =>
          /\ jobs[r.job].status = r.status
          /\ Metered(jobs[r.job]) => /\ jobs[r.job].consumed = r.consumed
                                     /\ jobs[r.job].impressions = r.impressions

(* The jobs and the receipts agree both ways: nobody is charged without a  *)
(* recorded report, and no recorded result is lost.                        *)
ReceiptsAgree == ChargeHasReceipt /\ ReceiptHonoured

(* A closed job never changes again, and a job never loses its existence,  *)
(* its owner, its printer or its reservation.                              *)
ClosedIsFinal ==
  [][\A j \in Jobs :
       /\ jobs[j].status \in Closed => jobs'[j] = jobs[j]
       /\ Exists(j) => /\ jobs'[j].owner = jobs[j].owner
                       /\ jobs'[j].printer = jobs[j].printer
                       /\ jobs'[j].reserved = jobs[j].reserved]_vars

(* A closing report that was accepted is never rejected when the Edge      *)
(* sends it again (its acknowledgement was lost, or both of the node's     *)
(* sockets carried it), as long as the job's printer is not deleted and    *)
(* no read fails.                                                          *)
AcceptedStaysAccepted ==
  [][\A r \in Reports :
       ("read" \notin Faults /\ verdict[r] = "accepted" /\ r.status \in Closed
          /\ jobs[r.job].printer \notin deleted)
       => verdict'[r] = "accepted"]_vars

(* What the receipts are kept for: a report the Edge was told is accepted  *)
(* is accepted whenever the Edge sends it again.  (Does not hold; see the  *)
(* README.)                                                                *)
RetryKeepsVerdict ==
  [][\A r \in Reports : verdict[r] = "accepted" => verdict'[r] = "accepted"]_vars

(* The stale job cleanup fails jobs the Edge has said nothing about: the   *)
(* ones that are still queued.  (Does not hold; see the README.)           *)
CleanupFailsQueuedJobs ==
  [][\A j \in Jobs :
       j \in listed["cleanup"] \ listed'["cleanup"] /\ jobs'[j] # jobs[j]
       => jobs[j].status \in Queued]_vars

=============================================================================
