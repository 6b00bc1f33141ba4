----------------------- MODULE PrintSettlementProofs ------------------------
(***************************************************************************)
(* Proofs about PrintSettlement, for every number of users, printers, jobs,*)
(* events, handlers and dispatches and whatever the Edge reports.          *)
(***************************************************************************)
EXTENDS PrintSettlement, SequenceTheorems, TLAPS

(* The jobs that a handler, a task or a dispatch is working on exist, and  *)
(* only terminal reports look for a receipt.  Rows are never removed, so   *)
(* this is what makes a step that writes a row keep the row's type.        *)
WorkOnExisting ==
  /\ \A h \in Handlers : handler[h] # Idle =>
       /\ Exists(handler[h].report.job)
       /\ handler[h].stage = "unreceipted" => handler[h].report.status \in Terminal
  /\ \A t \in Tasks : \A j \in listed[t] : Exists(j)
  /\ \A j \in Jobs : dispatches[j] > 0 => Exists(j)

TypeInv == TypeOK /\ WorkOnExisting

-----------------------------------------------------------------------------
(* A document costs at least one point (CalculateQuotaUsage never returns  *)
(* zero without an error), so a metered job is one with a reservation.     *)
LEMMA QuotaUsagePositive ==
  ASSUME NEW d \in Document
  PROVE  QuotaUsage(d) \in Nat \ {0}
<1>1. /\ d.pages \in Nat \ {0} /\ d.copies \in Nat \ {0}
  BY DEF Document
<1>2. SheetsPerCopy(d) \in Nat \ {0}
  BY <1>1 DEF SheetsPerCopy
<1>3. Multiplier(d) \in {1, 2}
  BY DEF Multiplier
<1>4. ASSUME NEW a \in Nat \ {0}, NEW b \in Nat \ {0}
      PROVE  a * b \in Nat \ {0}
  BY <1>4
<1>5. SheetsPerCopy(d) * d.copies \in Nat \ {0}
  BY <1>1, <1>2, <1>4
<1> QED
  BY <1>3, <1>4, <1>5 DEF QuotaUsage

(* Post keeps the types of the quota variables.                            *)
LEMMA PostTypes ==
  ASSUME TypeOK, NEW u, NEW kind, NEW j, NEW delta \in Int,
         u \in Users => balance[u] + delta >= 0,
         kind \in {"admin_grant", "authorization_reserve", "settlement_refund"},
         j \in Jobs \cup {None},
         Post(u, kind, j, delta)
  PROVE  /\ balance' \in [Users -> Nat]
         /\ ledger' \in [Users -> Seq(LedgerRow)]
<1>1. CASE u \in Users
  <2>1. balance[u] + delta \in Nat
    BY <1>1 DEF TypeOK
  <2>2. [kind |-> kind, job |-> j, delta |-> delta, after |-> balance[u] + delta]
          \in LedgerRow
    BY <2>1 DEF LedgerRow
  <2>3. ledger[u] \in Seq(LedgerRow)
    BY <1>1 DEF TypeOK
  <2>4. Append(ledger[u], [kind |-> kind, job |-> j, delta |-> delta,
                           after |-> balance[u] + delta]) \in Seq(LedgerRow)
    BY <2>2, <2>3, AppendProperties
  <2> QED
    BY <1>1, <2>1, <2>4 DEF TypeOK, Post
<1>2. CASE u \notin Users
  BY <1>2 DEF TypeOK, Post
<1> QED
  BY <1>1, <1>2

(* A refund keeps them too, whoever the owner and whatever the amount.     *)
LEMMA RefundTypes ==
  ASSUME TypeOK, NEW j \in Jobs, NEW amount \in Int, Refund(j, amount)
  PROVE  /\ balance' \in [Users -> Nat]
         /\ ledger' \in [Users -> Seq(LedgerRow)]
<1>1. CASE amount > 0
  <2>1. Post(jobs[j].owner, "settlement_refund", j, amount)
    BY <1>1 DEF Refund
  <2>2. jobs[j].owner \in Users => balance[jobs[j].owner] + amount >= 0
    BY <1>1 DEF TypeOK
  <2> QED
    BY <2>1, <2>2, PostTypes
<1>2. CASE ~(amount > 0)
  BY <1>2 DEF Refund, TypeOK
<1> QED
  BY <1>1, <1>2

(* Authorize charges a positive price to a real user.                      *)
LEMMA PriceOfDocuments ==
  ASSUME NEW d \in Documents
  PROVE  QuotaUsage(d) \in Nat \ {0}
<1>1. d \in Document
  BY ModelConstants
<1> QED
  BY <1>1, QuotaUsagePositive

(* A job exists when its row is a real one.                                *)
LEMMA ExistingRow ==
  ASSUME TypeOK, NEW j \in Jobs
  PROVE  Exists(j) <=> jobs[j] \in Row
<1>1. jobs[j] \in Row \/ jobs[j] = NoRow
  BY DEF TypeOK
<1>2. NoRow.status = "absent"
  BY DEF NoRow
<1>3. \A row \in Row : row.status # "absent"
  BY DEF Row, Statuses, Terminal, Closed, Active, Queued
<1> QED
  BY <1>1, <1>2, <1>3 DEF Exists

(* A job that does not exist yet is neither closed nor metered.            *)
LEMMA AbsentRow ==
  ASSUME TypeOK, NEW j \in Jobs, ~Exists(j)
  PROVE  jobs[j].status \notin Closed /\ ~Metered(jobs[j])
<1>1. jobs[j] = NoRow
  BY ExistingRow DEF TypeOK
<1>2. NoRow.status = "absent" /\ NoRow.reserved = 0
  BY DEF NoRow
<1> QED
  BY <1>1, <1>2 DEF Closed, Metered

(* A moved row differs in its status and its code only.                    *)
LEMMA MovedTypes ==
  ASSUME NEW row \in Row, NEW status \in Statuses, NEW code \in Codes
  PROVE  /\ Moved(row, status, code) \in Row
         /\ Moved(row, status, code).status = status
         /\ Moved(row, status, code).code = code
         /\ Moved(row, status, code).owner = row.owner
         /\ Moved(row, status, code).printer = row.printer
         /\ Moved(row, status, code).reserved = row.reserved
         /\ Moved(row, status, code).consumed = row.consumed
         /\ Moved(row, status, code).impressions = row.impressions
BY DEF Moved, Row

(* What ApplyJobResult does to an existing job keeps the types, and no job *)
(* ceases to exist.                                                        *)
LEMMA ApplyJobResultTypes ==
  ASSUME TypeOK, NEW j \in Jobs, Exists(j),
         NEW status \in {"processing", "failed", "unconfirmed"},
         NEW code \in Codes,
         ApplyJobResult(j, status, code)
  PROVE  /\ jobs' \in [Jobs -> Row \cup {NoRow}]
         /\ balance' \in [Users -> Nat]
         /\ ledger' \in [Users -> Seq(LedgerRow)]
         /\ lockAlerts' \subseteq Printers
         /\ \A i \in Jobs : Exists(i) => Exists(i)'
<1>1. CASE Immutable(jobs[j])
  BY <1>1 DEF ApplyJobResult, TypeOK, Exists
<1>2. CASE ~Immutable(jobs[j])
  <2>1. jobs[j] \in Row
    BY ExistingRow
  <2> DEFINE c == IF status \in {"processing", "completed"} THEN "" ELSE code
  <2>2. /\ jobs' = [jobs EXCEPT ![j] = Moved(jobs[j], status, c)]
        /\ RaiseLockAlert(j, status)
    BY <1>2 DEF ApplyJobResult
  <2>3. jobs'[j] \in Row /\ jobs'[j].status = status
    <3>1. c \in Codes /\ status \in Statuses
      BY DEF Codes, Statuses, Terminal, Closed, Active
    <3>2. Moved(jobs[j], status, c) \in Row /\ Moved(jobs[j], status, c).status = status
      BY <2>1, <3>1, MovedTypes
    <3> QED
      BY <2>2, <3>2 DEF TypeOK
  <2>4. jobs' \in [Jobs -> Row \cup {NoRow}]
    BY <2>2, <2>3 DEF TypeOK
  <2>5. \A i \in Jobs : Exists(i) => Exists(i)'
    BY <2>2, <2>3 DEF TypeOK, Exists, Statuses, Terminal, Closed, Active, Queued
  <2>6. lockAlerts' \subseteq Printers
    BY <2>1, <2>2 DEF RaiseLockAlert, TypeOK, Row
  <2>7. /\ balance' \in [Users -> Nat]
        /\ ledger' \in [Users -> Seq(LedgerRow)]
    <3>1. CASE UNCHANGED <<balance, ledger>>
      BY <3>1 DEF TypeOK
    <3>2. CASE Refund(j, jobs[j].reserved - Charged(jobs[j]))
      <4>1. jobs[j].reserved - Charged(jobs[j]) \in Int
        BY <2>1 DEF Charged, Row, Unset
      <4> QED
        BY <3>2, <4>1, RefundTypes
    <3> QED
      BY <1>2, <3>1, <3>2 DEF ApplyJobResult
  <2> QED
    BY <2>4, <2>5, <2>6, <2>7
<1> QED
  BY <1>1, <1>2

(* A handler that is not idle works on one of the reports.                 *)
LEMMA HandlerReport ==
  ASSUME TypeOK, NEW h \in Handlers, handler[h] # Idle
  PROVE  /\ handler[h].report \in Reports
         /\ handler[h].stage \in {"received", "unreceipted"}
         /\ handler[h].report.event \in Events
         /\ handler[h].report.job \in Jobs
         /\ handler[h].report.status \in Terminal \cup {"processing"}
         /\ handler[h].report.code \in Codes
         /\ handler[h].report.impressions \in Nat
         /\ handler[h].report.consumed \in Nat
<1>1. handler[h] \in [stage: {"received", "unreceipted"}, report: Reports]
  BY DEF TypeOK
<1>2. handler[h].report \in Report
  BY <1>1, ModelConstants
<1> QED
  BY <1>1, <1>2 DEF Report

(* A stage other than "idle" is that of a handler that is not idle.        *)
LEMMA BusyHandler ==
  ASSUME NEW h \in Handlers, handler[h].stage \in {"received", "unreceipted"}
  PROVE  handler[h] # Idle
BY DEF Idle

-----------------------------------------------------------------------------
LEMMA TypeInvInit == Init => TypeInv
<1> SUFFICES ASSUME Init PROVE TypeInv
  OBVIOUS
<1>1. ledger \in [Users -> Seq(LedgerRow)]
  <2>1. [kind |-> "initial_grant", job |-> None, delta |-> InitialQuota,
         after |-> InitialQuota] \in LedgerRow
    BY ModelConstants DEF LedgerRow
  <2> QED
    BY <2>1 DEF Init
<1>2. TypeOK
  BY <1>1, ModelConstants DEF Init, TypeOK
<1>3. WorkOnExisting
  BY DEF Init, WorkOnExisting
<1> QED
  BY <1>2, <1>3 DEF TypeInv

(* Every operation on the quota keeps the types.                           *)
LEMMA TypeInvQuota ==
  ASSUME TypeInv, QuotaStep
  PROVE  TypeInv'
<1> USE DEF TypeInv, running
<1>1. ASSUME NEW u \in Users, NEW a \in GrantAmounts, Grant(u, a)
      PROVE  TypeInv'
  <2>1. /\ balance' \in [Users -> Nat]
        /\ ledger' \in [Users -> Seq(LedgerRow)]
    <3>1. a \in Nat /\ balance[u] \in Nat
      BY ModelConstants DEF TypeOK
    <3>2. Post(u, "admin_grant", None, a)
      BY <1>1 DEF Grant
    <3> QED
      BY <3>1, <3>2, PostTypes
  <2> QED
    BY <1>1, <2>1 DEF Grant, TypeOK, WorkOnExisting, Exists
<1>2. ASSUME NEW j \in Jobs, NEW u \in Users, NEW p \in Printers, NEW d \in Documents,
             Authorize(j, u, p, d)
      PROVE  TypeInv'
  <2>1. QuotaUsage(d) \in Nat \ {0} /\ balance[u] \in Nat
    BY PriceOfDocuments DEF TypeOK
  <2>2. /\ balance' \in [Users -> Nat]
        /\ ledger' \in [Users -> Seq(LedgerRow)]
    <3>1. balance[u] + (-QuotaUsage(d)) >= 0
      <4>1. balance[u] >= QuotaUsage(d)
        BY <1>2 DEF Authorize, Reservable
      <4>2. ASSUME NEW a \in Nat, NEW b \in Nat, a >= b PROVE a + (-b) >= 0
        BY <4>2
      <4> QED
        BY <2>1, <4>1, <4>2
    <3>2. Post(u, "authorization_reserve", j, -QuotaUsage(d))
      BY <1>2 DEF Authorize
    <3> QED
      BY <2>1, <3>1, <3>2, PostTypes
  <2>3. jobs' \in [Jobs -> Row \cup {NoRow}]
    <3>1. [status |-> "pending", code |-> "", owner |-> u, printer |-> p, doc |-> d,
           reserved |-> QuotaUsage(d), consumed |-> Unset, impressions |-> Unset] \in Row
      BY <2>1 DEF Row, Statuses, Active, Queued, Codes
    <3> QED
      BY <1>2, <3>1 DEF Authorize, TypeOK
  <2>4. \A i \in Jobs : Exists(i) => Exists(i)'
    BY <1>2 DEF Authorize, TypeOK, Exists
  <2> QED
    BY <1>2, <2>2, <2>3, <2>4, HandlerReport DEF Authorize, TypeOK, WorkOnExisting
<1>3. ASSUME NEW j \in Jobs, NEW p \in Printers, SubmitPrintParams(j, p)
      PROVE  TypeInv'
  <2>1. jobs' \in [Jobs -> Row \cup {NoRow}]
    <3>1. [status |-> "pending", code |-> "", owner |-> None, printer |-> p, doc |-> None,
           reserved |-> 0, consumed |-> Unset, impressions |-> Unset] \in Row
      BY DEF Row, Statuses, Active, Queued, Codes
    <3> QED
      BY <1>3, <3>1 DEF SubmitPrintParams, TypeOK
  <2>2. \A i \in Jobs : Exists(i) => Exists(i)'
    BY <1>3 DEF SubmitPrintParams, TypeOK, Exists
  <2> QED
    BY <1>3, <2>1, <2>2, HandlerReport DEF SubmitPrintParams, TypeOK, WorkOnExisting
<1> QED
  BY <1>1, <1>2, <1>3 DEF QuotaStep

(* The row an accepted report writes is a row, with the report's status.   *)
LEMMA SettledRowTypes ==
  ASSUME NEW row \in Row, NEW r \in Report, r.status \in Terminal
  PROVE  /\ SettledRow(row, r) \in Row
         /\ SettledRow(row, r).status = r.status
         /\ SettledRow(row, r).owner = row.owner
         /\ SettledRow(row, r).printer = row.printer
         /\ SettledRow(row, r).reserved = row.reserved
         /\ SettledRow(row, r).doc = row.doc
         /\ SettledRow(row, r).consumed
              = IF MeteredResult(row, r) THEN r.consumed ELSE row.consumed
         /\ SettledRow(row, r).impressions
              = IF MeteredResult(row, r) THEN r.impressions ELSE row.impressions
<1>1. /\ r.code \in Codes /\ r.consumed \in Nat /\ r.impressions \in Nat
      /\ r.status \in Statuses /\ "" \in Codes
  BY DEF Report, Codes, Statuses
<1> QED
  BY <1>1 DEF SettledRow, Row

(* Accepting a report keeps the types and the existence of the jobs.       *)
LEMMA AcceptReportTypes ==
  ASSUME TypeInv, NEW h \in Handlers, AcceptReport(h)
  PROVE  /\ jobs' \in [Jobs -> Row \cup {NoRow}]
         /\ balance' \in [Users -> Nat]
         /\ ledger' \in [Users -> Seq(LedgerRow)]
         /\ receipts' \in [Events -> Reports \cup {None}]
         /\ lockAlerts' \subseteq Printers
         /\ \A i \in Jobs : Exists(i) => Exists(i)'
<1> DEFINE r == handler[h].report
           row == jobs[r.job]
<1>1. handler[h] # Idle /\ handler[h].stage = "unreceipted"
  BY BusyHandler DEF AcceptReport
<1>2. /\ r \in Reports /\ r \in Report /\ r.event \in Events /\ r.job \in Jobs
      /\ r.consumed \in Nat
  BY <1>1, HandlerReport, ModelConstants DEF TypeInv
<1>3. Exists(r.job) /\ r.status \in Terminal /\ row \in Row
  BY <1>1, <1>2, ExistingRow DEF TypeInv, WorkOnExisting
<1>4. receipts' \in [Events -> Reports \cup {None}]
  BY <1>2 DEF AcceptReport, TypeInv, TypeOK
<1>5. CASE Immutable(row)
  BY <1>4, <1>5 DEF AcceptReport, TypeInv, TypeOK, Exists
<1>6. CASE ~Immutable(row)
  <2>1. /\ jobs' = [jobs EXCEPT ![r.job] = SettledRow(row, r)]
        /\ RaiseLockAlert(r.job, r.status)
        /\ Refund(r.job, row.reserved - r.consumed) \/ UNCHANGED <<balance, ledger>>
    BY <1>6 DEF AcceptReport
  <2>2. SettledRow(row, r) \in Row
    BY <1>2, <1>3, SettledRowTypes
  <2>3. jobs' \in [Jobs -> Row \cup {NoRow}]
    BY <2>1, <2>2 DEF TypeInv, TypeOK
  <2>4. \A i \in Jobs : Exists(i) => Exists(i)'
    <3>1. SettledRow(row, r).status # "absent"
      BY <1>2, <1>3, SettledRowTypes DEF Terminal, Closed
    <3> QED
      BY <2>1, <3>1 DEF TypeInv, TypeOK, Exists
  <2>5. lockAlerts' \subseteq Printers
    BY <1>3, <2>1 DEF RaiseLockAlert, TypeInv, TypeOK, Row
  <2>6. row.reserved - r.consumed \in Int
    BY <1>2, <1>3 DEF Row
  <2>7. /\ balance' \in [Users -> Nat]
        /\ ledger' \in [Users -> Seq(LedgerRow)]
    BY <1>2, <2>1, <2>6, RefundTypes DEF TypeInv, TypeOK
  <2> QED
    BY <1>4, <2>3, <2>4, <2>5, <2>7
<1> QED
  BY <1>5, <1>6

(* An answer is recorded for a report, and the handler is idle again.      *)
LEMMA AnswerTypes ==
  ASSUME TypeInv, NEW h \in Handlers, handler[h] # Idle,
         NEW answer \in {"accepted", "rejected"}, Answer(h, answer)
  PROVE  /\ handler' = [handler EXCEPT ![h] = Idle]
         /\ handler' \in [Handlers -> {Idle} \cup
                     [stage: {"received", "unreceipted"}, report: Reports]]
         /\ verdict' \in [Reports -> {"none", "accepted", "rejected"}]
BY HandlerReport DEF Answer, TypeInv, TypeOK

(* A step that leaves the tasks and the dispatches alone, loses no job and *)
(* only makes handlers idle keeps what they work on existing.              *)
LEMMA StillWorkOnExisting ==
  ASSUME TypeInv, UNCHANGED <<listed, dispatches>>,
         \A i \in Jobs : Exists(i) => Exists(i)',
         \A h \in Handlers : handler'[h] \in {handler[h], Idle}
  PROVE  WorkOnExisting'
<1>1. \A h \in Handlers : handler[h] # Idle => handler[h].report.job \in Jobs
  BY HandlerReport DEF TypeInv
<1>2. \A t \in Tasks : listed[t] \subseteq Jobs
  BY DEF TypeInv, TypeOK
<1> QED
  BY <1>1, <1>2 DEF TypeInv, WorkOnExisting

(* Every step of a message handler keeps the types.                        *)
LEMMA TypeInvReport ==
  ASSUME TypeInv, ReportStep
  PROVE  TypeInv'
<1> USE DEF stored
<1>1. ASSUME NEW h \in Handlers, NEW r \in Reports, RefuseUnowned(h, r)
      PROVE  TypeInv'
  BY <1>1 DEF RefuseUnowned, TypeInv, TypeOK, WorkOnExisting, Exists
<1>2. ASSUME NEW h \in Handlers, NEW r \in Reports, Receive(h, r)
      PROVE  TypeInv'
  <2>1. handler' = [handler EXCEPT ![h] = [stage |-> "received", report |-> r]]
    BY <1>2 DEF Receive
  <2>2. TypeOK'
    BY <1>2, <2>1 DEF Receive, TypeInv, TypeOK
  <2>3. WorkOnExisting'
    BY <1>2, <2>1 DEF Receive, Owned, TypeInv, TypeOK, WorkOnExisting, Exists
  <2> QED
    BY <2>2, <2>3 DEF TypeInv
<1>3. ASSUME NEW h \in Handlers, ApplyProcessing(h)
      PROVE  TypeInv'
  <2> DEFINE r == handler[h].report
  <2>1. handler[h] # Idle
    BY <1>3, BusyHandler DEF ApplyProcessing
  <2>2. r.job \in Jobs /\ r.code \in Codes /\ Exists(r.job)
    BY <2>1, HandlerReport DEF TypeInv, WorkOnExisting
  <2>3. ApplyJobResult(r.job, "processing", r.code)
    BY <1>3 DEF ApplyProcessing
  <2>4. /\ jobs' \in [Jobs -> Row \cup {NoRow}]
        /\ balance' \in [Users -> Nat]
        /\ ledger' \in [Users -> Seq(LedgerRow)]
        /\ lockAlerts' \subseteq Printers
        /\ \A i \in Jobs : Exists(i) => Exists(i)'
    BY <2>2, <2>3, ApplyJobResultTypes DEF TypeInv
  <2>5. TypeOK'
    BY <1>3, <2>4 DEF ApplyProcessing, TypeInv, TypeOK
  <2>6. WorkOnExisting'
    BY <1>3, <2>4, StillWorkOnExisting DEF ApplyProcessing, TypeInv, TypeOK
  <2> QED
    BY <2>5, <2>6 DEF TypeInv
<1>4. ASSUME NEW h \in Handlers, AnswerFromReceipt(h) \/ RejectReport(h)
      PROVE  TypeInv'
  <2>1. handler[h] # Idle
    BY <1>4, BusyHandler DEF AnswerFromReceipt, RejectReport
  <2>2. \E answer \in {"accepted", "rejected"} : Answer(h, answer)
    BY <1>4 DEF AnswerFromReceipt, RejectReport
  <2>3. UNCHANGED <<stored, listed, dispatches>>
    BY <1>4 DEF AnswerFromReceipt, RejectReport
  <2>4. /\ handler' = [handler EXCEPT ![h] = Idle]
        /\ TypeOK'
    BY <2>1, <2>2, <2>3, AnswerTypes DEF TypeInv, TypeOK
  <2>5. WorkOnExisting'
    BY <2>3, <2>4, StillWorkOnExisting DEF TypeInv, TypeOK, Exists
  <2> QED
    BY <2>4, <2>5 DEF TypeInv
<1>5. ASSUME NEW h \in Handlers, FindNoReceipt(h)
      PROVE  TypeInv'
  <2>1. handler[h] # Idle
    BY <1>5, BusyHandler DEF FindNoReceipt
  <2>2. /\ handler[h].report \in Reports /\ handler[h].report.job \in Jobs
        /\ handler[h] \in [stage: {"received", "unreceipted"}, report: Reports]
    BY <2>1, HandlerReport DEF TypeInv, TypeOK
  <2>3. handler' = [handler EXCEPT ![h] =
                      [stage |-> "unreceipted", report |-> handler[h].report]]
    BY <1>5 DEF FindNoReceipt
  <2>4. TypeOK'
    <3>1. [stage |-> "unreceipted", report |-> handler[h].report]
            \in [stage: {"received", "unreceipted"}, report: Reports]
      BY <2>2
    <3>2. UNCHANGED <<stored, verdict, listed, dispatches>>
      BY <1>5 DEF FindNoReceipt
    <3> QED
      BY <2>3, <3>1, <3>2 DEF TypeInv, TypeOK
  <2>5. Exists(handler[h].report.job) /\ handler[h].report.status \in Terminal
    BY <1>5, <2>1 DEF FindNoReceipt, TypeInv, WorkOnExisting
  <2>6. WorkOnExisting'
    BY <1>5, <2>3, <2>5 DEF FindNoReceipt, TypeInv, TypeOK, WorkOnExisting, Exists
  <2> QED
    BY <2>4, <2>6 DEF TypeInv
<1>6. ASSUME NEW h \in Handlers, AcceptReport(h)
      PROVE  TypeInv'
  <2>1. handler[h] # Idle
    BY <1>6, BusyHandler DEF AcceptReport
  <2>2. Answer(h, "accepted") /\ UNCHANGED <<deleted, listed, dispatches>>
    BY <1>6 DEF AcceptReport
  <2>3. TypeOK'
    BY <1>6, <2>1, <2>2, AcceptReportTypes, AnswerTypes DEF TypeInv, TypeOK
  <2>4. WorkOnExisting'
    BY <1>6, <2>1, <2>2, AcceptReportTypes, AnswerTypes, StillWorkOnExisting
       DEF TypeInv, TypeOK
  <2> QED
    BY <2>3, <2>4 DEF TypeInv
<1>7. ASSUME NEW h \in Handlers, Abandon(h)
      PROVE  TypeInv'
  <2>1. TypeOK'
    BY <1>7 DEF Abandon, TypeInv, TypeOK
  <2>2. WorkOnExisting'
    BY <1>7, StillWorkOnExisting DEF Abandon, TypeInv, TypeOK, Exists
  <2> QED
    BY <2>1, <2>2 DEF TypeInv
<1> QED
  BY <1>1, <1>2, <1>3, <1>4, <1>5, <1>6, <1>7 DEF ReportStep, HandlerStep

(* Starting a dispatch and recording its outcome keep the types.           *)
LEMMA TypeInvDispatch ==
  ASSUME TypeInv, NEW j \in Jobs,
         \/ StartDispatch(j) \/ MarkDispatched(j)
         \/ ApplyDispatchUnconfirmed(j) \/ FailDispatch(j)
  PROVE  TypeInv'
<1> USE DEF stored
<1>1. CASE StartDispatch(j)
  <2>1. Exists(j) /\ dispatches' \in [Jobs -> Nat]
    BY <1>1 DEF StartDispatch, TypeInv, TypeOK, Exists, Queued
  <2> QED
    BY <1>1, <2>1 DEF StartDispatch, TypeInv, TypeOK, WorkOnExisting, Exists
<1>2. CASE EndDispatch(j) /\ (MarkDispatched(j) \/ ApplyDispatchUnconfirmed(j) \/ FailDispatch(j))
  <2>1. /\ dispatches' \in [Jobs -> Nat]
        /\ \A i \in Jobs : dispatches'[i] > 0 => dispatches[i] > 0
        /\ Exists(j)
    BY <1>2 DEF EndDispatch, TypeInv, TypeOK, WorkOnExisting
  <2>2. /\ jobs' \in [Jobs -> Row \cup {NoRow}]
        /\ balance' \in [Users -> Nat]
        /\ ledger' \in [Users -> Seq(LedgerRow)]
        /\ lockAlerts' \subseteq Printers
        /\ \A i \in Jobs : Exists(i) => Exists(i)'
    <3>1. jobs[j] \in Row
      BY <2>1, ExistingRow DEF TypeInv
    <3>5. /\ "dispatched" \in Statuses /\ "unconfirmed" \in Statuses
          /\ "" \in Codes /\ "dispatch_ack_timeout" \in Codes
      BY DEF Statuses, Active, Queued, Terminal, Codes
    <3>6. \A s \in Statuses, c \in Codes : /\ Moved(jobs[j], s, c) \in Row
                                          /\ Moved(jobs[j], s, c).status = s
      BY <3>1, MovedTypes
    <3>2. CASE FailDispatch(j)
      <4>1. "other" \in Codes /\ ApplyJobResult(j, "failed", "other")
        BY <3>2 DEF FailDispatch, Codes
      <4> QED
        BY <2>1, <4>1, ApplyJobResultTypes DEF TypeInv
    <3>3. CASE MarkDispatched(j)
      <4>1. /\ Moved(jobs[j], "dispatched", "") \in Row
            /\ Moved(jobs[j], "dispatched", "").status = "dispatched"
        BY <3>6, <3>5
      <4> QED
        BY <3>3, <4>1 DEF MarkDispatched, TypeInv, TypeOK, Exists
    <3>4. CASE ApplyDispatchUnconfirmed(j)
      <4>1. /\ Moved(jobs[j], "unconfirmed", "dispatch_ack_timeout") \in Row
            /\ Moved(jobs[j], "unconfirmed", "dispatch_ack_timeout").status = "unconfirmed"
        BY <3>6, <3>5
      <4>2. jobs[j].printer \in Printers
        BY <3>1 DEF Row
      <4> QED
        BY <3>4, <4>1, <4>2 DEF ApplyDispatchUnconfirmed, RaiseLockAlert, TypeInv, TypeOK, Exists
    <3> QED
      BY <1>2, <3>2, <3>3, <3>4
  <2>3. TypeOK'
    BY <1>2, <2>1, <2>2 DEF EndDispatch, TypeInv, TypeOK
  <2>4. WorkOnExisting'
    <3>1. \A h \in Handlers : handler[h] # Idle => handler[h].report.job \in Jobs
      BY HandlerReport DEF TypeInv
    <3>2. \A t \in Tasks : listed[t] \subseteq Jobs
      BY DEF TypeInv, TypeOK
    <3> QED
      BY <1>2, <2>1, <2>2, <3>1, <3>2 DEF EndDispatch, TypeInv, WorkOnExisting
  <2> QED
    BY <2>3, <2>4 DEF TypeInv
<1> QED
  BY <1>1, <1>2 DEF MarkDispatched, ApplyDispatchUnconfirmed, FailDispatch

(* Listing and settling, deletions, alerts and restarts keep the types.    *)
LEMMA TypeInvMaintenance ==
  ASSUME TypeInv, MaintenanceStep
  PROVE  TypeInv'
<1> USE DEF stored, running
<1>1. ASSUME NEW S \in PrinterScopes, DeletePrinters(S)
      PROVE  TypeInv'
  <2>1. S \subseteq Printers
    BY DEF PrinterScopes
  <2> QED
    BY <1>1, <2>1 DEF DeletePrinters, TypeInv, TypeOK, WorkOnExisting, Exists
<1>2. ASSUME NEW t \in Tasks, NEW S \in SUBSET Jobs, ListStale(t, S)
      PROVE  TypeInv'
  <2>1. \A j \in S : Exists(j)
    BY <1>2 DEF ListStale, Candidates, Exists, Queued
  <2> QED
    BY <1>2, <2>1 DEF ListStale, TypeInv, TypeOK, WorkOnExisting, Exists
<1>3. ASSUME NEW S \in PrinterScopes, ListActiveJobs(S)
      PROVE  TypeInv'
  <2> DEFINE L == {j \in Jobs : jobs[j].status \in Active /\ jobs[j].printer \in S}
  <2>1. /\ \A j \in L : Exists(j)
        /\ L \in SUBSET Jobs
    BY DEF Exists, Active, Queued
  <2>2. listed' = [listed EXCEPT !["lifecycle"] = L]
    BY <1>3 DEF ListActiveJobs
  <2> HIDE DEF L
  <2> QED
    BY <1>3, <2>1, <2>2 DEF ListActiveJobs, TypeInv, TypeOK, WorkOnExisting, Exists
<1>4. ASSUME NEW t \in Tasks, NEW j \in Jobs, SettleListed(t, j)
      PROVE  TypeInv'
  <2>1. Exists(j) /\ listed' = [listed EXCEPT ![t] = @ \ {j}]
    BY <1>4 DEF SettleListed, TypeInv, WorkOnExisting
  <2>2. /\ "print_timeout_unconfirmed" \in Codes /\ "other" \in Codes
        /\ \/ ApplyJobResult(j, "unconfirmed", "print_timeout_unconfirmed")
           \/ ApplyJobResult(j, "failed", "other")
    BY <1>4 DEF SettleListed, Codes
  <2>3. /\ jobs' \in [Jobs -> Row \cup {NoRow}]
        /\ balance' \in [Users -> Nat]
        /\ ledger' \in [Users -> Seq(LedgerRow)]
        /\ lockAlerts' \subseteq Printers
        /\ \A i \in Jobs : Exists(i) => Exists(i)'
    BY <2>1, <2>2, ApplyJobResultTypes DEF TypeInv
  <2>4. TypeOK'
    BY <1>4, <2>1, <2>3 DEF SettleListed, TypeInv, TypeOK
  <2>5. WorkOnExisting'
    <3>1. \A h \in Handlers : handler[h] # Idle => handler[h].report.job \in Jobs
      BY HandlerReport DEF TypeInv
    <3>2. \A i \in Tasks : listed'[i] \subseteq listed[i] /\ listed[i] \subseteq Jobs
      BY <2>1 DEF TypeInv, TypeOK
    <3> QED
      BY <1>4, <2>3, <3>1, <3>2 DEF SettleListed, TypeInv, WorkOnExisting
  <2> QED
    BY <2>4, <2>5 DEF TypeInv
<1>5. ASSUME NEW t \in Tasks, AbandonTask(t)
      PROVE  TypeInv'
  BY <1>5 DEF AbandonTask, TypeInv, TypeOK, WorkOnExisting, Exists
<1>6. ASSUME NEW p \in Printers, CloseLockAlert(p)
      PROVE  TypeInv'
  BY <1>6 DEF CloseLockAlert, TypeInv, TypeOK, WorkOnExisting, Exists
<1>7. CASE Restart
  BY <1>7 DEF Restart, TypeInv, TypeOK, WorkOnExisting, Exists
<1> QED
  BY <1>1, <1>2, <1>3, <1>4, <1>5, <1>6, <1>7 DEF MaintenanceStep

LEMMA TypeInvStep == TypeInv /\ [Next]_vars => TypeInv'
<1> SUFFICES ASSUME TypeInv, [Next]_vars PROVE TypeInv'
  OBVIOUS
<1>1. CASE QuotaStep
  BY <1>1, TypeInvQuota
<1>2. CASE ReportStep
  BY <1>2, TypeInvReport
<1>3. CASE DispatchStep
  BY <1>3, TypeInvDispatch DEF DispatchStep
<1>4. CASE MaintenanceStep
  BY <1>4, TypeInvMaintenance
<1>5. CASE UNCHANGED vars
  BY <1>5 DEF vars, stored, running, TypeInv, TypeOK, WorkOnExisting, Exists
<1> QED
  BY <1>1, <1>2, <1>3, <1>4, <1>5 DEF Next

(* Type correctness: in particular a balance never becomes negative, no    *)
(* job that does not exist is ever written, and no dispatch ends twice.    *)
THEOREM TypeCorrect == Spec => []TypeOK
<1>1. Init => TypeInv
  BY TypeInvInit
<1>2. TypeInv /\ [Next]_vars => TypeInv'
  BY TypeInvStep
<1>3. TypeInv => TypeOK
  BY DEF TypeInv
<1> QED
  BY <1>1, <1>2, <1>3, PTL DEF Spec

-----------------------------------------------------------------------------
(* Money.  A ledger only grows, so what is to be shown of a step is what   *)
(* the one row it may append does to the rows of one job.                  *)

(* What a reservation was taken for has an account to be returned to.      *)
ReservationsOwned == \A j \in Jobs : Metered(jobs[j]) => jobs[j].owner \in Users

MoneyInv == LedgerChain /\ ReservedOnce /\ SettledOnce /\ ReservationsOwned

(* Post appends one row to one ledger and leaves every other row alone.    *)
LEMMA PostAppends ==
  ASSUME TypeOK, NEW u \in Users, NEW kind, NEW j, NEW delta,
         Post(u, kind, j, delta)
  PROVE  /\ Len(ledger[u]) \in Nat
         /\ ledger[u] \in Seq(LedgerRow)
         /\ DOMAIN ledger[u] = 1..Len(ledger[u])
         /\ Len(ledger'[u]) = Len(ledger[u]) + 1
         /\ DOMAIN ledger'[u] = 1..(Len(ledger[u]) + 1)
         /\ \A i \in DOMAIN ledger[u] : ledger'[u][i] = ledger[u][i]
         /\ ledger'[u][Len(ledger[u]) + 1] =
              [kind |-> kind, job |-> j, delta |-> delta, after |-> balance[u] + delta]
         /\ \A v \in Users \ {u} : ledger'[v] = ledger[v] /\ balance'[v] = balance[v]
         /\ balance'[u] = balance[u] + delta
<1> DEFINE row == [kind |-> kind, job |-> j, delta |-> delta, after |-> balance[u] + delta]
<1>1. ledger[u] \in Seq(LedgerRow) /\ ledger \in [Users -> Seq(LedgerRow)]
      /\ balance \in [Users -> Nat]
  BY DEF TypeOK
<1>2. /\ ledger' = [ledger EXCEPT ![u] = Append(ledger[u], row)]
      /\ balance' = [balance EXCEPT ![u] = balance[u] + delta]
  BY DEF Post
<1>3. ledger'[u] = Append(ledger[u], row)
  BY <1>1, <1>2
<1>4. ledger[u] \in Seq(LedgerRow \cup {row})
  BY <1>1, SeqMonotonic
<1> HIDE DEF row
<1>5. /\ Len(Append(ledger[u], row)) = Len(ledger[u]) + 1
      /\ \A i \in 1..Len(ledger[u]) : Append(ledger[u], row)[i] = ledger[u][i]
      /\ Append(ledger[u], row)[Len(ledger[u]) + 1] = row
      /\ Append(ledger[u], row) \in Seq(LedgerRow \cup {row})
  BY <1>4, AppendProperties
<1>6. /\ Len(ledger[u]) \in Nat
      /\ DOMAIN ledger[u] = 1..Len(ledger[u])
      /\ DOMAIN ledger'[u] = 1..(Len(ledger[u]) + 1)
  BY <1>1, <1>3, <1>5, LenProperties
<1> QED
  BY <1>1, <1>2, <1>3, <1>5, <1>6 DEF row

(* The rows of a kind and a job after a Post: the new one is among them    *)
(* exactly when it is of that kind and job.                                *)
LEMMA PostPosts ==
  ASSUME TypeOK, NEW u \in Users, NEW kind, NEW j, NEW delta,
         Post(u, kind, j, delta), NEW v \in Users, NEW k, NEW i
  PROVE  /\ Posts(v, k, i)' = IF v = u /\ k = kind /\ i = j
                              THEN Posts(v, k, i) \cup {Len(ledger[u]) + 1}
                              ELSE Posts(v, k, i)
         /\ \A x \in Posts(v, k, i) : ledger'[v][x] = ledger[v][x]
<1>1. CASE v = u
  <2> DEFINE n == Len(ledger[u]) + 1
  <2>1. /\ Len(ledger[u]) \in Nat
        /\ DOMAIN ledger[u] = 1..Len(ledger[u])
        /\ DOMAIN ledger'[u] = 1..n
        /\ \A x \in 1..Len(ledger[u]) : ledger'[u][x] = ledger[u][x]
        /\ ledger'[u][n] =
             [kind |-> kind, job |-> j, delta |-> delta, after |-> balance[u] + delta]
    BY PostAppends
  <2>2. /\ Posts(v, k, i) = {x \in 1..Len(ledger[u]) : IsPost(ledger[u][x], k, i)}
        /\ Posts(v, k, i)' = {x \in 1..n : IsPost(ledger'[u][x], k, i)}
    <3>1. Posts(v, k, i) = {x \in 1..Len(ledger[u]) : IsPost(ledger[u][x], k, i)}
      BY <1>1, <2>1 DEF Posts
    <3>2. Posts(v, k, i)' = {x \in DOMAIN ledger'[u] : IsPost(ledger'[u][x], k, i)}
      BY <1>1 DEF Posts, IsPost
    <3> QED
      BY <2>1, <3>1, <3>2
  <2>3. IsPost(ledger'[u][n], k, i) <=> k = kind /\ i = j
    BY <2>1 DEF IsPost
  <2>4. \A x \in 1..Len(ledger[u]) : IsPost(ledger'[u][x], k, i) <=> IsPost(ledger[u][x], k, i)
    BY <2>1 DEF IsPost
  <2>5. 1..n = 1..Len(ledger[u]) \cup {n}
    BY <2>1
  <2>6. \A x \in Posts(v, k, i) : ledger'[v][x] = ledger[v][x]
    BY <1>1, <2>1, <2>2
  <2> HIDE DEF n
  <2>7. Posts(v, k, i)' = IF k = kind /\ i = j THEN Posts(v, k, i) \cup {n} ELSE Posts(v, k, i)
    BY <2>2, <2>3, <2>4, <2>5
  <2> QED
    BY <1>1, <2>6, <2>7 DEF n
<1>2. CASE v # u
  <2>1. ledger'[v] = ledger[v]
    BY <1>2, PostAppends
  <2>2. Posts(v, k, i)' = Posts(v, k, i)
    BY <2>1 DEF Posts, IsPost
  <2> QED
    BY <1>2, <2>1, <2>2 DEF Posts
<1> QED
  BY <1>1, <1>2

(* Post extends the audit trail by a row that continues it.                *)
LEMMA PostChain ==
  ASSUME TypeOK, LedgerChain, NEW u \in Users, NEW kind, NEW j, NEW delta,
         Post(u, kind, j, delta)
  PROVE  LedgerChain'
<1> SUFFICES ASSUME NEW v \in Users
             PROVE  Chained(ledger'[v], balance'[v])
  BY DEF LedgerChain
<1>1. CASE v # u
  BY <1>1, PostAppends DEF LedgerChain
<1>2. CASE v = u
  <2> DEFINE l == ledger[u]
             m == ledger'[u]
             n == Len(l)
  <2>1. /\ n \in Nat /\ Len(m) = n + 1
        /\ \A i \in 1..n : m[i] = l[i]
        /\ m[n+1] = [kind |-> kind, job |-> j, delta |-> delta, after |-> balance[u] + delta]
        /\ balance'[u] = balance[u] + delta
        /\ l \in Seq(LedgerRow)
        /\ DOMAIN m = 1..(n+1)
    BY PostAppends
  <2>2. /\ l # <<>> /\ l[1].after = l[1].delta
        /\ \A i \in 2..n : l[i].after = l[i-1].after + l[i].delta
        /\ l[n].after = balance[u]
    BY DEF LedgerChain, Chained
  <2>3. n >= 1
    BY <2>1, <2>2, EmptySeq
  <2> HIDE DEF l, m, n
  <2>4. m[1].after = m[1].delta
    BY <2>1, <2>2, <2>3
  <2>5. ASSUME NEW i \in 2..(n+1)
        PROVE  m[i].after = m[i-1].after + m[i].delta
    <3>1. CASE i \in 2..n
      BY <2>1, <2>2, <3>1
    <3>2. CASE i = n + 1
      <4>1. m[i-1] = l[n]
        BY <2>1, <2>3, <3>2
      <4> QED
        BY <2>1, <2>2, <3>2, <4>1
    <3> QED
      BY <2>1, <3>1, <3>2
  <2>6. m[n+1].after = balance'[u]
    BY <2>1
  <2>7. m # <<>>
    BY <2>1, <2>3
  <2> QED
    BY <1>2, <2>1, <2>4, <2>5, <2>6, <2>7 DEF l, m, Chained
<1> QED
  BY <1>1, <1>2

-----------------------------------------------------------------------------
(* The step of one job that is not closed yet.  Either it stays open and   *)
(* no money moves, or it closes with a charge within its reservation and   *)
(* the rest is returned.                                                   *)
StaysOpen(row) == row.status \notin Closed /\ row.consumed = Unset

ClosesWith(row) ==
  /\ row.status \in Closed
  /\ Charged(row) <= row.reserved
  /\ Metered(row) /\ row.status = "completed" => row.consumed = row.reserved

(* What a step does to the balances and to what the rows say is held.      *)
PromiseStep == [Promise!Next]_<<balance, Holds>>

LEMMA HoldsUnchanged ==
  ASSUME UNCHANGED jobs
  PROVE  UNCHANGED Holds
BY DEF Holds, HoldOf, Metered, Charged

(* Writing one row changes what is said to be held for that job only.      *)
LEMMA HoldsWritten ==
  ASSUME TypeOK, NEW j \in Jobs, NEW row, jobs' = [jobs EXCEPT ![j] = row]
  PROVE  /\ Holds' = [Holds EXCEPT ![j] = HoldOf(row)]
         /\ Holds[j] = HoldOf(jobs[j])
<1>1. \A i \in Jobs : jobs'[i] = IF i = j THEN row ELSE jobs[i]
  BY DEF TypeOK
<1>2. Holds' = [i \in Jobs |-> HoldOf(jobs'[i])]
  BY DEF Holds, HoldOf, Metered, Charged
<1>3. Holds = [i \in Jobs |-> HoldOf(jobs[i])]
  BY DEF Holds
<1> HIDE DEF Holds
<1>4. Holds' = [Holds EXCEPT ![j] = HoldOf(row)]
  BY <1>1, <1>2, <1>3
<1>5. Holds[j] = HoldOf(jobs[j])
  BY <1>3
<1> QED
  BY <1>4, <1>5

LEMMA SameHold ==
  ASSUME TypeOK, NEW j \in Jobs, NEW row, jobs' = [jobs EXCEPT ![j] = row],
         HoldOf(row) = HoldOf(jobs[j]), UNCHANGED balance
  PROVE  PromiseStep
<1>1. Holds' = Holds
  BY HoldsWritten DEF Holds
<1> QED
  BY <1>1 DEF PromiseStep

(* The step of one job that is not closed yet, as a step of the promise.   *)
LEMMA SettlementPromise ==
  ASSUME TypeOK, ReservationsOwned, NEW j \in Jobs, jobs[j].status \notin Closed,
         NEW row \in Row, row.owner = jobs[j].owner, row.reserved = jobs[j].reserved,
         jobs' = [jobs EXCEPT ![j] = row],
         \/ StaysOpen(row) /\ UNCHANGED <<balance, ledger>>
         \/ ClosesWith(row) /\ Refund(j, row.reserved - Charged(row))
  PROVE  PromiseStep
<1> DEFINE u      == row.owner
           price  == row.reserved
           cost   == Charged(row)
<1>1. price \in Nat /\ cost \in Nat
  BY DEF Row, Charged
<1>2. CASE ~Metered(row)
  <2>1. HoldOf(row) = HoldOf(jobs[j])
    BY <1>2 DEF HoldOf, Metered
  <2>2. UNCHANGED balance
    <3>1. ~(price - cost > 0)
      BY <1>1, <1>2 DEF Metered
    <3> QED
      BY <3>1 DEF Refund
  <2> QED
    BY <2>1, <2>2, SameHold
<1>3. CASE StaysOpen(row)
  <2>1. HoldOf(row) = HoldOf(jobs[j])
    BY <1>3 DEF HoldOf, Metered, StaysOpen
  <2>2. UNCHANGED balance
    BY <1>3 DEF StaysOpen, ClosesWith
  <2> QED
    BY <2>1, <2>2, SameHold
<1>4. CASE Metered(row) /\ ClosesWith(row)
  <2>1. /\ u \in Users /\ balance \in [Users -> Nat]
        /\ HoldOf(jobs[j]) = [stage |-> "held", user |-> u, price |-> price]
    BY <1>4 DEF ReservationsOwned, Metered, HoldOf, TypeOK
  <2>2. /\ Holds' = [Holds EXCEPT ![j] = HoldOf(row)]
        /\ Holds[j] = [stage |-> "held", user |-> u, price |-> price]
    BY <2>1, HoldsWritten
  <2>3. j \in Promise!Open
    BY <2>2 DEF Promise!Open
  <2>4. balance' = [balance EXCEPT ![u] = balance[u] + (price - cost)]
    <3>1. cost <= price
      BY <1>4 DEF ClosesWith
    <3>2. CASE price - cost > 0
      BY <1>4, <3>2 DEF Refund, Post, ClosesWith, StaysOpen
    <3>3. CASE price = cost
      <4>1. balance' = balance
        BY <1>1, <1>4, <3>3 DEF Refund, ClosesWith, StaysOpen
      <4>2. balance[u] + (price - cost) = balance[u]
        BY <1>1, <2>1, <3>3
      <4> QED
        BY <2>1, <4>1, <4>2
    <3> QED
      BY <1>1, <3>1, <3>2, <3>3
  <2>5. CASE row.status = "completed"
    <3>1. HoldOf(row) = [stage |-> "spent", user |-> u, price |-> price]
      BY <1>4, <2>5 DEF HoldOf, ClosesWith
    <3>2. balance' = balance
      <4>1. cost = price
        BY <1>4, <2>5 DEF ClosesWith, Charged, Row, Unset
      <4>2. balance[u] + (price - cost) = balance[u]
        BY <1>1, <2>1, <4>1
      <4> QED
        BY <2>1, <2>4, <4>2
    <3>3. Promise!Spend(j)
      BY <2>2, <3>1, <3>2 DEF Promise!Spend, Promise!Spent
    <3> QED
      BY <2>3, <3>3 DEF PromiseStep, Promise!Next
  <2>6. CASE row.status # "completed"
    <3>1. HoldOf(row) = [stage |-> "released", user |-> u, price |-> price, cost |-> cost]
      BY <1>4, <2>6 DEF HoldOf, ClosesWith
    <3>2. Promise!Release(j, cost)
      BY <2>2, <2>4, <3>1 DEF Promise!Release, Promise!Released
    <3>3. cost \in 0..Holds[j].price
      BY <1>1, <1>4, <2>2 DEF ClosesWith
    <3> QED
      BY <2>3, <3>2, <3>3 DEF PromiseStep, Promise!Next
  <2> QED
    BY <2>5, <2>6
<1> QED
  BY <1>2, <1>3, <1>4

LEMMA MoneyJobStep ==
  ASSUME TypeOK, MoneyInv, NEW j \in Jobs, jobs[j].status \notin Closed,
         NEW row \in Row, row.owner = jobs[j].owner, row.reserved = jobs[j].reserved,
         Exists(j), jobs' = [jobs EXCEPT ![j] = row],
         \/ StaysOpen(row) /\ UNCHANGED <<balance, ledger>>
         \/ ClosesWith(row) /\ Refund(j, row.reserved - Charged(row))
  PROVE  MoneyInv' /\ PromiseStep
<1> USE DEF MoneyInv
<1>1. jobs'[j] = row /\ \A i \in Jobs \ {j} : jobs'[i] = jobs[i]
  BY DEF TypeOK
<1>2. ReservationsOwned'
  BY <1>1 DEF ReservationsOwned, Metered
<1>3. \A u \in Users : Posts(u, "settlement_refund", j) = {}
  BY DEF SettledOnce
<1>4. /\ row.reserved \in Nat /\ row.status # "absent"
      /\ row.consumed \in Nat \cup {Unset} /\ Charged(row) \in Nat
      /\ row.owner \in Users \cup {None}
  BY DEF Row, Charged, Statuses, Terminal, Closed, Active, Queued
<1>8. PromiseStep
  BY SettlementPromise DEF ReservationsOwned
<1>5. CASE UNCHANGED <<balance, ledger>> /\ (ClosesWith(row) => Charged(row) >= row.reserved)
  <2>1. \A u \in Users : \A k, i : Posts(u, k, i)' = Posts(u, k, i)
    BY <1>5 DEF Posts, IsPost
  <2>2. LedgerChain'
    BY <1>5 DEF LedgerChain
  <2>3. ReservedOnce'
    BY <1>1, <1>5, <2>1 DEF ReservedOnce, Metered
  <2>4. SettledOnce'
    <3> SUFFICES ASSUME NEW i \in Jobs
                 PROVE  /\ jobs'[i].consumed # Unset => jobs'[i].status \in Closed
                        /\ Metered(jobs'[i]) /\ jobs'[i].status = "completed"
                             => jobs'[i].consumed = jobs'[i].reserved
                        /\ \A u \in Users :
                             /\ Posts(u, "settlement_refund", i) # {}
                                  <=> ( /\ jobs'[i].owner = u
                                        /\ jobs'[i].status \in Closed
                                        /\ Charged(jobs'[i]) < jobs'[i].reserved )
                             /\ \A x \in Posts(u, "settlement_refund", i) :
                                  ledger[u][x].delta = jobs'[i].reserved - Charged(jobs'[i])
                             /\ \A x, y \in Posts(u, "settlement_refund", i) : x = y
      BY <1>5, <2>1 DEF SettledOnce, Charged, Metered
    <3>1. CASE i = j
      <4>1. CASE StaysOpen(row)
        BY <1>1, <1>3, <3>1, <4>1 DEF StaysOpen, Closed
      <4>2. CASE ClosesWith(row)
        BY <1>1, <1>3, <1>4, <1>5, <3>1, <4>2 DEF ClosesWith
      <4> QED
        BY <4>1, <4>2
    <3>2. CASE i # j
      BY <1>1, <3>2 DEF SettledOnce
    <3> QED
      BY <3>1, <3>2
  <2> QED
    BY <1>2, <1>8, <2>2, <2>3, <2>4
<1>6. CASE ClosesWith(row) /\ Charged(row) < row.reserved
           /\ Refund(j, row.reserved - Charged(row))
  <2> DEFINE amount == row.reserved - Charged(row)
             n      == Len(ledger[row.owner]) + 1
  <2>1. amount \in Nat \ {0}
    BY <1>4, <1>6
  <2>2. row.owner \in Users
    BY <1>4, <1>6 DEF ReservationsOwned, Metered
  <2>3. Post(row.owner, "settlement_refund", j, amount)
    BY <1>6, <2>1 DEF Refund
  <2> HIDE DEF amount
  <2>4. LedgerChain'
    BY <2>2, <2>3, PostChain
  <2>5. \A u \in Users : \A k, i :
          /\ Posts(u, k, i)' = IF u = row.owner /\ k = "settlement_refund" /\ i = j
                               THEN Posts(u, k, i) \cup {n} ELSE Posts(u, k, i)
          /\ \A x \in Posts(u, k, i) : ledger'[u][x] = ledger[u][x]
    BY <2>2, <2>3, PostPosts
  <2>6. ledger'[row.owner][n].delta = amount
    <3>1. ledger'[row.owner][n] =
            [kind |-> "settlement_refund", job |-> j, delta |-> amount,
             after |-> balance[row.owner] + amount]
      BY <2>2, <2>3, PostAppends
    <3> QED
      BY <3>1
  <2> HIDE DEF n
  <2>7. ReservedOnce'
    <3>1. \A u \in Users : \A i :
             Posts(u, "authorization_reserve", i)' = Posts(u, "authorization_reserve", i)
      BY <2>5
    <3> QED
      BY <1>1, <2>5, <3>1 DEF ReservedOnce, Metered
  <2>8. SettledOnce'
    <3> SUFFICES ASSUME NEW i \in Jobs
                 PROVE  /\ jobs'[i].consumed # Unset => jobs'[i].status \in Closed
                        /\ Metered(jobs'[i]) /\ jobs'[i].status = "completed"
                             => jobs'[i].consumed = jobs'[i].reserved
                        /\ \A u \in Users :
                             /\ Posts(u, "settlement_refund", i)' # {}
                                  <=> ( /\ jobs'[i].owner = u
                                        /\ jobs'[i].status \in Closed
                                        /\ Charged(jobs'[i]) < jobs'[i].reserved )
                             /\ \A x \in Posts(u, "settlement_refund", i)' :
                                  ledger'[u][x].delta = jobs'[i].reserved - Charged(jobs'[i])
                             /\ \A x, y \in Posts(u, "settlement_refund", i)' : x = y
      BY DEF SettledOnce, Charged, Metered
    <3>1. CASE i = j
      <4>1. \A u \in Users : Posts(u, "settlement_refund", j)'
                              = IF u = row.owner THEN {n} ELSE {}
        BY <1>3, <2>5
      <4> QED
        BY <1>1, <1>6, <2>6, <3>1, <4>1 DEF ClosesWith, amount
    <3>2. CASE i # j
      <4>1. \A u \in Users : Posts(u, "settlement_refund", i)'
                              = Posts(u, "settlement_refund", i)
        BY <2>5, <3>2
      <4> QED
        BY <1>1, <2>5, <3>2, <4>1 DEF SettledOnce
    <3> QED
      BY <3>1, <3>2
  <2> QED
    BY <1>2, <1>8, <2>4, <2>7, <2>8
<1>7. CASE ClosesWith(row) /\ ~(Charged(row) < row.reserved)
           /\ Refund(j, row.reserved - Charged(row))
  BY <1>4, <1>5, <1>7 DEF Refund
<1> QED
  BY <1>5, <1>6, <1>7, <1>8 DEF StaysOpen, ClosesWith

LEMMA MoneyUnchanged ==
  ASSUME MoneyInv, UNCHANGED <<jobs, balance, ledger>>
  PROVE  MoneyInv' /\ PromiseStep
<1>1. MoneyInv'
  BY DEF MoneyInv, LedgerChain, ReservedOnce, SettledOnce, ReservationsOwned,
         Posts, IsPost, Metered, Charged
<1>2. PromiseStep
  BY HoldsUnchanged DEF PromiseStep
<1> QED
  BY <1>1, <1>2

(* A change of jobs that leaves closed jobs as they are, and every job its *)
(* owner, its printer and its reservation.                                 *)
KeepsJobs ==
  \A i \in Jobs :
    /\ jobs[i].status \in Closed => jobs'[i] = jobs[i]
    /\ Exists(i) => /\ Exists(i)'
                    /\ jobs'[i].owner = jobs[i].owner
                    /\ jobs'[i].printer = jobs[i].printer
                    /\ jobs'[i].reserved = jobs[i].reserved

LEMMA UnchangedKeepsJobs ==
  ASSUME jobs' = jobs
  PROVE  KeepsJobs
BY DEF KeepsJobs, Exists

(* Writing an open job's row with the same owner, printer and reservation. *)
LEMMA WriteKeepsJobs ==
  ASSUME TypeOK, NEW j \in Jobs, NEW row \in Row, jobs' = [jobs EXCEPT ![j] = row],
         jobs[j].status \notin Closed,
         Exists(j) => /\ row.owner = jobs[j].owner
                      /\ row.printer = jobs[j].printer
                      /\ row.reserved = jobs[j].reserved
  PROVE  KeepsJobs
<1>1. jobs'[j] = row /\ \A i \in Jobs \ {j} : jobs'[i] = jobs[i]
  BY DEF TypeOK
<1>2. row.status # "absent"
  BY DEF Row, Statuses, Terminal, Closed, Active, Queued
<1> QED
  BY <1>1, <1>2 DEF KeepsJobs, Exists

(* ApplyJobResult settles a job it closes and touches no closed one.       *)
LEMMA MoneyApplyJobResult ==
  ASSUME TypeOK, MoneyInv, NEW j \in Jobs, Exists(j),
         NEW status \in {"processing", "failed", "unconfirmed"}, NEW code \in Codes,
         ApplyJobResult(j, status, code)
  PROVE  MoneyInv' /\ KeepsJobs /\ PromiseStep
<1>1. CASE Immutable(jobs[j])
  BY <1>1, MoneyUnchanged, UnchangedKeepsJobs DEF ApplyJobResult
<1>2. CASE ~Immutable(jobs[j])
  <2> DEFINE c == IF status \in {"processing", "completed"} THEN "" ELSE code
             row == Moved(jobs[j], status, c)
  <2>1. jobs' = [jobs EXCEPT ![j] = row] /\ jobs[j].status \notin Closed
    BY <1>2 DEF ApplyJobResult, Immutable
  <2>2. jobs[j] \in Row /\ jobs[j].consumed = Unset
    BY <2>1, ExistingRow DEF MoneyInv, SettledOnce
  <2>3. /\ row \in Row /\ row.status = status
        /\ row.owner = jobs[j].owner /\ row.reserved = jobs[j].reserved
        /\ row.consumed = jobs[j].consumed /\ row.printer = jobs[j].printer
    <3>1. c \in Codes /\ status \in Statuses
      BY DEF Codes, Statuses, Terminal, Closed, Active
    <3> HIDE DEF c
    <3> QED
      BY <2>2, <3>1, MovedTypes
  <2> HIDE DEF row
  <2>4. KeepsJobs
    BY <2>1, <2>3, WriteKeepsJobs
  <2>5. CASE status = "failed"
    <3>1. Refund(j, jobs[j].reserved - Charged(jobs[j]))
      BY <1>2, <2>5 DEF ApplyJobResult
    <3>2. Charged(row) = Charged(jobs[j]) /\ Charged(row) = 0 /\ row.reserved \in Nat
      BY <2>2, <2>3 DEF Charged, Row
    <3>3. ClosesWith(row)
      BY <2>3, <2>5, <3>2 DEF ClosesWith, Closed
    <3> QED
      BY <2>1, <2>3, <2>4, <3>1, <3>2, <3>3, MoneyJobStep
  <2>6. CASE status # "failed"
    <3>1. UNCHANGED <<balance, ledger>>
      BY <1>2, <2>6 DEF ApplyJobResult
    <3>2. StaysOpen(row)
      BY <2>2, <2>3, <2>6 DEF StaysOpen, Closed
    <3> QED
      BY <2>1, <2>3, <2>4, <3>1, <3>2, MoneyJobStep
  <2> QED
    BY <2>5, <2>6
<1> QED
  BY <1>1, <1>2

(* An accepted report charges what it reports and returns the rest.        *)
LEMMA MoneyAcceptReport ==
  ASSUME TypeInv, MoneyInv, NEW h \in Handlers, AcceptReport(h)
  PROVE  MoneyInv' /\ KeepsJobs /\ PromiseStep
<1> DEFINE r == handler[h].report
           row == jobs[r.job]
           new == SettledRow(row, r)
<1>1. /\ handler[h] # Idle /\ handler[h].stage = "unreceipted"
      /\ ~Refused(row, r)
  BY BusyHandler DEF AcceptReport
<1>2. /\ r \in Report /\ r.job \in Jobs /\ r.consumed \in Nat
  BY <1>1, HandlerReport, ModelConstants DEF TypeInv
<1>3. Exists(r.job) /\ r.status \in Terminal /\ row \in Row
  BY <1>1, <1>2, ExistingRow DEF TypeInv, WorkOnExisting
<1>4. CASE Immutable(row)
  BY <1>4, MoneyUnchanged, UnchangedKeepsJobs DEF AcceptReport
<1>5. CASE ~Immutable(row)
  <2>1. jobs' = [jobs EXCEPT ![r.job] = new] /\ row.status \notin Closed
    BY <1>5 DEF AcceptReport, Immutable
  <2>2. row.consumed = Unset
    BY <1>2, <2>1 DEF MoneyInv, SettledOnce
  <2>3. /\ new \in Row /\ new.status = r.status
        /\ new.owner = row.owner /\ new.reserved = row.reserved
        /\ new.printer = row.printer
        /\ new.consumed = IF MeteredResult(row, r) THEN r.consumed ELSE row.consumed
    BY <1>2, <1>3, SettledRowTypes
  <2>4. KeepsJobs
    BY <1>2, <2>1, <2>3, WriteKeepsJobs DEF TypeInv
  <2> HIDE DEF new
  <2>5. CASE MeteredResult(row, r)
    <3>1. Refund(r.job, row.reserved - r.consumed)
      BY <1>5, <2>5 DEF AcceptReport
    <3>2. ValidUsage(row, r)
      BY <1>1, <1>5, <2>5 DEF Refused, MeteredResult
    <3>3. Charged(new) = r.consumed
      BY <1>2, <2>3, <2>5 DEF Charged, Unset
    <3>4. ClosesWith(new)
      BY <1>3, <2>3, <2>5, <3>2, <3>3 DEF ClosesWith, ValidUsage, MeteredResult, Terminal
    <3> QED
      BY <1>2, <1>3, <2>1, <2>3, <2>4, <3>1, <3>3, <3>4, MoneyJobStep DEF TypeInv
  <2>6. CASE ~MeteredResult(row, r)
    <3>1. UNCHANGED <<balance, ledger>> /\ new.consumed = Unset
      BY <1>5, <2>2, <2>3, <2>6 DEF AcceptReport
    <3>2. CASE r.status = "unconfirmed"
      <4>1. StaysOpen(new)
        BY <2>3, <3>1, <3>2 DEF StaysOpen, Closed
      <4> QED
        BY <1>2, <1>3, <2>1, <2>3, <2>4, <3>1, <4>1, MoneyJobStep DEF TypeInv
    <3>3. CASE r.status # "unconfirmed"
      <4>1. new.reserved = 0 /\ Charged(new) = 0 /\ ~Metered(new)
        BY <1>3, <2>3, <2>6, <3>1, <3>3 DEF MeteredResult, Metered, Row, Charged
      <4>2. ClosesWith(new) /\ Refund(r.job, new.reserved - Charged(new))
        BY <1>3, <2>3, <3>1, <3>3, <4>1 DEF ClosesWith, Refund, Terminal
      <4> QED
        BY <1>2, <1>3, <2>1, <2>3, <2>4, <4>2, MoneyJobStep DEF TypeInv
    <3> QED
      BY <3>2, <3>3
  <2> QED
    BY <2>5, <2>6
<1> QED
  BY <1>4, <1>5

(* Marking a dispatch keeps closed jobs and moves no money.                *)
LEMMA MoneyDispatch ==
  ASSUME TypeInv, MoneyInv, NEW j \in Jobs,
         \/ StartDispatch(j) \/ MarkDispatched(j)
         \/ ApplyDispatchUnconfirmed(j) \/ FailDispatch(j)
  PROVE  MoneyInv' /\ KeepsJobs /\ PromiseStep
<1> USE DEF stored
<1>1. CASE StartDispatch(j)
  BY <1>1, MoneyUnchanged, UnchangedKeepsJobs DEF StartDispatch
<1>2. ASSUME EndDispatch(j) PROVE Exists(j)
  BY <1>2 DEF EndDispatch, TypeInv, WorkOnExisting
<1>3. CASE FailDispatch(j)
  <2>1. Exists(j) /\ "other" \in Codes /\ ApplyJobResult(j, "failed", "other")
    BY <1>2, <1>3 DEF FailDispatch, Codes
  <2> QED
    BY <2>1, MoneyApplyJobResult DEF TypeInv
<1>4. CASE MarkDispatched(j) \/ ApplyDispatchUnconfirmed(j)
  <2>1. Exists(j) /\ UNCHANGED <<balance, ledger>>
    BY <1>2, <1>4 DEF MarkDispatched, ApplyDispatchUnconfirmed
  <2>2. CASE jobs' = jobs
    BY <2>1, <2>2, MoneyUnchanged, UnchangedKeepsJobs
  <2>3. CASE jobs' # jobs
    <3>1. PICK status \in {"dispatched", "unconfirmed"}, code \in Codes :
            /\ jobs[j].status = "pending"
            /\ jobs' = [jobs EXCEPT ![j] = Moved(jobs[j], status, code)]
      BY <1>4, <2>3 DEF MarkDispatched, ApplyDispatchUnconfirmed, Codes
    <3> DEFINE row == Moved(jobs[j], status, code)
    <3>2. /\ jobs[j] \in Row /\ status \in Statuses
          /\ jobs[j].status \notin Closed
      BY <2>1, <3>1, ExistingRow DEF TypeInv, Statuses, Active, Queued, Terminal, Closed
    <3>3. jobs[j].consumed = Unset
      BY <3>2 DEF MoneyInv, SettledOnce
    <3>4. /\ row \in Row /\ row.status = status
          /\ row.owner = jobs[j].owner /\ row.reserved = jobs[j].reserved
          /\ row.consumed = jobs[j].consumed /\ row.printer = jobs[j].printer
      BY <3>2, MovedTypes
    <3> HIDE DEF row
    <3>7. jobs' = [jobs EXCEPT ![j] = row]
      BY <3>1 DEF row
    <3>5. StaysOpen(row)
      BY <3>3, <3>4 DEF StaysOpen, Closed
    <3>6. KeepsJobs
      BY <3>2, <3>4, <3>7, WriteKeepsJobs DEF TypeInv
    <3> QED
      BY <2>1, <3>2, <3>4, <3>5, <3>6, <3>7, MoneyJobStep DEF TypeInv
  <2> QED
    BY <2>2, <2>3
<1> QED
  BY <1>1, <1>3, <1>4

(* A grant, an authorization and a job without quota keep the money right. *)
LEMMA MoneyQuota ==
  ASSUME TypeInv, MoneyInv, QuotaStep
  PROVE  MoneyInv' /\ KeepsJobs /\ PromiseStep
<1>1. ASSUME NEW u \in Users, NEW a \in GrantAmounts, Grant(u, a)
      PROVE  MoneyInv' /\ KeepsJobs /\ PromiseStep
  <2>1. jobs' = jobs /\ Post(u, "admin_grant", None, a)
    BY <1>1 DEF Grant
  <2>2. \A v \in Users, k \in {"authorization_reserve", "settlement_refund"} : \A i :
          /\ Posts(v, k, i)' = Posts(v, k, i)
          /\ \A x \in Posts(v, k, i) : ledger'[v][x] = ledger[v][x]
    BY <2>1, PostPosts DEF TypeInv
  <2>3. LedgerChain'
    BY <2>1, PostChain DEF TypeInv, MoneyInv
  <2>4. ReservedOnce'
    BY <2>1, <2>2 DEF MoneyInv, ReservedOnce, Metered
  <2>5. SettledOnce'
    BY <2>1, <2>2 DEF MoneyInv, SettledOnce, Metered, Charged
  <2>6. PromiseStep
    <3>1. Promise!Grant(u, a)
      BY <2>1, HoldsUnchanged DEF Post, Promise!Grant
    <3> QED
      BY <3>1 DEF PromiseStep, Promise!Next
  <2> QED
    BY <2>1, <2>3, <2>4, <2>5, <2>6, UnchangedKeepsJobs
       DEF MoneyInv, ReservationsOwned, Metered
<1>2. ASSUME NEW j \in Jobs, NEW u \in Users, NEW p \in Printers, NEW d \in Documents,
             Authorize(j, u, p, d)
      PROVE  MoneyInv' /\ KeepsJobs /\ PromiseStep
  <2> DEFINE price == QuotaUsage(d)
             n     == Len(ledger[u]) + 1
             row   == [status |-> "pending", code |-> "", owner |-> u, printer |-> p,
                       doc |-> d, reserved |-> price, consumed |-> Unset,
                       impressions |-> Unset]
  <2>1. price \in Nat \ {0}
    BY PriceOfDocuments
  <2>2. jobs[j].status \notin Closed /\ ~Metered(jobs[j])
    BY <1>2, AbsentRow DEF Authorize, Reservable, TypeInv
  <2>3. /\ jobs' = [jobs EXCEPT ![j] = row]
        /\ Post(u, "authorization_reserve", j, -price)
    BY <1>2 DEF Authorize
  <2>4. /\ row.status = "pending" /\ row.owner = u /\ row.reserved = price
        /\ row.consumed = Unset
    OBVIOUS
  <2> HIDE DEF price, row
  <2>5. jobs'[j] = row /\ \A i \in Jobs \ {j} : jobs'[i] = jobs[i]
    BY <2>3 DEF TypeInv, TypeOK
  <2>6. \A v \in Users : \A k, i :
          /\ Posts(v, k, i)' = IF v = u /\ k = "authorization_reserve" /\ i = j
                               THEN Posts(v, k, i) \cup {n} ELSE Posts(v, k, i)
          /\ \A x \in Posts(v, k, i) : ledger'[v][x] = ledger[v][x]
    BY <2>3, PostPosts DEF TypeInv
  <2>7. ledger'[u][n].delta = -price
    <3>1. ledger'[u][n] = [kind |-> "authorization_reserve", job |-> j, delta |-> -price,
                           after |-> balance[u] + (-price)]
      BY <2>3, PostAppends DEF TypeInv
    <3> QED
      BY <3>1
  <2> HIDE DEF n
  <2>8. LedgerChain'
    BY <2>3, PostChain DEF TypeInv, MoneyInv
  <2>9. ReservedOnce'
    <3> SUFFICES ASSUME NEW v \in Users, NEW i \in Jobs
                 PROVE  /\ Posts(v, "authorization_reserve", i)' # {}
                             <=> (Metered(jobs'[i]) /\ jobs'[i].owner = v)
                        /\ \A x \in Posts(v, "authorization_reserve", i)' :
                             ledger'[v][x].delta = -jobs'[i].reserved
                        /\ \A x, y \in Posts(v, "authorization_reserve", i)' : x = y
      BY DEF ReservedOnce, Metered
    <3>1. CASE i = j
      <4>1. Posts(v, "authorization_reserve", j) = {}
        BY <2>2 DEF MoneyInv, ReservedOnce
      <4>2. Posts(v, "authorization_reserve", j)' = IF v = u THEN {n} ELSE {}
        BY <2>6, <4>1
      <4> QED
        BY <2>1, <2>4, <2>5, <2>7, <3>1, <4>2 DEF Metered
    <3>2. CASE i # j
      <4>1. Posts(v, "authorization_reserve", i)' = Posts(v, "authorization_reserve", i)
        BY <2>6, <3>2
      <4> QED
        BY <2>5, <2>6, <3>2, <4>1 DEF MoneyInv, ReservedOnce, Metered
    <3> QED
      BY <3>1, <3>2
  <2>10. SettledOnce'
    <3>1. \A v \in Users : \A i : /\ Posts(v, "settlement_refund", i)' = Posts(v, "settlement_refund", i)
                                  /\ \A x \in Posts(v, "settlement_refund", i) :
                                        ledger'[v][x] = ledger[v][x]
      BY <2>6
    <3>2. \A v \in Users : Posts(v, "settlement_refund", j) = {}
      BY <2>2 DEF MoneyInv, SettledOnce
    <3>3. row.status \notin Closed
      BY <2>4 DEF Closed
    <3> SUFFICES ASSUME NEW i \in Jobs
                 PROVE  /\ jobs'[i].consumed # Unset => jobs'[i].status \in Closed
                        /\ Metered(jobs'[i]) /\ jobs'[i].status = "completed"
                             => jobs'[i].consumed = jobs'[i].reserved
                        /\ \A v \in Users :
                             /\ Posts(v, "settlement_refund", i) # {}
                                  <=> ( /\ jobs'[i].owner = v
                                        /\ jobs'[i].status \in Closed
                                        /\ Charged(jobs'[i]) < jobs'[i].reserved )
                             /\ \A x \in Posts(v, "settlement_refund", i) :
                                  ledger[v][x].delta = jobs'[i].reserved - Charged(jobs'[i])
                             /\ \A x, y \in Posts(v, "settlement_refund", i) : x = y
      BY <3>1 DEF SettledOnce, Metered, Charged
    <3>4. CASE i = j
      BY <2>4, <2>5, <3>2, <3>3, <3>4
    <3>5. CASE i # j
      BY <2>5, <3>5 DEF MoneyInv, SettledOnce
    <3> QED
      BY <3>4, <3>5
  <2>11. ReservationsOwned'
    BY <2>4, <2>5 DEF MoneyInv, ReservationsOwned, Metered
  <2>12. KeepsJobs
    <3>1. ~Exists(j) /\ jobs' = [jobs EXCEPT ![j] = row]
      BY <1>2, <2>3 DEF Authorize, Reservable
    <3>2. row \in Row
      BY <2>1 DEF row, Row, Statuses, Active, Queued, Codes
    <3> QED
      BY <2>2, <3>1, <3>2, WriteKeepsJobs DEF TypeInv
  <2>13. PromiseStep
    <3>1. HoldOf(row) = [stage |-> "held", user |-> u, price |-> price]
      BY <2>1, <2>4 DEF HoldOf, Metered, Closed
    <3>2. /\ Holds' = [Holds EXCEPT ![j] = HoldOf(row)]
          /\ Holds[j] = [stage |-> "free"]
      BY <2>2, <2>3, HoldsWritten DEF TypeInv, HoldOf
    <3>3. balance \in [Users -> Nat] /\ price <= balance[u]
      BY <1>2 DEF Authorize, Reservable, TypeInv, TypeOK, price
    <3>4. balance' = [balance EXCEPT ![u] = balance[u] - price]
      <4>1. balance[u] + (-price) = balance[u] - price
        BY <2>1, <3>3
      <4> QED
        BY <2>3, <4>1 DEF Post
    <3>5. Promise!Hold(j, u, price)
      BY <3>1, <3>2, <3>4 DEF Promise!Hold, Promise!NoHold, Promise!Held
    <3>6. price \in 1..balance[u]
      BY <2>1, <3>3
    <3> QED
      BY <3>5, <3>6 DEF PromiseStep, Promise!Next
  <2> QED
    BY <2>8, <2>9, <2>10, <2>11, <2>12, <2>13 DEF MoneyInv
<1>3. ASSUME NEW j \in Jobs, NEW p \in Printers, SubmitPrintParams(j, p)
      PROVE  MoneyInv' /\ KeepsJobs /\ PromiseStep
  <2>1. jobs[j].status \notin Closed /\ ~Metered(jobs[j])
    BY <1>3, AbsentRow DEF SubmitPrintParams, TypeInv
  <2>2. /\ jobs'[j].status = "pending" /\ jobs'[j].owner = None /\ jobs'[j].reserved = 0
        /\ jobs'[j].consumed = Unset
        /\ \A i \in Jobs \ {j} : jobs'[i] = jobs[i]
        /\ UNCHANGED <<balance, ledger>>
    BY <1>3 DEF SubmitPrintParams, TypeInv, TypeOK
  <2>3. \A u \in Users : \A k, i : Posts(u, k, i)' = Posts(u, k, i)
    BY <2>2 DEF Posts, IsPost
  <2>4. LedgerChain'
    BY <2>2 DEF MoneyInv, LedgerChain
  <2>5. ReservedOnce'
    <3>1. \A u \in Users : Posts(u, "authorization_reserve", j) = {}
      BY <2>1 DEF MoneyInv, ReservedOnce
    <3> QED
      BY <2>2, <2>3, <3>1 DEF MoneyInv, ReservedOnce, Metered
  <2>6. SettledOnce'
    <3>1. \A u \in Users : Posts(u, "settlement_refund", j) = {}
      BY <2>1 DEF MoneyInv, SettledOnce
    <3> QED
      BY <2>2, <2>3, <3>1 DEF MoneyInv, SettledOnce, Metered, Charged, Closed
  <2>7. ReservationsOwned'
    BY <2>2 DEF MoneyInv, ReservationsOwned, Metered
  <2>8. KeepsJobs
    <3> DEFINE row == [status |-> "pending", code |-> "", owner |-> None, printer |-> p,
                       doc |-> None, reserved |-> 0, consumed |-> Unset,
                       impressions |-> Unset]
    <3>1. ~Exists(j) /\ jobs' = [jobs EXCEPT ![j] = row]
      BY <1>3 DEF SubmitPrintParams
    <3>2. row \in Row
      BY DEF Row, Statuses, Active, Queued, Codes
    <3> HIDE DEF row
    <3> QED
      BY <2>1, <3>1, <3>2, WriteKeepsJobs DEF TypeInv
  <2>9. PromiseStep
    <3> DEFINE row == [status |-> "pending", code |-> "", owner |-> None, printer |-> p,
                       doc |-> None, reserved |-> 0, consumed |-> Unset,
                       impressions |-> Unset]
    <3>1. jobs' = [jobs EXCEPT ![j] = row] /\ UNCHANGED balance
      BY <1>3 DEF SubmitPrintParams
    <3>2. HoldOf(row) = HoldOf(jobs[j])
      BY <2>1 DEF HoldOf, Metered
    <3> HIDE DEF row
    <3> QED
      BY <3>1, <3>2, SameHold DEF TypeInv
  <2> QED
    BY <2>4, <2>5, <2>6, <2>7, <2>8, <2>9 DEF MoneyInv
<1> QED
  BY <1>1, <1>2, <1>3 DEF QuotaStep

(* Every step keeps the money right and the closed jobs closed.            *)
LEMMA MoneyStep ==
  ASSUME TypeInv, MoneyInv, [Next]_vars
  PROVE  MoneyInv' /\ KeepsJobs /\ PromiseStep
<1> USE DEF stored
<1>1. CASE QuotaStep
  BY <1>1, MoneyQuota
<1>2. CASE DispatchStep
  BY <1>2, MoneyDispatch DEF DispatchStep
<1>3. CASE ReportStep
  <2>1. ASSUME NEW h \in Handlers, ApplyProcessing(h)
        PROVE  MoneyInv' /\ KeepsJobs /\ PromiseStep
    <3>1. handler[h] # Idle
      BY <2>1, BusyHandler DEF ApplyProcessing
    <3> QED
      BY <2>1, <3>1, HandlerReport, MoneyApplyJobResult
         DEF ApplyProcessing, TypeInv, WorkOnExisting
  <2>2. ASSUME UNCHANGED <<jobs, balance, ledger>>
        PROVE  MoneyInv' /\ KeepsJobs /\ PromiseStep
    BY <2>2, MoneyUnchanged, UnchangedKeepsJobs
  <2> QED
    BY <1>3, <2>1, <2>2, MoneyAcceptReport
       DEF ReportStep, HandlerStep, RefuseUnowned, Receive, AnswerFromReceipt,
           FindNoReceipt, RejectReport, Abandon
<1>4. CASE MaintenanceStep
  <2>1. ASSUME NEW t \in Tasks, NEW j \in Jobs, SettleListed(t, j)
        PROVE  MoneyInv' /\ KeepsJobs /\ PromiseStep
    <3>1. /\ Exists(j)
          /\ "print_timeout_unconfirmed" \in Codes /\ "other" \in Codes
          /\ \/ ApplyJobResult(j, "unconfirmed", "print_timeout_unconfirmed")
             \/ ApplyJobResult(j, "failed", "other")
      BY <2>1 DEF SettleListed, TypeInv, WorkOnExisting, Codes
    <3> QED
      BY <3>1, MoneyApplyJobResult DEF TypeInv
  <2>2. ASSUME UNCHANGED <<jobs, balance, ledger>>
        PROVE  MoneyInv' /\ KeepsJobs /\ PromiseStep
    BY <2>2, MoneyUnchanged, UnchangedKeepsJobs
  <2> QED
    BY <1>4, <2>1, <2>2
       DEF MaintenanceStep, DeletePrinters, ListStale, ListActiveJobs, AbandonTask,
           CloseLockAlert, Restart
<1>5. CASE UNCHANGED vars
  BY <1>5, MoneyUnchanged, UnchangedKeepsJobs DEF vars
<1> QED
  BY <1>1, <1>2, <1>3, <1>4, <1>5 DEF Next

LEMMA MoneyInit == Init => MoneyInv
<1> SUFFICES ASSUME Init PROVE MoneyInv
  OBVIOUS
<1>1. \A j \in Jobs : /\ jobs[j].status = "absent" /\ jobs[j].reserved = 0
                      /\ jobs[j].consumed = Unset
  BY DEF Init, NoRow
<1>2. \A u \in Users : /\ Len(ledger[u]) = 1 /\ DOMAIN ledger[u] = 1..1
                       /\ ledger[u] # <<>>
                       /\ ledger[u][1].kind = "initial_grant"
                       /\ ledger[u][1].delta = InitialQuota
                       /\ ledger[u][1].after = InitialQuota
                       /\ balance[u] = InitialQuota
  BY DEF Init
<1>3. \A u \in Users, j \in Jobs, k \in {"authorization_reserve", "settlement_refund"} :
         Posts(u, k, j) = {}
  BY <1>2 DEF Posts, IsPost
<1>4. LedgerChain
  BY <1>2 DEF LedgerChain, Chained
<1>5. ReservedOnce /\ ReservationsOwned
  BY <1>1, <1>3 DEF ReservedOnce, ReservationsOwned, Metered
<1>6. SettledOnce
  BY <1>1, <1>3 DEF SettledOnce, Metered, Charged, Closed
<1> QED
  BY <1>4, <1>5, <1>6 DEF MoneyInv

(* The quota's audit trail: every ledger adds up, a reservation is taken   *)
(* once for its whole price, and it is settled once, whatever timeouts,    *)
(* dispatch failures, lifecycle settlements, retried reports and restarts  *)
(* compete for the job.                                                    *)
THEOREM QuotaSettlement == Spec => [](LedgerChain /\ ReservedOnce /\ SettledOnce)
<1>1. Init => TypeInv /\ MoneyInv
  BY TypeInvInit, MoneyInit
<1>2. TypeInv /\ MoneyInv /\ [Next]_vars => (TypeInv /\ MoneyInv)'
  BY TypeInvStep, MoneyStep
<1>3. MoneyInv => LedgerChain /\ ReservedOnce /\ SettledOnce
  BY DEF MoneyInv
<1> QED
  BY <1>1, <1>2, <1>3, PTL DEF Spec

(* The rows of a user's ledger chain from the initial grant to the current *)
(* balance: no post of Authorize, a grant or a settlement is lost or made  *)
(* from a balance that was read too early.                                 *)
THEOREM LedgerAddsUp == Spec => []LedgerChain
BY QuotaSettlement, PTL

(* The ledgers hold one reservation and one settlement of a metered job,   *)
(* however often its creation and its reports are repeated.                *)
THEOREM JobsArePostedOnce == Spec => []QuotaPostedOnce
<1>1. ReservedOnce /\ SettledOnce => QuotaPostedOnce
  BY DEF QuotaPostedOnce
<1> QED
  BY <1>1, QuotaSettlement, PTL

(* Every authorization, grant, report, dispatch outcome, timeout and       *)
(* settlement is a step of the quota's promise: a price is held out of     *)
(* what its user has, and is spent, or goes back to that user, once.       *)
THEOREM QuotaKeepsPromise == Spec => KeepsQuotaPromise
<1>1. Init => TypeInv /\ MoneyInv /\ Promise!Init
  <2>1. Init => Promise!Init
    <3>1. HoldOf(NoRow) = [stage |-> "free"]
      BY DEF HoldOf, Metered, NoRow
    <3>2. Init => /\ balance = [u \in Users |-> InitialQuota]
                  /\ \A j \in Jobs : jobs[j] = NoRow
      BY DEF Init
    <3> QED
      BY <3>1, <3>2 DEF Promise!Init, Promise!NoHold, Holds
  <2> QED
    BY <2>1, TypeInvInit, MoneyInit
<1>2. TypeInv /\ MoneyInv /\ [Next]_vars =>
        (TypeInv /\ MoneyInv)' /\ [Promise!Next]_<<balance, Holds>>
  BY TypeInvStep, MoneyStep DEF PromiseStep
<1> QED
  BY <1>1, <1>2, PTL DEF Spec, KeepsQuotaPromise, Promise!Spec

(* A closed job never changes again, and no job changes hands.             *)
THEOREM ClosedJobsAreFinal == Spec => ClosedIsFinal
<1>1. Init => TypeInv /\ MoneyInv
  BY TypeInvInit, MoneyInit
<1>2. TypeInv /\ MoneyInv /\ [Next]_vars => (TypeInv /\ MoneyInv)'
  BY TypeInvStep, MoneyStep
<1>3. TypeInv /\ MoneyInv /\ [Next]_vars =>
        [\A j \in Jobs :
           /\ jobs[j].status \in Closed => jobs'[j] = jobs[j]
           /\ Exists(j) => /\ jobs'[j].owner = jobs[j].owner
                           /\ jobs'[j].printer = jobs[j].printer
                           /\ jobs'[j].reserved = jobs[j].reserved]_vars
  BY MoneyStep DEF KeepsJobs
<1> QED
  BY <1>1, <1>2, <1>3, PTL DEF Spec, ClosedIsFinal

-----------------------------------------------------------------------------
(* Receipts.  A receipt is of the event it is filed under, and it and the  *)
(* handlers' reports come from the node of the job's printer.  A closing   *)
(* report that was answered "accepted" has its receipt.                    *)
FromOwner(r) == Exists(r.job) /\ NodeOf[jobs[r.job].printer] = r.node

ReceiptInv ==
  /\ \A e \in Events : receipts[e] # None =>
       FromOwner(receipts[e]) /\ receipts[e].event = e
  /\ \A h \in Handlers : handler[h] # Idle => FromOwner(handler[h].report)
  /\ \A r \in Reports :
       verdict[r] = "accepted" /\ r.status \in Closed => receipts[r.event] = r
  /\ ReceiptHonoured

RetryInv == TypeInv /\ MoneyInv /\ ReceiptInv

(* The fields of a report.                                                 *)
LEMMA ReportFields ==
  ASSUME NEW r \in Reports
  PROVE  /\ r \in Report /\ r # None /\ r.event \in Events /\ r.job \in Jobs
         /\ r.status \in Terminal \cup {"processing"}
<1>1. r \in Report /\ r # None
  BY ModelConstants
<1> QED
  BY <1>1 DEF Report

(* A step that writes no receipt and accepts nothing without one.          *)
LEMMA ReceiptsKept ==
  ASSUME TypeInv, ReceiptInv, KeepsJobs, UNCHANGED receipts,
         \A h \in Handlers : handler'[h] # Idle =>
           /\ handler'[h].report \in Reports
           /\ \/ handler[h] # Idle /\ handler'[h].report = handler[h].report
              \/ FromOwner(handler'[h].report),
         \A r \in Reports : verdict'[r] = "accepted" =>
           verdict[r] = "accepted" \/ receipts[r.event] = r
  PROVE  ReceiptInv'
<1>1. ASSUME NEW e \in Events, receipts[e] # None
      PROVE  receipts[e] \in Reports
  BY <1>1 DEF TypeInv, TypeOK
<1>2. \A e \in Events : receipts'[e] # None =>
        FromOwner(receipts[e])' /\ receipts'[e].event = e
  <2> SUFFICES ASSUME NEW e \in Events, receipts[e] # None
               PROVE  FromOwner(receipts[e])' /\ receipts[e].event = e
    OBVIOUS
  <2>1. FromOwner(receipts[e]) /\ receipts[e].event = e /\ receipts[e] \in Reports
    BY <1>1 DEF ReceiptInv
  <2>2. FromOwner(receipts[e])'
    <3> DEFINE r == receipts[e]
    <3>1. r' = r
      OBVIOUS
    <3>2. r.job \in Jobs
      BY <2>1, ReportFields
    <3>3. Exists(r.job) => Exists(r.job)' /\ jobs'[r.job].printer = jobs[r.job].printer
      BY <3>2 DEF KeepsJobs, Exists
    <3> QED
      BY <2>1, <3>1, <3>3 DEF FromOwner, Exists
  <2> QED
    BY <2>1, <2>2
<1>3. \A h \in Handlers : handler'[h] # Idle => FromOwner(handler[h].report)'
  <2> SUFFICES ASSUME NEW h \in Handlers, handler'[h] # Idle
               PROVE  FromOwner(handler[h].report)'
    OBVIOUS
  <2> DEFINE r == handler'[h].report
  <2>1. r \in Reports /\ FromOwner(r)
    BY DEF ReceiptInv
  <2>2. r.job \in Jobs
    BY <2>1, ReportFields
  <2>3. Exists(r.job) => jobs'[r.job].status # "absent" /\ jobs'[r.job].printer = jobs[r.job].printer
    BY <2>2 DEF KeepsJobs, Exists
  <2> QED
    BY <2>1, <2>3 DEF FromOwner, Exists
<1>4. \A r \in Reports :
        verdict'[r] = "accepted" /\ r.status \in Closed => receipts'[r.event] = r
  BY DEF ReceiptInv
<1>5. ReceiptHonoured'
  <2> SUFFICES ASSUME NEW e \in Events, receipts[e] # None, receipts[e].status \in Closed
               PROVE  /\ jobs'[receipts[e].job].status = receipts[e].status
                      /\ Metered(jobs'[receipts[e].job]) =>
                           /\ jobs'[receipts[e].job].consumed = receipts[e].consumed
                           /\ jobs'[receipts[e].job].impressions = receipts[e].impressions
    BY DEF ReceiptHonoured, Metered
  <2>1. receipts[e].job \in Jobs
    BY <1>1, ReportFields
  <2>2. /\ jobs[receipts[e].job].status = receipts[e].status
        /\ Metered(jobs[receipts[e].job]) =>
             /\ jobs[receipts[e].job].consumed = receipts[e].consumed
             /\ jobs[receipts[e].job].impressions = receipts[e].impressions
    BY DEF ReceiptInv, ReceiptHonoured
  <2>3. jobs'[receipts[e].job] = jobs[receipts[e].job]
    BY <2>1, <2>2 DEF KeepsJobs
  <2> QED
    BY <2>2, <2>3
<1> QED
  BY <1>2, <1>3, <1>4, <1>5 DEF ReceiptInv

(* What a handler accepts is filed and agrees with the job from then on.   *)
LEMMA ReceiptAccepted ==
  ASSUME TypeInv, ReceiptInv, KeepsJobs, NEW h \in Handlers, AcceptReport(h)
  PROVE  ReceiptInv'
<1> DEFINE r == handler[h].report
           row == jobs[r.job]
<1>1. /\ handler[h] # Idle /\ handler[h].stage = "unreceipted"
      /\ ~Refused(row, r) /\ receipts[r.event] = None
      /\ receipts' = [receipts EXCEPT ![r.event] = r]
      /\ handler' = [handler EXCEPT ![h] = Idle]
      /\ verdict' = [verdict EXCEPT ![r] = "accepted"]
  BY BusyHandler DEF AcceptReport, Answer
<1>2. /\ r \in Reports /\ r \in Report /\ r # None /\ r.event \in Events /\ r.job \in Jobs
  BY <1>1, HandlerReport, ReportFields DEF TypeInv
<1>3. /\ Exists(r.job) /\ r.status \in Terminal /\ row \in Row
      /\ NodeOf[row.printer] = r.node
  BY <1>1, <1>2, ExistingRow DEF TypeInv, WorkOnExisting, ReceiptInv, FromOwner
<1>4. jobs'[r.job].status # "absent" /\ jobs'[r.job].printer = row.printer
      /\ jobs'[r.job].reserved = row.reserved
  BY <1>2, <1>3 DEF KeepsJobs, Exists
<1>5. /\ receipts'[r.event] = r
      /\ \A e \in Events \ {r.event} : receipts'[e] = receipts[e]
      /\ \A e \in Events : receipts[e] # None => receipts[e] \in Reports
  BY <1>1, <1>2 DEF TypeInv, TypeOK
<1>6. \A x \in Reports : FromOwner(x) =>
        jobs'[x.job].status # "absent" /\ NodeOf[jobs'[x.job].printer] = x.node
  BY ReportFields DEF FromOwner, KeepsJobs, Exists
<1>7. \A e \in Events : receipts'[e] # None =>
        /\ jobs'[receipts'[e].job].status # "absent"
        /\ NodeOf[jobs'[receipts'[e].job].printer] = receipts'[e].node
        /\ receipts'[e].event = e
  BY <1>2, <1>3, <1>4, <1>5, <1>6 DEF ReceiptInv
<1>8. \A g \in Handlers : handler'[g] # Idle =>
        /\ jobs'[handler'[g].report.job].status # "absent"
        /\ NodeOf[jobs'[handler'[g].report.job].printer] = handler'[g].report.node
  <2> SUFFICES ASSUME NEW g \in Handlers, handler'[g] # Idle
               PROVE  /\ jobs'[handler'[g].report.job].status # "absent"
                      /\ NodeOf[jobs'[handler'[g].report.job].printer] = handler'[g].report.node
    OBVIOUS
  <2>1. handler'[g] = handler[g] /\ handler[g] # Idle
    BY <1>1 DEF TypeInv, TypeOK
  <2>2. handler[g].report \in Reports /\ FromOwner(handler[g].report)
    BY <2>1, HandlerReport DEF TypeInv, ReceiptInv
  <2> QED
    BY <1>6, <2>1, <2>2
<1>9. \A x \in Reports :
        verdict'[x] = "accepted" /\ x.status \in Closed => receipts'[x.event] = x
  <2> SUFFICES ASSUME NEW x \in Reports, verdict'[x] = "accepted", x.status \in Closed
               PROVE  receipts'[x.event] = x
    OBVIOUS
  <2>1. CASE x = r
    BY <1>5, <2>1
  <2>2. CASE x # r
    <3>1. receipts[x.event] = x /\ x # None /\ x.event \in Events
      BY <1>1, <2>2, ReportFields DEF TypeInv, TypeOK, ReceiptInv
    <3> QED
      BY <1>1, <1>5, <3>1
  <2> QED
    BY <2>1, <2>2
<1>10. r.status \in Closed =>
         /\ jobs'[r.job].status = r.status
         /\ Metered(row) => /\ jobs'[r.job].consumed = r.consumed
                            /\ jobs'[r.job].impressions = r.impressions
  <2> HAVE r.status \in Closed
  <2>1. r.status # "unconfirmed"
    BY DEF Closed
  <2>2. CASE Immutable(row)
    <3>1. ~Disputed(row, r)
      BY <1>1, <2>2 DEF Refused
    <3>2. jobs' = jobs
      BY <2>2 DEF AcceptReport
    <3> QED
      BY <2>1, <3>1, <3>2 DEF Disputed
  <2>3. CASE ~Immutable(row)
    <3>1. jobs'[r.job] = SettledRow(row, r)
      BY <1>2, <2>3 DEF AcceptReport, TypeInv, TypeOK
    <3> QED
      BY <1>2, <1>3, <2>1, <3>1, SettledRowTypes DEF MeteredResult
  <2> QED
    BY <2>2, <2>3
<1>11. ReceiptHonoured'
  <2> SUFFICES ASSUME NEW e \in Events, receipts'[e] # None, receipts'[e].status \in Closed
               PROVE  /\ jobs'[receipts'[e].job].status = receipts'[e].status
                      /\ Metered(jobs'[receipts'[e].job]) =>
                           /\ jobs'[receipts'[e].job].consumed = receipts'[e].consumed
                           /\ jobs'[receipts'[e].job].impressions = receipts'[e].impressions
    BY DEF ReceiptHonoured, Metered
  <2>1. CASE e = r.event
    BY <1>4, <1>5, <1>10, <2>1 DEF Metered
  <2>2. CASE e # r.event
    <3>1. receipts'[e] = receipts[e] /\ receipts[e] # None /\ receipts[e].job \in Jobs
      BY <1>5, <2>2, ReportFields
    <3>2. /\ jobs[receipts[e].job].status = receipts[e].status
          /\ Metered(jobs[receipts[e].job]) =>
               /\ jobs[receipts[e].job].consumed = receipts[e].consumed
               /\ jobs[receipts[e].job].impressions = receipts[e].impressions
      BY <3>1 DEF ReceiptInv, ReceiptHonoured
    <3>3. jobs'[receipts[e].job] = jobs[receipts[e].job]
      BY <3>1, <3>2 DEF KeepsJobs
    <3> QED
      BY <3>1, <3>2, <3>3
  <2> QED
    BY <2>1, <2>2
<1> QED
  BY <1>7, <1>8, <1>9, <1>11 DEF ReceiptInv, FromOwner, Exists

LEMMA ReceiptInit == Init => ReceiptInv
BY ModelConstants DEF Init, ReceiptInv, ReceiptHonoured

(* Every other step writes no receipt and accepts nothing without one.     *)
LEMMA ReceiptStep ==
  ASSUME TypeInv, MoneyInv, ReceiptInv, [Next]_vars
  PROVE  ReceiptInv'
<1> USE DEF stored, running
<1>1. KeepsJobs
  BY MoneyStep
<1> DEFINE Same == /\ UNCHANGED receipts
                   /\ \A h \in Handlers : handler'[h] # Idle => handler'[h] = handler[h]
                   /\ UNCHANGED verdict
<1>2. ASSUME Same PROVE ReceiptInv'
  <2>1. \A h \in Handlers : handler'[h] # Idle =>
          /\ handler[h] # Idle /\ handler'[h].report = handler[h].report
          /\ handler'[h].report \in Reports
    BY <1>2, HandlerReport DEF TypeInv
  <2> QED
    BY <1>1, <1>2, <2>1, ReceiptsKept
<1> HIDE DEF Same
<1>3. CASE QuotaStep \/ DispatchStep \/ MaintenanceStep \/ UNCHANGED vars
  <2>1. Same
    BY <1>3 DEF Same, QuotaStep, Grant, Authorize, SubmitPrintParams, DispatchStep,
       StartDispatch, MarkDispatched, ApplyDispatchUnconfirmed, FailDispatch, EndDispatch,
       MaintenanceStep, DeletePrinters, ListStale, ListActiveJobs, SettleListed,
       AbandonTask, CloseLockAlert, Restart, vars
  <2> QED
    BY <1>2, <2>1
<1>4. ASSUME NEW h \in Handlers, NEW r \in Reports, RefuseUnowned(h, r)
      PROVE  ReceiptInv'
  <2>1. \A x \in Reports : verdict'[x] = "accepted" => verdict[x] = "accepted"
    BY <1>4 DEF RefuseUnowned, TypeInv, TypeOK
  <2>2. UNCHANGED <<receipts, handler>>
    BY <1>4 DEF RefuseUnowned
  <2>3. \A g \in Handlers : handler[g] # Idle => handler[g].report \in Reports
    BY HandlerReport DEF TypeInv
  <2> QED
    BY <1>1, <2>1, <2>2, <2>3, ReceiptsKept
<1>5. ASSUME NEW h \in Handlers, NEW r \in Reports, Receive(h, r)
      PROVE  ReceiptInv'
  <2>1. UNCHANGED <<receipts, verdict>> /\ FromOwner(r)
    BY <1>5 DEF Receive, Owned, FromOwner
  <2>2. handler' = [handler EXCEPT ![h] = [stage |-> "received", report |-> r]]
    BY <1>5 DEF Receive
  <2>3. ASSUME NEW g \in Handlers, handler'[g] # Idle
        PROVE  /\ handler'[g].report \in Reports
               /\ \/ handler[g] # Idle /\ handler'[g].report = handler[g].report
                  \/ FromOwner(handler'[g].report)
    <3>1. CASE g = h
      BY <2>1, <2>2, <3>1 DEF TypeInv, TypeOK
    <3>2. CASE g # h
      BY <2>2, <2>3, <3>2, HandlerReport DEF TypeInv, TypeOK
    <3> QED
      BY <3>1, <3>2
  <2> QED
    BY <1>1, <2>1, <2>3, ReceiptsKept
<1>6. ASSUME NEW h \in Handlers, FindNoReceipt(h)
      PROVE  ReceiptInv'
  <2>1. UNCHANGED <<receipts, verdict>> /\ handler[h] # Idle
    BY <1>6, BusyHandler DEF FindNoReceipt
  <2>2. handler' = [handler EXCEPT ![h] =
                      [stage |-> "unreceipted", report |-> handler[h].report]]
    BY <1>6 DEF FindNoReceipt
  <2>3. ASSUME NEW g \in Handlers, handler'[g] # Idle
        PROVE  /\ handler'[g].report \in Reports
               /\ handler[g] # Idle /\ handler'[g].report = handler[g].report
    <3>1. CASE g = h
      BY <2>1, <2>2, <3>1, HandlerReport DEF TypeInv, TypeOK
    <3>2. CASE g # h
      BY <2>2, <2>3, <3>2, HandlerReport DEF TypeInv, TypeOK
    <3> QED
      BY <3>1, <3>2
  <2> QED
    BY <1>1, <2>1, <2>3, ReceiptsKept
<1>7. ASSUME NEW h \in Handlers, NEW answer, handler[h] # Idle, Answer(h, answer),
             UNCHANGED receipts,
             answer = "accepted" => receipts[handler[h].report.event] = handler[h].report
      PROVE  ReceiptInv'
  <2>1. /\ handler' = [handler EXCEPT ![h] = Idle]
        /\ verdict' = [verdict EXCEPT ![handler[h].report] = answer]
    BY <1>7 DEF Answer
  <2>2. \A x \in Reports : verdict'[x] = "accepted" =>
          verdict[x] = "accepted" \/ receipts[x.event] = x
    BY <1>7, <2>1 DEF TypeInv, TypeOK
  <2>3. \A g \in Handlers : handler'[g] # Idle =>
          /\ handler[g] # Idle /\ handler'[g].report = handler[g].report
          /\ handler'[g].report \in Reports
    BY <2>1, HandlerReport DEF TypeInv, TypeOK
  <2> QED
    BY <1>1, <1>7, <2>2, <2>3, ReceiptsKept
<1>8. ASSUME NEW h \in Handlers, AnswerFromReceipt(h) \/ RejectReport(h)
      PROVE  ReceiptInv'
  <2>1. handler[h] # Idle /\ UNCHANGED receipts
    BY <1>8, BusyHandler DEF AnswerFromReceipt, RejectReport
  <2>2. PICK answer : /\ Answer(h, answer)
                      /\ answer = "accepted" =>
                           receipts[handler[h].report.event] = handler[h].report
    BY <1>8 DEF AnswerFromReceipt, RejectReport, Matches
  <2> QED
    BY <1>7, <2>1, <2>2
<1>9. ASSUME NEW h \in Handlers, ApplyProcessing(h) \/ Abandon(h)
      PROVE  ReceiptInv'
  <2>1. Same
    BY <1>9 DEF Same, ApplyProcessing, Abandon, TypeInv, TypeOK
  <2> QED
    BY <1>2, <2>1
<1>10. ASSUME NEW h \in Handlers, AcceptReport(h)
       PROVE  ReceiptInv'
  BY <1>1, <1>10, ReceiptAccepted
<1> QED
  BY <1>3, <1>4, <1>5, <1>6, <1>8, <1>9, <1>10 DEF Next, ReportStep, HandlerStep

(* No step but the acceptance of a report charges a job.                   *)
LEMMA ChargesKept ==
  ASSUME TypeInv, [Next]_vars, \A h \in Handlers : ~AcceptReport(h), NEW j \in Jobs
  PROVE  jobs'[j].consumed = jobs[j].consumed
<1> USE DEF stored
<1>1. ASSUME NEW i \in Jobs, NEW status, NEW code, Exists(i),
             jobs' = [jobs EXCEPT ![i] = Moved(jobs[i], status, code)]
      PROVE  jobs'[j].consumed = jobs[j].consumed
  <2>1. jobs[i] \in Row
    BY <1>1, ExistingRow DEF TypeInv
  <2>2. Moved(jobs[i], status, code).consumed = jobs[i].consumed
    BY <2>1 DEF Moved, Row
  <2>3. jobs'[j] = IF j = i THEN Moved(jobs[i], status, code) ELSE jobs[j]
    BY <1>1 DEF TypeInv, TypeOK
  <2> QED
    BY <2>2, <2>3
<1>2. ASSUME NEW i \in Jobs, NEW status, NEW code, Exists(i), ApplyJobResult(i, status, code)
      PROVE  jobs'[j].consumed = jobs[j].consumed
  <2>1. CASE Immutable(jobs[i])
    BY <1>2, <2>1 DEF ApplyJobResult
  <2>2. CASE ~Immutable(jobs[i])
    <3>1. PICK c : jobs' = [jobs EXCEPT ![i] = Moved(jobs[i], status, c)]
      BY <1>2, <2>2 DEF ApplyJobResult
    <3> QED
      BY <1>1, <1>2, <3>1
  <2> QED
    BY <2>1, <2>2
<1>3. ASSUME NEW i \in Jobs, NEW row, ~Exists(i), row.consumed = Unset,
             jobs' = [jobs EXCEPT ![i] = row]
      PROVE  jobs'[j].consumed = jobs[j].consumed
  <2>1. jobs[i] = NoRow
    BY <1>3, ExistingRow DEF TypeInv, TypeOK
  <2>2. NoRow.consumed = Unset
    BY DEF NoRow
  <2>3. jobs'[j] = IF j = i THEN row ELSE jobs[j]
    BY <1>3 DEF TypeInv, TypeOK
  <2> QED
    BY <1>3, <2>1, <2>2, <2>3
<1>4. CASE QuotaStep
  <2>1. ASSUME NEW u \in Users, NEW a \in GrantAmounts, Grant(u, a)
        PROVE  jobs'[j].consumed = jobs[j].consumed
    BY <2>1 DEF Grant
  <2>2. ASSUME NEW i \in Jobs, NEW u \in Users, NEW p \in Printers, NEW d \in Documents,
               Authorize(i, u, p, d)
        PROVE  jobs'[j].consumed = jobs[j].consumed
    BY <1>3, <2>2 DEF Authorize, Reservable
  <2>3. ASSUME NEW i \in Jobs, NEW p \in Printers, SubmitPrintParams(i, p)
        PROVE  jobs'[j].consumed = jobs[j].consumed
    BY <1>3, <2>3 DEF SubmitPrintParams
  <2> QED
    BY <1>4, <2>1, <2>2, <2>3 DEF QuotaStep
<1>5. CASE DispatchStep
  <2>1. PICK i \in Jobs : \/ StartDispatch(i) \/ MarkDispatched(i)
                          \/ ApplyDispatchUnconfirmed(i) \/ FailDispatch(i)
    BY <1>5 DEF DispatchStep
  <2>2. ASSUME EndDispatch(i) PROVE Exists(i)
    BY <2>2 DEF EndDispatch, TypeInv, WorkOnExisting
  <2>3. CASE StartDispatch(i)
    BY <2>3 DEF StartDispatch
  <2>4. CASE FailDispatch(i)
    BY <1>2, <2>2, <2>4 DEF FailDispatch
  <2>5. CASE MarkDispatched(i) \/ ApplyDispatchUnconfirmed(i)
    <3>1. \/ jobs' = jobs
          \/ \E status, code : jobs' = [jobs EXCEPT ![i] = Moved(jobs[i], status, code)]
      BY <2>5 DEF MarkDispatched, ApplyDispatchUnconfirmed
    <3>2. Exists(i)
      BY <2>2, <2>5 DEF MarkDispatched, ApplyDispatchUnconfirmed
    <3> QED
      BY <1>1, <3>1, <3>2
  <2> QED
    BY <2>1, <2>3, <2>4, <2>5
<1>6. CASE ReportStep
  <2>1. ASSUME NEW h \in Handlers, ApplyProcessing(h)
        PROVE  jobs'[j].consumed = jobs[j].consumed
    <3>1. handler[h] # Idle
      BY <2>1, BusyHandler DEF ApplyProcessing
    <3>2. handler[h].report.job \in Jobs /\ Exists(handler[h].report.job)
      BY <3>1, HandlerReport DEF TypeInv, WorkOnExisting
    <3> QED
      BY <1>2, <2>1, <3>2 DEF ApplyProcessing
  <2>2. ASSUME UNCHANGED jobs
        PROVE  jobs'[j].consumed = jobs[j].consumed
    BY <2>2
  <2> QED
    BY <1>6, <2>1, <2>2
       DEF ReportStep, HandlerStep, RefuseUnowned, Receive, AnswerFromReceipt,
           FindNoReceipt, RejectReport, Abandon
<1>7. CASE MaintenanceStep
  <2>1. ASSUME NEW t \in Tasks, NEW i \in Jobs, SettleListed(t, i)
        PROVE  jobs'[j].consumed = jobs[j].consumed
    <3>1. /\ Exists(i)
          /\ \E status, code : ApplyJobResult(i, status, code)
      BY <2>1 DEF SettleListed, TypeInv, WorkOnExisting
    <3> QED
      BY <1>2, <3>1
  <2>2. ASSUME UNCHANGED jobs
        PROVE  jobs'[j].consumed = jobs[j].consumed
    BY <2>2
  <2> QED
    BY <1>7, <2>1, <2>2
       DEF MaintenanceStep, DeletePrinters, ListStale, ListActiveJobs, AbandonTask,
           CloseLockAlert, Restart
<1>8. CASE UNCHANGED vars
  BY <1>8 DEF vars
<1> QED
  BY <1>4, <1>5, <1>6, <1>7, <1>8 DEF Next

(* A charge and its receipt are written together, and both stay: a charged *)
(* job is closed, and a filed receipt is never replaced.                   *)
LEMMA ChargeStep ==
  ASSUME TypeInv, MoneyInv, ChargeHasReceipt, [Next]_vars
  PROVE  ChargeHasReceipt'
<1>1. KeepsJobs
  BY MoneyStep
<1>2. ASSUME NEW j \in Jobs, jobs[j].consumed # Unset
      PROVE  jobs'[j] = jobs[j]
  BY <1>1, <1>2 DEF KeepsJobs, MoneyInv, SettledOnce
<1>3. ASSUME NEW h \in Handlers, AcceptReport(h)
      PROVE  ChargeHasReceipt'
  <2> DEFINE r == handler[h].report
             row == jobs[r.job]
  <2>1. /\ handler[h] # Idle /\ handler[h].stage = "unreceipted"
        /\ receipts[r.event] = None
        /\ receipts' = [receipts EXCEPT ![r.event] = r]
    BY <1>3, BusyHandler DEF AcceptReport
  <2>2. /\ r \in Reports /\ r \in Report /\ r # None /\ r.event \in Events /\ r.job \in Jobs
    BY <2>1, HandlerReport, ReportFields DEF TypeInv
  <2>3. Exists(r.job) /\ r.status \in Terminal /\ row \in Row
    BY <2>1, <2>2, ExistingRow DEF TypeInv, WorkOnExisting
  <2>4. /\ receipts'[r.event] = r
        /\ \A e \in Events : receipts[e] # None => receipts'[e] = receipts[e]
    BY <2>1, <2>2 DEF TypeInv, TypeOK
  <2> SUFFICES ASSUME NEW j \in Jobs, jobs'[j].consumed # Unset
               PROVE  \E e \in Events : /\ receipts'[e] # None
                                        /\ receipts'[e].job = j
                                        /\ receipts'[e].status = jobs'[j].status
                                        /\ receipts'[e].consumed = jobs'[j].consumed
    BY DEF ChargeHasReceipt
  <2>5. CASE jobs[j].consumed # Unset
    <3>1. PICK e \in Events : /\ receipts[e] # None
                              /\ receipts[e].job = j
                              /\ receipts[e].status = jobs[j].status
                              /\ receipts[e].consumed = jobs[j].consumed
      BY <2>5 DEF ChargeHasReceipt
    <3> QED
      BY <1>2, <2>4, <2>5, <3>1
  <2>6. CASE jobs[j].consumed = Unset
    <3>1. ~Immutable(row)
      BY <1>3, <2>6 DEF AcceptReport
    <3>2. jobs' = [jobs EXCEPT ![r.job] = SettledRow(row, r)]
      BY <1>3, <3>1 DEF AcceptReport
    <3>3. j = r.job /\ jobs'[j] = SettledRow(row, r)
      BY <2>2, <2>6, <3>2 DEF TypeInv, TypeOK
    <3>4. jobs'[j].status = r.status /\ jobs'[j].consumed = r.consumed
      BY <2>2, <2>3, <2>6, <3>3, SettledRowTypes
    <3> QED
      BY <2>2, <2>4, <3>3, <3>4
  <2> QED
    BY <2>5, <2>6
<1>4. ASSUME \A h \in Handlers : ~AcceptReport(h)
      PROVE  ChargeHasReceipt'
  <2>1. receipts' = receipts
    BY <1>4 DEF Next, QuotaStep, Grant, Authorize, SubmitPrintParams, DispatchStep,
       StartDispatch, MarkDispatched, ApplyDispatchUnconfirmed, FailDispatch, EndDispatch,
       ReportStep, HandlerStep, RefuseUnowned, Receive, ApplyProcessing, AnswerFromReceipt,
       FindNoReceipt, RejectReport, Abandon, MaintenanceStep, DeletePrinters, ListStale,
       ListActiveJobs, SettleListed, AbandonTask, CloseLockAlert, Restart, vars, stored
  <2>2. \A j \in Jobs : jobs'[j].consumed # Unset => jobs'[j] = jobs[j]
    BY <1>2, <1>4, ChargesKept
  <2> QED
    BY <2>1, <2>2 DEF ChargeHasReceipt
<1> QED
  BY <1>3, <1>4

LEMMA ChargeInit == Init => ChargeHasReceipt
<1>1. NoRow.consumed = Unset
  BY DEF NoRow
<1>2. Init => \A j \in Jobs : jobs[j] = NoRow
  BY DEF Init
<1> QED
  BY <1>1, <1>2 DEF ChargeHasReceipt

(* Whatever a user was charged for was reported and is on file, and what a *)
(* node was told is final stays so.                                        *)
THEOREM ReceiptsAndJobsAgree == Spec => []ReceiptsAgree
<1>1. Init => RetryInv /\ ChargeHasReceipt
  BY TypeInvInit, MoneyInit, ReceiptInit, ChargeInit DEF RetryInv
<1>2. RetryInv /\ ChargeHasReceipt /\ [Next]_vars => (RetryInv /\ ChargeHasReceipt)'
  BY TypeInvStep, MoneyStep, ReceiptStep, ChargeStep DEF RetryInv
<1>3. RetryInv /\ ChargeHasReceipt => ReceiptsAgree
  BY DEF RetryInv, ReceiptInv, ReceiptsAgree
<1> QED
  BY <1>1, <1>2, <1>3, PTL DEF Spec

(* The handler's tests pass again for a report that has its receipt.       *)
LEMMA ReceiptedIsNotRefused ==
  ASSUME RetryInv, NEW r \in Reports, receipts[r.event] = r, r.status \in Closed
  PROVE  ~Refused(jobs[r.job], r) /\ FromOwner(r)
<1>1. r # None /\ r.event \in Events /\ r \in Report
  BY ReportFields
<1>2. /\ jobs[r.job].status = r.status
      /\ Metered(jobs[r.job]) => /\ jobs[r.job].consumed = r.consumed
                                 /\ jobs[r.job].impressions = r.impressions
  BY <1>1 DEF RetryInv, ReceiptInv, ReceiptHonoured
<1>3. r.consumed # Unset
  BY <1>1 DEF Report, Unset
<1>4. FromOwner(r)
  BY <1>1 DEF RetryInv, ReceiptInv
<1> QED
  BY <1>2, <1>3, <1>4 DEF Refused, Immutable, Disputed

(* A closing report that was accepted is never rejected when it is sent    *)
(* again, by whatever socket and however its handlers interleave, unless   *)
(* its printer was deleted or a read fails.                                *)
THEOREM RetriesStayAccepted == Spec => AcceptedStaysAccepted
<1>1. Init => RetryInv
  BY TypeInvInit, MoneyInit, ReceiptInit DEF RetryInv
<1>2. RetryInv /\ [Next]_vars => RetryInv'
  BY TypeInvStep, MoneyStep, ReceiptStep DEF RetryInv
<1>3. RetryInv /\ [Next]_vars =>
        [\A r \in Reports :
           ("read" \notin Faults /\ verdict[r] = "accepted" /\ r.status \in Closed
              /\ jobs[r.job].printer \notin deleted)
           => verdict'[r] = "accepted"]_vars
  <2> SUFFICES ASSUME RetryInv, Next, NEW r \in Reports,
                      "read" \notin Faults, verdict[r] = "accepted", r.status \in Closed,
                      jobs[r.job].printer \notin deleted
               PROVE  verdict'[r] = "accepted"
    OBVIOUS
  <2> USE DEF stored, running
  <2>1. receipts[r.event] = r /\ r # None
    BY ReportFields DEF RetryInv, ReceiptInv
  <2>2. ~Refused(jobs[r.job], r) /\ FromOwner(r)
    BY <2>1, ReceiptedIsNotRefused
  <2>4. ASSUME NEW h \in Handlers, NEW x \in Reports, RefuseUnowned(h, x)
        PROVE  verdict'[r] = "accepted"
    <3>1. x # r
      BY <2>2, <2>4 DEF RefuseUnowned, Owned, FromOwner
    <3> QED
      BY <2>4, <3>1 DEF RefuseUnowned, RetryInv, TypeInv, TypeOK
  <2>5. ASSUME NEW h \in Handlers, NEW answer, Answer(h, answer),
               handler[h].report = r => answer = "accepted"
        PROVE  verdict'[r] = "accepted"
    BY <2>5 DEF Answer, RetryInv, TypeInv, TypeOK
  <2>6. ASSUME NEW h \in Handlers, AnswerFromReceipt(h)
        PROVE  verdict'[r] = "accepted"
    BY <2>1, <2>5, <2>6 DEF AnswerFromReceipt, Matches
  <2>7. ASSUME NEW h \in Handlers, RejectReport(h)
        PROVE  verdict'[r] = "accepted"
    <3>1. handler[h].report # r
      BY <2>2, <2>7 DEF RejectReport
    <3> QED
      BY <2>5, <2>7, <3>1 DEF RejectReport
  <2>8. ASSUME NEW h \in Handlers, AcceptReport(h)
        PROVE  verdict'[r] = "accepted"
    BY <2>5, <2>8 DEF AcceptReport
  <2>9. CASE QuotaStep \/ DispatchStep \/ MaintenanceStep
    <3>1. UNCHANGED verdict
      BY <2>9 DEF QuotaStep, Grant, Authorize, SubmitPrintParams, DispatchStep,
         StartDispatch, MarkDispatched, ApplyDispatchUnconfirmed, FailDispatch, EndDispatch,
         MaintenanceStep, DeletePrinters, ListStale, ListActiveJobs, SettleListed,
         AbandonTask, CloseLockAlert, Restart
    <3> QED
      BY <3>1
  <2>10. ASSUME NEW h \in Handlers, ApplyProcessing(h) \/ FindNoReceipt(h) \/ Abandon(h)
         PROVE  verdict'[r] = "accepted"
    BY <2>10 DEF ApplyProcessing, FindNoReceipt, Abandon
  <2>11. ASSUME NEW h \in Handlers, NEW x \in Reports, Receive(h, x)
         PROVE  verdict'[r] = "accepted"
    BY <2>11 DEF Receive
  <2> QED
    BY <2>4, <2>6, <2>7, <2>8, <2>9, <2>10, <2>11 DEF Next, ReportStep, HandlerStep
<1> QED
  BY <1>1, <1>2, <1>3, PTL DEF Spec, AcceptedStaysAccepted
=============================================================================
