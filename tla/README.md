# FlyPrint Cloud: formal models

TLA+ models of the control plane of FlyPrint Cloud (the Go API server under
`src/api/`, and the temporary file service under `src/services/`), checked with
TLC and proved with TLAPS, but for liveness. `PROJECT.json` maps every definition to the
lines it models; paths below are relative to `src/api/internal/` unless they
start with `src/`.

Run `tlc -workers 2 -config X.cfg M` for a run of `PROJECT.json`, and
`tlapm M.tla` for a module of proofs.

## 1. The system

A *terminal* is an Edge node (a kiosk PC) with printers. It keeps one WebSocket
to the Cloud. A user scans the QR code on its screen, is handed to the web
portal of the site, logs in there, and prints; the Cloud reserves print quota
when a job is created and settles it when the Edge reports what the printer did.
All durable state is in PostgreSQL; the server is one process whose handlers are
goroutines: HTTP handlers, one read loop per socket, and timers.

| Component | State | Operations | Interacts with |
|---|---|---|---|
| Print job settlement (`operations/status_service.go`, `websocket/print_job_dispatch.go`, `database/print_authorization_repository.go`) | `print_jobs`, `print_quota_transactions`, `users.print_quota_balance`, `edge_job_update_receipts` | Authorize, ApplyJobResult, ApplyTerminalJobUpdate, ApplyDispatchUnconfirmed, MarkDispatched, CleanupStaleJobs, sweep | messages of the Edge, dispatch, printer and node lifecycle, alerts |
| Quota arithmetic (`business/print_quota.go`) | none | QuotaUsage, SettledQuotaUsage | settlement |
| Terminal entry chain (`database/entry_session_repository.go`, `websocket/connection.go`, `handlers/terminal_ticket_handler.go`) | `edge_terminal_sessions`, `entry_sessions`, `entry_portal_attempts`, `entry_claims` | session report, Issue, Acquire, MarkMasked, Activate, CreateAttempt, ConsumeT3, ValidateClaim | Edge socket, browser, portal |
| External identity login (`database/external_identity_repository.go`) | `external_identities`, `users`, the user bound to a terminal session | CompleteLogin | entry chain, portal outbox |
| Portal session outbox (`database/portal_session_ready_outbox.go`) | `portal_session_ready_outbox` | enqueue, ClaimDue, MarkDelivered, Retry | login handler, 5 s task, Edge socket |
| Edge connection manager and dispatch (`websocket/manager.go`, `connection.go`, `handler.go`, `print_job_dispatch.go`) | connection map, send queues, pending ACKs | register, unregister, replace, SendToNode, DisconnectNode, ACK wait, dispatch, redispatch | every message to an Edge |
| Printer and node lifecycle (`handlers/printer_handler.go`, `edge_node_handler.go`) | `printers`, `edge_nodes` | register, enable, disable, delete | settlement, tokens, sockets, alerts |
| File access tokens (`security/token_manager.go`, `database/token_usage_repository.go`) | `token_usage_records` | generate, pre-register, validate, mark used, revoke, clean up | upload and download handlers, dispatch |
| File upload and storage (`handlers/file_handler.go`, `storage/`, `src/api/cmd/migrate-files/`) | objects, `files`, upload sessions | upload, bind, serve, hourly cleanup, migration to MinIO | tokens, terminal session |
| Session file service (`src/services/session-file-service/service.go`) | objects of MinIO | session and file create, list, download, delete, prune | portal |
| Availability and alerts (`operations/`) | node and printer status, heartbeats, `operational_alerts` | ApplyHeartbeat, ApplyPrinterSnapshot, MarkUnstable, Sweep, CleanupOrphaned | sockets, settlement |
| Node credentials (`handlers/edge_activation_handler.go`, `oauth2_client_handler.go`, `auth/builtin_auth_service.go`) | `edge_nodes` with activation codes, `oauth2_clients` | create, redeem, expire, clean up, bind a client, issue tokens, delete | lifecycle |
| Site portal configuration (`database/site_portal_repository.go`) | portals, clients, assignments, providers | create, enable, assign, delete, bootstrap, read by revision | entry chain, login |
| Users and contacts (`database/user_repository.go`, `ops_contact_repository.go`) | `users`, `ops_contacts`, bindings, `system_settings` | create, change, delete, replace bindings | settlement, login |
| Server start (`src/api/cmd/server/main.go`, `database/migrations/runner.go`) | schema, `schema_migrations`, initial grants, the bootstrap client | create tables, migrate, grant, bootstrap | every other component |
| Queries and dashboard, HTTP plumbing, admin console | none of their own | reports, signature checks, UI | — |

### What is hard

* **Interleavings of transactions.** Every handler mixes plain reads with
  transactions. A job is read before the transaction that settles it; the
  receipt of a report is looked up before the job's lock is taken; maintenance
  lists jobs and settles them later. Five actors close jobs: Edge reports,
  dispatch failures, the stale-job cleanup, the sweep and the settlement after a
  printer is deleted.
* **Two sockets of one node.** A reconnecting Edge has an old and a new read
  loop until the old one notices; both handle messages.
* **Lost and repeated messages.** The Edge repeats a report until it is
  acknowledged; acknowledgements get lost; dispatches are retried.
* **Restarts.** A handler may stop between two committed writes; a start may be cut
  off and run its statements again.
* **Commit first, tidy up later.** A disable commits the row and then settles jobs
  and revokes tokens, each in a transaction of its own that may fail; an upload
  writes an object, a token, a row and a binding; a deletion in the session service
  removes objects one by one from a store without transactions.
* **Read the whole row, write the whole row.** Edits of printers and registrations
  write back what they read before; a sweep writes nodes it listed before.
* **Credentials that outlive their screen.** A QR code, a lease, a portal
  hand-off and a claim are all valid only while the chain they belong to is the
  one on the screen, and a refresh may fall between any two of their steps.

### What makes each component correct

* Settlement: a reservation is taken once and settled once; the ledger adds up;
  a closed job never moves; what the Edge was told is accepted stays accepted.
* Entry chain: one live chain per terminal, the newest; only the newest portal
  attempt counts; a login binds the session its chain was issued for.
* Outbox: a login reaches a terminal that stays connected, whatever stopped in
  between.
* Connections: at most one registered socket per node, no message to a socket
  that is closed, an acknowledgement reaches the dispatch that waits for it.
* Lifecycle: no authorised job stays active on a printer that was closed; a disable
  whose revocation succeeds leaves no registered upload token; one live row per printer.
* Tokens and files: an upload token is accepted once; a token handed to the Edge
  works until it expires; a recent file can be served; no object is forgotten.
* Availability: an alert agrees with the health that is shown, a silent node goes
  offline, alerts do not outlive their owner.
* Credentials, accounts, contacts, portals: expired activations go away; the
  deletion of a user erases no job that prints; a terminal offers only portals that
  work; the limit of contacts holds without concurrent replacements.
* Start: one start after any number of cut-off starts succeeds, and nobody is
  granted quota twice.

`PROJECT.json` lists the hazards of this code at their lines, and the properties
that would catch each.

## 2. Plan

Modules in order of importance; those marked done are in this directory.

1. `PrintQuota` (done): the two pure functions. `PrinterMeter` (done): the
   functions against the physical sheets of a printer.
2. `PrintSettlement` (done): jobs, ledger, receipts. `QuotaPromise` (done): what the
   quota promises, without them; `PrintSettlement` implements it.
   `PrintSettlementProofs` (done).
3. `TerminalEntry` (done): the credential chain and the login.
   `TerminalEntryProofs` (done).
4. `EdgeLink` (done): sockets of one node, registration, queue, ACK waits, and the
   dispatch of jobs over them with retries and redispatch. `DispatchPromise`
   (done): what the dispatch promises, without sockets; `EdgeLink` implements it.
   `EdgeLinkProofs` (done).
5. `Fleet` (done): the lifecycle of a node and its printers against
   authorisation, registration and tokens. `FleetProofs` (done).
6. `AccessTokens`, `FileStore`, `SessionFiles` (done). `FileProofs` (done).
7. `Availability`, `PortalOutbox` (done), with liveness.
8. `EdgeCredentials`, `PortalConfig`, `Accounts`, `OpsContacts` (done).
   `AdministrationProofs` (done): the last three. `ServicesProofs` (done): the meter,
   item 7, `EdgeCredentials`, and all of `MCServices`.
9. `Startup` (done): starts of the server. `StartupProofs` (done).

`MCServices` composes `PrinterMeter` and the modules of items 6 to 9 for TLC. The
modules of items 2 to 5 are checked by runs of their own, because their state spaces
are large.

## 3. Modules

### PrintQuota, PrinterMeter

`QuotaUsage` is the price reserved for a whole document, `SettledQuotaUsage` what
a number of printed sides costs. `PrinterMeter` is a printer that prints one
document side by side and remembers which physical sheets it has used
(`NextSheet`: every copy starts on a new sheet); it is the reference the
conversion is compared with.

### QuotaPromise, PrintSettlement

State: `jobs` is `print_jobs` (`NoRow` before the insert), `balance` and
`ledger` are the quota of each user, `receipts` the recorded reports by event
id, `deleted` the deleted printers, `lockAlerts` the open alerts of a printer
whose job is unconfirmed. The other variables are what runs in the process:
`handler` (what a message handler has read), `listed` (what a maintenance task has
listed and not settled), `dispatches` (dispatches whose outcome is open), and
`verdict`, the last acknowledgement sent for each report.

A transaction holds the job's row lock to its commit, so it is one step. What the
code does before it takes the lock is a step of its own:

| Code | Actions |
|---|---|
| `Authorize`, `submit_print_params`, `Grant` | `Authorize`, `SubmitPrintParams`, `Grant` |
| `handleJobUpdate`: read job and printer | `Receive`, `RefuseUnowned` |
| … processing | `ApplyProcessing` |
| … `ApplyTerminalJobUpdate`: receipt lookup, then the transaction | `AnswerFromReceipt`, `FindNoReceipt`, then `AcceptReport`, `RejectReport` or `Abandon` |
| `dispatchPrintJobAndRecord` | `StartDispatch`, then `MarkDispatched`, `ApplyDispatchUnconfirmed` or `FailDispatch` |
| `CleanupStaleJobs`, `sweepStaleJobs`, `settleActiveJobs` | `ListStale` or `ListActiveJobs`, then `SettleListed` per job; `AbandonTask` |
| `DeletePrinter`, `DeleteEdgeNode` | `DeletePrinters` |

`Faults` names what may go wrong: a read fails, a transaction fails, the process
restarts. How old a job is when a task lists it is left open. The availability
checks of `Authorize` are too: any of them may refuse, which changes nothing.

`QuotaPromise` is the abstract specification: what each user may still spend, and for
each job a hold that is free, held, spent or released. It has four actions, `Grant`,
`Hold`, `Spend` and `Release`. `PrintSettlement` is shown to implement it
(`INSTANCE QuotaPromise`): a balance is what is available, and a job's hold is read off
its row (`HoldOf`) — none without a reservation, held until the row closes, spent when
it is completed, released at the recorded consumption when it failed or was canceled.
The ledger, the receipts, the handlers, the dispatches and the tasks are not visible
in it, so whatever they do must be one of the four steps or none.

### TerminalEntry

One terminal: rows of different terminals never meet. `session` is the terminal's
row of `edge_terminal_sessions` (session id, QR generation and the user a login
bound), `entries` are its rows of `entry_sessions` with their portal attempts (the
version is the length of the sequence). `loops` are the read loops of the old and
the new socket: a session report is read, invalidate, store (three statements, each
of which may fail), a ticket request is a read and a transaction. `dispatching`
and `commands` are the mask command between the reservation of a QR code and the
confirmation of the screen. `login` is the lock a login transaction holds on its
chain between its first statement (`LockLogin`) and its commit (`FinishLogin`)
or rollback (`AbortLogin`): the session row is not locked in between, so reports
fall there.

Expiry is a step that does not happen: any step may be late for ever, so times are
not modelled. `terminal_tickets` is left out because no handler creates a row any
more. Upload sessions, which a session change also revokes, are read by no step of
this chain.

### DispatchPromise, EdgeLink

`DispatchPromise` is the abstract specification of a dispatch: a job row, and the
set of jobs the Edge has. A job becomes `dispatched` only when the Edge has it,
`unconfirmed` only from `pending`, and a closed job stays closed. `EdgeLink` is the
machinery that has to achieve it; its `jobs` and `inbox` are those of the abstract
module (`INSTANCE DispatchPromise`, the mapping is the identity), everything else
is hidden.

| Code | In the model |
|---|---|
| `edge_nodes.status`, `deleted_at` | `online`, `deleted` |
| `ConnectionManager.connections[node]` | `current` (one node: entries of different nodes never meet) |
| a `Connection`: its read pump, `done`, `Send`, `pendingAcks`, and the TCP stream | `conns[c]`: `stage`, `done`, `queue`, `pending`, `wire`, `acks` |
| what `Run` or an API handler is in the middle of | `work[w]` |
| the goroutines of `DispatchPrintJobAndRecord`, one per created job and one per socket | `senders[s]`: jobs left, the job, the attempt, the socket it looked up, the answer |
| `HandleConnection` | `Connect`, `HandOff` (the unbuffered `register` channel), then `Register` by the manager |
| `ReadPump`, its deferred calls | `HandleAck`, `Heartbeat`, `HandleJobUpdate`, `AdmitJob`; `ReadFails`, `HandUnregister`, `ReaderReturns` |
| `WritePump` | `Write`, `WriteFails` |
| `unregisterConnection` | `Unregister` under the lock, `MarkUnstable` and `CloseConn` after it |
| `SendToNode` | `SendToNode` (look up), `EnqueueNote` (use) |
| `dispatchPrintJob`, `SendCommandWithAckStatus` | `Lookup`, `Send`, then `Answered` or `TimeOut` |
| `dispatchPrintJobAndRecord` | attempts in `TimeOut`, the row in `Record` |
| reconnect redispatch | `ListQueued` |
| `DeleteEdgeNode` | `DeleteEdgeNode`, `ListActiveJobs`, `SettleActiveJob` per job, `DisconnectNode`, `ServerClose`, `CloseConn` |

The points where the code gives up a lock or blocks are the points between steps. A
socket whose queue still holds messages when it is closed never sends them; what is
on the wire may still arrive. The Edge is external: it takes messages when it
likes, answers or not, rejects a job it does not have, takes a job once
(`handler.go:165`). `senders` of a job and of a socket run at the same time.

Left out: database errors (the settlement side of them is in `PrintSettlement`),
the enabled flag of the node, the connection limit, batching of queued messages in
one frame, and the file access token prepared for a dispatch.

### Fleet

One node (rows of different nodes never meet). `node` and `printer[p]` are the rows;
`printer[p].blind` remembers that the row was disabled by a write that took it to be
disabled already. `work` are the jobs, `token` an upload token of each printer (any
one of those issued, since a new one may take its place or not): `valid` from its issue
for an open printer, `left` when a disable has failed to revoke it or it was registered
after the row was closed, `unregistered` when its pre-registration failed and it was
handed out all the same (`security/token_manager.go:128`),
`passed` a message of the Edge that has passed its checks and not yet had its effect,
`request[r]` where the request of an administrator or of the Edge stands,
`abandoned` (history) what a closing gave up before its last step.

| Code | Actions |
|---|---|
| `UpdateEdgeNode` (enabled), `DeleteEdgeNode` | `UpdateEnabled`, `DeleteEdgeNode`: the commit, then a closing |
| the closing: count and list, `settleActiveJobs`, revocation | `ListActive`, `SettleJob` per job or `SettleFails`, `FinishClosing`, whose revocation succeeds or fails: the error is logged (`printer_handler.go:358`) or dropped (`edge_node_handler.go:573`), and the request ends alike |
| `UpdatePrinter` | `EditPrinter` reads the row, `WritePrinter` writes it, then a closing if the read saw it enabled |
| `EdgeRegisterPrinter` | `RegisterLookup`, then `WritePrinter` or `CreatePrinter` under the unique index of migration 008 |
| `DeletePrinter`, `EdgeDeletePrinter` | `DeletePrinter` |
| `Authorize` of the portal | `Authorize`: checks and insert under the rows' locks |
| `submit_print_params`, `request_upload_token` of a socket | `PassChecks`, then `CreatePrintJob` or `IssueToken` |
| a job's end, a restart | `JobEnds`, `Restart` |

### Services

Eleven components share no state with each other. Each is a module with its own
variables, `Init` and `Next`; `MCServices` picks one of them per behaviour (`focus`)
and leaves the others where they started, since interleaving them would only multiply
states.

* `AccessTokens`. `usage` are the rows of upload tokens, `upload[r]` an upload
  request between its check and its consumption, `dlRows` the rows of download
  tokens (each of the two statements that write them may fail, which is only logged),
  which are identified by job and second of issue (`GenerateDownloadToken`
  has no nonce), `dispatch` a dispatch between revoking and registering. `clock`
  counts half seconds: signatures expire by whole seconds, rows are cleaned by the
  exact time.
* `Availability`. `edge` and `device` are the rows of node and printer with the age
  of their last report, `alerts` the open alerts, `listing` what a sweep has read.
  Heartbeats, snapshots, the end of a socket, deletion and the sweep's writes are
  single transactions, and interleave.
* `FileStore`. `rows` and `objects` are the table and the two stores; a request
  goes through object, token, row, binding with a failure or a restart possible at
  each, and a write of an object that fails may leave one; the hourly cleanup and `migrate-files` are lists followed by single steps.
* `SessionFiles`. `session`, `content`, `listed` are the objects `session.json`,
  `.bin` and `.json`; every call to the store is a step, and nothing is locked.
* `PortalOutbox`. `event` and `due` are the row's status and time, `task` the pass of
  the 5 s task, `login` the handler of the login, `online` the sockets.
* `PortalConfig`. `change[m]` is the transaction of an administrator: the locks it
  holds follow from its stage, so waiting is not taking the step. `context` is a
  Portal that reads revision and providers in separate statements.
* `EdgeCredentials`. `node` with its activation code, `client`, `removal` (the two
  statements of a deletion), `asking` (token requests between reading the client and
  asking for its node), `token` (which devices hold a signed token).
* `Accounts`. `account`, `work` (the jobs with what a deletion asks of them) and
  `deletion`, which counts, erases and removes in separate statements of one
  transaction that holds the user's row lock but no job's.
* `OpsContacts`. `bound` and `limit`; `replacing[r]` is a transaction whose writes
  nobody sees before its commit.
* `Startup`. `proc[i]` is the stage of an instance, `holder` the migration lock,
  `applied` the table `schema_migrations`, `guest` the identity, initial grant and
  quota of a user. An instance may end between any two statements; another may start
  at the same time; instances that are up serve logins, which create grants.

## 4. Runs

| Run | Instance | Shows |
|---|---|---|
| `PrintSettlement` | one metered job, two handlers, five reports on two event ids, cleanup and sweep, one dispatch in flight, failed writes, restarts | `QuotaPostedOnce` (`ReservedOnce` and `SettledOnce`), `ReceiptsAgree`, `ClosedIsFinal`, `AcceptedStaysAccepted` |
| `PrintSettlementTwoJobs` | two jobs of one user with quota for one, two nodes, a grant, an event id used for both jobs, another node's report, failed reads | `TypeOK`, `LedgerChain`, `KeepsQuotaPromise` (the refinement) |
| `TerminalEntry` | two chains, two attempts each, two sessions, generations, users and read loops, failed writes, restarts | `OneLiveChain`, `RefreshEndsChain`, `OneOpenAttempt`, `ClaimNamesBoundUser`, `LoginBindsOwnSession` |
| `EdgeLink` | two sockets, one job, two attempts, the second socket found the job to send again; queues and wires of one message | `WaitersAreWaiting`, `LiveSocketIsCurrent`, `DeadSocketIsReported`, `KeepsPromise` (the refinement) |
| `DispatchLiveness` | one socket, one job, one attempt, a deleting handler, one restart | under fairness `JobsLeavePending`, `ClosedSocketLeaves` |
| `Fleet` | two rows of one printer name, one job, one administrator's and two of the Edge's requests at a time | `AuthorizedJobsSettled`, `OneLivePrinter`, `DisabledHasNoToken` |
| `Services` | eleven components, one at a time (below) | `ServicesTypeOK`, and one or two properties each, four of them liveness |
| `RetryVerdict` | as `PrintSettlement`, one handler, no fault | `RetryKeepsVerdict` violated: finding 1 |
| `StaleCleanup` | the same | `CleanupFailsQueuedJobs` violated: finding 2 |
| `SessionUser` | as `TerminalEntry`, one read loop, no fault | `BoundUserLoggedIn` violated: finding 3 |
| `UndeliveredJob` | one socket, one job, two attempts, a queue of two | `UndeliveredMeansNotTaken` violated: finding 4 |
| `SettledDisable` | one printer, two administrators, one Edge | `DisabledPrinterSettled` violated: finding 5 |

The components of `Services`:

| Component | Instance | Shows |
|---|---|---|
| uploads | one token, two requests, a lifetime of one second, two seconds of clock | `UploadTokenHolds`: accepted at most once, never after a revocation, until it expires |
| downloads | two jobs that print one file, two dispatches | `HandedTokenStands`: the token the Edge was handed last is not refused before it expires |
| availability | a node and a printer, four kinds of alert | `SyncAlertShown`; under fairness `SilentGoesOffline`, `OrphansRemoved` |
| files | two uploads with one token, cleanup, migration | `RecentFileServed`, `ObjectsAccountedFor` |
| sessions | one session, two files, two deletions | `NothingLeftBehind` |
| outbox | two logins, two failures or restarts | under fairness `LoginReachesEdge` |
| assignments, providers | two portals of which one is the bootstrap portal (for the providers, that one alone), one terminal, two administrators | `AssignmentsUsable`, `RevisionNotAhead` |
| meter | documents up to 6 pages and 3 copies, every side | `MeterMatchesPrice`: the meter equals the sheets used, never exceeds the reservation and ends at it |
| credentials | two nodes | under fairness `ExpiredActivationsRemoved` |
| accounts | two people, one job | `NoActiveJobErased` |
| contacts | one node, two contacts, two replacements, limits 1 and 2 | `NodeOverfilledByOverlap` |
| start | two instances, one user, three migrations of which the second grants | `StartsCleanly` |

Bounds. A job's race is between two writers and a third that reads too early;
two handlers, two tasks and one dispatch give three. The document has three pages
on two sheets, so a partial charge, a full one and a refund are all different. The
second job adds what one job cannot show: competition for a balance, an event id
used twice, an owner check. Two chains are the replaced and the replacing one;
`OneLiveChain` and `RefreshEndsChain` relate two. The safety properties of all
runs are proved for any number (section 6), so the bounds carry weight only for the
liveness properties.

The races of a link are between an old and a new socket, so two sockets; between
the creator's dispatch and the new socket's, so one job with both; between two
attempts of one dispatch, so two attempts. A queue of one is full after one
message, which the 256 of the code need 256 for. `Beating`, `Redispatching` and
`Reported` say which sockets send heartbeats, which find jobs to send again and
what the Edge reports: they cut the state space of a run where the choice does not
bear on its properties. The liveness runs are smaller since their graphs are
searched as a whole; the restart in `DispatchLiveness` cuts a dispatch at every
point.

In `Fleet` two rows are needed for a second registration of one name, two requests
of the Edge for the race between them, and one administrator for a closing beside
them; a second administrator finds `SettledDisable`. A job is authorised on one
printer, so one job meets every closing. In `Services` the hazards are between two
requests (uploads, dispatches, deletions, administrators, replacements, instances),
between a task's list and its writes, and between a write and a restart: two of each
actor, one list, and at least one failure. The meter's functions are periodic in the
page's parity and linear in the copies, so odd and even pages with 1–3 copies meet
every case. Two seconds are enough for a clock that matters only within a second
and across one expiry. Of two logins, the outbox's property looks at one and the
other competes for the task. Three migrations are one before the grant, the grant
and one after it.

`CHECK_DEADLOCK FALSE`: a finished instance has nothing left to do, since jobs,
grants, chains, files and revisions are bounded. Symmetry is over handlers, over
sessions, generations, users and read loops, and over the printers and requests of
`Fleet`, which no definition tells apart; it is not used where liveness is checked.

Fairness. Settlement and entry chain are checked for safety only, under every
schedule. `EdgeLink` has `FairSpec`: every goroutine that is not blocked runs (weak
fairness of the manager's handling, of what an API handler has begun, of a read pump
after its socket was closed, of every dispatch, whose wait ends by its timer).
The hand-overs of a socket are strongly fair: several goroutines send on the
channels of one manager, and a Go channel serves its senders in order. Of the
Edge only one thing is assumed, that it connects again when it has no
socket (`Reconnect`); it need not answer, report or keep a socket open. Without that
a job cut off by a restart stays pending, since nothing else takes it up; for a node
that was deleted it does, which is why `JobsLeavePending` excepts it.


In `Services` the periodic tasks run and finish: the sweep lists and writes, the
orphan cleanup and the cleanup of activations tick (`SweepList`, `SweepNode`,
`CleanupOrphaned`, `CleanupExpired`), the outbox task makes passes, and a time set for
a retry comes (`BecomesDue`). These are timers of the server (`main.go`); all are
weakly fair. Nothing is assumed of nodes, users or failures, except that failures and
restarts of the outbox are finitely many (`MaxFaults`), and that
`LoginReachesEdge` speaks of a socket that is up from some time on.

## 5. Findings

1. **A repeated report changes its verdict** (`RetryVerdict`). `handleJobUpdate`
   checks the owner of the job before it looks for the receipt
   (`websocket/connection.go:891-906`). After the printer is deleted, or when
   the read fails, a report that was accepted is rejected when the Edge repeats
   it, although the receipt "makes Edge retries idempotent even when the
   acknowledgement is lost" (`database/edge_job_update_receipt_repository.go:8`).
   `AcceptedStaysAccepted` is what does hold, and is proved.
2. **The cleanup fails jobs that print** (`StaleCleanup`). `CleanupStaleJobs`
   lists queued jobs and settles them one by one; a job that starts processing in
   between is failed with its reservation refunded
   (`operations/status_service.go:249-279`).
3. **A user outlives the terminal session** (`SessionUser`).
   `ReportWithGeneration` (`database/terminal_session_repository.go:43`)
   replaces the session id and keeps the bound user, and `Authorize` charges
   the user of the row: prints of a new session are charged to the last user of
   the old one until somebody logs in.
4. **A job that was delivered is recorded as not delivered** (`UndeliveredJob`).
   `dispatchPrintJobAndRecord` keeps the error of the last attempt only
   (`websocket/print_job_dispatch.go:32-63`). A first delivery that timed out and a
   second one that meets a closed socket end as "Print job was not delivered to the
   Edge node", the reservation refunded, although the Edge may have the job from the
   first. Three timeouts, which say less, are recorded as unconfirmed.
   `KeepsPromise` is what does hold, and is proved.
5. **A disable that settles nothing** (`SettledDisable`). `UpdatePrinter` decides from
   the row it read whether it disables the printer (`handlers/printer_handler.go:307`)
   and writes the whole row later (334). If another request enables the printer in
   between, the write disables it without settling the job authorised meanwhile,
   against the comment at 339–340. A registration of the Edge (453–467) does the same.
   `AuthorizedJobsSettled` is what does hold, and is proved.

Observations, which no document of the repository contradicts:

* A settlement that fails ends the closing of a node or printer; a deleted node
  cannot be closed again, so its jobs stay active until the cleanup or sweep takes
  them (`abandoned` in `Fleet`).
* A disable answers 200 when its revocation of upload tokens fails
  (`printer_handler.go:357`, `edge_node_handler.go:573`), and a token is handed out when
  its pre-registration fails (`token_manager.go:128`), where no revocation finds it
  (`MarkTokenAsUsed` inserts the row it misses). Such a token, and one registered after
  the revocation, can be used until it expires. `DisabledHasNoToken` does not speak of
  them (`left`, `unregistered`), only of every other token.
* A client disabled between the two reads of a token request still gets its token:
  `IsBoundEdgeNodeUsable` looks at the node only.
* A failed write of an object is not followed by a removal in the upload handler; what
  it left is found by no row (`stray` in `FileStore`).
* The upload mapping of a token, when stale, makes the upload remove object and row
  after the token was consumed; if the object's row stays, it dangles (`unbound` in
  `FileStore`). An object copied by `migrate-files` stays in the other store.
* A download token issued twice for one job within a second is refused: the second
  issue revokes the row and `ON CONFLICT DO NOTHING` leaves it revoked.
* One OAuth client bound to a node whose activation expired blocks the cleanup of all
  expired nodes, since one `DELETE` covers them and the foreign key restricts it.
  Enabling a pending node makes it active: it is then not cleaned up and cannot be
  activated.
* A user whose job has a receipt, or who is the last user of a terminal, cannot be
  deleted. A job that was unconfirmed when the active ones were counted and that a
  report has made active again is erased.
* Two replacements of contacts at once may exceed the limit of a node.
* A restart enables the bootstrap portal again while its OAuth client stays disabled.
* The base tables, and the bootstrap client's row, are created outside the migration
  lock: of two instances that start together one may fail, and succeeds when started
  again. A client id that is another's makes every start fail.

## 6. Proofs

Eight modules (`*Proofs.tla`) prove theorems of the specifications for every value of
the constants, under their named assumptions only: `ModelConstants`, `EntryConstants`,
`LinkAssumption`, `FleetAssumption`, `StartupAssumption`, `AccessTokensAssumption`,
`PortalConfigAssumption`, `AccountsAssumption`, `OpsContactsAssumption`,
`PortalOutboxAssumption`, `MeterBounds`. They ask that bounds are natural numbers and
that a name for "nothing" is none of the values it stands beside (in `AccessTokens` also
no second: an expiry may be absent). Two are facts of the code: migrations are numbered
and one of them grants quota; the contact limits lie in 1–20 (`business/settings.go`).

| Property | Theorem |
|---|---|
| `PrintSettlement`: `TypeOK`; `LedgerChain`; `QuotaPostedOnce`; `KeepsQuotaPromise`; `ClosedIsFinal`; `ReceiptsAgree`; `AcceptedStaysAccepted` | `TypeCorrect`; `LedgerAddsUp`; `JobsArePostedOnce`; `QuotaKeepsPromise`; `ClosedJobsAreFinal`; `ReceiptsAndJobsAgree`; `RetriesStayAccepted` |
| `TerminalEntry`: `TypeOK`; `OneLiveChain`; `OneOpenAttempt`; `ClaimNamesBoundUser`; `RefreshEndsChain`; `LoginBindsOwnSession` | `EntryTypes`; `NewestChainOnly`; `NewestAttemptOnly`; `ClaimAgreesWithSession`; `ReplacedChainsStay`; `LoginsBindOwnSession` |
| `EdgeLink`: `TypeOK`; `WaitersAreWaiting`; `LiveSocketIsCurrent`; `DeadSocketIsReported`; `KeepsPromise` | `LinkTypes`; `WaitersExact`; `LiveStaysCurrent`; `DeadIsReported`; `LinkKeepsPromise` |
| `Fleet`: `FleetTypeOK` (proved only); `AuthorizedJobsSettled`; `OneLivePrinter`; `DisabledHasNoToken` | `FleetTypes`; `AuthorizedJobsAreSettled`; `LivePrinterIsUnique`; `DisabledPrinterHasNoToken` |
| `Startup`: `StartsCleanly` | `StartsAreClean` |
| `AccessTokens`: `UploadTokenHolds`; `HandedTokenStands` | `UploadTokensAcceptedOnce`; `HandedTokensStand` |
| `FileStore`: `RecentFileServed`; `ObjectsAccountedFor` | `RecentFilesServed`; `ObjectsRemembered` |
| `SessionFiles`: `NothingLeftBehind` | `SessionsLeaveNothing` |
| `PortalConfig`: `AssignmentsUsable`; `RevisionNotAhead` | `AssignedPortalsUsable`; `RevisionsNotAhead` |
| `Accounts`: `NoActiveJobErased`; `AccountsTypeOK` | `ActiveJobsNotErased`; `AccountsTyped` |
| `OpsContacts`: `NodeOverfilledByOverlap` | `OverfilledOnlyByOverlap` |
| `Availability`: `SyncAlertShown` | `SyncAlertsShown` |
| `PrintQuota`, `PrinterMeter`: the charge against the price (proved only); `MeterMatchesPrice` | `ChargeWithinPrice`, `ChargeGrows`; `MeterIsExact` |
| `PortalOutbox`: delivered only if notified (proved only) | `DeliveredWasNotified` |
| `EdgeCredentials`: `HoldersKnown` (proved only) | `TokensOfKnownNodes` |
| `MCServices`: `ServicesTypeOK`; the invariants of its components together | `ServicesTyped`; `ServicesSafe` |

**Settlement.** `TypeCorrect` needs one fact beyond `TypeOK`: whatever a handler,
a task or a dispatch is working on exists, since rows are never removed
(`WorkOnExisting`); without it a step could update `NoRow`. It includes that no
balance is ever negative. `QuotaSettlement` proves `LedgerChain`, `ReservedOnce`
and `SettledOnce` together, as `MoneyInv`; they need each other: that a refund is
the first of its job follows from the job not being closed (`SettledOnce`), and
that it lands on the right ledger from the reservation having a real owner
(`ReservationsOwned`). The argument is the same for all writers: a step appends
at most one row to one ledger, and a lemma says what that does to the postings
of every job. `QuotaKeepsPromise` takes the same cases: the step of an open job either
leaves its hold alone or closes it (`SettlementPromise`), and it is here that a completed
job must have consumed its reservation, since `Spend` returns nothing, and that the owner
must be a real user. `ClosedJobsAreFinal` is an action property of the same
invariant. `ReceiptsAndJobsAgree` adds `ReceiptInv`: a receipt is filed under its
own event, it and the handlers' reports come from the node of the job's
printer, and a closing report that was accepted has its receipt; and
`ChargeHasReceipt`, which holds because a charged job is closed and a filed receipt
is never replaced. From `ReceiptInv`, `RetriesStayAccepted`: the tests a repeated
report meets are tests it passes.

**Entry chain.** The invariant `IInv` adds to the properties: a chain locked by a
login is active with its newest attempt opened (`LockedIsOpened`), a chain before
its login has no user (`Unlogged`, so a new attempt never follows a completed
one), and a read loop that issues a chain does so for a real session. The proof
has one lemma per shape of step: no chain changes, one live chain moves, all live
chains are invalidated, and cases for a QR issue and a login. `OneLiveChain` gives
`ReplacedChainsStay`, because no step changes a row that is not live;
`ClaimAgreesWithSession` uses that a second chain waiting with another user
would be a second live chain.

**Edge link.** `WaiterInv` is inductive by itself: `TypeOK`, that a dispatch in the
middle of an attempt names a job and a socket (`SenderShape`), that a socket
not yet handed over has no redispatch running (`Unserved`, so its start overwrites
nobody), and `WaitersAreWaiting`, which the proof splits into "every waiter is a
waiting dispatch" and "every waiting dispatch has its waiter". The types need the
waiters: an acknowledgement is written into the sender the waiter names.
`LiveSocketIsCurrent` needs the types only; `DeadSocketIsReported` needs that a socket
is registered while its pump cannot have been reported yet (`RegisterServed`), which
holds because the manager does one thing at a time. `LinkKeepsPromise` follows a
promise through the machinery: nothing is queued, on a wire, acknowledged or in the
inbox for a job without a row (`CreatedInv`), and whoever holds an acceptance, as a
message under way, as an answer or as an outcome to record, holds it for a job the
Edge has (`ToldInv`). Both rest on `WaiterInv`, because it is the waiter that ties an
answer to the dispatch of the right job. Then every step is a step of
`DispatchPromise` or leaves `jobs` and `inbox` alone.

**Fleet.** `AuthorizedJobsSettled` is not inductive: enabling a node again forgets that
an earlier closing of the node gave up, and then nothing says why a job on a closed
printer below it is safe. A job is reached through its node or through its printer,
and the two are closed and opened by different requests, so `FleetInv` keeps a reason
for each: the node is open, or a closing of it still reaches the job, or one gave up
(`NodeSettles`); and the printer is open, or a closing of it still reaches the job, or
one gave up, or the row was written blindly (`PrinterSettles`). The same two reasons,
with a closing that still revokes, hold each `valid` token (`NodeRevokes`,
`PrinterRevokes`); a disable that ends makes the tokens it was to revoke `left` when the
revocation failed, so nothing is claimed of them. `LivePrinterIsUnique` is the unique index, together with soft
deletion never bringing a row back.

**Start.** `StartsCleanly` needs to know how far a start has come (`Progress`: what it has
passed is applied; a migration it is about to apply is not), which only holds because
the lock is held from the first check to the last (`Locked`); that users are granted as
soon as the granting migration is applied and not before it (`Granted`), so the
statement that every start repeats finds nobody it has granted before; and that a
start which met no other finds the portal's client as it left it (`ClientFree`, with
`Alone`).

**Files and tokens** (`FileProofs`). That an upload token is accepted once does not
follow from its row alone, because the row may be cleaned away in the last second of the
token: `UsageKnown` says that *until then* a row that shows neither use nor revocation
tells the truth. A download token handed out stands because only a dispatch of the same
job revokes it, and that one is under way until it has registered the next. A recent
file can be served since an object is where its upload has brought it (`Placed`), the
cleanup touches old files only and knows the store it lists (`CleaningKnown`), and the
migration points the row to the copy when the copy is there (`Copied`); `RowInOrder`
orders request, row and age. One lemma covers every file a step does not touch. In a
session, every request that runs beside a deletion or after it had loaded the live
session (`RequestsOverlap`), so what a deletion has listed covers whatever else there is
(`DeletionComplete`).

**Administration** (`AdministrationProofs`). A transaction that assigns portals holds
shared locks on them from its check to its commit, one that disables a portal an
exclusive one: `AssignmentsHeld` and `DisablingsHeld` say what each may rely on
meanwhile, and need each other. A revision is never newer than the providers because
both are written in one transaction (`RevisionsAgree`) and the revision is read first
(`ContextRead`). A deletion of a user holds the user's row, so nothing it erases is
younger than its count, and what it counted can have changed in one way only
(`DeletionKnown`). A replacement that nobody has overtaken still counts less than the
limit on every node it adds to, since steps that commit no binding only lower the count
(`CountedBelow`); the sets counted stay finite (`BindingsFinite`).

**Services** (`ServicesProofs`). `SyncAlertShown` needs that a sweep judges a sync
interrupted only of a node it judges online (`VerdictConsistent`), because the write
gives an offline node no health. The outbox: whoever is about to record a delivery is so
for an event that a socket has taken (`SentWasTaken`). Credentials: whoever has a token
was activated, and whatever has a client or a code has a row, so the cleanup, which
removes expired nodes without clients, takes neither away (`HoldersKnown`). The meter:
the sides are `pages · copy + page`, the used sheets are those of complete copies and the
first `Opened` of the current one, and an odd page leaves its sheet open for the next
(`SheetsKnown`), so a side adds a sheet exactly when the conversion counts one more.
`ChargeWithinPrice` and `ChargeGrows` are about the two functions alone, for all
documents: no report charges more than the reservation, and a later report no less than
an earlier. Last, a step of `MCServices` is a step of one component and leaves the others
alone (`ServicesStep`), so all the invariants hold together.

**Only model-checked:** the liveness properties `JobsLeavePending`, `ClosedSocketLeaves`,
`SilentGoesOffline`, `OrphansRemoved`, `LoginReachesEdge` and `ExpiredActivationsRemoved`,
which the prover cannot treat, and the five violated properties. Every safety and action
property that a passing run checks is also proved.

## 7. Not modelled

* Reports: job lists, dashboard, portal and node lists. They read rows and change
  nothing.
* Signatures and scopes of tokens (`middleware/oauth2.go`, `security/`), passwords,
  rate limits, configuration, logging, document inspection, the browser UI and the
  deployment files: no protocol state. Signatures are taken as sound.
* Code nothing reaches: handlers without a route (`RegisterEdgeNode`, the mutating
  handlers of `print_job_handler.go`), `broadcast` and `DispatchPrintJob`, and what
  depends on rows no handler creates any more: terminal tickets, the replay of
  `terminal_occupied` (`websocket/manager.go:244-342`) and the upload sessions bound
  to tickets.
* The SQL of the migrations, which is assumed to succeed on the data it meets
  (008 creates a unique index over whatever names there are).
* In the modelled components: error texts, expiry times where any step may be late
  for ever, names and addresses, and statements that only log. `PROJECT.json` says of
  each component what is left out.
