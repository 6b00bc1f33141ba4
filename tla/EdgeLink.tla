------------------------------ MODULE EdgeLink ------------------------------
(***************************************************************************)
(* The WebSocket link between the Cloud and one Edge node, and the         *)
(* dispatch of print jobs over it.                                         *)
(*                                                                         *)
(* Goroutines and what they do here:                                       *)
(*   - the manager's Run loop registers and unregisters sockets, one at a  *)
(*     time; API handlers push commands or delete the node, and take a     *)
(*     socket with a full queue out of the map themselves (Workers);       *)
(*   - each socket has a read pump and a write pump;                       *)
(*   - each created job, and each new socket, has a goroutine that         *)
(*     dispatches one job after the other and waits for acknowledgements   *)
(*     (Senders).                                                          *)
(* A step of this module is what one of them does under a lock or between  *)
(* two blocking calls.  The Edge node is external: it may take any message *)
(* it was sent, answer it or not, and cut the socket at any time.  A       *)
(* restart of the Cloud keeps the database and nothing else.               *)
(***************************************************************************)
EXTENDS Naturals, Sequences, FiniteSets

CONSTANTS
  Conns,          \* the sockets the Edge opens between two restarts of the Cloud
  Jobs,           \* print jobs for the node's printers
  Callers,        \* API handlers that push commands or delete the node
  Manager,        \* the goroutine in ConnectionManager.Run
  QueueCap,       \* length of a socket's send queue (256 in the code)
  MaxAttempts,    \* deliveries tried by one dispatch (3 in the code)
  WireCap,        \* bound: messages under way on a socket, in each direction
  Redispatching,  \* bound: the sockets that found jobs to send again when they were opened
  Beating,        \* bound: the sockets the Edge sends heartbeats on
  Reported,       \* bound: what the Edge reports of a job it has
  MaxRestarts,    \* bound: restarts of the Cloud
  None

ASSUME LinkAssumption ==
  /\ QueueCap \in Nat \ {0} /\ MaxAttempts \in Nat \ {0}
  /\ WireCap \in Nat \ {0} /\ MaxRestarts \in Nat
  /\ Reported \subseteq {"processing", "completed", "failed"}
  /\ Redispatching \subseteq Conns
  /\ Manager \notin Callers
  /\ Conns \cap Jobs = {}
  /\ None \notin Conns \cup Jobs

VARIABLES
  jobs,           \* print_jobs.status; a failed job carries its error_code here
  online,         \* edge_nodes.status = 'online'
  deleted,        \* edge_nodes.deleted_at is set
  inbox,          \* external: the jobs the Edge has taken in, kept by the Edge
  current,        \* ConnectionManager.connections[node]
  work,           \* what the manager and the callers are in the middle of
  conns,          \* the sockets
  senders,        \* the dispatching goroutines
  restarts

kept     == <<jobs, online, deleted, inbox>>
volatile == <<current, work, conns, senders>>
vars     == <<kept, volatile, restarts>>

Workers == Callers \cup {Manager}
Senders == Jobs \cup Conns

Queued    == {"pending", "dispatched"}
Active    == Queued \cup {"processing"}
Failures  == {"failed", "undelivered", "rejected"}
Immutable == {"completed"} \cup Failures
Statuses  == Active \cup {"unconfirmed"} \cup Immutable \cup {"absent"}

(* A message is a print job, identified by its dispatch and attempt (the   *)
(* MsgID of the code is fresh for each attempt), or another command.       *)
Msg  == [sender: Senders, job: Jobs, attempt: 1..MaxAttempts]
Note == [sender |-> None, job |-> None, attempt |-> 0]
Ack  == [msg: Msg, status: {"accepted", "rejected"}]

Conn == [stage: {"free", "upgraded", "reading", "leaving", "left"},
         done: BOOLEAN, queue: Seq(Msg \cup {Note}), wire: Seq(Msg),
         pending: SUBSET Msg, acks: SUBSET Ack]

Free == [stage |-> "free", done |-> FALSE, queue |-> <<>>, wire |-> <<>>,
         pending |-> {}, acks |-> {}]

OnSocket == [op: {"register", "send", "unregister", "unstable", "server_close", "close"},
             conn: Conns]
Settling == [op: {"settle"}, conn: {None}, todo: SUBSET Jobs]
Listing  == [op |-> "list", conn |-> None]
Rest     == [op |-> "rest", conn |-> None]
Work     == OnSocket \cup Settling \cup {Listing, Rest}

Sender == [stage: {"admitted", "list", "lookup", "send", "wait", "record"},
           todo: SUBSET Jobs, job: Jobs \cup {None}, attempt: 0..MaxAttempts,
           conn: Conns \cup {None}, answer: {"", "accepted", "rejected"},
           err: {"", "ack_timeout", "rejected", "undelivered"}]

Off == [stage |-> "off", todo |-> {}, job |-> None, attempt |-> 0, conn |-> None,
        answer |-> "", err |-> ""]

(* The dispatches of the jobs left to send: the first attempt of the next  *)
(* one, or the end of the goroutine.                                       *)
Dispatches(todo) ==
  IF todo = {} THEN {Off}
  ELSE {[Off EXCEPT !.stage = "lookup", !.todo = todo \ {j}, !.job = j, !.attempt = 1] :
          j \in todo}

Init ==
  /\ jobs = [j \in Jobs |-> "absent"]
  /\ online = FALSE /\ deleted = FALSE /\ inbox = {}
  /\ current = None
  /\ work = [w \in Workers |-> Rest]
  /\ conns = [c \in Conns |-> Free]
  /\ senders = [s \in Senders |-> Off]
  /\ restarts = 0

-----------------------------------------------------------------------------
(* Helpers on one socket.                                                  *)

(* What is still queued when a socket is closed is never sent.             *)
Closed(conn) == [conn EXCEPT !.done = TRUE, !.queue = <<>>]

(* enqueue: closed, full or queued.  A closed socket takes no message.     *)
HasRoom(conn)     == Len(conn.queue) < QueueCap
Queue(conn, m)    == [conn EXCEPT !.queue = Append(@, m)]
Expect(conn, m)   == [conn EXCEPT !.queue = Append(@, m), !.pending = @ \cup {m}]

Do(w, op, c) == work' = [work EXCEPT ![w] = [op |-> op, conn |-> c]]
Finish(w)    == work' = [work EXCEPT ![w] = Rest]

(* The message a waiting dispatch expects the acknowledgement of.          *)
MsgOf(s) == [sender |-> s, job |-> senders[s].job, attempt |-> senders[s].attempt]

-----------------------------------------------------------------------------
(* HandleConnection, the manager's loop and the pumps of a socket.         *)

(* The node is looked up, then the request becomes a socket; what follows  *)
(* waits until the manager takes the socket from the register channel.     *)
Connect(c) ==
  /\ ~deleted
  /\ conns[c].stage = "free"
  /\ conns' = [conns EXCEPT ![c].stage = "upgraded"]
  /\ UNCHANGED <<kept, current, work, senders, restarts>>

(* The channel is unbuffered: once the manager has the socket, the handler *)
(* starts the redispatch goroutine and the pumps, whether or not the       *)
(* manager has put the socket into its map.                                *)
HandOff(c) ==
  /\ work[Manager] = Rest
  /\ conns[c].stage = "upgraded"
  /\ Do(Manager, "register", c)
  /\ conns' = [conns EXCEPT ![c].stage = "reading"]
  /\ senders' = IF c \in Redispatching
                THEN [senders EXCEPT ![c].stage = "list"] ELSE senders
  /\ UNCHANGED <<kept, current, restarts>>

Register ==
  LET c == work[Manager].conn
  IN  /\ work[Manager].op = "register"
      /\ conns' = IF current = None THEN conns
                  ELSE [conns EXCEPT ![current] = Closed(@)]
      /\ current' = c
      /\ Finish(Manager)
      /\ UNCHANGED <<kept, senders, restarts>>

(* unregisterConnection under the mutex, by the manager or by a caller.    *)

(* Mutant: whatever socket the node has now is taken out.                  *)
Unregister_Any(w) ==
  /\ work[w].op = "unregister"
  /\ current' = None
  /\ Do(w, "unstable", work[w].conn)
  /\ UNCHANGED <<kept, conns, senders, restarts>>

(* Mutant: the socket is closed but stays in the map.                      *)
Unregister_KeepsEntry(w) ==
  /\ work[w].op = "unregister"
  /\ Do(w, "close", work[w].conn)
  /\ UNCHANGED <<kept, current, conns, senders, restarts>>

Unregister(w) ==
  LET c == work[w].conn
  IN  /\ work[w].op = "unregister"
      /\ IF current = c THEN current' = None /\ Do(w, "unstable", c)
                        ELSE Do(w, "close", c) /\ UNCHANGED current
      /\ UNCHANGED <<kept, conns, senders, restarts>>

(* MarkUnstable, after the mutex is released.                              *)
MarkUnstable(w) ==
  /\ work[w].op = "unstable"
  /\ online' = (online /\ deleted)
  /\ Do(w, "close", work[w].conn)
  /\ UNCHANGED <<jobs, deleted, inbox, current, conns, senders, restarts>>

CloseConn(w) ==
  /\ work[w].op = "close"
  /\ conns' = [conns EXCEPT ![work[w].conn] = Closed(@)]
  /\ Finish(w)
  /\ UNCHANGED <<kept, current, senders, restarts>>

(* ReadPump: a read error, a missed pong, or the socket closed under it.   *)
ReadFails(c) ==
  /\ conns[c].stage = "reading"
  /\ conns' = [conns EXCEPT ![c].stage = "leaving", ![c].acks = {}]
  /\ UNCHANGED <<kept, current, work, senders, restarts>>

(* Its deferred call hands the socket to the manager, then closes it.      *)

(* Mutant: the pump just ends.                                             *)
HandUnregister_Forgotten(c) ==
  /\ work[Manager] = Rest
  /\ conns[c].stage = "leaving"
  /\ conns' = [conns EXCEPT ![c].stage = "left"]
  /\ UNCHANGED <<kept, current, work, senders, restarts>>

HandUnregister(c) ==
  /\ work[Manager] = Rest
  /\ conns[c].stage = "leaving"
  /\ Do(Manager, "unregister", c)
  /\ conns' = [conns EXCEPT ![c].stage = "left"]
  /\ UNCHANGED <<kept, current, senders, restarts>>

ReaderReturns(c) ==
  /\ conns[c].stage = "left" /\ ~conns[c].done
  /\ conns' = [conns EXCEPT ![c] = Closed(@)]
  /\ UNCHANGED <<kept, current, work, senders, restarts>>

(* WritePump.  A write to a closed socket fails, so nothing follows done.  *)
(* What the Edge does with a command that is not a job changes nothing     *)
(* here, so it is not kept.                                                *)
Write(c) ==
  LET m == Head(conns[c].queue)
  IN  /\ ~conns[c].done /\ conns[c].queue # <<>>
      /\ Len(conns[c].wire) < WireCap
      /\ conns' = [conns EXCEPT ![c].queue = Tail(@),
                                ![c].wire  = IF m = Note THEN @ ELSE Append(@, m)]
      /\ UNCHANGED <<kept, current, work, senders, restarts>>

(* A write or a ping fails: the pump closes the socket.                    *)
WriteFails(c) ==
  /\ ~conns[c].done
  /\ conns[c].stage \in {"reading", "leaving", "left"}
  /\ conns' = [conns EXCEPT ![c] = Closed(@)]
  /\ UNCHANGED <<kept, current, work, senders, restarts>>

-----------------------------------------------------------------------------
(* The Edge node, external.  It takes the next message, also from a socket *)
(* the Cloud has closed in the meantime.  A job it has is taken only once; *)
(* whether it wants a new one is up to it.                                 *)

EdgeTakes(c, status) ==
  LET m == Head(conns[c].wire)
  IN  /\ conns[c].wire # <<>> /\ Cardinality(conns[c].acks) < WireCap
      /\ status = "rejected" => m.job \notin inbox
      /\ inbox' = IF status = "accepted" THEN inbox \cup {m.job} ELSE inbox
      /\ conns' = [conns EXCEPT ![c].wire = Tail(@),
                                ![c].acks = IF conns[c].stage = "reading"
                                            THEN @ \cup {[msg |-> m, status |-> status]}
                                            ELSE @]
      /\ UNCHANGED <<jobs, online, deleted, current, work, senders, restarts>>

-----------------------------------------------------------------------------
(* What the read pump does with a message.                                 *)

(* handleAckDirect: the answer goes to whoever waits for this message, on  *)
(* the socket it was sent on.                                              *)
HandleAck(c, ack) ==
  LET s == ack.msg.sender
  IN  /\ conns[c].stage = "reading" /\ ack \in conns[c].acks
      /\ conns' = [conns EXCEPT ![c].acks = @ \ {ack}, ![c].pending = @ \ {ack.msg}]
      /\ senders' = IF ack.msg \in conns[c].pending
                    THEN [senders EXCEPT ![s].answer = ack.status]
                    ELSE senders
      /\ UNCHANGED <<kept, current, work, restarts>>

Heartbeat(c) ==
  /\ c \in Beating
  /\ conns[c].stage = "reading" /\ ~deleted
  /\ online' = TRUE
  /\ UNCHANGED <<jobs, deleted, inbox, volatile, restarts>>

(* handleJobUpdate, for a job the Edge has.  The node was there when the   *)
(* message came in, it may be deleted by now.  What becomes of an update in*)
(* the database is the subject of PrintSettlement.                         *)
HandleJobUpdate(c, j, status) ==
  /\ conns[c].stage = "reading"
  /\ j \in inbox /\ jobs[j] \notin Immutable
  /\ jobs' = [jobs EXCEPT ![j] = status]
  /\ UNCHANGED <<online, deleted, inbox, volatile, restarts>>

-----------------------------------------------------------------------------
(* Job creation and the dispatching goroutines.                            *)

(* handleSubmitPrintParams: a socket submits a job while its node exists;  *)
(* the job is inserted later, when the node may be deleted and the socket  *)
(* out of the map.  Here the socket reads on meanwhile, which only adds    *)
(* steps.  A job that is refused changes nothing and is left out.          *)
AdmitJob(j) ==
  /\ jobs[j] = "absent" /\ senders[j] = Off
  /\ ~deleted
  /\ \E c \in Conns : conns[c].stage = "reading"
  /\ senders' = [senders EXCEPT ![j].stage = "admitted"]
  /\ UNCHANGED <<kept, current, work, conns, restarts>>

CreateJob(j) ==
  /\ senders[j].stage = "admitted"
  /\ jobs' = [jobs EXCEPT ![j] = "pending"]
  /\ \E d \in Dispatches({j}) : senders' = [senders EXCEPT ![j] = d]
  /\ UNCHANGED <<online, deleted, inbox, current, work, conns, restarts>>

(* GetPendingOrDispatchedJobsByEdgeNodeID, by a new socket's goroutine.    *)

(* Mutant: only jobs that were acknowledged before are sent again.         *)
ListQueued_DispatchedOnly(c) ==
  /\ senders[c].stage = "list"
  /\ \E d \in Dispatches({j \in Jobs : jobs[j] = "dispatched"}) :
       senders' = [senders EXCEPT ![c] = d]
  /\ UNCHANGED <<kept, current, work, conns, restarts>>

ListQueued(c) ==
  /\ senders[c].stage = "list"
  /\ \E d \in Dispatches({j \in Jobs : jobs[j] \in Queued}) :
       senders' = [senders EXCEPT ![c] = d]
  /\ UNCHANGED <<kept, current, work, conns, restarts>>

Undelivered(s) ==
  senders' = [senders EXCEPT ![s].stage = "record", ![s].err = "undelivered",
                             ![s].conn = None]

(* dispatchPrintJob looks the socket up under the read lock ...            *)
Lookup(s) ==
  /\ senders[s].stage = "lookup"
  /\ IF current = None
     THEN Undelivered(s)
     ELSE senders' = [senders EXCEPT ![s].stage = "send", ![s].conn = current]
  /\ UNCHANGED <<kept, current, work, conns, restarts>>

(* ... and uses it after the lock is released: it may be closed by now, or *)
(* full.  The waiter is entered before the message is queued.              *)
Send(s) ==
  LET c == senders[s].conn
  IN  /\ senders[s].stage = "send"
      /\ IF conns[c].done \/ ~HasRoom(conns[c])
         THEN Undelivered(s) /\ UNCHANGED conns
         ELSE /\ senders' = [senders EXCEPT ![s].stage = "wait", ![s].answer = ""]
              /\ conns' = [conns EXCEPT ![c] = Expect(@, MsgOf(s))]
      /\ UNCHANGED <<kept, current, work, restarts>>

(* The deferred delete of the waiter.                                      *)
StopWaiting(s) ==
  conns' = [conns EXCEPT ![senders[s].conn].pending = @ \ {MsgOf(s)}]

Answered(s) ==
  /\ senders[s].stage = "wait" /\ senders[s].answer # ""
  /\ senders' = [senders EXCEPT ![s].stage = "record", ![s].conn = None,
                   ![s].err = IF senders[s].answer = "accepted" THEN "" ELSE "rejected"]
  /\ StopWaiting(s)
  /\ UNCHANGED <<kept, current, work, restarts>>

(* Ten seconds without an answer, or the timer wins over the answer: only  *)
(* this is tried again, with a socket looked up anew.                      *)

(* Mutant: the waiter of a timed out attempt is left in the table.         *)
TimeOut_KeepsWaiter(s) ==
  /\ senders[s].stage = "wait"
  /\ senders' = IF senders[s].attempt < MaxAttempts
                THEN [senders EXCEPT ![s].stage = "lookup", ![s].attempt = @ + 1,
                                     ![s].conn = None, ![s].answer = ""]
                ELSE [senders EXCEPT ![s].stage = "record", ![s].err = "ack_timeout",
                                     ![s].conn = None]
  /\ UNCHANGED <<kept, current, work, conns, restarts>>

(* Mutant: a job is sent again and again.                                  *)
TimeOut_Forever(s) ==
  /\ senders[s].stage = "wait"
  /\ senders' = [senders EXCEPT ![s].stage = "lookup", ![s].attempt = @ + 1,
                                ![s].conn = None, ![s].answer = ""]
  /\ StopWaiting(s)
  /\ UNCHANGED <<kept, current, work, restarts>>

TimeOut(s) ==
  /\ senders[s].stage = "wait"
  /\ senders' = IF senders[s].attempt < MaxAttempts
                THEN [senders EXCEPT ![s].stage = "lookup", ![s].attempt = @ + 1,
                                     ![s].conn = None, ![s].answer = ""]
                ELSE [senders EXCEPT ![s].stage = "record", ![s].err = "ack_timeout",
                                     ![s].conn = None]
  /\ StopWaiting(s)
  /\ UNCHANGED <<kept, current, work, restarts>>

(* What becomes of the job row: MarkDispatched and                         *)
(* ApplyDispatchUnconfirmed move a pending job only, ApplyJobResult any    *)
(* job whose outcome is still open.                                        *)

(* Mutant: a dispatch nobody answered counts as delivered.                 *)
Outcome_TimeoutIsDispatched(status, err) ==
  CASE err \in {"", "ack_timeout"} -> IF status = "pending" THEN "dispatched" ELSE status
    [] OTHER -> IF status \in Immutable THEN status ELSE err

Outcome(status, err) ==
  CASE err = ""            -> IF status = "pending" THEN "dispatched" ELSE status
    [] err = "ack_timeout" -> IF status = "pending" THEN "unconfirmed" ELSE status
    [] OTHER               -> IF status \in Immutable THEN status ELSE err

Record(s) ==
  LET j == senders[s].job
  IN  /\ senders[s].stage = "record"
      /\ jobs' = [jobs EXCEPT ![j] = Outcome(@, senders[s].err)]
      /\ \E d \in Dispatches(senders[s].todo) : senders' = [senders EXCEPT ![s] = d]
      /\ UNCHANGED <<online, deleted, inbox, current, work, conns, restarts>>

-----------------------------------------------------------------------------
(* API handlers.                                                           *)

(* SendToNode: the same lookup; a full queue costs the node its socket.    *)
SendToNode(w) ==
  /\ work[w] = Rest /\ current # None
  /\ Do(w, "send", current)
  /\ UNCHANGED <<kept, current, conns, senders, restarts>>

EnqueueNote(w) ==
  LET c == work[w].conn
  IN  /\ work[w].op = "send"
      /\ \/ conns[c].done /\ Finish(w) /\ UNCHANGED conns
         \/ /\ ~conns[c].done /\ HasRoom(conns[c])
            /\ Finish(w)
            /\ conns' = [conns EXCEPT ![c] = Queue(@, Note)]
         \/ /\ ~conns[c].done /\ ~HasRoom(conns[c])
            /\ Do(w, "unregister", c)
            /\ UNCHANGED conns
      /\ UNCHANGED <<kept, current, senders, restarts>>

(* DeleteEdgeNode: the transaction, the list of what is active then, the   *)
(* settlement of one listed job after the other (ApplyJobResult, which     *)
(* leaves a closed job alone), and DisconnectNode, which takes the socket  *)
(* out, says good-bye and closes.                                          *)
DeleteEdgeNode(w) ==
  /\ work[w] = Rest /\ ~deleted
  /\ deleted' = TRUE
  /\ work' = [work EXCEPT ![w] = Listing]
  /\ UNCHANGED <<jobs, online, inbox, current, conns, senders, restarts>>

ListActiveJobs(w) ==
  /\ work[w] = Listing
  /\ work' = [work EXCEPT ![w] = [op |-> "settle", conn |-> None,
                                 todo |-> {j \in Jobs : jobs[j] \in Active}]]
  /\ UNCHANGED <<kept, current, conns, senders, restarts>>

SettleActiveJob(w, j) ==
  /\ work[w].op = "settle" /\ j \in work[w].todo
  /\ jobs' = [jobs EXCEPT ![j] = IF @ \in Immutable \cup {"absent"} THEN @ ELSE "failed"]
  /\ work' = [work EXCEPT ![w].todo = @ \ {j}]
  /\ UNCHANGED <<online, deleted, inbox, current, conns, senders, restarts>>

DisconnectNode(w) ==
  /\ work[w].op = "settle" /\ work[w].todo = {}
  /\ IF current = None THEN Finish(w) ELSE Do(w, "server_close", current)
  /\ current' = None
  /\ UNCHANGED <<kept, conns, senders, restarts>>

ServerClose(w) ==
  LET c == work[w].conn
  IN  /\ work[w].op = "server_close"
      /\ conns' = IF conns[c].done \/ ~HasRoom(conns[c]) THEN conns
                  ELSE [conns EXCEPT ![c] = Queue(@, Note)]
      /\ Do(w, "close", c)
      /\ UNCHANGED <<kept, current, senders, restarts>>

(* The Cloud process stops and starts again.                               *)
Restart ==
  /\ restarts < MaxRestarts
  /\ restarts' = restarts + 1
  /\ current' = None
  /\ work' = [w \in Workers |-> Rest]
  /\ conns' = [c \in Conns |-> Free]
  /\ senders' = [s \in Senders |-> Off]
  /\ UNCHANGED kept

-----------------------------------------------------------------------------
ManagerStep ==
  \/ Register
  \/ \E c \in Conns : HandOff(c) \/ HandUnregister(c)

WorkerStep(w) ==
  Unregister(w) \/ MarkUnstable(w) \/ CloseConn(w)

CallerStep(w) ==
  \/ EnqueueNote(w) \/ ListActiveJobs(w) \/ DisconnectNode(w) \/ ServerClose(w)
  \/ \E j \in Jobs : SettleActiveJob(w, j)

PumpStep(c) ==
  \/ ReaderReturns(c) \/ Write(c)
  \/ \E ack \in conns[c].acks : HandleAck(c, ack)

SenderStep(s) ==
  Lookup(s) \/ Send(s) \/ Answered(s) \/ TimeOut(s) \/ Record(s)

Environment ==
  \/ \E c \in Conns :
       \/ Connect(c) \/ ReadFails(c) \/ WriteFails(c) \/ Heartbeat(c)
       \/ \E status \in {"accepted", "rejected"} : EdgeTakes(c, status)
       \/ \E j \in Jobs, status \in Reported :
            HandleJobUpdate(c, j, status)
  \/ \E j \in Jobs : AdmitJob(j)
  \/ \E w \in Callers : SendToNode(w) \/ DeleteEdgeNode(w)
  \/ Restart

Next ==
  \/ ManagerStep
  \/ \E w \in Workers : WorkerStep(w)
  \/ \E w \in Callers : CallerStep(w)
  \/ \E c \in Conns : PumpStep(c)
  \/ \E s \in Senders : SenderStep(s)
  \/ \E c \in Conns : ListQueued(c)
  \/ \E j \in Jobs : CreateJob(j)
  \/ Environment

Spec == Init /\ [][Next]_vars

(* A goroutine that is not blocked runs: the manager serves both channels, *)
(* and every sender that waits has a timer.  A socket that was closed makes*)
(* its read fail.  The Edge connects when it has no socket, as long as the *)
(* node exists; nothing else is asked of it.                               *)
Reconnect(c) ==
  /\ \A d \in Conns : conns[d].stage \notin {"upgraded", "reading"}
  /\ Connect(c)

ClosedReadFails(c) == conns[c].done /\ ReadFails(c)

Fairness ==
  /\ WF_vars(Register)
  /\ \A c \in Conns : /\ SF_vars(HandOff(c))
                      /\ SF_vars(HandUnregister(c))
                      /\ WF_vars(ReaderReturns(c))
                      /\ WF_vars(ClosedReadFails(c))
                      /\ WF_vars(ListQueued(c))
                      /\ WF_vars(Reconnect(c))
  /\ \A w \in Workers : WF_vars(WorkerStep(w))
  /\ \A w \in Callers : WF_vars(CallerStep(w))
  /\ \A s \in Senders : WF_vars(SenderStep(s))
  /\ \A j \in Jobs : WF_vars(CreateJob(j))

FairSpec == Spec /\ Fairness

-----------------------------------------------------------------------------
TypeOK ==
  /\ jobs \in [Jobs -> Statuses]
  /\ online \in BOOLEAN /\ deleted \in BOOLEAN
  /\ inbox \subseteq Jobs
  /\ current \in Conns \cup {None}
  /\ work \in [Workers -> Work]
  /\ conns \in [Conns -> Conn]
  /\ senders \in [Senders -> Sender \cup {Off}]
  /\ restarts \in 0..MaxRestarts

(* A socket that is open and read is the one the node's commands go to,    *)
(* unless it is just being registered or closed: the late unregistration   *)
(* of an old socket never costs the node its new one (manager.go:83-85).   *)
LiveSocketIsCurrent ==
  \A c \in Conns :
    conns[c].stage = "reading" /\ ~conns[c].done =>
      \/ current = c
      \/ \E w \in Workers : work[w].conn = c
                            /\ work[w].op \in {"register", "unstable", "server_close", "close"}

(* A socket whose read pump has ended does not stay in the map: either the *)
(* pump still has to report it, or someone is about to take it out.        *)
DeadSocketIsReported ==
  \A c \in Conns :
    current = c /\ conns[c].stage \notin {"reading", "leaving"} =>
      \E w \in Workers : work[w] = [op |-> "unregister", conn |-> c]

(* The waiter table of a socket holds exactly the dispatches that wait on  *)
(* it unanswered: no waiter is lost, and none stays behind.                *)
WaitersAreWaiting ==
  \A c \in Conns :
    conns[c].pending =
      {MsgOf(s) : s \in {t \in Senders : /\ senders[t].stage = "wait"
                                         /\ senders[t].conn = c
                                         /\ senders[t].answer = ""}}

(* The dispatch keeps its promise: every step is a step of DispatchPromise *)
(* or changes nothing it speaks of.                                        *)
Promise == INSTANCE DispatchPromise WITH Jobs <- Jobs, jobs <- jobs, inbox <- inbox

KeepsPromise == Promise!Spec

(* Every job that was created is sooner or later dispatched, doubtful or   *)
(* closed, whatever happens to the sockets: a dispatch cut off by a restart*)
(* is taken up when the Edge connects again.                               *)
JobsLeavePending ==
  \A j \in Jobs : jobs[j] = "pending" ~> jobs[j] # "pending" \/ deleted

(* A closed socket leaves the map.                                         *)
ClosedSocketLeaves ==
  \A c \in Conns : current = c /\ conns[c].done ~> current # c

(* "Print job was not delivered to the Edge node" (print_job_dispatch.go:  *)
(* 59): a job that is closed with this reason is not one the Edge has.     *)
UndeliveredMeansNotTaken ==
  \A j \in Jobs : jobs[j] = "undelivered" => j \notin inbox
=============================================================================
