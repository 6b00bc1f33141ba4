--------------------------- MODULE EdgeLinkProofs ---------------------------
(***************************************************************************)
(* Proofs about EdgeLink, for any number of sockets, jobs and callers.     *)
(***************************************************************************)
EXTENDS EdgeLink, SequenceTheorems, TLAPS

-----------------------------------------------------------------------------
(* Types.                                                                  *)

LEMMA NoMessage == \A S : <<>> \in Seq(S)
OBVIOUS

LEMMA FreeType == Free \in Conn
BY NoMessage DEF Free, Conn

(* What the pumps, the senders and the Edge do to a socket keeps its type. *)
LEMMA ClosedType ==
  ASSUME NEW conn \in Conn
  PROVE  /\ Closed(conn) \in Conn
         /\ Closed(conn).stage = conn.stage /\ Closed(conn).done
         /\ Closed(conn).pending = conn.pending
         /\ Closed(conn).acks = conn.acks /\ Closed(conn).wire = conn.wire
<1>1. <<>> \in Seq(Msg \cup {Note})
  BY NoMessage
<1> QED
  BY <1>1 DEF Closed, Conn

LEMMA QueueType ==
  ASSUME NEW conn \in Conn, NEW m \in Msg \cup {Note}
  PROVE  /\ Queue(conn, m) \in Conn
         /\ Queue(conn, m).stage = conn.stage /\ Queue(conn, m).done = conn.done
         /\ Queue(conn, m).pending = conn.pending
         /\ Queue(conn, m).acks = conn.acks /\ Queue(conn, m).wire = conn.wire
<1>1. Append(conn.queue, m) \in Seq(Msg \cup {Note})
  BY DEF Conn
<1> QED
  BY <1>1 DEF Queue, Conn

LEMMA ExpectType ==
  ASSUME NEW conn \in Conn, NEW m \in Msg
  PROVE  /\ Expect(conn, m) \in Conn
         /\ Expect(conn, m).stage = conn.stage
         /\ Expect(conn, m).queue = Append(conn.queue, m)
         /\ Expect(conn, m).pending = conn.pending \cup {m}
         /\ Expect(conn, m).acks = conn.acks /\ Expect(conn, m).wire = conn.wire
<1>1. Append(conn.queue, m) \in Seq(Msg \cup {Note})
  BY DEF Conn
<1> QED
  BY <1>1 DEF Expect, Conn

LEMMA StageType ==
  ASSUME NEW conn \in Conn,
         NEW stage \in {"free", "upgraded", "reading", "leaving", "left"}
  PROVE  [conn EXCEPT !.stage = stage] \in Conn
BY DEF Conn

LEMMA WorkType ==
  ASSUME NEW op \in {"register", "send", "unregister", "unstable", "server_close", "close"},
         NEW c \in Conns
  PROVE  [op |-> op, conn |-> c] \in Work
BY DEF Work, OnSocket

LEMMA WorkConn ==
  ASSUME TypeOK, NEW w \in Workers,
         work[w].op \in {"register", "send", "unregister", "unstable", "server_close", "close"}
  PROVE  work[w].conn \in Conns
BY DEF TypeOK, Work, OnSocket, Settling, Listing, Rest

(* The worker that deletes the node lists jobs and settles them.           *)
LEMMA SettleSteps ==
  ASSUME TypeOK, NEW w \in Workers,
         ListActiveJobs(w) \/ \E j \in Jobs : SettleActiveJob(w, j)
  PROVE  /\ work[w] \in Settling \cup {Listing}
         /\ work' \in [Workers -> Work]
         /\ work'[w] \in Settling
         /\ \A v \in Workers : v # w => work'[v] = work[v]
<1>1. CASE ListActiveJobs(w)
  <2> DEFINE k == [op |-> "settle", conn |-> None, todo |-> {j \in Jobs : jobs[j] \in Active}]
  <2>1. k \in Settling
    BY DEF Settling
  <2>2. work' = [work EXCEPT ![w] = k] /\ work[w] = Listing
    BY <1>1 DEF ListActiveJobs
  <2> HIDE DEF k
  <2> QED
    BY <2>1, <2>2 DEF TypeOK, Work
<1>2. ASSUME NEW j \in Jobs, SettleActiveJob(w, j)
      PROVE  /\ work[w] \in Settling
             /\ work' \in [Workers -> Work]
             /\ work'[w] \in Settling
             /\ \A v \in Workers : v # w => work'[v] = work[v]
  <2> DEFINE k == [work[w] EXCEPT !.todo = work[w].todo \ {j}]
  <2>1. work[w] \in Settling
    BY <1>2 DEF SettleActiveJob, TypeOK, Work, OnSocket, Listing, Rest
  <2>2. k \in Settling
    BY <2>1 DEF Settling
  <2>3. work' = [work EXCEPT ![w] = k]
    BY <1>2 DEF SettleActiveJob
  <2> HIDE DEF k
  <2> QED
    BY <2>1, <2>2, <2>3 DEF TypeOK, Work
<1> QED
  BY <1>1, <1>2

LEMMA SettlingParts ==
  \A k \in Settling \cup {Listing} : k.op \in {"settle", "list"} /\ k.conn = None
BY DEF Settling, Listing

LEMMA AtWork ==
  ASSUME NEW d \in Sender \cup {Off}, d.stage # "off"
  PROVE  d \in Sender
<1>1. Off.stage = "off"
  BY DEF Off
<1> QED
  BY <1>1

LEMMA SenderStage ==
  ASSUME NEW d \in Sender \cup {Off}, NEW stage \in {"admitted", "list"}
  PROVE  [d EXCEPT !.stage = stage] \in Sender
<1>1. 0 \in 0..MaxAttempts
  BY LinkAssumption
<1>2. CASE d = Off
  BY <1>1, <1>2 DEF Off, Sender
<1>3. CASE d \in Sender
  BY <1>3 DEF Sender
<1> QED
  BY <1>2, <1>3

LEMMA DispatchesType ==
  ASSUME NEW todo \in SUBSET Jobs, NEW d \in Dispatches(todo)
  PROVE  d \in Sender \cup {Off}
<1>1. 1 \in 0..MaxAttempts
  BY LinkAssumption
<1>2. CASE todo = {}
  BY <1>2 DEF Dispatches
<1>3. CASE todo # {}
  <2>1. PICK j \in todo :
          d = [Off EXCEPT !.stage = "lookup", !.todo = todo \ {j}, !.job = j, !.attempt = 1]
    BY <1>3 DEF Dispatches
  <2>2. d = [stage |-> "lookup", todo |-> todo \ {j}, job |-> j, attempt |-> 1,
             conn |-> None, answer |-> "", err |-> ""]
    BY <2>1 DEF Off
  <2> QED
    BY <1>1, <2>2 DEF Sender
<1> QED
  BY <1>2, <1>3

(* A type-correct state changed in one part only.                          *)
LEMMA TypeSet ==
  ASSUME TypeOK
  PROVE  /\ \A c \in Conns : conns[c] \in Conn
         /\ \A s \in Senders : senders[s] \in Sender \cup {Off}
         /\ \A w \in Workers : work[w] \in Work
BY DEF TypeOK

LEMMA TypesManager ==
  ASSUME TypeOK, ManagerStep
  PROVE  TypeOK'
<1> USE DEF kept, volatile, Do, Finish
<1>1. CASE Register
  <2>1. Manager \in Workers /\ work[Manager].conn \in Conns
    BY <1>1, WorkConn DEF Register, Workers
  <2>2. conns' \in [Conns -> Conn]
    BY <1>1, ClosedType DEF Register, TypeOK
  <2>3. work' \in [Workers -> Work]
    BY <1>1 DEF Register, TypeOK, Work
  <2> QED
    BY <1>1, <2>1, <2>2, <2>3 DEF Register, TypeOK
<1>2. ASSUME NEW c \in Conns, HandOff(c)
      PROVE  TypeOK'
  <2>1. conns' \in [Conns -> Conn]
    BY <1>2, StageType DEF HandOff, TypeOK
  <2>2. senders' \in [Senders -> Sender \cup {Off}]
    <3>1. [senders[c] EXCEPT !.stage = "list"] \in Sender
      BY SenderStage DEF TypeOK, Senders
    <3> QED
      BY <1>2, <3>1 DEF HandOff, TypeOK, Senders
  <2>3. work' \in [Workers -> Work]
    BY <1>2, WorkType DEF HandOff, TypeOK
  <2> QED
    BY <1>2, <2>1, <2>2, <2>3 DEF HandOff, TypeOK
<1>3. ASSUME NEW c \in Conns, HandUnregister(c)
      PROVE  TypeOK'
  <2>1. conns' \in [Conns -> Conn]
    BY <1>3, StageType DEF HandUnregister, TypeOK
  <2>2. work' \in [Workers -> Work]
    BY <1>3, WorkType DEF HandUnregister, TypeOK
  <2> QED
    BY <1>3, <2>1, <2>2 DEF HandUnregister, TypeOK
<1> QED
  BY <1>1, <1>2, <1>3 DEF ManagerStep

LEMMA TypesWorker ==
  ASSUME TypeOK, NEW w \in Workers, WorkerStep(w) \/ CallerStep(w)
  PROVE  TypeOK'
<1> USE DEF kept, volatile, Do, Finish
<1>1. CASE Unregister(w)
  <2>1. work[w].conn \in Conns
    BY <1>1, WorkConn DEF Unregister
  <2>2. work' \in [Workers -> Work] /\ current' \in Conns \cup {None}
    BY <1>1, <2>1, WorkType DEF Unregister, TypeOK
  <2> QED
    BY <1>1, <2>2 DEF Unregister, TypeOK
<1>2. CASE MarkUnstable(w)
  <2>1. work[w].conn \in Conns
    BY <1>2, WorkConn DEF MarkUnstable
  <2>2. work' \in [Workers -> Work]
    BY <1>2, <2>1, WorkType DEF MarkUnstable, TypeOK
  <2> QED
    BY <1>2, <2>2 DEF MarkUnstable, TypeOK
<1>3. CASE CloseConn(w)
  <2>1. work[w].conn \in Conns
    BY <1>3, WorkConn DEF CloseConn
  <2>2. work' \in [Workers -> Work] /\ conns' \in [Conns -> Conn]
    BY <1>3, <2>1, ClosedType DEF CloseConn, TypeOK, Work
  <2> QED
    BY <1>3, <2>2 DEF CloseConn, TypeOK
<1>4. CASE EnqueueNote(w)
  <2>1. work[w].conn \in Conns
    BY <1>4, WorkConn DEF EnqueueNote
  <2>2. work' \in [Workers -> Work]
    BY <1>4, <2>1, WorkType DEF EnqueueNote, TypeOK, Work
  <2>3. conns' \in [Conns -> Conn]
    BY <1>4, <2>1, QueueType DEF EnqueueNote, TypeOK
  <2> QED
    BY <1>4, <2>2, <2>3 DEF EnqueueNote, TypeOK
<1>5. CASE DisconnectNode(w)
  <2>1. work' \in [Workers -> Work]
    BY <1>5, WorkType DEF DisconnectNode, TypeOK, Work
  <2> QED
    BY <1>5, <2>1 DEF DisconnectNode, TypeOK
<1>6. CASE ServerClose(w)
  <2>1. work[w].conn \in Conns
    BY <1>6, WorkConn DEF ServerClose
  <2>2. work' \in [Workers -> Work]
    BY <1>6, <2>1, WorkType DEF ServerClose, TypeOK
  <2>3. conns' \in [Conns -> Conn]
    BY <1>6, <2>1, QueueType DEF ServerClose, TypeOK
  <2> QED
    BY <1>6, <2>2, <2>3 DEF ServerClose, TypeOK
<1>7. ASSUME NEW j \in Jobs, SettleActiveJob(w, j)
      PROVE  TypeOK'
  <2>1. work' \in [Workers -> Work]
    BY <1>7, SettleSteps
  <2>2. jobs' \in [Jobs -> Statuses]
    BY <1>7 DEF SettleActiveJob, TypeOK, Statuses, Immutable, Failures
  <2> QED
    BY <1>7, <2>1, <2>2 DEF SettleActiveJob, TypeOK
<1>8. CASE ListActiveJobs(w)
  <2>1. work' \in [Workers -> Work]
    BY <1>8, SettleSteps
  <2> QED
    BY <1>8, <2>1 DEF ListActiveJobs, TypeOK
<1> QED
  BY <1>1, <1>2, <1>3, <1>4, <1>5, <1>6, <1>7, <1>8 DEF WorkerStep, CallerStep

LEMMA MessageTypes ==
  ASSUME NEW conn \in Conn
  PROVE  /\ conn.queue # <<>> => /\ Head(conn.queue) \in Msg \cup {Note}
                                 /\ Tail(conn.queue) \in Seq(Msg \cup {Note})
         /\ conn.wire # <<>> => Head(conn.wire) \in Msg /\ Tail(conn.wire) \in Seq(Msg)
         /\ \A m \in Msg : Append(conn.wire, m) \in Seq(Msg)
BY DEF Conn

(* A socket changed in one or two of its parts.                            *)
LEMMA ConnParts ==
  ASSUME TypeOK, NEW c \in Conns
  PROVE  /\ \A q \in Seq(Msg \cup {Note}), w \in Seq(Msg) :
              [conns EXCEPT ![c].queue = q, ![c].wire = w] \in [Conns -> Conn]
         /\ \A w \in Seq(Msg), a \in SUBSET Ack :
              [conns EXCEPT ![c].wire = w, ![c].acks = a] \in [Conns -> Conn]
         /\ \A a \in SUBSET Ack, p \in SUBSET Msg :
              [conns EXCEPT ![c].acks = a, ![c].pending = p] \in [Conns -> Conn]
         /\ \A p \in SUBSET Msg : [conns EXCEPT ![c].pending = p] \in [Conns -> Conn]
<1>1. conns[c] \in Conn
  BY DEF TypeOK
<1>2. /\ \A q \in Seq(Msg \cup {Note}), w \in Seq(Msg) :
           [conns[c] EXCEPT !.queue = q, !.wire = w] \in Conn
      /\ \A w \in Seq(Msg), a \in SUBSET Ack : [conns[c] EXCEPT !.wire = w, !.acks = a] \in Conn
      /\ \A a \in SUBSET Ack, p \in SUBSET Msg :
           [conns[c] EXCEPT !.acks = a, !.pending = p] \in Conn
      /\ \A p \in SUBSET Msg : [conns[c] EXCEPT !.pending = p] \in Conn
  BY <1>1 DEF Conn
<1>3. \A k \in Conn : [conns EXCEPT ![c] = k] \in [Conns -> Conn]
  BY DEF TypeOK
<1>4. ASSUME NEW q \in Seq(Msg \cup {Note}), NEW w \in Seq(Msg)
      PROVE  [conns EXCEPT ![c].queue = q, ![c].wire = w] \in [Conns -> Conn]
  <2>1. [conns EXCEPT ![c].queue = q, ![c].wire = w]
          = [conns EXCEPT ![c] = [conns[c] EXCEPT !.queue = q, !.wire = w]]
    BY DEF TypeOK
  <2> QED
    BY <1>2, <1>3, <2>1
<1>5. ASSUME NEW w \in Seq(Msg), NEW a \in SUBSET Ack
      PROVE  [conns EXCEPT ![c].wire = w, ![c].acks = a] \in [Conns -> Conn]
  <2>1. [conns EXCEPT ![c].wire = w, ![c].acks = a]
          = [conns EXCEPT ![c] = [conns[c] EXCEPT !.wire = w, !.acks = a]]
    BY DEF TypeOK
  <2> QED
    BY <1>2, <1>3, <2>1
<1>6. ASSUME NEW a \in SUBSET Ack, NEW p \in SUBSET Msg
      PROVE  [conns EXCEPT ![c].acks = a, ![c].pending = p] \in [Conns -> Conn]
  <2>1. [conns EXCEPT ![c].acks = a, ![c].pending = p]
          = [conns EXCEPT ![c] = [conns[c] EXCEPT !.acks = a, !.pending = p]]
    BY DEF TypeOK
  <2> QED
    BY <1>2, <1>3, <2>1
<1>7. ASSUME NEW p \in SUBSET Msg
      PROVE  [conns EXCEPT ![c].pending = p] \in [Conns -> Conn]
  BY <1>2, <1>3 DEF TypeOK
<1> QED
  BY <1>4, <1>5, <1>6, <1>7

(* A waiter belongs to a sender that waits for this very message.          *)
LEMMA Waiter ==
  ASSUME WaitersAreWaiting, NEW c \in Conns, NEW m \in conns[c].pending
  PROVE  LET s == m.sender
         IN  /\ s \in Senders /\ m = MsgOf(s)
             /\ senders[s].stage = "wait" /\ senders[s].conn = c
             /\ senders[s].answer = ""
<1> DEFINE W == {t \in Senders : /\ senders[t].stage = "wait"
                                 /\ senders[t].conn = c
                                 /\ senders[t].answer = ""}
<1>2. m \in {MsgOf(s) : s \in W}
  BY DEF WaitersAreWaiting
<1> HIDE DEF W
<1>3. PICK s \in W : m = MsgOf(s)
  BY <1>2
<1>1. /\ s \in Senders /\ m = MsgOf(s) /\ senders[s].stage = "wait"
      /\ senders[s].conn = c /\ senders[s].answer = ""
  BY <1>3 DEF W
<1> QED
  BY <1>1 DEF MsgOf

LEMMA TypesPump ==
  ASSUME TypeOK, WaitersAreWaiting, NEW c \in Conns,
         \/ PumpStep(c) \/ Connect(c) \/ ReadFails(c) \/ WriteFails(c) \/ Heartbeat(c)
         \/ \E status \in {"accepted", "rejected"} : EdgeTakes(c, status)
  PROVE  TypeOK'
<1> USE DEF kept, volatile
<1>1. CASE ReaderReturns(c) \/ WriteFails(c)
  <2>1. conns' \in [Conns -> Conn]
    BY <1>1, ClosedType DEF ReaderReturns, WriteFails, TypeOK
  <2> QED
    BY <1>1, <2>1 DEF ReaderReturns, WriteFails, TypeOK
<1>2. CASE Write(c)
  <2> DEFINE m == Head(conns[c].queue)
             w == IF m = Note THEN conns[c].wire ELSE Append(conns[c].wire, m)
  <2>1. w \in Seq(Msg) /\ Tail(conns[c].queue) \in Seq(Msg \cup {Note})
    BY <1>2, MessageTypes DEF Write, TypeOK, Conn
  <2>2. conns' = [conns EXCEPT ![c].queue = Tail(conns[c].queue), ![c].wire = w]
    BY <1>2 DEF Write
  <2> HIDE DEF w
  <2>3. conns' \in [Conns -> Conn]
    BY <2>1, <2>2, ConnParts
  <2> QED
    BY <1>2, <2>3 DEF Write, TypeOK
<1>3. ASSUME NEW ack \in conns[c].acks, HandleAck(c, ack)
      PROVE  TypeOK'
  <2> DEFINE s == ack.msg.sender
  <2>1. ack.status \in {"accepted", "rejected"}
    BY DEF TypeOK, Conn, Ack
  <2>2. conns' = [conns EXCEPT ![c].acks = conns[c].acks \ {ack},
                               ![c].pending = conns[c].pending \ {ack.msg}]
    BY <1>3 DEF HandleAck
  <2>3. conns[c].acks \ {ack} \in SUBSET Ack /\ conns[c].pending \ {ack.msg} \in SUBSET Msg
    BY DEF TypeOK, Conn
  <2>4. conns' \in [Conns -> Conn]
    BY <2>2, <2>3, ConnParts
  <2>5. ack.msg \in conns[c].pending =>
          s \in Senders /\ [senders[s] EXCEPT !.answer = ack.status] \in Sender
    <3> SUFFICES ASSUME ack.msg \in conns[c].pending
                 PROVE  s \in Senders /\ [senders[s] EXCEPT !.answer = ack.status] \in Sender
      OBVIOUS
    <3>1. s \in Senders /\ senders[s].stage = "wait"
      BY Waiter
    <3>2. senders[s] \in Sender
      BY <3>1, AtWork DEF TypeOK
    <3> QED
      BY <2>1, <3>1, <3>2 DEF Sender
  <2>6. senders' \in [Senders -> Sender \cup {Off}]
    BY <1>3, <2>5 DEF HandleAck, TypeOK
  <2> QED
    BY <1>3, <2>4, <2>6 DEF HandleAck, TypeOK
<1>4. CASE Connect(c)
  <2>1. conns' \in [Conns -> Conn]
    BY <1>4, StageType DEF Connect, TypeOK
  <2> QED
    BY <1>4, <2>1 DEF Connect, TypeOK
<1>5. CASE ReadFails(c)
  <2>1. conns' \in [Conns -> Conn]
    <3>1. [conns[c] EXCEPT !.stage = "leaving", !.acks = {}] \in Conn
      BY DEF TypeOK, Conn
    <3>2. conns' = [conns EXCEPT ![c] = [conns[c] EXCEPT !.stage = "leaving", !.acks = {}]]
      BY <1>5 DEF ReadFails, TypeOK
    <3> QED
      BY <3>1, <3>2 DEF TypeOK
  <2> QED
    BY <1>5, <2>1 DEF ReadFails, TypeOK
<1>6. CASE Heartbeat(c)
  BY <1>6 DEF Heartbeat, TypeOK
<1>7. ASSUME NEW status \in {"accepted", "rejected"}, EdgeTakes(c, status)
      PROVE  TypeOK'
  <2> DEFINE m == Head(conns[c].wire)
             a == IF conns[c].stage = "reading"
                  THEN conns[c].acks \cup {[msg |-> m, status |-> status]}
                  ELSE conns[c].acks
  <2>1. m \in Msg /\ Tail(conns[c].wire) \in Seq(Msg)
    BY <1>7, MessageTypes DEF EdgeTakes, TypeOK
  <2>2. a \in SUBSET Ack
    BY <2>1 DEF TypeOK, Conn, Ack
  <2>3. conns' = [conns EXCEPT ![c].wire = Tail(conns[c].wire), ![c].acks = a]
    BY <1>7 DEF EdgeTakes
  <2>4. inbox' \subseteq Jobs
    BY <1>7, <2>1 DEF EdgeTakes, TypeOK, Msg
  <2> HIDE DEF a, m
  <2>5. conns' \in [Conns -> Conn]
    BY <2>1, <2>2, <2>3, ConnParts
  <2> QED
    BY <1>7, <2>4, <2>5 DEF EdgeTakes, TypeOK
<1> QED
  BY <1>1, <1>2, <1>3, <1>4, <1>5, <1>6, <1>7 DEF PumpStep

(* A dispatch under way has a job, and a socket while it uses one.         *)
SenderShape ==
  \A s \in Senders :
    /\ senders[s].stage \in {"lookup", "send", "wait", "record"} => senders[s].job \in Jobs
    /\ senders[s].stage \in {"lookup", "send", "wait"} =>
         senders[s].attempt \in 1..MaxAttempts
    /\ senders[s].stage \in {"send", "wait"} => senders[s].conn \in Conns

(* A step of one sender changes that sender only, in a type-correct way.   *)
LEMMA SenderSet ==
  ASSUME TypeOK, NEW s \in Senders, NEW d \in Sender \cup {Off},
         senders' = [senders EXCEPT ![s] = d]
  PROVE  /\ senders' \in [Senders -> Sender \cup {Off}]
         /\ senders'[s] = d
         /\ \A t \in Senders : t # s => senders'[t] = senders[t]
BY DEF TypeOK

LEMMA UndeliveredType ==
  ASSUME TypeOK, NEW s \in Senders, senders[s].stage \in {"lookup", "send"}, Undelivered(s)
  PROVE  /\ senders' \in [Senders -> Sender \cup {Off}]
         /\ \A t \in Senders : t # s => senders'[t] = senders[t]
         /\ senders'[s] = [senders[s] EXCEPT !.stage = "record", !.err = "undelivered",
                                              !.conn = None]
<1>1. senders[s] \in Sender
  BY AtWork DEF TypeOK
<1>2. [senders[s] EXCEPT !.stage = "record", !.err = "undelivered", !.conn = None] \in Sender
  BY <1>1 DEF Sender
<1>3. senders' = [senders EXCEPT ![s] = [senders[s] EXCEPT !.stage = "record",
                                            !.err = "undelivered", !.conn = None]]
  BY DEF Undelivered, TypeOK
<1> QED
  BY <1>2, <1>3, SenderSet

LEMMA MsgType ==
  ASSUME NEW s \in Senders, senders[s].job \in Jobs, senders[s].attempt \in 1..MaxAttempts
  PROVE  MsgOf(s) \in Msg
BY DEF MsgOf, Msg

(* What a sender's step makes of its own record and of the sockets.        *)
LEMMA SenderEffect ==
  ASSUME TypeOK, SenderShape, NEW s \in Senders, SenderStep(s)
  PROVE  /\ senders' \in [Senders -> Sender \cup {Off}]
         /\ conns' \in [Conns -> Conn]
         /\ \A t \in Senders : t # s => senders'[t] = senders[t]
<1>1. senders[s] \in Sender
  <2>1. senders[s].stage # "off"
    BY DEF SenderStep, Lookup, Send, Answered, TimeOut, Record
  <2> QED
    BY <2>1, AtWork DEF TypeOK
<1>2. CASE Lookup(s)
  <2>1. CASE current = None
    BY <1>2, <2>1, UndeliveredType DEF Lookup, TypeOK
  <2>2. CASE current # None
    <3>1. [senders[s] EXCEPT !.stage = "send", !.conn = current] \in Sender
      BY <1>1, <2>2 DEF Sender, TypeOK
    <3>2. senders' = [senders EXCEPT ![s] = [senders[s] EXCEPT !.stage = "send",
                                                               !.conn = current]]
      BY <1>2, <2>2 DEF Lookup, TypeOK
    <3> QED
      BY <1>2, <3>1, <3>2, SenderSet DEF Lookup, TypeOK
  <2> QED
    BY <2>1, <2>2
<1>3. CASE Send(s)
  <2> DEFINE c == senders[s].conn
  <2>1. c \in Conns
    BY <1>3 DEF Send, SenderShape
  <2>2. CASE conns[c].done \/ ~HasRoom(conns[c])
    BY <1>3, <2>2, UndeliveredType DEF Send, TypeOK
  <2>3. CASE ~(conns[c].done \/ ~HasRoom(conns[c]))
    <3>1. [senders[s] EXCEPT !.stage = "wait", !.answer = ""] \in Sender
      BY <1>1 DEF Sender
    <3>2. senders' = [senders EXCEPT ![s] = [senders[s] EXCEPT !.stage = "wait",
                                                               !.answer = ""]]
      BY <1>3, <2>3 DEF Send, TypeOK
    <3>3. MsgOf(s) \in Msg
      BY <1>3, MsgType DEF Send, SenderShape
    <3>4. Expect(conns[c], MsgOf(s)) \in Conn
      BY <2>1, <3>3, ExpectType DEF TypeOK
    <3>5. conns' \in [Conns -> Conn]
      BY <1>3, <2>3, <3>4 DEF Send, TypeOK
    <3> QED
      BY <3>1, <3>2, <3>5, SenderSet
  <2> QED
    BY <2>2, <2>3
<1>4. ASSUME StopWaiting(s), senders[s].stage = "wait"
      PROVE  conns' \in [Conns -> Conn]
  <2>1. senders[s].conn \in Conns
    BY <1>4 DEF SenderShape
  <2>2. conns[senders[s].conn].pending \ {MsgOf(s)} \in SUBSET Msg
    BY <2>1 DEF TypeOK, Conn
  <2> QED
    BY <1>4, <2>1, <2>2, ConnParts DEF StopWaiting
<1>5. CASE Answered(s)
  <2> DEFINE e == IF senders[s].answer = "accepted" THEN "" ELSE "rejected"
  <2>1. [senders[s] EXCEPT !.stage = "record", !.conn = None, !.err = e] \in Sender
    BY <1>1 DEF Sender
  <2>2. senders' = [senders EXCEPT ![s] = [senders[s] EXCEPT !.stage = "record",
                                                             !.conn = None, !.err = e]]
    BY <1>5 DEF Answered, TypeOK
  <2> HIDE DEF e
  <2> QED
    BY <1>4, <1>5, <2>1, <2>2, SenderSet DEF Answered
<1>6. CASE TimeOut(s)
  <2>1. CASE senders[s].attempt < MaxAttempts
    <3>0. senders[s].attempt \in 0..MaxAttempts
      BY <1>1 DEF Sender
    <3>1. senders[s].attempt + 1 \in 0..MaxAttempts
      BY <2>1, <3>0, LinkAssumption
    <3>2. [senders[s] EXCEPT !.stage = "lookup", !.attempt = @ + 1,
                             !.conn = None, !.answer = ""] \in Sender
      BY <1>1, <3>1 DEF Sender
    <3>3. senders' = [senders EXCEPT ![s] = [senders[s] EXCEPT !.stage = "lookup",
                        !.attempt = @ + 1, !.conn = None, !.answer = ""]]
      BY <1>6, <2>1 DEF TimeOut, TypeOK
    <3> QED
      BY <1>4, <1>6, <3>2, <3>3, SenderSet DEF TimeOut
  <2>2. CASE ~(senders[s].attempt < MaxAttempts)
    <3>1. [senders[s] EXCEPT !.stage = "record", !.err = "ack_timeout", !.conn = None]
            \in Sender
      BY <1>1 DEF Sender
    <3>2. senders' = [senders EXCEPT ![s] = [senders[s] EXCEPT !.stage = "record",
                        !.err = "ack_timeout", !.conn = None]]
      BY <1>6, <2>2 DEF TimeOut, TypeOK
    <3> QED
      BY <1>4, <1>6, <3>1, <3>2, SenderSet DEF TimeOut
  <2> QED
    BY <2>1, <2>2
<1>7. CASE Record(s)
  <2>1. PICK d \in Dispatches(senders[s].todo) : senders' = [senders EXCEPT ![s] = d]
    BY <1>7 DEF Record
  <2>2. senders[s].todo \in SUBSET Jobs
    BY <1>1 DEF Sender
  <2>3. d \in Sender \cup {Off}
    BY <2>2, DispatchesType
  <2> QED
    BY <1>7, <2>1, <2>3, SenderSet DEF Record, TypeOK
<1> QED
  BY <1>2, <1>3, <1>5, <1>6, <1>7 DEF SenderStep

LEMMA TypesSender ==
  ASSUME TypeOK, SenderShape, NEW s \in Senders, SenderStep(s)
  PROVE  TypeOK'
<1> USE DEF kept, volatile
<1>1. senders' \in [Senders -> Sender \cup {Off}] /\ conns' \in [Conns -> Conn]
  BY SenderEffect
<1>2. CASE Lookup(s)
  BY <1>1, <1>2 DEF Lookup, TypeOK
<1>3. CASE Send(s)
  BY <1>1, <1>3 DEF Send, TypeOK
<1>4. CASE Answered(s)
  BY <1>1, <1>4 DEF Answered, TypeOK
<1>5. CASE TimeOut(s)
  BY <1>1, <1>5 DEF TimeOut, TypeOK
<1>6. CASE Record(s)
  <2> DEFINE j == senders[s].job
  <2>1. j \in Jobs
    BY <1>6 DEF Record, SenderShape
  <2>2. senders[s] \in Sender
    BY <1>6, AtWork DEF Record, TypeOK
  <2>3. Outcome(jobs[j], senders[s].err) \in Statuses
    BY <2>1, <2>2 DEF TypeOK, Sender, Outcome, Statuses, Active, Queued, Immutable, Failures
  <2>4. jobs' \in [Jobs -> Statuses]
    BY <1>6, <2>3 DEF Record, TypeOK
  <2> QED
    BY <1>1, <1>6, <2>4 DEF Record, TypeOK
<1> QED
  BY <1>2, <1>3, <1>4, <1>5, <1>6 DEF SenderStep

LEMMA TypesOthers ==
  ASSUME TypeOK,
         \/ \E c \in Conns : ListQueued(c)
         \/ \E j \in Jobs : CreateJob(j) \/ AdmitJob(j)
         \/ \E c \in Conns, j \in Jobs, status \in Reported : HandleJobUpdate(c, j, status)
         \/ \E w \in Callers : SendToNode(w) \/ DeleteEdgeNode(w)
         \/ Restart
  PROVE  TypeOK'
<1> USE DEF kept, volatile, Do
<1>1. ASSUME NEW c \in Conns, ListQueued(c)
      PROVE  TypeOK'
  <2> DEFINE todo == {j \in Jobs : jobs[j] \in Queued}
  <2>1. PICK d \in Dispatches(todo) : senders' = [senders EXCEPT ![c] = d]
    BY <1>1 DEF ListQueued
  <2>2. d \in Sender \cup {Off}
    BY DispatchesType
  <2> QED
    BY <1>1, <2>1, <2>2, SenderSet DEF ListQueued, TypeOK, Senders
<1>2. ASSUME NEW j \in Jobs, CreateJob(j)
      PROVE  TypeOK'
  <2>1. PICK d \in Dispatches({j}) : senders' = [senders EXCEPT ![j] = d]
    BY <1>2 DEF CreateJob
  <2>2. d \in Sender \cup {Off}
    BY DispatchesType
  <2>3. jobs' \in [Jobs -> Statuses]
    BY <1>2 DEF CreateJob, TypeOK, Statuses, Active, Queued
  <2> QED
    BY <1>2, <2>1, <2>2, <2>3, SenderSet DEF CreateJob, TypeOK, Senders
<1>3. ASSUME NEW j \in Jobs, AdmitJob(j)
      PROVE  TypeOK'
  <2>1. [senders[j] EXCEPT !.stage = "admitted"] \in Sender
    BY SenderStage DEF TypeOK, Senders
  <2>2. senders' \in [Senders -> Sender \cup {Off}]
    BY <1>3, <2>1 DEF AdmitJob, TypeOK, Senders
  <2> QED
    BY <1>3, <2>2 DEF AdmitJob, TypeOK
<1>4. ASSUME NEW c \in Conns, NEW j \in Jobs, NEW status \in Reported,
             HandleJobUpdate(c, j, status)
      PROVE  TypeOK'
  <2>1. status \in Statuses
    BY LinkAssumption DEF Statuses, Active, Immutable, Failures
  <2> QED
    BY <1>4, <2>1 DEF HandleJobUpdate, TypeOK
<1>5. ASSUME NEW w \in Callers, SendToNode(w)
      PROVE  TypeOK'
  <2>1. work' \in [Workers -> Work]
    BY <1>5, WorkType DEF SendToNode, TypeOK
  <2> QED
    BY <1>5, <2>1 DEF SendToNode, TypeOK
<1>6. ASSUME NEW w \in Callers, DeleteEdgeNode(w)
      PROVE  TypeOK'
  <2>1. work' \in [Workers -> Work]
    BY <1>6 DEF DeleteEdgeNode, TypeOK, Work
  <2> QED
    BY <1>6, <2>1 DEF DeleteEdgeNode, TypeOK
<1>7. CASE Restart
  <2>1. restarts + 1 \in 0..MaxRestarts
    BY <1>7, LinkAssumption DEF Restart, TypeOK
  <2> QED
    BY <1>7, <2>1, FreeType DEF Restart, TypeOK, Work
<1> QED
  BY <1>1, <1>2, <1>3, <1>4, <1>5, <1>6, <1>7

LEMMA TypesInit == Init => TypeOK
<1>1. 0 \in 0..MaxRestarts
  BY LinkAssumption
<1> QED
  BY <1>1, FreeType DEF Init, TypeOK, Statuses, Work

LEMMA TypesNext ==
  ASSUME TypeOK, SenderShape, WaitersAreWaiting, [Next]_vars
  PROVE  TypeOK'
<1>1. CASE UNCHANGED vars
  BY <1>1 DEF vars, kept, volatile, TypeOK
<1>2. CASE Environment
  BY <1>2, TypesPump, TypesOthers DEF Environment
<1>3. CASE Next /\ ~Environment
  BY <1>3, TypesManager, TypesWorker, TypesPump, TypesSender, TypesOthers DEF Next, Workers
<1> QED
  BY <1>1, <1>2, <1>3

-----------------------------------------------------------------------------
(* Waiters.                                                                *)

(* A socket that is not served has no dispatching goroutine yet.           *)
Unserved ==
  \A c \in Conns : conns[c].stage \in {"free", "upgraded"} => senders[c] = Off

(* The steps that leave the dispatches and the waiter tables alone.        *)
CalmStep ==
  \/ Register
  \/ \E c \in Conns :
       \/ HandUnregister(c) \/ ReaderReturns(c) \/ Write(c)
       \/ Connect(c) \/ ReadFails(c) \/ WriteFails(c) \/ Heartbeat(c)
       \/ \E status \in {"accepted", "rejected"} : EdgeTakes(c, status)
       \/ \E j \in Jobs, status \in Reported : HandleJobUpdate(c, j, status)
  \/ \E w \in Workers : WorkerStep(w)
  \/ \E w \in Callers : CallerStep(w) \/ SendToNode(w) \/ DeleteEdgeNode(w)

Calm ==
  /\ senders' = senders
  /\ \A c \in Conns :
       /\ conns'[c].pending = conns[c].pending
       /\ conns'[c].stage \in {"free", "upgraded"} => conns[c].stage \in {"free", "upgraded"}

LEMMA CalmSteps ==
  ASSUME TypeOK, CalmStep
  PROVE  Calm
<1> USE DEF kept, volatile, Calm
<1>0. /\ \A k \in Conn : Closed(k).pending = k.pending /\ Closed(k).stage = k.stage
      /\ \A k \in Conn : Queue(k, Note).pending = k.pending /\ Queue(k, Note).stage = k.stage
  BY ClosedType, QueueType
<1>1. CASE Register
  BY <1>0, <1>1 DEF Register, TypeOK
<1>2. ASSUME NEW c \in Conns,
             HandUnregister(c) \/ ReaderReturns(c) \/ Connect(c) \/ ReadFails(c) \/ WriteFails(c)
      PROVE  Calm
  <2>1. CASE HandUnregister(c)
    BY <2>1 DEF HandUnregister, TypeOK, Conn
  <2>2. CASE ReaderReturns(c) \/ WriteFails(c)
    BY <1>0, <2>2 DEF ReaderReturns, WriteFails, TypeOK
  <2>3. CASE Connect(c)
    BY <2>3 DEF Connect, TypeOK, Conn
  <2>4. CASE ReadFails(c)
    BY <2>4 DEF ReadFails, TypeOK, Conn
  <2> QED
    BY <1>2, <2>1, <2>2, <2>3, <2>4
<1>3. ASSUME NEW c \in Conns, Write(c)
      PROVE  Calm
  BY <1>3 DEF Write, TypeOK, Conn
<1>4. ASSUME NEW c \in Conns, NEW status \in {"accepted", "rejected"}, EdgeTakes(c, status)
      PROVE  Calm
  BY <1>4 DEF EdgeTakes, TypeOK, Conn
<1>5. ASSUME NEW c \in Conns,
             \/ Heartbeat(c)
             \/ \E j \in Jobs, status \in Reported : HandleJobUpdate(c, j, status)
      PROVE  Calm
  BY <1>5 DEF Heartbeat, HandleJobUpdate
<1>6. ASSUME NEW w \in Workers, WorkerStep(w)
      PROVE  Calm
  <2>1. CASE Unregister(w) \/ MarkUnstable(w)
    BY <2>1 DEF Unregister, MarkUnstable
  <2>2. CASE CloseConn(w)
    BY <1>0, <2>2 DEF CloseConn, TypeOK
  <2> QED
    BY <1>6, <2>1, <2>2 DEF WorkerStep
<1>7. ASSUME NEW w \in Callers, CallerStep(w) \/ SendToNode(w) \/ DeleteEdgeNode(w)
      PROVE  Calm
  <2>1. CASE EnqueueNote(w)
    BY <1>0, <2>1 DEF EnqueueNote, TypeOK
  <2>2. CASE ServerClose(w)
    BY <1>0, <2>2 DEF ServerClose, TypeOK
  <2>3. CASE DisconnectNode(w) \/ SendToNode(w) \/ DeleteEdgeNode(w)
             \/ ListActiveJobs(w) \/ \E j \in Jobs : SettleActiveJob(w, j)
    BY <2>3 DEF DisconnectNode, SendToNode, DeleteEdgeNode, ListActiveJobs, SettleActiveJob
  <2> QED
    BY <1>7, <2>1, <2>2, <2>3 DEF CallerStep
<1> QED
  BY <1>1, <1>2, <1>3, <1>4, <1>5, <1>6, <1>7 DEF CalmStep

LEMMA SplitNext ==
  ASSUME Next
  PROVE  \/ CalmStep
         \/ \E c \in Conns : HandOff(c) \/ ListQueued(c) \/ \E ack \in conns[c].acks : HandleAck(c, ack)
         \/ \E j \in Jobs : AdmitJob(j) \/ CreateJob(j)
         \/ \E s \in Senders : SenderStep(s)
         \/ Restart
BY DEF Next, CalmStep, ManagerStep, PumpStep, Environment

(* The waiter table, one message and one sender at a time.                 *)
Waits(s, c) ==
  senders[s].stage = "wait" /\ senders[s].conn = c /\ senders[s].answer = ""

WaiterOfMessage ==
  \A c \in Conns : \A m \in conns[c].pending :
    m.sender \in Senders /\ m = MsgOf(m.sender) /\ Waits(m.sender, c)

MessageOfWaiter ==
  \A s \in Senders, c \in Conns : Waits(s, c) => MsgOf(s) \in conns[c].pending

LEMMA WaiterTable == WaitersAreWaiting <=> WaiterOfMessage /\ MessageOfWaiter
<1> DEFINE W(c) == {t \in Senders : /\ senders[t].stage = "wait"
                                    /\ senders[t].conn = c
                                    /\ senders[t].answer = ""}
<1>1. ASSUME WaitersAreWaiting
      PROVE  WaiterOfMessage /\ MessageOfWaiter
  <2>1. WaiterOfMessage
    BY <1>1, Waiter DEF WaiterOfMessage, Waits
  <2>2. ASSUME NEW s \in Senders, NEW c \in Conns, Waits(s, c)
        PROVE  MsgOf(s) \in conns[c].pending
    <3>1. s \in W(c)
      BY <2>2 DEF Waits
    <3>2. conns[c].pending = {MsgOf(t) : t \in W(c)}
      BY <1>1 DEF WaitersAreWaiting
    <3> HIDE DEF W
    <3> QED
      BY <3>1, <3>2
  <2> QED
    BY <2>1, <2>2 DEF MessageOfWaiter
<1>2. ASSUME WaiterOfMessage, MessageOfWaiter
      PROVE  WaitersAreWaiting
  <2>1. ASSUME NEW c \in Conns
        PROVE  conns[c].pending = {MsgOf(s) : s \in W(c)}
    <3>1. ASSUME NEW m \in conns[c].pending
          PROVE  m \in {MsgOf(s) : s \in W(c)}
      <4>1. m.sender \in W(c) /\ m = MsgOf(m.sender)
        BY <1>2 DEF WaiterOfMessage, Waits
      <4> HIDE DEF W
      <4> QED
        BY <4>1
    <3>2. ASSUME NEW s \in W(c)
          PROVE  MsgOf(s) \in conns[c].pending
      BY <1>2 DEF MessageOfWaiter, Waits
    <3> HIDE DEF W
    <3> QED
      BY <3>1, <3>2
  <2> QED
    BY <2>1 DEF WaitersAreWaiting
<1> QED
  BY <1>1, <1>2

(* Only sender s changed, it waits neither before nor after, and no table  *)
(* changed.                                                                *)
LEMMA WaitersUntouched ==
  ASSUME TypeOK, WaitersAreWaiting, NEW s \in Senders,
         \A t \in Senders : t # s => senders'[t] = senders[t],
         senders[s].stage # "wait", senders'[s].stage # "wait",
         \A c \in Conns : conns'[c].pending = conns[c].pending
  PROVE  WaitersAreWaiting'
<1>1. WaiterOfMessage /\ MessageOfWaiter
  BY WaiterTable
<1>2. WaiterOfMessage'
  <2>1. ASSUME NEW c \in Conns, NEW m \in conns'[c].pending
        PROVE  (m.sender \in Senders /\ m = MsgOf(m.sender) /\ Waits(m.sender, c))'
    <3>1. m.sender \in Senders /\ m = MsgOf(m.sender) /\ Waits(m.sender, c)
      BY <1>1, <2>1 DEF WaiterOfMessage
    <3>2. senders'[m.sender] = senders[m.sender]
      BY <3>1 DEF Waits
    <3> QED
      BY <3>1, <3>2 DEF Waits, MsgOf
  <2> QED
    BY <2>1 DEF WaiterOfMessage
<1>3. MessageOfWaiter'
  BY <1>1 DEF MessageOfWaiter, Waits, MsgOf
<1>4. (WaitersAreWaiting <=> WaiterOfMessage /\ MessageOfWaiter)'
  BY WaiterTable, PTL
<1> QED
  BY <1>2, <1>3, <1>4

-----------------------------------------------------------------------------
(* What one step of a dispatch makes of it.                                *)

Keeps(s, fields) == \A f \in fields : senders'[s][f] = senders[s][f]

LEMMA DispatchesStage ==
  ASSUME NEW todo, NEW d \in Dispatches(todo)
  PROVE  \/ d = Off
         \/ /\ d.stage = "lookup" /\ d.job \in todo /\ d.attempt = 1
            /\ d.todo = todo \ {d.job}
            /\ d.conn = None /\ d.answer = "" /\ d.err = ""
<1>1. CASE todo = {}
  BY <1>1 DEF Dispatches
<1>2. CASE todo # {}
  <2>1. PICK j \in todo :
          d = [Off EXCEPT !.stage = "lookup", !.todo = todo \ {j}, !.job = j, !.attempt = 1]
    BY <1>2 DEF Dispatches
  <2>2. d = [stage |-> "lookup", todo |-> todo \ {j}, job |-> j, attempt |-> 1,
             conn |-> None, answer |-> "", err |-> ""]
    BY <2>1 DEF Off
  <2> QED
    BY <2>2
<1> QED
  BY <1>1, <1>2

LEMMA SenderAfter ==
  ASSUME TypeOK, NEW s \in Senders, senders[s] \in Sender
  PROVE  /\ Lookup(s) => /\ Keeps(s, {"job", "attempt", "todo", "answer"})
                         /\ \/ senders'[s].stage = "record" /\ senders'[s].err = "undelivered"
                            \/ /\ senders'[s].stage = "send" /\ senders'[s].err = senders[s].err
                               /\ senders'[s].conn \in Conns
         /\ Send(s) => /\ Keeps(s, {"job", "attempt", "todo"})
                       /\ \/ /\ senders'[s].stage = "record" /\ conns' = conns
                             /\ senders'[s].err = "undelivered"
                             /\ Keeps(s, {"answer"})
                          \/ /\ senders'[s].stage = "wait" /\ senders'[s].answer = ""
                             /\ Keeps(s, {"conn", "err"})
                             /\ conns' = [conns EXCEPT ![senders[s].conn] =
                                            Expect(@, MsgOf(s))]
         /\ Answered(s) => /\ Keeps(s, {"job", "attempt", "todo", "answer"})
                           /\ senders'[s].stage = "record"
                           /\ senders'[s].err = "" => senders[s].answer = "accepted"
         /\ TimeOut(s) => /\ Keeps(s, {"job", "todo"})
                          /\ \/ /\ senders'[s].stage = "lookup" /\ senders'[s].answer = ""
                                /\ senders[s].attempt < MaxAttempts
                                /\ senders'[s].attempt = senders[s].attempt + 1
                             \/ /\ senders'[s].stage = "record" /\ Keeps(s, {"answer"})
                                /\ senders'[s].err = "ack_timeout"
         /\ Record(s) => senders'[s] \in Dispatches(senders[s].todo)
<1> USE DEF Keeps
<1>1. ASSUME Undelivered(s)
      PROVE  /\ Keeps(s, {"job", "attempt", "todo", "answer"})
             /\ senders'[s].stage = "record" /\ senders'[s].err = "undelivered"
  BY <1>1 DEF Undelivered, TypeOK, Sender
<1>2. ASSUME Lookup(s), current # None
      PROVE  /\ Keeps(s, {"job", "attempt", "todo", "answer"})
             /\ senders'[s].stage = "send" /\ senders'[s].err = senders[s].err
             /\ senders'[s].conn \in Conns
  <2>1. senders'[s] = [senders[s] EXCEPT !.stage = "send", !.conn = current]
    BY <1>2 DEF Lookup, TypeOK
  <2>2. current \in Conns
    BY <1>2 DEF TypeOK
  <2> QED
    BY <2>1, <2>2 DEF Sender
<1>3. ASSUME Send(s), ~(Undelivered(s) /\ conns' = conns)
      PROVE  /\ Keeps(s, {"job", "attempt", "todo"})
             /\ senders'[s].stage = "wait" /\ senders'[s].answer = ""
             /\ Keeps(s, {"conn", "err"})
             /\ conns' = [conns EXCEPT ![senders[s].conn] = Expect(@, MsgOf(s))]
  <2>1. senders'[s] = [senders[s] EXCEPT !.stage = "wait", !.answer = ""]
    BY <1>3 DEF Send, TypeOK
  <2>2. conns' = [conns EXCEPT ![senders[s].conn] = Expect(@, MsgOf(s))]
    BY <1>3 DEF Send
  <2> QED
    BY <2>1, <2>2 DEF Sender
<1>4. ASSUME Answered(s)
      PROVE  /\ Keeps(s, {"job", "attempt", "todo", "answer"})
             /\ senders'[s].stage = "record"
             /\ senders'[s].err = "" => senders[s].answer = "accepted"
  BY <1>4 DEF Answered, TypeOK, Sender
<1>5. ASSUME TimeOut(s), senders[s].attempt < MaxAttempts
      PROVE  /\ Keeps(s, {"job", "todo"})
             /\ senders'[s].stage = "lookup" /\ senders'[s].answer = ""
             /\ senders'[s].attempt = senders[s].attempt + 1
  BY <1>5 DEF TimeOut, TypeOK, Sender
<1>6. ASSUME TimeOut(s), ~(senders[s].attempt < MaxAttempts)
      PROVE  /\ Keeps(s, {"job", "todo", "answer"})
             /\ senders'[s].stage = "record" /\ senders'[s].err = "ack_timeout"
  BY <1>6 DEF TimeOut, TypeOK, Sender
<1>7. Record(s) => senders'[s] \in Dispatches(senders[s].todo)
  BY DEF Record, TypeOK
<1>8. Lookup(s) /\ current = None => Undelivered(s)
  BY DEF Lookup
<1> QED
  BY <1>1, <1>2, <1>3, <1>4, <1>5, <1>6, <1>7, <1>8

LEMMA Dispatching ==
  ASSUME TypeOK, NEW s \in Senders, SenderStep(s)
  PROVE  senders[s] \in Sender /\ senders[s].stage \in {"lookup", "send", "wait", "record"}
<1>1. senders[s].stage \in {"lookup", "send", "wait", "record"}
  BY DEF SenderStep, Lookup, Send, Answered, TimeOut, Record
<1> QED
  BY <1>1, AtWork DEF TypeOK

ShapeOf(d) ==
  /\ d.stage \in {"lookup", "send", "wait", "record"} => d.job \in Jobs
  /\ d.stage \in {"lookup", "send", "wait"} => d.attempt \in 1..MaxAttempts
  /\ d.stage \in {"send", "wait"} => d.conn \in Conns

LEMMA DispatchesShape ==
  ASSUME NEW todo \in SUBSET Jobs, NEW d \in Dispatches(todo)
  PROVE  ShapeOf(d)
<1>1. 1 \in 1..MaxAttempts
  BY LinkAssumption
<1>2. CASE d = Off
  BY <1>2 DEF ShapeOf, Off
<1>3. CASE d # Off
  <2>1. d.stage = "lookup" /\ d.job \in Jobs /\ d.attempt = 1
    BY <1>3, DispatchesStage
  <2> QED
    BY <1>1, <2>1 DEF ShapeOf
<1> QED
  BY <1>2, <1>3

LEMMA NextAttempt ==
  ASSUME NEW n \in 1..MaxAttempts, n < MaxAttempts
  PROVE  n + 1 \in 1..MaxAttempts
BY LinkAssumption

LEMMA ShapeSender ==
  ASSUME TypeOK, SenderShape, NEW s \in Senders, SenderStep(s)
  PROVE  SenderShape'
<1>1. senders[s] \in Sender /\ ShapeOf(senders[s])
  BY Dispatching DEF SenderShape, ShapeOf
<1>2. \A t \in Senders : t # s => senders'[t] = senders[t]
  BY SenderEffect
<1>3. ShapeOf(senders'[s])
  <2> USE SenderAfter DEF Keeps, ShapeOf
  <2>1. CASE Lookup(s)
    BY <1>1, <2>1 DEF Lookup
  <2>2. CASE Send(s)
    BY <1>1, <2>2 DEF Send
  <2>3. CASE Answered(s)
    BY <1>1, <2>3 DEF Answered
  <2>4. CASE TimeOut(s)
    <3>0. senders[s].attempt \in 1..MaxAttempts
      BY <1>1, <2>4 DEF TimeOut
    <3>1. senders[s].attempt < MaxAttempts => senders[s].attempt + 1 \in 1..MaxAttempts
      BY <3>0, NextAttempt
    <3> QED
      BY <1>1, <2>4, <3>1 DEF TimeOut
  <2>5. CASE Record(s)
    <3>1. senders'[s] \in Dispatches(senders[s].todo) /\ senders[s].todo \in SUBSET Jobs
      BY <1>1, <2>5 DEF Sender
    <3> QED
      BY <3>1, DispatchesShape
  <2> QED
    BY <2>1, <2>2, <2>3, <2>4, <2>5 DEF SenderStep
<1> QED
  BY <1>2, <1>3 DEF SenderShape, ShapeOf, SenderShape

(* The goroutine of a socket or a job starts, or gets its first dispatch.  *)
StartStep ==
  \/ \E c \in Conns : HandOff(c) \/ ListQueued(c)
  \/ \E j \in Jobs : AdmitJob(j) \/ CreateJob(j)

LEMMA Starts ==
  ASSUME TypeOK, Unserved, StartStep
  PROVE  /\ \A c \in Conns : conns'[c].pending = conns[c].pending
         /\ \E s \in Senders :
              /\ \A t \in Senders : t # s => senders'[t] = senders[t]
              /\ senders[s].stage \in {"off", "admitted", "list"}
              /\ \/ senders' = senders
                 \/ /\ senders[s] = Off
                    /\ senders'[s].stage \in {"admitted", "list"}
                    /\ Keeps(s, {"todo", "job", "attempt", "conn", "answer", "err"})
                 \/ \E todo \in SUBSET Jobs :
                      /\ senders'[s] \in Dispatches(todo)
                      /\ \A j \in todo : jobs'[j] # "absent"
<1> USE DEF Keeps
<1>1. ASSUME NEW c \in Conns, HandOff(c)
      PROVE  /\ \A d \in Conns : conns'[d].pending = conns[d].pending
             /\ c \in Senders
             /\ \A t \in Senders : t # c => senders'[t] = senders[t]
             /\ senders[c] = Off
             /\ \/ senders' = senders
                \/ /\ senders'[c].stage = "list"
                   /\ Keeps(c, {"todo", "job", "attempt", "conn", "answer", "err"})
  <2>1. senders[c] = Off /\ c \in Senders
    BY <1>1 DEF HandOff, Unserved, Senders
  <2>2. \A d \in Conns : conns'[d].pending = conns[d].pending
    BY <1>1 DEF HandOff, TypeOK, Conn
  <2>3. \A t \in Senders : t # c => senders'[t] = senders[t]
    BY <1>1 DEF HandOff, TypeOK
  <2>4. \/ senders' = senders
        \/ senders'[c] = [Off EXCEPT !.stage = "list"]
    BY <1>1, <2>1 DEF HandOff, TypeOK
  <2>5. ASSUME senders'[c] = [Off EXCEPT !.stage = "list"]
        PROVE  /\ senders'[c].stage = "list"
               /\ Keeps(c, {"todo", "job", "attempt", "conn", "answer", "err"})
    BY <2>1, <2>5 DEF Off
  <2> QED
    BY <2>1, <2>2, <2>3, <2>4, <2>5
<1>2. ASSUME NEW c \in Conns, ListQueued(c)
      PROVE  /\ \A d \in Conns : conns'[d].pending = conns[d].pending
             /\ c \in Senders
             /\ \A t \in Senders : t # c => senders'[t] = senders[t]
             /\ senders[c].stage = "list"
             /\ \E todo \in SUBSET Jobs :
                  senders'[c] \in Dispatches(todo) /\ \A j \in todo : jobs'[j] # "absent"
  <2> DEFINE todo == {j \in Jobs : jobs[j] \in Queued}
  <2>1. PICK d \in Dispatches(todo) : senders' = [senders EXCEPT ![c] = d]
    BY <1>2 DEF ListQueued
  <2>2. todo \in SUBSET Jobs /\ \A j \in todo : jobs'[j] # "absent"
    BY <1>2 DEF ListQueued, Queued, kept
  <2>3. senders'[c] \in Dispatches(todo)
    BY <2>1 DEF TypeOK, Senders
  <2> HIDE DEF todo
  <2> QED
    BY <1>2, <2>1, <2>2, <2>3 DEF ListQueued, TypeOK, Senders
<1>3. ASSUME NEW j \in Jobs, AdmitJob(j)
      PROVE  /\ \A d \in Conns : conns'[d].pending = conns[d].pending
             /\ j \in Senders
             /\ \A t \in Senders : t # j => senders'[t] = senders[t]
             /\ senders[j] = Off
             /\ senders'[j].stage = "admitted"
             /\ Keeps(j, {"todo", "job", "attempt", "conn", "answer", "err"})
  <2>1. senders'[j] = [Off EXCEPT !.stage = "admitted"]
    BY <1>3 DEF AdmitJob, TypeOK, Senders
  <2> QED
    BY <1>3, <2>1 DEF AdmitJob, TypeOK, Senders, Off
<1>4. ASSUME NEW j \in Jobs, CreateJob(j)
      PROVE  /\ \A d \in Conns : conns'[d].pending = conns[d].pending
             /\ j \in Senders
             /\ \A t \in Senders : t # j => senders'[t] = senders[t]
             /\ senders[j].stage = "admitted"
             /\ \E todo \in SUBSET Jobs :
                  senders'[j] \in Dispatches(todo) /\ \A k \in todo : jobs'[k] # "absent"
  <2>1. PICK d \in Dispatches({j}) : senders' = [senders EXCEPT ![j] = d]
    BY <1>4 DEF CreateJob
  <2>2. senders'[j] \in Dispatches({j}) /\ j \in Senders
    BY <2>1 DEF TypeOK, Senders
  <2>3. {j} \in SUBSET Jobs /\ \A k \in {j} : jobs'[k] # "absent"
    BY <1>4 DEF CreateJob, TypeOK
  <2> QED
    BY <1>4, <2>1, <2>2, <2>3 DEF CreateJob, TypeOK
<1>5. Off.stage = "off"
  BY DEF Off
<1> QED
  BY <1>1, <1>2, <1>3, <1>4, <1>5 DEF StartStep

LEMMA OffStage == Off.stage = "off"
BY DEF Off

LEMMA ShapeNext ==
  ASSUME TypeOK, SenderShape, Unserved, WaitersAreWaiting, [Next]_vars
  PROVE  SenderShape'
<1>1. CASE UNCHANGED vars
  BY <1>1 DEF vars, volatile, SenderShape
<1>2. CASE CalmStep
  BY <1>2, CalmSteps DEF Calm, SenderShape
<1>3. CASE StartStep
  <2>1. PICK s \in Senders :
          /\ \A t \in Senders : t # s => senders'[t] = senders[t]
          /\ \/ senders' = senders
             \/ senders'[s].stage \in {"admitted", "list"}
             \/ \E todo \in SUBSET Jobs : senders'[s] \in Dispatches(todo)
    BY <1>3, Starts
  <2>2. ShapeOf(senders'[s])
    <3>1. CASE senders' = senders
      BY <3>1 DEF ShapeOf, SenderShape
    <3>2. CASE senders'[s].stage \in {"admitted", "list"}
      BY <3>2 DEF ShapeOf
    <3>3. CASE \E todo \in SUBSET Jobs : senders'[s] \in Dispatches(todo)
      BY <3>3, DispatchesShape
    <3> QED
      BY <2>1, <3>1, <3>2, <3>3
  <2> QED
    BY <2>1, <2>2 DEF SenderShape, ShapeOf
<1>4. ASSUME NEW c \in Conns, NEW ack \in conns[c].acks, HandleAck(c, ack)
      PROVE  SenderShape'
  <2> DEFINE s == ack.msg.sender
  <2>1. CASE ack.msg \notin conns[c].pending
    BY <1>4, <2>1 DEF HandleAck, SenderShape
  <2>2. CASE ack.msg \in conns[c].pending
    <3>1. s \in Senders /\ senders[s].stage = "wait"
      BY <2>2, Waiter
    <3>2. senders[s] \in Sender
      BY <3>1, AtWork DEF TypeOK
    <3>3. senders' = [senders EXCEPT ![s] = [senders[s] EXCEPT !.answer = ack.status]]
      BY <1>4, <2>2 DEF HandleAck
    <3>4. \A t \in Senders :
            /\ senders'[t].stage = senders[t].stage /\ senders'[t].job = senders[t].job
            /\ senders'[t].attempt = senders[t].attempt /\ senders'[t].conn = senders[t].conn
      BY <3>1, <3>2, <3>3 DEF TypeOK, Sender
    <3> QED
      BY <3>4 DEF SenderShape
  <2> QED
    BY <2>1, <2>2
<1>5. ASSUME NEW s \in Senders, SenderStep(s)
      PROVE  SenderShape'
  BY <1>5, ShapeSender
<1>6. CASE Restart
  BY <1>6 DEF Restart, SenderShape, Off
<1> QED
  BY <1>1, <1>2, <1>3, <1>4, <1>5, <1>6, SplitNext DEF StartStep

(* A dispatch that stops waiting takes its waiter out of the table.        *)
LEMMA WaiterLeaves ==
  ASSUME TypeOK, SenderShape, WaitersAreWaiting, NEW s \in Senders,
         senders[s].stage = "wait", senders'[s].stage # "wait", StopWaiting(s),
         \A t \in Senders : t # s => senders'[t] = senders[t]
  PROVE  WaitersAreWaiting'
<1> DEFINE d == senders[s].conn
<1>1. d \in Conns
  BY DEF SenderShape
<1>2. \A c \in Conns : conns'[c].pending = IF c = d THEN conns[c].pending \ {MsgOf(s)}
                                                    ELSE conns[c].pending
  BY <1>1 DEF StopWaiting, TypeOK, Conn
<1>3. WaiterOfMessage /\ MessageOfWaiter
  BY WaiterTable
<1>4. ASSUME NEW c \in Conns, NEW m \in conns'[c].pending
      PROVE  (m.sender \in Senders /\ m = MsgOf(m.sender) /\ Waits(m.sender, c))'
  <2>1. m \in conns[c].pending
    BY <1>2, <1>4
  <2>2. m.sender \in Senders /\ m = MsgOf(m.sender) /\ Waits(m.sender, c)
    BY <1>3, <2>1 DEF WaiterOfMessage
  <2>3. m.sender # s
    <3>1. SUFFICES ASSUME m.sender = s
                   PROVE  FALSE
      OBVIOUS
    <3>2. c = d /\ m = MsgOf(s)
      BY <2>2, <3>1 DEF Waits
    <3> QED
      BY <1>2, <1>4, <3>2
  <2> QED
    BY <2>2, <2>3 DEF Waits, MsgOf
<1>5. ASSUME NEW t \in Senders, NEW c \in Conns, Waits(t, c)'
      PROVE  MsgOf(t)' \in conns'[c].pending
  <2>1. t # s
    BY <1>5 DEF Waits
  <2>2. Waits(t, c) /\ MsgOf(t)' = MsgOf(t)
    BY <1>5, <2>1 DEF Waits, MsgOf
  <2>3. MsgOf(t) \in conns[c].pending /\ MsgOf(t) # MsgOf(s)
    BY <1>3, <2>1, <2>2 DEF MessageOfWaiter, MsgOf
  <2> QED
    BY <1>2, <2>2, <2>3
<1>6. WaiterOfMessage'
  BY <1>4 DEF WaiterOfMessage
<1>7. MessageOfWaiter'
  BY <1>5 DEF MessageOfWaiter
<1>8. (WaitersAreWaiting <=> WaiterOfMessage /\ MessageOfWaiter)'
  BY WaiterTable, PTL
<1> QED
  BY <1>6, <1>7, <1>8

(* A dispatch that queues its message enters its waiter.                   *)
LEMMA WaiterJoins ==
  ASSUME TypeOK, SenderShape, WaitersAreWaiting, NEW s \in Senders,
         senders[s].stage = "send", senders[s].conn \in Conns, MsgOf(s) \in Msg,
         senders'[s].stage = "wait", senders'[s].answer = "",
         Keeps(s, {"job", "attempt", "conn"}),
         conns' = [conns EXCEPT ![senders[s].conn] = Expect(@, MsgOf(s))],
         \A t \in Senders : t # s => senders'[t] = senders[t]
  PROVE  WaitersAreWaiting'
<1>0. PICK d \in Conns : d = senders[s].conn
  OBVIOUS
<1>1. \A c \in Conns :
         /\ c = d => conns'[c].pending = conns[c].pending \cup {MsgOf(s)}
         /\ c # d => conns'[c].pending = conns[c].pending
  <2>1. Expect(conns[d], MsgOf(s)).pending = conns[d].pending \cup {MsgOf(s)}
    <3>1. conns[d] \in Conn
      BY DEF TypeOK
    <3>2. \A k \in Conn, m \in Msg : Expect(k, m).pending = k.pending \cup {m}
      BY ExpectType
    <3> QED
      BY <3>1, <3>2
  <2>2. ASSUME NEW c \in Conns
        PROVE  c = d => conns'[c].pending = conns[c].pending \cup {MsgOf(s)}
    BY <1>0, <2>1 DEF TypeOK
  <2>3. ASSUME NEW c \in Conns
        PROVE  c # d => conns'[c].pending = conns[c].pending
    BY <1>0 DEF TypeOK
  <2> QED
    BY <2>2, <2>3
<1>2. WaiterOfMessage /\ MessageOfWaiter
  BY WaiterTable
<1>3. /\ senders'[s].conn = d /\ MsgOf(s).sender = s
      /\ senders'[s].job = senders[s].job /\ senders'[s].attempt = senders[s].attempt
  BY <1>0 DEF MsgOf, Keeps
<1>4. ASSUME NEW c \in Conns, NEW m \in conns'[c].pending
      PROVE  (m.sender \in Senders /\ m = MsgOf(m.sender) /\ Waits(m.sender, c))'
  <2>1. CASE m = MsgOf(s) /\ c = d
    BY <1>3, <2>1 DEF MsgOf, Waits
  <2>2. CASE m \in conns[c].pending
    <3>1. m.sender \in Senders /\ m = MsgOf(m.sender) /\ Waits(m.sender, c)
      BY <1>2, <2>2 DEF WaiterOfMessage
    <3>2. m.sender # s
      BY <3>1 DEF Waits
    <3> QED
      BY <3>1, <3>2 DEF Waits, MsgOf
  <2>3. m \in conns[c].pending \/ (m = MsgOf(s) /\ c = d)
    <3>1. CASE c = d
      <4>1. conns'[c].pending = conns[c].pending \cup {MsgOf(s)}
        BY <1>1, <3>1
      <4> QED
        BY <1>4, <3>1, <4>1, Zenon
    <3>2. CASE c # d
      <4>1. conns'[c].pending = conns[c].pending
        BY <1>1, <3>2
      <4> QED
        BY <1>4, <4>1, Zenon
    <3> QED
      BY <3>1, <3>2
  <2> QED
    BY <2>1, <2>2, <2>3
<1>5. ASSUME NEW t \in Senders, NEW c \in Conns, Waits(t, c)'
      PROVE  MsgOf(t)' \in conns'[c].pending
  <2>1. CASE t = s
    <3>1. c = d
      BY <1>3, <1>5, <2>1 DEF Waits
    <3>2. MsgOf(s)' = MsgOf(s)
      BY <1>3 DEF MsgOf
    <3> QED
      BY <1>1, <2>1, <3>1, <3>2
  <2>2. CASE t # s
    <3>1. Waits(t, c) /\ MsgOf(t)' = MsgOf(t)
      BY <1>5, <2>2 DEF Waits, MsgOf
    <3>2. MsgOf(t) \in conns[c].pending
      BY <1>2, <3>1 DEF MessageOfWaiter
    <3> QED
      BY <1>1, <3>1, <3>2
  <2> QED
    BY <2>1, <2>2
<1>6. WaiterOfMessage'
  BY <1>4 DEF WaiterOfMessage
<1>7. MessageOfWaiter'
  BY <1>5 DEF MessageOfWaiter
<1>8. (WaitersAreWaiting <=> WaiterOfMessage /\ MessageOfWaiter)'
  BY WaiterTable, PTL
<1> QED
  BY <1>6, <1>7, <1>8

(* An acknowledgement takes its own waiter out, and no other.              *)
LEMMA WaiterAnswered ==
  ASSUME TypeOK, WaitersAreWaiting, NEW c \in Conns, NEW ack \in conns[c].acks,
         HandleAck(c, ack)
  PROVE  WaitersAreWaiting'
<1> DEFINE s == ack.msg.sender
<1>1. \A d \in Conns : conns'[d].pending = IF d = c THEN conns[d].pending \ {ack.msg}
                                                    ELSE conns[d].pending
  BY DEF HandleAck, TypeOK, Conn
<1>2. WaiterOfMessage /\ MessageOfWaiter
  BY WaiterTable
<1>3. (WaitersAreWaiting <=> WaiterOfMessage /\ MessageOfWaiter)'
  BY WaiterTable, PTL
<1>4. CASE ack.msg \notin conns[c].pending
  <2>1. senders' = senders /\ \A d \in Conns : conns'[d].pending = conns[d].pending
    BY <1>1, <1>4 DEF HandleAck
  <2> QED
    BY <1>2, <1>3, <2>1 DEF WaiterOfMessage, MessageOfWaiter, Waits, MsgOf
<1>5. CASE ack.msg \in conns[c].pending
  <2>1. s \in Senders /\ ack.msg = MsgOf(s) /\ Waits(s, c)
    BY <1>2, <1>5 DEF WaiterOfMessage
  <2>2. senders[s] \in Sender
    BY <2>1, AtWork DEF TypeOK, Waits
  <2>3. senders' = [senders EXCEPT ![s] = [senders[s] EXCEPT !.answer = ack.status]]
    BY <1>5 DEF HandleAck
  <2>4. \A t \in Senders : t # s => senders'[t] = senders[t]
    BY <2>3 DEF TypeOK
  <2>5. senders'[s].answer # ""
    <3>1. ack.status \in {"accepted", "rejected"}
      BY DEF TypeOK, Conn, Ack
    <3> QED
      BY <2>1, <2>2, <2>3, <3>1 DEF TypeOK, Sender
  <2>6. ASSUME NEW d \in Conns, NEW m \in conns'[d].pending
        PROVE  (m.sender \in Senders /\ m = MsgOf(m.sender) /\ Waits(m.sender, d))'
    <3>1. m.sender \in Senders /\ m = MsgOf(m.sender) /\ Waits(m.sender, d)
      BY <1>1, <1>2, <2>6 DEF WaiterOfMessage
    <3>2. m.sender # s
      <4>1. SUFFICES ASSUME m.sender = s
                     PROVE  FALSE
        OBVIOUS
      <4>2. d = c /\ m = ack.msg
        BY <2>1, <3>1, <4>1 DEF Waits
      <4> QED
        BY <1>1, <2>6, <4>2
    <3> QED
      BY <2>4, <3>1, <3>2 DEF Waits, MsgOf
  <2>7. ASSUME NEW t \in Senders, NEW d \in Conns, Waits(t, d)'
        PROVE  MsgOf(t)' \in conns'[d].pending
    <3>1. t # s
      BY <2>5, <2>7 DEF Waits
    <3>2. Waits(t, d) /\ MsgOf(t)' = MsgOf(t)
      BY <2>4, <2>7, <3>1 DEF Waits, MsgOf
    <3>3. MsgOf(t) \in conns[d].pending /\ MsgOf(t) # ack.msg
      BY <1>2, <2>1, <3>1, <3>2 DEF MessageOfWaiter, MsgOf
    <3> QED
      BY <1>1, <3>2, <3>3
  <2>8. WaiterOfMessage'
    BY <2>6 DEF WaiterOfMessage
  <2>9. MessageOfWaiter'
    BY <2>7 DEF MessageOfWaiter
  <2> QED
    BY <1>3, <2>8, <2>9
<1> QED
  BY <1>4, <1>5

LEMMA WaitersSender ==
  ASSUME TypeOK, SenderShape, WaitersAreWaiting, NEW s \in Senders, SenderStep(s)
  PROVE  WaitersAreWaiting'
<1>1. senders[s] \in Sender /\ \A t \in Senders : t # s => senders'[t] = senders[t]
  BY Dispatching, SenderEffect
<1>2. CASE Lookup(s)
  <2>1. senders[s].stage # "wait" /\ senders'[s].stage # "wait"
    BY <1>1, <1>2, SenderAfter DEF Lookup
  <2>2. \A c \in Conns : conns'[c].pending = conns[c].pending
    BY <1>2 DEF Lookup
  <2> QED
    BY <1>1, <2>1, <2>2, WaitersUntouched
<1>3. CASE Send(s)
  <2>1. senders[s].stage = "send" /\ senders[s].conn \in Conns /\ MsgOf(s) \in Msg
    BY <1>3, MsgType DEF Send, SenderShape
  <2>2. CASE senders'[s].stage = "record" /\ conns' = conns
    BY <1>1, <2>1, <2>2, WaitersUntouched
  <2>3. CASE ~(senders'[s].stage = "record" /\ conns' = conns)
    <3>1. /\ senders'[s].stage = "wait" /\ senders'[s].answer = ""
          /\ Keeps(s, {"job", "attempt", "conn"})
          /\ conns' = [conns EXCEPT ![senders[s].conn] = Expect(@, MsgOf(s))]
      BY <1>1, <1>3, <2>3, SenderAfter DEF Keeps
    <3> QED
      BY <1>1, <2>1, <3>1, WaiterJoins
  <2> QED
    BY <2>2, <2>3
<1>4. CASE Answered(s) \/ TimeOut(s)
  <2>1. senders[s].stage = "wait" /\ StopWaiting(s)
    BY <1>4 DEF Answered, TimeOut
  <2>2. senders'[s].stage # "wait"
    BY <1>1, <1>4, SenderAfter
  <2> QED
    BY <1>1, <2>1, <2>2, WaiterLeaves
<1>5. CASE Record(s)
  <2>1. senders[s].stage # "wait" /\ senders'[s].stage # "wait"
    <3>1. senders'[s] \in Dispatches(senders[s].todo)
      BY <1>1, <1>5, SenderAfter
    <3>2. senders'[s] = Off \/ senders'[s].stage = "lookup"
      BY <3>1, DispatchesStage
    <3> QED
      BY <1>5, <3>2, OffStage DEF Record
  <2>2. \A c \in Conns : conns'[c].pending = conns[c].pending
    BY <1>5 DEF Record
  <2> QED
    BY <1>1, <2>1, <2>2, WaitersUntouched
<1> QED
  BY <1>2, <1>3, <1>4, <1>5 DEF SenderStep

LEMMA WaitersNext ==
  ASSUME TypeOK, SenderShape, Unserved, WaitersAreWaiting, [Next]_vars
  PROVE  WaitersAreWaiting'
<1>1. CASE UNCHANGED vars
  BY <1>1 DEF vars, volatile, WaitersAreWaiting, MsgOf
<1>2. CASE CalmStep
  <2>1. Calm
    BY <1>2, CalmSteps
  <2> QED
    <3>1. WaiterOfMessage /\ MessageOfWaiter
      BY WaiterTable
    <3>2. WaiterOfMessage' /\ MessageOfWaiter'
      BY <2>1, <3>1 DEF Calm, WaiterOfMessage, MessageOfWaiter, Waits, MsgOf
    <3>3. (WaitersAreWaiting <=> WaiterOfMessage /\ MessageOfWaiter)'
      BY WaiterTable, PTL
    <3> QED
      BY <3>2, <3>3
<1>3. CASE StartStep
  <2>1. PICK s \in Senders :
          /\ \A t \in Senders : t # s => senders'[t] = senders[t]
          /\ senders[s].stage \in {"off", "admitted", "list"}
          /\ \/ senders' = senders
             \/ senders'[s].stage \in {"admitted", "list"}
             \/ \E todo \in SUBSET Jobs : senders'[s] \in Dispatches(todo)
    BY <1>3, Starts
  <2>2. senders'[s].stage # "wait"
    <3>1. ASSUME NEW todo \in SUBSET Jobs, senders'[s] \in Dispatches(todo)
          PROVE  senders'[s].stage # "wait"
      <4>1. senders'[s] = Off \/ senders'[s].stage = "lookup"
        BY <3>1, DispatchesStage
      <4> QED
        BY <4>1, OffStage
    <3> QED
      BY <2>1, <3>1
  <2>3. \A c \in Conns : conns'[c].pending = conns[c].pending
    BY <1>3, Starts
  <2> QED
    BY <2>1, <2>2, <2>3, WaitersUntouched
<1>4. ASSUME NEW c \in Conns, NEW ack \in conns[c].acks, HandleAck(c, ack)
      PROVE  WaitersAreWaiting'
  BY <1>4, WaiterAnswered
<1>5. ASSUME NEW s \in Senders, SenderStep(s)
      PROVE  WaitersAreWaiting'
  BY <1>5, WaitersSender
<1>6. CASE Restart
  BY <1>6 DEF Restart, WaitersAreWaiting, Off, Free
<1> QED
  BY <1>1, <1>2, <1>3, <1>4, <1>5, <1>6, SplitNext DEF StartStep

LEMMA UnservedNext ==
  ASSUME TypeOK, SenderShape, Unserved, WaitersAreWaiting, [Next]_vars
  PROVE  Unserved'
<1>1. CASE UNCHANGED vars
  BY <1>1 DEF vars, volatile, Unserved
<1>2. CASE CalmStep
  BY <1>2, CalmSteps DEF Calm, Unserved
<1>3. ASSUME NEW c \in Conns, HandOff(c)
      PROVE  Unserved'
  <2>1. \A d \in Conns : conns'[d].stage = IF d = c THEN "reading" ELSE conns[d].stage
    BY <1>3 DEF HandOff, TypeOK, Conn
  <2>2. \A d \in Conns : d # c => senders'[d] = senders[d]
    BY <1>3 DEF HandOff, TypeOK, Senders
  <2> QED
    BY <2>1, <2>2 DEF Unserved
<1>4. ASSUME NEW c \in Conns, ListQueued(c)
      PROVE  Unserved'
  <2>1. senders[c] # Off
    BY <1>4, OffStage DEF ListQueued
  <2>2. \A d \in Conns : d # c => senders'[d] = senders[d]
    BY <1>4 DEF ListQueued, TypeOK, Senders
  <2> QED
    BY <1>4, <2>1, <2>2 DEF ListQueued, Unserved
<1>5. ASSUME NEW j \in Jobs, AdmitJob(j) \/ CreateJob(j)
      PROVE  Unserved'
  <2>1. \A d \in Conns : senders'[d] = senders[d]
    BY <1>5, LinkAssumption DEF AdmitJob, CreateJob, TypeOK, Senders
  <2> QED
    BY <1>5, <2>1 DEF AdmitJob, CreateJob, Unserved
<1>6. ASSUME NEW c \in Conns, NEW ack \in conns[c].acks, HandleAck(c, ack)
      PROVE  Unserved'
  <2>1. \A d \in Conns : conns'[d].stage = conns[d].stage
    BY <1>6 DEF HandleAck, TypeOK, Conn
  <2>2. ASSUME NEW d \in Conns, senders[d] = Off
        PROVE  senders'[d] = Off
    <3>1. ack.msg \in conns[c].pending =>
            ack.msg.sender \in Senders /\ senders[ack.msg.sender].stage = "wait"
      BY Waiter
    <3>2. senders[d].stage = "off"
      BY <2>2, OffStage
    <3> QED
      BY <1>6, <2>2, <3>1, <3>2 DEF HandleAck, TypeOK, Senders
  <2> QED
    BY <2>1, <2>2 DEF Unserved
<1>7. ASSUME NEW s \in Senders, SenderStep(s)
      PROVE  Unserved'
  <2>1. senders[s] # Off
    <3>1. senders[s].stage \in {"lookup", "send", "wait", "record"}
      BY <1>7, Dispatching
    <3> QED
      BY <3>1, OffStage
  <2>2. \A t \in Senders : t # s => senders'[t] = senders[t]
    BY <1>7, SenderEffect
  <2>3. \A d \in Conns : conns'[d].stage = conns[d].stage
    <3>1. CASE Lookup(s) \/ Record(s)
      BY <3>1 DEF Lookup, Record
    <3>2. CASE Answered(s) \/ TimeOut(s)
      <4>1. conns' = [conns EXCEPT ![senders[s].conn] =
                        [conns[senders[s].conn] EXCEPT !.pending = @ \ {MsgOf(s)}]]
        BY <3>2 DEF Answered, TimeOut, StopWaiting
      <4> QED
        BY <4>1 DEF TypeOK, Conn
    <3>3. CASE Send(s)
      <4>1. MsgOf(s) \in Msg
        BY <3>3, MsgType DEF Send, SenderShape
      <4> QED
        <5>1. \A d \in Conns : Expect(conns[d], MsgOf(s)).stage = conns[d].stage
          BY <4>1, ExpectType DEF TypeOK
        <5> QED
          BY <3>3, <5>1 DEF Send, TypeOK
    <3> QED
      BY <1>7, <3>1, <3>2, <3>3 DEF SenderStep
  <2> QED
    BY <2>1, <2>2, <2>3 DEF Unserved, Senders
<1>8. CASE Restart
  BY <1>8 DEF Restart, Unserved, Senders
<1> QED
  BY <1>1, <1>2, <1>3, <1>4, <1>5, <1>6, <1>7, <1>8, SplitNext

-----------------------------------------------------------------------------
(* The inductive invariant about types, dispatches and waiters.            *)

WaiterInv == TypeOK /\ SenderShape /\ Unserved /\ WaitersAreWaiting

LEMMA WaiterInvInit == Init => WaiterInv
<1> SUFFICES ASSUME Init
             PROVE  WaiterInv
  OBVIOUS
<1>1. \A s \in Senders : senders[s] = Off
  BY DEF Init
<1>2. \A c \in Conns : conns[c].pending = {} /\ conns[c].stage = "free"
  BY DEF Init, Free
<1>3. SenderShape
  BY <1>1, OffStage DEF SenderShape
<1>4. Unserved
  BY <1>1 DEF Unserved, Senders
<1>5. WaitersAreWaiting
  BY <1>1, <1>2, OffStage DEF WaitersAreWaiting
<1> QED
  BY <1>3, <1>4, <1>5, TypesInit DEF WaiterInv

LEMMA WaiterInvNext == WaiterInv /\ [Next]_vars => WaiterInv'
BY TypesNext, ShapeNext, UnservedNext, WaitersNext DEF WaiterInv

LEMMA WaiterInvAlways == Spec => []WaiterInv
BY WaiterInvInit, WaiterInvNext, PTL DEF Spec

(* Every reachable state is well-typed, for any number of sockets, jobs    *)
(* and API handlers: in particular no dispatch starts more than            *)
(* MaxAttempts deliveries of a job.                                        *)
THEOREM LinkTypes == Spec => []TypeOK
<1>1. WaiterInv => TypeOK
  BY DEF WaiterInv
<1> QED
  BY <1>1, WaiterInvAlways, PTL

(* The waiter tables of all sockets hold exactly the unanswered dispatches *)
(* waiting on them: an acknowledgement finds its dispatch and no other,    *)
(* and neither timeouts, retries, closed sockets nor a restart leave a     *)
(* waiter behind.                                                          *)
THEOREM WaitersExact == Spec => []WaitersAreWaiting
<1>1. WaiterInv => WaitersAreWaiting
  BY DEF WaiterInv
<1> QED
  BY <1>1, WaiterInvAlways, PTL

-----------------------------------------------------------------------------
(* The manager's map.                                                      *)

(* The steps that touch neither the map, nor what the workers do, nor the  *)
(* state of a socket.                                                      *)
LinkUntouched ==
  /\ current' = current /\ work' = work
  /\ \A c \in Conns : conns'[c].stage = conns[c].stage /\ conns'[c].done = conns[c].done

DispatchStep ==
  \/ \E c \in Conns :
       \/ ListQueued(c) \/ Write(c) \/ Heartbeat(c)
       \/ \E ack \in conns[c].acks : HandleAck(c, ack)
       \/ \E status \in {"accepted", "rejected"} : EdgeTakes(c, status)
       \/ \E j \in Jobs, status \in Reported : HandleJobUpdate(c, j, status)
  \/ \E j \in Jobs : AdmitJob(j) \/ CreateJob(j)
  \/ \E s \in Senders : SenderStep(s)

LEMMA ExpectDone ==
  ASSUME NEW conn \in Conn, NEW m
  PROVE  Expect(conn, m).done = conn.done /\ Expect(conn, m).stage = conn.stage
BY DEF Expect, Conn

LEMMA DispatchLeavesLink ==
  ASSUME TypeOK, DispatchStep
  PROVE  LinkUntouched
<1> USE DEF LinkUntouched, kept, volatile
<1>1. ASSUME NEW c \in Conns, ListQueued(c) \/ Heartbeat(c)
      PROVE  LinkUntouched
  BY <1>1 DEF ListQueued, Heartbeat
<1>2. ASSUME NEW c \in Conns, Write(c)
      PROVE  LinkUntouched
  BY <1>2 DEF Write, TypeOK, Conn
<1>3. ASSUME NEW c \in Conns, NEW ack \in conns[c].acks, HandleAck(c, ack)
      PROVE  LinkUntouched
  BY <1>3 DEF HandleAck, TypeOK, Conn
<1>4. ASSUME NEW c \in Conns, NEW status \in {"accepted", "rejected"}, EdgeTakes(c, status)
      PROVE  LinkUntouched
  BY <1>4 DEF EdgeTakes, TypeOK, Conn
<1>5. ASSUME NEW c \in Conns, NEW j \in Jobs, NEW status \in Reported,
             HandleJobUpdate(c, j, status)
      PROVE  LinkUntouched
  BY <1>5 DEF HandleJobUpdate
<1>6. ASSUME NEW j \in Jobs, AdmitJob(j) \/ CreateJob(j)
      PROVE  LinkUntouched
  BY <1>6 DEF AdmitJob, CreateJob
<1>7. ASSUME NEW s \in Senders, SenderStep(s)
      PROVE  LinkUntouched
  <2>1. CASE Lookup(s) \/ Record(s)
    BY <2>1 DEF Lookup, Record
  <2>2. CASE Send(s)
    <3>1. \A c \in Conns : /\ Expect(conns[c], MsgOf(s)).done = conns[c].done
                           /\ Expect(conns[c], MsgOf(s)).stage = conns[c].stage
      BY ExpectDone DEF TypeOK
    <3> QED
      BY <2>2, <3>1 DEF Send, TypeOK
  <2>3. CASE Answered(s) \/ TimeOut(s)
    <3>1. conns' = [conns EXCEPT ![senders[s].conn] =
                      [conns[senders[s].conn] EXCEPT !.pending = @ \ {MsgOf(s)}]]
      BY <2>3 DEF Answered, TimeOut, StopWaiting
    <3> QED
      <4>1. current' = current /\ work' = work
        BY <2>3 DEF Answered, TimeOut
      <4>2. \A c \in Conns : conns'[c].stage = conns[c].stage /\ conns'[c].done = conns[c].done
        BY <3>1 DEF TypeOK, Conn
      <4> QED
        BY <4>1, <4>2
  <2> QED
    BY <1>7, <2>1, <2>2, <2>3 DEF SenderStep
<1> QED
  BY <1>1, <1>2, <1>3, <1>4, <1>5, <1>6, <1>7 DEF DispatchStep

(* The others.                                                             *)
LEMMA SplitLink ==
  ASSUME Next
  PROVE  \/ DispatchStep
         \/ Register \/ Restart
         \/ \E c \in Conns : \/ HandOff(c) \/ HandUnregister(c) \/ ReaderReturns(c)
                             \/ Connect(c) \/ ReadFails(c) \/ WriteFails(c)
         \/ \E w \in Workers : Unregister(w) \/ MarkUnstable(w) \/ CloseConn(w)
         \/ \E w \in Callers : \/ EnqueueNote(w) \/ DisconnectNode(w) \/ ServerClose(w)
                               \/ SendToNode(w) \/ DeleteEdgeNode(w)
                               \/ ListActiveJobs(w)
                               \/ \E j \in Jobs : SettleActiveJob(w, j)
BY DEF Next, ManagerStep, WorkerStep, CallerStep, PumpStep, Environment, DispatchStep

(* Steps that close sockets, or move on one worker with its socket.        *)
LEMMA ClosedStage ==
  ASSUME TypeOK, NEW c \in Conns, conns' = [conns EXCEPT ![c] = Closed(@)]
  PROVE  \A d \in Conns :
           /\ conns'[d].stage = conns[d].stage
           /\ d = c => conns'[d].done
           /\ d # c => conns'[d].done = conns[d].done
<1>1. conns[c] \in Conn
  BY DEF TypeOK
<1>2. Closed(conns[c]).stage = conns[c].stage /\ Closed(conns[c]).done
  BY <1>1, ClosedType
<1> QED
  BY <1>2 DEF TypeOK

LEMMA NotedStage ==
  ASSUME TypeOK, NEW c \in Conns,
         conns' = conns \/ conns' = [conns EXCEPT ![c] = Queue(@, Note)]
  PROVE  \A d \in Conns : conns'[d].stage = conns[d].stage /\ conns'[d].done = conns[d].done
<1>1. conns[c] \in Conn
  BY DEF TypeOK
<1>2. Queue(conns[c], Note).stage = conns[c].stage /\ Queue(conns[c], Note).done = conns[c].done
  BY <1>1, QueueType
<1> QED
  BY <1>2 DEF TypeOK

LEMMA RestIsIdle == Rest.op = "rest" /\ Listing.op = "list"
BY DEF Rest, Listing

(* A worker that moves on: the others stay at what they do.                *)
LEMMA Moves ==
  ASSUME TypeOK, NEW w \in Workers, NEW k, work' = [work EXCEPT ![w] = k]
  PROVE  work'[w] = k /\ \A v \in Workers : v # w => work'[v] = work[v]
BY DEF TypeOK

Guarded(c) ==
  \/ current = c
  \/ \E w \in Workers : work[w].conn = c
                        /\ work[w].op \in {"register", "unstable", "server_close", "close"}

LEMMA LiveInit == Init => LiveSocketIsCurrent
BY DEF Init, LiveSocketIsCurrent, Free

LEMMA LiveNext ==
  ASSUME TypeOK, LiveSocketIsCurrent, [Next]_vars
  PROVE  LiveSocketIsCurrent'
<1> SUFFICES ASSUME NEW c \in Conns, conns'[c].stage = "reading", ~conns'[c].done
             PROVE  Guarded(c)'
  BY DEF LiveSocketIsCurrent, Guarded
<1> USE DEF kept, volatile, Do, Finish
<1>1. conns[c].stage = "reading" /\ ~conns[c].done => Guarded(c)
  BY DEF LiveSocketIsCurrent, Guarded
<1>2. CASE UNCHANGED vars
  BY <1>1, <1>2 DEF vars, Guarded
<1>3. CASE DispatchStep
  <2>1. LinkUntouched
    BY <1>3, DispatchLeavesLink
  <2> QED
    BY <1>1, <2>1 DEF LinkUntouched, Guarded
<1>4. CASE Register
  <2>1. Manager \in Workers /\ work[Manager].conn \in Conns
    BY <1>4, WorkConn DEF Register, Workers
  <2>2. current' = work[Manager].conn
    BY <1>4 DEF Register
  <2>3. CASE c = work[Manager].conn
    BY <2>2, <2>3 DEF Guarded
  <2>4. CASE c # work[Manager].conn
    <3>1. c # current /\ conns[c].stage = "reading" /\ ~conns[c].done
      <4>1. CASE current = None
        BY <1>4, <4>1, LinkAssumption DEF Register
      <4>2. CASE current # None
        <5>1. current \in Conns /\ conns' = [conns EXCEPT ![current] = Closed(@)]
          BY <1>4, <4>2 DEF Register, TypeOK
        <5> QED
          BY <5>1, ClosedStage
      <4> QED
        BY <4>1, <4>2
    <3>2. PICK w \in Workers :
            /\ work[w].conn = c
            /\ work[w].op \in {"register", "unstable", "server_close", "close"}
      BY <1>1, <3>1 DEF Guarded
    <3>3. work'[w] = work[w]
      BY <1>4, <2>1, <2>4, <3>2, Moves DEF Register
    <3> QED
      BY <3>2, <3>3 DEF Guarded
  <2> QED
    BY <2>3, <2>4
<1>5. CASE Restart
  BY <1>5 DEF Restart, Free
<1>6. ASSUME NEW d \in Conns, HandOff(d)
      PROVE  Guarded(c)'
  <2>1. Manager \in Workers /\ work[Manager].op = "rest"
    BY <1>6, RestIsIdle DEF HandOff, Workers
  <2>2. work'[Manager] = [op |-> "register", conn |-> d]
         /\ \A w \in Workers : w # Manager => work'[w] = work[w]
    BY <1>6, <2>1, Moves DEF HandOff
  <2>3. CASE c = d
    BY <2>1, <2>2, <2>3 DEF Guarded
  <2>4. CASE c # d
    <3>1. conns'[c] = conns[c]
      BY <1>6, <2>4 DEF HandOff, TypeOK
    <3> QED
      BY <1>1, <1>6, <2>1, <2>2, <3>1 DEF Guarded, HandOff
  <2> QED
    BY <2>3, <2>4
<1>7. ASSUME NEW d \in Conns, HandUnregister(d)
      PROVE  Guarded(c)'
  <2>1. Manager \in Workers /\ work[Manager].op = "rest"
    BY <1>7, RestIsIdle DEF HandUnregister, Workers
  <2>2. \A w \in Workers : w # Manager => work'[w] = work[w]
    BY <1>7, <2>1, Moves DEF HandUnregister
  <2>3. conns[c].stage = "reading" /\ ~conns[c].done
    BY <1>7 DEF HandUnregister, TypeOK, Conn
  <2> QED
    BY <1>1, <1>7, <2>1, <2>2, <2>3 DEF Guarded, HandUnregister
<1>8. ASSUME NEW d \in Conns,
             ReaderReturns(d) \/ Connect(d) \/ ReadFails(d) \/ WriteFails(d)
      PROVE  Guarded(c)'
  <2>1. conns[c].stage = "reading" /\ ~conns[c].done
    <3>1. CASE ReaderReturns(d) \/ WriteFails(d)
      BY <3>1, ClosedStage DEF ReaderReturns, WriteFails
    <3>2. CASE Connect(d)
      BY <3>2 DEF Connect, TypeOK, Conn
    <3>3. CASE ReadFails(d)
      BY <3>3 DEF ReadFails, TypeOK, Conn
    <3> QED
      BY <1>8, <3>1, <3>2, <3>3
  <2> QED
    BY <1>1, <1>8, <2>1 DEF Guarded, ReaderReturns, Connect, ReadFails, WriteFails
<1>9. ASSUME NEW w \in Workers, Unregister(w) \/ MarkUnstable(w) \/ CloseConn(w)
      PROVE  Guarded(c)'
  <2> DEFINE d == work[w].conn
  <2>1. d \in Conns
    BY <1>9, WorkConn DEF Unregister, MarkUnstable, CloseConn
  <2>2. CASE Unregister(w)
    <3>1. Guarded(c) /\ work[w].op = "unregister"
      BY <1>1, <2>2 DEF Unregister
    <3>2. /\ work'[w].conn = d /\ work'[w].op \in {"unstable", "close"}
          /\ \A v \in Workers : v # w => work'[v] = work[v]
      BY <2>2, Moves DEF Unregister
    <3>3. CASE c = d
      BY <3>2, <3>3 DEF Guarded
    <3>4. CASE c # d
      BY <2>2, <3>1, <3>2, <3>4 DEF Unregister, Guarded
    <3> QED
      BY <3>3, <3>4
  <2>3. CASE MarkUnstable(w)
    <3>1. Guarded(c)
      BY <1>1, <2>3 DEF MarkUnstable
    <3>2. /\ work'[w] = [op |-> "close", conn |-> d]
          /\ \A v \in Workers : v # w => work'[v] = work[v]
      BY <2>3, Moves DEF MarkUnstable
    <3>3. work'[w].conn = d /\ work'[w].op = "close" /\ current' = current
      BY <2>3, <3>2 DEF MarkUnstable
    <3> QED
      BY <3>1, <3>2, <3>3 DEF Guarded
  <2>4. CASE CloseConn(w)
    <3>1. \A v \in Workers : v # w => work'[v] = work[v]
      BY <2>4, Moves DEF CloseConn
    <3>2. c # d /\ conns[c].stage = "reading" /\ ~conns[c].done
      BY <2>1, <2>4, ClosedStage DEF CloseConn
    <3> QED
      BY <1>1, <2>4, <3>1, <3>2 DEF CloseConn, Guarded
  <2> QED
    BY <1>9, <2>2, <2>3, <2>4
<1>10. ASSUME NEW w \in Callers,
              \/ EnqueueNote(w) \/ DisconnectNode(w) \/ ServerClose(w)
              \/ SendToNode(w) \/ DeleteEdgeNode(w)
              \/ ListActiveJobs(w) \/ \E j \in Jobs : SettleActiveJob(w, j)
       PROVE  Guarded(c)'
  <2>0. w \in Workers
    BY DEF Workers
  <2>1. CASE EnqueueNote(w)
    <3>1. work[w].conn \in Conns
      BY <2>0, <2>1, WorkConn DEF EnqueueNote
    <3>2. conns[c].stage = "reading" /\ ~conns[c].done
      BY <2>1, <3>1, NotedStage DEF EnqueueNote
    <3>3. \A v \in Workers : v # w => work'[v] = work[v]
      BY <2>0, <2>1, Moves DEF EnqueueNote
    <3> QED
      BY <1>1, <2>1, <3>2, <3>3 DEF EnqueueNote, Guarded
  <2>2. CASE DisconnectNode(w)
    <3>1. Guarded(c) /\ work[w].op = "settle"
      BY <1>1, <2>2, RestIsIdle DEF DisconnectNode
    <3>2. \A v \in Workers : v # w => work'[v] = work[v]
      BY <2>0, <2>2, Moves DEF DisconnectNode
    <3>3. CASE c = current
      <4>1. current # None
        BY <3>3, LinkAssumption
      <4>2. work'[w] = [op |-> "server_close", conn |-> current]
        BY <2>0, <2>2, <4>1, Moves DEF DisconnectNode
      <4> QED
        BY <2>0, <3>3, <4>2 DEF Guarded
    <3>4. CASE c # current
      BY <3>1, <3>2, <3>4 DEF Guarded
    <3> QED
      BY <3>3, <3>4
  <2>3. CASE ServerClose(w)
    <3> DEFINE d == work[w].conn
    <3>1. d \in Conns
      BY <2>0, <2>3, WorkConn DEF ServerClose
    <3>2. conns' = conns \/ conns' = [conns EXCEPT ![d] = Queue(@, Note)]
      BY <2>3 DEF ServerClose
    <3>3. Guarded(c)
      BY <1>1, <3>1, <3>2, NotedStage
    <3>4. work'[w] = [op |-> "close", conn |-> d]
           /\ \A v \in Workers : v # w => work'[v] = work[v]
      BY <2>0, <2>3, Moves DEF ServerClose
    <3>5. work'[w].conn = d /\ work'[w].op = "close" /\ current' = current
      BY <2>3, <3>4 DEF ServerClose
    <3> QED
      BY <3>3, <3>4, <3>5 DEF Guarded
  <2>4. CASE SendToNode(w) \/ DeleteEdgeNode(w)
    <3>1. Guarded(c) /\ work[w].op = "rest" /\ current' = current
      BY <1>1, <2>4, RestIsIdle DEF SendToNode, DeleteEdgeNode
    <3>2. \A v \in Workers : v # w => work'[v] = work[v]
      BY <2>0, <2>4, Moves DEF SendToNode, DeleteEdgeNode
    <3> QED
      BY <3>1, <3>2 DEF Guarded
  <2>5. CASE ListActiveJobs(w) \/ \E j \in Jobs : SettleActiveJob(w, j)
    <3>1. Guarded(c) /\ current' = current
      BY <1>1, <2>5 DEF ListActiveJobs, SettleActiveJob
    <3>2. work[w].op \in {"settle", "list"} /\ \A v \in Workers : v # w => work'[v] = work[v]
      BY <2>0, <2>5, SettleSteps, SettlingParts
    <3> QED
      BY <3>1, <3>2 DEF Guarded
  <2> QED
    BY <1>10, <2>1, <2>2, <2>3, <2>4, <2>5
<1> QED
  BY <1>2, <1>3, <1>4, <1>5, <1>6, <1>7, <1>8, <1>9, <1>10, SplitLink

(* Only the manager registers, and until it has, the read pump of the new  *)
(* socket cannot have been reported.                                       *)
RegisterServed ==
  \A w \in Workers :
    work[w].op = "register" =>
      w = Manager /\ conns[work[w].conn].stage \in {"reading", "leaving"}

Reporting(c) == \E w \in Workers : work[w] = [op |-> "unregister", conn |-> c]

DeadInv == RegisterServed /\ DeadSocketIsReported

LEMMA DeadInit == Init => DeadInv
BY RestIsIdle, LinkAssumption DEF Init, DeadInv, RegisterServed, DeadSocketIsReported

(* A step of one worker that does not start a registration, and leaves the *)
(* sockets' stages alone.                                                  *)
LEMMA ServedKept ==
  ASSUME TypeOK, RegisterServed, NEW w \in Workers,
         \A v \in Workers : v # w => work'[v] = work[v],
         work'[w].op # "register",
         \A c \in Conns : conns'[c].stage = conns[c].stage
  PROVE  RegisterServed'
<1> SUFFICES ASSUME NEW v \in Workers, work'[v].op = "register"
             PROVE  v = Manager /\ conns'[work'[v].conn].stage \in {"reading", "leaving"}
  BY DEF RegisterServed
<1>1. v # w /\ work'[v] = work[v]
  OBVIOUS
<1>2. work[v].conn \in Conns
  BY <1>1, WorkConn
<1> QED
  BY <1>1, <1>2 DEF RegisterServed

LEMMA DeadLink ==
  ASSUME TypeOK, DeadInv,
         \/ Register
         \/ \E c \in Conns : \/ HandOff(c) \/ HandUnregister(c) \/ ReaderReturns(c)
                             \/ Connect(c) \/ ReadFails(c) \/ WriteFails(c)
  PROVE  DeadInv'
<1> USE DEF kept, volatile, Do, Finish, DeadInv
<1>0. Manager \in Workers
  BY DEF Workers
<1>1. CASE Register
  <2> DEFINE d == work[Manager].conn
  <2>1. d \in Conns /\ current' = d /\ conns[d].stage \in {"reading", "leaving"}
    BY <1>0, <1>1, WorkConn DEF Register, RegisterServed
  <2>2. \A c \in Conns : conns'[c].stage = conns[c].stage
    <3>1. CASE current = None
      BY <1>1, <3>1 DEF Register
    <3>2. CASE current # None
      <4>1. current \in Conns /\ conns' = [conns EXCEPT ![current] = Closed(@)]
        BY <1>1, <3>2 DEF Register, TypeOK
      <4> QED
        BY <4>1, ClosedStage
    <3> QED
      BY <3>1, <3>2
  <2>3. work'[Manager].op # "register" /\ \A w \in Workers : w # Manager => work'[w] = work[w]
    BY <1>0, <1>1, Moves, RestIsIdle DEF Register
  <2>4. RegisterServed'
    BY <1>0, <2>2, <2>3, ServedKept
  <2>5. DeadSocketIsReported'
    BY <2>1, <2>2 DEF DeadSocketIsReported
  <2> QED
    BY <2>4, <2>5
<1>2. ASSUME NEW d \in Conns, HandOff(d)
      PROVE  DeadInv'
  <2>1. work[Manager].op = "rest" /\ work[Manager] # [op |-> "unregister", conn |-> None]
    BY <1>2, RestIsIdle DEF HandOff
  <2>2. work'[Manager] = [op |-> "register", conn |-> d]
         /\ \A w \in Workers : w # Manager => work'[w] = work[w]
    BY <1>0, <1>2, Moves DEF HandOff
  <2>3. \A c \in Conns : conns'[c].stage = IF c = d THEN "reading" ELSE conns[c].stage
    BY <1>2 DEF HandOff, TypeOK, Conn
  <2>4. RegisterServed'
    <3> SUFFICES ASSUME NEW v \in Workers, work'[v].op = "register"
                 PROVE  v = Manager /\ conns'[work'[v].conn].stage \in {"reading", "leaving"}
      BY DEF RegisterServed
    <3>1. CASE v = Manager
      BY <2>2, <2>3, <3>1
    <3>2. CASE v # Manager
      BY <2>2, <3>2 DEF RegisterServed
    <3> QED
      BY <3>1, <3>2
  <2>5. ASSUME NEW c \in Conns, current' = c, conns'[c].stage \notin {"reading", "leaving"}
        PROVE  Reporting(c)'
    <3>1. PICK w \in Workers : work[w] = [op |-> "unregister", conn |-> c]
      BY <1>2, <2>3, <2>5 DEF HandOff, DeadSocketIsReported
    <3>2. w # Manager
      BY <2>1, <3>1
    <3> QED
      BY <2>2, <3>1, <3>2 DEF Reporting
  <2> QED
    BY <2>4, <2>5 DEF DeadSocketIsReported, Reporting
<1>3. ASSUME NEW d \in Conns, HandUnregister(d)
      PROVE  DeadInv'
  <2>1. work[Manager].op = "rest"
    BY <1>3, RestIsIdle DEF HandUnregister
  <2>2. work'[Manager] = [op |-> "unregister", conn |-> d]
         /\ \A w \in Workers : w # Manager => work'[w] = work[w]
    BY <1>0, <1>3, Moves DEF HandUnregister
  <2>3. \A c \in Conns : conns'[c].stage = IF c = d THEN "left" ELSE conns[c].stage
    BY <1>3 DEF HandUnregister, TypeOK, Conn
  <2>4. RegisterServed'
    <3> SUFFICES ASSUME NEW v \in Workers, work'[v].op = "register"
                 PROVE  FALSE
      BY DEF RegisterServed
    <3>1. v # Manager
      BY <2>2
    <3> QED
      BY <2>2, <3>1 DEF RegisterServed
  <2>5. ASSUME NEW c \in Conns, current' = c, conns'[c].stage \notin {"reading", "leaving"}
        PROVE  Reporting(c)'
    <3>1. CASE c = d
      BY <1>0, <2>2, <3>1 DEF Reporting
    <3>2. CASE c # d
      <4>1. PICK w \in Workers : work[w] = [op |-> "unregister", conn |-> c]
        BY <1>3, <2>3, <2>5, <3>2 DEF HandUnregister, DeadSocketIsReported
      <4>2. w # Manager
        BY <2>1, <4>1
      <4> QED
        BY <2>2, <4>1, <4>2 DEF Reporting
    <3> QED
      BY <3>1, <3>2
  <2> QED
    BY <2>4, <2>5 DEF DeadSocketIsReported, Reporting
<1>4. ASSUME NEW d \in Conns,
             ReaderReturns(d) \/ Connect(d) \/ ReadFails(d) \/ WriteFails(d)
      PROVE  DeadInv'
  <2>1. \A c \in Conns :
          conns'[c].stage \in {"reading", "leaving"} <=> conns[c].stage \in {"reading", "leaving"}
    <3>1. CASE ReaderReturns(d) \/ WriteFails(d)
      BY <3>1, ClosedStage DEF ReaderReturns, WriteFails
    <3>2. CASE Connect(d)
      BY <3>2 DEF Connect, TypeOK, Conn
    <3>3. CASE ReadFails(d)
      BY <3>3 DEF ReadFails, TypeOK, Conn
    <3> QED
      BY <1>4, <3>1, <3>2, <3>3
  <2>2. work' = work /\ current' = current
    BY <1>4 DEF ReaderReturns, Connect, ReadFails, WriteFails
  <2>3. \A w \in Workers : work[w].op = "register" => work[w].conn \in Conns
    BY WorkConn
  <2> QED
    BY <2>1, <2>2, <2>3 DEF RegisterServed, DeadSocketIsReported
<1> QED
  BY <1>1, <1>2, <1>3, <1>4

LEMMA DeadWorker ==
  ASSUME TypeOK, DeadInv, NEW w \in Workers,
         \/ Unregister(w) \/ MarkUnstable(w) \/ CloseConn(w)
         \/ /\ w \in Callers
            /\ \/ EnqueueNote(w) \/ DisconnectNode(w) \/ ServerClose(w)
               \/ SendToNode(w) \/ DeleteEdgeNode(w) \/ ListActiveJobs(w)
               \/ \E j \in Jobs : SettleActiveJob(w, j)
  PROVE  DeadInv'
<1> USE DEF kept, volatile, Do, Finish, DeadInv
<1> DEFINE Settles == ListActiveJobs(w) \/ \E j \in Jobs : SettleActiveJob(w, j)
<1>1. \A v \in Workers : v # w => work'[v] = work[v]
  <2>1. CASE Unregister(w)
    BY <2>1, Moves DEF Unregister
  <2>2. CASE MarkUnstable(w) \/ CloseConn(w) \/ DeleteEdgeNode(w) \/ SendToNode(w)
    BY <2>2, Moves DEF MarkUnstable, CloseConn, DeleteEdgeNode, SendToNode
  <2>3. CASE EnqueueNote(w) \/ DisconnectNode(w) \/ ServerClose(w)
    BY <2>3, Moves DEF EnqueueNote, DisconnectNode, ServerClose
  <2>4. CASE Settles
    BY <2>4, SettleSteps
  <2> QED
    BY <2>1, <2>2, <2>3, <2>4
<1>2. \A c \in Conns : conns'[c].stage = conns[c].stage
  <2>1. CASE Unregister(w) \/ MarkUnstable(w) \/ DeleteEdgeNode(w) \/ SendToNode(w)
             \/ DisconnectNode(w)
    BY <2>1 DEF Unregister, MarkUnstable, DeleteEdgeNode, SendToNode, DisconnectNode
  <2>2. CASE CloseConn(w)
    BY <2>2, WorkConn, ClosedStage DEF CloseConn
  <2>3. CASE EnqueueNote(w) \/ ServerClose(w)
    BY <2>3, WorkConn, NotedStage DEF EnqueueNote, ServerClose
  <2>4. CASE Settles
    BY <2>4 DEF ListActiveJobs, SettleActiveJob
  <2> QED
    BY <2>1, <2>2, <2>3, <2>4
<1>3. work'[w].op # "register"
  <2>1. CASE Unregister(w)
    BY <2>1, Moves DEF Unregister
  <2>2. CASE MarkUnstable(w) \/ SendToNode(w) \/ ServerClose(w)
    BY <2>2, Moves DEF MarkUnstable, SendToNode, ServerClose
  <2>3. CASE CloseConn(w) \/ DeleteEdgeNode(w)
    BY <2>3, Moves, RestIsIdle DEF CloseConn, DeleteEdgeNode
  <2>4. CASE EnqueueNote(w) \/ DisconnectNode(w)
    BY <2>4, Moves, RestIsIdle DEF EnqueueNote, DisconnectNode
  <2>5. CASE Settles
    BY <2>5, SettleSteps, SettlingParts
  <2> QED
    BY <2>1, <2>2, <2>3, <2>4, <2>5
<1>4. RegisterServed'
  BY <1>1, <1>2, <1>3, ServedKept
<1>5. ASSUME NEW c \in Conns, current' = c, conns'[c].stage \notin {"reading", "leaving"}
      PROVE  Reporting(c)'
  <2>1. current = c
    BY <1>5, LinkAssumption DEF Unregister, MarkUnstable, CloseConn, EnqueueNote,
                                DisconnectNode, ServerClose, SendToNode, DeleteEdgeNode,
                                ListActiveJobs, SettleActiveJob
  <2>2. PICK v \in Workers : work[v] = [op |-> "unregister", conn |-> c]
    BY <1>2, <1>5, <2>1 DEF DeadSocketIsReported
  <2>3. v # w
    <3>1. SUFFICES ASSUME v = w
                   PROVE  FALSE
      OBVIOUS
    <3>2. work[w].op = "unregister" /\ work[w].conn = c
      BY <2>2, <3>1
    <3>3. Unregister(w)
      BY <3>2, RestIsIdle, SettleSteps, SettlingParts DEF MarkUnstable, CloseConn, EnqueueNote, DisconnectNode,
                              ServerClose, SendToNode, DeleteEdgeNode
    <3> QED
      BY <1>5, <2>1, <3>2, <3>3, LinkAssumption DEF Unregister
  <2> QED
    BY <1>1, <2>2, <2>3 DEF Reporting
<1> QED
  BY <1>4, <1>5 DEF DeadSocketIsReported, Reporting

LEMMA DeadNext ==
  ASSUME TypeOK, DeadInv, [Next]_vars
  PROVE  DeadInv'
<1>1. CASE UNCHANGED vars
  BY <1>1 DEF vars, volatile, DeadInv, RegisterServed, DeadSocketIsReported
<1>2. CASE DispatchStep
  <2>1. LinkUntouched
    BY <1>2, DispatchLeavesLink
  <2>2. \A w \in Workers : work[w].op = "register" => work[w].conn \in Conns
    BY WorkConn
  <2> QED
    BY <2>1, <2>2 DEF LinkUntouched, DeadInv, RegisterServed, DeadSocketIsReported
<1>3. CASE Restart
  BY <1>3, RestIsIdle, LinkAssumption DEF Restart, DeadInv, RegisterServed, DeadSocketIsReported
<1> QED
  BY <1>1, <1>2, <1>3, SplitLink, DeadLink, DeadWorker DEF Workers

(* A socket that is open and read is the one the node's commands go to, or *)
(* someone is registering or closing it: whatever the order in which the   *)
(* manager and the API handlers get at the map, the late unregistration of *)
(* an old socket does not cost the node its new one.                       *)
THEOREM LiveStaysCurrent == Spec => []LiveSocketIsCurrent
<1>1. WaiterInv => TypeOK
  BY DEF WaiterInv
<1>2. TypeOK /\ LiveSocketIsCurrent /\ [Next]_vars => LiveSocketIsCurrent'
  BY LiveNext
<1> QED
  BY <1>1, <1>2, LiveInit, WaiterInvAlways, PTL DEF Spec

(* A socket whose read pump has ended and that is still in the map is one  *)
(* that somebody is about to take out of it.                               *)
THEOREM DeadIsReported == Spec => []DeadSocketIsReported
<1>1. WaiterInv => TypeOK
  BY DEF WaiterInv
<1>2. TypeOK /\ DeadInv /\ [Next]_vars => DeadInv'
  BY DeadNext
<1>3. DeadInv => DeadSocketIsReported
  BY DEF DeadInv
<1> QED
  BY <1>1, <1>2, <1>3, DeadInit, WaiterInvAlways, PTL DEF Spec

-----------------------------------------------------------------------------
(* What is under way belongs to a created job.                             *)

CreatedMsg == {m \in Msg : jobs[m.job] # "absent"}

MessagesCreated ==
  \A c \in Conns :
    conns[c].queue \in Seq(CreatedMsg \cup {Note}) /\ conns[c].wire \in Seq(CreatedMsg)

InboxCreated == \A j \in inbox : jobs[j] # "absent"

SendersCreated ==
  \A s \in Senders :
    /\ senders[s].stage \in {"lookup", "send", "wait", "record"} =>
         jobs[senders[s].job] # "absent"
    /\ \A j \in senders[s].todo : jobs[j] # "absent"

(* A job is admitted before its row is there.                              *)
Admitted ==
  \A s \in Senders : senders[s].stage = "admitted" => s \in Jobs /\ jobs[s] = "absent"

CreatedInv == MessagesCreated /\ InboxCreated /\ SendersCreated /\ Admitted

LEMMA OutcomeKnown ==
  ASSUME NEW status \in Statuses \ {"absent"},
         NEW err \in {"", "ack_timeout", "rejected", "undelivered"}
  PROVE  Outcome(status, err) \in Statuses \ {"absent"}
BY DEF Outcome, Statuses, Active, Queued, Immutable, Failures

(* The steps that leave the job rows alone.                                *)
LEMMA JobsUntouched ==
  ASSUME Next,
         ~ \E c \in Conns, j \in Jobs, status \in Reported : HandleJobUpdate(c, j, status),
         ~ \E j \in Jobs : CreateJob(j),
         ~ \E s \in Senders : Record(s),
         ~ \E w \in Callers, j \in Jobs : SettleActiveJob(w, j)
  PROVE  jobs' = jobs
<1> USE DEF kept, volatile
<1>1. CASE ManagerStep
  BY <1>1 DEF ManagerStep, Register, HandOff, HandUnregister
<1>2. ASSUME NEW w \in Workers, WorkerStep(w)
      PROVE  jobs' = jobs
  BY <1>2 DEF WorkerStep, Unregister, MarkUnstable, CloseConn
<1>3. ASSUME NEW w \in Callers, CallerStep(w)
      PROVE  jobs' = jobs
  BY <1>3 DEF CallerStep, EnqueueNote, ListActiveJobs, DisconnectNode, ServerClose
<1>4. ASSUME NEW c \in Conns, PumpStep(c)
      PROVE  jobs' = jobs
  BY <1>4 DEF PumpStep, ReaderReturns, Write, HandleAck
<1>5. ASSUME NEW s \in Senders, SenderStep(s)
      PROVE  jobs' = jobs
  BY <1>5 DEF SenderStep, Lookup, Send, Answered, TimeOut
<1>6. ASSUME NEW c \in Conns, ListQueued(c)
      PROVE  jobs' = jobs
  BY <1>6 DEF ListQueued
<1>7. CASE Environment
  <2>1. ASSUME NEW c \in Conns,
               \/ Connect(c) \/ ReadFails(c) \/ WriteFails(c) \/ Heartbeat(c)
               \/ \E status \in {"accepted", "rejected"} : EdgeTakes(c, status)
        PROVE  jobs' = jobs
    BY <2>1 DEF Connect, ReadFails, WriteFails, Heartbeat, EdgeTakes
  <2>2. ASSUME NEW j \in Jobs, AdmitJob(j)
        PROVE  jobs' = jobs
    BY <2>2 DEF AdmitJob
  <2>3. ASSUME NEW w \in Callers, SendToNode(w) \/ DeleteEdgeNode(w)
        PROVE  jobs' = jobs
    BY <2>3 DEF SendToNode, DeleteEdgeNode
  <2>4. CASE Restart
    BY <2>4 DEF Restart
  <2> QED
    BY <1>7, <2>1, <2>2, <2>3, <2>4 DEF Environment
<1> QED
  BY <1>1, <1>2, <1>3, <1>4, <1>5, <1>6, <1>7 DEF Next

(* A job row, once there, stays; and it comes with CreateJob only.         *)
LEMMA RowsStay ==
  ASSUME TypeOK, SenderShape, InboxCreated, SendersCreated, [Next]_vars
  PROVE  /\ \A j \in Jobs : jobs[j] # "absent" => jobs'[j] # "absent"
         /\ \A j \in Jobs : jobs[j] = "absent" => jobs'[j] = "absent" \/ CreateJob(j)
<1> DEFINE Rows == /\ \A j \in Jobs : jobs[j] # "absent" => jobs'[j] # "absent"
                   /\ \A j \in Jobs : jobs[j] = "absent" => jobs'[j] = "absent" \/ CreateJob(j)
<1>1. ASSUME jobs' = jobs
      PROVE  Rows
  BY <1>1
<1>2. ASSUME NEW c \in Conns, NEW k \in Jobs, NEW status \in Reported,
             HandleJobUpdate(c, k, status)
      PROVE  Rows
  <2>1. status # "absent" /\ jobs[k] # "absent"
    BY <1>2, LinkAssumption DEF HandleJobUpdate, InboxCreated
  <2> QED
    BY <1>2, <2>1 DEF HandleJobUpdate, TypeOK
<1>3. ASSUME NEW k \in Jobs, CreateJob(k)
      PROVE  Rows
  <2>1. \A j \in Jobs : jobs'[j] = IF j = k THEN "pending" ELSE jobs[j]
    BY <1>3 DEF CreateJob, TypeOK
  <2> QED
    BY <1>3, <2>1
<1>4. ASSUME NEW s \in Senders, Record(s)
      PROVE  Rows
  <2> DEFINE k == senders[s].job
  <2>1. k \in Jobs /\ jobs[k] # "absent" /\ senders[s] \in Sender
    BY <1>4, AtWork DEF Record, SenderShape, SendersCreated, TypeOK
  <2>2. Outcome(jobs[k], senders[s].err) # "absent"
    BY <2>1, OutcomeKnown DEF TypeOK, Sender
  <2> QED
    BY <1>4, <2>1, <2>2 DEF Record, TypeOK
<1>5. ASSUME NEW w \in Callers, NEW k \in Jobs, SettleActiveJob(w, k)
      PROVE  Rows
  BY <1>5 DEF SettleActiveJob, TypeOK
<1>6. ASSUME UNCHANGED vars
      PROVE  Rows
  BY <1>6 DEF vars, kept
<1> HIDE DEF Rows
<1>7. Rows
  BY <1>1, <1>2, <1>3, <1>4, <1>5, <1>6, JobsUntouched
<1> QED
  BY <1>7 DEF Rows

LEMMA SeqGrows ==
  ASSUME NEW S, NEW T, S \subseteq T, NEW q \in Seq(S)
  PROVE  q \in Seq(T)
OBVIOUS

LEMMA MessagesGrow ==
  ASSUME \A j \in Jobs : jobs[j] # "absent" => jobs'[j] # "absent"
  PROVE  /\ CreatedMsg \subseteq CreatedMsg'
         /\ \A q : q \in Seq(CreatedMsg \cup {Note}) => q \in Seq(CreatedMsg' \cup {Note})
         /\ \A q : q \in Seq(CreatedMsg) => q \in Seq(CreatedMsg')
<1>1. CreatedMsg \subseteq CreatedMsg'
  BY DEF CreatedMsg, Msg
<1>2. CreatedMsg \cup {Note} \subseteq CreatedMsg' \cup {Note}
  BY <1>1
<1> QED
  BY <1>1, <1>2, SeqGrows

(* The steps that put nothing new on a socket.                             *)
QueuesKept ==
  \A c \in Conns :
    /\ conns'[c].queue \in {conns[c].queue, Append(conns[c].queue, Note), <<>>}
    /\ conns'[c].wire \in {conns[c].wire, <<>>}

LEMMA ConnMessages ==
  ASSUME TypeOK, NEW c \in Conns, NEW k, conns' = [conns EXCEPT ![c] = k],
         k.queue \in {conns[c].queue, Append(conns[c].queue, Note), <<>>},
         k.wire \in {conns[c].wire, <<>>}
  PROVE  QueuesKept
BY DEF QueuesKept, TypeOK

LEMMA QueuesStay ==
  ASSUME TypeOK, SenderShape, Next,
         ~ \E c \in Conns : Write(c),
         ~ \E c \in Conns, status \in {"accepted", "rejected"} : EdgeTakes(c, status),
         ~ \E s \in Senders : Send(s)
  PROVE  QueuesKept
<1> USE DEF kept, volatile
<1>0. /\ \A k \in Conn : Closed(k).queue = <<>> /\ Closed(k).wire = k.wire
      /\ \A k \in Conn : Queue(k, Note).queue = Append(k.queue, Note) /\ Queue(k, Note).wire = k.wire
      /\ \A k \in Conn : Free.queue = <<>> /\ Free.wire = <<>>
  BY DEF Closed, Queue, Conn, Free
<1>1. ASSUME conns' = conns
      PROVE  QueuesKept
  BY <1>1 DEF QueuesKept
<1>2. ASSUME NEW c \in Conns, conns' = [conns EXCEPT ![c] = Closed(@)]
      PROVE  QueuesKept
  BY <1>0, <1>2, ConnMessages DEF TypeOK
<1>3. ASSUME NEW c \in Conns, conns' = [conns EXCEPT ![c] = Queue(@, Note)]
      PROVE  QueuesKept
  BY <1>0, <1>3, ConnMessages DEF TypeOK
<1>4. CASE Register
  <2>1. conns' = conns \/ (current \in Conns /\ conns' = [conns EXCEPT ![current] = Closed(@)])
    BY <1>4 DEF Register, TypeOK
  <2> QED
    BY <1>1, <1>2, <2>1
<1>5. ASSUME NEW c \in Conns, HandOff(c) \/ HandUnregister(c) \/ Connect(c) \/ ReadFails(c)
      PROVE  QueuesKept
  <2>1. CASE HandOff(c)
    BY <2>1 DEF HandOff, QueuesKept, TypeOK, Conn
  <2>2. CASE HandUnregister(c)
    BY <2>2 DEF HandUnregister, QueuesKept, TypeOK, Conn
  <2>3. CASE Connect(c)
    BY <2>3 DEF Connect, QueuesKept, TypeOK, Conn
  <2>4. CASE ReadFails(c)
    BY <2>4 DEF ReadFails, QueuesKept, TypeOK, Conn
  <2> QED
    BY <1>5, <2>1, <2>2, <2>3, <2>4
<1>6. ASSUME NEW c \in Conns, ReaderReturns(c) \/ WriteFails(c)
      PROVE  QueuesKept
  BY <1>2, <1>6 DEF ReaderReturns, WriteFails
<1>7. ASSUME NEW c \in Conns, NEW ack \in conns[c].acks, HandleAck(c, ack)
      PROVE  QueuesKept
  BY <1>7 DEF HandleAck, QueuesKept, TypeOK, Conn
<1>8. ASSUME NEW w \in Workers, WorkerStep(w)
      PROVE  QueuesKept
  <2>1. CASE Unregister(w) \/ MarkUnstable(w)
    BY <1>1, <2>1 DEF Unregister, MarkUnstable
  <2>2. CASE CloseConn(w)
    BY <1>2, <2>2, WorkConn DEF CloseConn
  <2> QED
    BY <1>8, <2>1, <2>2 DEF WorkerStep
<1>9. ASSUME NEW w \in Callers, CallerStep(w) \/ SendToNode(w) \/ DeleteEdgeNode(w)
      PROVE  QueuesKept
  <2>1. CASE EnqueueNote(w) \/ ServerClose(w)
    <3>1. work[w].conn \in Conns
      BY <2>1, WorkConn DEF EnqueueNote, ServerClose, Workers
    <3>2. conns' = conns \/ conns' = [conns EXCEPT ![work[w].conn] = Queue(@, Note)]
      BY <2>1 DEF EnqueueNote, ServerClose
    <3> QED
      BY <1>1, <1>3, <3>1, <3>2
  <2>2. CASE DisconnectNode(w) \/ SendToNode(w) \/ DeleteEdgeNode(w)
             \/ ListActiveJobs(w) \/ \E j \in Jobs : SettleActiveJob(w, j)
    BY <1>1, <2>2 DEF DisconnectNode, SendToNode, DeleteEdgeNode, ListActiveJobs,
                      SettleActiveJob
  <2> QED
    BY <1>9, <2>1, <2>2 DEF CallerStep
<1>10. ASSUME NEW s \in Senders, Lookup(s) \/ Record(s)
       PROVE  QueuesKept
  BY <1>1, <1>10 DEF Lookup, Record
<1>11. ASSUME NEW s \in Senders, Answered(s) \/ TimeOut(s)
       PROVE  QueuesKept
  <2>1. conns' = [conns EXCEPT ![senders[s].conn] =
                    [conns[senders[s].conn] EXCEPT !.pending = @ \ {MsgOf(s)}]]
    BY <1>11 DEF Answered, TimeOut, StopWaiting
  <2> QED
    BY <2>1 DEF QueuesKept, TypeOK, Conn
<1>12. ASSUME NEW c \in Conns,
              \/ ListQueued(c) \/ Heartbeat(c)
              \/ \E j \in Jobs, status \in Reported : HandleJobUpdate(c, j, status)
       PROVE  QueuesKept
  BY <1>1, <1>12 DEF ListQueued, Heartbeat, HandleJobUpdate
<1>13. ASSUME NEW j \in Jobs, AdmitJob(j) \/ CreateJob(j)
       PROVE  QueuesKept
  BY <1>1, <1>13 DEF AdmitJob, CreateJob
<1>14. CASE Restart
  BY <1>0, <1>14, FreeType DEF Restart, QueuesKept
<1>15. CASE ManagerStep
  BY <1>4, <1>5, <1>15 DEF ManagerStep
<1>16. ASSUME NEW c \in Conns, PumpStep(c)
       PROVE  QueuesKept
  BY <1>6, <1>7, <1>16 DEF PumpStep
<1>17. ASSUME NEW s \in Senders, SenderStep(s)
       PROVE  QueuesKept
  BY <1>10, <1>11, <1>17 DEF SenderStep
<1>18. CASE Environment
  BY <1>5, <1>6, <1>9, <1>12, <1>13, <1>14, <1>18 DEF Environment
<1> QED
  BY <1>8, <1>9, <1>12, <1>13, <1>15, <1>16, <1>17, <1>18 DEF Next

LEMMA MessagesNext ==
  ASSUME TypeOK, SenderShape, CreatedInv, [Next]_vars
  PROVE  MessagesCreated'
<1>1. \A j \in Jobs : jobs[j] # "absent" => jobs'[j] # "absent"
  BY RowsStay DEF CreatedInv
<1>2. /\ CreatedMsg \subseteq CreatedMsg'
      /\ \A q : q \in Seq(CreatedMsg \cup {Note}) => q \in Seq(CreatedMsg' \cup {Note})
      /\ \A q : q \in Seq(CreatedMsg) => q \in Seq(CreatedMsg')
  BY <1>1, MessagesGrow
<1>3. \A c \in Conns : /\ conns[c].queue \in Seq(CreatedMsg \cup {Note})
                       /\ conns[c].wire \in Seq(CreatedMsg)
  BY DEF CreatedInv, MessagesCreated
<1> SUFFICES ASSUME NEW c \in Conns
             PROVE  /\ conns'[c].queue \in Seq(CreatedMsg' \cup {Note})
                    /\ conns'[c].wire \in Seq(CreatedMsg')
  BY DEF MessagesCreated
<1>4. CASE UNCHANGED vars
  BY <1>2, <1>3, <1>4 DEF vars, volatile
<1>5. ASSUME NEW d \in Conns, Write(d)
      PROVE  /\ conns'[c].queue \in Seq(CreatedMsg \cup {Note})
             /\ conns'[c].wire \in Seq(CreatedMsg)
  <2>1. CASE c = d
    <3> DEFINE m == Head(conns[d].queue)
    <3>1. conns[d].queue # <<>> /\ conns[d].queue \in Seq(CreatedMsg \cup {Note})
      BY <1>3, <1>5 DEF Write
    <3>2. m \in CreatedMsg \cup {Note} /\ Tail(conns[d].queue) \in Seq(CreatedMsg \cup {Note})
      BY <3>1
    <3>3. conns'[c].queue = Tail(conns[d].queue)
          /\ conns'[c].wire = IF m = Note THEN conns[d].wire ELSE Append(conns[d].wire, m)
      BY <1>5, <2>1 DEF Write, TypeOK, Conn
    <3>4. m # Note => Append(conns[d].wire, m) \in Seq(CreatedMsg)
      BY <1>3, <3>2
    <3> QED
      BY <1>3, <3>2, <3>3, <3>4
  <2>2. CASE c # d
    BY <1>3, <1>5, <2>2 DEF Write, TypeOK
  <2> QED
    BY <2>1, <2>2
<1>6. ASSUME NEW d \in Conns, NEW status \in {"accepted", "rejected"}, EdgeTakes(d, status)
      PROVE  /\ conns'[c].queue \in Seq(CreatedMsg \cup {Note})
             /\ conns'[c].wire \in Seq(CreatedMsg)
  <2>1. CASE c = d
    <3>1. conns[d].wire # <<>> /\ conns[d].wire \in Seq(CreatedMsg)
      BY <1>3, <1>6 DEF EdgeTakes
    <3>2. Tail(conns[d].wire) \in Seq(CreatedMsg)
      BY <3>1
    <3>3. conns'[c].queue = conns[c].queue /\ conns'[c].wire = Tail(conns[d].wire)
      BY <1>6, <2>1 DEF EdgeTakes, TypeOK, Conn
    <3> QED
      BY <1>3, <3>2, <3>3
  <2>2. CASE c # d
    BY <1>3, <1>6, <2>2 DEF EdgeTakes, TypeOK
  <2> QED
    BY <2>1, <2>2
<1>7. ASSUME NEW s \in Senders, Send(s)
      PROVE  /\ conns'[c].queue \in Seq(CreatedMsg \cup {Note})
             /\ conns'[c].wire \in Seq(CreatedMsg)
  <2>1. MsgOf(s) \in CreatedMsg
    <3>1. MsgOf(s) \in Msg /\ MsgOf(s).job = senders[s].job
      BY <1>7, MsgType DEF Send, SenderShape, MsgOf
    <3>2. jobs[senders[s].job] # "absent"
      BY <1>7 DEF Send, CreatedInv, SendersCreated
    <3> QED
      BY <3>1, <3>2 DEF CreatedMsg
  <2>2. Append(conns[c].queue, MsgOf(s)) \in Seq(CreatedMsg \cup {Note})
    BY <1>3, <2>1
  <2>3. Expect(conns[c], MsgOf(s)).queue = Append(conns[c].queue, MsgOf(s))
         /\ Expect(conns[c], MsgOf(s)).wire = conns[c].wire
    BY DEF Expect, TypeOK, Conn
  <2>4. conns'[c] = conns[c] \/ conns'[c] = Expect(conns[c], MsgOf(s))
    BY <1>7 DEF Send, TypeOK
  <2> QED
    BY <1>3, <2>2, <2>3, <2>4
<1>8. CASE QueuesKept
  <2>1. Append(conns[c].queue, Note) \in Seq(CreatedMsg \cup {Note})
    BY <1>3
  <2>2. <<>> \in Seq(CreatedMsg \cup {Note}) /\ <<>> \in Seq(CreatedMsg)
    BY NoMessage
  <2>3. conns'[c].queue \in Seq(CreatedMsg \cup {Note}) /\ conns'[c].wire \in Seq(CreatedMsg)
    BY <1>3, <1>8, <2>1, <2>2 DEF QueuesKept
  <2> QED
    BY <1>2, <2>3
<1> QED
  BY <1>2, <1>4, <1>5, <1>6, <1>7, <1>8, QueuesStay

(* Only the Edge changes its inbox.                                        *)
LEMMA InboxStays ==
  ASSUME [Next]_vars,
         ~ \E c \in Conns : EdgeTakes(c, "accepted")
  PROVE  inbox' = inbox
<1> USE DEF kept, volatile
<1>1. CASE ManagerStep
  BY <1>1 DEF ManagerStep, Register, HandOff, HandUnregister
<1>2. ASSUME NEW w \in Workers, WorkerStep(w)
      PROVE  inbox' = inbox
  BY <1>2 DEF WorkerStep, Unregister, MarkUnstable, CloseConn
<1>3. ASSUME NEW w \in Callers, CallerStep(w)
      PROVE  inbox' = inbox
  BY <1>3 DEF CallerStep, EnqueueNote, ListActiveJobs, DisconnectNode, ServerClose,
              SettleActiveJob
<1>4. ASSUME NEW c \in Conns, PumpStep(c)
      PROVE  inbox' = inbox
  BY <1>4 DEF PumpStep, ReaderReturns, Write, HandleAck
<1>5. ASSUME NEW s \in Senders, SenderStep(s)
      PROVE  inbox' = inbox
  BY <1>5 DEF SenderStep, Lookup, Send, Answered, TimeOut, Record
<1>6. ASSUME NEW c \in Conns, ListQueued(c)
      PROVE  inbox' = inbox
  BY <1>6 DEF ListQueued
<1>7. ASSUME NEW j \in Jobs, CreateJob(j)
      PROVE  inbox' = inbox
  BY <1>7 DEF CreateJob
<1>8. CASE Environment
  <2>1. ASSUME NEW c \in Conns,
               \/ Connect(c) \/ ReadFails(c) \/ WriteFails(c) \/ Heartbeat(c)
               \/ EdgeTakes(c, "rejected")
               \/ \E j \in Jobs, status \in Reported : HandleJobUpdate(c, j, status)
        PROVE  inbox' = inbox
    BY <2>1 DEF Connect, ReadFails, WriteFails, Heartbeat, EdgeTakes, HandleJobUpdate
  <2>2. ASSUME NEW j \in Jobs, AdmitJob(j)
        PROVE  inbox' = inbox
    BY <2>2 DEF AdmitJob
  <2>3. ASSUME NEW w \in Callers, SendToNode(w) \/ DeleteEdgeNode(w)
        PROVE  inbox' = inbox
    BY <2>3 DEF SendToNode, DeleteEdgeNode
  <2>4. CASE Restart
    BY <2>4 DEF Restart
  <2> QED
    BY <1>8, <2>1, <2>2, <2>3, <2>4 DEF Environment
<1>9. CASE UNCHANGED vars
  BY <1>9 DEF vars
<1> QED
  BY <1>1, <1>2, <1>3, <1>4, <1>5, <1>6, <1>7, <1>8, <1>9 DEF Next

(* What the Edge takes in was on the wire, for a job that exists.          *)
LEMMA Taken ==
  ASSUME TypeOK, MessagesCreated, NEW c \in Conns, NEW status, EdgeTakes(c, status)
  PROVE  LET m == Head(conns[c].wire)
         IN  /\ m \in CreatedMsg /\ m.job \in Jobs /\ jobs[m.job] # "absent"
             /\ status = "accepted" => inbox' = inbox \cup {m.job}
             /\ status # "accepted" => inbox' = inbox
             /\ jobs' = jobs
<1>1. conns[c].wire # <<>> /\ conns[c].wire \in Seq(CreatedMsg)
  BY DEF EdgeTakes, MessagesCreated
<1>2. Head(conns[c].wire) \in CreatedMsg
  BY <1>1
<1> QED
  BY <1>2 DEF CreatedMsg, Msg, EdgeTakes

LEMMA InboxGrows ==
  ASSUME TypeOK, MessagesCreated, [Next]_vars
  PROVE  inbox \subseteq inbox'
<1>1. ASSUME NEW c \in Conns, EdgeTakes(c, "accepted")
      PROVE  inbox \subseteq inbox'
  BY <1>1, Taken
<1> QED
  BY <1>1, InboxStays

LEMMA InboxNext ==
  ASSUME TypeOK, SenderShape, CreatedInv, [Next]_vars
  PROVE  InboxCreated'
<1>1. \A j \in Jobs : jobs[j] # "absent" => jobs'[j] # "absent"
  BY RowsStay DEF CreatedInv
<1>2. inbox \subseteq Jobs /\ InboxCreated
  BY DEF TypeOK, CreatedInv
<1>3. ASSUME NEW c \in Conns, EdgeTakes(c, "accepted")
      PROVE  InboxCreated'
  BY <1>2, <1>3, Taken DEF CreatedInv, InboxCreated
<1>4. CASE inbox' = inbox
  BY <1>1, <1>2, <1>4 DEF InboxCreated
<1> QED
  BY <1>3, <1>4, InboxStays

(* An acknowledgement changes nothing of a dispatch but its answer.        *)
LEMMA AckEffect ==
  ASSUME TypeOK, WaitersAreWaiting, NEW c \in Conns, NEW ack \in conns[c].acks,
         HandleAck(c, ack)
  PROVE  \A s \in Senders :
           /\ Keeps(s, {"stage", "todo", "job", "attempt", "conn", "err"})
           /\ \/ senders'[s].answer = senders[s].answer
              \/ /\ senders'[s].answer = ack.status
                 /\ senders[s].stage = "wait" /\ senders[s].job = ack.msg.job
<1> USE DEF Keeps
<1> DEFINE t == ack.msg.sender
<1>1. CASE ack.msg \notin conns[c].pending
  BY <1>1 DEF HandleAck
<1>2. CASE ack.msg \in conns[c].pending
  <2>1. t \in Senders /\ senders[t].stage = "wait" /\ ack.msg = MsgOf(t)
    BY <1>2, Waiter
  <2>2. senders[t] \in Sender /\ senders[t].job = ack.msg.job
    BY <2>1, AtWork DEF TypeOK, MsgOf
  <2>3. senders' = [senders EXCEPT ![t] = [senders[t] EXCEPT !.answer = ack.status]]
    BY <1>2 DEF HandleAck
  <2>4. \A s \in Senders : s # t => senders'[s] = senders[s]
    BY <2>3 DEF TypeOK
  <2>5. senders'[t] = [senders[t] EXCEPT !.answer = ack.status]
    BY <2>1, <2>3 DEF TypeOK
  <2>6. Keeps(t, {"stage", "todo", "job", "attempt", "conn", "err"})
         /\ senders'[t].answer = ack.status
    BY <2>2, <2>5 DEF Sender
  <2> QED
    BY <2>1, <2>2, <2>4, <2>6
<1> QED
  BY <1>1, <1>2

LEMMA OffParts == /\ Off.stage = "off" /\ Off.todo = {} /\ Off.answer = "" /\ Off.err = ""
BY DEF Off

SenderCreated(d, rows) ==
  /\ d.stage \in {"lookup", "send", "wait", "record"} => rows[d.job] # "absent"
  /\ \A j \in d.todo : rows[j] # "absent"

LEMMA DispatchesCreated ==
  ASSUME NEW todo, NEW d \in Dispatches(todo), NEW rows, \A j \in todo : rows[j] # "absent"
  PROVE  SenderCreated(d, rows)
<1>1. CASE d = Off
  BY <1>1, OffParts DEF SenderCreated
<1>2. CASE d # Off
  <2>1. d.job \in todo /\ d.todo = todo \ {d.job}
    BY <1>2, DispatchesStage
  <2> QED
    BY <2>1 DEF SenderCreated
<1> QED
  BY <1>1, <1>2

LEMMA SendersCreatedNext ==
  ASSUME WaiterInv, CreatedInv, [Next]_vars
  PROVE  SendersCreated'
<1> USE DEF WaiterInv, CreatedInv
<1>1. \A j \in Jobs : jobs[j] # "absent" => jobs'[j] # "absent"
  BY RowsStay
<1>2. ASSUME NEW s \in Senders
      PROVE  /\ senders[s].stage \in {"lookup", "send", "wait", "record"} =>
                  senders[s].job \in Jobs
             /\ senders[s].todo \subseteq Jobs
             /\ SenderCreated(senders[s], jobs)
  <2>1. senders[s].todo \subseteq Jobs
    BY OffParts DEF TypeOK, Sender
  <2> QED
    BY <2>1 DEF SenderShape, SendersCreated, SenderCreated
<1>3. ASSUME NEW s \in Senders, Keeps(s, {"stage", "todo", "job"})
      PROVE  SenderCreated(senders'[s], jobs')
  BY <1>1, <1>2, <1>3 DEF Keeps, SenderCreated
<1> SUFFICES ASSUME NEW s \in Senders
             PROVE  SenderCreated(senders'[s], jobs')
  BY DEF SendersCreated, SenderCreated
<1>4. CASE senders' = senders
  BY <1>3, <1>4 DEF Keeps
<1>5. CASE StartStep
  <2>1. PICK t \in Senders :
          /\ \A r \in Senders : r # t => senders'[r] = senders[r]
          /\ \/ senders' = senders
             \/ /\ senders'[t].stage \in {"admitted", "list"}
                /\ senders[t] = Off /\ Keeps(t, {"todo", "job", "attempt", "conn", "answer", "err"})
             \/ \E todo \in SUBSET Jobs : /\ senders'[t] \in Dispatches(todo)
                                          /\ \A j \in todo : jobs'[j] # "absent"
    BY <1>5, Starts
  <2>2. CASE s # t
    BY <1>3, <2>1, <2>2 DEF Keeps
  <2>3. CASE s = t
    <3>1. CASE senders' = senders
      BY <1>4, <3>1
    <3>2. CASE senders'[t].stage \in {"admitted", "list"} /\ senders'[t].todo = senders[t].todo
      BY <1>1, <1>2, <2>3, <3>2 DEF SenderCreated
    <3>3. CASE \E todo \in SUBSET Jobs : /\ senders'[t] \in Dispatches(todo)
                                         /\ \A j \in todo : jobs'[j] # "absent"
      BY <2>3, <3>3, DispatchesCreated
    <3> QED
      BY <2>1, <3>1, <3>2, <3>3 DEF Keeps
  <2> QED
    BY <2>2, <2>3
<1>6. ASSUME NEW c \in Conns, NEW ack \in conns[c].acks, HandleAck(c, ack)
      PROVE  SenderCreated(senders'[s], jobs')
  BY <1>3, <1>6, AckEffect DEF Keeps
<1>7. ASSUME NEW t \in Senders, SenderStep(t)
      PROVE  SenderCreated(senders'[s], jobs')
  <2>1. CASE s # t
    BY <1>3, <1>7, <2>1, SenderEffect DEF Keeps
  <2>2. CASE s = t
    <3>1. senders[s] \in Sender /\ senders[s].stage \in {"lookup", "send", "wait", "record"}
      BY <1>7, <2>2, Dispatching
    <3>2. Keeps(s, {"todo", "job"}) \/ senders'[s] \in Dispatches(senders[s].todo)
      BY <1>7, <2>2, <3>1, SenderAfter DEF SenderStep, Keeps
    <3>3. CASE Keeps(s, {"todo", "job"})
      BY <1>1, <1>2, <3>1, <3>3 DEF Keeps, SenderCreated
    <3>4. CASE senders'[s] \in Dispatches(senders[s].todo)
      <4>1. \A j \in senders[s].todo : jobs'[j] # "absent"
        BY <1>1, <1>2 DEF SenderCreated
      <4> QED
        BY <3>4, <4>1, DispatchesCreated
    <3> QED
      BY <3>2, <3>3, <3>4
  <2> QED
    BY <2>1, <2>2
<1>8. CASE Restart
  BY <1>8, OffParts DEF Restart, SenderCreated
<1>9. CASE UNCHANGED vars
  BY <1>4, <1>9 DEF vars, volatile
<1>10. CASE CalmStep
  BY <1>4, <1>10, CalmSteps DEF Calm
<1> QED
  BY <1>5, <1>6, <1>7, <1>8, <1>9, <1>10, SplitNext DEF StartStep

LEMMA AdmittedNext ==
  ASSUME WaiterInv, CreatedInv, [Next]_vars
  PROVE  Admitted'
<1> USE DEF WaiterInv, CreatedInv
<1>1. \A j \in Jobs : jobs[j] = "absent" => jobs'[j] = "absent" \/ CreateJob(j)
  BY RowsStay
<1> SUFFICES ASSUME NEW s \in Senders, senders'[s].stage = "admitted"
             PROVE  s \in Jobs /\ jobs'[s] = "absent"
  BY DEF Admitted
<1>2. ASSUME NEW j \in Jobs, CreateJob(j)
      PROVE  s # j
  <2>1. senders'[j] \in Dispatches({j})
    BY <1>2 DEF CreateJob, TypeOK, Senders
  <2>2. senders'[j] = Off \/ senders'[j].stage = "lookup"
    BY <2>1, DispatchesStage
  <2> QED
    BY <2>2, OffStage
<1>3. CASE senders[s].stage = "admitted"
  BY <1>1, <1>2, <1>3 DEF Admitted
<1>4. CASE senders[s].stage # "admitted"
  <2>1. CASE StartStep
    <3>1. ASSUME NEW c \in Conns, HandOff(c) \/ ListQueued(c)
          PROVE  FALSE
      <4>1. \A t \in Senders : t # c => senders'[t] = senders[t]
        BY <3>1 DEF HandOff, ListQueued, TypeOK, Senders
      <4>2. CASE HandOff(c)
        <5>1. senders[c] = Off
          BY <4>2 DEF HandOff, Unserved
        <5>2. senders' = senders \/ senders'[c] = [Off EXCEPT !.stage = "list"]
          BY <4>2, <5>1 DEF HandOff, TypeOK, Senders
        <5>3. [Off EXCEPT !.stage = "list"].stage = "list"
          BY DEF Off
        <5> QED
          BY <1>4, <4>1, <5>2, <5>3
      <4>3. CASE ListQueued(c)
        <5>1. \E todo : senders'[c] \in Dispatches(todo)
          <6>1. PICK d \in Dispatches({j \in Jobs : jobs[j] \in Queued}) :
                  senders' = [senders EXCEPT ![c] = d]
            BY <4>3 DEF ListQueued
          <6> QED
            BY <6>1 DEF TypeOK, Senders
        <5>2. senders'[c] = Off \/ senders'[c].stage = "lookup"
          BY <5>1, DispatchesStage
        <5> QED
          BY <1>4, <4>1, <5>2, OffStage
      <4> QED
        BY <3>1, <4>2, <4>3
    <3>2. ASSUME NEW j \in Jobs, AdmitJob(j)
          PROVE  s \in Jobs /\ jobs'[s] = "absent"
      <4>1. s = j
        BY <1>4, <3>2 DEF AdmitJob, TypeOK, Senders
      <4> QED
        BY <3>2, <4>1 DEF AdmitJob, kept
    <3>3. ASSUME NEW j \in Jobs, CreateJob(j)
          PROVE  FALSE
      <4>1. s # j
        BY <1>2, <3>3
      <4> QED
        BY <1>4, <3>3, <4>1 DEF CreateJob, TypeOK, Senders
    <3> QED
      BY <2>1, <3>1, <3>2, <3>3 DEF StartStep
  <2>2. ASSUME NEW c \in Conns, NEW ack \in conns[c].acks, HandleAck(c, ack)
        PROVE  FALSE
    BY <1>4, <2>2, AckEffect DEF Keeps
  <2>3. ASSUME NEW t \in Senders, SenderStep(t)
        PROVE  FALSE
    <3>1. s = t
      BY <1>4, <2>3, SenderEffect
    <3>2. senders[s] \in Sender
      BY <2>3, <3>1, Dispatching
    <3>3. \/ senders'[s].stage \in {"lookup", "send", "wait", "record"}
          \/ senders'[s] \in Dispatches(senders[s].todo)
      BY <2>3, <3>1, <3>2, SenderAfter DEF SenderStep
    <3>4. ASSUME senders'[s] \in Dispatches(senders[s].todo)
          PROVE  senders'[s] = Off \/ senders'[s].stage = "lookup"
      BY <3>4, DispatchesStage
    <3> QED
      BY <3>3, <3>4, OffStage
  <2>4. CASE Restart
    BY <2>4, OffStage DEF Restart
  <2>5. CASE CalmStep
    BY <1>4, <2>5, CalmSteps DEF Calm
  <2>6. CASE UNCHANGED vars
    BY <1>4, <2>6 DEF vars, volatile
  <2> QED
    BY <2>1, <2>2, <2>3, <2>4, <2>5, <2>6, SplitNext DEF StartStep
<1> QED
  BY <1>3, <1>4

LEMMA CreatedInit == Init => CreatedInv
<1> SUFFICES ASSUME Init
             PROVE  CreatedInv
  OBVIOUS
<1>1. \A c \in Conns : conns[c].queue = <<>> /\ conns[c].wire = <<>>
  BY DEF Init, Free
<1>2. MessagesCreated
  BY <1>1, NoMessage DEF MessagesCreated
<1>3. SendersCreated /\ Admitted
  BY OffParts DEF Init, SendersCreated, Admitted
<1> QED
  BY <1>2, <1>3 DEF Init, CreatedInv, InboxCreated

-----------------------------------------------------------------------------
(* What a dispatch believes of the Edge is true.                           *)

AcksTold ==
  \A c \in Conns : \A ack \in conns[c].acks :
    ack.status = "accepted" => ack.msg.job \in inbox

AnswersTold ==
  \A s \in Senders :
    /\ senders[s].answer = "accepted" => senders[s].job \in inbox
    /\ senders[s].stage = "record" /\ senders[s].err = "" => senders[s].job \in inbox

ToldInv == AcksTold /\ AnswersTold

LEMMA ToldInit == Init => ToldInv
<1> SUFFICES ASSUME Init
             PROVE  ToldInv
  OBVIOUS
<1>1. \A c \in Conns : conns[c].acks = {}
  BY DEF Init, Free
<1>2. \A s \in Senders : senders[s].answer = "" /\ senders[s].stage = "off"
  BY OffParts DEF Init
<1> QED
  BY <1>1, <1>2 DEF ToldInv, AcksTold, AnswersTold

(* Only the Edge puts an acknowledgement on a socket.                      *)
LEMMA AcksStay ==
  ASSUME TypeOK, SenderShape, Next,
         ~ \E c \in Conns, status \in {"accepted", "rejected"} : EdgeTakes(c, status)
  PROVE  \A c \in Conns : conns'[c].acks \subseteq conns[c].acks
<1> DEFINE Fewer == \A c \in Conns : conns'[c].acks \subseteq conns[c].acks
<1> USE DEF kept, volatile
<1>0. /\ \A k \in Conn : Closed(k).acks = k.acks /\ Queue(k, Note).acks = k.acks
      /\ \A k \in Conn, s \in Senders : Expect(k, MsgOf(s)).acks = k.acks
      /\ Free.acks = {}
  BY DEF Closed, Queue, Expect, Conn, Free
<1>1. ASSUME conns' = conns
      PROVE  Fewer
  BY <1>1
<1>2. ASSUME NEW c \in Conns, conns' = [conns EXCEPT ![c] = Closed(@)]
      PROVE  Fewer
  BY <1>0, <1>2 DEF TypeOK
<1>3. ASSUME NEW c \in Conns, conns' = [conns EXCEPT ![c] = Queue(@, Note)]
      PROVE  Fewer
  BY <1>0, <1>3 DEF TypeOK
<1> HIDE DEF Fewer
<1>4. ASSUME Register
      PROVE  Fewer
  <2>1. conns' = conns \/ (current \in Conns /\ conns' = [conns EXCEPT ![current] = Closed(@)])
    BY <1>4 DEF Register, TypeOK
  <2> QED
    BY <1>1, <1>2, <2>1
<1>5. ASSUME NEW c \in Conns, HandOff(c) \/ HandUnregister(c) \/ Connect(c) \/ ReadFails(c)
      PROVE  Fewer
  <2>1. CASE HandOff(c)
    BY <2>1 DEF HandOff, Fewer, TypeOK, Conn
  <2>2. CASE HandUnregister(c)
    BY <2>2 DEF HandUnregister, Fewer, TypeOK, Conn
  <2>3. CASE Connect(c)
    BY <2>3 DEF Connect, Fewer, TypeOK, Conn
  <2>4. CASE ReadFails(c)
    BY <2>4 DEF ReadFails, Fewer, TypeOK, Conn
  <2> QED
    BY <1>5, <2>1, <2>2, <2>3, <2>4
<1>6. ASSUME NEW c \in Conns, ReaderReturns(c) \/ WriteFails(c)
      PROVE  Fewer
  BY <1>2, <1>6 DEF ReaderReturns, WriteFails
<1>7. ASSUME NEW c \in Conns, NEW ack \in conns[c].acks, HandleAck(c, ack)
      PROVE  Fewer
  BY <1>7 DEF HandleAck, Fewer, TypeOK, Conn
<1>8. ASSUME NEW c \in Conns, Write(c)
      PROVE  Fewer
  BY <1>8 DEF Write, Fewer, TypeOK, Conn
<1>9. ASSUME NEW w \in Workers, WorkerStep(w)
      PROVE  Fewer
  <2>1. CASE Unregister(w) \/ MarkUnstable(w)
    BY <1>1, <2>1 DEF Unregister, MarkUnstable
  <2>2. CASE CloseConn(w)
    BY <1>2, <2>2, WorkConn DEF CloseConn
  <2> QED
    BY <1>9, <2>1, <2>2 DEF WorkerStep
<1>10. ASSUME NEW w \in Callers, CallerStep(w) \/ SendToNode(w) \/ DeleteEdgeNode(w)
      PROVE  Fewer
  <2>1. CASE EnqueueNote(w) \/ ServerClose(w)
    <3>1. work[w].conn \in Conns
      BY <2>1, WorkConn DEF EnqueueNote, ServerClose, Workers
    <3>2. conns' = conns \/ conns' = [conns EXCEPT ![work[w].conn] = Queue(@, Note)]
      BY <2>1 DEF EnqueueNote, ServerClose
    <3> QED
      BY <1>1, <1>3, <3>1, <3>2
  <2>2. CASE DisconnectNode(w) \/ SendToNode(w) \/ DeleteEdgeNode(w)
             \/ ListActiveJobs(w) \/ \E j \in Jobs : SettleActiveJob(w, j)
    BY <1>1, <2>2 DEF DisconnectNode, SendToNode, DeleteEdgeNode, ListActiveJobs,
                      SettleActiveJob
  <2> QED
    BY <1>10, <2>1, <2>2 DEF CallerStep
<1>11. ASSUME NEW s \in Senders, SenderStep(s)
       PROVE  Fewer
  <2>1. CASE Lookup(s) \/ Record(s)
    BY <1>1, <2>1 DEF Lookup, Record
  <2>2. CASE Send(s)
    <3>1. conns' = conns \/ conns' = [conns EXCEPT ![senders[s].conn] = Expect(@, MsgOf(s))]
      BY <2>2 DEF Send
    <3>2. senders[s].conn \in Conns
      BY <2>2 DEF Send, SenderShape
    <3> QED
      BY <1>0, <1>1, <3>1, <3>2 DEF Fewer, TypeOK
  <2>3. CASE Answered(s) \/ TimeOut(s)
    <3>1. conns' = [conns EXCEPT ![senders[s].conn] =
                      [conns[senders[s].conn] EXCEPT !.pending = @ \ {MsgOf(s)}]]
      BY <2>3 DEF Answered, TimeOut, StopWaiting
    <3> QED
      BY <3>1 DEF Fewer, TypeOK, Conn
  <2> QED
    BY <1>11, <2>1, <2>2, <2>3 DEF SenderStep
<1>12. ASSUME NEW c \in Conns,
              \/ ListQueued(c) \/ Heartbeat(c)
              \/ \E j \in Jobs, status \in Reported : HandleJobUpdate(c, j, status)
       PROVE  Fewer
  BY <1>1, <1>12 DEF ListQueued, Heartbeat, HandleJobUpdate
<1>13. ASSUME NEW j \in Jobs, AdmitJob(j) \/ CreateJob(j)
       PROVE  Fewer
  BY <1>1, <1>13 DEF AdmitJob, CreateJob
<1>14. ASSUME Restart
       PROVE  Fewer
  BY <1>0, <1>14 DEF Restart, Fewer
<1>15. ASSUME ManagerStep
       PROVE  Fewer
  BY <1>4, <1>5, <1>15 DEF ManagerStep
<1>16. ASSUME NEW c \in Conns, PumpStep(c)
       PROVE  Fewer
  BY <1>6, <1>7, <1>8, <1>16 DEF PumpStep
<1>17. ASSUME Environment
       PROVE  Fewer
  BY <1>5, <1>6, <1>10, <1>12, <1>13, <1>14, <1>17 DEF Environment
<1>18. Fewer
  BY <1>9, <1>10, <1>11, <1>12, <1>13, <1>15, <1>16, <1>17 DEF Next
<1> QED
  BY <1>18 DEF Fewer

LEMMA AcksToldNext ==
  ASSUME WaiterInv, CreatedInv, ToldInv, [Next]_vars
  PROVE  AcksTold'
<1> USE DEF WaiterInv, CreatedInv, ToldInv
<1>1. inbox \subseteq inbox'
  BY InboxGrows
<1>2. ASSUME \A c \in Conns : conns'[c].acks \subseteq conns[c].acks
      PROVE  AcksTold'
  BY <1>1, <1>2 DEF AcksTold
<1>3. ASSUME NEW c \in Conns, NEW status \in {"accepted", "rejected"}, EdgeTakes(c, status)
      PROVE  AcksTold'
  <2> DEFINE m == Head(conns[c].wire)
  <2>1. status = "accepted" => m.job \in inbox'
    BY <1>3, Taken
  <2>2. \A d \in Conns : d # c => conns'[d].acks = conns[d].acks
    BY <1>3 DEF EdgeTakes, TypeOK
  <2>3. conns'[c].acks \subseteq conns[c].acks \cup {[msg |-> m, status |-> status]}
    BY <1>3 DEF EdgeTakes, TypeOK, Conn
  <2> HIDE DEF m
  <2>4. \A ack \in {[msg |-> m, status |-> status]} :
          ack.status = status /\ ack.msg = m
    OBVIOUS
  <2> QED
    BY <1>1, <2>1, <2>2, <2>3, <2>4 DEF AcksTold
<1>4. ASSUME UNCHANGED vars
      PROVE  AcksTold'
  BY <1>4 DEF vars, kept, volatile, AcksTold
<1> QED
  BY <1>2, <1>3, <1>4, AcksStay

Told(d, box) ==
  /\ d.answer = "accepted" => d.job \in box
  /\ d.stage = "record" /\ d.err = "" => d.job \in box

LEMMA DispatchesTold ==
  ASSUME NEW todo, NEW d \in Dispatches(todo), NEW box
  PROVE  Told(d, box)
<1>1. d.answer = "" /\ d.stage # "record"
  BY DispatchesStage, OffParts
<1> QED
  BY <1>1 DEF Told

LEMMA AnswersToldNext ==
  ASSUME WaiterInv, CreatedInv, ToldInv, [Next]_vars
  PROVE  AnswersTold'
<1> USE DEF WaiterInv, CreatedInv, ToldInv
<1>1. inbox \subseteq inbox'
  BY InboxGrows
<1> SUFFICES ASSUME NEW s \in Senders
             PROVE  Told(senders'[s], inbox')
  BY DEF AnswersTold, Told
<1>2. Told(senders[s], inbox)
  BY DEF AnswersTold, Told
<1>3. CASE senders'[s] = senders[s]
  BY <1>1, <1>2, <1>3 DEF Told
<1>4. CASE StartStep
  <2>1. PICK t \in Senders :
          /\ \A r \in Senders : r # t => senders'[r] = senders[r]
          /\ \/ senders' = senders
             \/ /\ senders'[t].stage \in {"admitted", "list"}
                /\ senders[t] = Off /\ Keeps(t, {"todo", "job", "attempt", "conn", "answer", "err"})
             \/ \E todo \in SUBSET Jobs : senders'[t] \in Dispatches(todo)
    BY <1>4, Starts
  <2>2. CASE senders'[t].stage \in {"admitted", "list"} /\ senders'[t].answer = ""
    BY <1>3, <2>1, <2>2 DEF Told
  <2>3. CASE \E todo \in SUBSET Jobs : senders'[t] \in Dispatches(todo)
    BY <1>3, <2>1, <2>3, DispatchesTold
  <2> QED
    BY <1>3, <2>1, <2>2, <2>3, OffParts DEF Keeps
<1>5. ASSUME NEW c \in Conns, NEW ack \in conns[c].acks, HandleAck(c, ack)
      PROVE  Told(senders'[s], inbox')
  <2>1. ack.status = "accepted" => ack.msg.job \in inbox
    BY DEF AcksTold
  <2>2. /\ Keeps(s, {"stage", "job", "err"})
        /\ \/ senders'[s].answer = senders[s].answer
           \/ /\ senders'[s].answer = ack.status
              /\ senders[s].stage = "wait" /\ senders[s].job = ack.msg.job
    BY <1>5, AckEffect DEF Keeps
  <2> QED
    BY <1>1, <1>2, <2>1, <2>2 DEF Told, Keeps
<1>6. ASSUME NEW t \in Senders, SenderStep(t)
      PROVE  Told(senders'[s], inbox')
  <2>1. CASE s # t
    BY <1>3, <1>6, <2>1, SenderEffect
  <2>2. CASE s = t
    <3>1. senders[s] \in Sender
      BY <1>6, <2>2, Dispatching
    <3> USE <1>1, <1>2, <3>1, SenderAfter DEF Told, Keeps
    <3>2. CASE Lookup(s)
      BY <3>2
    <3>3. CASE Send(s)
      BY <3>3
    <3>4. CASE Answered(s)
      BY <3>4
    <3>5. CASE TimeOut(s)
      BY <3>5
    <3>6. CASE Record(s)
      BY <3>6, DispatchesTold
    <3> QED
      BY <1>6, <2>2, <3>2, <3>3, <3>4, <3>5, <3>6 DEF SenderStep
  <2> QED
    BY <2>1, <2>2
<1>7. CASE Restart
  BY <1>7, OffParts DEF Restart, Told
<1>8. CASE UNCHANGED vars
  BY <1>3, <1>8 DEF vars, volatile
<1>9. CASE CalmStep
  BY <1>3, <1>9, CalmSteps DEF Calm
<1> QED
  BY <1>4, <1>5, <1>6, <1>7, <1>8, <1>9, SplitNext DEF StartStep

-----------------------------------------------------------------------------
(* The dispatch implements DispatchPromise.                                *)

LinkInv == WaiterInv /\ CreatedInv /\ ToldInv

LEMMA LinkInvInit == Init => LinkInv
BY WaiterInvInit, CreatedInit, ToldInit DEF LinkInv

LEMMA LinkInvNext == LinkInv /\ [Next]_vars => LinkInv'
<1> SUFFICES ASSUME LinkInv, [Next]_vars
             PROVE  LinkInv'
  OBVIOUS
<1>1. WaiterInv'
  BY WaiterInvNext DEF LinkInv
<1>2. CreatedInv'
  <2>1. MessagesCreated' /\ InboxCreated'
    BY MessagesNext, InboxNext DEF LinkInv, WaiterInv
  <2>2. SendersCreated' /\ Admitted'
    BY SendersCreatedNext, AdmittedNext DEF LinkInv
  <2> QED
    BY <2>1, <2>2 DEF CreatedInv
<1>3. ToldInv'
  BY AcksToldNext, AnswersToldNext DEF LinkInv, ToldInv
<1> QED
  BY <1>1, <1>2, <1>3 DEF LinkInv

LEMMA LinkInvAlways == Spec => []LinkInv
BY LinkInvInit, LinkInvNext, PTL DEF Spec

LEMMA OpenStatuses ==
  ASSUME NEW status \in Statuses
  PROVE  status \notin Immutable /\ status # "absent" => status \in Promise!Open
BY DEF Statuses, Immutable, Failures, Active, Queued, Promise!Open, Promise!Queued

LEMMA RecordPromise ==
  ASSUME LinkInv, NEW s \in Senders, Record(s)
  PROVE  Promise!Next \/ UNCHANGED <<jobs, inbox>>
<1> USE DEF LinkInv, WaiterInv, CreatedInv, ToldInv
<1> DEFINE j == senders[s].job
           err == senders[s].err
<1>1. /\ j \in Jobs /\ jobs[j] \in Statuses /\ jobs[j] # "absent"
      /\ err \in {"", "ack_timeout", "rejected", "undelivered"}
  <2>1. senders[s] \in Sender
    BY AtWork DEF Record, TypeOK
  <2> QED
    BY <2>1 DEF Record, SenderShape, SendersCreated, TypeOK, Sender
<1>2. /\ senders[s].stage = "record" /\ inbox' = inbox
      /\ jobs' = [jobs EXCEPT ![j] = Outcome(jobs[j], err)]
  BY DEF Record
<1>3. err = "" => j \in inbox
  BY <1>2 DEF AnswersTold
<1>4. CASE Outcome(jobs[j], err) = jobs[j]
  BY <1>1, <1>2, <1>4 DEF TypeOK
<1>5. CASE err = "" /\ jobs[j] = "pending"
  <2>1. Promise!Acknowledge(j)
    BY <1>1, <1>2, <1>3, <1>5 DEF Outcome, Promise!Acknowledge, Promise!Move
  <2> QED
    BY <1>1, <2>1 DEF Promise!Next
<1>6. CASE err = "ack_timeout" /\ jobs[j] = "pending"
  <2>1. Promise!Doubt(j)
    BY <1>1, <1>2, <1>6 DEF Outcome, Promise!Doubt, Promise!Move
  <2> QED
    BY <1>1, <2>1 DEF Promise!Next
<1>7. CASE err \in {"rejected", "undelivered"} /\ jobs[j] \notin Immutable
  <2>1. Outcome(jobs[j], err) = err
    BY <1>7 DEF Outcome
  <2>2. Promise!Fail(j, err)
    BY <1>1, <1>2, <1>7, <2>1, OpenStatuses DEF Promise!Fail, Promise!Move
  <2> QED
    BY <1>1, <1>7, <2>2 DEF Promise!Next, Promise!Failures
<1>8. \/ Outcome(jobs[j], err) = jobs[j]
      \/ err = "" /\ jobs[j] = "pending"
      \/ err = "ack_timeout" /\ jobs[j] = "pending"
      \/ err \in {"rejected", "undelivered"} /\ jobs[j] \notin Immutable
  BY <1>1 DEF Outcome
<1> QED
  BY <1>4, <1>5, <1>6, <1>7, <1>8

LEMMA StepPromise ==
  ASSUME LinkInv, [Next]_vars
  PROVE  [Promise!Next]_<<jobs, inbox>>
<1> USE DEF LinkInv, WaiterInv, CreatedInv, ToldInv
<1>1. CASE UNCHANGED vars
  BY <1>1 DEF vars, kept
<1>2. ASSUME NEW c \in Conns, NEW j \in Jobs, NEW status \in Reported,
             HandleJobUpdate(c, j, status)
      PROVE  Promise!Next
  <2>1. /\ j \in inbox /\ jobs[j] \in Statuses /\ jobs[j] \notin Immutable /\ inbox' = inbox
        /\ jobs' = [jobs EXCEPT ![j] = status]
    BY <1>2 DEF HandleJobUpdate, TypeOK
  <2>2. jobs[j] # "absent"
    BY <2>1 DEF InboxCreated
  <2>3. Promise!Report(j, status) /\ Promise!Fail(j, status)
    BY <2>1, <2>2, OpenStatuses DEF Promise!Report, Promise!Fail, Promise!Move
  <2>4. status \in {"processing", "completed", "failed"}
    BY LinkAssumption
  <2> QED
    BY <2>3, <2>4 DEF Promise!Next, Promise!Failures
<1>3. ASSUME NEW j \in Jobs, CreateJob(j)
      PROVE  Promise!Next
  <2>1. jobs[j] = "absent"
    BY <1>3 DEF CreateJob, Admitted, Senders
  <2>2. Promise!Create(j)
    BY <1>3, <2>1 DEF CreateJob, Promise!Create, Promise!Move
  <2> QED
    BY <2>2 DEF Promise!Next
<1>4. ASSUME NEW s \in Senders, Record(s)
      PROVE  [Promise!Next]_<<jobs, inbox>>
  BY <1>4, RecordPromise
<1>5. ASSUME NEW w \in Callers, NEW j \in Jobs, SettleActiveJob(w, j)
      PROVE  [Promise!Next]_<<jobs, inbox>>
  <2>1. jobs[j] \in Statuses /\ inbox' = inbox
    BY <1>5 DEF SettleActiveJob, TypeOK
  <2>2. CASE jobs[j] \in Immutable \cup {"absent"}
    BY <1>5, <2>1, <2>2 DEF SettleActiveJob, TypeOK
  <2>3. CASE jobs[j] \notin Immutable \cup {"absent"}
    <3>1. jobs' = [jobs EXCEPT ![j] = "failed"] /\ jobs[j] \in Promise!Open
      BY <1>5, <2>1, <2>3, OpenStatuses DEF SettleActiveJob
    <3>2. Promise!Fail(j, "failed")
      BY <2>1, <3>1 DEF Promise!Fail, Promise!Move
    <3> QED
      BY <3>2 DEF Promise!Next, Promise!Failures
  <2> QED
    BY <2>2, <2>3
<1>6. ASSUME NEW c \in Conns, EdgeTakes(c, "accepted")
      PROVE  Promise!Next
  <2> DEFINE j == Head(conns[c].wire).job
  <2>1. j \in Jobs /\ jobs[j] # "absent" /\ inbox' = inbox \cup {j} /\ jobs' = jobs
    BY <1>6, Taken
  <2>2. Promise!Deliver(j)
    BY <2>1 DEF Promise!Deliver
  <2> QED
    BY <2>1, <2>2 DEF Promise!Next
<1>7. CASE jobs' = jobs /\ inbox' = inbox
  BY <1>7
<1> QED
  BY <1>1, <1>2, <1>3, <1>4, <1>5, <1>6, <1>7, JobsUntouched, InboxStays

(* Whatever the interleaving of dispatches, redispatches, acknowledgements,*)
(* timeouts, closed sockets and restarts, and for any number of them: a    *)
(* job counts as dispatched only if the Edge has it, as doubtful only from *)
(* pending, and a closed job stays as it was closed.                       *)
THEOREM LinkKeepsPromise == Spec => KeepsPromise
<1>1. Init => Promise!Init
  BY DEF Init, Promise!Init
<1>2. LinkInv /\ [Next]_vars => [Promise!Next]_<<jobs, inbox>>
  BY StepPromise
<1> QED
  BY <1>1, <1>2, LinkInvAlways, PTL DEF Spec, KeepsPromise, Promise!Spec
=============================================================================
