--------------------------- MODULE TerminalEntry ----------------------------
(***************************************************************************)
(* The credential chain of one terminal: the QR code on its screen (T1),   *)
(* the browser that scanned it (lease, then T2), the portal it was handed  *)
(* to (T3), the login completed there, and the claim the Edge redeems.     *)
(* The chain is a row of entry_sessions bound to the terminal session and  *)
(* QR generation that the Edge reported when the QR was issued.            *)
(*                                                                         *)
(* Statements that commit on their own are steps of their own: the three   *)
(* of a session report, the snapshot read before a chain is issued, the    *)
(* reservation of a T1 and the mask command that follows it.  A login is   *)
(* one transaction whose first statement locks the chain and checks the    *)
(* session, and whose later ones bind the user; the session row is not     *)
(* locked in between.  Rows of different terminals never meet.             *)
(***************************************************************************)
EXTENDS Integers, Sequences, FiniteSets

CONSTANTS
  Sessions,     \* terminal session ids the Edge makes up
  Generations,  \* QR generations; they are only compared
  Entries,      \* ids of entry_sessions rows, drawn in the order of issue
  MaxAttempts,  \* bound: portal attempts of one chain
  Users,        \* Cloud users that portal identities are mapped to
  Loops,        \* read loops of the terminal's sockets (an old and a new one)
  Faults,       \* what goes wrong: a failed read, a failed write, a restart
  None          \* no session, no user, no row

Live == {"qr_issued", "mask_pending", "entry_active", "claim_pending"}

EntryStatuses == Live \cup {"redeemed", "invalidated"}

OpenAttempt == {"issued", "opened"}

ASSUME EntryConstants ==
  /\ Entries \subseteq Nat
  /\ MaxAttempts \in Nat
  /\ Faults \subseteq {"read", "write", "restart"}
  /\ None \notin Sessions /\ None \notin Users /\ None \notin Generations

VARIABLES
  session,      \* the terminal's row of edge_terminal_sessions
  entries,      \* entry_sessions, with the portal attempts of each
  loops,        \* what each read loop is doing
  dispatching,  \* chains whose T1 is reserved and whose mask is not yet sent
  commands,     \* chains whose terminal_mask command has been queued
  login         \* chains locked by a login transaction, and its user

vars == <<session, entries, loops, dispatching, commands, login>>

(* attempts[v] is the status of the portal attempt of version v, and the   *)
(* length is portal_attempt_version.  user is the cloud_user_id that the   *)
(* claim's ready event names.                                              *)
EntryRow == [session: Sessions, generation: Generations, status: EntryStatuses,
             masked: BOOLEAN, user: Users \cup {None},
             attempts: Seq(OpenAttempt \cup {"superseded", "completed"})]

NoEntry == [session |-> None, generation |-> None, status |-> "absent",
            masked |-> FALSE, user |-> None, attempts |-> <<>>]

IdleLoop == [at |-> "idle", session |-> None, generation |-> None]

Issued(e) == entries[e] # NoEntry

IsLive(e) == entries[e].status \in Live

Newer(e) == {f \in Entries : Issued(f) /\ f > e}

Init ==
  /\ session = [id |-> None, generation |-> None, user |-> None]
  /\ entries = [e \in Entries |-> NoEntry]
  /\ loops = [l \in Loops |-> IdleLoop]
  /\ dispatching = {}
  /\ commands = {}
  /\ login = [e \in Entries |-> None]

-----------------------------------------------------------------------------
(* Rows of entry_sessions.                                                 *)

Locked(e) == login[e] # None

(* Mutant: a claim that waits to be redeemed outlives its chain.           *)
Invalidated_KeepsClaim(rows) ==
  [e \in Entries |-> IF rows[e].status \in Live \ {"claim_pending"}
                     THEN [rows[e] EXCEPT !.status = "invalidated"] ELSE rows[e]]

(* Mutant: the status the terminal tickets use, which the table refuses.   *)
Invalidated_Cancelled(rows) ==
  [e \in Entries |-> IF rows[e].status \in Live
                     THEN [rows[e] EXCEPT !.status = "cancelled"] ELSE rows[e]]

(* What InvalidateForNode and Issue leave of the terminal's chains.        *)
Invalidated(rows) ==
  [e \in Entries |-> IF rows[e].status \in Live
                     THEN [rows[e] EXCEPT !.status = "invalidated"] ELSE rows[e]]

(* The update waits for the row locks of the rows it changes.              *)
InvalidateForNode ==
  /\ \A e \in Entries : IsLive(e) => ~Locked(e)
  /\ entries' = Invalidated(entries)

(* A failed invalidation is logged or ignored, and the handler goes on.    *)
TryInvalidate == InvalidateForNode \/ ("write" \in Faults /\ UNCHANGED entries)

-----------------------------------------------------------------------------
(* handleTerminalSessionState: read, invalidate if the session id changed, *)
(* store.  A failed read counts as a change.  The empty session a          *)
(* restarted Edge reports is None.                                         *)

ReceiveSessionState(l, s, g) ==
  /\ loops[l] = IdleLoop
  /\ \E changed \in {s # session.id} \cup (IF "read" \in Faults THEN {TRUE} ELSE {}) :
       loops' = [loops EXCEPT ![l] = [at |-> IF changed THEN "refresh" ELSE "store",
                                      session |-> s, generation |-> g]]
  /\ UNCHANGED <<session, entries, dispatching, commands, login>>

RefreshEntries(l) ==
  /\ loops[l].at = "refresh"
  /\ TryInvalidate
  /\ loops' = [loops EXCEPT ![l].at = "store"]
  /\ UNCHANGED <<session, dispatching, commands, login>>

(* ReportWithGeneration; the user and portal columns keep their values.    *)
StoreSession(l) ==
  /\ loops[l].at = "store"
  /\ \/ session' = [session EXCEPT !.id = loops[l].session,
                                   !.generation = loops[l].generation]
     \/ "write" \in Faults /\ UNCHANGED session
  /\ loops' = [loops EXCEPT ![l] = IdleLoop]
  /\ UNCHANGED <<entries, dispatching, commands, login>>

-----------------------------------------------------------------------------
(* handleRequestEntryTicket: a snapshot is read and compared with the      *)
(* requested generation; Issue compares it again under the row lock.  The  *)
(* printer check and the request errors change nothing.                    *)

ReceiveTicketRequest(l) ==
  /\ loops[l] = IdleLoop
  /\ session.id # None
  /\ session.generation \in Generations
  /\ loops' = [loops EXCEPT ![l] = [at |-> "issue", session |-> session.id,
                                    generation |-> session.generation]]
  /\ UNCHANGED <<session, entries, dispatching, commands, login>>

IsCurrent(row, s, g) == row.id = s /\ row.generation = g

Issue(l, e) ==
  /\ loops[l].at = "issue"
  /\ IsCurrent(session, loops[l].session, loops[l].generation)
  /\ ~Issued(e) /\ Newer(e) = {}
  /\ \A f \in Entries : IsLive(f) => ~Locked(f)
  /\ entries' = [Invalidated(entries) EXCEPT ![e] =
       [session |-> loops[l].session, generation |-> loops[l].generation,
        status |-> "qr_issued", masked |-> FALSE, user |-> None, attempts |-> <<>>]]
  /\ loops' = [loops EXCEPT ![l] = IdleLoop]
  /\ UNCHANGED <<session, dispatching, commands, login>>

(* The session moved on, the write failed, or the database broke the       *)
(* deadlock of this transaction with a login (see FinishLogin).            *)
RefuseIssue(l) ==
  /\ loops[l].at = "issue"
  /\ \/ ~IsCurrent(session, loops[l].session, loops[l].generation)
     \/ "write" \in Faults
     \/ \E e \in Entries : Locked(e)
  /\ loops' = [loops EXCEPT ![l] = IdleLoop]
  /\ UNCHANGED <<session, entries, dispatching, commands, login>>

-----------------------------------------------------------------------------
(* The browser.  A step that finds its chain expired does nothing; since   *)
(* any step may be late for ever, expiry times are not modelled.           *)

Acquire(e) ==
  /\ entries[e].status = "qr_issued"
  /\ entries' = [entries EXCEPT ![e].status = "mask_pending"]
  /\ dispatching' = dispatching \cup {e}
  /\ UNCHANGED <<session, loops, commands, login>>

DispatchMask(e) ==
  /\ e \in dispatching
  /\ dispatching' = dispatching \ {e}
  /\ commands' = commands \cup {e}
  /\ UNCHANGED <<session, entries, loops, login>>

(* The terminal is not connected or its queue is full.                     *)
DispatchMaskFails(e) ==
  /\ e \in dispatching
  /\ dispatching' = dispatching \ {e}
  /\ TryInvalidate
  /\ UNCHANGED <<session, loops, commands, login>>

(* MarkMasked: terminal_masked names the command of the chain.  It may be  *)
(* repeated, and late.                                                     *)
MarkMasked(e) ==
  /\ e \in commands
  /\ entries[e].status = "mask_pending"
  /\ entries' = [entries EXCEPT ![e].masked = TRUE]
  /\ UNCHANGED <<session, loops, dispatching, commands, login>>

(* EntryStatus: the lease becomes T2 once the screen is masked.            *)
Activate(e) ==
  /\ entries[e].status = "mask_pending"
  /\ entries[e].masked
  /\ entries' = [entries EXCEPT ![e].status = "entry_active"]
  /\ UNCHANGED <<session, loops, dispatching, commands, login>>

(* Mutant: an earlier attempt stays open beside the new one.               *)
Superseded_None(attempts) == attempts

Superseded(attempts) ==
  [v \in DOMAIN attempts |->
     IF attempts[v] \in OpenAttempt THEN "superseded" ELSE attempts[v]]

CreateAttempt(e) ==
  /\ entries[e].status = "entry_active"
  /\ ~Locked(e)
  /\ Len(entries[e].attempts) < MaxAttempts
  /\ entries' = [entries EXCEPT ![e].attempts = Append(Superseded(@), "issued")]
  /\ UNCHANGED <<session, loops, dispatching, commands, login>>

ConsumeT3(e, v) ==
  /\ entries[e].status = "entry_active"
  /\ ~Locked(e)
  /\ v = Len(entries[e].attempts) /\ v > 0
  /\ entries[e].attempts[v] = "issued"
  /\ entries' = [entries EXCEPT ![e].attempts[v] = "opened"]
  /\ UNCHANGED <<session, loops, dispatching, commands, login>>

-----------------------------------------------------------------------------
(* CompleteLogin.  The first statement joins the attempt, its chain and    *)
(* the session row and locks the first two.                                *)

LockLogin(e, u) ==
  LET row == entries[e]
      v   == Len(row.attempts)
  IN  /\ row.status = "entry_active"
      /\ ~Locked(e)
      /\ v > 0
      /\ row.attempts[v] = "opened"
      /\ IsCurrent(session, row.session, row.generation)
      /\ login' = [login EXCEPT ![e] = u]
      /\ UNCHANGED <<session, entries, loops, dispatching, commands>>

(* Mutant: the user is bound to whatever session the terminal has now.     *)
Bindable_AnySession(e) == TRUE

Bindable(e) == session.id = entries[e].session

(* The session row is updated only if it still has the chain's session id. *)
FinishLogin(e) ==
  /\ Locked(e)
  /\ Bindable(e)
  /\ session' = [session EXCEPT !.user = login[e]]
  /\ entries' = [entries EXCEPT
       ![e].status = "claim_pending",
       ![e].user = login[e],
       ![e].attempts = [@ EXCEPT ![Len(@)] = "completed"]]
  /\ login' = [login EXCEPT ![e] = None]
  /\ UNCHANGED <<loops, dispatching, commands>>

(* A later statement fails: the session changed, the user is disabled, a   *)
(* database error, or the loser of a deadlock with Issue, which locks the  *)
(* session row first and the chains second.                                *)
AbortLogin(e) ==
  /\ Locked(e)
  /\ login' = [login EXCEPT ![e] = None]
  /\ UNCHANGED <<session, entries, loops, dispatching, commands>>

(* Mutant: a claim of a replaced chain is still accepted.                  *)
ValidateClaim_AnyStatus(e) ==
  /\ entries[e].user # None
  /\ ~Locked(e)
  /\ entries' = [entries EXCEPT ![e].status = "redeemed"]
  /\ UNCHANGED <<session, loops, dispatching, commands, login>>

(* The Edge redeems the claim through the Portal.  The second statement    *)
(* dates the claim row; the chain's status alone decides.                  *)
ValidateClaim(e) ==
  /\ entries[e].status = "claim_pending"
  /\ ~Locked(e)
  /\ entries' = [entries EXCEPT ![e].status = "redeemed"]
  /\ UNCHANGED <<session, loops, dispatching, commands, login>>

Restart ==
  /\ "restart" \in Faults
  /\ loops' = [l \in Loops |-> IdleLoop]
  /\ dispatching' = {}
  /\ login' = [e \in Entries |-> None]
  /\ UNCHANGED <<session, entries, commands>>

LoopStep(l) ==
  \/ \E s \in Sessions \cup {None}, g \in Generations : ReceiveSessionState(l, s, g)
  \/ RefreshEntries(l)
  \/ StoreSession(l)
  \/ ReceiveTicketRequest(l)
  \/ \E e \in Entries : Issue(l, e)
  \/ RefuseIssue(l)

EntryStep(e) ==
  \/ Acquire(e)
  \/ DispatchMask(e)
  \/ DispatchMaskFails(e)
  \/ MarkMasked(e)
  \/ Activate(e)
  \/ CreateAttempt(e)
  \/ \E v \in 1..MaxAttempts : ConsumeT3(e, v)
  \/ \E u \in Users : LockLogin(e, u)
  \/ FinishLogin(e)
  \/ AbortLogin(e)
  \/ ValidateClaim(e)

Next ==
  \/ \E l \in Loops : LoopStep(l)
  \/ \E e \in Entries : EntryStep(e)
  \/ Restart

Spec == Init /\ [][Next]_vars

-----------------------------------------------------------------------------
(* Properties.                                                             *)

TypeOK ==
  /\ session \in [id: Sessions \cup {None}, generation: Generations \cup {None},
                  user: Users \cup {None}]
  /\ entries \in [Entries -> EntryRow \cup {NoEntry}]
  /\ loops \in [Loops -> [at: {"idle", "refresh", "store", "issue"},
                          session: Sessions \cup {None},
                          generation: Generations \cup {None}]]
  /\ dispatching \subseteq Entries
  /\ commands \subseteq Entries
  /\ login \in [Entries -> Users \cup {None}]

(* A terminal has at most one live chain, and it is the one issued last:   *)
(* whatever reports, refreshes and logins overlap, a QR that was replaced  *)
(* on the screen opens nothing.                                            *)
OneLiveChain == \A e \in Entries : IsLive(e) => Newer(e) = {}

(* A QR refresh and a later step of the chain it replaced never both       *)
(* succeed: once a newer chain is issued the old one does not move, not    *)
(* even in a login or a claim validation already under way.                *)
RefreshEndsChain ==
  [][\A e \in Entries : Issued(e) /\ Newer(e) # {} => entries'[e] = entries[e]]_vars

(* Only the newest portal attempt of a chain can be open, and a chain is   *)
(* past its login exactly by the completion of that newest attempt: coming *)
(* back to the portal list invalidates a late callback.                    *)
OneOpenAttempt ==
  \A e \in Entries :
    LET row == entries[e]
        n   == Len(row.attempts)
    IN  /\ \A v \in 1..n : row.attempts[v] \in OpenAttempt \cup {"completed"} => v = n
        /\ row.status \in {"claim_pending", "redeemed"} =>
             n > 0 /\ row.attempts[n] = "completed"
        /\ row.user # None <=> (n > 0 /\ row.attempts[n] = "completed")

(* The user a waiting claim was issued to is the user the terminal session *)
(* is bound to: the claim and the print authorizations agree on whose      *)
(* prints they are.                                                        *)
ClaimNamesBoundUser ==
  \A e \in Entries : entries[e].status = "claim_pending" => session.user = entries[e].user

(* A login binds its user to the terminal session its chain belongs to.    *)
LoginBindsOwnSession ==
  [][\A e \in Entries :
       entries[e].user = None /\ entries'[e].user # None
       => session'.id = entries[e].session]_vars

(* Entry sessions are the parent of every capability of the QR flow: the   *)
(* user that prints of a terminal session are charged to (Authorize takes  *)
(* it from the session row) logged in through a chain of that very         *)
(* session.  (Does not hold; see the README.)                              *)
BoundUserLoggedIn ==
  session.id # None /\ session.user # None =>
    \E e \in Entries : entries[e].session = session.id /\ entries[e].user = session.user
=============================================================================
