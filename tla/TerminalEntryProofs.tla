------------------------ MODULE TerminalEntryProofs -------------------------
(***************************************************************************)
(* Proofs about TerminalEntry, for any number of sessions, generations,    *)
(* chains, portal attempts, users and read loops.                          *)
(***************************************************************************)
EXTENDS TerminalEntry, SequenceTheorems, TLAPS

AttemptStatuses == OpenAttempt \cup {"superseded", "completed"}

(* What a row says about its own attempts; OneOpenAttempt is that for all  *)
(* rows.  A chain that has not been logged in has no user yet, which is    *)
(* what lets a new attempt be opened on it.                                *)
AttemptsOK(row) ==
  LET n == Len(row.attempts)
  IN  /\ \A v \in 1..n : row.attempts[v] \in OpenAttempt \cup {"completed"} => v = n
      /\ row.status \in {"claim_pending", "redeemed"} =>
           n > 0 /\ row.attempts[n] = "completed"
      /\ row.user # None <=> (n > 0 /\ row.attempts[n] = "completed")

Unlogged(row) ==
  row.status \in {"qr_issued", "mask_pending", "entry_active"} => row.user = None

RowOK(row) == AttemptsOK(row) /\ Unlogged(row)

(* A chain that a login holds locked stays as the login found it.          *)
LockedIsOpened ==
  \A e \in Entries : Locked(e) =>
    LET n == Len(entries[e].attempts)
    IN  entries[e].status = "entry_active" /\ n > 0 /\ entries[e].attempts[n] = "opened"

(* A read loop issues a chain for a real session.                          *)
IssuesForSession ==
  \A l \in Loops : loops[l].at = "issue" =>
    loops[l].session \in Sessions /\ loops[l].generation \in Generations

IInv ==
  /\ TypeOK
  /\ IssuesForSession
  /\ \A e \in Entries : RowOK(entries[e])
  /\ LockedIsOpened
  /\ OneLiveChain
  /\ ClaimNamesBoundUser

-----------------------------------------------------------------------------
(* Rows.                                                                   *)

LEMMA IssuedRow ==
  ASSUME TypeOK, NEW e \in Entries
  PROVE  /\ Issued(e) => entries[e] \in EntryRow
         /\ ~Issued(e) => entries[e].status = "absent" /\ entries[e].user = None
         /\ IsLive(e) => Issued(e)
         /\ entries[e].status # "absent" => entries[e] \in EntryRow
BY DEF TypeOK, Issued, IsLive, NoEntry, Live

LEMMA RealRow ==
  ASSUME NEW row \in EntryRow
  PROVE  row # NoEntry
BY DEF EntryRow, NoEntry, EntryStatuses, Live

(* A change of status, of the mask or of the user leaves a row a row.      *)
LEMMA RowChange ==
  ASSUME NEW row \in EntryRow, NEW status \in EntryStatuses
  PROVE  /\ [row EXCEPT !.status = status] \in EntryRow
         /\ [row EXCEPT !.masked = TRUE] \in EntryRow
BY DEF EntryRow

LEMMA AttemptsOf ==
  ASSUME NEW row \in EntryRow
  PROVE  /\ row.attempts \in Seq(AttemptStatuses)
         /\ Len(row.attempts) \in Nat
         /\ DOMAIN row.attempts = 1..Len(row.attempts)
         /\ \A v \in 1..Len(row.attempts) : row.attempts[v] \in AttemptStatuses
<1>1. row.attempts \in Seq(AttemptStatuses)
  BY DEF EntryRow, AttemptStatuses
<1> QED
  BY <1>1, LenProperties, ElementOfSeq

(* What Invalidated leaves of a row.                                       *)
LEMMA InvalidatedRow ==
  ASSUME IInv, NEW e \in Entries, NEW q, q = Invalidated(entries)[e]
  PROVE  /\ q \in EntryRow \cup {NoEntry}
         /\ q.status \notin Live
         /\ q = NoEntry <=> ~Issued(e)
         /\ ~IsLive(e) => q = entries[e]
         /\ IsLive(e) => q = [entries[e] EXCEPT !.status = "invalidated"]
         /\ q.user = entries[e].user
         /\ RowOK(q)
<1>1. CASE IsLive(e)
  <2>1. q = [entries[e] EXCEPT !.status = "invalidated"]
    BY <1>1 DEF Invalidated, IsLive
  <2>2. entries[e] \in EntryRow
    BY <1>1, IssuedRow DEF IInv
  <2>3. /\ q \in EntryRow /\ q.status = "invalidated"
        /\ q.user = entries[e].user /\ q.attempts = entries[e].attempts
    BY <2>1, <2>2, RowChange DEF EntryRow, EntryStatuses
  <2>4. RowOK(q)
    BY <2>3 DEF IInv, RowOK, AttemptsOK, Unlogged
  <2> QED
    BY <1>1, <2>1, <2>3, <2>4, RealRow, IssuedRow DEF IInv, Live
<1>2. CASE ~IsLive(e)
  <2>1. q = entries[e]
    BY <1>2 DEF Invalidated, IsLive
  <2> QED
    BY <1>2, <2>1 DEF IInv, TypeOK, IsLive, Issued
<1> QED
  BY <1>1, <1>2

(* Superseding closes every open attempt and keeps the rest.               *)
LEMMA SupersededAttempts ==
  ASSUME NEW s \in Seq(AttemptStatuses)
  PROVE  /\ Superseded(s) \in Seq(AttemptStatuses)
         /\ Len(Superseded(s)) = Len(s)
         /\ \A v \in 1..Len(s) :
              Superseded(s)[v] = IF s[v] \in OpenAttempt THEN "superseded" ELSE s[v]
<1>1. DOMAIN s = 1..Len(s) /\ Len(s) \in Nat
  BY LenProperties
<1>2. \A v \in 1..Len(s) : s[v] \in AttemptStatuses
  BY ElementOfSeq
<1>3. Superseded(s) \in [1..Len(s) -> AttemptStatuses]
  BY <1>1, <1>2 DEF Superseded, AttemptStatuses
<1>4. Superseded(s) \in Seq(AttemptStatuses)
  BY <1>1, <1>3, SeqDef
<1>5. Len(Superseded(s)) = Len(s)
  BY <1>1, <1>3, <1>4, LenProperties
<1> QED
  BY <1>1, <1>4, <1>5 DEF Superseded

(* A row of an active chain with a new attempt in place of the open one.   *)
LEMMA NewAttemptRow ==
  ASSUME IInv, NEW e \in Entries, entries[e].status = "entry_active",
         NEW q, q = [entries[e] EXCEPT !.attempts = Append(Superseded(@), "issued")]
  PROVE  q \in EntryRow /\ RowOK(q) /\ q.status = "entry_active" /\ q.user = entries[e].user
<1> DEFINE s == entries[e].attempts
           t == Superseded(s)
           n == Len(s)
<1>1. entries[e] \in EntryRow
  BY IssuedRow DEF IInv
<1>2. s \in Seq(AttemptStatuses) /\ n \in Nat /\ \A v \in 1..n : s[v] \in AttemptStatuses
  BY <1>1, AttemptsOf
<1>3. /\ t \in Seq(AttemptStatuses) /\ Len(t) = n
      /\ \A v \in 1..n : t[v] = IF s[v] \in OpenAttempt THEN "superseded" ELSE s[v]
  BY <1>2, SupersededAttempts
<1>4. q = [entries[e] EXCEPT !.attempts = Append(t, "issued")]
  OBVIOUS
<1>5. "issued" \in AttemptStatuses
  BY DEF AttemptStatuses, OpenAttempt
<1>6. /\ Append(t, "issued") \in Seq(AttemptStatuses)
      /\ Len(Append(t, "issued")) = n + 1
      /\ Append(t, "issued")[n + 1] = "issued"
      /\ \A v \in 1..n : Append(t, "issued")[v] = t[v]
  BY <1>3, <1>5, AppendProperties
<1>7. /\ q \in EntryRow /\ q.attempts = Append(t, "issued")
      /\ q.status = "entry_active" /\ q.user = entries[e].user
  BY <1>1, <1>4, <1>6 DEF EntryRow, AttemptStatuses
<1>8. entries[e].user = None
  BY DEF IInv, RowOK, Unlogged
<1>9. \A v \in 1..n : s[v] # "completed"
  <2>1. ~(n > 0 /\ s[n] = "completed")
    BY <1>8 DEF IInv, RowOK, AttemptsOK
  <2>2. \A v \in 1..n : s[v] = "completed" => v = n
    BY DEF IInv, RowOK, AttemptsOK
  <2> QED
    BY <1>2, <2>1, <2>2
<1>10. \A v \in 1..n : t[v] = "superseded"
  BY <1>2, <1>3, <1>9 DEF AttemptStatuses
<1>11. AttemptsOK(q)
  BY <1>2, <1>6, <1>7, <1>8, <1>10 DEF AttemptsOK, OpenAttempt
<1> QED
  BY <1>7, <1>8, <1>11 DEF RowOK, Unlogged

(* The newest attempt changes to another status.                           *)
LEMMA NewestAttempt ==
  ASSUME NEW s \in Seq(AttemptStatuses), NEW a \in AttemptStatuses, Len(s) > 0
  PROVE  /\ [s EXCEPT ![Len(s)] = a] \in Seq(AttemptStatuses)
         /\ Len([s EXCEPT ![Len(s)] = a]) = Len(s)
         /\ [s EXCEPT ![Len(s)] = a][Len(s)] = a
         /\ \A v \in 1..Len(s) : v # Len(s) => [s EXCEPT ![Len(s)] = a][v] = s[v]
<1>1. Len(s) \in 1..Len(s)
  BY LenProperties
<1> QED
  BY <1>1, ExceptSeq

(* The row of a chain whose login is complete.                             *)
LEMMA LoggedInRow ==
  ASSUME IInv, NEW e \in Entries, Locked(e), NEW q,
         q = [entries[e] EXCEPT !.status = "claim_pending", !.user = login[e],
                                !.attempts = [@ EXCEPT ![Len(@)] = "completed"]]
  PROVE  q \in EntryRow /\ RowOK(q) /\ q.status = "claim_pending" /\ q.user = login[e]
<1> DEFINE s == entries[e].attempts
           t == [s EXCEPT ![Len(s)] = "completed"]
<1>1. /\ entries[e].status = "entry_active" /\ Len(s) > 0 /\ s[Len(s)] = "opened"
      /\ login[e] \in Users /\ login[e] # None
  BY DEF IInv, LockedIsOpened, Locked, TypeOK
<1>2. entries[e] \in EntryRow
  BY <1>1, IssuedRow DEF IInv
<1>3. s \in Seq(AttemptStatuses) /\ "completed" \in AttemptStatuses
  BY <1>2, AttemptsOf DEF AttemptStatuses
<1>4. /\ t \in Seq(AttemptStatuses) /\ Len(t) = Len(s) /\ t[Len(s)] = "completed"
      /\ \A v \in 1..Len(s) : v # Len(s) => t[v] = s[v]
  BY <1>1, <1>3, NewestAttempt
<1>5. q = [entries[e] EXCEPT !.status = "claim_pending", !.user = login[e], !.attempts = t]
  OBVIOUS
<1>6. /\ q \in EntryRow /\ q.attempts = t
      /\ q.status = "claim_pending" /\ q.user = login[e]
  BY <1>1, <1>2, <1>4, <1>5 DEF EntryRow, EntryStatuses, Live, AttemptStatuses
<1>7. \A v \in 1..Len(s) : s[v] \in OpenAttempt \cup {"completed"} => v = Len(s)
  BY DEF IInv, RowOK, AttemptsOK
<1>8. AttemptsOK(q)
  BY <1>1, <1>4, <1>6, <1>7 DEF AttemptsOK
<1> QED
  BY <1>6, <1>8 DEF RowOK, Unlogged

(* The row of a chain whose T3 has been exchanged.                         *)
LEMMA OpenedRow ==
  ASSUME IInv, NEW e \in Entries, NEW v, entries[e].status = "entry_active",
         v = Len(entries[e].attempts), v > 0, entries[e].attempts[v] = "issued",
         NEW q, q = [entries[e] EXCEPT !.attempts[v] = "opened"]
  PROVE  q \in EntryRow /\ RowOK(q) /\ q.status = "entry_active" /\ q.user = entries[e].user
<1> DEFINE s == entries[e].attempts
           t == [s EXCEPT ![Len(s)] = "opened"]
<1>1. entries[e] \in EntryRow
  BY IssuedRow DEF IInv
<1>2. s \in Seq(AttemptStatuses) /\ "opened" \in AttemptStatuses
  BY <1>1, AttemptsOf DEF AttemptStatuses, OpenAttempt
<1>3. /\ t \in Seq(AttemptStatuses) /\ Len(t) = Len(s) /\ t[Len(s)] = "opened"
      /\ \A w \in 1..Len(s) : w # Len(s) => t[w] = s[w]
  BY <1>2, NewestAttempt
<1>4. q = [entries[e] EXCEPT !.attempts = t]
  OBVIOUS
<1>5. /\ q \in EntryRow /\ q.attempts = t
      /\ q.status = "entry_active" /\ q.user = entries[e].user
  BY <1>1, <1>3, <1>4 DEF EntryRow, AttemptStatuses
<1>6. entries[e].user = None
  BY DEF IInv, RowOK, Unlogged
<1>7. \A w \in 1..Len(s) : s[w] \in OpenAttempt \cup {"completed"} => w = Len(s)
  BY DEF IInv, RowOK, AttemptsOK
<1>8. AttemptsOK(q)
  BY <1>3, <1>5, <1>6, <1>7 DEF AttemptsOK, OpenAttempt
<1> QED
  BY <1>5, <1>6, <1>8 DEF RowOK, Unlogged

-----------------------------------------------------------------------------
(* Steps.                                                                  *)

(* The step formulas of RefreshEndsChain and LoginBindsOwnSession.         *)
ReplacedStay ==
  \A e \in Entries : Issued(e) /\ Newer(e) # {} => entries'[e] = entries[e]

BindOwn ==
  \A e \in Entries :
    entries[e].user = None /\ entries'[e].user # None => session'.id = entries[e].session

StepGoal == IInv' /\ ReplacedStay /\ BindOwn

(* The part of the invariant that is not about chains.                     *)
RestTyped ==
  /\ IssuesForSession
  /\ session \in [id: Sessions \cup {None}, generation: Generations \cup {None},
                  user: Users \cup {None}]
  /\ loops \in [Loops -> [at: {"idle", "refresh", "store", "issue"},
                          session: Sessions \cup {None},
                          generation: Generations \cup {None}]]
  /\ dispatching \subseteq Entries
  /\ commands \subseteq Entries
  /\ login \in [Entries -> Users \cup {None}]

(* A step that writes no chain and binds no user.                          *)
LEMMA NoRowChanges ==
  ASSUME IInv, entries' = entries, session'.user = session.user, RestTyped',
         LockedIsOpened'
  PROVE  StepGoal
<1>1. TypeOK'
  BY DEF IInv, TypeOK, RestTyped
<1>2. (\A e \in Entries : RowOK(entries[e]))' /\ OneLiveChain' /\ ClaimNamesBoundUser'
  BY DEF IInv, RowOK, AttemptsOK, Unlogged, OneLiveChain, ClaimNamesBoundUser,
         IsLive, Newer, Issued
<1> QED
  BY <1>1, <1>2 DEF StepGoal, IInv, RestTyped, ReplacedStay, BindOwn

(* A step that replaces the row of one live chain.                         *)
LEMMA OneRowChanges ==
  ASSUME IInv, NEW e \in Entries, IsLive(e), NEW q \in EntryRow, RowOK(q),
         entries' = [entries EXCEPT ![e] = q]
  PROVE  /\ entries' \in [Entries -> EntryRow \cup {NoEntry}]
         /\ (\A f \in Entries : RowOK(entries[f]))'
         /\ OneLiveChain'
         /\ ReplacedStay
<1>1. /\ entries' \in [Entries -> EntryRow \cup {NoEntry}]
      /\ entries'[e] = q /\ \A f \in Entries : f # e => entries'[f] = entries[f]
  BY DEF IInv, TypeOK
<1>2. (\A f \in Entries : RowOK(entries[f]))'
  <2>1. ASSUME NEW f \in Entries PROVE RowOK(entries'[f])
    BY <1>1 DEF IInv
  <2>2. \A f \in Entries : RowOK(entries[f])' <=> RowOK(entries'[f])
    BY DEF RowOK, AttemptsOK, Unlogged
  <2> QED
    BY <2>1, <2>2
<1>3. Issued(e) /\ \A f \in Entries : Issued(f)' <=> Issued(f)
  BY <1>1, IssuedRow, RealRow DEF IInv, Issued
<1>4. \A f \in Entries : Newer(f)' = Newer(f)
  BY <1>3 DEF Newer
<1>5. \A f \in Entries : IsLive(f)' => IsLive(f)
  BY <1>1 DEF IsLive
<1>6. OneLiveChain'
  BY <1>4, <1>5 DEF IInv, OneLiveChain
<1>7. ReplacedStay
  BY <1>1 DEF IInv, OneLiveChain, ReplacedStay
<1> QED
  BY <1>1, <1>2, <1>6, <1>7

(* A step after which every chain is as Invalidated leaves it.             *)
LEMMA RowsInvalidated ==
  ASSUME IInv, InvalidateForNode, session' = session, login' = login, RestTyped'
  PROVE  StepGoal
<1>1. \A e \in Entries : entries'[e] = Invalidated(entries)[e]
  BY DEF InvalidateForNode
<1>2. \A e \in Entries :
        /\ entries'[e] \in EntryRow \cup {NoEntry}
        /\ entries'[e].status \notin Live
        /\ ~IsLive(e) => entries'[e] = entries[e]
        /\ entries'[e].user = entries[e].user
        /\ RowOK(entries'[e])
  BY <1>1, InvalidatedRow
<1>3. TypeOK'
  BY <1>2 DEF InvalidateForNode, Invalidated, RestTyped, TypeOK
<1>4. (\A e \in Entries : RowOK(entries[e]))'
  BY <1>2 DEF RowOK, AttemptsOK, Unlogged
<1>5. LockedIsOpened'
  <2>1. \A e \in Entries : Locked(e)' => Locked(e)
    BY DEF Locked
  <2>2. \A e \in Entries : Locked(e) => IsLive(e)
    BY DEF IInv, LockedIsOpened, IsLive, Live
  <2>3. \A e \in Entries : ~Locked(e)
    BY <2>2 DEF InvalidateForNode
  <2> QED
    BY <2>1, <2>3 DEF LockedIsOpened
<1>6. OneLiveChain' /\ ClaimNamesBoundUser'
  BY <1>2 DEF OneLiveChain, ClaimNamesBoundUser, IsLive, Live
<1>7. ReplacedStay
  BY <1>2 DEF IInv, OneLiveChain, ReplacedStay
<1>8. BindOwn
  BY <1>2 DEF BindOwn
<1> QED
  BY <1>3, <1>4, <1>5, <1>6, <1>7, <1>8 DEF StepGoal, IInv, RestTyped

(* A step that moves one live, unlocked chain and binds no user.           *)
LEMMA OneRowMoves ==
  ASSUME IInv, NEW e \in Entries, IsLive(e), ~Locked(e), NEW q \in EntryRow, RowOK(q),
         q.status # "claim_pending", q.user = entries[e].user,
         entries' = [entries EXCEPT ![e] = q],
         session' = session, login' = login, RestTyped'
  PROVE  StepGoal
<1>1. /\ entries' \in [Entries -> EntryRow \cup {NoEntry}]
      /\ (\A f \in Entries : RowOK(entries[f]))'
      /\ OneLiveChain'
      /\ ReplacedStay
  BY OneRowChanges
<1>2. entries'[e] = q /\ \A f \in Entries : f # e => entries'[f] = entries[f]
  BY DEF IInv, TypeOK
<1>3. TypeOK'
  BY <1>1 DEF TypeOK, RestTyped
<1>4. LockedIsOpened'
  BY <1>2 DEF IInv, LockedIsOpened, Locked
<1>5. ClaimNamesBoundUser'
  BY <1>2 DEF IInv, ClaimNamesBoundUser
<1>6. BindOwn
  BY <1>2 DEF BindOwn
<1> QED
  BY <1>1, <1>3, <1>4, <1>5, <1>6 DEF StepGoal, IInv, RestTyped

LEMMA LoopSteps ==
  ASSUME IInv, NEW l \in Loops, LoopStep(l)
  PROVE  StepGoal
<1>1. ASSUME NEW s \in Sessions \cup {None}, NEW g \in Generations,
             ReceiveSessionState(l, s, g)
      PROVE  StepGoal
  <2>1. RestTyped'
    BY <1>1 DEF IInv, TypeOK, IssuesForSession, RestTyped, ReceiveSessionState
  <2>2. LockedIsOpened'
    BY <1>1 DEF IInv, LockedIsOpened, Locked, ReceiveSessionState
  <2> QED
    BY <1>1, <2>1, <2>2, NoRowChanges DEF ReceiveSessionState
<1>2. CASE RefreshEntries(l)
  <2>1. RestTyped'
    BY <1>2 DEF IInv, TypeOK, IssuesForSession, RestTyped, RefreshEntries
  <2>2. CASE InvalidateForNode
    BY <1>2, <2>1, <2>2, RowsInvalidated DEF RefreshEntries
  <2>3. CASE UNCHANGED entries
    <3>1. LockedIsOpened'
      BY <1>2, <2>3 DEF IInv, LockedIsOpened, Locked, RefreshEntries
    <3> QED
      BY <1>2, <2>1, <2>3, <3>1, NoRowChanges DEF RefreshEntries
  <2> QED
    BY <1>2, <2>2, <2>3 DEF RefreshEntries, TryInvalidate
<1>3. CASE StoreSession(l)
  <2>1. loops[l].session \in Sessions \cup {None}
        /\ loops[l].generation \in Generations \cup {None}
    BY DEF IInv, TypeOK
  <2>2. RestTyped' /\ session'.user = session.user
    BY <1>3, <2>1 DEF IInv, TypeOK, IssuesForSession, RestTyped, StoreSession, IdleLoop
  <2>3. LockedIsOpened'
    BY <1>3 DEF IInv, LockedIsOpened, Locked, StoreSession
  <2> QED
    BY <1>3, <2>2, <2>3, NoRowChanges DEF StoreSession
<1>4. CASE ReceiveTicketRequest(l)
  <2>1. RestTyped'
    BY <1>4 DEF IInv, TypeOK, IssuesForSession, RestTyped, ReceiveTicketRequest
  <2>2. LockedIsOpened'
    BY <1>4 DEF IInv, LockedIsOpened, Locked, ReceiveTicketRequest
  <2> QED
    BY <1>4, <2>1, <2>2, NoRowChanges DEF ReceiveTicketRequest
<1>5. ASSUME NEW e \in Entries, Issue(l, e)
      PROVE  StepGoal
  <2> DEFINE q == [session |-> loops[l].session, generation |-> loops[l].generation,
                   status |-> "qr_issued", masked |-> FALSE, user |-> None,
                   attempts |-> <<>>]
  <2>1. q \in EntryRow /\ RowOK(q) /\ q.status = "qr_issued" /\ q.user = None
    <3>1. loops[l].session \in Sessions /\ loops[l].generation \in Generations
      BY <1>5 DEF Issue, IInv, IssuesForSession
    <3>2. <<>> \in Seq(AttemptStatuses) /\ Len(<<>>) = 0
      BY EmptySeq
    <3>3. q \in EntryRow
      BY <3>1, <3>2 DEF EntryRow, EntryStatuses, Live, AttemptStatuses
    <3>4. AttemptsOK(q)
      BY <3>2 DEF AttemptsOK
    <3> QED
      BY <3>3, <3>4 DEF RowOK, Unlogged
  <2>2. ~Issued(e) /\ Newer(e) = {} /\ \A f \in Entries : IsLive(f) => ~Locked(f)
    BY <1>5 DEF Issue
  <2>3. entries'[e] = q
        /\ \A f \in Entries : f # e => entries'[f] = Invalidated(entries)[f]
    BY <1>5 DEF Issue, IInv, TypeOK, Invalidated
  <2>4. \A f \in Entries : f # e =>
          /\ entries'[f] \in EntryRow \cup {NoEntry}
          /\ entries'[f].status \notin Live
          /\ entries'[f] = NoEntry <=> ~Issued(f)
          /\ ~IsLive(f) => entries'[f] = entries[f]
          /\ entries'[f].user = entries[f].user
          /\ RowOK(entries'[f])
    BY <2>3, InvalidatedRow
  <2>5. TypeOK' /\ IssuesForSession'
    <3>1. entries' \in [Entries -> EntryRow \cup {NoEntry}]
      <4>1. \A f \in Entries : entries'[f] \in EntryRow \cup {NoEntry}
        BY <2>1, <2>3, <2>4
      <4>2. entries' = [f \in Entries |-> entries'[f]]
        BY <1>5 DEF Issue, Invalidated
      <4> QED
        BY <4>1, <4>2
    <3> QED
      BY <1>5, <3>1 DEF Issue, IInv, TypeOK, IssuesForSession, IdleLoop
  <2>6. (\A f \in Entries : RowOK(entries[f]))'
    <3>1. \A f \in Entries : RowOK(entries'[f])
      BY <2>1, <2>3, <2>4
    <3> QED
      BY <3>1 DEF RowOK, AttemptsOK, Unlogged
  <2>7. LockedIsOpened'
    <3>1. \A f \in Entries : Locked(f)' <=> Locked(f)
      BY <1>5 DEF Issue, Locked
    <3>2. \A f \in Entries : Locked(f) => IsLive(f)
      BY DEF IInv, LockedIsOpened, IsLive, Live
    <3> QED
      BY <2>2, <3>1, <3>2 DEF LockedIsOpened
  <2>8. OneLiveChain'
    <3>1. \A f \in Entries : Issued(f)' => Issued(f) \/ f = e
      BY <2>4 DEF Issued
    <3>2. \A f \in Newer(e)' : f \in Entries /\ f > e /\ Issued(f)'
      BY DEF Newer
    <3>3. \A f \in Newer(e)' : f # e
      BY <3>2, EntryConstants
    <3>4. \A f \in Newer(e)' : f \in Newer(e)
      BY <3>1, <3>2, <3>3 DEF Newer
    <3>5. Newer(e)' = {}
      BY <2>2, <3>4
    <3> QED
      BY <2>4, <3>5 DEF OneLiveChain, IsLive
  <2>9. ClaimNamesBoundUser'
    BY <2>1, <2>3, <2>4 DEF ClaimNamesBoundUser, Live
  <2>10. ReplacedStay
    BY <2>2, <2>4 DEF IInv, OneLiveChain, ReplacedStay
  <2>11. BindOwn
    BY <2>1, <2>3, <2>4 DEF BindOwn
  <2> QED
    BY <2>5, <2>6, <2>7, <2>8, <2>9, <2>10, <2>11 DEF StepGoal, IInv
<1>6. CASE RefuseIssue(l)
  <2>1. RestTyped'
    BY <1>6 DEF IInv, TypeOK, IssuesForSession, RestTyped, RefuseIssue, IdleLoop
  <2>2. LockedIsOpened'
    BY <1>6 DEF IInv, LockedIsOpened, Locked, RefuseIssue
  <2> QED
    BY <1>6, <2>1, <2>2, NoRowChanges DEF RefuseIssue
<1> QED
  BY <1>1, <1>2, <1>3, <1>4, <1>5, <1>6 DEF LoopStep

(* A status change before the login leaves the row in order.               *)
LEMMA StatusRow ==
  ASSUME IInv, NEW e \in Entries, IsLive(e), NEW status \in EntryStatuses,
         status = "redeemed" => entries[e].status = "claim_pending",
         status \in {"mask_pending", "entry_active"}
           => entries[e].status \in {"qr_issued", "mask_pending"},
         status \notin {"qr_issued", "claim_pending"},
         NEW q, q = [entries[e] EXCEPT !.status = status]
  PROVE  q \in EntryRow /\ RowOK(q) /\ q.status = status /\ q.user = entries[e].user
<1>1. entries[e] \in EntryRow
  BY IssuedRow DEF IInv
<1>2. /\ q \in EntryRow /\ q.status = status
      /\ q.user = entries[e].user /\ q.attempts = entries[e].attempts
  BY <1>1, RowChange DEF EntryRow
<1>3. RowOK(entries[e])
  BY DEF IInv
<1> QED
  BY <1>2, <1>3 DEF RowOK, AttemptsOK, Unlogged

(* Two live chains are one.                                                *)
LEMMA LiveUnique ==
  ASSUME IInv, NEW e \in Entries, NEW f \in Entries, IsLive(e), IsLive(f)
  PROVE  e = f
<1>1. Issued(e) /\ Issued(f)
  BY IssuedRow DEF IInv
<1>2. ~(f > e) /\ ~(e > f)
  BY <1>1 DEF IInv, OneLiveChain, Newer
<1> QED
  BY <1>2, EntryConstants

LEMMA BrowserSteps ==
  ASSUME IInv, NEW e \in Entries,
         \/ Acquire(e) \/ DispatchMask(e) \/ DispatchMaskFails(e) \/ MarkMasked(e)
         \/ Activate(e) \/ CreateAttempt(e) \/ \E v \in 1..MaxAttempts : ConsumeT3(e, v)
  PROVE  StepGoal
<1>a. Locked(e) => entries[e].status = "entry_active"
  BY DEF IInv, LockedIsOpened
<1>1. CASE Acquire(e)
  <2> DEFINE q == [entries[e] EXCEPT !.status = "mask_pending"]
  <2>1. IsLive(e) /\ ~Locked(e) /\ entries[e].status = "qr_issued"
    BY <1>1, <1>a DEF Acquire, IsLive, Live
  <2>2. q \in EntryRow /\ RowOK(q) /\ q.status = "mask_pending" /\ q.user = entries[e].user
    BY <2>1, StatusRow DEF EntryStatuses, Live
  <2>3. RestTyped'
    BY <1>1 DEF IInv, TypeOK, IssuesForSession, RestTyped, Acquire
  <2>4. entries' = [entries EXCEPT ![e] = q]
    BY <1>1 DEF Acquire
  <2> QED
    BY <1>1, <2>1, <2>2, <2>3, <2>4, OneRowMoves DEF Acquire
<1>2. CASE DispatchMask(e)
  <2>1. RestTyped'
    BY <1>2 DEF IInv, TypeOK, IssuesForSession, RestTyped, DispatchMask
  <2>2. LockedIsOpened'
    BY <1>2 DEF IInv, LockedIsOpened, Locked, DispatchMask
  <2> QED
    BY <1>2, <2>1, <2>2, NoRowChanges DEF DispatchMask
<1>3. CASE DispatchMaskFails(e)
  <2>1. RestTyped'
    BY <1>3 DEF IInv, TypeOK, IssuesForSession, RestTyped, DispatchMaskFails
  <2>2. CASE InvalidateForNode
    BY <1>3, <2>1, <2>2, RowsInvalidated DEF DispatchMaskFails
  <2>3. CASE UNCHANGED entries
    <3>1. LockedIsOpened'
      BY <1>3, <2>3 DEF IInv, LockedIsOpened, Locked, DispatchMaskFails
    <3> QED
      BY <1>3, <2>1, <2>3, <3>1, NoRowChanges DEF DispatchMaskFails
  <2> QED
    BY <1>3, <2>2, <2>3 DEF DispatchMaskFails, TryInvalidate
<1>4. CASE MarkMasked(e)
  <2> DEFINE q == [entries[e] EXCEPT !.masked = TRUE]
  <2>1. IsLive(e) /\ ~Locked(e) /\ entries[e].status = "mask_pending"
    BY <1>4, <1>a DEF MarkMasked, IsLive, Live
  <2>2. entries[e] \in EntryRow
    BY <2>1, IssuedRow DEF IInv
  <2>3. /\ q \in EntryRow /\ q.status = "mask_pending"
        /\ q.user = entries[e].user /\ q.attempts = entries[e].attempts
    BY <2>1, <2>2 DEF EntryRow
  <2>4. RowOK(q)
    BY <2>1, <2>3 DEF IInv, RowOK, AttemptsOK, Unlogged
  <2>5. RestTyped'
    BY <1>4 DEF IInv, TypeOK, IssuesForSession, RestTyped, MarkMasked
  <2>6. entries' = [entries EXCEPT ![e] = q]
    BY <1>4 DEF MarkMasked
  <2> QED
    BY <1>4, <2>1, <2>3, <2>4, <2>5, <2>6, OneRowMoves DEF MarkMasked
<1>5. CASE Activate(e)
  <2> DEFINE q == [entries[e] EXCEPT !.status = "entry_active"]
  <2>1. IsLive(e) /\ ~Locked(e) /\ entries[e].status = "mask_pending"
    BY <1>5, <1>a DEF Activate, IsLive, Live
  <2>2. q \in EntryRow /\ RowOK(q) /\ q.status = "entry_active" /\ q.user = entries[e].user
    BY <2>1, StatusRow DEF EntryStatuses, Live
  <2>3. RestTyped'
    BY <1>5 DEF IInv, TypeOK, IssuesForSession, RestTyped, Activate
  <2>4. entries' = [entries EXCEPT ![e] = q]
    BY <1>5 DEF Activate
  <2> QED
    BY <1>5, <2>1, <2>2, <2>3, <2>4, OneRowMoves DEF Activate
<1>6. CASE CreateAttempt(e)
  <2> DEFINE q == [entries[e] EXCEPT !.attempts = Append(Superseded(@), "issued")]
  <2>1. IsLive(e) /\ ~Locked(e) /\ entries[e].status = "entry_active"
    BY <1>6 DEF CreateAttempt, IsLive, Live
  <2>2. q \in EntryRow /\ RowOK(q) /\ q.status = "entry_active" /\ q.user = entries[e].user
    BY <2>1, NewAttemptRow
  <2>3. RestTyped'
    BY <1>6 DEF IInv, TypeOK, IssuesForSession, RestTyped, CreateAttempt
  <2>4. entries' = [entries EXCEPT ![e] = q]
    BY <1>6 DEF CreateAttempt
  <2> QED
    BY <1>6, <2>1, <2>2, <2>3, <2>4, OneRowMoves DEF CreateAttempt
<1>7. ASSUME NEW v \in 1..MaxAttempts, ConsumeT3(e, v)
      PROVE  StepGoal
  <2> DEFINE q == [entries[e] EXCEPT !.attempts[v] = "opened"]
  <2>1. /\ IsLive(e) /\ ~Locked(e) /\ entries[e].status = "entry_active"
        /\ v = Len(entries[e].attempts) /\ v > 0 /\ entries[e].attempts[v] = "issued"
    BY <1>7 DEF ConsumeT3, IsLive, Live
  <2>2. q \in EntryRow /\ RowOK(q) /\ q.status = "entry_active" /\ q.user = entries[e].user
    BY <2>1, OpenedRow
  <2>3. RestTyped'
    BY <1>7 DEF IInv, TypeOK, IssuesForSession, RestTyped, ConsumeT3
  <2>4. entries' = [entries EXCEPT ![e] = q]
    BY <1>7 DEF ConsumeT3
  <2> QED
    BY <1>7, <2>1, <2>2, <2>3, <2>4, OneRowMoves DEF ConsumeT3
<1> QED
  BY <1>1, <1>2, <1>3, <1>4, <1>5, <1>6, <1>7

LEMMA LoginSteps ==
  ASSUME IInv, NEW e \in Entries,
         \/ \E u \in Users : LockLogin(e, u)
         \/ FinishLogin(e) \/ AbortLogin(e) \/ ValidateClaim(e)
  PROVE  StepGoal
<1>1. ASSUME NEW u \in Users, LockLogin(e, u)
      PROVE  StepGoal
  <2>1. RestTyped'
    BY <1>1 DEF IInv, TypeOK, IssuesForSession, RestTyped, LockLogin
  <2>2. login'[e] = u /\ \A f \in Entries : f # e => login'[f] = login[f]
    BY <1>1 DEF IInv, TypeOK, LockLogin
  <2>3. LockedIsOpened'
    BY <1>1, <2>2 DEF IInv, LockedIsOpened, Locked, LockLogin
  <2> QED
    BY <1>1, <2>1, <2>3, NoRowChanges DEF LockLogin
<1>2. CASE FinishLogin(e)
  <2> DEFINE q == [entries[e] EXCEPT !.status = "claim_pending", !.user = login[e],
                                     !.attempts = [@ EXCEPT ![Len(@)] = "completed"]]
  <2>1. IsLive(e) /\ Locked(e) /\ login[e] \in Users /\ session.id = entries[e].session
    BY <1>2 DEF FinishLogin, Bindable, IInv, LockedIsOpened, Locked, TypeOK, IsLive, Live
  <2>2. q \in EntryRow /\ RowOK(q) /\ q.status = "claim_pending" /\ q.user = login[e]
    BY <2>1, LoggedInRow
  <2>3. entries' = [entries EXCEPT ![e] = q]
    BY <1>2 DEF FinishLogin
  <2>4. /\ entries' \in [Entries -> EntryRow \cup {NoEntry}]
        /\ (\A f \in Entries : RowOK(entries[f]))'
        /\ OneLiveChain'
        /\ ReplacedStay
    BY <2>1, <2>2, <2>3, OneRowChanges
  <2>5. entries'[e] = q /\ \A f \in Entries : f # e => entries'[f] = entries[f]
    BY <2>3 DEF IInv, TypeOK
  <2>6. /\ session' \in [id: Sessions \cup {None}, generation: Generations \cup {None},
                         user: Users \cup {None}]
        /\ session'.user = login[e] /\ session'.id = session.id
    BY <1>2, <2>1 DEF FinishLogin, IInv, TypeOK
  <2>7. login'[e] = None /\ \A f \in Entries : f # e => login'[f] = login[f]
    BY <1>2 DEF FinishLogin, IInv, TypeOK
  <2>8. TypeOK' /\ IssuesForSession'
    BY <1>2, <2>4, <2>6 DEF FinishLogin, IInv, TypeOK, IssuesForSession
  <2>9. LockedIsOpened'
    BY <2>5, <2>7 DEF IInv, LockedIsOpened, Locked
  <2>10. ClaimNamesBoundUser'
    <3>1. \A f \in Entries : f # e => entries[f].status # "claim_pending"
      BY <2>1, LiveUnique DEF IsLive, Live
    <3> QED
      BY <2>2, <2>5, <2>6, <3>1 DEF ClaimNamesBoundUser
  <2>11. BindOwn
    BY <2>1, <2>5, <2>6 DEF BindOwn
  <2> QED
    BY <2>4, <2>8, <2>9, <2>10, <2>11 DEF StepGoal, IInv
<1>3. CASE AbortLogin(e)
  <2>1. RestTyped'
    BY <1>3 DEF IInv, TypeOK, IssuesForSession, RestTyped, AbortLogin
  <2>2. LockedIsOpened'
    BY <1>3 DEF IInv, TypeOK, LockedIsOpened, Locked, AbortLogin
  <2> QED
    BY <1>3, <2>1, <2>2, NoRowChanges DEF AbortLogin
<1>4. CASE ValidateClaim(e)
  <2> DEFINE q == [entries[e] EXCEPT !.status = "redeemed"]
  <2>1. IsLive(e) /\ ~Locked(e) /\ entries[e].status = "claim_pending"
    BY <1>4 DEF ValidateClaim, IsLive, Live
  <2>2. q \in EntryRow /\ RowOK(q) /\ q.status = "redeemed" /\ q.user = entries[e].user
    BY <2>1, StatusRow DEF EntryStatuses
  <2>3. RestTyped'
    BY <1>4 DEF IInv, TypeOK, IssuesForSession, RestTyped, ValidateClaim
  <2>4. entries' = [entries EXCEPT ![e] = q]
    BY <1>4 DEF ValidateClaim
  <2> QED
    BY <1>4, <2>1, <2>2, <2>3, <2>4, OneRowMoves DEF ValidateClaim
<1> QED
  BY <1>1, <1>2, <1>3, <1>4

LEMMA InitInvariant ==
  ASSUME Init
  PROVE  IInv
<1>1. \A e \in Entries : entries[e] = NoEntry /\ login[e] = None
  BY DEF Init
<1>2. TypeOK /\ IssuesForSession
  BY DEF Init, TypeOK, IssuesForSession, IdleLoop
<1>3. \A e \in Entries : RowOK(entries[e])
  <2>1. Len(NoEntry.attempts) = 0
    BY EmptySeq DEF NoEntry
  <2>2. AttemptsOK(NoEntry)
    BY <2>1 DEF NoEntry, AttemptsOK
  <2> QED
    BY <1>1, <2>2 DEF NoEntry, RowOK, Unlogged
<1>4. LockedIsOpened /\ OneLiveChain /\ ClaimNamesBoundUser
  BY <1>1 DEF LockedIsOpened, Locked, OneLiveChain, ClaimNamesBoundUser, IsLive, Live, NoEntry
<1> QED
  BY <1>2, <1>3, <1>4 DEF IInv

LEMMA Steps ==
  ASSUME IInv, [Next]_vars
  PROVE  StepGoal
<1>1. CASE Restart
  <2>1. RestTyped'
    BY <1>1 DEF IInv, TypeOK, IssuesForSession, RestTyped, Restart, IdleLoop
  <2>2. LockedIsOpened'
    BY <1>1 DEF LockedIsOpened, Locked, Restart
  <2> QED
    BY <1>1, <2>1, <2>2, NoRowChanges DEF Restart
<1>2. CASE UNCHANGED vars
  <2>1. RestTyped'
    BY <1>2 DEF IInv, TypeOK, IssuesForSession, RestTyped, vars
  <2>2. LockedIsOpened'
    BY <1>2 DEF IInv, LockedIsOpened, Locked, vars
  <2> QED
    BY <1>2, <2>1, <2>2, NoRowChanges DEF vars
<1>3. ASSUME NEW e \in Entries, EntryStep(e)
      PROVE  StepGoal
  BY <1>3, BrowserSteps, LoginSteps DEF EntryStep
<1> QED
  BY <1>1, <1>2, <1>3, LoopSteps DEF Next

-----------------------------------------------------------------------------
(* Theorems.                                                               *)

THEOREM EntryInvariant == Spec => []IInv
<1>1. IInv /\ [Next]_vars => IInv'
  BY Steps DEF StepGoal
<1> QED
  BY InitInvariant, <1>1, PTL DEF Spec

(* Every row, message and lock of the terminal flow keeps its type; a row  *)
(* never takes a status the table's CHECK refuses.                         *)
THEOREM EntryTypes == Spec => []TypeOK
<1>1. IInv => TypeOK
  BY DEF IInv
<1> QED
  BY EntryInvariant, <1>1, PTL

(* However many sockets, refreshes, logins and restarts overlap, the only  *)
(* live chain of the terminal is the one issued last.                      *)
THEOREM NewestChainOnly == Spec => []OneLiveChain
<1>1. IInv => OneLiveChain
  BY DEF IInv
<1> QED
  BY EntryInvariant, <1>1, PTL

(* Only the newest portal attempt can be open, and only its completion     *)
(* takes a chain past its login.                                           *)
THEOREM NewestAttemptOnly == Spec => []OneOpenAttempt
<1>1. IInv => OneOpenAttempt
  BY DEF IInv, RowOK, AttemptsOK, OneOpenAttempt
<1> QED
  BY EntryInvariant, <1>1, PTL

(* A waiting claim names the user the terminal session is bound to.        *)
THEOREM ClaimAgreesWithSession == Spec => []ClaimNamesBoundUser
<1>1. IInv => ClaimNamesBoundUser
  BY DEF IInv
<1> QED
  BY EntryInvariant, <1>1, PTL

(* A replaced chain never moves again.                                     *)
THEOREM ReplacedChainsStay == Spec => RefreshEndsChain
<1>1. IInv /\ [Next]_vars =>
        [\A e \in Entries : Issued(e) /\ Newer(e) # {} => entries'[e] = entries[e]]_vars
  BY Steps DEF StepGoal, ReplacedStay
<1> QED
  BY EntryInvariant, <1>1, PTL DEF Spec, RefreshEndsChain

(* A login binds its user to the session its chain was issued for.         *)
THEOREM LoginsBindOwnSession == Spec => LoginBindsOwnSession
<1>1. IInv /\ [Next]_vars =>
        [\A e \in Entries :
           entries[e].user = None /\ entries'[e].user # None
           => session'.id = entries[e].session]_vars
  BY Steps DEF StepGoal, BindOwn
<1> QED
  BY EntryInvariant, <1>1, PTL DEF Spec, LoginBindsOwnSession
=============================================================================
