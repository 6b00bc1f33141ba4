------------------------------ MODULE Accounts ------------------------------
(***************************************************************************)
(* The accounts of operators and of those who print.  An operator's        *)
(* account is created by an administrator or at the start of the server, a *)
(* printing user's by the first login through a portal; an administrator   *)
(* changes roles, switches accounts off and deletes them                   *)
(* (user_handler.go, user_repository.go).  A deletion takes the user's     *)
(* print history with it, and must not run into jobs that still print: it  *)
(* holds the lock of the user's row, reads the jobs in one statement and   *)
(* removes them in a later one, while jobs are authorized, dispatched and  *)
(* reported on.                                                            *)
(*                                                                         *)
(* Of a job only what a deletion asks is kept: whether it is active        *)
(* (pending, dispatched or processing), unconfirmed or closed, and whether *)
(* a report of it has a receipt, whose foreign key protects the job.       *)
(* PrintSettlement has the rest.  Names, addresses, passwords and the time *)
(* of the last login are left out; uniqueness is the database's.           *)
(***************************************************************************)
EXTENDS FiniteSets

CONSTANTS People, PrintJobs, NoOwner

ASSUME AccountsAssumption == NoOwner \notin People

VARIABLES
  account,   \* users: kind, role and whether the status is active
  inSession, \* those who are bound to a terminal session
  work,      \* print_jobs: owner, phase, whether a receipt names it
  deletion   \* the deletion in progress: its stage, user, and what it has seen

accountVars == <<account, inSession, work, deletion>>

NoAccount == [kind |-> "none", role |-> "viewer", active |-> FALSE]
NoWork == [owner |-> NoOwner, phase |-> "none", receipt |-> FALSE]
NoDeletion == [stage |-> "no", person |-> NoOwner, doubtful |-> {}, erased |-> {}]

Roles == {"admin", "operator", "viewer"}

AccountsTypeOK ==
  /\ account \in [People -> [kind : {"none", "operator", "external"},
                             role : Roles, active : BOOLEAN]]
  /\ inSession \subseteq People
  /\ work \in [PrintJobs -> [owner : People \cup {NoOwner},
                             phase : {"none", "active", "unconfirmed", "closed"},
                             receipt : BOOLEAN]]
  /\ deletion \in [stage : {"no", "locked", "counted", "erased"},
                   person : People \cup {NoOwner},
                   doubtful : SUBSET PrintJobs, erased : SUBSET PrintJobs]

AccountsInit ==
  /\ account = [p \in People |-> NoAccount]
  /\ inSession = {}
  /\ work = [j \in PrintJobs |-> NoWork]
  /\ deletion = NoDeletion

Registered(p) == account[p].kind # "none"
JobsOf(p) == {j \in PrintJobs : work[j].owner = p}

(* Mutant: the deletion reads the user without locking the row.            *)
Unlocked_ReadOnly(p) == TRUE

(* SELECT ... FOR UPDATE of DeleteUserWithPrintJobs: who writes or locks   *)
(* the user's row waits until the deletion is over.                        *)
Unlocked(p) == deletion.stage = "no" \/ deletion.person # p

-----------------------------------------------------------------------------
(* An account of an operator: from the console, at the first login with an *)
(* external OAuth provider (always an administrator), or at a start that   *)
(* finds no administrator.                                                 *)
OperatorAccount(role) == [kind |-> "operator", role |-> role, active |-> TRUE]

CreateUser(p, role) ==
  /\ ~Registered(p) /\ role # "viewer"
  /\ account' = [account EXCEPT ![p] = OperatorAccount(role)]
  /\ UNCHANGED <<inSession, work, deletion>>

SyncUserOnLogin(p) == CreateUser(p, "admin")

CreateDefaultAdmin(p) ==
  /\ \A q \in People : account[q].role # "admin"
  /\ CreateUser(p, "admin")

(* Only those who log in through a portal are viewers, and they stay so.   *)
UpdateUser(p, role) ==
  /\ Registered(p) /\ Unlocked(p)
  /\ role = "viewer" <=> account[p].kind = "external"
  /\ account' = [account EXCEPT ![p].role = role]
  /\ UNCHANGED <<inSession, work, deletion>>

UpdateUserEnabled(p, enabled) ==
  /\ Registered(p) /\ Unlocked(p)
  /\ account' = [account EXCEPT ![p].active = enabled]
  /\ UNCHANGED <<inSession, work, deletion>>

(* CompleteLogin: the identity's account is created at its first login and *)
(* bound to the session of the terminal; an inactive one is refused.       *)
LogIn(p) ==
  /\ Unlocked(p)
  /\ \/ ~Registered(p)
     \/ account[p].kind = "external" /\ account[p].active
  /\ account' = [account EXCEPT ![p] =
                   [kind |-> "external", role |-> "viewer", active |-> TRUE]]
  /\ inSession' = inSession \cup {p}
  /\ UNCHANGED <<work, deletion>>

(* The terminal opens another session, or the next user logs in there.     *)
LeaveSession(p) ==
  /\ p \in inSession
  /\ inSession' = inSession \ {p}
  /\ UNCHANGED <<account, work, deletion>>

-----------------------------------------------------------------------------
(* Authorize, under the locks of the session and of the user.              *)
AuthorizeJob(p, j) ==
  /\ p \in inSession /\ account[p].active /\ Unlocked(p)
  /\ work[j].phase = "none"
  /\ work' = [work EXCEPT ![j] = [owner |-> p, phase |-> "active", receipt |-> FALSE]]
  /\ UNCHANGED <<account, inSession, deletion>>

(* A job whose row is being removed makes its writers wait.                *)
JobUnlocked(j) == j \notin deletion.erased

(* What moves a job without a receipt: a dispatch that is not acknowledged *)
(* and the print-time sweep leave it unconfirmed, a processing report may  *)
(* make it active again, and failures close it.                            *)
MoveJob(j, phase) ==
  /\ JobUnlocked(j)
  /\ \/ work[j].phase = "active" /\ phase \in {"unconfirmed", "closed"}
     \/ work[j].phase = "unconfirmed" /\ phase \in {"active", "closed"}
  /\ work' = [work EXCEPT ![j].phase = phase]
  /\ UNCHANGED <<account, inSession, deletion>>

(* ApplyTerminalJobUpdate: the result and its receipt in one transaction.  *)
ReportJob(j, phase) ==
  /\ JobUnlocked(j)
  /\ work[j].phase \in {"active", "unconfirmed"} /\ phase \in {"unconfirmed", "closed"}
  /\ work' = [work EXCEPT ![j].phase = phase, ![j].receipt = TRUE]
  /\ UNCHANGED <<account, inSession, deletion>>

-----------------------------------------------------------------------------
(* DeleteUserWithPrintJobs, statement by statement.                        *)
LockUser(p) ==
  /\ deletion = NoDeletion /\ Registered(p)
  /\ deletion' = [NoDeletion EXCEPT !.stage = "locked", !.person = p]
  /\ UNCHANGED <<account, inSession, work>>

(* Active jobs refuse the deletion; unconfirmed ones do not count.         *)
CountActiveJobs ==
  /\ deletion.stage = "locked"
  /\ LET mine == JobsOf(deletion.person)
     IN deletion' =
          IF \E j \in mine : work[j].phase = "active" THEN NoDeletion
          ELSE [deletion EXCEPT !.stage = "counted",
                  !.doubtful = {j \in mine : work[j].phase = "unconfirmed"}]
  /\ UNCHANGED <<account, inSession, work>>

(* Identities, alerts and jobs; a job with a receipt cannot be removed and *)
(* the transaction is rolled back.                                         *)
EraseJobs ==
  /\ deletion.stage = "counted"
  /\ LET mine == JobsOf(deletion.person)
     IN deletion' =
          IF \E j \in mine : work[j].receipt THEN NoDeletion
          ELSE [deletion EXCEPT !.stage = "erased", !.erased = mine]
  /\ UNCHANGED <<account, inSession, work>>

(* The user's row, unless a terminal session refers to it; then the commit.*)
EraseUser ==
  /\ deletion.stage = "erased"
  /\ IF deletion.person \in inSession
     THEN UNCHANGED <<account, work>>
     ELSE /\ account' = [account EXCEPT ![deletion.person] = NoAccount]
          /\ work' = [j \in PrintJobs |-> IF j \in deletion.erased THEN NoWork ELSE work[j]]
  /\ deletion' = NoDeletion
  /\ UNCHANGED inSession

(* A statement fails, or the transaction is the victim of a deadlock: the  *)
(* settlement of a job waits for its user's row while it holds the job's.  *)
AbandonDeletion ==
  /\ deletion # NoDeletion
  /\ deletion' = NoDeletion
  /\ UNCHANGED <<account, inSession, work>>

OperatorStep ==
  \E p \in People :
    \/ \E role \in Roles : CreateUser(p, role) \/ UpdateUser(p, role)
    \/ SyncUserOnLogin(p) \/ CreateDefaultAdmin(p)
    \/ \E enabled \in BOOLEAN : UpdateUserEnabled(p, enabled)
    \/ LockUser(p)

PrintingStep ==
  \/ \E p \in People : LogIn(p) \/ LeaveSession(p) \/ \E j \in PrintJobs : AuthorizeJob(p, j)
  \/ \E j \in PrintJobs, phase \in {"active", "unconfirmed", "closed"} :
       MoveJob(j, phase) \/ ReportJob(j, phase)

AccountsNext ==
  OperatorStep \/ PrintingStep \/ CountActiveJobs \/ EraseJobs \/ EraseUser \/ AbandonDeletion

AccountsSpec == AccountsInit /\ [][AccountsNext]_accountVars

-----------------------------------------------------------------------------
(* Deleting a user never removes a job that is pending, dispatched or      *)
(* processing, however it races with authorizations and reports: except a  *)
(* job that was unconfirmed when the active ones were counted and that a   *)
(* report has made active again before the jobs were removed.  And it      *)
(* leaves no job without its owner.                                        *)
NoActiveJobErased ==
  [][/\ \A j \in PrintJobs :
          work[j].phase = "active" /\ work'[j].phase = "none" => j \in deletion.doubtful
     /\ \A p \in People : account'[p].kind = "none" =>
          \A j \in PrintJobs : work'[j].owner # p]_accountVars
=============================================================================
