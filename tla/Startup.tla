------------------------------ MODULE Startup ------------------------------
(***************************************************************************)
(* The start of API instances on one database: the base tables, created by *)
(* statements outside any lock (database.go), the numbered migrations under *)
(* a session lock (migrations/runner.go), the statements kept for callers  *)
(* without migrations, of which the last grants quota to external users    *)
(* that were never granted any, and the OAuth client of the bootstrap      *)
(* portal (main.go).  An instance is restarted whenever it ends, and may   *)
(* end between any two statements; two may start at once, next to          *)
(* instances that serve logins and prints.  The default administrator is   *)
(* in Accounts, the bootstrap portal's row in PortalConfig.                *)
(*                                                                         *)
(* Abstractions: the first migrations, up to the one that grants, and the  *)
(* last stand for all; a migration's SQL is one transaction that succeeds; *)
(* a user's quota is there or used up.                                     *)
(***************************************************************************)
EXTENDS Naturals

CONSTANTS
  Instances,       \* API processes (at most one per container)
  Guests,          \* users of an external login
  GrantMigration,  \* the migration that gives quota (012)
  LastMigration    \* the migrations are 1..LastMigration, in name order

ASSUME StartupAssumption ==
  /\ GrantMigration \in Nat \ {0}
  /\ LastMigration \in Nat
  /\ GrantMigration <= LastMigration
  /\ "free" \notin Instances

VARIABLES
  proc,     \* where an instance is, and the migration it looks at
  lone,     \* instances that overlapped no other instance's start (history)
  holder,   \* the instance that holds the migration lock, or "free"
  applied,  \* the rows of schema_migrations
  portalClient, \* the bootstrap portal's OAuth client: none, its own, or taken
  guest     \* a guest's identity, initial grant and quota

startupVars == <<proc, lone, holder, applied, portalClient, guest>>

Migrations == 1..LastMigration

Ended == {"off", "up", "failed"}
Stages == Ended \cup
  {"tables", "lock", "migrate", "apply", "unlock", "grant", "client", "create"}

Starting == {i \in Instances : proc[i].at \notin Ended}

StartupTypeOK ==
  /\ proc \in [Instances -> [at : Stages, next : 1..LastMigration + 1]]
  /\ lone \subseteq Instances
  /\ holder \in Instances \cup {"free"}
  /\ applied \subseteq Migrations
  /\ portalClient \in {"none", "own", "taken"}
  /\ guest \in [Guests -> [known : BOOLEAN, grant : BOOLEAN, quota : BOOLEAN]]

(* The database is new, or older than the migration that grants: then it   *)
(* may hold users of an external login, all without quota.                 *)
StartupInit ==
  /\ proc = [i \in Instances |-> [at |-> "off", next |-> 1]]
  /\ lone = {}
  /\ holder = "free"
  /\ \E k \in 0..GrantMigration - 1 :
       /\ applied = 1..k
       /\ guest \in [Guests -> [known : {FALSE, k # 0}, grant : {FALSE}, quota : {FALSE}]]
  /\ portalClient \in {"none", "taken"}

Goes(i, stage) == proc' = [proc EXCEPT ![i].at = stage]
Unlock(i) == holder' = IF holder = i THEN "free" ELSE holder

Launch(i) ==
  /\ proc[i].at \in {"off", "failed"}
  /\ proc' = [proc EXCEPT ![i] = [at |-> "tables", next |-> 1]]
  /\ lone' = IF Starting = {} THEN lone \cup {i} ELSE lone \ ({i} \cup Starting)
  /\ UNCHANGED <<holder, applied, portalClient, guest>>

(* The process ends at any moment, for a reason of its own or because the  *)
(* database fails a statement; the connection's lock goes with it.         *)
Crash(i) ==
  /\ proc[i].at \notin {"off", "failed"}
  /\ Goes(i, "off")
  /\ Unlock(i)
  /\ UNCHANGED <<lone, applied, portalClient, guest>>

(* The base tables, triggers and indexes.  The statements hold no lock:    *)
(* next to those of another start the database may refuse one of them.     *)
CreateTables(i) ==
  /\ proc[i].at = "tables"
  /\ \/ Goes(i, "lock")
     \/ \E k \in Instances \ {i} : proc[k].at = "tables" /\ Goes(i, "failed")
  /\ UNCHANGED <<lone, holder, applied, portalClient, guest>>

LockMigrations(i) ==
  /\ proc[i].at = "lock"
  /\ holder = "free"
  /\ holder' = i
  /\ Goes(i, "migrate")
  /\ UNCHANGED <<lone, applied, portalClient, guest>>

CheckMigration(i) ==
  /\ proc[i].at = "migrate"
  /\ \/ proc[i].next > LastMigration /\ Goes(i, "unlock")
     \/ proc[i].next \in Migrations \ applied /\ Goes(i, "apply")
     \/ proc[i].next \in applied /\ proc' = [proc EXCEPT ![i].next = @ + 1]
  /\ UNCHANGED <<lone, holder, applied, portalClient, guest>>

(* Mutant: the statement does not look for an earlier grant.               *)
Ungranted_Again ==
  {u \in Guests : guest[u].known /\ ~guest[u].quota}

(* The users the granting statement takes: known from a login, without     *)
(* quota, and never granted any.                                           *)
Ungranted ==
  {u \in Guests : guest[u].known /\ ~guest[u].quota /\ ~guest[u].grant}

(* The statement gives every user it takes quota and a grant row; the      *)
(* unique index on grant rows makes it fail as a whole for a user that has *)
(* one already.                                                            *)
Grantable == \A u \in Ungranted : ~guest[u].grant
Grant ==
  guest' = [u \in Guests |-> IF u \in Ungranted
                             THEN [guest[u] EXCEPT !.grant = TRUE, !.quota = TRUE]
                             ELSE guest[u]]

(* A migration and its row commit together.  The row is written once; a    *)
(* refused transaction ends the start.                                     *)
Refused(m) == m \in applied \/ (m = GrantMigration /\ ~Grantable)

ApplyMigration(i) ==
  LET m == proc[i].next
  IN  /\ proc[i].at = "apply"
      /\ IF Refused(m)
         THEN Goes(i, "failed") /\ Unlock(i) /\ UNCHANGED <<applied, guest>>
         ELSE /\ applied' = applied \cup {m}
              /\ IF m = GrantMigration THEN Grant ELSE UNCHANGED guest
              /\ proc' = [proc EXCEPT ![i] = [at |-> "migrate", next |-> m + 1]]
              /\ UNCHANGED holder
      /\ UNCHANGED <<lone, portalClient>>

UnlockMigrations(i) ==
  /\ proc[i].at = "unlock"
  /\ Unlock(i)
  /\ Goes(i, "grant")
  /\ UNCHANGED <<lone, applied, portalClient, guest>>

(* initSitePortalSchema and initPrintAuthorizationSchema change nothing in *)
(* a migrated database but grant, on every start.                          *)
InitPrintAuthorizationSchema(i) ==
  /\ proc[i].at = "grant"
  /\ IF Grantable THEN Grant /\ Goes(i, "client") ELSE UNCHANGED guest /\ Goes(i, "failed")
  /\ UNCHANGED <<lone, holder, applied, portalClient>>

(* The client is read, then created: a client id, and a portal, has one.   *)
EnsureBootstrapSitePortalClient(i) ==
  /\ \/ /\ proc[i].at = "client"
        /\ Goes(i, CASE portalClient = "own"   -> "up"
                     [] portalClient = "none"  -> "create"
                     [] portalClient = "taken" -> "failed")
        /\ UNCHANGED portalClient
     \/ /\ proc[i].at = "create"
        /\ IF portalClient = "none" THEN portalClient' = "own" /\ Goes(i, "up")
                              ELSE UNCHANGED portalClient /\ Goes(i, "failed")
  /\ UNCHANGED <<lone, holder, applied, guest>>

Serving == {i \in Instances : proc[i].at = "up"}

(* What a serving instance does to the quota: the first login of a guest   *)
(* writes the account, the grant and the identity in one transaction; an   *)
(* authorization takes the last of it, a refund or an administrator gives  *)
(* some back.                                                              *)
Login(u) ==
  /\ ~guest[u].known
  /\ guest' = [guest EXCEPT ![u] = [known |-> TRUE, grant |-> TRUE, quota |-> TRUE]]

ChangeQuota(u) ==
  /\ guest[u].known
  /\ guest' = [guest EXCEPT ![u].quota = ~@]

Serve(u) ==
  /\ Serving # {}
  /\ Login(u) \/ ChangeQuota(u)
  /\ UNCHANGED <<proc, lone, holder, applied, portalClient>>

StartupNext ==
  \/ \E i \in Instances :
       \/ Launch(i) \/ Crash(i) \/ CreateTables(i) \/ LockMigrations(i)
       \/ CheckMigration(i) \/ ApplyMigration(i) \/ UnlockMigrations(i)
       \/ InitPrintAuthorizationSchema(i)
       \/ EnsureBootstrapSitePortalClient(i)
  \/ \E u \in Guests : Serve(u)

StartupSpec == StartupInit /\ [][StartupNext]_startupVars

-----------------------------------------------------------------------------
(* Wherever earlier starts were cut off, and whatever the users have spent *)
(* since: a start fails only when another one ran beside it, or the client *)
(* of the bootstrap portal is not the portal's; and an instance serves     *)
(* only on the whole schema, every user of an external login granted.      *)
StartsCleanly ==
  /\ \A i \in Instances : proc[i].at = "failed" => i \notin lone \/ portalClient = "taken"
  /\ Serving # {} =>
       /\ applied = Migrations
       /\ \A u \in Guests : guest[u].known => guest[u].grant
=============================================================================
