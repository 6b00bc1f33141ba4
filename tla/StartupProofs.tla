--------------------------- MODULE StartupProofs ---------------------------
(***************************************************************************)
(* Proofs about Startup, for any number of instances, users and            *)
(* migrations.  StartsCleanly rests on how far each start has come: what   *)
(* it has passed is applied (Progress), the lock is held from the first    *)
(* check to the last (Locked), and a start that found no portal client and *)
(* met no other start still finds none (ClientFree).                       *)
(***************************************************************************)
EXTENDS Startup, TLAPS

(* Two starts that overlap are neither of them alone.                      *)
Alone == \A i, k \in Instances : i \in Starting /\ k \in Starting /\ i # k => i \notin lone

Locked ==
  \A i \in Instances : proc[i].at \in {"migrate", "apply", "unlock"} => holder = i

Progress ==
  \A i \in Instances :
    /\ proc[i].at \in {"tables", "lock"} => proc[i].next = 1
    /\ proc[i].at \in {"migrate", "apply"} => 1..proc[i].next - 1 \subseteq applied
    /\ proc[i].at = "apply" => proc[i].next \in Migrations \ applied
    /\ proc[i].at \in {"unlock", "grant", "client", "create", "up"} => applied = Migrations

(* Before the granting migration no user has quota, after it everyone who  *)
(* is known was granted.                                                   *)
Granted ==
  \A u \in Guests : IF GrantMigration \in applied
                    THEN guest[u].known => guest[u].grant
                    ELSE ~guest[u].quota

ClientFree ==
  \A i \in Instances :
    /\ proc[i].at = "create" /\ i \in lone => portalClient = "none"
    /\ proc[i].at = "failed" /\ i \in lone => portalClient = "taken"

StartupInv ==
  /\ StartupTypeOK
  /\ Alone /\ Locked /\ Progress /\ Granted /\ ClientFree

LEMMA AlwaysGrantable == Grantable
BY DEF Grantable, Ungranted

LEMMA Typing ==
  ASSUME StartupTypeOK, NEW i \in Instances
  PROVE  /\ proc[i].at \in Stages
         /\ proc[i].next \in 1..LastMigration + 1
         /\ \A x : (proc' = [proc EXCEPT ![i].at = x]) =>
              /\ x \in Stages => proc' \in [Instances -> [at : Stages, next : 1..LastMigration + 1]]
              /\ proc'[i].at = x /\ proc'[i].next = proc[i].next
              /\ \A k \in Instances \ {i} : proc'[k] = proc[k]
BY DEF StartupTypeOK

LEMMA LaunchKeeps ==
  ASSUME StartupInv, NEW i \in Instances, Launch(i)
  PROVE  StartupInv'
<1>1. /\ proc[i].at \in {"off", "failed"}
      /\ proc' = [proc EXCEPT ![i] = [at |-> "tables", next |-> 1]]
      /\ lone' = IF Starting = {} THEN lone \cup {i} ELSE lone \ ({i} \cup Starting)
      /\ UNCHANGED <<holder, applied, portalClient, guest>>
  BY DEF Launch
<1>2. /\ proc' \in [Instances -> [at : Stages, next : 1..LastMigration + 1]]
      /\ proc'[i].at = "tables"
      /\ \A k \in Instances \ {i} : proc'[k] = proc[k]
  BY <1>1, StartupAssumption DEF StartupInv, StartupTypeOK, Stages
<1>3. StartupTypeOK'
  BY <1>1, <1>2 DEF StartupInv, StartupTypeOK
<1>4. Starting' = Starting \cup {i}
  BY <1>2 DEF Starting, Ended
<1>5. Alone'
  BY <1>1, <1>4 DEF StartupInv, Alone
<1>6. Locked' /\ Progress' /\ Granted'
  BY <1>1, <1>2 DEF StartupInv, Locked, Progress, Granted
<1>7. ClientFree'
  BY <1>1, <1>2 DEF StartupInv, ClientFree, Starting, Ended
<1> QED
  BY <1>3, <1>5, <1>6, <1>7 DEF StartupInv

(* A step of one instance that starts no start.                            *)
LEMMA Moves ==
  ASSUME StartupInv, NEW i \in Instances, NEW x \in Stages,
         Goes(i, x), UNCHANGED lone,
         i \in Starting \/ x \in Ended
  PROVE  /\ proc' \in [Instances -> [at : Stages, next : 1..LastMigration + 1]]
         /\ proc'[i].at = x /\ proc'[i].next = proc[i].next
         /\ \A k \in Instances \ {i} : proc'[k] = proc[k]
         /\ Alone'
<1>1. /\ proc' \in [Instances -> [at : Stages, next : 1..LastMigration + 1]]
      /\ proc'[i].at = x /\ proc'[i].next = proc[i].next
      /\ \A k \in Instances \ {i} : proc'[k] = proc[k]
  BY Typing DEF StartupInv, Goes
<1>2. Starting' \subseteq Starting
  BY <1>1 DEF Starting
<1> QED
  BY <1>1, <1>2 DEF StartupInv, Alone

LEMMA CrashKeeps ==
  ASSUME StartupInv, NEW i \in Instances, Crash(i)
  PROVE  StartupInv'
<1>1. "off" \in Stages /\ "off" \in Ended
  BY DEF Stages, Ended
<1>2. /\ Goes(i, "off") /\ Unlock(i)
      /\ UNCHANGED <<lone, applied, portalClient, guest>>
  BY DEF Crash
<1>3. /\ proc' \in [Instances -> [at : Stages, next : 1..LastMigration + 1]]
      /\ proc'[i].at = "off"
      /\ \A k \in Instances \ {i} : proc'[k] = proc[k]
      /\ Alone'
  BY <1>1, <1>2, Moves
<1>4. StartupTypeOK' /\ Locked'
  BY <1>2, <1>3 DEF StartupInv, StartupTypeOK, Locked, Unlock
<1>5. Progress' /\ Granted' /\ ClientFree'
  BY <1>2, <1>3 DEF StartupInv, Progress, Granted, ClientFree
<1> QED
  BY <1>3, <1>4, <1>5 DEF StartupInv

LEMMA TablesKeeps ==
  ASSUME StartupInv, NEW i \in Instances, CreateTables(i)
  PROVE  StartupInv'
<1>1. PICK x : /\ Goes(i, x)
               /\ \/ x = "lock"
                  \/ x = "failed" /\ \E k \in Instances \ {i} : proc[k].at = "tables"
  BY DEF CreateTables
<1>2. /\ proc[i].at = "tables"
      /\ UNCHANGED <<lone, holder, applied, portalClient, guest>>
  BY DEF CreateTables
<1>3. x \in Stages /\ i \in Starting
  BY <1>1, <1>2 DEF Stages, Ended, Starting
<1>4. /\ proc' \in [Instances -> [at : Stages, next : 1..LastMigration + 1]]
      /\ proc'[i].at = x /\ proc'[i].next = proc[i].next
      /\ \A k \in Instances \ {i} : proc'[k] = proc[k]
      /\ Alone'
  BY <1>1, <1>2, <1>3, Moves
<1>5. StartupTypeOK' /\ Locked' /\ Granted'
  BY <1>1, <1>2, <1>4 DEF StartupInv, StartupTypeOK, Locked, Granted
<1>8. Progress'
  BY <1>1, <1>2, <1>4 DEF StartupInv, Progress
<1>6. x = "failed" => i \notin lone
  BY <1>1, <1>3 DEF StartupInv, Alone, Starting, Ended
<1>7. ClientFree'
  BY <1>1, <1>2, <1>4, <1>6 DEF StartupInv, ClientFree
<1> QED
  BY <1>4, <1>5, <1>7, <1>8 DEF StartupInv

LEMMA LockKeeps ==
  ASSUME StartupInv, NEW i \in Instances, LockMigrations(i)
  PROVE  StartupInv'
<1>1. /\ proc[i].at = "lock" /\ holder = "free" /\ holder' = i
      /\ Goes(i, "migrate")
      /\ UNCHANGED <<lone, applied, portalClient, guest>>
  BY DEF LockMigrations
<1>2. "migrate" \in Stages /\ i \in Starting
  BY <1>1 DEF Stages, Ended, Starting
<1>3. /\ proc' \in [Instances -> [at : Stages, next : 1..LastMigration + 1]]
      /\ proc'[i].at = "migrate" /\ proc'[i].next = proc[i].next
      /\ \A k \in Instances \ {i} : proc'[k] = proc[k]
      /\ Alone'
  BY <1>1, <1>2, Moves
<1>4. StartupTypeOK' /\ Locked' /\ Granted' /\ ClientFree'
  BY <1>1, <1>3, StartupAssumption DEF StartupInv, StartupTypeOK, Locked, Granted, ClientFree
<1>5. Progress'
  <2>1. proc[i].next = 1
    BY <1>1 DEF StartupInv, Progress
  <2>2. 1..proc'[i].next - 1 = {}
    BY <1>3, <2>1
  <2> QED
    BY <1>1, <1>3, <2>2 DEF StartupInv, Progress
<1> QED
  BY <1>3, <1>4, <1>5 DEF StartupInv

LEMMA UnlockKeeps ==
  ASSUME StartupInv, NEW i \in Instances, UnlockMigrations(i)
  PROVE  StartupInv'
<1>1. /\ proc[i].at = "unlock"
      /\ Unlock(i)
      /\ Goes(i, "grant")
      /\ UNCHANGED <<lone, applied, portalClient, guest>>
  BY DEF UnlockMigrations
<1>2. "grant" \in Stages /\ i \in Starting
  BY <1>1 DEF Stages, Ended, Starting
<1>3. /\ proc' \in [Instances -> [at : Stages, next : 1..LastMigration + 1]]
      /\ proc'[i].at = "grant"
      /\ \A k \in Instances \ {i} : proc'[k] = proc[k]
      /\ Alone'
  BY <1>1, <1>2, Moves
<1>4. StartupTypeOK' /\ Locked'
  BY <1>1, <1>3 DEF StartupInv, StartupTypeOK, Locked, Unlock
<1>5. Progress' /\ Granted' /\ ClientFree'
  BY <1>1, <1>3 DEF StartupInv, Progress, Granted, ClientFree
<1> QED
  BY <1>3, <1>4, <1>5 DEF StartupInv

LEMMA CheckKeeps ==
  ASSUME StartupInv, NEW i \in Instances, CheckMigration(i)
  PROVE  StartupInv'
<1>1. /\ proc[i].at = "migrate"
      /\ UNCHANGED <<lone, holder, applied, portalClient, guest>>
  BY DEF CheckMigration
<1>2. /\ proc[i].next \in 1..LastMigration + 1
      /\ 1..proc[i].next - 1 \subseteq applied
      /\ applied \subseteq Migrations
      /\ LastMigration \in Nat
  BY <1>1, StartupAssumption, Typing DEF StartupInv, StartupTypeOK, Progress
<1>3. i \in Starting /\ {"unlock", "migrate", "apply"} \subseteq Stages
  BY <1>1 DEF Stages, Ended, Starting
<1>4. CASE proc[i].next > LastMigration /\ Goes(i, "unlock")
  <2>1. Goes(i, "unlock")
    BY <1>4
  <2>2. /\ proc' \in [Instances -> [at : Stages, next : 1..LastMigration + 1]]
        /\ proc'[i].at = "unlock"
        /\ \A k \in Instances \ {i} : proc'[k] = proc[k]
        /\ Alone'
    BY <1>1, <1>3, <2>1, Moves
  <2>3. applied = Migrations
    <3>1. proc[i].next - 1 = LastMigration
      BY <1>2, <1>4
    <3> QED
      BY <1>2, <3>1 DEF Migrations
  <2>4. StartupTypeOK' /\ Locked'
    BY <1>1, <2>2 DEF StartupInv, StartupTypeOK, Locked
  <2>5. Progress' /\ Granted' /\ ClientFree'
    BY <1>1, <2>2, <2>3 DEF StartupInv, Progress, Granted, ClientFree
  <2> QED
    BY <2>2, <2>4, <2>5 DEF StartupInv
<1>5. CASE proc[i].next \in Migrations \ applied /\ Goes(i, "apply")
  <2>1. Goes(i, "apply")
    BY <1>5
  <2>2. /\ proc' \in [Instances -> [at : Stages, next : 1..LastMigration + 1]]
        /\ proc'[i].at = "apply" /\ proc'[i].next = proc[i].next
        /\ \A k \in Instances \ {i} : proc'[k] = proc[k]
        /\ Alone'
    BY <1>1, <1>3, <2>1, Moves
  <2>3. proc[i].next \in Migrations \ applied
    BY <1>2, <1>5 DEF Migrations
  <2>4. StartupTypeOK' /\ Locked'
    BY <1>1, <2>2 DEF StartupInv, StartupTypeOK, Locked
  <2>5. Progress' /\ Granted' /\ ClientFree'
    BY <1>1, <1>2, <2>2, <2>3 DEF StartupInv, Progress, Granted, ClientFree
  <2> QED
    BY <2>2, <2>4, <2>5 DEF StartupInv
<1>6. CASE proc[i].next \in applied /\ proc' = [proc EXCEPT ![i].next = @ + 1]
  <2>1. proc[i].next \in 1..LastMigration
    BY <1>2, <1>6 DEF Migrations
  <2>2. /\ proc' \in [Instances -> [at : Stages, next : 1..LastMigration + 1]]
        /\ proc'[i].at = "migrate" /\ proc'[i].next = proc[i].next + 1
        /\ \A k \in Instances \ {i} : proc'[k] = proc[k]
    BY <1>1, <1>2, <1>6, <2>1 DEF StartupInv, StartupTypeOK
  <2>3. Starting' \subseteq Starting
    BY <1>3, <2>2 DEF Starting
  <2>4. Alone' /\ StartupTypeOK' /\ Locked'
    BY <1>1, <2>2, <2>3 DEF StartupInv, Alone, StartupTypeOK, Locked
  <2>5. 1..proc'[i].next - 1 \subseteq applied
    <3> SUFFICES ASSUME NEW m \in 1..proc[i].next PROVE m \in applied
      BY <1>2, <2>2
    <3>1. CASE m = proc[i].next
      BY <1>6, <3>1
    <3>2. CASE m # proc[i].next
      <4>1. m \in 1..proc[i].next - 1
        BY <1>2, <3>2
      <4> QED
        BY <1>2, <4>1
    <3> QED
      BY <3>1, <3>2
  <2>6. Progress' /\ Granted' /\ ClientFree'
    BY <1>1, <2>2, <2>5 DEF StartupInv, Progress, Granted, ClientFree
  <2> QED
    BY <2>4, <2>6 DEF StartupInv
<1> QED
  BY <1>4, <1>5, <1>6 DEF CheckMigration

(* What the granting statement leaves.                                     *)
LEMMA GrantGives ==
  ASSUME StartupTypeOK, Grant
  PROVE  /\ guest' \in [Guests -> [known : BOOLEAN, grant : BOOLEAN, quota : BOOLEAN]]
         /\ \A u \in Guests :
              /\ guest'[u].known = guest[u].known
              /\ guest[u].grant => guest'[u].grant
              /\ guest[u].known /\ ~guest[u].quota => guest'[u].grant
BY DEF StartupTypeOK, Grant, Ungranted

LEMMA ApplyKeeps ==
  ASSUME StartupInv, NEW i \in Instances, ApplyMigration(i)
  PROVE  StartupInv'
<1>1. PICK m : m = proc[i].next
  OBVIOUS
<1>2. /\ proc[i].at = "apply" /\ holder = i
      /\ m \in Migrations \ applied
      /\ 1..m - 1 \subseteq applied
      /\ applied \subseteq Migrations
  BY <1>1 DEF ApplyMigration, StartupInv, Progress, Locked, StartupTypeOK
<1>3. ~Refused(m)
  BY <1>2, AlwaysGrantable DEF Refused
<1>4. /\ applied' = applied \cup {m}
      /\ IF m = GrantMigration THEN Grant ELSE UNCHANGED guest
      /\ proc' = [proc EXCEPT ![i] = [at |-> "migrate", next |-> m + 1]]
      /\ UNCHANGED <<lone, holder, portalClient>>
  BY <1>1, <1>3 DEF ApplyMigration
<1>5. m \in 1..LastMigration /\ LastMigration \in Nat
  BY <1>2, StartupAssumption DEF Migrations
<1>6. /\ proc' \in [Instances -> [at : Stages, next : 1..LastMigration + 1]]
      /\ proc'[i].at = "migrate" /\ proc'[i].next = m + 1
      /\ \A k \in Instances \ {i} : proc'[k] = proc[k]
  <2>1. [at |-> "migrate", next |-> m + 1] \in [at : Stages, next : 1..LastMigration + 1]
    BY <1>5 DEF Stages
  <2> QED
    BY <1>4, <2>1 DEF StartupInv, StartupTypeOK
<1>7. \A k \in Instances \ {i} : proc[k].at \notin
        {"migrate", "apply", "unlock", "grant", "client", "create", "up"}
  BY <1>2 DEF StartupInv, Locked, Progress
<1>8. StartupTypeOK'
  BY <1>2, <1>4, <1>6, GrantGives DEF StartupInv, StartupTypeOK
<1>9. Alone'
  <2>1. Starting' \subseteq Starting
    BY <1>2, <1>6 DEF Starting, Ended
  <2> QED
    BY <1>4, <2>1 DEF StartupInv, Alone
<1>10. Locked' /\ ClientFree'
  BY <1>2, <1>4, <1>6 DEF StartupInv, Locked, ClientFree
<1>11. 1..(m + 1) - 1 \subseteq applied'
  <2> SUFFICES ASSUME NEW x \in 1..(m + 1) - 1 PROVE x \in applied \cup {m}
    BY <1>4
  <2>1. x = m \/ x \in 1..m - 1
    BY <1>5
  <2> QED
    BY <1>2, <2>1
<1>12. Progress'
  BY <1>6, <1>7, <1>11 DEF StartupInv, Progress
<1>13. Granted'
  <2>1. CASE m = GrantMigration
    BY <1>2, <1>4, <2>1, GrantGives DEF StartupInv, Granted
  <2>2. CASE m # GrantMigration
    BY <1>4, <2>2 DEF StartupInv, Granted
  <2> QED
    BY <2>1, <2>2
<1> QED
  BY <1>8, <1>9, <1>10, <1>12, <1>13 DEF StartupInv

LEMMA SchemaKeeps ==
  ASSUME StartupInv, NEW i \in Instances, InitPrintAuthorizationSchema(i)
  PROVE  StartupInv'
<1>1. /\ proc[i].at = "grant"
      /\ Grant /\ Goes(i, "client")
      /\ UNCHANGED <<lone, holder, applied, portalClient>>
  BY AlwaysGrantable DEF InitPrintAuthorizationSchema
<1>2. "client" \in Stages /\ i \in Starting
  BY <1>1 DEF Stages, Ended, Starting
<1>3. /\ proc' \in [Instances -> [at : Stages, next : 1..LastMigration + 1]]
      /\ proc'[i].at = "client"
      /\ \A k \in Instances \ {i} : proc'[k] = proc[k]
      /\ Alone'
  BY <1>1, <1>2, Moves
<1>4. applied = Migrations /\ GrantMigration \in applied
  <2>1. applied = Migrations
    BY <1>1 DEF StartupInv, Progress
  <2> QED
    BY <2>1, StartupAssumption DEF Migrations
<1>5. StartupTypeOK' /\ Granted'
  BY <1>1, <1>3, <1>4, GrantGives DEF StartupInv, StartupTypeOK, Granted
<1>6. Locked' /\ Progress' /\ ClientFree'
  BY <1>1, <1>3, <1>4 DEF StartupInv, Locked, Progress, ClientFree
<1> QED
  BY <1>3, <1>5, <1>6 DEF StartupInv

LEMMA ClientKeeps ==
  ASSUME StartupInv, NEW i \in Instances, EnsureBootstrapSitePortalClient(i)
  PROVE  StartupInv'
<1>1. proc[i].at \in {"client", "create"} /\ UNCHANGED <<lone, holder, applied, guest>>
  BY DEF EnsureBootstrapSitePortalClient
<1>2. portalClient \in {"none", "own", "taken"} /\ applied = Migrations /\ i \in Starting
  BY <1>1 DEF StartupInv, StartupTypeOK, Progress, Starting, Ended
<1>3. PICK x \in {"up", "create", "failed"} :
        /\ Goes(i, x)
        /\ \/ UNCHANGED portalClient
           \/ portalClient = "none" /\ portalClient' = "own" /\ x = "up"
        /\ x = "create" => portalClient = "none" /\ UNCHANGED portalClient
        /\ x = "failed" => portalClient = "taken" \/ (proc[i].at = "create" /\ portalClient # "none")
        /\ x = "failed" => UNCHANGED portalClient
  <2>1. CASE proc[i].at = "client"
    BY <1>2, <2>1 DEF EnsureBootstrapSitePortalClient
  <2>2. CASE proc[i].at = "create"
    BY <1>2, <2>2 DEF EnsureBootstrapSitePortalClient
  <2> QED
    BY <1>1, <2>1, <2>2
<1>4. x \in Stages
  BY DEF Stages, Ended
<1>5. /\ proc' \in [Instances -> [at : Stages, next : 1..LastMigration + 1]]
      /\ proc'[i].at = x
      /\ \A k \in Instances \ {i} : proc'[k] = proc[k]
      /\ Alone'
  BY <1>1, <1>2, <1>3, <1>4, Moves
<1>6. StartupTypeOK' /\ Locked' /\ Granted'
  BY <1>1, <1>2, <1>3, <1>5 DEF StartupInv, StartupTypeOK, Locked, Granted
<1>7. Progress'
  BY <1>1, <1>2, <1>5 DEF StartupInv, Progress
<1>8. ClientFree'
  <2> SUFFICES ASSUME NEW k \in Instances, k \in lone
               PROVE  /\ proc'[k].at = "create" => portalClient' = "none"
                      /\ proc'[k].at = "failed" => portalClient' = "taken"
    BY <1>1 DEF ClientFree
  <2>1. CASE k = i
    BY <1>3, <1>5, <2>1 DEF StartupInv, ClientFree
  <2>2. CASE k # i
    <3>1. proc[k].at # "create"
      BY <1>2, <2>2 DEF StartupInv, Alone, Starting, Ended
    <3>2. proc[k].at = "failed" => portalClient = "taken"
      BY DEF StartupInv, ClientFree
    <3> QED
      BY <1>3, <1>5, <2>2, <3>1, <3>2
  <2> QED
    BY <2>1, <2>2
<1> QED
  BY <1>5, <1>6, <1>7, <1>8 DEF StartupInv

LEMMA ServeKeeps ==
  ASSUME StartupInv, NEW u \in Guests, Serve(u)
  PROVE  StartupInv'
<1>1. PICK i \in Instances : proc[i].at = "up"
  BY DEF Serve, Serving
<1>2. UNCHANGED <<proc, lone, holder, applied, portalClient>>
  BY DEF Serve
<1>3. GrantMigration \in applied
  <2>1. applied = Migrations
    BY <1>1 DEF StartupInv, Progress
  <2> QED
    BY <2>1, StartupAssumption DEF Migrations
<1>4. guest' \in [Guests -> [known : BOOLEAN, grant : BOOLEAN, quota : BOOLEAN]]
  <2> DEFINE Records == [known : BOOLEAN, grant : BOOLEAN, quota : BOOLEAN]
  <2>1. guest \in [Guests -> Records]
    BY DEF StartupInv, StartupTypeOK
  <2>2. CASE Login(u)
    BY <2>1, <2>2 DEF Login
  <2>3. CASE ChangeQuota(u)
    <3>1. guest[u] \in Records
      BY <2>1
    <3>2. PICK r : r = [guest[u] EXCEPT !.quota = ~guest[u].quota]
      OBVIOUS
    <3>3. (~guest[u].quota) \in BOOLEAN
      OBVIOUS
    <3>4. r \in Records
      BY <3>1, <3>2, <3>3
    <3>5. guest' = [guest EXCEPT ![u] = r]
      BY <2>3, <3>2 DEF ChangeQuota
    <3>6. guest' \in [Guests -> Records]
      <4> HIDE DEF Records
      <4> QED
        BY <2>1, <3>4, <3>5
    <3> QED
      BY <3>6
  <2> QED
    BY <2>2, <2>3 DEF Serve
<1>5. Granted'
  BY <1>2, <1>3 DEF Serve, Login, ChangeQuota, StartupInv, StartupTypeOK, Granted
<1>6. StartupTypeOK'
  BY <1>2, <1>4 DEF StartupInv, StartupTypeOK
<1>7. Alone' /\ Locked' /\ Progress' /\ ClientFree'
  BY <1>2 DEF StartupInv, Alone, Starting, Locked, Progress, ClientFree
<1> QED
  BY <1>5, <1>6, <1>7 DEF StartupInv

-----------------------------------------------------------------------------
LEMMA StartupInitInv == StartupInit => StartupInv
<1> SUFFICES ASSUME StartupInit PROVE StartupInv
  OBVIOUS
<1>1. PICK k \in 0..GrantMigration - 1 :
        /\ applied = 1..k
        /\ guest \in [Guests -> [known : {FALSE, k # 0}, grant : {FALSE}, quota : {FALSE}]]
  BY DEF StartupInit
<1>2. applied \subseteq Migrations /\ GrantMigration \notin applied
  BY <1>1, StartupAssumption DEF Migrations
<1>3. guest \in [Guests -> [known : BOOLEAN, grant : BOOLEAN, quota : BOOLEAN]]
      /\ \A u \in Guests : ~guest[u].quota
  BY <1>1
<1>4. proc \in [Instances -> [at : Stages, next : 1..LastMigration + 1]]
  BY StartupAssumption DEF StartupInit, Stages, Ended
<1>5. StartupTypeOK
  BY <1>2, <1>3, <1>4 DEF StartupInit, StartupTypeOK
<1>6. Alone /\ Locked /\ Progress /\ ClientFree
  BY DEF StartupInit, Alone, Locked, Progress, ClientFree
<1>7. Granted
  BY <1>2, <1>3 DEF Granted
<1> QED
  BY <1>5, <1>6, <1>7 DEF StartupInv

LEMMA StartupStepInv == StartupInv /\ [StartupNext]_startupVars => StartupInv'
<1> SUFFICES ASSUME StartupInv, [StartupNext]_startupVars PROVE StartupInv'
  OBVIOUS
<1>1. ASSUME NEW i \in Instances,
             \/ Launch(i) \/ Crash(i) \/ CreateTables(i) \/ LockMigrations(i)
             \/ CheckMigration(i) \/ ApplyMigration(i) \/ UnlockMigrations(i)
             \/ InitPrintAuthorizationSchema(i)
             \/ EnsureBootstrapSitePortalClient(i)
      PROVE  StartupInv'
  BY <1>1, LaunchKeeps, CrashKeeps, TablesKeeps, LockKeeps, CheckKeeps, ApplyKeeps,
     UnlockKeeps, SchemaKeeps, ClientKeeps
<1>2. ASSUME NEW u \in Guests, Serve(u) PROVE StartupInv'
  BY <1>2, ServeKeeps
<1>3. CASE UNCHANGED startupVars
  BY <1>3 DEF startupVars, StartupInv, StartupTypeOK, Alone, Starting, Locked, Progress,
     Granted, ClientFree
<1> QED
  BY <1>1, <1>2, <1>3 DEF StartupNext

(* Wherever earlier starts were cut off, and whatever users have spent: a  *)
(* start that meets no other start comes up, unless the portal's client is *)
(* another's; and an instance serves only a whole schema and granted users.*)
THEOREM StartsAreClean == StartupSpec => []StartsCleanly
<1>1. StartupInv => StartsCleanly
  <2> SUFFICES ASSUME StartupInv PROVE StartsCleanly
    OBVIOUS
  <2>1. \A i \in Instances : proc[i].at = "failed" => i \notin lone \/ portalClient = "taken"
    BY DEF StartupInv, ClientFree
  <2>2. ASSUME NEW i \in Instances, proc[i].at = "up"
        PROVE  /\ applied = Migrations
               /\ \A u \in Guests : guest[u].known => guest[u].grant
    <3>1. applied = Migrations
      BY <2>2 DEF StartupInv, Progress
    <3>2. GrantMigration \in applied
      BY <3>1, StartupAssumption DEF Migrations
    <3> QED
      BY <3>1, <3>2 DEF StartupInv, Granted
  <2> QED
    BY <2>1, <2>2 DEF StartsCleanly, Serving
<1>2. StartupSpec => []StartupInv
  BY StartupInitInv, StartupStepInv, PTL DEF StartupSpec
<1> QED
  BY <1>1, <1>2, PTL
=============================================================================
