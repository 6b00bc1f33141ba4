---------------------------- MODULE QuotaPromise ----------------------------
(***************************************************************************)
(* What the quota promises to a user, without messages, receipts, ledgers  *)
(* or maintenance tasks: the price of a job is held out of what the user   *)
(* has, once; and what is held goes one of two ways, once: the job was     *)
(* printed and the whole price is spent, or it was not and all but what    *)
(* the printer consumed returns to the same user.  PrintSettlement is      *)
(* shown to implement this module.                                         *)
(***************************************************************************)
EXTENDS Naturals

CONSTANTS
  Users,          \* portal accounts
  Jobs,           \* jobs that may hold quota
  InitialQuota,   \* what a new account has
  GrantAmounts    \* what an administrator may add

VARIABLES
  available,      \* what each user may still spend
  holds           \* what is held for each job, or what became of it

NoHold == [stage |-> "free"]
Held(u, price)           == [stage |-> "held", user |-> u, price |-> price]
Spent(u, price)          == [stage |-> "spent", user |-> u, price |-> price]
Released(u, price, cost) == [stage |-> "released", user |-> u, price |-> price, cost |-> cost]

Init ==
  /\ available = [u \in Users |-> InitialQuota]
  /\ holds = [j \in Jobs |-> NoHold]

Grant(u, amount) ==
  /\ available' = [available EXCEPT ![u] = @ + amount]
  /\ UNCHANGED holds

Hold(j, u, price) ==
  /\ holds[j] = NoHold
  /\ available' = [available EXCEPT ![u] = @ - price]
  /\ holds' = [holds EXCEPT ![j] = Held(u, price)]

Spend(j) ==
  /\ holds' = [holds EXCEPT ![j] = Spent(@.user, @.price)]
  /\ UNCHANGED available

Release(j, cost) ==
  /\ available' = [available EXCEPT ![holds[j].user] = @ + (holds[j].price - cost)]
  /\ holds' = [holds EXCEPT ![j] = Released(@.user, @.price, cost)]

Open == {j \in Jobs : holds[j].stage = "held"}

Next ==
  \/ \E u \in Users, amount \in GrantAmounts : Grant(u, amount)
  \/ \E j \in Jobs, u \in Users : \E price \in 1..available[u] : Hold(j, u, price)
  \/ \E j \in Open : Spend(j)
  \/ \E j \in Open : \E cost \in 0..holds[j].price : Release(j, cost)

Spec == Init /\ [][Next]_<<available, holds>>
=============================================================================
