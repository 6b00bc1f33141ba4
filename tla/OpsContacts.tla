---------------------------- MODULE OpsContacts ----------------------------
(***************************************************************************)
(* The people a terminal shows as its contacts: rows of their own that are *)
(* bound to nodes (ops_contact_repository.go, ops_contact_handler.go), at  *)
(* most as many per node as the settings allow (business/settings.go).     *)
(* The bindings of a contact are replaced in a transaction that counts     *)
(* those of every node before it adds one; it locks neither the node nor   *)
(* its bindings, and nothing it writes is seen before it commits.          *)
(*                                                                         *)
(* Left out: names and telephone numbers, the switch of a contact (only    *)
(* the list the terminal shows looks at it), the other settings, and the   *)
(* lists that are only read.  The row of a contact is never used again     *)
(* once it is removed; here it may be, when nothing refers to it any more. *)
(***************************************************************************)
EXTENDS Naturals, FiniteSets

CONSTANTS
  ContactNodes,  \* the nodes contacts are bound to
  Contacts,
  Replacers,     \* replacements of bindings that may run at once
  Limits,        \* the values an administrator sets the limit to
  DefaultLimit,  \* the limit of the configuration, when none can be read
  NoContact

ASSUME OpsContactsAssumption ==
  /\ Limits \subseteq 1..20 /\ DefaultLimit \in Limits
  /\ NoContact \notin Contacts

VARIABLES
  contact,    \* ops_contacts that are not marked deleted
  bound,      \* node_ops_contacts: <<node, contact>>
  gone,       \* nodes that are marked deleted
  limit,      \* the setting max_contacts_per_node
  replacing   \* the transaction of each replacer; overtaken: history, whether
              \* another one has committed since it began

contactVars == <<contact, bound, gone, limit, replacing>>

NoReplacement == [contact |-> NoContact, max |-> 0, cleared |-> {}, todo |-> {}, added |-> {}, overtaken |-> FALSE]

OpsContactsTypeOK ==
  /\ contact \subseteq Contacts
  /\ bound \subseteq ContactNodes \X Contacts
  /\ gone \subseteq ContactNodes
  /\ limit \in Limits
  /\ replacing \in [Replacers -> [contact : Contacts \cup {NoContact}, max : {0} \cup Limits,
                                  cleared : SUBSET (ContactNodes \X Contacts),
                                  todo : SUBSET ContactNodes,
                                  added : SUBSET ContactNodes,
                                  overtaken : BOOLEAN]]

OpsContactsInit ==
  /\ contact = {} /\ bound = {} /\ gone = {}
  /\ limit = DefaultLimit
  /\ replacing = [r \in Replacers |-> NoReplacement]

BindingsOf(c) == {b \in bound : b[2] = c}

(* Bindings that another transaction has deleted, or added, and not yet    *)
(* committed make the one that touches them wait.                          *)
Cleared(b) == \E r \in Replacers : b \in replacing[r].cleared
BeingAdded(n, c) == \E r \in Replacers : replacing[r].contact = c /\ n \in replacing[r].added

-----------------------------------------------------------------------------
(* ReplaceNodeBindings, begun with the limit read before it, or the        *)
(* default if that fails: the contact's bindings are deleted.              *)
StartReplacing(r, c, nodes) ==
  /\ replacing[r] = NoReplacement
  /\ \A b \in BindingsOf(c) : ~Cleared(b)
  /\ \E max \in {limit, DefaultLimit} :
       replacing' = [replacing EXCEPT ![r] =
         [contact |-> c, max |-> max, cleared |-> BindingsOf(c),
          todo |-> nodes, added |-> {}, overtaken |-> FALSE]]

ReplaceNodes(r, c, nodes) ==
  /\ c \in contact
  /\ StartReplacing(r, c, nodes)
  /\ UNCHANGED <<contact, bound, gone, limit>>

(* Create: the row first, and then its bindings if the request names any.  *)
CreateContact(r, c, nodes) ==
  /\ c \notin contact /\ BindingsOf(c) = {} /\ \A s \in Replacers : replacing[s].contact # c
  /\ contact' = contact \cup {c}
  /\ IF nodes = {} THEN UNCHANGED replacing ELSE StartReplacing(r, c, nodes)
  /\ UNCHANGED <<bound, gone, limit>>

(* What the COUNT of the transaction sees on a node: neither its own       *)
(* deletions nor a binding another one has added and not committed.        *)
CountOnNode(r, n) ==
  Cardinality({b \in bound \ replacing[r].cleared : b[1] = n /\ b[2] \in contact})

(* Mutant: the limit itself still lets one more in.                        *)
NodeFull_OneMore(r, n) == CountOnNode(r, n) > replacing[r].max

NodeFull(r, n) == CountOnNode(r, n) >= replacing[r].max

BindNode(r, n) ==
  /\ n \in replacing[r].todo
  /\ n \notin gone /\ ~NodeFull(r, n)
  /\ LET c == replacing[r].contact
     IN ~BeingAdded(n, c) /\ <<n, c>> \notin bound \ replacing[r].cleared
  /\ replacing' = [replacing EXCEPT ![r].todo = @ \ {n}, ![r].added = @ \cup {n}]
  /\ UNCHANGED <<contact, bound, gone, limit>>

CommitBindings(r) ==
  /\ replacing[r].contact # NoContact /\ replacing[r].todo = {}
  /\ bound' = (bound \ replacing[r].cleared)
                \cup {<<n, replacing[r].contact>> : n \in replacing[r].added}
  /\ replacing' = [s \in Replacers |->
       IF s = r \/ replacing[s] = NoReplacement THEN NoReplacement
       ELSE [replacing[s] EXCEPT !.overtaken = TRUE]]
  /\ UNCHANGED <<contact, gone, limit>>

(* A node that is deleted, full, or bound to the contact by somebody else  *)
(* meanwhile, a deadlock or a failing statement roll everything back.  A   *)
(* contact that was only just created, and so had no bindings, is removed  *)
(* again if that succeeds.                                                 *)
RollBackBindings(r) ==
  /\ replacing[r].contact # NoContact
  /\ \/ UNCHANGED contact
     \/ replacing[r].cleared = {} /\ contact' = contact \ {replacing[r].contact}
  /\ replacing' = [replacing EXCEPT ![r] = NoReplacement]
  /\ UNCHANGED <<bound, gone, limit>>

(* SoftDelete: the row is marked, and the bindings are deleted.  Those the *)
(* second statement leaves behind when it fails count nowhere.             *)
RemoveContact(c) ==
  /\ c \in contact
  /\ \A b \in BindingsOf(c) : ~Cleared(b)
  /\ contact' = contact \ {c}
  /\ bound' = bound \ BindingsOf(c)
  /\ UNCHANGED <<gone, limit, replacing>>

(* DeleteEdgeNode clears the node's bindings in the transaction that marks *)
(* it.                                                                     *)
DeleteContactNode(n) ==
  /\ n \notin gone
  /\ \A b \in bound : b[1] = n => ~Cleared(b)
  /\ gone' = gone \cup {n}
  /\ bound' = {b \in bound : b[1] # n}
  /\ UNCHANGED <<contact, limit, replacing>>

(* The settings are written in one transaction and read in one statement.  *)
UpdateSettings(to) ==
  /\ limit' = to
  /\ UNCHANGED <<contact, bound, gone, replacing>>

OpsContactsNext ==
  \/ \E r \in Replacers, c \in Contacts, nodes \in SUBSET ContactNodes :
       ReplaceNodes(r, c, nodes) \/ CreateContact(r, c, nodes)
  \/ \E r \in Replacers : CommitBindings(r) \/ RollBackBindings(r)
  \/ \E r \in Replacers, n \in ContactNodes : BindNode(r, n)
  \/ \E c \in Contacts : RemoveContact(c)
  \/ \E n \in ContactNodes : DeleteContactNode(n)
  \/ \E to \in Limits : UpdateSettings(to)

OpsContactsSpec == OpsContactsInit /\ [][OpsContactsNext]_contactVars

-----------------------------------------------------------------------------
OnNode(n) == Cardinality({b \in bound : b[1] = n /\ b[2] \in contact})

(* What is committed brings a node above the limit it was checked against  *)
(* only when another replacement has committed meanwhile, whose bindings   *)
(* the count of the first did not see: neither the removal of contacts, a  *)
(* node's deletion, a replacement that is rolled back nor a change of the  *)
(* limit overfills a node.                                                 *)
NodeOverfilledByOverlap ==
  [][\A n \in ContactNodes : OnNode(n)' > OnNode(n) =>
       \E r \in Replacers :
         /\ n \in replacing[r].added /\ replacing'[r] = NoReplacement
         /\ OnNode(n)' <= replacing[r].max \/ replacing[r].overtaken]_contactVars
=============================================================================
