-------------------------- MODULE EdgeCredentials --------------------------
(***************************************************************************)
(* How a node comes to its identity.  An administrator creates a pending   *)
(* node with a one-time code that expires (edge_activation_handler.go); the*)
(* device redeems the code for an OAuth client bound to the node, gets     *)
(* tokens with it (builtin_auth_service.go) and reports its profile.  The  *)
(* administrator may also manage clients directly                          *)
(* (oauth2_client_handler.go), switch the node off and on, or delete it    *)
(* (edge_node_repository.go).  A ticker removes the pending nodes whose    *)
(* code has expired, in one DELETE statement for all of them, and the      *)
(* foreign key oauth2_clients.edge_node_id is ON DELETE RESTRICT.          *)
(*                                                                         *)
(* Left out: the secret of a client (a device may always be given it by    *)
(* the administrator), scopes, and the tokens of portals and users.        *)
(***************************************************************************)
EXTENDS FiniteSets

CONSTANT EdgeNodes

VARIABLES
  node,      \* edge_nodes: the row of each node
  client,    \* oauth2_clients: the client bound to each node
  removal,   \* the deletion of each node: "no", or what its first statement removed
  token,     \* the devices that hold a signed token of their node
  asking     \* the nodes for which a token request has read the client

credentialVars == <<node, client, removal, token, asking>>

States == {"none", "pending_activation", "registered", "active", "disabled"}
Clients == {"none", "enabled", "disabled"}
NoNode == [state |-> "none", code |-> "none", enabled |-> FALSE, deleted |-> FALSE]

EdgeCredentialsTypeOK ==
  /\ node \in [EdgeNodes -> [state : States, code : {"none", "valid", "expired"},
                             enabled : BOOLEAN, deleted : BOOLEAN]]
  /\ client \in [EdgeNodes -> Clients]
  /\ removal \in [EdgeNodes -> {"no", "nothing", "client"}]
  /\ token \subseteq EdgeNodes /\ asking \subseteq EdgeNodes

EdgeCredentialsInit ==
  /\ node = [n \in EdgeNodes |-> NoNode]
  /\ client = [n \in EdgeNodes |-> "none"]
  /\ removal = [n \in EdgeNodes |-> "no"]
  /\ token = {} /\ asking = {}

HasRow(n) == node[n].state # "none"
Live(n) == HasRow(n) /\ ~node[n].deleted
Pending(n) == node[n].state = "pending_activation"

(* A row its deletion has removed, but not yet committed, makes every      *)
(* other writer wait.                                                      *)
ClientUnlocked(n) == removal[n] # "client"

-----------------------------------------------------------------------------
CreatePending(n) ==
  /\ ~HasRow(n) /\ removal[n] = "no"
  /\ node' = [node EXCEPT ![n] = [state |-> "pending_activation", code |-> "valid",
                                  enabled |-> TRUE, deleted |-> FALSE]]
  /\ UNCHANGED <<client, removal, token, asking>>

(* Ten minutes pass.                                                       *)
CodeExpires(n) ==
  /\ node[n].code = "valid"
  /\ node' = [node EXCEPT ![n].code = "expired"]
  /\ UNCHANGED <<client, removal, token, asking>>

(* One transaction under the row lock of the node.  It fails when the node *)
(* has a client already, and whether its answer reaches the device or not, *)
(* the code is gone.                                                       *)
Activate(n) ==
  /\ Pending(n) /\ node[n].code = "valid" /\ ~node[n].deleted
  /\ client[n] = "none"
  /\ node' = [node EXCEPT ![n].state = "registered", ![n].code = "none"]
  /\ client' = [client EXCEPT ![n] = "enabled"]
  /\ UNCHANGED <<removal, token, asking>>

(* handleClientCredentials, two statements.  GetByClientID: the client     *)
(* exists, is enabled and has the secret.                                  *)
ReadClient(n) ==
  /\ client[n] = "enabled"
  /\ asking' = asking \cup {n}
  /\ UNCHANGED <<node, client, removal, token>>

(* IsBoundEdgeNodeUsable joins the client to its node and looks at the node*)
(* only: a client disabled in between does not stop the token.             *)
BoundNodeUsable(n) ==
  /\ client[n] # "none"
  /\ node[n].enabled /\ ~node[n].deleted
  /\ node[n].state \in {"registered", "active"}

(* The token is issued, or the node is not usable or the read fails.       *)
IssueToken(n) ==
  /\ n \in asking
  /\ asking' = asking \ {n}
  /\ \/ BoundNodeUsable(n) /\ token' = token \cup {n}
     \/ UNCHANGED token
  /\ UNCHANGED <<node, client, removal>>

TokenExpires(n) ==
  /\ n \in token
  /\ token' = token \ {n}
  /\ UNCHANGED <<node, client, removal, asking>>

(* The signed token names the node; the client is not looked at again.     *)
UpdateSelfProfile(n) ==
  /\ n \in token
  /\ Live(n) /\ node[n].enabled /\ node[n].state \in {"registered", "active"}
  /\ node' = [node EXCEPT ![n].state = "active"]
  /\ UNCHANGED <<client, removal, token, asking>>

(* Mutant: the cleanup passes over deleted nodes.                          *)
Expired_NotDeleted(n) == Pending(n) /\ node[n].code = "expired" /\ ~node[n].deleted

Expired(n) == Pending(n) /\ node[n].code = "expired"

(* One statement: it removes every expired node, or fails and removes none *)
(* because one of them has a client.  It waits for a deletion that has     *)
(* removed such a client.                                                  *)
CleanupExpired ==
  /\ \A n \in EdgeNodes : Expired(n) => client[n] = "none"
  /\ node' = [n \in EdgeNodes |-> IF Expired(n) THEN NoNode ELSE node[n]]
  /\ UNCHANGED <<client, removal, token, asking>>

-----------------------------------------------------------------------------
(* The administrator's requests.  Create: edge_node_id is unique and must  *)
(* exist, in whatever state the node is.                                   *)
CreateClient(n) ==
  /\ HasRow(n) /\ client[n] = "none"
  /\ client' = [client EXCEPT ![n] = "enabled"]
  /\ UNCHANGED <<node, removal, token, asking>>

(* Update writes the whole row it has read before, with the fields of the  *)
(* request replaced: what it leaves in `enabled` may be what it asks for   *)
(* or what somebody else has changed since.                                *)
UpdateClient(n, to) ==
  /\ client[n] # "none" /\ ClientUnlocked(n)
  /\ client' = [client EXCEPT ![n] = to]
  /\ UNCHANGED <<node, removal, token, asking>>

DeleteClient(n) ==
  /\ client[n] # "none" /\ ClientUnlocked(n)
  /\ client' = [client EXCEPT ![n] = "none"]
  /\ UNCHANGED <<node, removal, token, asking>>

(* UpdateEnabled.  A pending node that is switched off is no longer        *)
(* pending, and active when it is switched on again.                       *)
UpdateEnabled(n, enabled) ==
  /\ Live(n)
  /\ node' = [node EXCEPT ![n].enabled = enabled,
                          ![n].state = IF enabled /\ @ = "disabled" THEN "active"
                                       ELSE IF ~enabled THEN "disabled" ELSE @]
  /\ UNCHANGED <<client, removal, token, asking>>

(* DeleteEdgeNodeTx, two statements of one transaction: the client is      *)
(* removed, and then the node is marked.  What commits in between a client *)
(* for the node is not seen by the first statement.  Bound: one deletion   *)
(* at a time.                                                              *)
RemoveClient(n) ==
  /\ Live(n) /\ \A m \in EdgeNodes : removal[m] = "no"
  /\ removal' = [removal EXCEPT ![n] = IF client[n] = "none" THEN "nothing" ELSE "client"]
  /\ UNCHANGED <<node, client, token, asking>>

MarkDeleted(n) ==
  /\ removal[n] # "no"
  /\ removal' = [removal EXCEPT ![n] = "no"]
  /\ client' = [client EXCEPT ![n] = IF removal[n] = "client" THEN "none" ELSE @]
  /\ node' = [node EXCEPT ![n].deleted = @ \/ HasRow(n)]
  /\ UNCHANGED <<token, asking>>

(* A later statement of the transaction fails.                             *)
RollBackRemoval(n) ==
  /\ removal[n] # "no"
  /\ removal' = [removal EXCEPT ![n] = "no"]
  /\ UNCHANGED <<node, client, token, asking>>

DeviceNext ==
  \E n \in EdgeNodes :
    \/ CodeExpires(n) \/ Activate(n) \/ UpdateSelfProfile(n)
    \/ ReadClient(n) \/ IssueToken(n) \/ TokenExpires(n)

AdminNext ==
  \E n \in EdgeNodes :
    \/ CreatePending(n) \/ CreateClient(n) \/ DeleteClient(n)
    \/ \E to \in {"enabled", "disabled"} : UpdateClient(n, to)
    \/ \E enabled \in BOOLEAN : UpdateEnabled(n, enabled)
    \/ RemoveClient(n) \/ MarkDeleted(n) \/ RollBackRemoval(n)

EdgeCredentialsNext == CleanupExpired \/ DeviceNext \/ AdminNext

(* The ticker fires every minute.                                          *)
EdgeCredentialsSpec ==
  EdgeCredentialsInit /\ [][EdgeCredentialsNext]_credentialVars /\ WF_credentialVars(CleanupExpired)

-----------------------------------------------------------------------------
Outlived == {n \in EdgeNodes : node[n].state = "pending_activation" /\ node[n].code = "expired"}

(* Pending nodes whose code has expired do not stay: the cleanup removes   *)
(* all of them, deleted or not, unless one of them has been given a client,*)
(* which the foreign key then protects together with all the others.       *)
ExpiredActivationsRemoved ==
  Outlived # {} ~> Outlived = {} \/ \E n \in Outlived : client[n] # "none"
=============================================================================
