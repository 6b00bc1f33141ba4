---------------------------- MODULE PortalConfig ----------------------------
(***************************************************************************)
(* The configuration of the Site Portals: the portals with their OAuth     *)
(* clients, their assignment to Edge nodes and their providers             *)
(* (site_portal_repository.go, called by site_portal_admin_handler.go).    *)
(*                                                                         *)
(* A transaction is modelled by its steps up to the lock or count it       *)
(* decides on and by its commit; the row locks it holds in between follow  *)
(* from where it stands.  A transaction that has to wait for a lock has    *)
(* not taken the step yet.  Of the providers only how often they have been *)
(* changed is kept.                                                        *)
(***************************************************************************)
EXTENDS Naturals, FiniteSets

CONSTANTS
  Portals,
  Terminals,    \* Edge nodes
  Managers,     \* administrators' requests that may run at once
  Bootstrap,    \* the portal the server is configured to install
  MaxRevision,  \* bound: provider changes of a portal
  NoPortal

ASSUME PortalConfigAssumption ==
  /\ Bootstrap \in Portals
  /\ MaxRevision \in Nat
  /\ NoPortal \notin Portals

VARIABLES
  portals,     \* each portal's row
  clients,     \* its OAuth client
  identities,  \* portals with external identities
  assigned,    \* edge_site_portals: <<node, portal>>
  default,     \* the default portal of each node
  change,      \* the transaction each administrator's request is in
  providers,   \* changes made to the providers of each portal
  revision,    \* provider_config_revision
  context      \* what a Portal reading its providers has seen

portalVars == <<portals, clients, identities, assigned, default, change,
                providers, revision, context>>
providerVars == <<providers, revision, context>>

Switch == {"none", "enabled", "disabled"}
NoChange == [kind |-> "none", node |-> NoPortal, codes |-> {}, first |-> NoPortal]
NoContext == [portal |-> NoPortal, read |-> {}, revision |-> 0, providers |-> 0, gone |-> FALSE]

PortalConfigTypeOK ==
  /\ portals \in [Portals -> Switch] /\ clients \in [Portals -> Switch]
  /\ identities \subseteq Portals
  /\ assigned \subseteq Terminals \X Portals
  /\ default \in [Terminals -> Portals \cup {NoPortal}]
  /\ change \in [Managers -> [kind : {"none", "replacing", "sharing", "disabling", "deleting"},
                              node : Terminals \cup {NoPortal},
                              codes : SUBSET Portals, first : Portals \cup {NoPortal}]]
  /\ providers \in [Portals -> 0..MaxRevision] /\ revision \in [Portals -> 0..MaxRevision]
  /\ context \in [portal : Portals \cup {NoPortal}, read : SUBSET {"revision", "providers"},
                  revision : 0..MaxRevision, providers : 0..MaxRevision, gone : BOOLEAN]

(* The server has started on an empty database without a bootstrap portal. *)
PortalConfigInit ==
  /\ portals = [p \in Portals |-> "none"] /\ clients = [p \in Portals |-> "none"]
  /\ identities = {} /\ assigned = {}
  /\ default = [n \in Terminals |-> NoPortal]
  /\ change = [m \in Managers |-> NoChange]
  /\ providers = [p \in Portals |-> 0] /\ revision = [p \in Portals |-> 0]
  /\ context = NoContext

-----------------------------------------------------------------------------
(* Mutant: the assignment reads the portals without FOR SHARE.             *)
Sharing_Unlocked(p) == FALSE

(* The row locks: FOR SHARE of an assignment, FOR UPDATE of a disabling.   *)
Sharing(p) == \E m \in Managers : change[m].kind = "sharing" /\ p \in change[m].codes
Updating(p) == \E m \in Managers : change[m].kind = "disabling" /\ p \in change[m].codes
NodeLocked(n) == \E m \in Managers : change[m].kind \in {"replacing", "sharing"} /\ change[m].node = n

(* CreateWithOAuthClient.                                                  *)
CreateWithOAuthClient(p) ==
  /\ portals[p] = "none" /\ clients[p] = "none"
  /\ portals' = [portals EXCEPT ![p] = "enabled"]
  /\ clients' = [clients EXCEPT ![p] = "enabled"]
  /\ UNCHANGED <<identities, assigned, default, change, providerVars>>

(* ReplaceEdgeSitePortals: the node is locked, ...                         *)
LockEdgeNode(m, n, codes, first) ==
  /\ change[m] = NoChange
  /\ first \in codes
  /\ ~NodeLocked(n)
  /\ change' = [change EXCEPT ![m] = [kind |-> "replacing", node |-> n, codes |-> codes, first |-> first]]
  /\ UNCHANGED <<portals, clients, identities, assigned, default, providerVars>>

(* ... then the portals are read and locked; all must be enabled.          *)
CheckAssignments(m) ==
  /\ change[m].kind = "replacing"
  /\ \A p \in change[m].codes : ~Updating(p)
  /\ change' = [change EXCEPT ![m] =
       IF \A p \in @.codes : portals[p] = "enabled" THEN [@ EXCEPT !.kind = "sharing"] ELSE NoChange]
  /\ UNCHANGED <<portals, clients, identities, assigned, default, providerVars>>

ReplaceAssignments(m) ==
  /\ change[m].kind = "sharing"
  /\ LET n == change[m].node
     IN /\ assigned' = {a \in assigned : a[1] # n} \cup ({n} \X change[m].codes)
        /\ default' = [default EXCEPT ![n] = change[m].first]
  /\ change' = [change EXCEPT ![m] = NoChange]
  /\ UNCHANGED <<portals, clients, identities, providerVars>>

(* SetEnabled(false): the portal is locked and must have no assignments;   *)
(* SetEnabled(true) waits for the row, and updates both rows as well.      *)
Assignments(p) == {a \in assigned : a[2] = p}

LockForDisabling(m, p) ==
  /\ change[m] = NoChange
  /\ portals[p] # "none" /\ ~Sharing(p) /\ ~Updating(p)
  /\ Assignments(p) = {}
  /\ change' = [change EXCEPT ![m] = [NoChange EXCEPT !.kind = "disabling", !.codes = {p}]]
  /\ UNCHANGED <<portals, clients, identities, assigned, default, providerVars>>

Switched(p, to) ==
  /\ portals' = [portals EXCEPT ![p] = to]
  /\ clients' = [clients EXCEPT ![p] = IF @ = "none" THEN "none" ELSE to]

DisablePortal(m) ==
  /\ change[m].kind = "disabling"
  /\ \A p \in change[m].codes : Switched(p, "disabled")
  /\ change' = [change EXCEPT ![m] = NoChange]
  /\ UNCHANGED <<identities, assigned, default, providerVars>>

EnablePortal(p) ==
  /\ portals[p] # "none" /\ ~Sharing(p) /\ ~Updating(p)
  /\ Switched(p, "enabled")
  /\ UNCHANGED <<identities, assigned, default, change, providerVars>>

(* Delete counts the references without a lock; what has come between the  *)
(* counts and the DELETE is refused by the foreign keys.                   *)
CountReferences(m, p) ==
  /\ change[m] = NoChange
  /\ p \notin identities /\ Assignments(p) = {}
  /\ change' = [change EXCEPT ![m] = [NoChange EXCEPT !.kind = "deleting", !.codes = {p}]]
  /\ UNCHANGED <<portals, clients, identities, assigned, default, providerVars>>

DeletePortal(m) ==
  /\ change[m].kind = "deleting"
  /\ \E p \in change[m].codes :
       /\ ~Sharing(p) /\ ~Updating(p)
       /\ IF portals[p] = "none" \/ p \in identities \/ Assignments(p) # {}
          THEN UNCHANGED <<portals, clients, providerVars>>
          ELSE /\ portals' = [portals EXCEPT ![p] = "none"]
               /\ clients' = [clients EXCEPT ![p] = "none"]
               /\ providers' = [providers EXCEPT ![p] = 0]
               /\ revision' = [revision EXCEPT ![p] = 0]
               /\ context' = [context EXCEPT !.gone = @ \/ context.portal = p]
  /\ change' = [change EXCEPT ![m] = NoChange]
  /\ UNCHANGED <<identities, assigned, default>>

(* A first login through the portal (CompleteLogin).                       *)
FirstIdentity(p) ==
  /\ portals[p] = "enabled" /\ p \notin identities
  /\ identities' = identities \cup {p}
  /\ UNCHANGED <<portals, clients, assigned, default, change, providerVars>>

(* The server restarts, perhaps with a bootstrap portal configured: open   *)
(* transactions are rolled back; UpsertBootstrap enables the portal and    *)
(* assigns it to the nodes without one, ensureBootstrapSitePortalClient    *)
(* creates the client only if there is none.                               *)
Unassigned == {n \in Terminals : \A a \in assigned : a[1] # n}

RestartConfig(configured) ==
  /\ change' = [m \in Managers |-> NoChange]
  /\ context' = NoContext
  /\ IF configured
     THEN /\ portals' = [portals EXCEPT ![Bootstrap] = "enabled"]
          /\ clients' = [clients EXCEPT ![Bootstrap] = IF @ = "none" THEN "enabled" ELSE @]
          /\ assigned' = assigned \cup (Unassigned \X {Bootstrap})
          /\ default' = [n \in Terminals |-> IF n \in Unassigned THEN Bootstrap ELSE default[n]]
     ELSE UNCHANGED <<portals, clients, assigned, default>>
  /\ UNCHANGED <<identities, providers, revision>>

-----------------------------------------------------------------------------
(* CreateProvider, UpdateProvider, SetProviderEnabled, DeleteProvider: the *)
(* change and the new revision in one transaction, under the portal's lock.*)
MutateProvider(p) ==
  /\ portals[p] # "none" /\ ~Sharing(p) /\ ~Updating(p)
  /\ revision[p] < MaxRevision
  /\ providers' = [providers EXCEPT ![p] = @ + 1]
  /\ revision' = [revision EXCEPT ![p] = @ + 1]
  /\ UNCHANGED <<portals, clients, identities, assigned, default, change, context>>

(* ListEnabledProviders for a Portal's context: two statements without a   *)
(* transaction, first the revision of the enabled portal, then the rows.   *)
StartContext(p) ==
  /\ portals[p] = "enabled"
  /\ context' = [NoContext EXCEPT !.portal = p]
  /\ UNCHANGED <<portals, clients, identities, assigned, default, change, providers, revision>>

(* Mutant: the rows are read before the revision.                          *)
ReadNext_RowsFirst == IF "providers" \in context.read THEN "revision" ELSE "providers"

ReadNext == IF "revision" \in context.read THEN "providers" ELSE "revision"

ListEnabledProviders ==
  /\ context.portal # NoPortal
  /\ ReadNext \notin context.read
  /\ context' =
       IF ReadNext = "revision"
       THEN IF portals[context.portal] # "enabled" THEN NoContext
            ELSE [context EXCEPT !.read = @ \cup {"revision"}, !.revision = revision[context.portal]]
       ELSE [context EXCEPT !.read = @ \cup {"providers"}, !.providers = providers[context.portal]]
  /\ UNCHANGED <<portals, clients, identities, assigned, default, change, providers, revision>>

(* What concerns the portals themselves, their assignments, their providers. *)
PortalNext ==
  \/ \E p \in Portals : CreateWithOAuthClient(p) \/ EnablePortal(p)
  \/ \E m \in Managers, p \in Portals : LockForDisabling(m, p) \/ CountReferences(m, p)
  \/ \E m \in Managers : DisablePortal(m) \/ DeletePortal(m)
  \/ \E configured \in BOOLEAN : RestartConfig(configured)

AssignmentNext ==
  \/ \E m \in Managers, n \in Terminals, codes \in SUBSET Portals, first \in Portals :
       LockEdgeNode(m, n, codes, first)
  \/ \E m \in Managers : CheckAssignments(m) \/ ReplaceAssignments(m)
  \/ \E p \in Portals : FirstIdentity(p)

ProviderNext ==
  \/ \E p \in Portals : MutateProvider(p) \/ StartContext(p)
  \/ ListEnabledProviders

PortalConfigNext == PortalNext \/ AssignmentNext \/ ProviderNext

PortalConfigSpec == PortalConfigInit /\ [][PortalConfigNext]_portalVars

-----------------------------------------------------------------------------
(* A terminal offers only portals that exist and are enabled, and a node   *)
(* that offers any has one of them as its default, whatever assignments,   *)
(* disablings, deletions and bootstraps ran at the same time.              *)
AssignmentsUsable ==
  /\ \A a \in assigned : portals[a[2]] = "enabled"
  /\ \A n \in Terminals \ Unassigned : <<n, default[n]>> \in assigned

(* The providers a Portal was sent are at least as recent as the revision  *)
(* sent with them, so that a Portal that holds a revision misses no change *)
(* of it; unless the portal was deleted, perhaps created again, meanwhile. *)
RevisionNotAhead ==
  (context.read = {"revision", "providers"} /\ ~context.gone)
    => context.providers >= context.revision
=============================================================================
