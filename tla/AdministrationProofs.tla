------------------------ MODULE AdministrationProofs ------------------------
(***************************************************************************)
(* Proofs about the components an administrator works with: PortalConfig,  *)
(* Accounts and OpsContacts, for any number of portals, nodes, requests,   *)
(* users, jobs and contacts.  They share no state; each has its own part   *)
(* below.                                                                  *)
(***************************************************************************)
EXTENDS PortalConfig, Accounts, OpsContacts, FiniteSetTheorems, TLAPS

-----------------------------------------------------------------------------
(* PortalConfig.  A request that holds the shared locks of the portals it  *)
(* assigns finds them enabled until it commits, and no one disables them.  *)
AssignmentsHeld ==
  \A m \in Managers :
    /\ change[m].kind \in {"replacing", "sharing"} =>
         change[m].node \in Terminals /\ change[m].first \in change[m].codes
    /\ change[m].kind = "sharing" =>
         \A p \in change[m].codes : portals[p] = "enabled" /\ ~Updating(p)

(* A portal that is being disabled has no assignment until that commits.   *)
DisablingsHeld ==
  \A m \in Managers :
    /\ change[m].kind \in {"disabling", "deleting"} =>
         \E p \in Portals : change[m].codes = {p}
    /\ change[m].kind = "disabling" =>
         \A p \in change[m].codes : Assignments(p) = {}

AssignmentsInv == AssignmentsHeld /\ DisablingsHeld /\ AssignmentsUsable

(* A change of the providers and its revision are one transaction, and the *)
(* revision is read first.                                                 *)
RevisionsAgree == \A p \in Portals : providers[p] = revision[p]

ContextRead ==
  /\ "providers" \in context.read => "revision" \in context.read
  /\ ("revision" \in context.read /\ ~context.gone /\ context.portal # NoPortal)
       => context.revision <= revision[context.portal]

ContextInv == RevisionsAgree /\ ContextRead /\ RevisionNotAhead

PortalConfigInv == PortalConfigTypeOK /\ AssignmentsInv /\ ContextInv

Changes == [kind : {"none", "replacing", "sharing", "disabling", "deleting"},
            node : Terminals \cup {NoPortal},
            codes : SUBSET Portals, first : Portals \cup {NoPortal}]

LEMMA NoChangeType == NoChange \in Changes
BY DEF NoChange, Changes

LEMMA ContextUnchanged ==
  ASSUME ContextInv, UNCHANGED providerVars
  PROVE  ContextInv'
BY DEF ContextInv, RevisionsAgree, ContextRead, RevisionNotAhead, providerVars

LEMMA AssignmentsUnchanged ==
  ASSUME AssignmentsInv, UNCHANGED <<portals, assigned, default, change>>
  PROVE  AssignmentsInv'
BY DEF AssignmentsInv, AssignmentsHeld, DisablingsHeld, AssignmentsUsable, Updating,
   Assignments, Unassigned

(* What a request may hold, or wait for, besides the others.               *)
Lawful(x) ==
  /\ x \in Changes
  /\ x.kind \in {"replacing", "sharing"} => x.node \in Terminals /\ x.first \in x.codes
  /\ x.kind = "sharing" => \A p \in x.codes : portals[p] = "enabled" /\ ~Updating(p)
  /\ x.kind \in {"disabling", "deleting"} => \E p \in Portals : x.codes = {p}
  /\ x.kind = "disabling" => \A p \in x.codes : Assignments(p) = {} /\ ~Sharing(p)

(* A request takes a lock, or gives up what it holds.                      *)
LEMMA ChangeKeeps ==
  ASSUME PortalConfigInv, NEW m \in Managers, NEW x, Lawful(x),
         change' = [change EXCEPT ![m] = x],
         UNCHANGED <<portals, clients, identities, assigned, default, providerVars>>
  PROVE  PortalConfigInv'
<1> USE DEF PortalConfigInv
<1>1. change'[m] = x /\ \A k \in Managers \ {m} : change'[k] = change[k]
  BY DEF PortalConfigTypeOK
<1>2. ASSUME NEW k \in Managers, change'[k].kind = "sharing",
             NEW p \in change'[k].codes, Updating(p)'
      PROVE  FALSE
  <2>1. PICK d \in Managers : change'[d].kind = "disabling" /\ p \in change'[d].codes
    BY <1>2 DEF Updating
  <2>2. CASE d = m
    BY <1>1, <1>2, <2>1, <2>2 DEF Sharing, Lawful
  <2>3. CASE d # m
    BY <1>1, <1>2, <2>1, <2>3 DEF Updating, Lawful, AssignmentsInv, AssignmentsHeld
  <2> QED
    BY <2>2, <2>3
<1>3. AssignmentsHeld'
  <2> SUFFICES ASSUME NEW k \in Managers
               PROVE  /\ change'[k].kind \in {"replacing", "sharing"} =>
                           change'[k].node \in Terminals /\ change'[k].first \in change'[k].codes
                      /\ change'[k].kind = "sharing" =>
                           \A p \in change'[k].codes : portals[p] = "enabled" /\ ~Updating(p)'
    BY DEF AssignmentsHeld
  <2>1. CASE k = m
    BY <1>1, <1>2, <2>1 DEF Lawful
  <2>2. CASE k # m
    BY <1>1, <1>2, <2>2 DEF AssignmentsInv, AssignmentsHeld
  <2> QED
    BY <2>1, <2>2
<1>4. DisablingsHeld'
  BY <1>1 DEF AssignmentsInv, DisablingsHeld, Assignments, Lawful
<1>5. AssignmentsUsable'
  BY DEF AssignmentsInv, AssignmentsUsable, Unassigned
<1>6. PortalConfigTypeOK'
  BY DEF PortalConfigTypeOK, providerVars, Lawful, Changes
<1> QED
  BY <1>3, <1>4, <1>5, <1>6, ContextUnchanged DEF AssignmentsInv

LEMMA NoChangeLawful == Lawful(NoChange)
BY DEF NoChange, Changes, Lawful

LEMMA LockForDisablingKeeps ==
  ASSUME PortalConfigInv, NEW m \in Managers, NEW p \in Portals,
         LockForDisabling(m, p) \/ CountReferences(m, p)
  PROVE  PortalConfigInv'
<1>1. PICK kind \in {"disabling", "deleting"} :
        /\ change' = [change EXCEPT ![m] = [NoChange EXCEPT !.kind = kind, !.codes = {p}]]
        /\ kind = "disabling" => Assignments(p) = {} /\ ~Sharing(p)
  BY DEF LockForDisabling, CountReferences
<1>2. Lawful([NoChange EXCEPT !.kind = kind, !.codes = {p}])
  BY <1>1 DEF NoChange, Changes, Lawful
<1> QED
  BY <1>1, <1>2, ChangeKeeps DEF LockForDisabling, CountReferences

LEMMA LockEdgeNodeKeeps ==
  ASSUME PortalConfigInv, NEW m \in Managers, NEW n \in Terminals, NEW codes \in SUBSET Portals,
         NEW first \in Portals, LockEdgeNode(m, n, codes, first)
  PROVE  PortalConfigInv'
<1>1. Lawful([kind |-> "replacing", node |-> n, codes |-> codes, first |-> first])
  BY DEF LockEdgeNode, Changes, Lawful
<1> QED
  BY <1>1, ChangeKeeps DEF LockEdgeNode

LEMMA CheckAssignmentsKeeps ==
  ASSUME PortalConfigInv, NEW m \in Managers, CheckAssignments(m)
  PROVE  PortalConfigInv'
<1>1. PICK x : /\ change' = [change EXCEPT ![m] = x]
               /\ x = IF \A p \in change[m].codes : portals[p] = "enabled"
                      THEN [change[m] EXCEPT !.kind = "sharing"] ELSE NoChange
  BY DEF CheckAssignments
<1>2. CASE \A p \in change[m].codes : portals[p] = "enabled"
  <2>1. Lawful([change[m] EXCEPT !.kind = "sharing"])
    BY <1>2 DEF CheckAssignments, Lawful, Changes, PortalConfigInv, PortalConfigTypeOK,
       AssignmentsInv, AssignmentsHeld
  <2> QED
    BY <1>1, <1>2, <2>1, ChangeKeeps DEF CheckAssignments
<1>3. CASE ~\A p \in change[m].codes : portals[p] = "enabled"
  BY <1>1, <1>3, NoChangeLawful, ChangeKeeps DEF CheckAssignments
<1> QED
  BY <1>2, <1>3

(* What a request that ends held is free again; nothing else changes hands.*)
LEMMA ChangeEnds ==
  ASSUME PortalConfigInv, NEW m \in Managers, change' = [change EXCEPT ![m] = NoChange]
  PROVE  /\ \A k \in Managers :
              \/ change'[k] = change[k] /\ k # m
              \/ change'[k].kind = "none"
         /\ \A p : Updating(p)' => Updating(p)
<1>1. \A k \in Managers : change'[k] = IF k = m THEN NoChange ELSE change[k]
  BY DEF PortalConfigInv, PortalConfigTypeOK
<1> QED
  BY <1>1 DEF Updating, NoChange

LEMMA ReplaceAssignmentsKeeps ==
  ASSUME PortalConfigInv, NEW m \in Managers, ReplaceAssignments(m)
  PROVE  PortalConfigInv'
<1> USE DEF PortalConfigInv, AssignmentsInv
<1> DEFINE n == change[m].node
           codes == change[m].codes
<1>1. /\ n \in Terminals /\ change[m].first \in codes
      /\ \A p \in codes : portals[p] = "enabled" /\ ~Updating(p)
  BY DEF ReplaceAssignments, AssignmentsHeld
<1>2. /\ assigned' = {a \in assigned : a[1] # n} \cup ({n} \X codes)
      /\ default' = [default EXCEPT ![n] = change[m].first]
      /\ change' = [change EXCEPT ![m] = NoChange]
      /\ UNCHANGED <<portals, clients, identities, providerVars>>
  BY DEF ReplaceAssignments
<1>3. codes \in SUBSET Portals /\ change[m].first \in Portals
  BY <1>1 DEF PortalConfigTypeOK
<1>4. PortalConfigTypeOK'
  BY <1>1, <1>2, <1>3, NoChangeType DEF PortalConfigTypeOK, Changes, providerVars
<1>5. AssignmentsHeld'
  BY <1>2, ChangeEnds DEF AssignmentsHeld
<1>6. DisablingsHeld'
  <2> SUFFICES ASSUME NEW k \in Managers, change[k].kind = "disabling",
                      NEW p \in change[k].codes
               PROVE  Assignments(p)' = {}
    BY <1>2, ChangeEnds DEF DisablingsHeld
  <2>1. p \notin codes
    BY <1>1 DEF Updating
  <2>2. Assignments(p) = {}
    BY DEF DisablingsHeld
  <2> QED
    BY <1>2, <2>1, <2>2 DEF Assignments
<1>7. AssignmentsUsable'
  <2>1. \A a \in assigned' : portals'[a[2]] = "enabled"
    BY <1>1, <1>2 DEF AssignmentsUsable
  <2>2. ASSUME NEW t \in Terminals \ Unassigned'
        PROVE  <<t, default'[t]>> \in assigned'
    <3>1. CASE t = n
      BY <1>1, <1>2, <3>1 DEF PortalConfigTypeOK
    <3>2. CASE t # n
      <4>1. t \notin Unassigned
        BY <1>2, <2>2, <3>2 DEF Unassigned
      <4>2. <<t, default[t]>> \in assigned /\ default'[t] = default[t]
        BY <1>2, <2>2, <3>2, <4>1 DEF AssignmentsUsable, PortalConfigTypeOK
      <4> QED
        BY <1>2, <3>2, <4>2
    <3> QED
      BY <3>1, <3>2
  <2> QED
    BY <2>1, <2>2 DEF AssignmentsUsable
<1> QED
  BY <1>2, <1>4, <1>5, <1>6, <1>7, ContextUnchanged

(* Only a portal without assignments that nobody shares stops to be enabled.*)
LEMMA PortalRowKeeps ==
  ASSUME PortalConfigInv, NEW p \in Portals,
         \A q \in Portals \ {p} : portals'[q] = portals[q],
         \/ portals'[p] = "enabled"
         \/ Assignments(p) = {} /\ ~Sharing(p),
         \/ UNCHANGED change
         \/ \E m \in Managers : change' = [change EXCEPT ![m] = NoChange],
         UNCHANGED <<assigned, default>>
  PROVE  AssignmentsInv'
<1> USE DEF PortalConfigInv, AssignmentsInv
<1>1. \A k \in Managers : change'[k] = change[k] \/ change'[k].kind = "none"
  BY ChangeEnds
<1>2. \A q : Updating(q)' => Updating(q)
  BY ChangeEnds DEF Updating
<1>3. AssignmentsHeld'
  <2> SUFFICES ASSUME NEW k \in Managers, change'[k] = change[k]
               PROVE  /\ change[k].kind \in {"replacing", "sharing"} =>
                           change[k].node \in Terminals /\ change[k].first \in change[k].codes
                      /\ change[k].kind = "sharing" =>
                           \A q \in change[k].codes : portals'[q] = "enabled" /\ ~Updating(q)'
    BY <1>1 DEF AssignmentsHeld
  <2>1. change[k].kind = "sharing" =>
          \A q \in change[k].codes : q \in Portals /\ portals'[q] = "enabled"
    BY DEF AssignmentsHeld, PortalConfigTypeOK, Sharing
  <2> QED
    BY <1>2, <2>1 DEF AssignmentsHeld
<1>4. DisablingsHeld'
  BY <1>1 DEF DisablingsHeld, Assignments
<1>5. AssignmentsUsable'
  <2>1. \A a \in assigned : a[2] \in Portals /\ portals'[a[2]] = "enabled"
    BY DEF AssignmentsUsable, PortalConfigTypeOK, Assignments
  <2> QED
    BY <2>1 DEF AssignmentsUsable, Unassigned
<1> QED
  BY <1>3, <1>4, <1>5

LEMMA SwitchedType ==
  ASSUME PortalConfigTypeOK, NEW p \in Portals, NEW to \in {"enabled", "disabled"},
         Switched(p, to)
  PROVE  /\ portals' \in [Portals -> Switch] /\ clients' \in [Portals -> Switch]
         /\ portals'[p] = to /\ \A q \in Portals \ {p} : portals'[q] = portals[q]
BY DEF PortalConfigTypeOK, Switched, Switch

LEMMA CreateKeeps ==
  ASSUME PortalConfigInv, NEW p \in Portals, CreateWithOAuthClient(p) \/ EnablePortal(p)
  PROVE  PortalConfigInv'
<1> USE DEF PortalConfigInv
<1>1. /\ portals' \in [Portals -> Switch] /\ clients' \in [Portals -> Switch]
      /\ portals'[p] = "enabled" /\ \A q \in Portals \ {p} : portals'[q] = portals[q]
  BY SwitchedType DEF CreateWithOAuthClient, EnablePortal, PortalConfigTypeOK, Switch
<1>2. UNCHANGED <<identities, assigned, default, change, providerVars>>
  BY DEF CreateWithOAuthClient, EnablePortal
<1>3. PortalConfigTypeOK'
  BY <1>1, <1>2 DEF PortalConfigTypeOK, providerVars
<1> QED
  BY <1>1, <1>2, <1>3, PortalRowKeeps, ContextUnchanged

LEMMA DisablePortalKeeps ==
  ASSUME PortalConfigInv, NEW m \in Managers, DisablePortal(m)
  PROVE  PortalConfigInv'
<1> USE DEF PortalConfigInv
<1>1. PICK p \in Portals : change[m].codes = {p}
  BY DEF DisablePortal, AssignmentsInv, DisablingsHeld
<1>2. Assignments(p) = {} /\ ~Sharing(p)
  BY <1>1 DEF DisablePortal, AssignmentsInv, DisablingsHeld, AssignmentsHeld, Sharing, Updating
<1>3. /\ portals' \in [Portals -> Switch] /\ clients' \in [Portals -> Switch]
      /\ \A q \in Portals \ {p} : portals'[q] = portals[q]
  BY <1>1, SwitchedType DEF DisablePortal
<1>4. /\ change' = [change EXCEPT ![m] = NoChange]
      /\ UNCHANGED <<identities, assigned, default, providerVars>>
  BY DEF DisablePortal
<1>5. PortalConfigTypeOK'
  BY <1>3, <1>4, NoChangeType DEF PortalConfigTypeOK, Changes, providerVars
<1> QED
  BY <1>2, <1>3, <1>4, <1>5, PortalRowKeeps, ContextUnchanged

LEMMA DeletePortalKeeps ==
  ASSUME PortalConfigInv, NEW m \in Managers, DeletePortal(m)
  PROVE  PortalConfigInv'
<1> USE DEF PortalConfigInv
<1>1. PICK p \in change[m].codes :
       /\ ~Sharing(p) /\ ~Updating(p)
       /\ IF portals[p] = "none" \/ p \in identities \/ Assignments(p) # {}
          THEN UNCHANGED <<portals, clients, providerVars>>
          ELSE /\ portals' = [portals EXCEPT ![p] = "none"]
               /\ clients' = [clients EXCEPT ![p] = "none"]
               /\ providers' = [providers EXCEPT ![p] = 0]
               /\ revision' = [revision EXCEPT ![p] = 0]
               /\ context' = [context EXCEPT !.gone = context.gone \/ context.portal = p]
  BY DEF DeletePortal
<1>2. /\ change' = [change EXCEPT ![m] = NoChange]
      /\ UNCHANGED <<identities, assigned, default>>
  BY DEF DeletePortal
<1>3. p \in Portals
  BY <1>1 DEF PortalConfigTypeOK
<1>4. CASE portals[p] = "none" \/ p \in identities \/ Assignments(p) # {}
  BY <1>1, <1>2, <1>4, NoChangeLawful, ChangeKeeps
<1>5. CASE ~(portals[p] = "none" \/ p \in identities \/ Assignments(p) # {})
  <2>1. AssignmentsInv'
    BY <1>1, <1>2, <1>3, <1>5, PortalRowKeeps DEF PortalConfigTypeOK
  <2>2. /\ providers' = [providers EXCEPT ![p] = 0]
        /\ revision' = [revision EXCEPT ![p] = 0]
    BY <1>1, <1>5
  <2>3. PICK lost \in BOOLEAN : /\ lost = (context.gone \/ context.portal = p)
                                /\ context' = [context EXCEPT !.gone = lost]
    BY <1>1, <1>5
  <2>4. 0 \in 0..MaxRevision
    BY PortalConfigAssumption
  <2>5. /\ context' \in [portal : Portals \cup {NoPortal}, read : SUBSET {"revision", "providers"},
                        revision : 0..MaxRevision, providers : 0..MaxRevision, gone : BOOLEAN]
        /\ context'.portal = context.portal /\ context'.read = context.read
        /\ context'.revision = context.revision /\ context'.providers = context.providers
        /\ context'.gone = lost
    BY <2>3 DEF PortalConfigTypeOK
  <2>6. portals' \in [Portals -> Switch] /\ clients' \in [Portals -> Switch]
    BY <1>1, <1>5 DEF PortalConfigTypeOK, Switch
  <2>7. PortalConfigTypeOK'
    BY <1>2, <2>2, <2>4, <2>5, <2>6, NoChangeType DEF PortalConfigTypeOK, Changes
  <2>8. ContextInv'
    BY <2>2, <2>3, <2>4, <2>5, <1>3
       DEF ContextInv, RevisionsAgree, ContextRead, RevisionNotAhead, PortalConfigTypeOK
  <2> QED
    BY <2>1, <2>7, <2>8
<1> QED
  BY <1>4, <1>5

LEMMA FirstIdentityKeeps ==
  ASSUME PortalConfigInv, NEW p \in Portals, FirstIdentity(p)
  PROVE  PortalConfigInv'
<1>1. PortalConfigTypeOK'
  BY DEF FirstIdentity, PortalConfigInv, PortalConfigTypeOK, providerVars
<1> QED
  BY <1>1, ContextUnchanged, AssignmentsUnchanged DEF PortalConfigInv, FirstIdentity

(* The start of the server: no request is under way, and the portal it     *)
(* assigns is enabled.                                                     *)
LEMMA RestartConfigKeeps ==
  ASSUME PortalConfigInv, NEW configured \in BOOLEAN, RestartConfig(configured)
  PROVE  PortalConfigInv'
<1> USE DEF PortalConfigInv, RestartConfig
<1>1. /\ \A m \in Managers : change'[m] = NoChange
      /\ context' = NoContext /\ UNCHANGED <<identities, providers, revision>>
  OBVIOUS
<1>2. AssignmentsHeld' /\ DisablingsHeld'
  BY <1>1 DEF AssignmentsHeld, DisablingsHeld, NoChange
<1>3. /\ context' \in [portal : Portals \cup {NoPortal}, read : SUBSET {"revision", "providers"},
                        revision : 0..MaxRevision, providers : 0..MaxRevision, gone : BOOLEAN]
      /\ ContextInv'
  BY <1>1, PortalConfigAssumption
     DEF NoContext, ContextInv, RevisionsAgree, ContextRead, RevisionNotAhead
<1>4. change' \in [Managers -> Changes]
  BY NoChangeType
<1>5. CASE configured
  <2>1. portals' \in [Portals -> Switch] /\ clients' \in [Portals -> Switch]
    BY <1>5, PortalConfigAssumption DEF PortalConfigTypeOK, Switch
  <2>2. assigned' \subseteq Terminals \X Portals /\ default' \in [Terminals -> Portals \cup {NoPortal}]
    BY <1>5, PortalConfigAssumption DEF PortalConfigTypeOK, Unassigned
  <2>3. PortalConfigTypeOK'
    BY <1>1, <1>3, <1>4, <2>1, <2>2 DEF PortalConfigTypeOK, Changes
  <2>4. \A a \in assigned' : portals'[a[2]] = "enabled"
    BY <1>5, PortalConfigAssumption DEF AssignmentsInv, AssignmentsUsable, PortalConfigTypeOK
  <2>5. ASSUME NEW n \in Terminals
        PROVE  <<n, default'[n]>> \in assigned'
    <3>1. CASE n \in Unassigned
      BY <1>5, <3>1
    <3>2. CASE n \notin Unassigned
      BY <1>5, <3>2 DEF AssignmentsInv, AssignmentsUsable
    <3> QED
      BY <3>1, <3>2
  <2> QED
    BY <1>2, <1>3, <2>3, <2>4, <2>5 DEF AssignmentsInv, AssignmentsUsable
<1>6. CASE ~configured
  <2>1. UNCHANGED <<portals, clients, assigned, default>>
    BY <1>6
  <2>2. PortalConfigTypeOK'
    BY <1>1, <1>3, <1>4, <2>1 DEF PortalConfigTypeOK, Changes
  <2> QED
    BY <1>2, <1>3, <2>1, <2>2 DEF AssignmentsInv, AssignmentsUsable, Unassigned
<1> QED
  BY <1>5, <1>6

LEMMA MutateProviderKeeps ==
  ASSUME PortalConfigInv, NEW p \in Portals, MutateProvider(p)
  PROVE  PortalConfigInv'
<1> USE DEF PortalConfigInv, MutateProvider
<1>1. /\ revision[p] \in 0..MaxRevision /\ providers[p] = revision[p]
      /\ revision[p] + 1 \in 0..MaxRevision
  BY PortalConfigAssumption DEF PortalConfigTypeOK, ContextInv, RevisionsAgree
<1>2. /\ providers' = [providers EXCEPT ![p] = revision[p] + 1]
      /\ revision' = [revision EXCEPT ![p] = revision[p] + 1]
      /\ UNCHANGED <<portals, clients, identities, assigned, default, change, context>>
  BY <1>1
<1>3. PortalConfigTypeOK'
  BY <1>1, <1>2 DEF PortalConfigTypeOK
<1>4. \A q \in Portals : revision[q] \in Nat /\ revision[q] <= revision'[q]
  BY <1>1, <1>2 DEF PortalConfigTypeOK
<1>5. RevisionsAgree'
  BY <1>1, <1>2 DEF PortalConfigTypeOK, ContextInv, RevisionsAgree
<1>6. ContextRead' /\ RevisionNotAhead'
  <2>1. context.revision \in Nat /\ context.portal \in Portals \cup {NoPortal}
    BY DEF PortalConfigTypeOK
  <2>2. \A q \in Portals : revision'[q] \in Nat
    BY <1>3 DEF PortalConfigTypeOK
  <2> QED
    BY <1>2, <1>4, <2>1, <2>2 DEF ContextInv, ContextRead, RevisionNotAhead
<1> QED
  BY <1>2, <1>3, <1>5, <1>6, AssignmentsUnchanged DEF ContextInv

LEMMA StartContextKeeps ==
  ASSUME PortalConfigInv, NEW p \in Portals, StartContext(p)
  PROVE  PortalConfigInv'
<1> USE DEF PortalConfigInv, StartContext
<1>1. context' = [portal |-> p, read |-> {}, revision |-> 0, providers |-> 0, gone |-> FALSE]
  BY DEF NoContext
<1>2. PortalConfigTypeOK'
  <2>1. NoContext \in [portal : Portals \cup {NoPortal}, read : SUBSET {"revision", "providers"},
                       revision : 0..MaxRevision, providers : 0..MaxRevision, gone : BOOLEAN]
    BY PortalConfigAssumption DEF NoContext
  <2>2. context' \in [portal : Portals \cup {NoPortal}, read : SUBSET {"revision", "providers"},
                      revision : 0..MaxRevision, providers : 0..MaxRevision, gone : BOOLEAN]
    BY <2>1
  <2> QED
    BY <2>2 DEF PortalConfigTypeOK
<1>3. ContextInv'
  BY <1>1 DEF ContextInv, RevisionsAgree, ContextRead, RevisionNotAhead
<1> QED
  BY <1>2, <1>3, AssignmentsUnchanged

(* The rows are read after the revision, so they are at least as recent.   *)
LEMMA ListEnabledProvidersKeeps ==
  ASSUME PortalConfigInv, ListEnabledProviders
  PROVE  PortalConfigInv'
<1> USE DEF PortalConfigInv
<1>1. /\ context.portal \in Portals /\ context.portal # NoPortal
      /\ providers[context.portal] = revision[context.portal]
      /\ revision[context.portal] \in 0..MaxRevision
  BY DEF ListEnabledProviders, PortalConfigTypeOK, ContextInv, RevisionsAgree
<1>2. UNCHANGED <<portals, clients, identities, assigned, default, change, providers, revision>>
  BY DEF ListEnabledProviders
<1>3. CASE context' = NoContext
  <2>1. PortalConfigTypeOK'
    BY <1>2, <1>3, PortalConfigAssumption DEF PortalConfigTypeOK, NoContext
  <2>2. ContextInv'
    BY <1>2, <1>3 DEF ContextInv, RevisionsAgree, ContextRead, RevisionNotAhead, NoContext
  <2> QED
    BY <1>2, <2>1, <2>2, AssignmentsUnchanged
<1>4. CASE /\ "revision" \notin context.read
           /\ context' = [context EXCEPT !.read = context.read \cup {"revision"},
                                         !.revision = revision[context.portal]]
  <2>1. /\ context' \in [portal : Portals \cup {NoPortal}, read : SUBSET {"revision", "providers"},
                        revision : 0..MaxRevision, providers : 0..MaxRevision, gone : BOOLEAN]
        /\ context'.read = {"revision"} /\ context'.portal = context.portal
        /\ context'.revision = revision[context.portal]
    <3>1. context.read = {}
      BY <1>4 DEF PortalConfigTypeOK, ContextInv, ContextRead
    <3>2. {"revision"} \in SUBSET {"revision", "providers"}
      OBVIOUS
    <3> QED
      BY <1>1, <1>4, <3>1, <3>2 DEF PortalConfigTypeOK
  <2>2. PortalConfigTypeOK'
    BY <1>2, <2>1 DEF PortalConfigTypeOK
  <2>3. ContextInv'
    BY <1>1, <1>2, <2>1 DEF ContextInv, RevisionsAgree, ContextRead, RevisionNotAhead
  <2> QED
    BY <1>2, <2>2, <2>3, AssignmentsUnchanged
<1>5. CASE /\ "revision" \in context.read
           /\ context' = [context EXCEPT !.read = context.read \cup {"providers"},
                                         !.providers = providers[context.portal]]
  <2>1. /\ context' \in [portal : Portals \cup {NoPortal}, read : SUBSET {"revision", "providers"},
                        revision : 0..MaxRevision, providers : 0..MaxRevision, gone : BOOLEAN]
        /\ context'.portal = context.portal /\ context'.gone = context.gone
        /\ "revision" \in context'.read
        /\ context'.revision = context.revision
        /\ context'.providers = revision[context.portal]
    BY <1>1, <1>5 DEF PortalConfigTypeOK
  <2>2. PortalConfigTypeOK'
    BY <1>2, <2>1 DEF PortalConfigTypeOK
  <2>3. ContextInv'
    BY <1>1, <1>2, <1>5, <2>1 DEF ContextInv, RevisionsAgree, ContextRead, RevisionNotAhead
  <2> QED
    BY <1>2, <2>2, <2>3, AssignmentsUnchanged
<1> QED
  BY <1>3, <1>4, <1>5 DEF ListEnabledProviders, ReadNext

LEMMA PortalConfigStep ==
  PortalConfigInv /\ [PortalConfigNext]_portalVars => PortalConfigInv'
<1>1. ASSUME PortalConfigInv, UNCHANGED portalVars
      PROVE  PortalConfigInv'
  BY <1>1, ContextUnchanged, AssignmentsUnchanged
     DEF portalVars, providerVars, PortalConfigInv, PortalConfigTypeOK
<1>2. ASSUME PortalConfigInv, PortalConfigNext
      PROVE  PortalConfigInv'
  <2>1. CASE PortalNext
    BY <1>2, <2>1, CreateKeeps, LockForDisablingKeeps, DisablePortalKeeps, DeletePortalKeeps,
       RestartConfigKeeps DEF PortalNext
  <2>2. CASE AssignmentNext
    BY <1>2, <2>2, LockEdgeNodeKeeps, CheckAssignmentsKeeps, ReplaceAssignmentsKeeps,
       FirstIdentityKeeps DEF AssignmentNext
  <2>3. CASE ProviderNext
    BY <1>2, <2>3, MutateProviderKeeps, StartContextKeeps, ListEnabledProvidersKeeps
       DEF ProviderNext
  <2> QED
    BY <1>2, <2>1, <2>2, <2>3 DEF PortalConfigNext
<1> QED
  BY <1>1, <1>2

LEMMA PortalConfigStart == PortalConfigInit => PortalConfigInv
<1> SUFFICES ASSUME PortalConfigInit
             PROVE  PortalConfigInv
  OBVIOUS
<1> USE DEF PortalConfigInit
<1>1. PortalConfigTypeOK
  BY PortalConfigAssumption DEF PortalConfigTypeOK, NoChange, NoContext, Switch
<1>2. AssignmentsInv
  BY DEF AssignmentsInv, AssignmentsHeld, DisablingsHeld, AssignmentsUsable, Unassigned, NoChange
<1>3. ContextInv
  BY DEF ContextInv, RevisionsAgree, ContextRead, RevisionNotAhead, NoContext
<1> QED
  BY <1>1, <1>2, <1>3 DEF PortalConfigInv

(* A node offers only enabled portals and has one of them as its default,  *)
(* whatever assignments, disablings, deletions and starts run at once      *)
(* (ReplaceEdgeSitePortals, SetEnabled, Delete, UpsertBootstrap), for any  *)
(* number of portals, nodes and requests.                                  *)
THEOREM AssignedPortalsUsable == PortalConfigSpec => [](PortalConfigTypeOK /\ AssignmentsUsable)
<1>1. PortalConfigInv => PortalConfigTypeOK /\ AssignmentsUsable
  BY DEF PortalConfigInv, AssignmentsInv
<1> QED
  BY <1>1, PortalConfigStart, PortalConfigStep, PTL DEF PortalConfigSpec

(* ListEnabledProviders never sends a revision newer than the providers,   *)
(* unless the portal is deleted between its two statements.                *)
THEOREM RevisionsNotAhead == PortalConfigSpec => []RevisionNotAhead
<1>1. PortalConfigInv => RevisionNotAhead
  BY DEF PortalConfigInv, ContextInv
<1> QED
  BY <1>1, PortalConfigStart, PortalConfigStep, PTL DEF PortalConfigSpec
-----------------------------------------------------------------------------
(* Accounts.  Jobs belong to users who are registered, and only they are   *)
(* active; a job that was never authorized belongs to nobody.              *)
OwnersKnown ==
  /\ \A p \in People : account[p].active => Registered(p)
  /\ \A p \in People : ~Registered(p) => JobsOf(p) = {}
  /\ \A j \in PrintJobs : work[j].phase = "none" => work[j].owner = NoOwner

(* Once the active jobs are counted, a job of the user that is active, or  *)
(* that a report may make active, was unconfirmed when they were; and what *)
(* is removed are exactly the user's jobs: the user's row is locked, so    *)
(* that no job is authorized meanwhile.                                    *)
DeletionKnown ==
  /\ deletion.stage # "no" => deletion.person \in People
  /\ deletion.stage \in {"counted", "erased"} =>
       \A j \in JobsOf(deletion.person) :
         work[j].phase \in {"active", "unconfirmed"} => j \in deletion.doubtful
  /\ deletion.stage = "erased" => deletion.erased = JobsOf(deletion.person)

AccountsInv == AccountsTypeOK /\ OwnersKnown /\ DeletionKnown

(* Steps on accounts that leave the jobs and the deletion alone.           *)
LEMMA AccountStepKeeps ==
  ASSUME AccountsInv, NEW p \in People,
         \/ \E role \in Roles : CreateUser(p, role) \/ UpdateUser(p, role)
         \/ SyncUserOnLogin(p) \/ CreateDefaultAdmin(p)
         \/ \E enabled \in BOOLEAN : UpdateUserEnabled(p, enabled)
         \/ LogIn(p) \/ LeaveSession(p)
  PROVE  AccountsInv'
<1> USE DEF AccountsInv, AccountsTypeOK
<1>1. /\ account' \in [People -> [kind : {"none", "operator", "external"},
                                 role : Roles, active : BOOLEAN]]
      /\ \A q \in People : Registered(q) => Registered(q)'
      /\ \A q \in People : account'[q].active => Registered(q)'
  <2>1. ASSUME NEW role \in Roles, CreateUser(p, role)
        PROVE  <1>1
    BY <2>1 DEF CreateUser, OperatorAccount, Registered, OwnersKnown, Roles
  <2>2. CASE SyncUserOnLogin(p) \/ CreateDefaultAdmin(p)
    BY <2>1, <2>2 DEF SyncUserOnLogin, CreateDefaultAdmin, Roles
  <2>3. ASSUME NEW role \in Roles, UpdateUser(p, role)
        PROVE  <1>1
    BY <2>3 DEF UpdateUser, Registered, OwnersKnown
  <2>4. ASSUME NEW enabled \in BOOLEAN, UpdateUserEnabled(p, enabled)
        PROVE  <1>1
    BY <2>4 DEF UpdateUserEnabled, Registered, OwnersKnown
  <2>5. CASE LogIn(p)
    BY <2>5 DEF LogIn, Registered, OwnersKnown, Roles
  <2>6. CASE LeaveSession(p)
    BY <2>6 DEF LeaveSession, Registered, OwnersKnown
  <2> QED
    BY <2>1, <2>2, <2>3, <2>4, <2>5, <2>6
<1>2. /\ inSession' \subseteq People
      /\ UNCHANGED <<work, deletion>>
  BY DEF CreateUser, SyncUserOnLogin, CreateDefaultAdmin, UpdateUser, UpdateUserEnabled,
     LogIn, LeaveSession
<1>3. AccountsTypeOK'
  BY <1>1, <1>2
<1>4. OwnersKnown' /\ DeletionKnown'
  BY <1>1, <1>2 DEF OwnersKnown, DeletionKnown, JobsOf
<1> QED
  BY <1>3, <1>4

(* A job is authorized only for a user who is not being deleted.           *)
LEMMA AuthorizeJobKeeps ==
  ASSUME AccountsInv, NEW p \in People, NEW j \in PrintJobs, AuthorizeJob(p, j)
  PROVE  AccountsInv'
<1> USE DEF AccountsInv, AuthorizeJob
<1>1. AccountsTypeOK'
  BY DEF AccountsTypeOK
<1>2. /\ work'[j] = [owner |-> p, phase |-> "active", receipt |-> FALSE]
      /\ \A i \in PrintJobs \ {j} : work'[i] = work[i]
      /\ Registered(p)
  BY DEF AccountsTypeOK, OwnersKnown
<1>3. OwnersKnown'
  BY <1>2 DEF OwnersKnown, JobsOf, Registered
<1>4. CASE deletion.stage = "no"
  BY <1>1, <1>3, <1>4 DEF DeletionKnown
<1>5. CASE deletion.stage # "no"
  <2>1. JobsOf(deletion.person)' = JobsOf(deletion.person) /\ j \notin JobsOf(deletion.person)
    BY <1>2, <1>5, AccountsAssumption DEF JobsOf, Unlocked, OwnersKnown, DeletionKnown
  <2>2. \A i \in JobsOf(deletion.person) : work'[i] = work[i]
    BY <1>2, <2>1 DEF JobsOf
  <2> QED
    BY <1>1, <1>3, <2>1, <2>2 DEF DeletionKnown
<1> QED
  BY <1>1, <1>3, <1>4, <1>5

LEMMA JobStepKeeps ==
  ASSUME AccountsInv, NEW j \in PrintJobs, NEW phase \in {"active", "unconfirmed", "closed"},
         MoveJob(j, phase) \/ ReportJob(j, phase)
  PROVE  AccountsInv'
<1> USE DEF AccountsInv, MoveJob, ReportJob
<1>1. AccountsTypeOK'
  <2>1. CASE MoveJob(j, phase)
    BY <2>1 DEF AccountsTypeOK
  <2>2. CASE ReportJob(j, phase)
    <3>1. PICK x : /\ x = [work[j] EXCEPT !.phase = phase, !.receipt = TRUE]
                   /\ work' = [work EXCEPT ![j] = x]
      BY <2>2
    <3>2. x \in [owner : People \cup {NoOwner},
                phase : {"none", "active", "unconfirmed", "closed"}, receipt : BOOLEAN]
      BY <3>1 DEF AccountsTypeOK
    <3> QED
      BY <2>2, <3>1, <3>2 DEF AccountsTypeOK
  <2> QED
    BY <2>1, <2>2
<1>2. /\ work[j].phase \in {"active", "unconfirmed"}
      /\ work'[j].owner = work[j].owner /\ work'[j].phase # "none"
      /\ \A i \in PrintJobs \ {j} : work'[i] = work[i]
      /\ UNCHANGED <<account, inSession, deletion>>
  BY DEF AccountsTypeOK
<1>3. \A p : JobsOf(p)' = JobsOf(p)
  BY <1>2 DEF JobsOf
<1>4. OwnersKnown'
  BY <1>2, <1>3 DEF OwnersKnown, Registered
<1>5. DeletionKnown'
  BY <1>2, <1>3 DEF DeletionKnown, JobsOf
<1> QED
  BY <1>1, <1>4, <1>5

LEMMA NoDeletionKeeps ==
  ASSUME AccountsInv, deletion' = NoDeletion, UNCHANGED <<account, inSession, work>>
  PROVE  AccountsInv'
BY DEF AccountsInv, AccountsTypeOK, OwnersKnown, DeletionKnown, NoDeletion, Registered, JobsOf

LEMMA DeletionBeginsKeeps ==
  ASSUME AccountsInv, (\E p \in People : LockUser(p)) \/ CountActiveJobs \/ EraseJobs
  PROVE  AccountsInv'
<1> USE DEF AccountsInv
<1>1. UNCHANGED <<account, inSession, work>>
  BY DEF LockUser, CountActiveJobs, EraseJobs
<1>2. OwnersKnown'
  BY <1>1 DEF OwnersKnown, Registered, JobsOf
<1>3. ASSUME NEW p \in People, LockUser(p)
      PROVE  AccountsInv'
  <2>1. deletion' = [stage |-> "locked", person |-> p, doubtful |-> {}, erased |-> {}]
    BY <1>3 DEF LockUser, NoDeletion
  <2> QED
    BY <1>1, <1>2, <2>1 DEF AccountsTypeOK, DeletionKnown
<1>4. CASE CountActiveJobs /\ deletion' # NoDeletion
  <2> DEFINE unsure == {j \in JobsOf(deletion.person) : work[j].phase = "unconfirmed"}
  <2>1. /\ \A j \in JobsOf(deletion.person) : work[j].phase # "active"
        /\ deletion' = [deletion EXCEPT !.stage = "counted", !.doubtful = unsure]
        /\ deletion.stage = "locked"
    BY <1>4 DEF CountActiveJobs
  <2>2. unsure \in SUBSET PrintJobs
    BY DEF JobsOf
  <2> HIDE DEF unsure
  <2>3. AccountsTypeOK'
    BY <1>1, <2>1, <2>2 DEF AccountsTypeOK
  <2>4. /\ deletion'.stage = "counted" /\ deletion'.person = deletion.person
        /\ deletion'.doubtful = unsure
    BY <2>1 DEF AccountsTypeOK
  <2>5. DeletionKnown'
    BY <1>1, <2>1, <2>4 DEF DeletionKnown, JobsOf, unsure
  <2> QED
    BY <1>2, <2>3, <2>5
<1>5. CASE EraseJobs /\ deletion' # NoDeletion
  <2> DEFINE mine == JobsOf(deletion.person)
  <2>1. /\ deletion' = [deletion EXCEPT !.stage = "erased", !.erased = mine]
        /\ deletion.stage = "counted"
    BY <1>5 DEF EraseJobs
  <2>2. mine \in SUBSET PrintJobs
    BY DEF JobsOf
  <2> HIDE DEF mine
  <2>3. AccountsTypeOK'
    BY <1>1, <2>1, <2>2 DEF AccountsTypeOK
  <2>4. /\ deletion'.stage = "erased" /\ deletion'.person = deletion.person
        /\ deletion'.doubtful = deletion.doubtful /\ deletion'.erased = mine
    BY <2>1 DEF AccountsTypeOK
  <2>5. DeletionKnown'
    BY <1>1, <2>1, <2>4 DEF DeletionKnown, JobsOf, mine
  <2> QED
    BY <1>2, <2>3, <2>5
<1> QED
  BY <1>1, <1>3, <1>4, <1>5, NoDeletionKeeps

(* The commit: the user's account and all of the user's jobs are gone.     *)
LEMMA EraseUserKeeps ==
  ASSUME AccountsInv, EraseUser
  PROVE  AccountsInv'
<1> USE DEF AccountsInv
<1>1. CASE deletion.person \in inSession
  BY <1>1, NoDeletionKeeps DEF EraseUser
<1>2. CASE deletion.person \notin inSession
  <2>1. /\ account' = [account EXCEPT ![deletion.person] = NoAccount]
        /\ work' = [j \in PrintJobs |-> IF j \in deletion.erased THEN NoWork ELSE work[j]]
        /\ deletion' = NoDeletion /\ UNCHANGED inSession
        /\ deletion.person \in People /\ deletion.erased = JobsOf(deletion.person)
    BY <1>2 DEF EraseUser, DeletionKnown
  <2>2. AccountsTypeOK'
    BY <2>1 DEF AccountsTypeOK, NoAccount, NoWork, NoDeletion, Roles
  <2>3. /\ account'[deletion.person] = NoAccount
        /\ \A p \in People \ {deletion.person} : account'[p] = account[p]
    BY <2>1 DEF AccountsTypeOK
  <2>4. \A j \in PrintJobs :
          \/ work'[j].owner = NoOwner /\ work'[j].phase = "none"
          \/ work'[j] = work[j] /\ work[j].owner # deletion.person
    BY <2>1 DEF JobsOf, NoWork
  <2>5. OwnersKnown'
    <3>1. \A p \in People : account'[p].active => Registered(p)'
      BY <2>3 DEF OwnersKnown, Registered, NoAccount
    <3>2. \A p \in People : ~Registered(p)' => JobsOf(p)' = {}
      BY <2>3, <2>4, AccountsAssumption DEF OwnersKnown, Registered, JobsOf
    <3>3. \A j \in PrintJobs : work'[j].phase = "none" => work'[j].owner = NoOwner
      BY <2>4 DEF OwnersKnown
    <3> QED
      BY <3>1, <3>2, <3>3 DEF OwnersKnown
  <2> QED
    BY <2>1, <2>2, <2>5 DEF DeletionKnown, NoDeletion
<1> QED
  BY <1>1, <1>2

LEMMA AccountsStepKeeps ==
  AccountsInv /\ [AccountsNext]_accountVars => AccountsInv'
<1>1. ASSUME AccountsInv, UNCHANGED accountVars
      PROVE  AccountsInv'
  BY <1>1 DEF accountVars, AccountsInv, AccountsTypeOK, OwnersKnown, DeletionKnown, Registered, JobsOf
<1>2. ASSUME AccountsInv, AccountsNext
      PROVE  AccountsInv'
  <2>1. CASE OperatorStep
    BY <1>2, <2>1, AccountStepKeeps, DeletionBeginsKeeps DEF OperatorStep
  <2>2. CASE PrintingStep
    BY <1>2, <2>2, AccountStepKeeps, AuthorizeJobKeeps, JobStepKeeps DEF PrintingStep
  <2>3. CASE AbandonDeletion
    BY <1>2, <2>3, NoDeletionKeeps DEF AbandonDeletion
  <2> QED
    BY <1>2, <2>1, <2>2, <2>3, DeletionBeginsKeeps, EraseUserKeeps DEF AccountsNext
<1> QED
  BY <1>1, <1>2

LEMMA AccountsStart == AccountsInit => AccountsInv
<1> SUFFICES ASSUME AccountsInit
             PROVE  AccountsInv
  OBVIOUS
<1> USE DEF AccountsInit, NoAccount, NoWork, NoDeletion
<1>1. AccountsTypeOK
  BY DEF AccountsTypeOK, Roles
<1>2. OwnersKnown /\ DeletionKnown
  BY AccountsAssumption DEF OwnersKnown, DeletionKnown, JobsOf, Registered
<1> QED
  BY <1>1, <1>2 DEF AccountsInv

(* Only a deletion's commit removes jobs.                                  *)
LEMMA OnlyErasedDisappear ==
  ASSUME AccountsInv, AccountsNext, NEW j \in PrintJobs,
         work[j].phase = "active", work'[j].phase = "none"
  PROVE  j \in deletion.doubtful
<1> USE DEF AccountsInv
<1>1. CASE OperatorStep \/ CountActiveJobs \/ EraseJobs \/ AbandonDeletion
  <2>1. UNCHANGED work
    BY <1>1 DEF OperatorStep, CreateUser, SyncUserOnLogin, CreateDefaultAdmin, UpdateUser,
       UpdateUserEnabled, LockUser, CountActiveJobs, EraseJobs, AbandonDeletion
  <2> QED
    BY <2>1
<1>2. CASE PrintingStep
  <2>1. ASSUME NEW p \in People, LogIn(p) \/ LeaveSession(p)
        PROVE  FALSE
    BY <2>1 DEF LogIn, LeaveSession
  <2>2. ASSUME NEW p \in People, NEW i \in PrintJobs, AuthorizeJob(p, i)
        PROVE  FALSE
    BY <2>2 DEF AuthorizeJob, AccountsTypeOK
  <2>3. ASSUME NEW i \in PrintJobs, NEW phase \in {"active", "unconfirmed", "closed"},
               MoveJob(i, phase) \/ ReportJob(i, phase)
        PROVE  FALSE
    BY <2>3 DEF MoveJob, ReportJob, AccountsTypeOK
  <2> QED
    BY <1>2, <2>1, <2>2, <2>3 DEF PrintingStep
<1>3. CASE EraseUser
  <2>1. j \in deletion.erased /\ deletion.stage = "erased"
    BY <1>3 DEF EraseUser, NoWork
  <2> QED
    BY <2>1 DEF DeletionKnown
<1> QED
  BY <1>1, <1>2, <1>3 DEF AccountsNext

(* DeleteUserWithPrintJobs removes an active job only if it was            *)
(* unconfirmed when the active ones were counted, and leaves no job        *)
(* without its owner, for any number of users and jobs.                    *)
THEOREM ActiveJobsNotErased == AccountsSpec => NoActiveJobErased
<1>1. AccountsInv /\ [AccountsNext]_accountVars =>
        [/\ \A j \in PrintJobs :
              work[j].phase = "active" /\ work'[j].phase = "none" => j \in deletion.doubtful
         /\ \A p \in People : account'[p].kind = "none" =>
              \A j \in PrintJobs : work'[j].owner # p]_accountVars
  <2> SUFFICES ASSUME AccountsInv, AccountsNext
               PROVE  /\ \A j \in PrintJobs :
                           work[j].phase = "active" /\ work'[j].phase = "none"
                             => j \in deletion.doubtful
                      /\ \A p \in People : account'[p].kind = "none" =>
                           \A j \in PrintJobs : work'[j].owner # p
    OBVIOUS
  <2>1. AccountsInv'
    BY AccountsStepKeeps
  <2>2. \A p \in People : account'[p].kind = "none" => \A j \in PrintJobs : work'[j].owner # p
    BY <2>1 DEF AccountsInv, OwnersKnown, Registered, JobsOf
  <2> QED
    BY <2>2, OnlyErasedDisappear
<1> QED
  BY <1>1, AccountsStart, AccountsStepKeeps, PTL DEF AccountsSpec, NoActiveJobErased

(* Accounts, jobs and the deletion keep to their types.                    *)
THEOREM AccountsTyped == AccountsSpec => []AccountsTypeOK
<1>1. AccountsInv => AccountsTypeOK
  BY DEF AccountsInv
<1> QED
  BY <1>1, AccountsStart, AccountsStepKeeps, PTL DEF AccountsSpec
-----------------------------------------------------------------------------
(* OpsContacts.  A replacement that nobody has overtaken still counts less *)
(* than the limit on every node it has added a binding to: what others do  *)
(* without committing bindings only lowers the count.                      *)
CountedBelow ==
  \A r \in Replacers, n \in ContactNodes :
    n \in replacing[r].added /\ ~replacing[r].overtaken => ~NodeFull(r, n)

(* However many contacts there may be, those of one node stay finite: each *)
(* commit adds at most one to it.                                          *)
BoundOn(n) == {b \in bound : b[1] = n}

BindingsFinite == \A n \in ContactNodes : IsFiniteSet(BoundOn(n))

OpsContactsInv == OpsContactsTypeOK /\ CountedBelow /\ BindingsFinite

Replacements == [contact : Contacts \cup {NoContact}, max : {0} \cup Limits,
                 cleared : SUBSET (ContactNodes \X Contacts),
                 todo : SUBSET ContactNodes,
                 added : SUBSET ContactNodes,
                 overtaken : BOOLEAN]

LEMMA LimitsNatural ==
  ASSUME OpsContactsTypeOK
  PROVE  /\ \A r \in Replacers : replacing[r] \in Replacements /\ replacing[r].max \in Nat
         /\ limit \in Limits /\ DefaultLimit \in Limits /\ Limits \subseteq Nat
<1>1. Limits \subseteq Nat /\ DefaultLimit \in Limits /\ limit \in Limits
  BY OpsContactsAssumption DEF OpsContactsTypeOK
<1>2. ASSUME NEW r \in Replacers
      PROVE  replacing[r] \in Replacements /\ replacing[r].max \in Nat
  <2>1. replacing[r] \in Replacements
    BY DEF OpsContactsTypeOK, Replacements
  <2>2. replacing[r].max = 0 \/ replacing[r].max \in Limits
    BY <2>1 DEF Replacements
  <2>3. replacing[r].max \in Nat
    BY <1>1, <2>2
  <2> QED
    BY <2>1, <2>3
<1> QED
  BY <1>1, <1>2

LEMMA SubsetCount ==
  ASSUME NEW S, NEW T, IsFiniteSet(T), S \subseteq T
  PROVE  IsFiniteSet(S) /\ Cardinality(S) \in Nat /\ Cardinality(T) \in Nat
         /\ Cardinality(S) <= Cardinality(T)
BY FS_Subset, FS_CardinalityType

LEMMA CountNatural ==
  ASSUME BindingsFinite, NEW n \in ContactNodes, NEW S, S \subseteq BoundOn(n)
  PROVE  IsFiniteSet(S) /\ Cardinality(S) \in Nat
BY SubsetCount DEF BindingsFinite

(* A step that commits no bindings does not raise what a replacement       *)
(* counts: it removes some, or changes contacts that have none.            *)
LEMMA NothingCommitted ==
  ASSUME OpsContactsInv, OpsContactsTypeOK',
         bound' \subseteq bound,
         \A c \in contact' \ contact : BindingsOf(c) = {},
         NEW n \in ContactNodes
  PROVE  /\ OnNode(n) \in Nat /\ OnNode(n)' \in Nat /\ OnNode(n)' <= OnNode(n)
         /\ IsFiniteSet(BoundOn(n)')
         /\ \A r \in Replacers : replacing'[r].cleared = replacing[r].cleared =>
              /\ CountOnNode(r, n) \in Nat /\ CountOnNode(r, n)' \in Nat
              /\ CountOnNode(r, n)' <= CountOnNode(r, n)
<1> USE DEF OpsContactsInv
<1>1. \A b \in bound' : b \in bound /\ (b[2] \in contact' => b[2] \in contact)
  BY DEF BindingsOf
<1>2. IsFiniteSet(BoundOn(n)) /\ BoundOn(n)' \subseteq BoundOn(n)
  BY DEF BindingsFinite, BoundOn
<1>3. OnNode(n) \in Nat /\ OnNode(n)' \in Nat /\ OnNode(n)' <= OnNode(n)
  <2> DEFINE S == {b \in bound' : b[1] = n /\ b[2] \in contact'}
             T == {b \in bound : b[1] = n /\ b[2] \in contact}
  <2>1. S \subseteq T /\ T \subseteq BoundOn(n)
    BY <1>1 DEF BoundOn
  <2>2. OnNode(n)' = Cardinality(S) /\ OnNode(n) = Cardinality(T)
    BY DEF OnNode
  <2> HIDE DEF S, T
  <2> QED
    BY <2>1, <2>2, CountNatural, SubsetCount
<1>4. ASSUME NEW r \in Replacers, replacing'[r].cleared = replacing[r].cleared
      PROVE  /\ CountOnNode(r, n) \in Nat /\ CountOnNode(r, n)' \in Nat
             /\ CountOnNode(r, n)' <= CountOnNode(r, n)
  <2> DEFINE S == {b \in bound' \ replacing'[r].cleared : b[1] = n /\ b[2] \in contact'}
             T == {b \in bound \ replacing[r].cleared : b[1] = n /\ b[2] \in contact}
  <2>1. S \subseteq T /\ T \subseteq BoundOn(n)
    BY <1>1, <1>4 DEF BoundOn
  <2>2. CountOnNode(r, n)' = Cardinality(S) /\ CountOnNode(r, n) = Cardinality(T)
    BY DEF CountOnNode
  <2> HIDE DEF S, T
  <2> QED
    BY <2>1, <2>2, CountNatural, SubsetCount
<1>5. IsFiniteSet(BoundOn(n)')
  BY <1>2, SubsetCount
<1> QED
  BY <1>3, <1>4, <1>5

(* Such a step keeps the invariant if every replacement is as it was, or   *)
(* has added nothing, or has just found room for what it adds.             *)
LEMMA UncommittedKeeps ==
  ASSUME OpsContactsInv, OpsContactsTypeOK',
         bound' \subseteq bound,
         \A c \in contact' \ contact : BindingsOf(c) = {},
         \A r \in Replacers :
           \/ replacing'[r] = replacing[r]
           \/ replacing'[r].added = {}
           \/ /\ replacing'[r].cleared = replacing[r].cleared
              /\ replacing'[r].max = replacing[r].max
              /\ replacing'[r].overtaken = replacing[r].overtaken
              /\ \A n \in replacing'[r].added \ replacing[r].added : ~NodeFull(r, n)
  PROVE  OpsContactsInv'
<1>1. BindingsFinite'
  BY NothingCommitted DEF BindingsFinite
<1>2. CountedBelow'
  <2> SUFFICES ASSUME NEW r \in Replacers, NEW n \in ContactNodes,
                      n \in replacing'[r].added, ~replacing'[r].overtaken
               PROVE  ~NodeFull(r, n)'
    BY DEF CountedBelow
  <2>1. /\ replacing'[r].cleared = replacing[r].cleared
        /\ replacing'[r].max = replacing[r].max
        /\ ~NodeFull(r, n)
    BY DEF OpsContactsInv, CountedBelow
  <2> QED
    BY <2>1, NothingCommitted, LimitsNatural DEF NodeFull, OpsContactsInv
<1> QED
  BY <1>1, <1>2 DEF OpsContactsInv

LEMMA StartReplacingTypes ==
  ASSUME OpsContactsTypeOK, NEW r \in Replacers, NEW c \in Contacts,
         NEW nodes \in SUBSET ContactNodes, StartReplacing(r, c, nodes)
  PROVE  /\ replacing' \in [Replacers -> Replacements]
         /\ replacing'[r].added = {}
         /\ \A s \in Replacers \ {r} : replacing'[s] = replacing[s]
<1>1. PICK max \in Limits :
        replacing' = [replacing EXCEPT ![r] =
         [contact |-> c, max |-> max, cleared |-> BindingsOf(c),
          todo |-> nodes, added |-> {}, overtaken |-> FALSE]]
  BY LimitsNatural DEF StartReplacing
<1>2. BindingsOf(c) \in SUBSET (ContactNodes \X Contacts)
  BY DEF BindingsOf, OpsContactsTypeOK
<1> DEFINE x == [contact |-> c, max |-> max, cleared |-> BindingsOf(c),
                 todo |-> nodes, added |-> {}, overtaken |-> FALSE]
<1>3. x \in Replacements /\ x.added = {}
  BY <1>2 DEF Replacements
<1>4. replacing \in [Replacers -> Replacements]
  BY DEF OpsContactsTypeOK, Replacements
<1> HIDE DEF x
<1> QED
  BY <1>1, <1>3, <1>4 DEF x

LEMMA NoReplacementType == NoReplacement \in Replacements /\ NoReplacement.added = {}
BY DEF NoReplacement, Replacements

(* Only what is committed may raise the count of a node.                   *)
LEMMA UncommittedStep ==
  ASSUME OpsContactsInv, OpsContactsNext, ~\E r \in Replacers : CommitBindings(r)
  PROVE  /\ OpsContactsInv'
         /\ \A n \in ContactNodes : ~(OnNode(n)' > OnNode(n))
<1>1. /\ OpsContactsTypeOK'
      /\ bound' \subseteq bound
      /\ \A c \in contact' \ contact : BindingsOf(c) = {}
      /\ \A r \in Replacers :
           \/ replacing'[r] = replacing[r]
           \/ replacing'[r].added = {}
           \/ /\ replacing'[r].cleared = replacing[r].cleared
              /\ replacing'[r].max = replacing[r].max
              /\ replacing'[r].overtaken = replacing[r].overtaken
              /\ \A n \in replacing'[r].added \ replacing[r].added : ~NodeFull(r, n)
  <2> USE DEF OpsContactsInv
  <2>1. /\ contact \subseteq Contacts /\ bound \subseteq ContactNodes \X Contacts
        /\ gone \subseteq ContactNodes /\ limit \in Limits
        /\ replacing \in [Replacers -> Replacements]
    BY DEF OpsContactsTypeOK, Replacements
  <2>2. ASSUME contact' \subseteq Contacts, bound' \subseteq ContactNodes \X Contacts,
               gone' \subseteq ContactNodes, limit' \in Limits,
               replacing' \in [Replacers -> Replacements]
        PROVE  OpsContactsTypeOK'
    BY <2>2 DEF OpsContactsTypeOK, Replacements
  <2>3. ASSUME NEW r \in Replacers, NEW c \in Contacts, NEW nodes \in SUBSET ContactNodes,
               ReplaceNodes(r, c, nodes) \/ CreateContact(r, c, nodes)
        PROVE  <1>1
    <3>1. \/ UNCHANGED replacing
          \/ StartReplacing(r, c, nodes)
      BY <2>3 DEF ReplaceNodes, CreateContact
    <3>2. /\ UNCHANGED <<bound, gone, limit>> /\ contact' \subseteq contact \cup {c}
          /\ \A d \in contact' \ contact : BindingsOf(d) = {}
      BY <2>3 DEF ReplaceNodes, CreateContact
    <3>3. replacing' \in [Replacers -> Replacements]
      BY <2>1, <3>1, StartReplacingTypes
    <3>4. OpsContactsTypeOK'
      BY <2>1, <2>2, <3>2, <3>3
    <3> QED
      BY <3>1, <3>2, <3>4, StartReplacingTypes
  <2>4. ASSUME NEW r \in Replacers, RollBackBindings(r)
        PROVE  <1>1
    <3>1. /\ replacing' = [replacing EXCEPT ![r] = NoReplacement]
          /\ contact' \subseteq contact /\ UNCHANGED <<bound, gone, limit>>
      BY <2>4 DEF RollBackBindings
    <3> QED
      BY <2>1, <2>2, <3>1, NoReplacementType
  <2>5. ASSUME NEW r \in Replacers, NEW n \in ContactNodes, BindNode(r, n)
        PROVE  <1>1
    <3>1. PICK x : /\ x = [replacing[r] EXCEPT !.todo = replacing[r].todo \ {n},
                                               !.added = replacing[r].added \cup {n}]
                   /\ replacing' = [replacing EXCEPT ![r] = x]
      BY <2>5 DEF BindNode
    <3>2. /\ x \in Replacements /\ x.cleared = replacing[r].cleared /\ x.max = replacing[r].max
          /\ x.overtaken = replacing[r].overtaken /\ x.added = replacing[r].added \cup {n}
      BY <2>1, <3>1 DEF Replacements
    <3>3. ~NodeFull(r, n) /\ UNCHANGED <<contact, bound, gone, limit>>
      BY <2>5 DEF BindNode
    <3> QED
      BY <2>1, <2>2, <3>1, <3>2, <3>3
  <2>6. ASSUME \/ \E c \in Contacts : RemoveContact(c)
               \/ \E n \in ContactNodes : DeleteContactNode(n)
               \/ \E to \in Limits : UpdateSettings(to)
        PROVE  <1>1
    <3>1. /\ contact' \subseteq contact /\ bound' \subseteq bound /\ UNCHANGED replacing
          /\ gone' \subseteq ContactNodes /\ limit' \in Limits
      BY <2>1, <2>6 DEF RemoveContact, DeleteContactNode, UpdateSettings
    <3> QED
      BY <2>1, <2>2, <3>1
  <2> QED
    BY <2>3, <2>4, <2>5, <2>6 DEF OpsContactsNext
<1>2. OpsContactsInv'
  BY <1>1, UncommittedKeeps
<1>3. \A n \in ContactNodes : ~(OnNode(n)' > OnNode(n))
  BY <1>1, NothingCommitted
<1> QED
  BY <1>2, <1>3

(* A commit leaves on a node at most what was counted there and the one    *)
(* binding it adds.                                                        *)
LEMMA CommitCount ==
  ASSUME OpsContactsInv, NEW r \in Replacers, CommitBindings(r), NEW n \in ContactNodes
  PROVE  /\ OnNode(n) \in Nat /\ OnNode(n)' \in Nat /\ CountOnNode(r, n) \in Nat
         /\ IsFiniteSet(BoundOn(n)')
         /\ OnNode(n)' <= CountOnNode(r, n) + 1
         /\ n \notin replacing[r].added => OnNode(n)' <= OnNode(n)
<1> USE DEF OpsContactsInv
<1> DEFINE c == replacing[r].contact
           C == {b \in bound \ replacing[r].cleared : b[1] = n /\ b[2] \in contact}
           S == {b \in bound' : b[1] = n /\ b[2] \in contact'}
           T == {b \in bound : b[1] = n /\ b[2] \in contact}
           N == BoundOn(n)
           M == BoundOn(n)'
<1>1. /\ bound' = (bound \ replacing[r].cleared) \cup {<<m, c>> : m \in replacing[r].added}
      /\ UNCHANGED contact
  BY DEF CommitBindings
<1>2. OnNode(n) = Cardinality(T) /\ OnNode(n)' = Cardinality(S) /\ CountOnNode(r, n) = Cardinality(C)
  BY DEF OnNode, CountOnNode
<1>3. IsFiniteSet(N)
  BY DEF BindingsFinite
<1>4. /\ C \subseteq T /\ T \subseteq N
      /\ M \subseteq N \cup {<<n, c>>}
      /\ S \subseteq C \cup {<<n, c>>} /\ S \subseteq M
      /\ n \notin replacing[r].added => S \subseteq T
  BY <1>1 DEF BoundOn
<1> HIDE DEF C, S, T, N, M, c
<1>5. IsFiniteSet(N \cup {<<n, c>>})
  BY <1>3, FS_AddElement
<1>6. IsFiniteSet(M) /\ IsFiniteSet(T) /\ IsFiniteSet(C)
  BY <1>3, <1>4, <1>5, SubsetCount
<1>7. /\ IsFiniteSet(C \cup {<<n, c>>})
      /\ Cardinality(C \cup {<<n, c>>}) <= Cardinality(C) + 1 /\ Cardinality(C) \in Nat
  <2>1. Cardinality(C) \in Nat
    BY <1>6, FS_CardinalityType
  <2>2. /\ IsFiniteSet(C \cup {<<n, c>>})
        /\ Cardinality(C \cup {<<n, c>>}) = IF <<n, c>> \in C THEN Cardinality(C) ELSE Cardinality(C) + 1
    BY <1>6, FS_AddElement
  <2> QED
    BY <2>1, <2>2
<1>8. /\ Cardinality(S) \in Nat /\ Cardinality(S) <= Cardinality(C) + 1
      /\ Cardinality(T) \in Nat
  BY <1>4, <1>6, <1>7, SubsetCount
<1>9. n \notin replacing[r].added => Cardinality(S) <= Cardinality(T)
  BY <1>4, <1>6, SubsetCount
<1> QED
  BY <1>2, <1>6, <1>7, <1>8, <1>9 DEF M

LEMMA CommitBindingsKeeps ==
  ASSUME OpsContactsInv, NEW r \in Replacers, CommitBindings(r)
  PROVE  OpsContactsInv'
<1> USE DEF OpsContactsInv
<1>1. replacing \in [Replacers -> Replacements]
  BY DEF OpsContactsTypeOK, Replacements
<1>2. ASSUME NEW s \in Replacers
      PROVE  /\ replacing'[s] \in Replacements
             /\ replacing'[s].added = {} \/ replacing'[s].overtaken
  <2>1. CASE s = r \/ replacing[s] = NoReplacement
    BY <2>1, NoReplacementType DEF CommitBindings
  <2>2. CASE ~(s = r \/ replacing[s] = NoReplacement)
    <3>1. replacing'[s] = [replacing[s] EXCEPT !.overtaken = TRUE]
      BY <2>2 DEF CommitBindings
    <3> QED
      BY <1>1, <3>1 DEF Replacements
  <2> QED
    BY <2>1, <2>2
<1>3. replacing' \in [Replacers -> Replacements]
  BY <1>2 DEF CommitBindings
<1>4. bound' \subseteq ContactNodes \X Contacts
  <2>1. replacing[r].contact \in Contacts /\ replacing[r].added \subseteq ContactNodes
    BY <1>1 DEF CommitBindings, Replacements
  <2> QED
    BY <2>1 DEF CommitBindings, OpsContactsTypeOK
<1>5. OpsContactsTypeOK'
  BY <1>3, <1>4 DEF CommitBindings, OpsContactsTypeOK, Replacements
<1>6. CountedBelow'
  BY <1>2 DEF CountedBelow
<1>7. BindingsFinite'
  BY CommitCount DEF BindingsFinite
<1> QED
  BY <1>5, <1>6, <1>7

LEMMA OpsContactsStep ==
  OpsContactsInv /\ [OpsContactsNext]_contactVars => OpsContactsInv'
<1>1. ASSUME OpsContactsInv, UNCHANGED contactVars
      PROVE  OpsContactsInv'
  <2>1. OpsContactsTypeOK'
    BY <1>1 DEF contactVars, OpsContactsInv, OpsContactsTypeOK
  <2> QED
    BY <1>1, <2>1, UncommittedKeeps DEF contactVars
<1> QED
  BY <1>1, UncommittedStep, CommitBindingsKeeps

LEMMA OpsContactsStart == OpsContactsInit => OpsContactsInv
<1> SUFFICES ASSUME OpsContactsInit
             PROVE  OpsContactsInv
  OBVIOUS
<1> USE DEF OpsContactsInit
<1>1. OpsContactsTypeOK
  BY OpsContactsAssumption, NoReplacementType DEF OpsContactsTypeOK, Replacements
<1>2. CountedBelow
  BY NoReplacementType DEF CountedBelow
<1>3. BindingsFinite
  <2>1. \A n : BoundOn(n) = {}
    BY DEF BoundOn
  <2> QED
    BY <2>1, FS_EmptySet DEF BindingsFinite
<1> QED
  BY <1>1, <1>2, <1>3 DEF OpsContactsInv

(* ReplaceNodeBindings brings a node above the limit it was checked        *)
(* against only when another replacement has committed since it began, for *)
(* any number of nodes, contacts and replacements.                         *)
THEOREM OverfilledOnlyByOverlap == OpsContactsSpec => NodeOverfilledByOverlap
<1>1. OpsContactsInv /\ [OpsContactsNext]_contactVars =>
        [\A n \in ContactNodes : OnNode(n)' > OnNode(n) =>
           \E r \in Replacers :
             /\ n \in replacing[r].added /\ replacing'[r] = NoReplacement
             /\ OnNode(n)' <= replacing[r].max \/ replacing[r].overtaken]_contactVars
  <2> SUFFICES ASSUME OpsContactsInv, OpsContactsNext, NEW n \in ContactNodes,
                      OnNode(n)' > OnNode(n)
               PROVE  \E r \in Replacers :
                        /\ n \in replacing[r].added /\ replacing'[r] = NoReplacement
                        /\ OnNode(n)' <= replacing[r].max \/ replacing[r].overtaken
    OBVIOUS
  <2>1. PICK r \in Replacers : CommitBindings(r)
    BY UncommittedStep
  <2>2. n \in replacing[r].added
    BY <2>1, CommitCount
  <2>3. replacing'[r] = NoReplacement
    BY <2>1 DEF CommitBindings
  <2>4. ASSUME ~replacing[r].overtaken
        PROVE  OnNode(n)' <= replacing[r].max
    <3>1. ~NodeFull(r, n)
      BY <2>2, <2>4 DEF OpsContactsInv, CountedBelow
    <3> QED
      BY <2>1, <3>1, CommitCount, LimitsNatural DEF NodeFull, OpsContactsInv
  <2> QED
    BY <2>2, <2>3, <2>4
<1> QED
  BY <1>1, OpsContactsStart, OpsContactsStep, PTL DEF OpsContactsSpec, NodeOverfilledByOverlap
=============================================================================
