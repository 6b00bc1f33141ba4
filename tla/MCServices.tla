----------------------------- MODULE MCServices -----------------------------
(***************************************************************************)
(* One run for the components that share no state with each other: the     *)
(* access tokens, the availability of a node, the stored files, the        *)
(* notification outbox, the session files, the portal configuration, the   *)
(* meter of a printer, the credentials of nodes, the accounts, the         *)
(* contacts and the start of the server.  Interleaving them would only     *)
(* multiply their states; `focus` picks the one that runs, the others stay *)
(* where they started.  The two kinds of access tokens have rows of their  *)
(* own and are explored apart as well, and so are the assignments and the  *)
(* providers of the portals; the providers with one portal, since no step  *)
(* looks at those of two.                                                  *)
(***************************************************************************)
EXTENDS AccessTokens, Availability, FileStore, PortalOutbox, SessionFiles,
        PortalConfig, PrinterMeter, EdgeCredentials, Accounts, OpsContacts,
        Startup

VARIABLE focus

peopleVars == <<credentialVars, accountVars, contactVars, startupVars>>
servicesVars == <<focus, tokenVars, availVars, fileVars, outboxVars,
                  sessionVars, portalVars, meterVars, peopleVars>>

AtRest == CHOOSE d \in [pages : {1}, copies : {1}, duplex : DuplexModes, color : ColorModes] : TRUE

ServicesInit ==
  /\ focus \in {"uploads", "downloads", "availability", "files", "outbox",
                "sessions", "assignments", "providers", "meter", "credentials",
                "accounts", "contacts", "startup"}
  /\ AccessTokensInit /\ AvailabilityInit /\ FileStoreInit /\ PortalOutboxInit
  /\ SessionFilesInit /\ PortalConfigInit /\ MeterInit
  /\ EdgeCredentialsInit /\ AccountsInit /\ OpsContactsInit /\ StartupInit
  /\ focus # "files" => backend = "local"
  /\ focus # "meter" => doc = AtRest
  /\ focus # "startup" => applied = {} /\ portalClient = "none"

TokensStep ==
  /\ focus \in {"uploads", "downloads"}
  /\ \/ AdvanceClock \/ CleanupExpiredTokens
     \/ focus = "uploads" /\ UploadNext
     \/ focus = "downloads" /\ DownloadNext
  /\ UNCHANGED <<availVars, fileVars, outboxVars, sessionVars, portalVars, meterVars, peopleVars>>

AvailabilityStep ==
  /\ focus = "availability" /\ AvailabilityNext
  /\ UNCHANGED <<tokenVars, fileVars, outboxVars, sessionVars, portalVars, meterVars, peopleVars>>

FilesStep ==
  /\ focus = "files" /\ FileStoreNext
  /\ UNCHANGED <<tokenVars, availVars, outboxVars, sessionVars, portalVars, meterVars, peopleVars>>

OutboxStep ==
  /\ focus = "outbox" /\ PortalOutboxNext
  /\ UNCHANGED <<tokenVars, availVars, fileVars, sessionVars, portalVars, meterVars, peopleVars>>

SessionsStep ==
  /\ focus = "sessions" /\ SessionFilesNext
  /\ UNCHANGED <<tokenVars, availVars, fileVars, outboxVars, portalVars, meterVars, peopleVars>>

PortalsStep ==
  /\ focus \in {"assignments", "providers"}
  /\ \/ PortalNext
     \/ focus = "assignments" /\ AssignmentNext
     \/ focus = "providers" /\ ProviderNext
  /\ focus = "providers" => \A q \in Portals \ {Bootstrap} : portals'[q] = "none"
  /\ UNCHANGED <<tokenVars, availVars, fileVars, outboxVars, sessionVars, meterVars, peopleVars>>

MeterStep ==
  /\ focus = "meter" /\ PrintSide
  /\ UNCHANGED <<tokenVars, availVars, fileVars, outboxVars, sessionVars, portalVars, peopleVars>>

OtherComponents == <<tokenVars, availVars, fileVars, outboxVars, sessionVars, portalVars, meterVars>>

CredentialsStep ==
  /\ focus = "credentials" /\ EdgeCredentialsNext
  /\ UNCHANGED <<OtherComponents, accountVars, contactVars, startupVars>>

AccountsStep ==
  /\ focus = "accounts" /\ AccountsNext
  /\ UNCHANGED <<OtherComponents, credentialVars, contactVars, startupVars>>

ContactsStep ==
  /\ focus = "contacts" /\ OpsContactsNext
  /\ UNCHANGED <<OtherComponents, credentialVars, accountVars, startupVars>>

StartupStep ==
  /\ focus = "startup" /\ StartupNext
  /\ UNCHANGED <<OtherComponents, credentialVars, accountVars, contactVars>>

ServicesNext ==
  /\ UNCHANGED focus
  /\ \/ TokensStep \/ AvailabilityStep \/ FilesStep \/ OutboxStep
     \/ SessionsStep \/ PortalsStep \/ MeterStep
     \/ CredentialsStep \/ AccountsStep \/ ContactsStep \/ StartupStep

(* AvailabilityFairness, OutboxFairness and the ticker of the credentials,  *)
(* for the component that runs.                                            *)
Running(component, A) == focus = component /\ A

ServicesFairness ==
  /\ WF_availVars(Running("availability", SweepList))
  /\ WF_availVars(Running("availability", SweepNode))
  /\ WF_availVars(Running("availability", CleanupOrphaned))
  /\ WF_outboxVars(Running("outbox", OutboxTask))
  /\ \A e \in Events : WF_outboxVars(Running("outbox", BecomesDue(e)))
  /\ WF_credentialVars(Running("credentials", CleanupExpired))

ServicesSpec == ServicesInit /\ [][ServicesNext]_servicesVars /\ ServicesFairness

(* The component that runs keeps its variables within their types.         *)
ServicesTypeOK ==
  /\ focus \in {"uploads", "downloads"} => AccessTokensTypeOK
  /\ focus = "availability" => AvailabilityTypeOK
  /\ focus = "files" => FileStoreTypeOK
  /\ focus = "outbox" => PortalOutboxTypeOK
  /\ focus = "sessions" => SessionFilesTypeOK
  /\ focus \in {"assignments", "providers"} => PortalConfigTypeOK
  /\ focus = "credentials" => EdgeCredentialsTypeOK
  /\ focus = "accounts" => AccountsTypeOK
  /\ focus = "contacts" => OpsContactsTypeOK
  /\ focus = "startup" => StartupTypeOK
=============================================================================
