----------------------------- MODULE FileStore -----------------------------
(***************************************************************************)
(* Uploaded files: the object in the store of a provider and the row in    *)
(* `files` that names it.  The upload handler (file_handler.go) writes     *)
(* both, the hourly cleanup of the server (main.go) removes both, and the  *)
(* migration program (cmd/migrate-files) copies objects from the local     *)
(* store to MinIO while the server may be running on either.               *)
(*                                                                         *)
(* A file carries a fresh UUID as its key, so each upload has an object of *)
(* its own.  Uploads with a token share one token; the checks of an upload *)
(* that refuse it before it has left a trace (target, session, user, upload*)
(* rules) leave it where it is.  The terminal upload mapping of the token  *)
(* may be in any state whenever it is read.                                *)
(***************************************************************************)
EXTENDS Naturals, FiniteSets

CONSTANT Files

Over == [stage |-> "over", byToken |-> FALSE]
Providers == {"local", "minio"}

VARIABLES
  rows,       \* storage_provider of each file's row, or "none"
  objects,    \* <<file, provider>>: what the stores hold
  old,        \* recorded files created more than 24 h ago
  request,    \* where the upload of each file stands
  usedToken,  \* the upload token is consumed
  backend,    \* the provider the running server is configured with
  cleaning,   \* the cleanup's list: the provider it has read, "removed" or "no"
  migrating,  \* the migration's list: "listed", "read", "put" or "no"
  unbound,    \* history: files whose binding failed after the row was written
  stray,      \* history: objects of failed writes, failed removals or cut-off uploads
  moved       \* history: files the migration has put into MinIO

fileVars == <<rows, objects, old, request, usedToken, backend,
              cleaning, migrating, unbound, stray, moved>>
uploadState == <<request, usedToken, unbound>>

FileStoreTypeOK ==
  /\ rows \in [Files -> Providers \cup {"none"}]
  /\ objects \subseteq Files \X Providers
  /\ old \subseteq Files /\ unbound \subseteq Files /\ moved \subseteq Files
  /\ request \in [Files -> [stage : {"idle", "checked", "stored", "paid", "recorded", "over"},
                            byToken : BOOLEAN]]
  /\ usedToken \in BOOLEAN
  /\ backend \in Providers
  /\ cleaning \in [Files -> Providers \cup {"removed", "no"}]
  /\ migrating \in [Files -> {"listed", "read", "put", "no"}]
  /\ stray \subseteq Files \X Providers

FileStoreInit ==
  /\ rows = [f \in Files |-> "none"]
  /\ objects = {} /\ old = {} /\ unbound = {} /\ stray = {} /\ moved = {}
  /\ request = [f \in Files |-> [stage |-> "idle", byToken |-> FALSE]]
  /\ usedToken = FALSE
  /\ backend \in Providers
  /\ cleaning = [f \in Files |-> "no"]
  /\ migrating = [f \in Files |-> "no"]

-----------------------------------------------------------------------------
(* The upload.  A token must be unused, and have a mapping, whether bound  *)
(* or not (ensureTerminalUploadSessionActive); OAuth needs neither.        *)
CheckUpload(f, byToken) ==
  /\ request[f].stage = "idle"
  /\ byToken => ~usedToken
  /\ request' = [request EXCEPT ![f] = [stage |-> "checked", byToken |-> byToken]]
  /\ UNCHANGED <<rows, objects, old, usedToken, backend,
                 cleaning, migrating, unbound, stray, moved>>

(* storage.Put under the fresh key; a failed Put ends the upload.  What it *)
(* has written may stay: the local store ignores the error of its Remove,  *)
(* MinIO may have stored an object whose answer is lost, and the handler   *)
(* does not look again.                                                    *)
PutObject(f, ok, stored) ==
  /\ request[f].stage = "checked"
  /\ ok => stored
  /\ request' = [request EXCEPT ![f] = IF ok THEN [@ EXCEPT !.stage = "stored"] ELSE Over]
  /\ objects' = IF stored THEN objects \cup {<<f, backend>>} ELSE objects
  /\ stray' = IF stored /\ ~ok THEN stray \cup {<<f, backend>>} ELSE stray
  /\ UNCHANGED <<rows, old, usedToken, backend, cleaning, migrating, unbound, moved>>

(* _ = storage.Delete: the request's context may be cancelled by then, and *)
(* nobody looks at the error.                                              *)
DropObject(f, removed) ==
  /\ objects' = IF removed THEN objects \ {<<f, backend>>} ELSE objects
  /\ stray' = IF removed THEN stray ELSE stray \cup {<<f, backend>>}

(* ValidateUploadToken consumes the token; an upload that carried it too   *)
(* and was faster has consumed it already.                                 *)
ConsumeToken(f, removed) ==
  /\ request[f].stage = "stored" /\ request[f].byToken
  /\ IF usedToken
     THEN /\ DropObject(f, removed)
          /\ request' = [request EXCEPT ![f] = Over]
          /\ UNCHANGED usedToken
     ELSE /\ usedToken' = TRUE
          /\ request' = [request EXCEPT ![f].stage = "paid"]
          /\ UNCHANGED <<objects, stray>>
  /\ UNCHANGED <<rows, old, backend, cleaning, migrating, unbound, moved>>

(* Mutant: a failed insert leaves the object behind.                       *)
CreateRow_KeepsObject(f, ok, removed) ==
  /\ request[f].stage = IF request[f].byToken THEN "paid" ELSE "stored"
  /\ rows' = IF ok THEN [rows EXCEPT ![f] = backend] ELSE rows
  /\ request' = [request EXCEPT ![f] =
                   IF ok /\ request[f].byToken THEN [@ EXCEPT !.stage = "recorded"] ELSE Over]
  /\ UNCHANGED <<objects, old, usedToken, backend,
                 cleaning, migrating, unbound, stray, moved>>

CreateRow(f, ok, removed) ==
  /\ request[f].stage = IF request[f].byToken THEN "paid" ELSE "stored"
  /\ IF ok THEN /\ rows' = [rows EXCEPT ![f] = backend]
                /\ UNCHANGED <<objects, stray>>
           ELSE /\ DropObject(f, removed)
                /\ UNCHANGED rows
  /\ request' = [request EXCEPT ![f] =
                   IF ok /\ request[f].byToken THEN [@ EXCEPT !.stage = "recorded"] ELSE Over]
  /\ UNCHANGED <<old, usedToken, backend, cleaning, migrating, unbound, moved>>

(* BindFile: an open mapping is bound if its ticket is still selected;     *)
(* without one the upload goes through unbound.  When the mapping is stale *)
(* (its ticket is no longer selected, or it cannot be read) the object is  *)
(* removed but the row stays.                                              *)
BindFile(f, mapping, removed) ==
  /\ request[f].stage = "recorded"
  /\ request' = [request EXCEPT ![f] = Over]
  /\ IF mapping = "stale"
     THEN DropObject(f, removed) /\ unbound' = unbound \cup {f}
     ELSE UNCHANGED <<objects, stray, unbound>>
  /\ UNCHANGED <<rows, old, usedToken, backend, cleaning, migrating, moved>>

(* The server stops and starts again, perhaps configured for MinIO now:    *)
(* uploads and a running cleanup end where they are.                       *)
InFlight(f) == request[f].stage \in {"stored", "paid"}

RestartServer(provider) ==
  /\ backend = "minio" => provider = "minio"
  /\ backend' = provider
  /\ stray' = stray \cup {<<f, backend>> : f \in {g \in Files : InFlight(g)}}
  /\ request' = [f \in Files |-> IF request[f].stage = "idle" THEN request[f] ELSE Over]
  /\ cleaning' = [f \in Files |-> "no"]
  /\ UNCHANGED <<rows, objects, old, usedToken, migrating, unbound, moved>>

(* A day passes since the file was recorded.                               *)
Age(f) ==
  /\ rows[f] # "none" /\ f \notin old /\ request[f].stage = "over"
  /\ old' = old \cup {f}
  /\ UNCHANGED <<rows, objects, uploadState, backend, cleaning, migrating, stray, moved>>

-----------------------------------------------------------------------------
(* startFileCleanupTask: the rows older than a day, one after the other;   *)
(* the object is removed from the store of the provider as it was listed,  *)
(* then the row.  A failure leaves the row for the next hour.              *)
ListOldFiles ==
  /\ \A f \in Files : cleaning[f] = "no"
  /\ old # {}
  /\ cleaning' = [f \in Files |-> IF f \in old THEN rows[f] ELSE "no"]
  /\ UNCHANGED <<rows, objects, old, uploadState, backend, migrating, stray, moved>>

RemoveOldObject(f, ok) ==
  /\ cleaning[f] \in Providers
  /\ \A g \in Files : cleaning[g] # "removed"
  /\ objects' = IF ok THEN objects \ {<<f, cleaning[f]>>} ELSE objects
  /\ cleaning' = [cleaning EXCEPT ![f] = IF ok THEN "removed" ELSE "no"]
  /\ UNCHANGED <<rows, old, uploadState, backend, migrating, stray, moved>>

DeleteOldRow(f, ok) ==
  /\ cleaning[f] = "removed"
  /\ rows' = IF ok THEN [rows EXCEPT ![f] = "none"] ELSE rows
  /\ old' = IF ok THEN old \ {f} ELSE old
  /\ cleaning' = [cleaning EXCEPT ![f] = "no"]
  /\ UNCHANGED <<objects, uploadState, backend, migrating, stray, moved>>

-----------------------------------------------------------------------------
(* migrate-files: the rows of the local store, one after the other; the    *)
(* object is opened, copied, and the row updated if it is still there.     *)
(* The local object is left where it is.  An object that cannot be opened  *)
(* or copied is counted as failed; the program may be stopped any time.    *)
ListByStorageProvider ==
  /\ \A f \in Files : migrating[f] = "no"
  /\ \E f \in Files : rows[f] = "local"
  /\ migrating' = [f \in Files |-> IF rows[f] = "local" THEN "listed" ELSE "no"]
  /\ UNCHANGED <<rows, objects, old, uploadState, backend, cleaning, stray, moved>>

OpenSource(f) ==
  /\ migrating[f] = "listed"
  /\ \A g \in Files : migrating[g] \notin {"read", "put"}
  /\ migrating' = [migrating EXCEPT ![f] = IF <<f, "local">> \in objects THEN "read" ELSE "no"]
  /\ UNCHANGED <<rows, objects, old, uploadState, backend, cleaning, stray, moved>>

PutTarget(f, ok, stored) ==
  /\ migrating[f] = "read"
  /\ ok => stored
  /\ objects' = IF stored THEN objects \cup {<<f, "minio">>} ELSE objects
  /\ moved' = IF stored THEN moved \cup {f} ELSE moved
  /\ migrating' = [migrating EXCEPT ![f] = IF ok THEN "put" ELSE "no"]
  /\ UNCHANGED <<rows, old, uploadState, backend, cleaning, stray>>

(* Mutant: the local object is removed once the row points to MinIO.       *)
UpdateStorageMetadata_RemovesSource(f, ok) ==
  /\ migrating[f] = "put"
  /\ rows' = [rows EXCEPT ![f] = IF ok /\ @ # "none" THEN "minio" ELSE @]
  /\ objects' = objects \ {<<f, "local">>}
  /\ migrating' = [migrating EXCEPT ![f] = "no"]
  /\ UNCHANGED <<old, uploadState, backend, cleaning, stray, moved>>

UpdateStorageMetadata(f, ok) ==
  /\ migrating[f] = "put"
  /\ rows' = [rows EXCEPT ![f] = IF ok /\ @ # "none" THEN "minio" ELSE @]
  /\ migrating' = [migrating EXCEPT ![f] = "no"]
  /\ UNCHANGED <<objects, old, uploadState, backend, cleaning, stray, moved>>

MigrationStops ==
  /\ \E f \in Files : migrating[f] # "no"
  /\ migrating' = [f \in Files |-> "no"]
  /\ UNCHANGED <<rows, objects, old, uploadState, backend, cleaning, stray, moved>>

UploadFile(f) ==
  \/ \E byToken \in BOOLEAN : CheckUpload(f, byToken)
  \/ \E ok, stored \in BOOLEAN : PutObject(f, ok, stored)
  \/ \E removed \in BOOLEAN : ConsumeToken(f, removed)
  \/ \E ok, removed \in BOOLEAN : CreateRow(f, ok, removed)
  \/ \E mapping \in {"open", "stale", "none"}, removed \in BOOLEAN : BindFile(f, mapping, removed)

CleanFile(f) == \E ok \in BOOLEAN : RemoveOldObject(f, ok) \/ DeleteOldRow(f, ok)

MigrateFile(f) ==
  \/ OpenSource(f)
  \/ \E ok \in BOOLEAN : UpdateStorageMetadata(f, ok)
  \/ \E ok, stored \in BOOLEAN : PutTarget(f, ok, stored)

FileStoreNext ==
  \/ \E f \in Files : UploadFile(f) \/ Age(f) \/ CleanFile(f) \/ MigrateFile(f)
  \/ \E provider \in Providers : RestartServer(provider)
  \/ ListOldFiles \/ ListByStorageProvider \/ MigrationStops

FileStoreSpec == FileStoreInit /\ [][FileStoreNext]_fileVars

-----------------------------------------------------------------------------
(* serveStoredFile finds every file less than a day old, in the store of   *)
(* the running server and in the store its row names, while uploads, the   *)
(* cleanup, the migration and restarts interleave.  Two kinds are not      *)
(* found: a file whose binding failed (its row dangles), and one still to  *)
(* be migrated once the server runs on MinIO.                              *)
RecentFileServed ==
  \A f \in Files : rows[f] # "none" /\ f \notin old \cup unbound =>
    /\ <<f, rows[f]>> \in objects
    /\ (rows[f] = "local" /\ backend = "minio") \/ <<f, backend>> \in objects

(* No object is forgotten silently: an object without a row belongs to an  *)
(* upload under way, or is what a failed write left or a failed removal    *)
(* did not take away, or its upload was cut off by a restart, or the       *)
(* migration has copied it (the cleanup knows the store of the row only,   *)
(* so the copy in the other store stays).                                  *)
ObjectsAccountedFor ==
  \A f \in Files, provider \in Providers :
    <<f, provider>> \in objects /\ rows[f] = "none" =>
      InFlight(f) \/ <<f, provider>> \in stray \/ f \in moved
=============================================================================
