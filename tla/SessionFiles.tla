---------------------------- MODULE SessionFiles ----------------------------
(***************************************************************************)
(* The session file service (services/session-file-service): the files one *)
(* owner uploads for one session, kept as objects under a common prefix,   *)
(* session.json, and files/<id>.bin with files/<id>.json for each file.    *)
(* There is no database and no lock: every handler is a series of single   *)
(* calls to the object store, and requests, the sweep and the expiry of    *)
(* the session interleave between them.                                    *)
(***************************************************************************)
EXTENDS Naturals, FiniteSets

CONSTANTS
  Docs,         \* files; the id of each upload is fresh
  MaxFiles,     \* files a session may hold
  Deleters      \* deletions that may run at once

ASSUME SessionFilesAssumption == MaxFiles \in Nat

VARIABLES
  session,     \* session.json: "none", "live" or "expired"
  content,     \* files whose .bin exists
  listed,      \* files whose .json exists
  putting,     \* where the upload of each file stands
  reading,     \* files a download of which is under way
  deleting,    \* objects each deletion has listed and not yet removed
  overlapped   \* history: files with a request under way during a deletion

sessionVars == <<session, content, listed, putting, reading,
                 deleting, overlapped>>

SessionKey == <<"session">>
Keys == {SessionKey} \cup ({"bin", "json"} \X Docs)
Stored == (IF session = "none" THEN {} ELSE {SessionKey})
          \cup ({"bin"} \X content) \cup ({"json"} \X listed)
Deletion == \E d \in Deleters : deleting[d] # {}
UnderWay == reading \cup {f \in Docs : putting[f] \in {"loaded", "checked", "stored"}}

SessionFilesTypeOK ==
  /\ session \in {"none", "live", "expired"}
  /\ content \subseteq Docs /\ listed \subseteq Docs /\ reading \subseteq Docs
  /\ putting \in [Docs -> {"idle", "loaded", "checked", "stored", "over"}]
  /\ deleting \in [Deleters -> SUBSET Keys]
  /\ overlapped \subseteq Docs

SessionFilesInit ==
  /\ session = "none"
  /\ content = {} /\ listed = {} /\ reading = {}
  /\ putting = [f \in Docs |-> "idle"]
  /\ deleting = [d \in Deleters |-> {}]
  /\ overlapped = {}

-----------------------------------------------------------------------------
(* createSession writes session.json, over an older one if there is one.   *)
CreateSession ==
  /\ session' = "live"
  /\ UNCHANGED <<content, listed, putting, reading, deleting, overlapped>>

Expire ==
  /\ session = "live"
  /\ session' = "expired"
  /\ UNCHANGED <<content, listed, putting, reading, deleting, overlapped>>

(* A request that begins while a deletion runs overlaps it.                *)
Begun(f) == overlapped' = IF Deletion THEN overlapped \cup {f} ELSE overlapped

(* uploadFile: the session is loaded, then the files are counted.          *)
LoadSession(f) ==
  /\ putting[f] = "idle" /\ session = "live"
  /\ putting' = [putting EXCEPT ![f] = "loaded"]
  /\ Begun(f)
  /\ UNCHANGED <<session, content, listed, reading, deleting>>

CheckLimit(f) ==
  /\ putting[f] = "loaded"
  /\ putting' = [putting EXCEPT ![f] = IF Cardinality(listed) < MaxFiles THEN "checked" ELSE "over"]
  /\ UNCHANGED <<session, content, listed, reading, deleting, overlapped>>

(* A store.put that fails may have stored the object all the same.         *)
PutContent(f, ok, stored) ==
  /\ putting[f] = "checked"
  /\ content' = IF ok \/ stored THEN content \cup {f} ELSE content
  /\ putting' = [putting EXCEPT ![f] = IF ok THEN "stored" ELSE "over"]
  /\ UNCHANGED <<session, listed, reading, deleting, overlapped>>

(* The metadata make the file visible; when they cannot be written the     *)
(* content is removed again, if that succeeds.                             *)
PutMetadata(f, ok, stored, removed) ==
  /\ putting[f] = "stored"
  /\ listed' = IF ok \/ stored THEN listed \cup {f} ELSE listed
  /\ content' = IF ~ok /\ removed THEN content \ {f} ELSE content
  /\ putting' = [putting EXCEPT ![f] = "over"]
  /\ UNCHANGED <<session, reading, deleting, overlapped>>

(* downloadFile: session, metadata and content are read; after the answer  *)
(* the metadata as read are written back with the time of the download.    *)
StartDownload(f) ==
  /\ session = "live" /\ f \in listed \cap content /\ f \notin reading
  /\ reading' = reading \cup {f}
  /\ Begun(f)
  /\ UNCHANGED <<session, content, listed, putting, deleting>>

FinishDownload(f, ok) ==
  /\ f \in reading
  /\ reading' = reading \ {f}
  /\ listed' = IF ok THEN listed \cup {f} ELSE listed
  /\ UNCHANGED <<session, content, putting, deleting, overlapped>>

-----------------------------------------------------------------------------
(* deleteOwner: on request, by a request that finds the session expired,   *)
(* or by the sweep, which looks for expired session.json objects.          *)
ListObjects(d, requested) ==
  /\ deleting[d] = {}
  /\ Stored # {}
  /\ requested \/ session = "expired"
  /\ deleting' = [deleting EXCEPT ![d] = Stored]
  /\ overlapped' = overlapped \cup UnderWay
  /\ UNCHANGED <<session, content, listed, putting, reading>>

(* Mutant: session.json is removed first.                                  *)
NextInOrder_SessionFirst(d, key) ==
  SessionKey \in deleting[d] => key = SessionKey

(* The listing is in the order of the keys: "files/" before                *)
(* "session.json", and the .bin of a file before its .json.                *)
NextInOrder(d, key) ==
  /\ key = SessionKey => deleting[d] = {SessionKey}
  /\ \A f \in Docs : key = <<"json", f>> => <<"bin", f>> \notin deleting[d]

(* An object that is gone already is no error; any other error ends the    *)
(* deletion where it is.                                                   *)
RemoveObject(d, key, ok) ==
  /\ key \in deleting[d]
  /\ NextInOrder(d, key)
  /\ deleting' = [deleting EXCEPT ![d] = IF ok THEN @ \ {key} ELSE {}]
  /\ session' = IF ok /\ key = SessionKey THEN "none" ELSE session
  /\ content' = IF ok THEN {f \in content : key # <<"bin", f>>} ELSE content
  /\ listed' = IF ok THEN {f \in listed : key # <<"json", f>>} ELSE listed
  /\ UNCHANGED <<putting, reading, overlapped>>

(* The service restarts: requests and deletions end where they are.        *)
RestartService ==
  /\ UnderWay # {} \/ Deletion
  /\ putting' = [f \in Docs |-> IF putting[f] = "idle" THEN "idle" ELSE "over"]
  /\ reading' = {}
  /\ deleting' = [d \in Deleters |-> {}]
  /\ UNCHANGED <<session, content, listed, overlapped>>

SessionFilesNext ==
  \/ CreateSession \/ Expire \/ RestartService
  \/ \E f \in Docs : LoadSession(f) \/ CheckLimit(f) \/ StartDownload(f)
  \/ \E f \in Docs, ok \in BOOLEAN : FinishDownload(f, ok)
  \/ \E f \in Docs, ok, stored \in BOOLEAN :
       \/ PutContent(f, ok, stored)
       \/ \E removed \in BOOLEAN : PutMetadata(f, ok, stored, removed)
  \/ \E d \in Deleters, requested \in BOOLEAN : ListObjects(d, requested)
  \/ \E d \in Deleters, key \in Keys, ok \in BOOLEAN : RemoveObject(d, key, ok)

SessionFilesSpec == SessionFilesInit /\ [][SessionFilesNext]_sessionVars

-----------------------------------------------------------------------------
(* Nothing outlives its session unseen: without session.json, which is all *)
(* the sweep looks for, no object is left, however often deletions fail    *)
(* half-way, run twice or are cut off; except of a file that was being     *)
(* uploaded or downloaded while a deletion ran.                            *)
NothingLeftBehind ==
  session = "none" => content \cup listed \subseteq overlapped
=============================================================================
