----------------------------- MODULE FileProofs -----------------------------
(***************************************************************************)
(* Proofs about the three components that keep files: SessionFiles,        *)
(* AccessTokens and FileStore, for any number of files, tokens, uploads    *)
(* and deletions.  They share no state; each has its own part below.       *)
(***************************************************************************)
EXTENDS SessionFiles, AccessTokens, FileStore, TLAPS

-----------------------------------------------------------------------------
(* SessionFiles.  A request under way while a deletion runs, or without a  *)
(* session, is one that overlapped a deletion: it loaded a live session.   *)
RequestsOverlap ==
  Deletion \/ session = "none" => UnderWay \subseteq overlapped

(* What a deletion has listed together with session.json and has not       *)
(* removed yet covers every object that no overlapping request has written.*)
DeletionComplete ==
  \A d \in Deleters : SessionKey \in deleting[d] =>
    /\ \A f \in content \ overlapped : <<"bin", f>> \in deleting[d]
    /\ \A f \in listed \ overlapped : <<"json", f>> \in deleting[d]

SessionFilesInv ==
  SessionFilesTypeOK /\ RequestsOverlap /\ DeletionComplete /\ NothingLeftBehind

LEMMA StoredKeys ==
  ASSUME SessionFilesTypeOK
  PROVE  Stored \subseteq Keys
BY DEF Stored, Keys, SessionFilesTypeOK

(* A step of an upload or a download that adds no request.                 *)
LEMMA RequestContinues ==
  ASSUME SessionFilesInv, NEW f \in UnderWay,
         SessionFilesTypeOK', UnderWay' \subseteq UnderWay,
         content' \subseteq content \cup {f}, listed' \subseteq listed \cup {f},
         UNCHANGED <<session, deleting, overlapped>>
  PROVE  SessionFilesInv'
<1>1. Deletion' = Deletion
  BY DEF Deletion
<1>2. RequestsOverlap'
  BY <1>1 DEF SessionFilesInv, RequestsOverlap
<1>3. DeletionComplete'
  <2> SUFFICES ASSUME NEW d \in Deleters, SessionKey \in deleting[d]
               PROVE  /\ \A g \in content' \ overlapped : <<"bin", g>> \in deleting[d]
                      /\ \A g \in listed' \ overlapped : <<"json", g>> \in deleting[d]
    BY DEF DeletionComplete
  <2>1. f \in overlapped
    BY DEF SessionFilesInv, RequestsOverlap, Deletion
  <2> QED
    BY <2>1 DEF SessionFilesInv, DeletionComplete
<1>4. NothingLeftBehind'
  BY DEF SessionFilesInv, RequestsOverlap, NothingLeftBehind
<1> QED
  BY <1>2, <1>3, <1>4 DEF SessionFilesInv

(* A request that begins finds the session live.                           *)
LEMMA RequestBegins ==
  ASSUME SessionFilesInv, NEW f \in Docs, Begun(f), session = "live",
         SessionFilesTypeOK', UnderWay' \subseteq UnderWay \cup {f},
         UNCHANGED <<session, content, listed, deleting>>
  PROVE  SessionFilesInv'
<1>1. Deletion' = Deletion /\ overlapped \subseteq overlapped'
  BY DEF Deletion, Begun
<1>2. RequestsOverlap'
  BY <1>1 DEF SessionFilesInv, RequestsOverlap, Begun
<1>3. DeletionComplete' /\ NothingLeftBehind'
  BY <1>1 DEF SessionFilesInv, DeletionComplete, NothingLeftBehind
<1> QED
  BY <1>2, <1>3 DEF SessionFilesInv

LEMMA UploadFileKeeps ==
  ASSUME SessionFilesInv, NEW f \in Docs,
         NEW ok \in BOOLEAN, NEW stored \in BOOLEAN, NEW removed \in BOOLEAN,
         \/ LoadSession(f) \/ CheckLimit(f)
         \/ PutContent(f, ok, stored) \/ PutMetadata(f, ok, stored, removed)
  PROVE  SessionFilesInv'
<1> USE DEF SessionFilesInv, SessionFilesTypeOK
<1>1. CASE LoadSession(f)
  BY <1>1, RequestBegins DEF LoadSession, UnderWay, Begun
<1>2. CASE CheckLimit(f)
  BY <1>2, RequestContinues DEF CheckLimit, UnderWay
<1>3. CASE PutContent(f, ok, stored)
  BY <1>3, RequestContinues DEF PutContent, UnderWay
<1>4. CASE PutMetadata(f, ok, stored, removed)
  BY <1>4, RequestContinues DEF PutMetadata, UnderWay
<1> QED
  BY <1>1, <1>2, <1>3, <1>4

LEMMA DownloadFileKeeps ==
  ASSUME SessionFilesInv, NEW f \in Docs, NEW ok \in BOOLEAN,
         StartDownload(f) \/ FinishDownload(f, ok)
  PROVE  SessionFilesInv'
<1> USE DEF SessionFilesInv, SessionFilesTypeOK
<1>1. CASE StartDownload(f)
  BY <1>1, RequestBegins DEF StartDownload, UnderWay, Begun
<1>2. CASE FinishDownload(f, ok)
  BY <1>2, RequestContinues DEF FinishDownload, UnderWay
<1> QED
  BY <1>1, <1>2

LEMMA SessionKeeps ==
  ASSUME SessionFilesInv, CreateSession \/ Expire
  PROVE  SessionFilesInv'
<1>1. Deletion' = Deletion /\ UnderWay' = UnderWay /\ session' # "none"
  BY DEF CreateSession, Expire, Deletion, UnderWay
<1> QED
  BY <1>1 DEF SessionFilesInv, SessionFilesTypeOK, RequestsOverlap, DeletionComplete,
     NothingLeftBehind, CreateSession, Expire

LEMMA RestartServiceKeeps ==
  ASSUME SessionFilesInv, RestartService
  PROVE  SessionFilesInv'
<1>1. UnderWay' = {} /\ \A d \in Deleters : SessionKey \notin deleting'[d]
  BY DEF RestartService, UnderWay
<1> QED
  BY <1>1 DEF SessionFilesInv, SessionFilesTypeOK, RequestsOverlap, DeletionComplete,
     NothingLeftBehind, RestartService, Keys

(* Everything that is stored is listed, and everything that may still be   *)
(* stored belongs to a request that overlaps the deletion from now on.     *)
LEMMA ListObjectsKeeps ==
  ASSUME SessionFilesInv, NEW d \in Deleters, NEW requested \in BOOLEAN,
         ListObjects(d, requested)
  PROVE  SessionFilesInv'
<1>1. SessionFilesTypeOK'
  BY StoredKeys DEF SessionFilesInv, SessionFilesTypeOK, ListObjects, UnderWay
<1>2. UnderWay' = UnderWay /\ overlapped' = overlapped \cup UnderWay
  BY DEF ListObjects, UnderWay
<1>3. DeletionComplete'
  BY DEF SessionFilesInv, SessionFilesTypeOK, DeletionComplete, ListObjects, Stored
<1> QED
  BY <1>1, <1>2, <1>3 DEF SessionFilesInv, RequestsOverlap, NothingLeftBehind, ListObjects

(* session.json is removed last: by then nothing is left but what          *)
(* overlapping requests have written.                                      *)
LEMMA RemoveObjectKeeps ==
  ASSUME SessionFilesInv, NEW d \in Deleters, NEW key \in Keys, NEW ok \in BOOLEAN,
         RemoveObject(d, key, ok)
  PROVE  SessionFilesInv'
<1> USE DEF SessionFilesInv, SessionFilesTypeOK, RemoveObject
<1>1. SessionFilesTypeOK'
  <2>1. deleting' \in [Deleters -> SUBSET Keys]
    OBVIOUS
  <2> QED
    BY <2>1
<1>2. Deletion /\ UnderWay' = UnderWay /\ UNCHANGED overlapped
  BY DEF Deletion, UnderWay
<1>3. RequestsOverlap'
  BY <1>2 DEF RequestsOverlap
<1>4. DeletionComplete'
  <2> SUFFICES ASSUME NEW e \in Deleters, SessionKey \in deleting'[e]
               PROVE  /\ \A f \in content' \ overlapped : <<"bin", f>> \in deleting'[e]
                      /\ \A f \in listed' \ overlapped : <<"json", f>> \in deleting'[e]
    BY DEF DeletionComplete
  <2>1. /\ SessionKey \in deleting[e]
        /\ \A k \in deleting[e] : k \in deleting'[e] \/ (ok /\ k = key)
    OBVIOUS
  <2>2. /\ \A f \in content' : f \in content /\ (ok => key # <<"bin", f>>)
        /\ \A f \in listed' : f \in listed /\ (ok => key # <<"json", f>>)
    OBVIOUS
  <2> QED
    BY <2>1, <2>2 DEF DeletionComplete
<1>5. NothingLeftBehind'
  <2>1. CASE key = SessionKey
    <3>1. deleting[d] = {SessionKey}
      BY <2>1 DEF NextInOrder
    <3>2. content \cup listed \subseteq overlapped
      BY <3>1 DEF DeletionComplete, SessionKey
    <3> QED
      BY <3>2 DEF NothingLeftBehind
  <2>2. CASE key # SessionKey
    BY <2>2 DEF NothingLeftBehind
  <2> QED
    BY <2>1, <2>2
<1> QED
  BY <1>1, <1>3, <1>4, <1>5

LEMMA SessionFilesStep ==
  SessionFilesInv /\ [SessionFilesNext]_sessionVars => SessionFilesInv'
<1>1. CASE UNCHANGED sessionVars
  BY <1>1 DEF sessionVars, SessionFilesInv, SessionFilesTypeOK, RequestsOverlap,
     DeletionComplete, NothingLeftBehind, Deletion, UnderWay
<1>2. ASSUME SessionFilesInv, SessionFilesNext
      PROVE  SessionFilesInv'
  BY <1>2, UploadFileKeeps, DownloadFileKeeps, SessionKeeps, RestartServiceKeeps,
     ListObjectsKeeps, RemoveObjectKeeps DEF SessionFilesNext
<1> QED
  BY <1>1, <1>2

LEMMA SessionFilesStart == SessionFilesInit => SessionFilesInv
BY DEF SessionFilesInit, SessionFilesInv, SessionFilesTypeOK, RequestsOverlap,
   DeletionComplete, NothingLeftBehind, UnderWay, Keys

(* Without session.json, which is all the sweep looks for, no object is    *)
(* left but those of files that were being uploaded or downloaded while a  *)
(* deletion ran (deleteOwner), for any number of files and deletions.      *)
THEOREM SessionsLeaveNothing == SessionFilesSpec => [](SessionFilesTypeOK /\ NothingLeftBehind)
<1>1. SessionFilesInv => SessionFilesTypeOK /\ NothingLeftBehind
  BY DEF SessionFilesInv
<1> QED
  BY <1>1, SessionFilesStart, SessionFilesStep, PTL DEF SessionFilesSpec
-----------------------------------------------------------------------------
(* AccessTokens.  An upload that is under way carries an issued token.     *)
UploadsIssued ==
  \A r \in Uploads : upload[r].stage # "idle" =>
    upload[r].u \in UploadTokens /\ Issued(upload[r].u)

(* Until its row may be cleaned away, a token that no row shows as used or *)
(* revoked has neither been accepted nor revoked.                          *)
UsageKnown ==
  \A u \in UploadTokens :
    /\ ~Issued(u) => usage[u] = "missing" /\ accepted[u] = 0 /\ u \notin cancelled
    /\ Issued(u) /\ ~Outdated(expires[u]) /\ usage[u] \in {"unused", "missing"} =>
         accepted[u] = 0 /\ u \notin cancelled

UploadsInv == AccessTokensTypeOK /\ UploadsIssued /\ UsageKnown /\ UploadTokenHolds

DispatchesKnown ==
  \A d \in Dispatches : dispatch[d].stage = "revoked" => dispatch[d].job \in DownloadJobs

DownloadsInv == AccessTokensTypeOK /\ DispatchesKnown /\ HandedTokenStands

AccessTokensInv == UploadsInv /\ DownloadsInv

LEMMA HalfSeconds ==
  ASSUME NEW t \in 0..MaxClock
  PROVE  /\ Second(t) \in 0..Second(MaxClock)
         /\ Second(t) <= Second(t + 1)
         /\ Second(t) \in Seconds /\ Second(t) + TTL \in Seconds
BY AccessTokensAssumption DEF Second, Seconds

LEMMA UploadsUnchanged ==
  ASSUME UploadsInv, AccessTokensTypeOK', UNCHANGED <<clock, uploadVars>>
  PROVE  UploadsInv'
BY DEF uploadVars, UploadsInv, UploadsIssued, UsageKnown, UploadTokenHolds, Issued, Outdated

LEMMA DownloadsUnchanged ==
  ASSUME DownloadsInv, AccessTokensTypeOK', UNCHANGED <<clock, downloadVars>>
  PROVE  DownloadsInv'
BY DEF downloadVars, DownloadsInv, DispatchesKnown, HandedTokenStands, Unexpired,
   ValidateDownloadToken

(* Time only makes tokens expire and rows outdated.                        *)
LEMMA AdvanceClockKeeps ==
  ASSUME AccessTokensInv, AdvanceClock
  PROVE  AccessTokensInv'
<1> USE DEF AccessTokensInv, UploadsInv, DownloadsInv, AdvanceClock, uploadVars, downloadVars
<1>1. /\ AccessTokensTypeOK'
      /\ clock \in Nat /\ clock' = clock + 1 /\ Second(clock) <= Second(clock')
  BY AccessTokensAssumption, HalfSeconds DEF AccessTokensTypeOK
<1>2. ASSUME NEW u \in UploadTokens, Issued(u), ~Outdated(expires[u])'
      PROVE  ~Outdated(expires[u])
  <2>1. expires[u] \in Nat
    BY <1>2, AccessTokensAssumption DEF AccessTokensTypeOK, Issued, Seconds, Second
  <2> QED
    BY <1>1, <1>2, <2>1 DEF Outdated
<1>3. UploadsInv'
  BY <1>1, <1>2 DEF UploadsIssued, UsageKnown, UploadTokenHolds, Issued
<1>4. ASSUME NEW j \in DownloadJobs, Unexpired(handed[j].at + TTL)'
      PROVE  Unexpired(handed[j].at + TTL)
  BY <1>1, <1>4, HalfSeconds, AccessTokensAssumption
     DEF AccessTokensTypeOK, Unexpired, Seconds, Second
<1>5. DownloadsInv'
  BY <1>1, <1>4 DEF DispatchesKnown, HandedTokenStands, ValidateDownloadToken, Unexpired
<1> QED
  BY <1>3, <1>5

LEMMA CleanupKeeps ==
  ASSUME AccessTokensInv, CleanupExpiredTokens
  PROVE  AccessTokensInv'
<1> USE DEF AccessTokensInv, UploadsInv, DownloadsInv, CleanupExpiredTokens
<1>1. AccessTokensTypeOK'
  BY DEF AccessTokensTypeOK, UsageRows
<1>2. UploadsIssued' /\ UsageKnown' /\ UploadTokenHolds'
  BY DEF UploadsIssued, UsageKnown, UploadTokenHolds, Issued, Outdated
<1>3. \A k \in DownloadJobs \X Seconds : dlRows'[k] \in {"missing", dlRows[k]}
  OBVIOUS
<1>4. \A j \in DownloadJobs : <<j, handed[j].at>> \in DownloadJobs \X Seconds
  BY DEF AccessTokensTypeOK
<1>5. DispatchesKnown' /\ HandedTokenStands'
  BY <1>3, <1>4 DEF DispatchesKnown, HandedTokenStands, ValidateDownloadToken, Unexpired
<1> QED
  BY <1>1, <1>2, <1>5

LEMMA GenerateUploadTokenKeeps ==
  ASSUME AccessTokensInv, NEW u \in UploadTokens, NEW registered \in BOOLEAN,
         GenerateUploadToken(u, registered)
  PROVE  AccessTokensInv'
<1> USE DEF AccessTokensInv, UploadsInv, GenerateUploadToken
<1>1. AccessTokensTypeOK'
  BY HalfSeconds DEF AccessTokensTypeOK, UsageRows, downloadVars
<1>2. Second(clock) + TTL # None
  BY HalfSeconds, AccessTokensAssumption DEF AccessTokensTypeOK, Second
<1>3. /\ \A v \in UploadTokens \ {u} : expires'[v] = expires[v] /\ usage'[v] = usage[v]
      /\ usage'[u] \in {"unused", "missing"}
      /\ expires'[u] = Second(clock) + TTL
      /\ accepted[u] = 0 /\ u \notin cancelled
  BY DEF AccessTokensTypeOK, UsageKnown
<1>4. UploadsIssued'
  BY <1>3 DEF UploadsIssued, Issued
<1>5. UsageKnown' /\ UploadTokenHolds'
  BY <1>2, <1>3 DEF UsageKnown, UploadTokenHolds, Issued, Outdated
<1> QED
  BY <1>1, <1>4, <1>5, DownloadsUnchanged

LEMMA UploadStepKeeps ==
  ASSUME AccessTokensInv, NEW r \in Uploads,
         \/ \E u \in UploadTokens : VerifyUploadTokenAvailable(r, u)
         \/ SelectUsage(r)
  PROVE  AccessTokensInv'
<1> USE DEF AccessTokensInv, UploadsInv
<1>1. PICK x : upload' = [upload EXCEPT ![r] = x]
               /\ (x = Resting \/ (/\ x.stage \in {"verified", "unused", "missing"}
                                   /\ x = [stage |-> x.stage, u |-> x.u]
                                   /\ x.u \in UploadTokens /\ Issued(x.u)))
  <2>1. CASE \E u \in UploadTokens : VerifyUploadTokenAvailable(r, u)
    BY <2>1 DEF VerifyUploadTokenAvailable
  <2>2. CASE SelectUsage(r)
    <3>1. upload[r].u \in UploadTokens /\ Issued(upload[r].u)
      BY <2>2 DEF SelectUsage, UploadsIssued
    <3> QED
      BY <2>2, <3>1 DEF SelectUsage
  <2> QED
    BY <2>1, <2>2
<1>2. UNCHANGED <<clock, usage, expires, accepted, cancelled, downloadVars>>
  BY DEF VerifyUploadTokenAvailable, SelectUsage
<1>3. AccessTokensTypeOK'
  BY <1>1, <1>2 DEF AccessTokensTypeOK, Resting, downloadVars
<1>4. UploadsIssued'
  BY <1>1, <1>2 DEF AccessTokensTypeOK, UploadsIssued, Resting, Issued
<1>5. UsageKnown' /\ UploadTokenHolds'
  BY <1>2 DEF UsageKnown, UploadTokenHolds, Issued, Outdated
<1> QED
  BY <1>2, <1>3, <1>4, <1>5, DownloadsUnchanged

(* The write accepts the token only if its row is still as it was selected.*)
LEMMA MarkTokenAsUsedKeeps ==
  ASSUME AccessTokensInv, NEW r \in Uploads, MarkTokenAsUsed(r)
  PROVE  AccessTokensInv'
<1> USE DEF AccessTokensInv, UploadsInv, MarkTokenAsUsed
<1> DEFINE u == upload[r].u
<1>1. u \in UploadTokens /\ Issued(u)
  BY DEF UploadsIssued
<1>2. AccessTokensTypeOK'
  <2>1. usage' \in [UploadTokens -> UsageRows] /\ accepted' \in [UploadTokens -> 0..2]
    <3>1. CASE StillFree(r)
      <4>1. PICK n \in 0..2 : accepted' = [accepted EXCEPT ![u] = n]
        BY <3>1
      <4> QED
        BY <3>1, <4>1 DEF AccessTokensTypeOK, UsageRows
    <3> QED
      BY <3>1 DEF AccessTokensTypeOK
  <2>2. upload' \in [Uploads -> [stage : {"idle", "verified", "unused", "missing"},
                                 u : UploadTokens \cup {None}]]
    BY DEF AccessTokensTypeOK, Resting
  <2> QED
    BY <2>1, <2>2 DEF AccessTokensTypeOK, downloadVars
<1>3. UploadsIssued'
  BY DEF AccessTokensTypeOK, UploadsIssued, Resting, Issued
<1>4. CASE StillFree(r)
  <2>1. usage[u] \in {"unused", "missing"}
    BY <1>4 DEF StillFree
  <2>2. /\ usage' = [usage EXCEPT ![u] = "used"]
        /\ accepted' = [accepted EXCEPT ![u] = IF accepted[u] = 0 THEN 1 ELSE 2]
    BY <1>4
  <2>3. UsageKnown'
    BY <2>2, <1>1 DEF UsageKnown, Issued, Outdated, AccessTokensTypeOK
  <2>4. UploadTokenHolds'
    BY <2>1, <2>2, <1>1 DEF UsageKnown, UploadTokenHolds, Issued, Outdated, AccessTokensTypeOK
  <2> QED
    BY <1>2, <1>3, <2>3, <2>4, DownloadsUnchanged
<1>5. CASE ~StillFree(r)
  BY <1>2, <1>3, <1>5, DownloadsUnchanged DEF UsageKnown, UploadTokenHolds, Issued, Outdated
<1> QED
  BY <1>4, <1>5

LEMMA RevokeUploadTokensKeeps ==
  ASSUME AccessTokensInv, RevokeUploadTokens
  PROVE  AccessTokensInv'
<1> USE DEF AccessTokensInv, UploadsInv, RevokeUploadTokens
<1>1. AccessTokensTypeOK'
  BY DEF AccessTokensTypeOK, UsageRows, downloadVars
<1>2. UploadsIssued' /\ UsageKnown' /\ UploadTokenHolds'
  BY DEF UploadsIssued, UsageKnown, UploadTokenHolds, Issued, Outdated
<1> QED
  BY <1>1, <1>2, DownloadsUnchanged

(* Between the two statements of a dispatch its job may have no token.     *)
LEMMA RevokeDownloadTokensKeeps ==
  ASSUME AccessTokensInv, NEW d \in Dispatches, NEW job \in DownloadJobs, NEW ok \in BOOLEAN,
         RevokeDownloadTokens(d, job, ok)
  PROVE  AccessTokensInv'
<1> USE DEF AccessTokensInv, DownloadsInv, RevokeDownloadTokens
<1>1. AccessTokensTypeOK'
  BY DEF AccessTokensTypeOK, uploadVars
<1>2. /\ dispatch'[d] = [stage |-> "revoked", job |-> job]
      /\ \A e \in Dispatches \ {d} : dispatch'[e] = dispatch[e]
      /\ dispatch[d].job = None
  BY DEF AccessTokensTypeOK, Waiting
<1>3. DispatchesKnown'
  BY <1>2 DEF DispatchesKnown
<1>4. HandedTokenStands'
  <2> SUFFICES ASSUME NEW j \in DownloadJobs, handed[j].given, ~handed[j].again,
                      Unexpired(handed[j].at + TTL)
               PROVE  \/ dlRows'[<<j, handed[j].at>>] # "revoked"
                      \/ \E e \in Dispatches : dispatch'[e].job = j
    BY DEF HandedTokenStands, ValidateDownloadToken, Unexpired
  <2>1. CASE j = job
    BY <1>2, <2>1
  <2>2. CASE j # job
    <3>1. dlRows'[<<j, handed[j].at>>] = dlRows[<<j, handed[j].at>>]
      BY <2>2 DEF AccessTokensTypeOK, SameJob
    <3> QED
      BY <1>2, <3>1, AccessTokensAssumption DEF HandedTokenStands, ValidateDownloadToken
  <2> QED
    BY <2>1, <2>2
<1> QED
  BY <1>1, <1>3, <1>4, UploadsUnchanged

LEMMA RegisterDownloadTokenKeeps ==
  ASSUME AccessTokensInv, NEW d \in Dispatches, NEW ok \in BOOLEAN,
         RegisterDownloadToken(d, ok)
  PROVE  AccessTokensInv'
<1> USE DEF AccessTokensInv, DownloadsInv
<1> DEFINE job == dispatch[d].job
           k == <<job, Second(clock)>>
<1>1. job \in DownloadJobs /\ Second(clock) \in Seconds /\ k \in DownloadJobs \X Seconds
  BY HalfSeconds DEF AccessTokensTypeOK, DispatchesKnown, RegisterDownloadToken
<1>2. PICK h : /\ h = [at |-> Second(clock), again |-> dlRows[k] # "missing", given |-> TRUE]
               /\ handed' = [handed EXCEPT ![job] = h]
  BY DEF RegisterDownloadToken
<1>3. PICK x : /\ x = IF ok /\ dlRows[k] = "missing" THEN "live" ELSE dlRows[k]
               /\ dlRows' = [dlRows EXCEPT ![k] = x]
  BY DEF RegisterDownloadToken
<1>4. dispatch' = [dispatch EXCEPT ![d] = Waiting] /\ UNCHANGED <<clock, uploadVars>>
  BY DEF RegisterDownloadToken
<1>5. h \in [at : Seconds, again : BOOLEAN, given : BOOLEAN]
  BY <1>1, <1>2
<1>6. x \in {"missing", "live", "revoked"} /\ (~h.again => x # "revoked")
  BY <1>1, <1>2, <1>3 DEF AccessTokensTypeOK
<1> HIDE DEF k
<1>7. AccessTokensTypeOK'
  BY <1>1, <1>2, <1>3, <1>4, <1>5, <1>6 DEF AccessTokensTypeOK, Waiting, uploadVars
<1>8. /\ \A e \in Dispatches \ {d} : dispatch'[e] = dispatch[e]
      /\ dispatch'[d] = Waiting
      /\ handed'[job] = h /\ \A j \in DownloadJobs \ {job} : handed'[j] = handed[j]
      /\ dlRows'[k] = x /\ \A l \in DownloadJobs \X Seconds : l # k => dlRows'[l] = dlRows[l]
  BY <1>1, <1>2, <1>3, <1>4 DEF AccessTokensTypeOK
<1>9. DispatchesKnown'
  BY <1>8 DEF DispatchesKnown, Waiting
<1>10. HandedTokenStands'
  <2> SUFFICES ASSUME NEW j \in DownloadJobs, handed'[j].given, ~handed'[j].again,
                      Unexpired(handed'[j].at + TTL)
               PROVE  \/ dlRows'[<<j, handed'[j].at>>] # "revoked"
                      \/ \E e \in Dispatches : dispatch'[e].job = j
    BY <1>4 DEF HandedTokenStands, ValidateDownloadToken, Unexpired
  <2>1. CASE j = job
    <3>1. <<j, handed'[j].at>> = k
      BY <1>2, <1>8, <2>1 DEF k
    <3> QED
      BY <1>6, <1>8, <2>1, <3>1
  <2>2. CASE j # job
    <3>1. handed'[j] = handed[j] /\ <<j, handed[j].at>> \in DownloadJobs \X Seconds
      BY <1>8, <2>2 DEF AccessTokensTypeOK
    <3>2. <<j, handed[j].at>> # k
      BY <2>2 DEF k
    <3> QED
      BY <1>8, <2>2, <3>1, <3>2 DEF HandedTokenStands, ValidateDownloadToken
  <2> QED
    BY <2>1, <2>2
<1> QED
  BY <1>4, <1>7, <1>9, <1>10, UploadsUnchanged

LEMMA AccessTokensStep ==
  AccessTokensInv /\ [AccessTokensNext]_tokenVars => AccessTokensInv'
<1>1. CASE UNCHANGED tokenVars
  <2>1. AccessTokensInv => AccessTokensTypeOK'
    BY <1>1 DEF tokenVars, uploadVars, downloadVars, AccessTokensInv, UploadsInv, AccessTokensTypeOK
  <2> QED
    BY <1>1, <2>1, UploadsUnchanged, DownloadsUnchanged DEF tokenVars, AccessTokensInv
<1>2. ASSUME AccessTokensInv, AccessTokensNext
      PROVE  AccessTokensInv'
  <2>1. CASE UploadNext
    BY <1>2, <2>1, GenerateUploadTokenKeeps, UploadStepKeeps, MarkTokenAsUsedKeeps,
       RevokeUploadTokensKeeps DEF UploadNext
  <2>2. CASE DownloadNext
    BY <1>2, <2>2, RevokeDownloadTokensKeeps, RegisterDownloadTokenKeeps DEF DownloadNext
  <2> QED
    BY <1>2, <2>1, <2>2, AdvanceClockKeeps, CleanupKeeps DEF AccessTokensNext
<1> QED
  BY <1>1, <1>2

LEMMA AccessTokensStart == AccessTokensInit => AccessTokensInv
<1> SUFFICES ASSUME AccessTokensInit
             PROVE  AccessTokensInv
  OBVIOUS
<1> USE DEF AccessTokensInit, Resting, Waiting, NoToken
<1>1. 0 \in 0..MaxClock /\ 0 \in Seconds
  BY AccessTokensAssumption DEF Seconds, Second
<1>2. AccessTokensTypeOK
  BY <1>1 DEF AccessTokensTypeOK, UsageRows
<1>3. UploadsIssued /\ UsageKnown /\ UploadTokenHolds
  BY DEF UploadsIssued, UsageKnown, UploadTokenHolds, Issued
<1>4. DispatchesKnown /\ HandedTokenStands
  BY DEF DispatchesKnown, HandedTokenStands
<1> QED
  BY <1>2, <1>3, <1>4 DEF AccessTokensInv, UploadsInv, DownloadsInv

(* MarkTokenAsUsed accepts an upload token at most once before its row may *)
(* be cleaned away, and never after it was revoked unused, for any number  *)
(* of uploads that carry it at once.                                       *)
THEOREM UploadTokensAcceptedOnce == AccessTokensSpec => [](AccessTokensTypeOK /\ UploadTokenHolds)
<1>1. AccessTokensInv => AccessTokensTypeOK /\ UploadTokenHolds
  BY DEF AccessTokensInv, UploadsInv
<1> QED
  BY <1>1, AccessTokensStart, AccessTokensStep, PTL DEF AccessTokensSpec

(* A download token handed to a job is not refused before it expires,      *)
(* unless the job is being given another one (GenerateDownloadToken).      *)
THEOREM HandedTokensStand == AccessTokensSpec => []HandedTokenStands
<1>1. AccessTokensInv => HandedTokenStands
  BY DEF AccessTokensInv, DownloadsInv
<1> QED
  BY <1>1, AccessTokensStart, AccessTokensStep, PTL DEF AccessTokensSpec
-----------------------------------------------------------------------------
(* FileStore.  Where the object of a file is, by how far its upload has    *)
(* come: nowhere before the Put, with the provider of the running server   *)
(* until the row is written, then where the row says; any other object is  *)
(* stray or a copy of the migration.                                       *)
Placed(f) ==
  /\ request[f].stage \in {"idle", "checked"} =>
       \A p \in Providers : <<f, p>> \notin objects
  /\ request[f].stage \in {"stored", "paid"} =>
       \A p \in Providers : <<f, p>> \in objects <=> p = backend
  /\ request[f].stage \in {"recorded", "over"} =>
       \A p \in Providers : <<f, p>> \in objects =>
         rows[f] = p \/ <<f, p>> \in stray \/ f \in moved

RowInOrder(f) ==
  /\ request[f].stage \in {"idle", "checked", "stored", "paid"} =>
       rows[f] = "none" /\ migrating[f] = "no"
  /\ request[f].stage = "recorded" => rows[f] # "none"
  /\ f \in old => rows[f] # "none" /\ request[f].stage = "over"

(* The cleanup works on old files only, and on the store the row named,    *)
(* unless the migration has come between.                                  *)
CleaningKnown(f) ==
  /\ cleaning[f] # "no" => f \in old
  /\ cleaning[f] \in Providers => f \in moved \/ cleaning[f] = rows[f]
  /\ cleaning[f] = "removed" =>
       f \in moved \/ \A p \in Providers : <<f, p>> \in objects => <<f, p>> \in stray

(* The row is pointed to MinIO only when the copy is there.                *)
Copied(f) ==
  migrating[f] = "put" =>
    f \in moved /\ (rows[f] = "none" \/ f \in old \cup unbound \/ <<f, "minio">> \in objects)

Served(f) ==
  rows[f] # "none" /\ f \notin old \cup unbound =>
    /\ <<f, rows[f]>> \in objects
    /\ (rows[f] = "local" /\ backend = "minio") \/ <<f, backend>> \in objects

FileInv(f) == Placed(f) /\ RowInOrder(f) /\ CleaningKnown(f) /\ Copied(f) /\ Served(f)

FileStoreInv == FileStoreTypeOK /\ \A f \in Files : FileInv(f)

(* What FileInv reads of a file is as it was.                              *)
Untouched(f) ==
  /\ rows'[f] = rows[f] /\ request'[f] = request[f]
  /\ cleaning'[f] = cleaning[f] /\ migrating'[f] = migrating[f]
  /\ f \in old' <=> f \in old
  /\ f \in unbound' <=> f \in unbound
  /\ f \in moved' <=> f \in moved
  /\ \A p \in Providers : /\ <<f, p>> \in objects' <=> <<f, p>> \in objects
                          /\ <<f, p>> \in stray' <=> <<f, p>> \in stray

LEMMA UntouchedKeeps ==
  ASSUME FileStoreTypeOK, NEW f \in Files, FileInv(f), Untouched(f), UNCHANGED backend
  PROVE  FileInv(f)'
<1> USE DEF FileInv, Untouched, FileStoreTypeOK, Providers
<1>1. Placed(f)'
  BY DEF Placed
<1>2. RowInOrder(f)' /\ CleaningKnown(f)'
  BY DEF RowInOrder, CleaningKnown
<1>3. Copied(f)' /\ Served(f)'
  BY DEF Copied, Served
<1> QED
  BY <1>1, <1>2, <1>3

LEMMA OneFileSteps ==
  ASSUME FileStoreInv, NEW f \in Files, UNCHANGED backend, FileStoreTypeOK',
         FileInv(f)', \A g \in Files \ {f} : Untouched(g)
  PROVE  FileStoreInv'
<1>1. ASSUME NEW g \in Files \ {f}
      PROVE  FileInv(g)'
  BY UntouchedKeeps DEF FileStoreInv
<1> QED
  BY <1>1 DEF FileStoreInv

LEMMA CheckUploadKeeps ==
  ASSUME FileStoreInv, NEW f \in Files, NEW byToken \in BOOLEAN, CheckUpload(f, byToken)
  PROVE  FileStoreInv'
<1> USE DEF CheckUpload, FileStoreTypeOK
<1>1. FileStoreTypeOK'
  BY DEF FileStoreInv
<1>2. \A g \in Files \ {f} : Untouched(g)
  BY DEF FileStoreInv, Untouched
<1>3. FileInv(f)'
  BY DEF FileStoreInv, FileInv, Placed, RowInOrder, CleaningKnown, Copied, Served, Providers
<1> QED
  BY <1>1, <1>2, <1>3, OneFileSteps

LEMMA PutObjectKeeps ==
  ASSUME FileStoreInv, NEW f \in Files, NEW ok \in BOOLEAN, NEW stored \in BOOLEAN,
         PutObject(f, ok, stored)
  PROVE  FileStoreInv'
<1> USE DEF FileStoreInv, FileStoreTypeOK
<1>1. PICK x : /\ x = (IF ok THEN [request[f] EXCEPT !.stage = "stored"] ELSE Over)
               /\ request' = [request EXCEPT ![f] = x]
  BY DEF PutObject
<1>2. /\ x \in [stage : {"idle", "checked", "stored", "paid", "recorded", "over"},
                byToken : BOOLEAN]
      /\ x.stage = IF ok THEN "stored" ELSE "over"
  BY <1>1 DEF Over
<1>3. FileStoreTypeOK'
  BY <1>1, <1>2 DEF PutObject
<1>4. \A g \in Files \ {f} : Untouched(g)
  BY <1>1 DEF Untouched, PutObject
<1>5. FileInv(f)'
  BY <1>1, <1>2 DEF PutObject, FileInv, Placed, RowInOrder, CleaningKnown, Copied, Served, Providers
<1> QED
  BY <1>3, <1>4, <1>5, OneFileSteps DEF PutObject

LEMMA ConsumeTokenKeeps ==
  ASSUME FileStoreInv, NEW f \in Files, NEW removed \in BOOLEAN, ConsumeToken(f, removed)
  PROVE  FileStoreInv'
<1> USE DEF FileStoreInv, FileStoreTypeOK, ConsumeToken, DropObject
<1>1. PICK x : /\ x = (IF usedToken THEN Over ELSE [request[f] EXCEPT !.stage = "paid"])
               /\ request' = [request EXCEPT ![f] = x]
  OBVIOUS
<1>2. /\ x \in [stage : {"idle", "checked", "stored", "paid", "recorded", "over"},
                byToken : BOOLEAN]
      /\ x.stage = IF usedToken THEN "over" ELSE "paid"
  BY <1>1 DEF Over
<1>3. FileStoreTypeOK'
  <2>1. usedToken' \in BOOLEAN
    BY Zenon
  <2>2. objects' \subseteq Files \X Providers /\ stray' \subseteq Files \X Providers
    OBVIOUS
  <2>3. request' \in [Files -> [stage : {"idle", "checked", "stored", "paid", "recorded", "over"},
                                byToken : BOOLEAN]]
    BY <1>1, <1>2
  <2> QED
    BY <2>1, <2>2, <2>3
<1>4. \A g \in Files \ {f} : Untouched(g)
  BY <1>1 DEF Untouched
<1>5. FileInv(f)'
  BY <1>1, <1>2 DEF FileInv, Placed, RowInOrder, CleaningKnown, Copied, Served, Providers
<1> QED
  BY <1>3, <1>4, <1>5, OneFileSteps

LEMMA CreateRowKeeps ==
  ASSUME FileStoreInv, NEW f \in Files, NEW ok \in BOOLEAN, NEW removed \in BOOLEAN,
         CreateRow(f, ok, removed)
  PROVE  FileStoreInv'
<1> USE DEF FileStoreInv, FileStoreTypeOK, CreateRow, DropObject
<1>1. PICK x : /\ x = (IF ok /\ request[f].byToken
                      THEN [request[f] EXCEPT !.stage = "recorded"] ELSE Over)
               /\ request' = [request EXCEPT ![f] = x]
  OBVIOUS
<1>2. /\ x \in [stage : {"idle", "checked", "stored", "paid", "recorded", "over"},
                byToken : BOOLEAN]
      /\ x.stage \in {"recorded", "over"}
      /\ x.stage = "recorded" => ok
  BY <1>1 DEF Over
<1>3. request[f].stage \in {"stored", "paid"}
  OBVIOUS
<1>4. FileStoreTypeOK'
  BY <1>1, <1>2
<1>5. \A g \in Files \ {f} : Untouched(g)
  BY <1>1 DEF Untouched
<1>6. Placed(f)'
  BY <1>1, <1>2, <1>3 DEF FileInv, Placed, Providers
<1>7. RowInOrder(f)' /\ CleaningKnown(f)' /\ Copied(f)'
  BY <1>1, <1>2, <1>3 DEF FileInv, RowInOrder, CleaningKnown, Copied, Providers
<1>8. Served(f)'
  <2>1. rows[f] = "none" /\ backend \in Providers /\ <<f, backend>> \in objects
    BY <1>3 DEF FileInv, Placed, RowInOrder
  <2>2. CASE ok
    <3>1. rows'[f] = backend /\ UNCHANGED <<objects, backend>>
      BY <2>2
    <3> QED
      BY <2>1, <3>1 DEF Served
  <2>3. CASE ~ok
    BY <2>1, <2>3 DEF Served
  <2> QED
    BY <2>2, <2>3
<1>9. FileInv(f)'
  BY <1>6, <1>7, <1>8 DEF FileInv
<1> QED
  BY <1>4, <1>5, <1>9, OneFileSteps

LEMMA BindFileKeeps ==
  ASSUME FileStoreInv, NEW f \in Files, NEW mapping, NEW removed \in BOOLEAN,
         BindFile(f, mapping, removed)
  PROVE  FileStoreInv'
<1> USE DEF FileStoreInv, FileStoreTypeOK, BindFile, DropObject, Over
<1>1. FileStoreTypeOK'
  OBVIOUS
<1>2. \A g \in Files \ {f} : Untouched(g)
  BY DEF Untouched
<1>3. FileInv(f)'
  BY DEF FileInv, Placed, RowInOrder, CleaningKnown, Copied, Served, Providers
<1> QED
  BY <1>1, <1>2, <1>3, OneFileSteps

LEMMA AgeKeeps ==
  ASSUME FileStoreInv, NEW f \in Files, Age(f)
  PROVE  FileStoreInv'
<1> USE DEF FileStoreInv, FileStoreTypeOK, Age, uploadState
<1>1. FileStoreTypeOK'
  OBVIOUS
<1>2. \A g \in Files \ {f} : Untouched(g)
  BY DEF Untouched
<1>3. FileInv(f)'
  BY DEF FileInv, Placed, RowInOrder, CleaningKnown, Copied, Served, Providers
<1> QED
  BY <1>1, <1>2, <1>3, OneFileSteps

LEMMA CleanFileKeeps ==
  ASSUME FileStoreInv, NEW f \in Files, NEW ok \in BOOLEAN,
         RemoveOldObject(f, ok) \/ DeleteOldRow(f, ok)
  PROVE  FileStoreInv'
<1> USE DEF FileStoreInv, FileStoreTypeOK, RemoveOldObject, DeleteOldRow, uploadState
<1>1. FileStoreTypeOK'
  OBVIOUS
<1>2. \A g \in Files \ {f} : Untouched(g)
  BY DEF Untouched
<1>3. FileInv(f)'
  <2>1. CASE RemoveOldObject(f, ok)
    BY <2>1 DEF FileInv, Placed, RowInOrder, CleaningKnown, Copied, Served, Providers
  <2>2. CASE DeleteOldRow(f, ok)
    BY <2>2 DEF FileInv, Placed, RowInOrder, CleaningKnown, Copied, Served, Providers
  <2> QED
    BY <2>1, <2>2
<1> QED
  BY <1>1, <1>2, <1>3, OneFileSteps

LEMMA MigrateFileKeeps ==
  ASSUME FileStoreInv, NEW f \in Files, MigrateFile(f)
  PROVE  FileStoreInv'
<1> USE DEF FileStoreInv, FileStoreTypeOK, MigrateFile, OpenSource, PutTarget,
            UpdateStorageMetadata, uploadState
<1>1. FileStoreTypeOK'
  BY DEF Providers
<1>2. \A g \in Files \ {f} : Untouched(g)
  BY DEF Untouched
<1>3. FileInv(f)'
  <2>1. CASE OpenSource(f)
    BY <2>1 DEF FileInv, Placed, RowInOrder, CleaningKnown, Copied, Served, Providers
  <2>2. ASSUME NEW ok \in BOOLEAN, NEW stored \in BOOLEAN, PutTarget(f, ok, stored)
        PROVE  FileInv(f)'
    BY <2>2 DEF FileInv, Placed, RowInOrder, CleaningKnown, Copied, Served, Providers
  <2>3. ASSUME NEW ok \in BOOLEAN, UpdateStorageMetadata(f, ok)
        PROVE  FileInv(f)'
    BY <2>3 DEF FileInv, Placed, RowInOrder, CleaningKnown, Copied, Served, Providers
  <2> QED
    BY <2>1, <2>2, <2>3
<1> QED
  BY <1>1, <1>2, <1>3, OneFileSteps

(* Uploads end with the objects they have stored; the provider may change. *)
LEMMA RestartServerKeeps ==
  ASSUME FileStoreInv, NEW provider \in Providers, RestartServer(provider)
  PROVE  FileStoreInv'
<1> USE DEF FileStoreInv, FileStoreTypeOK, RestartServer, Over, InFlight
<1>1. FileStoreTypeOK'
  OBVIOUS
<1>2. ASSUME NEW f \in Files
      PROVE  FileInv(f)'
  <2>1. Placed(f)'
    BY DEF FileInv, Placed, RowInOrder, Providers
  <2>2. RowInOrder(f)' /\ CleaningKnown(f)' /\ Copied(f)'
    BY DEF FileInv, RowInOrder, CleaningKnown, Copied, Providers
  <2>3. Served(f)'
    BY DEF FileInv, Served, Providers
  <2> QED
    BY <2>1, <2>2, <2>3 DEF FileInv
<1> QED
  BY <1>1, <1>2

LEMMA ListsKeep ==
  ASSUME FileStoreInv, ListOldFiles \/ ListByStorageProvider \/ MigrationStops
  PROVE  FileStoreInv'
<1> USE DEF FileStoreInv, FileStoreTypeOK, ListOldFiles, ListByStorageProvider,
            MigrationStops, uploadState
<1>1. FileStoreTypeOK'
  BY DEF FileInv, RowInOrder
<1>2. ASSUME NEW f \in Files
      PROVE  FileInv(f)'
  <2>1. Placed(f)' /\ Served(f)'
    BY DEF FileInv, Placed, Served
  <2>2. RowInOrder(f)' /\ CleaningKnown(f)' /\ Copied(f)'
    BY DEF FileInv, RowInOrder, CleaningKnown, Copied, Providers
  <2> QED
    BY <2>1, <2>2 DEF FileInv
<1> QED
  BY <1>1, <1>2

LEMMA FileStoreStep ==
  FileStoreInv /\ [FileStoreNext]_fileVars => FileStoreInv'
<1>1. ASSUME FileStoreInv, UNCHANGED fileVars
      PROVE  FileStoreInv'
  BY <1>1, UntouchedKeeps DEF fileVars, FileStoreInv, FileStoreTypeOK, Untouched
<1>2. ASSUME FileStoreInv, FileStoreNext
      PROVE  FileStoreInv'
  <2>1. ASSUME NEW f \in Files, UploadFile(f)
        PROVE  FileStoreInv'
    BY <1>2, <2>1, CheckUploadKeeps, PutObjectKeeps, ConsumeTokenKeeps, CreateRowKeeps,
       BindFileKeeps DEF UploadFile
  <2>2. ASSUME NEW f \in Files, Age(f) \/ CleanFile(f) \/ MigrateFile(f)
        PROVE  FileStoreInv'
    BY <1>2, <2>2, AgeKeeps, CleanFileKeeps, MigrateFileKeeps DEF CleanFile
  <2> QED
    BY <1>2, <2>1, <2>2, RestartServerKeeps, ListsKeep DEF FileStoreNext
<1> QED
  BY <1>1, <1>2

LEMMA FileStoreStart == FileStoreInit => FileStoreInv
<1> SUFFICES ASSUME FileStoreInit
             PROVE  FileStoreInv
  OBVIOUS
<1> USE DEF FileStoreInit
<1>1. FileStoreTypeOK
  BY DEF FileStoreTypeOK
<1>2. ASSUME NEW f \in Files
      PROVE  FileInv(f)
  BY DEF FileInv, Placed, RowInOrder, CleaningKnown, Copied, Served, Providers
<1> QED
  BY <1>1, <1>2 DEF FileStoreInv

LEMMA FileStoreInvImplies ==
  FileStoreInv => FileStoreTypeOK /\ RecentFileServed /\ ObjectsAccountedFor
<1> SUFFICES ASSUME FileStoreInv
             PROVE  RecentFileServed /\ ObjectsAccountedFor
  BY DEF FileStoreInv
<1>1. RecentFileServed
  BY DEF FileStoreInv, FileInv, Served, RecentFileServed
<1>2. ObjectsAccountedFor
  BY DEF FileStoreInv, FileStoreTypeOK, FileInv, Placed, RowInOrder, ObjectsAccountedFor,
     InFlight, Providers
<1> QED
  BY <1>1, <1>2

(* serveStoredFile finds every file less than a day old whatever uploads,  *)
(* cleanup, migration and restarts interleave, for any number of files; a  *)
(* file whose binding failed and one still to be migrated excepted.        *)
THEOREM RecentFilesServed == FileStoreSpec => [](FileStoreTypeOK /\ RecentFileServed)
BY FileStoreInvImplies, FileStoreStart, FileStoreStep, PTL DEF FileStoreSpec

(* An object without a row belongs to an upload under way, or its removal  *)
(* failed, or a restart cut it off, or the migration has copied it.        *)
THEOREM ObjectsRemembered == FileStoreSpec => []ObjectsAccountedFor
BY FileStoreInvImplies, FileStoreStart, FileStoreStep, PTL DEF FileStoreSpec
=============================================================================
