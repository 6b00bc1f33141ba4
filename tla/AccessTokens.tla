---------------------------- MODULE AccessTokens ----------------------------
(***************************************************************************)
(* The signed file access tokens of one node: upload tokens for a printer, *)
(* accepted once, and download tokens for a file, which may be used again  *)
(* until they expire (security/token_manager.go), with the table that      *)
(* remembers used and revoked tokens (token_usage_repository.go).          *)
(*                                                                         *)
(* A token is what its signature covers.  An upload token has a nonce, so  *)
(* each one is its own identity; a download token is determined by the job *)
(* and by the second of its issue.  `clock` counts half seconds, because   *)
(* tokens expire by whole seconds and rows are cleaned by the exact time.  *)
(***************************************************************************)
EXTENDS Naturals, FiniteSets

CONSTANTS
  UploadTokens,    \* nonces
  DownloadJobs,    \* print jobs (and "preview") that download the file
  Uploads,         \* upload requests that may run at once
  Dispatches,      \* dispatches that may generate a download token at once
  TTL,             \* life of a token in seconds
  MaxClock,        \* bound: the last half second
  None

ASSUME AccessTokensAssumption ==
  /\ TTL \in Nat \ {0}
  /\ MaxClock \in Nat
  /\ None \notin UploadTokens \cup DownloadJobs \cup Nat

VARIABLES
  clock,      \* half seconds
  usage,      \* token_usage_records of the upload tokens
  expires,    \* the second after which an upload token is expired
  upload,     \* where each upload request stands
  accepted,   \* history: how often each upload token was accepted (2: more)
  cancelled,  \* history: upload tokens whose row was revoked while unused
  dlRows,     \* token_usage_records of the download tokens
  dispatch,   \* where each dispatch stands
  handed      \* the download token each job was given last

uploadVars == <<usage, expires, upload, accepted, cancelled>>
downloadVars == <<dlRows, dispatch, handed>>
tokenVars == <<clock, uploadVars, downloadVars>>

Second(t) == t \div 2
Seconds == 0..(Second(MaxClock) + TTL)
UsageRows == {"missing", "unused", "used", "revoked"}
Resting == [stage |-> "idle", u |-> None]
Waiting == [stage |-> "idle", job |-> None]
NoToken == [at |-> 0, again |-> FALSE, given |-> FALSE]

(* A used row that is revoked as well is refused either way: "revoked".    *)
AccessTokensTypeOK ==
  /\ clock \in 0..MaxClock
  /\ usage \in [UploadTokens -> UsageRows]
  /\ expires \in [UploadTokens -> Seconds \cup {None}]
  /\ upload \in [Uploads -> [stage : {"idle", "verified", "unused", "missing"},
                             u : UploadTokens \cup {None}]]
  /\ accepted \in [UploadTokens -> 0..2]
  /\ cancelled \subseteq UploadTokens
  /\ dlRows \in [DownloadJobs \X Seconds -> {"missing", "live", "revoked"}]
  /\ dispatch \in [Dispatches -> [stage : {"idle", "revoked"},
                                  job : DownloadJobs \cup {None}]]
  /\ handed \in [DownloadJobs -> [at : Seconds, again : BOOLEAN, given : BOOLEAN]]

AccessTokensInit ==
  /\ clock = 0
  /\ usage = [u \in UploadTokens |-> "missing"]
  /\ expires = [u \in UploadTokens |-> None]
  /\ upload = [r \in Uploads |-> Resting]
  /\ accepted = [u \in UploadTokens |-> 0]
  /\ cancelled = {}
  /\ dlRows = [k \in DownloadJobs \X Seconds |-> "missing"]
  /\ dispatch = [d \in Dispatches |-> Waiting]
  /\ handed = [j \in DownloadJobs |-> NoToken]

AdvanceClock ==
  /\ clock < MaxClock
  /\ clock' = clock + 1
  /\ UNCHANGED <<uploadVars, downloadVars>>

(* time.Now().Unix() > expiresAt                                           *)
Issued(u) == expires[u] # None
Unexpired(exp) == Second(clock) <= exp

-----------------------------------------------------------------------------
(* GenerateUploadToken: the token is pre-registered; a failure of that is  *)
(* only logged.                                                            *)
GenerateUploadToken(u, registered) ==
  /\ ~Issued(u)
  /\ expires' = [expires EXCEPT ![u] = Second(clock) + TTL]
  /\ usage' = [usage EXCEPT ![u] = IF registered THEN "unused" ELSE "missing"]
  /\ UNCHANGED <<clock, upload, accepted, cancelled, downloadVars>>

(* VerifyUploadTokenAvailable: neither expired, used nor revoked.  The     *)
(* upload stores the object after it and consumes the token then.          *)
VerifyUploadTokenAvailable(r, u) ==
  /\ upload[r] = Resting
  /\ Issued(u) /\ Unexpired(expires[u])
  /\ usage[u] \in {"unused", "missing"}
  /\ upload' = [upload EXCEPT ![r] = [stage |-> "verified", u |-> u]]
  /\ UNCHANGED <<clock, usage, expires, accepted, cancelled, downloadVars>>

(* ValidateUploadTokenForContext, and MarkTokenAsUsed's SELECT: a used or  *)
(* revoked row refuses the upload.                                         *)
SelectUsage(r) ==
  /\ upload[r].stage = "verified"
  /\ LET u == upload[r].u
     IN upload' = [upload EXCEPT ![r] =
          IF Unexpired(expires[u]) /\ usage[u] \in {"unused", "missing"}
          THEN [stage |-> usage[u], u |-> u] ELSE Resting]
  /\ UNCHANGED <<clock, usage, expires, accepted, cancelled, downloadVars>>

(* Mutant: the UPDATE trusts what the SELECT has seen.                     *)
StillFree_TrustsSelect(r) == TRUE

(* MarkTokenAsUsed's write: UPDATE ... used_at IS NULL AND revoked = FALSE *)
(* for a row it has seen, INSERT ... DO NOTHING for one it has not.        *)
StillFree(r) == usage[upload[r].u] = upload[r].stage

MarkTokenAsUsed(r) ==
  /\ upload[r].stage \in {"unused", "missing"}
  /\ LET u == upload[r].u
     IN IF StillFree(r)
        THEN /\ usage' = [usage EXCEPT ![u] = "used"]
             /\ accepted' = [accepted EXCEPT ![u] = IF @ = 0 THEN 1 ELSE 2]
        ELSE UNCHANGED <<usage, accepted>>
  /\ upload' = [upload EXCEPT ![r] = Resting]
  /\ UNCHANGED <<clock, expires, cancelled, downloadVars>>

(* RevokeTokensByNodeAndType / ...AndResource: the node or the printer was *)
(* disabled.                                                               *)
RevokeUploadTokens ==
  /\ usage' = [u \in UploadTokens |-> IF usage[u] = "missing" THEN "missing" ELSE "revoked"]
  /\ cancelled' = cancelled \cup {u \in UploadTokens : usage[u] = "unused"}
  /\ UNCHANGED <<clock, expires, upload, accepted, downloadVars>>

(* CleanupExpiredTokens: DELETE ... WHERE expires_at < now.  The token is  *)
(* still accepted until the end of the second in which it expires.         *)
Outdated(exp) == 2 * exp < clock

CleanupExpiredTokens ==
  /\ usage' = [u \in UploadTokens |->
       IF Issued(u) /\ Outdated(expires[u]) THEN "missing" ELSE usage[u]]
  /\ dlRows' = [k \in DownloadJobs \X Seconds |->
       IF Outdated(k[2] + TTL) THEN "missing" ELSE dlRows[k]]
  /\ UNCHANGED <<clock, expires, upload, accepted, cancelled, dispatch, handed>>

-----------------------------------------------------------------------------
(* Mutant: the revocation goes by node and file, not by the job.           *)
SameJob_AnyJob(job, k) == TRUE

SameJob(job, k) == k[1] = job

(* GenerateDownloadToken, first statement: the earlier tokens of the job   *)
(* are revoked.  A failure of either statement is only logged.             *)
RevokeDownloadTokens(d, job, ok) ==
  /\ dispatch[d] = Waiting
  /\ dlRows' = [k \in DownloadJobs \X Seconds |->
       IF ok /\ SameJob(job, k) /\ dlRows[k] = "live" THEN "revoked" ELSE dlRows[k]]
  /\ dispatch' = [dispatch EXCEPT ![d] = [stage |-> "revoked", job |-> job]]
  /\ UNCHANGED <<clock, uploadVars, handed>>

(* Then the token is signed and registered, ON CONFLICT DO NOTHING, and    *)
(* handed to the job.  `again` records that this very token was registered *)
(* before: it was issued in the same second.                               *)
RegisterDownloadToken(d, ok) ==
  /\ dispatch[d].stage = "revoked"
  /\ LET k == <<dispatch[d].job, Second(clock)>>
     IN /\ dlRows' = [dlRows EXCEPT ![k] = IF ok /\ @ = "missing" THEN "live" ELSE @]
        /\ handed' = [handed EXCEPT ![k[1]] =
             [at |-> k[2], again |-> dlRows[k] # "missing", given |-> TRUE]]
  /\ dispatch' = [dispatch EXCEPT ![d] = Waiting]
  /\ UNCHANGED <<clock, uploadVars>>

(* ValidateDownloadToken: a revoked row refuses, a missing one does not.   *)
ValidateDownloadToken(k) ==
  /\ Unexpired(k[2] + TTL)
  /\ dlRows[k] # "revoked"

UploadNext ==
  \/ \E u \in UploadTokens, registered \in BOOLEAN : GenerateUploadToken(u, registered)
  \/ \E r \in Uploads, u \in UploadTokens : VerifyUploadTokenAvailable(r, u)
  \/ \E r \in Uploads : SelectUsage(r) \/ MarkTokenAsUsed(r)
  \/ RevokeUploadTokens

DownloadNext ==
  \/ \E d \in Dispatches, job \in DownloadJobs, ok \in BOOLEAN : RevokeDownloadTokens(d, job, ok)
  \/ \E d \in Dispatches, ok \in BOOLEAN : RegisterDownloadToken(d, ok)

AccessTokensNext == AdvanceClock \/ CleanupExpiredTokens \/ UploadNext \/ DownloadNext

AccessTokensSpec == AccessTokensInit /\ [][AccessTokensNext]_tokenVars

-----------------------------------------------------------------------------
(* An upload token is accepted once, however many uploads carry it at the  *)
(* same time, and never once it was revoked unused, not even by an upload  *)
(* that had verified and selected it before: until the exact moment of its *)
(* expiry.  In the rest of that second its row may be cleaned away while   *)
(* the signature still holds, and it is accepted again.                    *)
UploadTokenHolds ==
  \A u \in UploadTokens : Issued(u) /\ ~Outdated(expires[u]) =>
    accepted[u] <= IF u \in cancelled THEN 0 ELSE 1

(* The token a job was handed last is not refused before it expires, while *)
(* other jobs get tokens for the same file: unless the job is being given  *)
(* another one, or was given this very token twice within a second (the    *)
(* second issue revokes it and cannot register it again).                  *)
HandedTokenStands ==
  \A j \in DownloadJobs :
    handed[j].given /\ ~handed[j].again /\ Unexpired(handed[j].at + TTL) =>
      \/ ValidateDownloadToken(<<j, handed[j].at>>)
      \/ \E d \in Dispatches : dispatch[d].job = j
=============================================================================
