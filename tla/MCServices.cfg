SPECIFICATION ServicesSpec
CONSTANTS
  None = None
  UploadTokens = {u1}
  DownloadJobs = {d1, d2}
  Uploads = {r1, r2}
  Dispatches = {s1, s2}
  TTL = 1
  MaxClock = 4
  Files = {f1, f2}
  Events = {v1, v2}
  MaxFaults = 2
  Nobody = Nobody
  Docs = {f1, f2}
  MaxFiles = 2
  Deleters = {x1, x2}
  Portals = {q1, q2}
  Terminals = {t1}
  Managers = {m1, m2}
  Bootstrap = q1
  MaxRevision = 2
  NoPortal = NoPortal
  MaxPages = 6
  MaxCopies = 3
  EdgeNodes = {n1, n2}
  People = {p1, p2}
  PrintJobs = {w1}
  NoOwner = NoOwner
  ContactNodes = {k1}
  Contacts = {c1, c2}
  Replacers = {y1, y2}
  Limits = {1, 2}
  DefaultLimit = 1
  NoContact = NoContact
  Instances = {i1, i2}
  Guests = {g1}
  GrantMigration = 2
  LastMigration = 3
INVARIANTS
  ServicesTypeOK
  UploadTokenHolds
  HandedTokenStands
  SyncAlertShown
  RecentFileServed
  ObjectsAccountedFor
  NothingLeftBehind
  AssignmentsUsable
  RevisionNotAhead
  MeterMatchesPrice
  StartsCleanly
PROPERTIES
  SilentGoesOffline
  OrphansRemoved
  LoginReachesEdge
  ExpiredActivationsRemoved
  NoActiveJobErased
  NodeOverfilledByOverlap
CHECK_DEADLOCK FALSE
