SPECIFICATION MCSpec
CONSTANTS
  Users = {ann}
  Tokens = {t1}
  Requests = {1, 2}
  Routes = {"login", "logout", "me"}
  NoUser = NoUser
  NoToken = NoToken
  NoRequest = NoRequest
  TTL = 1
  MaxTime = 1
  Faults = TRUE
  Procs = {1, 2}
  NoProc = NoProc
  Builds = {2, 4}
  Rerunnable = {2}
  MaxFaults = 2
  Visitors = {1, 2}
  NoVisitor = NoVisitor
  Pages = {"home", "relay"}
  MaxBuilds = 3
  Jobs = {1, 2}
  MaxTriggered = 1
  Day = 2
  logRetentionDays = 2
  Zones <- MCZones
  MaxLogTime = 7
  Texts = {"", "a", "~a"}
  Empty = ""
  Broken = "broken"
  Decoded <- MCDecoded
  MaxInputs = 3
  maxNotifications = 3
  MaxToasts = 5
INVARIANTS
  PartTypes
  AppliedIsTracked
  CacheSound
  RecentKept
  LinkFollowsText
PROPERTIES
  Promise
  NobodyStuck
  JobsRunUntilCancelled
  ToastsComeAndGo
