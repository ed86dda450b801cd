SPECIFICATION MCSpec
CONSTANTS
  t1 = t1
  f1 = f1
  n1 = n1
  Users = {ann, bob}
  Tokens = {t1, t2}
  Requests = {r1, r2}
  Routes <- AllRoutes
  NoUser = NoUser
  NoToken = NoToken
  NoRequest = NoRequest
  TTL = 1
  MaxTime = 2
  Faults = TRUE
  Notes = {n1}
  Files = {f1}
  NoItem = NoItem
  Lives = {1, 2}
  Names = {1, 2, 3}
  DaysAsked = {1, 2}
  Day = 2
  MaxDuration = 7
  pageSize = 1
  MaxClock = 3
SYMMETRY Symmetry
INVARIANTS
  RequestTypes
  ServedAsOwner
  ValidAdmitted
  PrivateKept
  AnswersRight
  NothingSkipped
  LifetimeKept
PROPERTIES
  RemovedForCause
