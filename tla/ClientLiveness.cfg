SPECIFICATION FairClientSpec
CONSTANTS
  f1 = f1
  f2 = f2
  s1 = s1
  s2 = s2
  p1 = p1
  p2 = p2
  u1 = u1
  Files <- OneFile
  Slots <- TwoSlots
  Users <- OneUser
  Owner <- OwnerOfAll
  Size <- TwoUnits
  Unlimited <- OneUser
  Quota = 4
  Buffer = 1
  FreeSpace <- Plenty
  MaxChunk = 1
  Overshoot = 0
  Corrupt = {"whole"}
  MaxWriters = 2
  Jobs = {"cleanup"}
  MaxCrashes = 1
  MaxFaults = 0
  Pages <- TwoPages
  NoUpload = NoUpload
  ChunkSize = 1
  MaxStarts = 2
CHECK_DEADLOCK FALSE
PROPERTIES
  ReportedSettles
  UploadEnds
