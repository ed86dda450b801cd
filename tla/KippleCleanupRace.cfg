SPECIFICATION Spec
CONSTANTS
  f1 = f1
  s1 = s1
  s2 = s2
  u1 = u1
  Files <- OneFile
  Slots <- TwoSlots
  Users <- OneUser
  Owner <- OwnerOfAll
  Size <- TwoUnits
  Unlimited <- NoUser
  Quota = 3
  Buffer = 1
  FreeSpace <- Plenty
  MaxChunk = 2
  Overshoot = 0
  Corrupt = {"whole", "torn"}
  MaxWriters = 1
  Jobs = {"cleanup"}
  MaxCrashes = 0
  MaxFaults = 0
SYMMETRY SlotSymmetry
PROPERTIES
  ActiveFileKept
