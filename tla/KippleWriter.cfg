SPECIFICATION Spec
CONSTANTS
  f1 = f1
  s1 = s1
  s2 = s2
  u1 = u1
  Files <- OneFile
  Slots <- TwoSlots
  Users <- OneUser
  Owner <- OwnerOfAll
  Size <- ThreeUnits
  Unlimited <- NoUser
  Quota = 3
  Buffer = 1
  FreeSpace <- Plenty
  MaxChunk = 2
  Overshoot = 0
  Corrupt = {"whole"}
  MaxWriters = 1
  Jobs = {"cleanup", "orphans"}
  MaxCrashes = 2
  MaxFaults = 1
SYMMETRY SlotSymmetry
INVARIANTS
  TypeOK
  OffsetBacked
  ServedWhole
  GoneStaysGone
PROPERTIES
  OffsetAdvances
