CONSTANTS
  r1 = r1
  r2 = r2
  old = old
  Reservation <- MCReservation
  Writer = {w1, w2}
  Scanner = {s1}
  Temp = {t1, t2}
  LegacyName <- MCLegacyName
  Legacy <- MCLegacy
  Elsewhere = {r2}
  Bad = Bad
  Absent = Absent
  MayFail = {"read", "rename"}
SPECIFICATION Spec
SYMMETRY Symmetry
CHECK_DEADLOCK FALSE
INVARIANTS TypeOK JournalInv OwedOnDisk ScanFindsOwed
PROPERTIES NoPartialRecord
