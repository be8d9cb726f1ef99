CONSTANTS
  r1 = r1
  r2 = r2
  old = old
  Reservation <- MCReservation
  Writer = {w1}
  Scanner = {s1}
  Temp = {t1}
  LegacyName <- MCLegacyName
  Legacy <- MCLegacy
  Elsewhere = {r2}
  Bad = Bad
  Absent = Absent
  MayFail = {"read"}
SPECIFICATION Spec
CHECK_DEADLOCK FALSE
INVARIANTS SetAsideIsUnparseable
