\* The abstract task: every sequence of moves up to MaxTrail entries.
SPECIFICATION MCSpec
CONSTANTS
  Task = {t1}
  Type = {dev}
  User = {u1, u2}
  Field = {f2, f3}
  Value = {v1, v2}
  MaxStatus = 3
  FinalStatus <- MCFinalStatus
  Required <- MCRequired
  MaxTrail = 6
  NoRow = NoRow
  dev = dev
  f2 = f2
  f3 = f3
INVARIANTS AuditTrail FieldsReplay RequiredFieldsHeld
CHECK_DEADLOCK FALSE
