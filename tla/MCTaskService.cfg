\* Every interleaving of two transactions on one task, good requests and bad.
SPECIFICATION Spec
CONSTANTS
  Conn = {c1, c2}
  Task = {t1}
  Type = {dev}
  User = {u1, u2}
  Field = {f2, f3}
  Value = {v1}
  MaxStatus = 3
  FinalStatus <- MCFinalStatus
  Required <- MCRequired
  Requests <- AllRequests
  MaxClock = 5
  NoRow = NoRow
  NoConn = NoConn
  NoTask = NoTask
  NoEntry = NoEntry
  NoTx = NoTx
  UnknownUser = UnknownUser
  UnknownTask = UnknownTask
  UnknownType = UnknownType
  BadValue = BadValue
  dev = dev
  f2 = f2
  f3 = f3
  v1 = v1
  v2 = v2
  u1 = u1
  u2 = u2
INVARIANTS LockedRowIsCurrent EventsMatchTrail
PROPERTIES ImplementsLifecycle ClosedForever
SYMMETRY ConnSymmetry
CHECK_DEADLOCK FALSE
