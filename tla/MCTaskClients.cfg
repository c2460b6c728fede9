\* What expectedStatus guarantees about a stale submit; no transaction is stuck.
SPECIFICATION ClientFairSpec
CONSTANTS
  Conn = {c1, c2}
  Task = {t1, t2}
  Type = {dev}
  User = {u1}
  Field = {f2, f3}
  Value = {v1}
  MaxStatus = 3
  FinalStatus <- MCFinalStatus
  Required <- MCRequired
  Requests <- MCRequests
  MaxClock = 5
  NoRow = NoRow
  NoConn = NoConn
  NoTask = NoTask
  NoEntry = NoEntry
  NoTx = NoTx
  UnknownUser = UnknownUser
  UnknownTask = UnknownTask
  UnknownType = UnknownType
  BadValue = BadValue
  dev = dev
  f2 = f2
  f3 = f3
  v1 = v1
INVARIANTS StaleSubmitOnlyAfterReturn ServiceInv
PROPERTIES TransactionsEnd
CHECK_DEADLOCK FALSE
