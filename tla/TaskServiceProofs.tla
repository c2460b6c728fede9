------------------------- MODULE TaskServiceProofs -------------------------
(***************************************************************************)
(* TaskService keeps its invariant and implements TaskLifecycle, for every *)
(* number of connections, tasks, users, types and fields; and a client of  *)
(* it that passes the checks finds the task where it saw it.               *)
(***************************************************************************)
EXTENDS TaskClients, TaskDataProofs, FiniteSetTheorems, WellFoundedInduction

(* The operation of a request says which of the three shapes it has. *)
LEMMA RequestShape ==
  ASSUME NEW req \in Requests
  PROVE  /\ req.op = "create" => req \in CreateRequest
         /\ req.op \in {"forward", "backward"} => req \in ChangeRequest
         /\ req.op = "close" => req \in CloseRequest
         /\ req.op \in {"create", "forward", "backward", "close"}
  <1>1. req \in Request
    BY ServiceAssumption
  <1>2. CASE req \in CreateRequest
    BY <1>2 DEF CreateRequest
  <1>3. CASE req \in ChangeRequest
    BY <1>3 DEF ChangeRequest
  <1>4. CASE req \in CloseRequest
    BY <1>4 DEF CloseRequest
  <1> QED
    BY <1>1, <1>2, <1>3, <1>4 DEF Request

(* Fields the validator lets through are a field map over the required     *)
(* fields of the target.                                                   *)
LEMMA ValidFieldsType ==
  ASSUME NEW ty \in Type, NEW s \in Status, NEW fields \in Submission,
         ValidFields(ty, s, fields)
  PROVE  fields \in FieldMap /\ DOMAIN fields = Required[ty][s]
  <1>1. DOMAIN fields = Required[ty][s] /\ \A f \in DOMAIN fields : fields[f] # BadValue
    BY DEF ValidFields
  <1>2. PICK S \in SUBSET Field : fields \in [S -> Value \cup {BadValue}]
    BY DEF Submission
  <1>3. fields \in [S -> Value]
    BY <1>1, <1>2
  <1> QED
    BY <1>1, <1>2, <1>3 DEF FieldMap

(* An accepted change names a status, a user and a field map. *)
LEMMA AcceptedChange ==
  ASSUME NEW row \in Row, NEW req \in Requests,
         req.op \in {"forward", "backward"}, ChangeAccepted(row, req)
  PROVE  /\ Target(row, req) \in Status
         /\ req.next \in User
         /\ Sanitized(req) \in FieldMap
         /\ req.op = "forward" =>
              DOMAIN Sanitized(req) = Required[row.type][Target(row, req)]
  <1>1. req \in ChangeRequest /\ req.fields \in Submission
    BY RequestShape DEF ChangeRequest
  <1>2. row.type \in Type /\ row.status \in Status
    BY DEF Row
  <1>3. Target(row, req) \in Status
    BY <1>2, RegistryAssumption DEF ChangeAccepted, InTransitionRange, Target, Status
  <1>4. CASE req.op = "forward"
    <2>1. ValidFields(row.type, Target(row, req), req.fields)
      BY <1>4 DEF ChangeAccepted
    <2>2. req.fields \in FieldMap /\ DOMAIN req.fields = Required[row.type][Target(row, req)]
      BY <1>1, <1>2, <1>3, <2>1, ValidFieldsType
    <2> QED
      BY <1>3, <1>4, <2>2 DEF ChangeAccepted, Sanitized
  <1>5. CASE req.op = "backward"
    BY <1>3, <1>5, NoFieldsType DEF ChangeAccepted, Sanitized
  <1> QED
    BY <1>4, <1>5

(* What a transaction writes is a row, and what it appends is an entry. *)
LEMMA WrittenRow ==
  ASSUME NEW x \in Tx, Written(x)
  PROVE  x.new \in Row
  <1>1. x.req \in Requests
    BY DEF Tx
  <1>2. CASE x.req.op = "create"
    BY <1>2, NewRowFields DEF Written, CreateAccepted
  <1>3. CASE x.req.op = "close"
    BY <1>3, ClosedRowFields DEF Written, RowAfter
  <1>4. CASE x.req.op \in {"forward", "backward"}
    <2>1. x.row \in Row /\ ChangeAccepted(x.row, x.req)
          /\ x.new = MovedRow(x.row, Target(x.row, x.req), x.req.next, Sanitized(x.req))
      BY <1>4 DEF Written, Accepted, RowAfter
    <2> QED
      BY <1>1, <1>4, <2>1, AcceptedChange, MovedRowFields
  <1> QED
    BY <1>1, <1>2, <1>3, <1>4, RequestShape

LEMMA WrittenEntry ==
  ASSUME NEW x \in Tx, Written(x)
  PROVE  EntryAfter(x.row, x.new, x.req) \in Entry
  <1>1. x.req \in Requests /\ x.new \in Row
    BY WrittenRow DEF Tx
  <1>2. /\ x.new.status \in Status \cup {Null} /\ x.new.assignee \in User
        /\ x.new.fields \in FieldMap /\ Null \in Status \cup {Null}
    BY <1>1 DEF Row
  <1>3. CASE x.req.op = "create"
    BY <1>2, <1>3 DEF EntryAfter, AuditEntry, Entry
  <1>4. CASE x.req.op = "close"
    BY <1>2, <1>4, NoFieldsType DEF EntryAfter, AuditEntry, Entry
  <1>5. CASE x.req.op \in {"forward", "backward"}
    <2>1. x.row \in Row /\ ChangeAccepted(x.row, x.req)
      BY <1>5 DEF Written, Accepted
    <2>2. x.row.status \in Status \cup {Null} /\ Sanitized(x.req) \in FieldMap
      BY <1>1, <1>5, <2>1, AcceptedChange DEF Row
    <2> QED
      BY <1>2, <1>5, <2>2 DEF EntryAfter, AuditEntry, Entry
  <1> QED
    BY <1>1, <1>3, <1>4, <1>5, RequestShape

(* The event of a transaction that has written is well formed. *)
LEMMA EventType ==
  ASSUME NEW x \in Tx, Written(x), x.task \in Task
  PROVE  EventOf(x) \in Event
  <1>1. x.req \in Requests /\ x.new \in Row /\ x.at \in Nat /\ x.new.assignee \in User
    BY WrittenRow DEF Tx, Row
  <1>2. EventName(x.req) \in {"task:created", "task:updated", "task:closed"}
    BY DEF EventName
  <1>3. TargetUsers(x) \subseteq User
    <2>1. CASE x.req.op \in {"forward", "backward"}
      <3>1. x.row \in Row
        BY <2>1 DEF Written
      <3> QED
        BY <1>1, <3>1 DEF TargetUsers, Row
    <2>2. CASE x.req.op \notin {"forward", "backward"}
      BY <1>1, <2>2 DEF TargetUsers
    <2> QED
      BY <2>1, <2>2
  <1> QED
    BY <1>1, <1>2, <1>3 DEF EventOf, Event

----------------------------------------------------------------------------
(* Steps that leave the tables alone and replace the record x of their own *)
(* transaction keep the invariant when x is consistent, because they take  *)
(* no lock away from another transaction.                                  *)
LEMMA LocalStep ==
  ASSUME ServiceInv, NEW c \in Conn, NEW x \in Tx \cup {NoTx},
         tx' = [tx EXCEPT ![c] = x],
         UNCHANGED <<tables, pending>>, clock' \in Nat,
         lock' \in [Task -> Conn \cup {NoConn}],
         \A t \in Task, d \in Conn \ {c} : lock[t] = d <=> lock'[t] = d,
         \A t \in Task : lock'[t] = c => x # NoTx /\ x.phase # "begun" /\ x.task = t,
         Consistent(c)'
  PROVE  ServiceInv'
  <1>1. TypeOK'
    BY DEF ServiceInv, TypeOK, tables
  <1>2. ASSUME NEW d \in Conn \ {c} PROVE Consistent(d)'
    <2>1. tx'[d] = tx[d] /\ tasks' = tasks
      BY DEF ServiceInv, TypeOK, tables
    <2>2. Consistent(d)
      BY DEF ServiceInv
    <2> QED
      BY <2>1, <2>2 DEF Consistent, Written
  <1>3. LocksHaveOwners'
    <2> SUFFICES ASSUME NEW t \in Task, lock'[t] # NoConn
                 PROVE  /\ tx'[lock'[t]] # NoTx /\ tx'[lock'[t]].phase # "begun"
                        /\ tx'[lock'[t]].task = t
      BY DEF LocksHaveOwners
    <2>1. tx'[c] = x /\ \A d \in Conn \ {c} : tx'[d] = tx[d]
      BY DEF ServiceInv, TypeOK
    <2>2. CASE lock'[t] = c
      BY <2>1, <2>2
    <2>3. CASE lock'[t] \in Conn \ {c}
      BY <2>1, <2>3 DEF ServiceInv, LocksHaveOwners
    <2> QED
      BY <2>2, <2>3
  <1>4. StampsAgree'
    BY DEF ServiceInv, StampsAgree, tables
  <1> QED
    BY <1>1, <1>2, <1>3, <1>4 DEF ServiceInv

LEMMA BeginKeepsInv ==
  ASSUME ServiceInv, NEW c \in Conn, Begin(c)
  PROVE  ServiceInv'
  <1>1. PICK q \in Requests :
          /\ q.op # "create" => Nameable(q)
          /\ tx' = [tx EXCEPT ![c] =
                      [phase |-> "begun", req |-> q, at |-> clock + 1, task |-> NoTask,
                       row |-> NoRow, new |-> NoRow, entry |-> NoEntry]]
    BY DEF Begin
  <1> DEFINE x == [phase |-> "begun", req |-> q, at |-> clock + 1, task |-> NoTask,
                   row |-> NoRow, new |-> NoRow, entry |-> NoEntry]
  <1>2. x \in Tx /\ x.phase = "begun" /\ x.row = NoRow /\ x.req = q
    BY DEF ServiceInv, TypeOK, Tx
  <1> HIDE DEF x
  <1>3. tx' = [tx EXCEPT ![c] = x]
    BY <1>1 DEF x
  <1>4. tx'[c] = x /\ tasks' = tasks
    BY <1>3 DEF ServiceInv, TypeOK, Begin, tables
  <1>5. Consistent(c)'
    BY <1>1, <1>2, <1>4 DEF Consistent, Nameable
  <1>6. /\ UNCHANGED <<tables, lock, pending>> /\ clock' \in Nat
        /\ lock \in [Task -> Conn \cup {NoConn}]
    BY DEF Begin, ServiceInv, TypeOK
  <1>7. \A t \in Task : lock[t] # c
    BY ServiceAssumption DEF Begin, ServiceInv, LocksHaveOwners
  <1> QED
    BY <1>2, <1>3, <1>5, <1>6, <1>7, LocalStep

LEMMA InsertRowKeepsInv ==
  ASSUME ServiceInv, NEW c \in Conn, InsertRow(c)
  PROVE  ServiceInv'
  <1>1. PICK t \in Task :
          /\ tasks[t] = NoRow /\ lock[t] = NoConn
          /\ lock' = [lock EXCEPT ![t] = c]
          /\ tx' = [tx EXCEPT ![c] =
                      [tx[c] EXCEPT !.phase = "written", !.task = t,
                                    !.new = NewRow(tx[c].req.type, tx[c].req.next)]]
    BY DEF InsertRow
  <1>2. /\ tx[c] \in Tx /\ tx[c].row = NoRow
        /\ tx[c].req.op = "create" /\ CreateAccepted(tx[c].req)
    BY DEF ServiceInv, TypeOK, InsertRow, InPhase, Consistent
  <1> DEFINE x == [tx[c] EXCEPT !.phase = "written", !.task = t,
                                !.new = NewRow(tx[c].req.type, tx[c].req.next)]
  <1>3. NewRow(tx[c].req.type, tx[c].req.next) \in Row
    BY <1>2, NewRowFields DEF CreateAccepted
  <1>4. /\ x \in Tx /\ x.phase = "written" /\ x.task = t
        /\ x.req = tx[c].req /\ x.row = tx[c].row
        /\ x.new = NewRow(tx[c].req.type, tx[c].req.next)
    BY <1>2, <1>3 DEF Tx
  <1>5. tx' = [tx EXCEPT ![c] = x]
    BY <1>1
  <1> HIDE DEF x
  <1>6. /\ tx'[c] = x /\ lock'[t] = c /\ tasks'[t] = NoRow
        /\ UNCHANGED <<tables, pending>> /\ clock' \in Nat
        /\ lock' \in [Task -> Conn \cup {NoConn}]
        /\ \A s \in Task, d \in Conn \ {c} : lock[s] = d <=> lock'[s] = d
        /\ \A s \in Task : lock'[s] = c => s = t \/ lock[s] = c
    BY <1>1, <1>5, ServiceAssumption DEF InsertRow, ServiceInv, TypeOK, tables
  <1>7. Written(x)
    BY <1>2, <1>4 DEF Written
  <1>8. Consistent(c)'
    <2>1. x.task \in Task /\ lock'[x.task] = c /\ tasks'[x.task] = x.row
      BY <1>2, <1>4, <1>6
    <2> QED
      BY <1>2, <1>4, <1>6, <1>7, <2>1 DEF Consistent, Written
  <1>9. \A s \in Task : lock[s] # c
    BY ServiceAssumption DEF InsertRow, InPhase, ServiceInv, LocksHaveOwners
  <1>10. \A s \in Task : lock'[s] = c => x # NoTx /\ x.phase # "begun" /\ x.task = s
    BY <1>4, <1>6, <1>9, ServiceAssumption
  <1>11. x \in Tx \cup {NoTx}
    BY <1>4
  <1>12. /\ UNCHANGED <<tables, pending>> /\ clock' \in Nat
         /\ lock' \in [Task -> Conn \cup {NoConn}]
         /\ \A s \in Task, d \in Conn \ {c} : lock[s] = d <=> lock'[s] = d
    BY <1>6
  <1> QED
    BY <1>5, <1>8, <1>10, <1>11, <1>12, LocalStep

LEMMA LockRowKeepsInv ==
  ASSUME ServiceInv, NEW c \in Conn, LockRow(c)
  PROVE  ServiceInv'
  <1> DEFINE t == tx[c].req.task
             x == [tx[c] EXCEPT !.phase = "locked", !.task = t, !.row = tasks[t]]
  <1>1. /\ t \in Task /\ lock[t] = NoConn
        /\ lock' = [lock EXCEPT ![t] = c] /\ tx' = [tx EXCEPT ![c] = x]
        /\ tx[c] \in Tx /\ tx[c].req.op # "create"
    BY DEF LockRow, InPhase, ServiceInv, TypeOK
  <1>2. tasks[t] \in Row
    <2>1. Consistent(c) /\ tx[c] # NoTx /\ tasks[t] \in Row \cup {NoRow}
      BY <1>1, ServiceAssumption DEF ServiceInv, TypeOK
    <2> QED
      BY <1>1, <2>1 DEF Consistent
  <1>3. /\ x \in Tx /\ x.phase = "locked" /\ x.task = t
        /\ x.req = tx[c].req /\ x.row = tasks[t]
    BY <1>1, <1>2 DEF Tx
  <1> HIDE DEF x
  <1>4. /\ tx'[c] = x /\ lock'[t] = c /\ tasks' = tasks
        /\ UNCHANGED <<tables, pending>> /\ clock' \in Nat
        /\ lock' \in [Task -> Conn \cup {NoConn}]
        /\ \A s \in Task, d \in Conn \ {c} : lock[s] = d <=> lock'[s] = d
        /\ \A s \in Task : lock'[s] = c => s = t \/ lock[s] = c
    BY <1>1, ServiceAssumption DEF LockRow, ServiceInv, TypeOK, tables
  <1>5. tasks[t] # NoRow
    BY <1>2, NoRowAssumption
  <1>6. Consistent(c)'
    BY <1>1, <1>2, <1>3, <1>4, <1>5 DEF Consistent
  <1>7. \A s \in Task : lock[s] # c
    BY ServiceAssumption DEF LockRow, InPhase, ServiceInv, LocksHaveOwners
  <1>8. \A s \in Task : lock'[s] = c => x # NoTx /\ x.phase # "begun" /\ x.task = s
    BY <1>3, <1>4, <1>7, ServiceAssumption
  <1> QED
    BY <1>1, <1>3, <1>4, <1>6, <1>8, LocalStep

(* The UPDATE and the audit INSERT only change the transaction's own copy. *)
LEMMA WriteRowKeepsInv ==
  ASSUME ServiceInv, NEW c \in Conn, WriteRow(c)
  PROVE  ServiceInv'
  <1> DEFINE new == RowAfter(tx[c].row, tx[c].req)
             x == [tx[c] EXCEPT !.phase = "written", !.new = new]
  <1>1. /\ tx[c] # NoTx /\ tx[c] \in Tx /\ tx[c].phase = "locked"
        /\ Accepted(tx[c].row, tx[c].req) /\ tx' = [tx EXCEPT ![c] = x]
    BY DEF WriteRow, InPhase, ServiceInv, TypeOK
  <1>2. /\ tx[c].req.op # "create" /\ tx[c].row \in Row
        /\ tx[c].task \in Task /\ lock[tx[c].task] = c
        /\ tasks[tx[c].task] = tx[c].row
        /\ tx[c].req.task \in Task => tasks[tx[c].req.task] # NoRow
    BY <1>1 DEF ServiceInv, Consistent
  <1>3. new \in Row
    <2> DEFINE y == [tx[c] EXCEPT !.new = NoRow]
    <2>1. CASE tx[c].req.op = "close"
      BY <1>2, <2>1, ClosedRowFields DEF RowAfter
    <2>2. CASE tx[c].req.op # "close"
      <3>1. tx[c].req \in Requests /\ tx[c].req.op \in {"forward", "backward"}
        BY <1>1, <1>2, <2>2, RequestShape DEF Tx
      <3>2. ChangeAccepted(tx[c].row, tx[c].req)
        BY <1>1, <2>2 DEF Accepted
      <3>3. new = MovedRow(tx[c].row, Target(tx[c].row, tx[c].req),
                           tx[c].req.next, Sanitized(tx[c].req))
        BY <2>2 DEF RowAfter
      <3> QED
        BY <1>2, <3>1, <3>2, <3>3, AcceptedChange, MovedRowFields
    <2> QED
      BY <2>1, <2>2
  <1> HIDE DEF new
  <1>4. /\ x \in Tx /\ x.phase = "written" /\ x.task = tx[c].task
        /\ x.req = tx[c].req /\ x.row = tx[c].row /\ x.new = new
    BY <1>1, <1>3 DEF Tx
  <1> HIDE DEF x
  <1>5. /\ tx'[c] = x /\ tasks' = tasks /\ lock' = lock
        /\ UNCHANGED <<tables, pending>> /\ clock' \in Nat
        /\ lock' \in [Task -> Conn \cup {NoConn}]
    BY <1>1 DEF WriteRow, ServiceInv, TypeOK, tables
  <1>6. Written(x)
    BY <1>1, <1>2, <1>4 DEF Written, new
  <1>7. Consistent(c)'
    BY <1>2, <1>4, <1>5, <1>6 DEF Consistent, Written
  <1>8. \A t \in Task : lock'[t] = c => x # NoTx /\ x.phase # "begun" /\ x.task = t
    BY <1>4, <1>5, ServiceAssumption DEF ServiceInv, LocksHaveOwners
  <1> QED
    BY <1>1, <1>4, <1>5, <1>7, <1>8, LocalStep

LEMMA AppendHistoryKeepsInv ==
  ASSUME ServiceInv, NEW c \in Conn, AppendHistory(c)
  PROVE  ServiceInv'
  <1> DEFINE entry == EntryAfter(tx[c].row, tx[c].new, tx[c].req)
             x == [tx[c] EXCEPT !.phase = "appended", !.entry = entry]
  <1>1. /\ tx[c] # NoTx /\ tx[c] \in Tx /\ tx[c].phase = "written"
        /\ tx' = [tx EXCEPT ![c] = x]
    BY DEF AppendHistory, InPhase, ServiceInv, TypeOK
  <1>2. /\ tx[c].task \in Task /\ lock[tx[c].task] = c
        /\ tasks[tx[c].task] = tx[c].row /\ Written(tx[c])
        /\ (tx[c].req.op # "create" /\ tx[c].req.task \in Task) =>
              tasks[tx[c].req.task] # NoRow
    BY <1>1 DEF ServiceInv, Consistent
  <1>3. entry \in Entry
    BY <1>1, <1>2, WrittenEntry
  <1> HIDE DEF entry
  <1>4. /\ x \in Tx /\ x.phase = "appended" /\ x.task = tx[c].task
        /\ x.req = tx[c].req /\ x.row = tx[c].row /\ x.new = tx[c].new
        /\ x.entry = entry
    BY <1>1, <1>3 DEF Tx
  <1> HIDE DEF x
  <1>5. /\ tx'[c] = x /\ tasks' = tasks /\ lock' = lock
        /\ UNCHANGED <<tables, pending>> /\ clock' \in Nat
        /\ lock' \in [Task -> Conn \cup {NoConn}]
    BY <1>1 DEF AppendHistory, ServiceInv, TypeOK, tables
  <1>6. Written(x) /\ x.entry = EntryAfter(x.row, x.new, x.req)
    BY <1>2, <1>4 DEF Written, entry
  <1>7. Consistent(c)'
    BY <1>2, <1>4, <1>5, <1>6 DEF Consistent, Written
  <1>8. \A t \in Task : lock'[t] = c => x # NoTx /\ x.phase # "begun" /\ x.task = t
    BY <1>4, <1>5, ServiceAssumption DEF ServiceInv, LocksHaveOwners
  <1> QED
    BY <1>1, <1>4, <1>5, <1>7, <1>8, LocalStep

(* Every way a transaction can end without a commit releases only its own  *)
(* lock.                                                                   *)
LEMMA RollbackKeepsInv ==
  ASSUME ServiceInv, NEW c \in Conn, Rollback(c)
  PROVE  ServiceInv'
  <1>1. /\ lock' = [t \in Task |-> IF lock[t] = c THEN NoConn ELSE lock[t]]
        /\ tx' = [tx EXCEPT ![c] = NoTx]
        /\ UNCHANGED <<tables, pending>> /\ clock' \in Nat
    BY DEF Rollback, Unlocked, ServiceInv, TypeOK
  <1>2. /\ lock' \in [Task -> Conn \cup {NoConn}]
        /\ \A t \in Task, d \in Conn \ {c} : lock[t] = d <=> lock'[t] = d
        /\ \A t \in Task : lock'[t] # c
    BY <1>1, ServiceAssumption DEF ServiceInv, TypeOK
  <1>3. Consistent(c)'
    BY <1>1 DEF Consistent, ServiceInv, TypeOK
  <1> QED
    BY <1>1, <1>2, <1>3, LocalStep

(* A commit changes one row, which no other transaction has locked, so what *)
(* the others read is still committed.                                      *)
LEMMA CommitKeepsInv ==
  ASSUME ServiceInv, NEW c \in Conn, Commit(c)
  PROVE  ServiceInv'
  <1> DEFINE x == tx[c]
             t == x.task
  <1>1. x # NoTx /\ x \in Tx /\ x.phase = "appended"
    BY DEF Commit, InPhase, ServiceInv, TypeOK
  <1>2. /\ t \in Task /\ lock[t] = c /\ Written(x)
        /\ x.entry = EntryAfter(x.row, x.new, x.req)
    BY <1>1 DEF ServiceInv, Consistent
  <1>3. x.new \in Row /\ x.entry \in Entry /\ x.at \in Nat /\ EventOf(x) \in Event
    BY <1>1, <1>2, WrittenRow, WrittenEntry, EventType DEF Tx
  <1>4. /\ tasks' = [tasks EXCEPT ![t] = x.new]
        /\ history' = [history EXCEPT ![t] = Append(history[t], x.entry)]
        /\ updatedAt' = [updatedAt EXCEPT ![t] = x.at]
        /\ createdAt' = [createdAt EXCEPT ![t] = Append(createdAt[t], x.at)]
        /\ pending' = pending \cup {EventOf(x)}
        /\ lock' = [s \in Task |-> IF lock[s] = c THEN NoConn ELSE lock[s]]
        /\ tx' = [tx EXCEPT ![c] = NoTx]
        /\ clock' = clock
    BY DEF Commit, Unlocked, StampAfter
  <1> DEFINE e == EventOf(x)
  <1> HIDE DEF x, t, e
  <1>5. TypeOK'
    <2>1. /\ tasks' \in [Task -> Row \cup {NoRow}]
          /\ updatedAt' \in [Task -> Nat]
          /\ lock' \in [Task -> Conn \cup {NoConn}]
          /\ tx' \in [Conn -> Tx \cup {NoTx}]
          /\ clock' \in Nat
      BY <1>2, <1>3, <1>4 DEF ServiceInv, TypeOK
    <2>2. history' \in [Task -> Seq(Entry)]
      BY <1>2, <1>3, <1>4 DEF ServiceInv, TypeOK
    <2>3. createdAt' \in [Task -> Seq(Nat)]
      BY <1>2, <1>3, <1>4 DEF ServiceInv, TypeOK
    <2>4. pending' \in SUBSET Event
      BY <1>3, <1>4 DEF ServiceInv, TypeOK, e
    <2> QED
      BY <2>1, <2>2, <2>3, <2>4 DEF TypeOK
  <1>6. ASSUME NEW d \in Conn \ {c} PROVE Consistent(d)'
    <2>1. tx'[d] = tx[d]
      BY <1>4 DEF ServiceInv, TypeOK
    <2>2. Consistent(d)
      BY DEF ServiceInv
    <2>3. \A s \in Task : lock[s] = d => lock'[s] = d /\ tasks'[s] = tasks[s]
      BY <1>2, <1>4 DEF ServiceInv, TypeOK
    <2>4. \A s \in Task : tasks[s] # NoRow => tasks'[s] # NoRow
      BY <1>2, <1>3, <1>4, NoRowAssumption DEF ServiceInv, TypeOK
    <2> QED
      BY <2>1, <2>2, <2>3, <2>4 DEF Consistent, Written
  <1>7. Consistent(c)'
    BY <1>4 DEF Consistent, ServiceInv, TypeOK
  <1>8. LocksHaveOwners'
    <2> SUFFICES ASSUME NEW s \in Task, lock'[s] # NoConn
                 PROVE  /\ tx'[lock'[s]] # NoTx /\ tx'[lock'[s]].phase # "begun"
                        /\ tx'[lock'[s]].task = s
      BY DEF LocksHaveOwners
    <2>1. lock'[s] = lock[s] /\ lock[s] \in Conn \ {c}
      BY <1>4 DEF ServiceInv, TypeOK
    <2>2. tx'[lock[s]] = tx[lock[s]]
      BY <1>4, <2>1 DEF ServiceInv, TypeOK
    <2> QED
      BY <2>1, <2>2, ServiceAssumption DEF ServiceInv, LocksHaveOwners
  <1>9. StampsAgree'
    <2> SUFFICES ASSUME NEW s \in Task
                 PROVE  /\ Len(createdAt'[s]) = Len(history'[s])
                        /\ tasks'[s] # NoRow =>
                              /\ Len(createdAt'[s]) > 0
                              /\ updatedAt'[s] = createdAt'[s][Len(createdAt'[s])]
      BY DEF StampsAgree
    <2>1. /\ history[s] \in Seq(Entry) /\ createdAt[s] \in Seq(Nat)
          /\ Len(createdAt[s]) = Len(history[s])
      BY DEF ServiceInv, TypeOK, StampsAgree
    <2>2. CASE s = t
      <3>1. /\ history'[s] = Append(history[s], x.entry)
            /\ createdAt'[s] = Append(createdAt[s], x.at)
            /\ updatedAt'[s] = x.at
        BY <1>2, <1>4, <2>2 DEF ServiceInv, TypeOK
      <3> QED
        BY <1>3, <2>1, <3>1
    <2>3. CASE s # t
      <3>1. /\ history'[s] = history[s] /\ createdAt'[s] = createdAt[s]
            /\ updatedAt'[s] = updatedAt[s] /\ tasks'[s] = tasks[s]
        BY <1>2, <1>4, <2>3 DEF ServiceInv, TypeOK
      <3> QED
        BY <3>1 DEF ServiceInv, StampsAgree
    <2> QED
      BY <2>2, <2>3
  <1> QED
    BY <1>5, <1>6, <1>7, <1>8, <1>9 DEF ServiceInv

LEMMA PublishKeepsInv ==
  ASSUME ServiceInv, NEW e \in pending, Publish(e)
  PROVE  ServiceInv'
  <1>1. TypeOK'
    BY DEF Publish, ServiceInv, TypeOK, tables
  <1>2. ASSUME NEW c \in Conn PROVE Consistent(c)'
    BY DEF Publish, ServiceInv, Consistent, Written, tables
  <1>3. LocksHaveOwners' /\ StampsAgree'
    BY DEF Publish, ServiceInv, LocksHaveOwners, StampsAgree, tables
  <1> QED
    BY <1>1, <1>2, <1>3 DEF ServiceInv

LEMMA ServiceInvInit == Init => ServiceInv
  <1> SUFFICES ASSUME Init PROVE ServiceInv
    OBVIOUS
  <1>1. TypeOK
    BY DEF Init, TypeOK
  <1>2. \A c \in Conn : Consistent(c)
    BY DEF Init, Consistent
  <1>3. LocksHaveOwners /\ StampsAgree
    BY DEF Init, LocksHaveOwners, StampsAgree
  <1> QED
    BY <1>1, <1>2, <1>3 DEF ServiceInv

LEMMA ServiceInvStep == ServiceInv /\ [Next]_vars => ServiceInv'
  <1> SUFFICES ASSUME ServiceInv, [Next]_vars PROVE ServiceInv'
    OBVIOUS
  <1>1. CASE UNCHANGED vars
    BY <1>1 DEF vars, tables, ServiceInv, TypeOK, Consistent, Written,
                LocksHaveOwners, StampsAgree
  <1>2. ASSUME NEW c \in Conn, Begin(c) PROVE ServiceInv'
    BY <1>2, BeginKeepsInv
  <1>3. ASSUME NEW c \in Conn, Progress(c) PROVE ServiceInv'
    <2>1. CASE InsertRow(c)
      BY <2>1, InsertRowKeepsInv
    <2>2. CASE LockRow(c)
      BY <2>2, LockRowKeepsInv
    <2>3. CASE WriteRow(c)
      BY <2>3, WriteRowKeepsInv
    <2>4. CASE AppendHistory(c)
      BY <2>4, AppendHistoryKeepsInv
    <2>5. CASE Commit(c)
      BY <2>5, CommitKeepsInv
    <2>6. CASE Reject(c) \/ LockTimeout(c)
      BY <2>6, RollbackKeepsInv DEF Reject, LockTimeout
    <2> QED
      BY <1>3, <2>1, <2>2, <2>3, <2>4, <2>5, <2>6 DEF Progress
  <1>4. ASSUME NEW c \in Conn, Abort(c) PROVE ServiceInv'
    BY <1>4, RollbackKeepsInv DEF Abort
  <1>5. ASSUME NEW e \in pending, Publish(e) PROVE ServiceInv'
    BY <1>5, PublishKeepsInv
  <1> QED
    BY <1>1, <1>2, <1>3, <1>4, <1>5 DEF Next

(* At every moment of every behaviour, with any number of connections and   *)
(* any interleaving, failure or timeout, what each open transaction has     *)
(* read, locked and written fits the committed data.                        *)
THEOREM ServiceInvariant == Spec => []ServiceInv
  BY ServiceInvInit, ServiceInvStep, PTL DEF Spec

THEOREM ServiceTypeOK == Spec => []TypeOK
  <1>1. ServiceInv => TypeOK
    BY DEF ServiceInv
  <1> QED
    BY <1>1, ServiceInvariant, PTL

(* No lost update: a transaction past its begin always finds the row it     *)
(* read and checked still committed.                                        *)
THEOREM ServiceLockedRowIsCurrent == Spec => []LockedRowIsCurrent
  <1>1. ServiceInv => LockedRowIsCurrent
    BY DEF ServiceInv, Consistent, LockedRowIsCurrent
  <1> QED
    BY <1>1, ServiceInvariant, PTL

(* A commit finds the row it is about to replace open: what it read under   *)
(* the lock is still committed, and the checks refuse a closed row.         *)
LEMMA CommitFindsOpen ==
  ASSUME ServiceInv, NEW c \in Conn, Commit(c), NEW t \in Task,
         tasks[t] # NoRow, tasks[t].isClosed
  PROVE  UNCHANGED <<tasks[t], history[t], updatedAt[t], createdAt[t]>>
<1>1. PICK x : x = tx[c]
  OBVIOUS
<1>2. x # NoTx /\ x.phase = "appended" /\ x.task \in Task /\ tasks[x.task] = x.row /\ Written(x)
  BY <1>1 DEF Commit, InPhase, ServiceInv, Consistent
<1>3. x.row = NoRow \/ ~x.row.isClosed
  BY <1>2 DEF Written, Accepted, CloseAccepted, ChangeAccepted
<1>4. t # x.task
  BY <1>2, <1>3
<1> QED
  BY <1>1, <1>4 DEF Commit, ServiceInv, TypeOK

(* A closed task stays as it is, whatever was under way when it was closed. *)
THEOREM ServiceClosedForever == Spec => ClosedForever
<1>1. ServiceInv /\ [Next]_vars =>
         [\A t \in Task : (tasks[t] # NoRow /\ tasks[t].isClosed) =>
            /\ tasks'[t] = tasks[t] /\ history'[t] = history[t]
            /\ updatedAt'[t] = updatedAt[t] /\ createdAt'[t] = createdAt[t]]_vars
  <2> SUFFICES ASSUME ServiceInv, Next, NEW t \in Task, tasks[t] # NoRow, tasks[t].isClosed
               PROVE  UNCHANGED <<tasks[t], history[t], updatedAt[t], createdAt[t]>>
    OBVIOUS
  <2>1. ASSUME NEW c \in Conn, Commit(c)
        PROVE  UNCHANGED <<tasks[t], history[t], updatedAt[t], createdAt[t]>>
    BY <2>1, CommitFindsOpen
  <2>2. ASSUME NEW c \in Conn, Begin(c) \/ InsertRow(c) \/ LockRow(c) \/ WriteRow(c)
                               \/ AppendHistory(c) \/ Reject(c) \/ LockTimeout(c) \/ Abort(c)
        PROVE  UNCHANGED tables
    BY <2>2 DEF Begin, InsertRow, LockRow, WriteRow, AppendHistory, Reject, LockTimeout,
                Abort, Rollback
  <2>3. ASSUME NEW e \in pending, Publish(e)
        PROVE  UNCHANGED tables
    BY <2>3 DEF Publish
  <2> QED
    BY <2>1, <2>2, <2>3 DEF Next, Progress, tables
<1> QED
  BY <1>1, ServiceInvariant, PTL DEF Spec, ClosedForever

----------------------------------------------------------------------------
(* The commit of a transaction is the abstract step of its request; every   *)
(* other step leaves the committed rows and their trails alone.             *)

(* The instance's operators on data are those of this module. *)
LEMMA SameData ==
  /\ Lifecycle!FieldMap = FieldMap
  /\ Lifecycle!NoFields = NoFields
  /\ Lifecycle!Null = Null
  /\ \A ty, u : Lifecycle!NewRow(ty, u) = NewRow(ty, u)
  /\ \A row : Lifecycle!ClosedRow(row) = ClosedRow(row)
  /\ \A row, s, u, m : Lifecycle!MovedRow(row, s, u, m) = MovedRow(row, s, u, m)
  /\ \A from, to, u, m : Lifecycle!AuditEntry(from, to, u, m) = AuditEntry(from, to, u, m)
  <1>1. Lifecycle!FieldMap = FieldMap
    BY DEF FieldMap, Lifecycle!FieldMap
  <1>2. Lifecycle!NoFields = NoFields /\ Lifecycle!Null = Null
    BY DEF NoFields, Lifecycle!NoFields, Null, Lifecycle!Null
  <1>3. \A ty, u : Lifecycle!NewRow(ty, u) = NewRow(ty, u)
    BY <1>2 DEF NewRow, Lifecycle!NewRow
  <1>4. \A row : Lifecycle!ClosedRow(row) = ClosedRow(row)
    BY DEF ClosedRow, Lifecycle!ClosedRow
  <1>5. \A row, s, u, m : Lifecycle!MovedRow(row, s, u, m) = MovedRow(row, s, u, m)
    BY DEF MovedRow, Lifecycle!MovedRow, Merge, Lifecycle!Merge
  <1>6. \A from, to, u, m : Lifecycle!AuditEntry(from, to, u, m) = AuditEntry(from, to, u, m)
    BY DEF AuditEntry, Lifecycle!AuditEntry
  <1> QED
    BY <1>1, <1>2, <1>3, <1>4, <1>5, <1>6

LEMMA CommitWrites ==
  ASSUME ServiceInv, NEW c \in Conn, Commit(c)
  PROVE  /\ tx[c] \in Tx /\ tx[c].task \in Task /\ Written(tx[c])
         /\ tasks[tx[c].task] = tx[c].row
         /\ Lifecycle!Record(tx[c].task, tx[c].new,
                             EntryAfter(tx[c].row, tx[c].new, tx[c].req))
  <1>1. tx[c] # NoTx /\ tx[c] \in Tx /\ tx[c].phase = "appended" /\ Consistent(c)
    BY DEF Commit, InPhase, ServiceInv, TypeOK
  <1>2. /\ tx[c].task \in Task /\ Written(tx[c]) /\ tasks[tx[c].task] = tx[c].row
        /\ tx[c].entry = EntryAfter(tx[c].row, tx[c].new, tx[c].req)
    BY <1>1 DEF Consistent
  <1> QED
    BY <1>1, <1>2 DEF Commit, Lifecycle!Record

LEMMA CommitCreates ==
  ASSUME ServiceInv, NEW c \in Conn, Commit(c), tx[c].req.op = "create"
  PROVE  Lifecycle!Next
  <1> DEFINE x == tx[c]
             q == x.req
  <1>1. /\ x.task \in Task /\ tasks[x.task] = x.row /\ Written(x)
        /\ Lifecycle!Record(x.task, x.new, EntryAfter(x.row, x.new, q))
    BY CommitWrites
  <1>2. /\ x.row = NoRow /\ q.type \in Type /\ q.next \in User
        /\ x.new = NewRow(q.type, q.next)
    BY <1>1 DEF Written, CreateAccepted
  <1>3. EntryAfter(x.row, x.new, q) = AuditEntry(Null, 1, q.next, NoFields)
    <2>1. /\ x.new.status = 1
          /\ x.new.assignee = q.next
          /\ x.new.fields = NoFields
      BY <1>2 DEF NewRow
    <2> QED
      BY <2>1 DEF EntryAfter
  <1>4. Lifecycle!Create(x.task, q.type, q.next)
    BY <1>1, <1>2, <1>3, SameData DEF Lifecycle!Create, Lifecycle!Record
  <1> QED
    BY <1>1, <1>2, <1>4 DEF Lifecycle!Next

LEMMA CommitCloses ==
  ASSUME ServiceInv, NEW c \in Conn, Commit(c), tx[c].req.op = "close"
  PROVE  Lifecycle!Next
  <1> DEFINE x == tx[c]
             q == x.req
  <1>1. /\ x.task \in Task /\ tasks[x.task] = x.row /\ Written(x)
        /\ Lifecycle!Record(x.task, x.new, EntryAfter(x.row, x.new, q))
    BY CommitWrites
  <1>2. x.row \in Row /\ CloseAccepted(x.row) /\ x.new = ClosedRow(x.row)
    BY <1>1 DEF Written, Accepted, RowAfter
  <1>3. EntryAfter(x.row, x.new, q) =
          AuditEntry(x.row.status, Null, x.row.assignee, NoFields)
    BY <1>2, ClosedRowFields DEF EntryAfter
  <1>4. Lifecycle!Open(x.task) /\ x.row.status = FinalStatus[x.row.type]
    BY <1>1, <1>2, NoRowAssumption DEF CloseAccepted, Lifecycle!Open
  <1>5. Lifecycle!Close(x.task)
    BY <1>1, <1>2, <1>3, <1>4, SameData DEF Lifecycle!Close, Lifecycle!Record
  <1> QED
    BY <1>1, <1>5 DEF Lifecycle!Next

LEMMA CommitMoves ==
  ASSUME ServiceInv, NEW c \in Conn, Commit(c), tx[c].req.op \in {"forward", "backward"}
  PROVE  Lifecycle!Next
  <1> DEFINE x == tx[c]
             q == x.req
             s == Target(x.row, q)
             sent == Sanitized(q)
  <1>1. /\ x.task \in Task /\ tasks[x.task] = x.row /\ Written(x) /\ q \in Requests
        /\ Lifecycle!Record(x.task, x.new, EntryAfter(x.row, x.new, q))
    BY CommitWrites DEF Tx
  <1>2. x.row \in Row /\ ChangeAccepted(x.row, q) /\ x.new = MovedRow(x.row, s, q.next, sent)
    BY <1>1 DEF Written, Accepted, RowAfter
  <1>3. /\ s \in Status /\ q.next \in User /\ sent \in FieldMap
        /\ q.op = "forward" => DOMAIN sent = Required[x.row.type][s]
    BY <1>1, <1>2, AcceptedChange
  <1>4. x.new.status = s /\ x.new.assignee = q.next
    BY <1>2, <1>3, MovedRowFields
  <1>5. EntryAfter(x.row, x.new, q) = AuditEntry(x.row.status, s, q.next, sent)
    BY <1>4 DEF EntryAfter
  <1>6. Lifecycle!Open(x.task)
    BY <1>1, <1>2, NoRowAssumption DEF ChangeAccepted, Lifecycle!Open
  <1>7. Lifecycle!Moved(x.task, s, q.next, sent)
    BY <1>1, <1>2, <1>5, SameData DEF Lifecycle!Moved, Lifecycle!Record
  <1>8. x.row.status \in Nat /\ FinalStatus[x.row.type] \in Nat
    BY <1>2, RegistryAssumption DEF Row, Status
  <1>9. CASE q.op = "forward"
    <2>1. s = x.row.status + 1 /\ x.row.status < FinalStatus[x.row.type]
      BY <1>2, <1>8, <1>9 DEF ChangeAccepted, InTransitionRange, Target
    <2>2. Lifecycle!Advance(x.task, q.next, sent)
      BY <1>1, <1>3, <1>6, <1>7, <1>9, <2>1 DEF Lifecycle!Advance, Lifecycle!Moved
    <2> QED
      BY <1>1, <1>3, <2>2, SameData DEF Lifecycle!Next
  <1>10. CASE q.op = "backward"
    <2>1. s = x.row.status - 1 /\ x.row.status > 1 /\ sent = NoFields
      BY <1>2, <1>8, <1>10 DEF ChangeAccepted, InTransitionRange, Target, Sanitized
    <2>2. Lifecycle!Reverse(x.task, q.next)
      BY <1>1, <1>6, <1>7, <2>1, SameData DEF Lifecycle!Reverse, Lifecycle!Moved
    <2> QED
      BY <1>1, <1>3, <2>2, SameData DEF Lifecycle!Next
  <1> QED
    BY <1>9, <1>10

LEMMA StepSimulates ==
  ServiceInv /\ [Next]_vars => [Lifecycle!Next]_(Lifecycle!vars)
  <1> SUFFICES ASSUME ServiceInv, [Next]_vars
               PROVE  Lifecycle!Next \/ UNCHANGED <<tasks, history>>
    BY DEF Lifecycle!vars
  <1>1. CASE UNCHANGED vars
    BY <1>1 DEF vars, tables
  <1>2. ASSUME NEW c \in Conn, Commit(c) PROVE Lifecycle!Next
    <2>1. tx[c].req \in Requests
      BY <1>2, CommitWrites DEF Tx
    <2> QED
      BY <1>2, <2>1, RequestShape, CommitCreates, CommitCloses, CommitMoves
  <1>3. ASSUME NEW c \in Conn, Begin(c) \/ (Progress(c) /\ ~Commit(c)) \/ Abort(c)
        PROVE  UNCHANGED <<tasks, history>>
    BY <1>3 DEF Begin, Progress, InsertRow, LockRow, WriteRow, AppendHistory,
                Reject, LockTimeout, Abort, Rollback, tables
  <1>4. ASSUME NEW e \in pending, Publish(e) PROVE UNCHANGED <<tasks, history>>
    BY <1>4 DEF Publish, tables
  <1> QED
    BY <1>1, <1>2, <1>3, <1>4 DEF Next

(* The transactions of the service, seen through committed data, implement  *)
(* the abstract task lifecycle.                                             *)
THEOREM ServiceImplementsLifecycle == Spec => ImplementsLifecycle
  <1>1. Init => Lifecycle!Init
    BY DEF Init, Lifecycle!Init
  <1> QED
    BY <1>1, StepSimulates, ServiceInvariant, PTL
    DEF Spec, ImplementsLifecycle, Lifecycle!Spec

----------------------------------------------------------------------------
(* Events.  The trail of a task that is not there is empty, and the last    *)
(* entry of one that is names its holder: so the event of a commit, made    *)
(* from the row read and the row written, says what the entry before and    *)
(* the entry appended say.                                                  *)
HolderInTrail ==
    \A t \in Task :
        IF tasks[t] = NoRow
        THEN history[t] = <<>>
        ELSE /\ Len(history[t]) > 0
             /\ history[t][Len(history[t])].assignee = tasks[t].assignee

EventInv == HolderInTrail /\ EventsMatchTrail

(* The trail of one task before and after an entry is appended. *)
LEMMA CommitTrail ==
  ASSUME ServiceInv, NEW c \in Conn, Commit(c)
  PROVE  LET x == tx[c]
             t == x.task
             n == Len(history[t]) + 1
         IN  /\ n \in Nat \ {0}
             /\ DOMAIN history[t] = 1..(n - 1) /\ DOMAIN history'[t] = 1..n
             /\ Len(history'[t]) = n
             /\ history'[t][n] = EntryAfter(x.row, x.new, x.req)
             /\ \A i \in 1..(n - 1) : history'[t][i] = history[t][i]
             /\ createdAt'[t][n] = x.at
             /\ \A i \in 1..(n - 1) : createdAt'[t][i] = createdAt[t][i]
             /\ tasks'[t] = x.new
             /\ \A s \in Task \ {t} : /\ history'[s] = history[s]
                                      /\ createdAt'[s] = createdAt[s]
                                      /\ tasks'[s] = tasks[s]
             /\ pending' = pending \cup {EventOf(x)}
  <1> DEFINE x == tx[c]
             t == x.task
             n == Len(history[t]) + 1
             entry == EntryAfter(x.row, x.new, x.req)
  <1>1. x \in Tx /\ t \in Task /\ Written(x) /\ x.entry = entry
    BY DEF Commit, InPhase, ServiceInv, TypeOK, Consistent
  <1>2. entry \in Entry /\ x.at \in Nat
    BY <1>1, WrittenEntry DEF Tx
  <1>3. /\ tasks' = [tasks EXCEPT ![t] = x.new]
        /\ history' = [history EXCEPT ![t] = Append(history[t], entry)]
        /\ createdAt' = [createdAt EXCEPT ![t] = Append(createdAt[t], x.at)]
        /\ pending' = pending \cup {EventOf(x)}
    BY <1>1 DEF Commit
  <1>4. /\ history[t] \in Seq(Entry) /\ createdAt[t] \in Seq(Nat)
        /\ Len(createdAt[t]) = Len(history[t])
    BY <1>1 DEF ServiceInv, TypeOK, StampsAgree
  <1> HIDE DEF x, t, entry
  <1>5. /\ history'[t] = Append(history[t], entry)
        /\ createdAt'[t] = Append(createdAt[t], x.at)
        /\ tasks'[t] = x.new
        /\ \A s \in Task \ {t} : /\ history'[s] = history[s]
                                 /\ createdAt'[s] = createdAt[s]
                                 /\ tasks'[s] = tasks[s]
    BY <1>1, <1>3 DEF ServiceInv, TypeOK
  <1>6. /\ n \in Nat \ {0} /\ n - 1 = Len(history[t])
        /\ DOMAIN history[t] = 1..(n - 1)
        /\ DOMAIN history'[t] = 1..n
        /\ Len(history'[t]) = n
        /\ history'[t][n] = entry
        /\ \A i \in 1..(n - 1) : history'[t][i] = history[t][i]
    <2>1. Len(history[t]) \in Nat
      BY <1>4
    <2>2. n - 1 = Len(history[t])
      BY <2>1
    <2> QED
      BY <1>2, <1>4, <1>5, <2>1, <2>2, AppendEntry
  <1>7. /\ createdAt'[t][n] = x.at
        /\ \A i \in 1..(n - 1) : createdAt'[t][i] = createdAt[t][i]
    <2>1. Len(createdAt[t]) = n - 1
      BY <1>4, <1>6
    <2> QED
      BY <1>2, <1>4, <1>5, <2>1
  <1> HIDE DEF n
  <1>8. /\ n \in Nat \ {0}
        /\ DOMAIN history[t] = 1..(n - 1) /\ DOMAIN history'[t] = 1..n
        /\ Len(history'[t]) = n
        /\ history'[t][n] = entry
        /\ \A i \in 1..(n - 1) : history'[t][i] = history[t][i]
        /\ createdAt'[t][n] = x.at
        /\ \A i \in 1..(n - 1) : createdAt'[t][i] = createdAt[t][i]
        /\ tasks'[t] = x.new
        /\ \A s \in Task \ {t} : /\ history'[s] = history[s]
                                 /\ createdAt'[s] = createdAt[s]
                                 /\ tasks'[s] = tasks[s]
        /\ pending' = pending \cup {EventOf(x)}
    BY <1>3, <1>5, <1>6, <1>7
  <1> QED
    BY <1>8 DEF x, t, n, entry

(* What the entry appended says beside the row that was written, and the    *)
(* event beside both.                                                       *)
LEMMA EntryAndEvent ==
  ASSUME NEW x \in Tx, Written(x)
  PROVE  LET entry == EntryAfter(x.row, x.new, x.req)
             e == EventOf(x)
         IN  /\ entry.assignee = x.new.assignee
             /\ e.task = x.task /\ e.row = x.new /\ e.updatedAt = x.at
             /\ x.row = NoRow <=> x.req.op = "create"
             /\ x.req.op = "create" =>
                   /\ e.name = "task:created" /\ x.new.status = entry.to
                   /\ e.users = {entry.assignee}
             /\ x.req.op = "close" =>
                   /\ e.name = "task:closed" /\ entry.to = Null /\ x.new.isClosed
                   /\ e.users = {entry.assignee}
                   /\ x.row.assignee = entry.assignee
             /\ x.req.op \in {"forward", "backward"} =>
                   /\ e.name = "task:updated" /\ entry.to # Null
                   /\ x.new.status = entry.to
                   /\ e.users = {entry.assignee, x.row.assignee}
  <1> DEFINE entry == EntryAfter(x.row, x.new, x.req)
             e == EventOf(x)
  <1>1. x.req \in Requests /\ x.new \in Row
    BY WrittenRow DEF Tx
  <1>2. e.task = x.task /\ e.row = x.new /\ e.updatedAt = x.at
        /\ e.name = EventName(x.req) /\ e.users = TargetUsers(x)
    BY DEF EventOf
  <1>3. x.row = NoRow <=> x.req.op = "create"
    BY NoRowAssumption DEF Written
  <1>4. CASE x.req.op = "create"
    <2>1. entry = AuditEntry(Null, x.new.status, x.new.assignee, x.new.fields)
      BY <1>4 DEF EntryAfter
    <2>2. entry.assignee = x.new.assignee /\ entry.to = x.new.status
      BY <2>1 DEF AuditEntry
    <2>3. e.name = "task:created" /\ e.users = {x.new.assignee}
      BY <1>2, <1>4 DEF EventName, TargetUsers
    <2> QED
      BY <1>2, <1>3, <1>4, <2>2, <2>3
  <1>5. CASE x.req.op = "close"
    <2>1. x.row \in Row /\ x.new = ClosedRow(x.row)
      BY <1>5 DEF Written, RowAfter
    <2>2. x.new.isClosed /\ x.new.assignee = x.row.assignee
      BY <2>1, ClosedRowFields
    <2>3. entry = AuditEntry(x.new.status, Null, x.new.assignee, NoFields)
      BY <1>5 DEF EntryAfter
    <2>4. entry.assignee = x.new.assignee /\ entry.to = Null
      BY <2>3 DEF AuditEntry
    <2>5. e.name = "task:closed" /\ e.users = {x.new.assignee}
      BY <1>2, <1>5 DEF EventName, TargetUsers
    <2> QED
      BY <1>2, <1>3, <1>5, <2>2, <2>4, <2>5
  <1>6. CASE x.req.op \in {"forward", "backward"}
    <2>1. entry = AuditEntry(x.row.status, x.new.status, x.new.assignee, Sanitized(x.req))
      BY <1>6 DEF EntryAfter
    <2>2. entry.assignee = x.new.assignee /\ entry.to = x.new.status
      BY <2>1 DEF AuditEntry
    <2>3. x.new.status # Null
      BY <1>1 DEF Row, Status, Null
    <2>4. e.name = "task:updated" /\ e.users = {x.new.assignee, x.row.assignee}
      BY <1>2, <1>6 DEF EventName, TargetUsers
    <2> QED
      BY <1>2, <1>3, <1>6, <2>2, <2>3, <2>4
  <1> QED
    BY <1>1, <1>4, <1>5, <1>6, RequestShape

(* The commit appends the entry its own event announces. *)
LEMMA CommitAnnounced ==
  ASSUME ServiceInv, HolderInTrail, NEW c \in Conn, Commit(c),
         NEW e, e = EventOf(tx[c]),
         NEW n, n = Len(history[tx[c].task]) + 1
  PROVE  n \in DOMAIN history'[e.task] /\ Announces(e, n)'
  <1> DEFINE x == tx[c]
             t == x.task
             entry == EntryAfter(x.row, x.new, x.req)
  <1>1. x \in Tx /\ t \in Task /\ Written(x) /\ tasks[t] = x.row
    BY CommitWrites
  <1>2. /\ n \in Nat \ {0} /\ DOMAIN history'[t] = 1..n
        /\ history'[t][n] = entry
        /\ \A i \in 1..(n - 1) : history'[t][i] = history[t][i]
        /\ createdAt'[t][n] = x.at
    BY CommitTrail
  <1>3. /\ entry.assignee = x.new.assignee
        /\ e.task = t /\ e.row = x.new /\ e.updatedAt = x.at
        /\ x.row = NoRow <=> x.req.op = "create"
        /\ x.req.op = "create" =>
              /\ e.name = "task:created" /\ x.new.status = entry.to
              /\ e.users = {entry.assignee}
        /\ x.req.op = "close" =>
              /\ e.name = "task:closed" /\ entry.to = Null /\ x.new.isClosed
              /\ e.users = {entry.assignee}
              /\ x.row.assignee = entry.assignee
        /\ x.req.op \in {"forward", "backward"} =>
              /\ e.name = "task:updated" /\ entry.to # Null
              /\ x.new.status = entry.to
              /\ e.users = {entry.assignee, x.row.assignee}
    BY <1>1, EntryAndEvent
  <1>4. x.req.op \in {"create", "forward", "backward", "close"}
    BY <1>1, RequestShape DEF Tx
  <1>5. IF x.row = NoRow THEN n = 1
        ELSE n > 1 /\ history[t][n - 1].assignee = x.row.assignee
    BY <1>1, <1>2 DEF HolderInTrail
  <1> HIDE DEF x, t, entry
  <1>6. /\ createdAt'[e.task][n] = e.updatedAt
        /\ e.row.assignee = history'[e.task][n].assignee
        /\ e.name = IF n = 1 THEN "task:created"
                    ELSE IF history'[e.task][n].to = Null
                         THEN "task:closed" ELSE "task:updated"
        /\ IF e.name = "task:closed" THEN e.row.isClosed
           ELSE e.row.status = history'[e.task][n].to
    BY <1>2, <1>3, <1>4, <1>5
  <1>7. e.users = {history'[e.task][j].assignee : j \in {n - 1, n} \ {0}}
    <2>1. CASE x.req.op = "create"
      <3>1. {n - 1, n} \ {0} = {n}
        BY <1>3, <1>5, <2>1
      <3> QED
        BY <1>2, <1>3, <2>1, <3>1
    <2>2. CASE x.req.op # "create"
      <3>1. n - 1 \in 1..(n - 1) /\ {n - 1, n} \ {0} = {n - 1, n}
        BY <1>2, <1>3, <1>5, <2>2
      <3>2. history'[t][n - 1].assignee = x.row.assignee
        BY SMTT(60), <1>2, <1>3, <1>5, <2>2, <3>1
      <3>3. {history'[e.task][j].assignee : j \in {n - 1, n} \ {0}} =
              {x.row.assignee, entry.assignee}
        <4>1. {history'[t][j].assignee : j \in {n - 1, n}} =
                {history'[t][n - 1].assignee, history'[t][n].assignee}
          OBVIOUS
        <4>2. {n - 1, n} \ {0} = {n - 1, n} /\ e.task = t
          BY <1>3, <3>1
        <4>3. {history'[e.task][j].assignee : j \in {n - 1, n} \ {0}} =
                {history'[t][j].assignee : j \in {n - 1, n}}
          BY <4>2
        <4>4. history'[t][n].assignee = entry.assignee
          BY <1>2
        <4> QED
          BY <3>2, <4>1, <4>3, <4>4
      <3> QED
        BY <1>3, <1>4, <2>2, <3>3
    <2> QED
      BY <2>1, <2>2
  <1>8. n \in DOMAIN history'[e.task]
    BY SMTT(60), <1>2, <1>3
  <1>9. Announces(e, n)'
    BY <1>6, <1>7 DEF Announces
  <1> QED
    BY <1>8, <1>9

(* What an event announces stays in the trail, which only grows.            *)
LEMMA CommitKeepsAnnounced ==
  ASSUME ServiceInv, NEW c \in Conn, Commit(c),
         NEW e \in pending, NEW i \in DOMAIN history[e.task], Announces(e, i)
  PROVE  i \in DOMAIN history'[e.task] /\ Announces(e, i)'
  <1> DEFINE t == tx[c].task
             n == Len(history[t]) + 1
  <1>1. e.task \in Task
    BY DEF ServiceInv, TypeOK, Event
  <1>2. CASE e.task # t
    <2>1. history'[e.task] = history[e.task] /\ createdAt'[e.task] = createdAt[e.task]
      BY <1>1, <1>2, CommitTrail
    <2> QED
      BY <2>1 DEF Announces
  <1>3. CASE e.task = t
    <2>1. /\ n \in Nat \ {0}
          /\ DOMAIN history[t] = 1..(n - 1) /\ DOMAIN history'[t] = 1..n
          /\ \A j \in 1..(n - 1) : history'[t][j] = history[t][j]
          /\ \A j \in 1..(n - 1) : createdAt'[t][j] = createdAt[t][j]
      BY CommitTrail
    <2> HIDE DEF t, n
    <2>2. i \in 1..(n - 1) /\ i \in 1..n /\ {i - 1, i} \ {0} \subseteq 1..(n - 1)
      BY <1>3, <2>1
    <2>3. {history'[t][j].assignee : j \in {i - 1, i} \ {0}} =
            {history[t][j].assignee : j \in {i - 1, i} \ {0}}
      BY SMTT(60), <2>1, <2>2
    <2>4. history'[t][i] = history[t][i] /\ createdAt'[t][i] = createdAt[t][i]
      BY <2>1, <2>2
    <2> QED
      BY <1>3, <2>1, <2>2, <2>3, <2>4 DEF Announces
  <1> QED
    BY <1>2, <1>3

LEMMA EventInvStep == ServiceInv /\ EventInv /\ [Next]_vars => EventInv'
  <1> SUFFICES ASSUME ServiceInv, EventInv, [Next]_vars PROVE EventInv'
    OBVIOUS
  <1>1. ASSUME NEW c \in Conn, Commit(c) PROVE EventInv'
    <2> DEFINE x == tx[c]
               t == x.task
               n == Len(history[t]) + 1
    <2>1. x \in Tx /\ t \in Task /\ Written(x) /\ x.new \in Row
      BY <1>1, CommitWrites, WrittenRow
    <2>2. EntryAfter(x.row, x.new, x.req).assignee = x.new.assignee
      BY <2>1, EntryAndEvent
    <2>3. /\ n \in Nat \ {0} /\ Len(history'[t]) = n
          /\ history'[t][n].assignee = x.new.assignee /\ tasks'[t] = x.new
          /\ \A s \in Task \ {t} : history'[s] = history[s] /\ tasks'[s] = tasks[s]
          /\ pending' = pending \cup {EventOf(x)}
      BY <1>1, <2>2, CommitTrail
    <2> HIDE DEF x, t, n
    <2>4. HolderInTrail'
      BY <2>1, <2>3, NoRowAssumption DEF EventInv, HolderInTrail
    <2>5. ASSUME NEW e \in pending'
          PROVE  \E i \in DOMAIN history'[e.task] : Announces(e, i)'
      <3>1. CASE e = EventOf(x)
        BY <1>1, <3>1, CommitAnnounced DEF EventInv, x
      <3>2. CASE e \in pending
        BY <1>1, <3>2, CommitKeepsAnnounced DEF EventInv, EventsMatchTrail
      <3> QED
        BY <2>3, <2>5, <3>1, <3>2
    <2> QED
      BY <2>4, <2>5 DEF EventInv, EventsMatchTrail
  <1>2. CASE UNCHANGED tables /\ pending' \subseteq pending
    <2>1. HolderInTrail'
      BY <1>2 DEF EventInv, HolderInTrail, tables
    <2>2. EventsMatchTrail'
      BY <1>2 DEF EventInv, EventsMatchTrail, Announces, tables
    <2> QED
      BY <2>1, <2>2 DEF EventInv
  <1>3. ASSUME NEW c \in Conn, Begin(c) \/ (Progress(c) /\ ~Commit(c)) \/ Abort(c)
        PROVE  UNCHANGED tables /\ pending' \subseteq pending
    BY <1>3 DEF Begin, Progress, InsertRow, LockRow, WriteRow, AppendHistory,
                Reject, LockTimeout, Abort, Rollback
  <1>4. ASSUME NEW e \in pending, Publish(e)
        PROVE  UNCHANGED tables /\ pending' \subseteq pending
    BY <1>4 DEF Publish
  <1>5. CASE UNCHANGED vars
    BY <1>2, <1>5 DEF vars, tables
  <1> QED
    BY <1>1, <1>2, <1>3, <1>4, <1>5 DEF Next

(* Whatever interleaves between a commit and its publication, the event     *)
(* that goes out announces a step of the audit trail: the same kind, the    *)
(* same outcome and time, told to the holder before it and after it.        *)
THEOREM ServiceEventsMatchTrail == Spec => []EventsMatchTrail
  <1>1. Init => EventInv
    BY DEF Init, EventInv, HolderInTrail, EventsMatchTrail
  <1>2. EventInv => EventsMatchTrail
    BY DEF EventInv
  <1> QED
    BY <1>1, <1>2, EventInvStep, ServiceInvariant, PTL DEF Spec

----------------------------------------------------------------------------
(* What TaskLifecycle keeps, TaskService keeps about its committed data.    *)
LP == INSTANCE TaskLifecycleProofs WITH trail <- history

LEMMA SameLifecycle == Lifecycle!Spec => LP!Spec
<1>1. Lifecycle!Init => LP!Init
  BY SMTT(60) DEF Lifecycle!Init, LP!Init
<1>2. Lifecycle!Next => LP!Next
  BY DEF Lifecycle!Next, LP!Next, Lifecycle!Create, LP!Create,
         Lifecycle!Advance, LP!Advance, Lifecycle!Reverse, LP!Reverse,
         Lifecycle!Close, LP!Close, Lifecycle!Record, LP!Record,
         Lifecycle!Moved, LP!Moved, Lifecycle!Open, LP!Open,
         Lifecycle!NewRow, LP!NewRow, Lifecycle!MovedRow, LP!MovedRow,
         Lifecycle!Merge, LP!Merge, Lifecycle!ClosedRow, LP!ClosedRow,
         Lifecycle!AuditEntry, LP!AuditEntry, Lifecycle!FieldMap, LP!FieldMap,
         Lifecycle!NoFields, LP!NoFields, Lifecycle!Null, LP!Null
<1>3. [Lifecycle!Next]_(Lifecycle!vars) => [LP!Next]_(LP!vars)
  BY <1>2 DEF Lifecycle!vars, LP!vars
<1> QED
  BY <1>1, <1>3, PTL DEF Lifecycle!Spec, LP!Spec

(* Whatever the transactions of all instances interleave, a row and its     *)
(* audit trail never disagree (AuditTrail of TaskLifecycle).                *)
THEOREM ServiceAuditTrail == Spec => []Lifecycle!AuditTrail
<1>1. LP!Spec => []LP!AuditTrail
  BY LP!LifecycleAuditTrail, RegistryAssumption, NoRowAssumption
  DEF LP!Null, LP!Status, LP!FieldMap, LP!Row, Status, FieldMap, Row
<1>2. LP!AuditTrail => Lifecycle!AuditTrail
  BY DEF LP!AuditTrail, Lifecycle!AuditTrail, LP!TrailOf, Lifecycle!TrailOf,
         LP!ChainedFrom, Lifecycle!ChainedFrom, LP!DescribedBy,
         Lifecycle!DescribedBy, LP!Null, Lifecycle!Null
<1> QED
  BY <1>1, <1>2, SameLifecycle, ServiceImplementsLifecycle, PTL
  DEF ImplementsLifecycle

(* Replaying the snapshots of the committed audit entries rebuilds the      *)
(* custom fields of the committed row (FieldsReplay of TaskLifecycle).      *)
THEOREM ServiceFieldsReplay == Spec => []Lifecycle!FieldsReplay
<1>1. LP!Spec => []LP!FieldsReplay
  BY LP!LifecycleFieldsReplay, RegistryAssumption, NoRowAssumption
  DEF LP!Null, LP!Status, LP!FieldMap, LP!Row, Status, FieldMap, Row
<1>2. LP!FieldsReplay => Lifecycle!FieldsReplay
  BY DEF LP!FieldsReplay, Lifecycle!FieldsReplay, LP!Replays, Lifecycle!Replays,
         LP!LatestWith, Lifecycle!LatestWith
<1> QED
  BY <1>1, <1>2, SameLifecycle, ServiceImplementsLifecycle, PTL
  DEF ImplementsLifecycle

(* A committed row holds every field required on the way to its status      *)
(* (RequiredFieldsHeld of TaskLifecycle).                                   *)
THEOREM ServiceRequiredFields == Spec => []Lifecycle!RequiredFieldsHeld
<1>1. LP!Spec => []LP!RequiredFieldsHeld
  BY LP!LifecycleRequiredFields, RegistryAssumption, NoRowAssumption
  DEF LP!Null, LP!Status, LP!FieldMap, LP!Row, Status, FieldMap, Row
<1>2. LP!RequiredFieldsHeld => Lifecycle!RequiredFieldsHeld
  BY DEF LP!RequiredFieldsHeld, Lifecycle!RequiredFieldsHeld,
         LP!HoldsRequired, Lifecycle!HoldsRequired
<1> QED
  BY <1>1, <1>2, SameLifecycle, ServiceImplementsLifecycle, PTL
  DEF ImplementsLifecycle

----------------------------------------------------------------------------
(* Clients.  Walking by single steps from s[b] to s[n], the steps up less   *)
(* the steps down are the difference: so back at the same status, the steps *)
(* cancel out.                                                              *)
Ups(s, b, n) == {i \in (b + 1)..n : s[i] = s[i - 1] + 1}

Downs(s, b, n) == {i \in (b + 1)..n : s[i] + 1 = s[i - 1]}

Balanced(s, b, n) ==
    s[b] + Cardinality(Ups(s, b, n)) = s[n] + Cardinality(Downs(s, b, n))

LEMMA StepCounts ==
  ASSUME NEW s, NEW b \in Nat, NEW n \in Nat, n > b,
         s[n - 1] \in Nat, s[n] \in Nat, s[b] \in Nat,
         s[n] = s[n - 1] + 1 \/ s[n] + 1 = s[n - 1],
         Balanced(s, b, n - 1)
  PROVE  Balanced(s, b, n)
<1> DEFINE up == Ups(s, b, n - 1)
           down == Downs(s, b, n - 1)
<1>1. /\ IsFiniteSet(up) /\ Cardinality(up) \in Nat /\ n \notin up
      /\ IsFiniteSet(down) /\ Cardinality(down) \in Nat /\ n \notin down
  <2>1. IsFiniteSet((b + 1)..(n - 1))
    BY FS_Interval
  <2>2. up \in SUBSET ((b + 1)..(n - 1)) /\ down \in SUBSET ((b + 1)..(n - 1))
    BY DEF Ups, Downs
  <2>3. n \notin (b + 1)..(n - 1)
    OBVIOUS
  <2> HIDE DEF up, down
  <2> QED
    BY <2>1, <2>2, <2>3, FS_Subset, FS_CardinalityType
<1>2. (b + 1)..n = ((b + 1)..(n - 1)) \cup {n}
  OBVIOUS
<1>3. CASE s[n] = s[n - 1] + 1
  <2>1. Ups(s, b, n) = up \cup {n} /\ Downs(s, b, n) = down
    BY <1>2, <1>3 DEF Ups, Downs
  <2>2. Cardinality(up \cup {n}) = Cardinality(up) + 1
    <3> HIDE DEF up
    <3> QED
      BY <1>1, FS_AddElement
  <2> HIDE DEF up, down
  <2>3. s[b] + Cardinality(up) = s[n - 1] + Cardinality(down)
    BY DEF Balanced, up, down
  <2>4. s[b] + (Cardinality(up) + 1) = s[n] + Cardinality(down)
    BY <1>1, <1>3, <2>3
  <2> QED
    BY <2>1, <2>2, <2>4 DEF Balanced
<1>4. CASE s[n] + 1 = s[n - 1]
  <2>1. Ups(s, b, n) = up /\ Downs(s, b, n) = down \cup {n}
    BY <1>2, <1>4 DEF Ups, Downs
  <2>2. Cardinality(down \cup {n}) = Cardinality(down) + 1
    <3> HIDE DEF down
    <3> QED
      BY <1>1, FS_AddElement
  <2> HIDE DEF up, down
  <2>3. s[b] + Cardinality(up) = s[n - 1] + Cardinality(down)
    BY DEF Balanced, up, down
  <2>4. s[b] + Cardinality(up) = s[n] + (Cardinality(down) + 1)
    BY <1>1, <1>4, <2>3
  <2> QED
    BY <2>1, <2>2, <2>4 DEF Balanced
<1> QED
  BY <1>3, <1>4

LEMMA StepsBalance ==
  ASSUME NEW N \in Nat, NEW s, \A i \in 1..N : s[i] \in Nat, NEW b \in 1..N,
         \A i \in (b + 1)..N : s[i] = s[i - 1] + 1 \/ s[i] + 1 = s[i - 1]
  PROVE  Balanced(s, b, N)
<1> DEFINE R == OpToRel(<, Nat)
           Bad == {n \in b..N : ~Balanced(s, b, n)}
<1>1. IsWellFoundedOn(R, Nat)
  BY NatLessThanWellFounded
<1>2. \A a, c \in Nat : a < c <=> <<a, c>> \in R
  BY DEF OpToRel
<1>3. Bad \in SUBSET Nat
  OBVIOUS
<1>4. Balanced(s, b, b)
  <2>1. (b + 1)..b = {}
    OBVIOUS
  <2>2. Ups(s, b, b) = {} /\ Downs(s, b, b) = {}
    BY <2>1 DEF Ups, Downs
  <2> QED
    BY <2>2 DEF Balanced
<1> HIDE DEF R
<1>5. Bad = {}
  <2> SUFFICES ASSUME Bad # {} PROVE FALSE
    OBVIOUS
  <2>1. PICK n \in Bad : \A m \in Bad : ~(<<m, n>> \in R)
    <3> HIDE DEF Bad
    <3> QED
      BY <1>1, <1>3, WFMin
  <2>2. n \in b..N /\ n # b /\ ~Balanced(s, b, n)
    BY <1>4
  <2>3. n \in Nat /\ n - 1 \in Nat /\ n - 1 \in b..N /\ n - 1 < n /\ n > b
    BY <2>2
  <2>4. n - 1 \notin Bad
    <3> HIDE DEF Bad
    <3> QED
      BY <1>2, <2>1, <2>3
  <2>5. Balanced(s, b, n - 1)
    BY <2>3, <2>4
  <2>6. /\ n \in (b + 1)..N /\ n \in 1..N /\ n - 1 \in 1..N
        /\ b \in Nat
    BY <2>2, <2>3
  <2>7. s[n] \in Nat /\ s[n - 1] \in Nat /\ s[b] \in Nat
    BY <2>6
  <2>8. s[n] = s[n - 1] + 1 \/ s[n] + 1 = s[n - 1]
    BY <2>6
  <2>9. Balanced(s, b, n)
    <3> HIDE DEF Bad
    <3> QED
      BY <2>3, <2>5, <2>6, <2>7, <2>8, StepCounts
  <2> QED
    BY <2>2, <2>9
<1>6. N \in b..N
  OBVIOUS
<1> QED
  BY <1>5, <1>6

(* A trail that is an unbroken chain and does not end with a close is such  *)
(* a walk over the statuses its entries reached.                            *)
LEMMA TrailBalances ==
  ASSUME NEW h \in Seq(Entry), Lifecycle!ChainedFrom(h), NEW b \in DOMAIN h,
         h[Len(h)].to # Null
  PROVE  LET later == {i \in DOMAIN h : i > b}
         IN  /\ \A i \in later : h[i].to # Null
             /\ StatusAfter(h[b]) +
                    Cardinality({i \in later : h[i].to = h[i].from + 1}) =
                StatusAfter(h[Len(h)]) +
                    Cardinality({i \in later : h[i].to + 1 = h[i].from})
<1> DEFINE N == Len(h)
           later == {i \in DOMAIN h : i > b}
           s == [i \in 1..N |-> h[i].to]
<1>1. /\ N \in Nat /\ DOMAIN h = 1..N /\ b \in 1..N /\ later = (b + 1)..N
      /\ h[N].to # Null
  <2>1. N \in Nat /\ DOMAIN h = 1..N
    OBVIOUS
  <2>2. later = {i \in 1..N : i > b} /\ b \in 1..N
    BY <2>1
  <2> HIDE DEF later, s, N
  <2>3. {i \in 1..N : i > b} = (b + 1)..N
    BY <2>1, <2>2
  <2> QED
    BY <2>1, <2>2, <2>3 DEF N
<1>2. \A i \in 1..N : h[i].to \in Nat /\ h[i].from \in Nat
  <2>1. \A i \in 1..N : h[i] \in Entry
    OBVIOUS
  <2>2. Status \cup {Null} \subseteq Nat
    BY RegistryAssumption DEF Status, Null
  <2> HIDE DEF N, s, later
  <2> QED
    BY <2>1, <2>2 DEF Entry
<1>3. \A i \in 2..N : /\ h[i - 1].to # Null
                      /\ h[i].from = h[i - 1].to
                      /\ h[i].to \in {h[i].from + 1, h[i].from - 1, Null}
  BY DEF Lifecycle!ChainedFrom, Lifecycle!Null, Null
<1>4. \A i \in 1..N : h[i].to # Null
  <2> SUFFICES ASSUME NEW i \in 1..N PROVE h[i].to # Null
    OBVIOUS
  <2>1. CASE i = N
    <3> HIDE DEF N
    <3> QED
      BY <1>1, <2>1
  <2>2. CASE i # N
    <3> HIDE DEF N, s, later
    <3>1. i + 1 \in 2..N /\ (i + 1) - 1 = i
      <4>1. N \in Nat
        BY <1>1
      <4> QED
        BY <4>1, <2>2
    <3> QED
      BY <1>3, <3>1
  <2> QED
    BY <2>1, <2>2
<1>5. \A i \in (b + 1)..N : /\ i \in 2..N /\ i \in 1..N /\ i - 1 \in 1..N
                            /\ s[i] = h[i].to /\ s[i - 1] = h[i].from
  BY <1>1, <1>3
<1>6. \A i \in (b + 1)..N : s[i] = s[i - 1] + 1 \/ s[i] + 1 = s[i - 1]
  <2> SUFFICES ASSUME NEW i \in (b + 1)..N
               PROVE  s[i] = s[i - 1] + 1 \/ s[i] + 1 = s[i - 1]
    OBVIOUS
  <2>1. i \in 1..N /\ h[i].to \in {h[i].from + 1, h[i].from - 1} /\ h[i].to # Null
    BY <1>3, <1>4, <1>5
  <2>2. h[i].to = h[i].from + 1 \/ h[i].to + 1 = h[i].from
    BY <1>2, <2>1
  <2> QED
    BY <1>5, <2>2
<1>7. Balanced(s, b, N)
  <2>1. \A i \in 1..N : s[i] \in Nat
    BY <1>2
  <2> HIDE DEF s, N
  <2> QED
    BY <1>1, <1>6, <2>1, StepsBalance
<1>8. /\ Ups(s, b, N) = {i \in later : h[i].to = h[i].from + 1}
      /\ Downs(s, b, N) = {i \in later : h[i].to + 1 = h[i].from}
  <2> HIDE DEF s
  <2> QED
    BY <1>1, <1>5 DEF Ups, Downs
<1>9. s[b] = StatusAfter(h[b]) /\ s[N] = StatusAfter(h[N])
  BY <1>1, <1>4 DEF StatusAfter
<1> QED
  BY <1>1, <1>4, <1>7, <1>8, <1>9 DEF Balanced

(* A running change names the version of the task it is based on: that      *)
(* entry stays where it is in the trail, and its status is the expected one.*)
BasedOnVersion(c) ==
    LET q == tx[c].req
    IN  (tx[c] # NoTx /\ q.op \in {"forward", "backward"}) =>
          /\ q.task \in Task
          /\ basis[c] \in DOMAIN history[q.task]
          /\ StatusAfter(history[q.task][basis[c]]) = q.expected
          /\ tx[c].phase # "begun" => tx[c].task = q.task

(* Each connection's call is based on a version of its task. *)
BasisInv == basis \in [Conn -> Nat] /\ \A c \in Conn : BasedOnVersion(c)

LEMMA ClientStep == [ClientNext]_clientVars => [Next]_vars
BY DEF ClientNext, ClientBegin, clientVars, Next

LEMMA ClientRuns == ClientSpec => Spec
BY ClientStep, PTL DEF ClientSpec, ClientInit, Spec

(* Trails only grow at the end, so a version stays the version it was.      *)
LEMMA VersionStays ==
  ASSUME ServiceInv, ServiceInv', NEW t \in Task, NEW b \in DOMAIN history[t],
         \/ history'[t] = history[t]
         \/ \E e : history'[t] = Append(history[t], e)
  PROVE  b \in DOMAIN history'[t] /\ history'[t][b] = history[t][b]
<1>1. history[t] \in Seq(Entry)
  BY DEF ServiceInv, TypeOK
<1> QED
  BY <1>1

LEMMA BasisInvStep ==
  ServiceInv /\ ServiceInv' /\ BasisInv /\ [ClientNext]_clientVars => BasisInv'
<1> SUFFICES ASSUME ServiceInv, ServiceInv', BasisInv, [ClientNext]_clientVars
             PROVE  BasisInv'
  OBVIOUS
<1>1. tx \in [Conn -> Tx \cup {NoTx}] /\ history \in [Task -> Seq(Entry)]
  BY DEF ServiceInv, TypeOK
<1>2. ASSUME NEW c \in Conn, ClientBegin(c) PROVE BasisInv'
  <2>1. PICK q \in Requests, i \in 0..MaxClock :
           /\ tx' = [tx EXCEPT ![c] =
                      [phase |-> "begun", req |-> q, at |-> clock + 1,
                       task |-> NoTask, row |-> NoRow, new |-> NoRow,
                       entry |-> NoEntry]]
           /\ Offers(i, tx'[c].req)
           /\ basis' = [basis EXCEPT ![c] = i]
    BY <1>2 DEF ClientBegin, Begin
  <2>2. tx'[c].req = q /\ tx'[c].phase = "begun" /\ history' = history
    BY <1>1, <1>2, <2>1 DEF ClientBegin, Begin, tables
  <2>3. basis' \in [Conn -> Nat] /\ basis'[c] = i
    BY <2>1, ServiceAssumption DEF BasisInv
  <2>4. BasedOnVersion(c)'
    BY <2>1, <2>2, <2>3 DEF BasedOnVersion, Offers, StatusAfter
  <2>5. ASSUME NEW d \in Conn \ {c} PROVE BasedOnVersion(d)'
    <3>1. tx'[d] = tx[d] /\ basis'[d] = basis[d]
      BY <1>1, <2>1 DEF BasisInv
    <3> QED
      BY <2>2, <3>1 DEF BasisInv, BasedOnVersion, StatusAfter
  <2> QED
    BY <2>3, <2>4, <2>5 DEF BasisInv
<1>3. ASSUME NEW c \in Conn, Progress(c) \/ Abort(c), basis' = basis
      PROVE  BasisInv'
  <2>1. \A d \in Conn \ {c} : tx'[d] = tx[d]
    BY <1>1, <1>3 DEF Progress, Abort, Rollback, InsertRow, LockRow, WriteRow,
                      AppendHistory, Commit, Reject, LockTimeout
  <2>2. \/ tx'[c] = NoTx
        \/ /\ tx[c] # NoTx /\ tx'[c].req = tx[c].req
           /\ tx[c].req.op # "create" /\ tx'[c].phase # "begun" =>
                \/ tx'[c].task = tx[c].req.task
                \/ tx'[c].task = tx[c].task /\ tx[c].phase # "begun"
    <3>1. CASE InsertRow(c)
      BY <1>1, <3>1 DEF InsertRow, InPhase
    <3>2. CASE LockRow(c)
      BY <1>1, <3>2 DEF LockRow, InPhase
    <3>3. CASE WriteRow(c)
      <4>1. PICK x : x = tx[c]
        OBVIOUS
      <4>2. x \in Tx /\ x # NoTx /\ x.phase = "locked"
        BY <1>1, <3>3, <4>1 DEF WriteRow, InPhase
      <4>3. PICK new : tx'[c] = [x EXCEPT !.phase = "written", !.new = new]
        BY <1>1, <3>3, <4>1 DEF WriteRow
      <4>4. tx'[c].req = x.req /\ tx'[c].task = x.task
        BY <4>2, <4>3 DEF Tx
      <4> QED
        BY <4>1, <4>2, <4>4
    <3>4. CASE AppendHistory(c)
      <4>1. PICK x : x = tx[c]
        OBVIOUS
      <4>2. x \in Tx /\ x # NoTx /\ x.phase = "written"
        BY <1>1, <3>4, <4>1 DEF AppendHistory, InPhase
      <4>3. PICK entry : tx'[c] = [x EXCEPT !.phase = "appended", !.entry = entry]
        BY <1>1, <3>4, <4>1 DEF AppendHistory
      <4>4. tx'[c].req = x.req /\ tx'[c].task = x.task
        BY <4>2, <4>3 DEF Tx
      <4> QED
        BY <4>1, <4>2, <4>4
    <3>5. CASE Commit(c) \/ Reject(c) \/ LockTimeout(c) \/ Abort(c)
      BY <1>1, <3>5 DEF Commit, Reject, LockTimeout, Abort, Rollback
    <3> QED
      BY <1>3, <3>1, <3>2, <3>3, <3>4, <3>5 DEF Progress
  <2>3. \A t \in Task : \/ history'[t] = history[t]
                        \/ \E e : history'[t] = Append(history[t], e)
    <3>1. CASE Commit(c)
      <4>1. history' = [history EXCEPT ![tx[c].task] =
                          Append(history[tx[c].task], tx[c].entry)]
        BY <3>1 DEF Commit
      <4> QED
        BY <1>1, <4>1
    <3>2. CASE history' = history
      BY SMTT(60), <3>2
    <3>3. CASE (Progress(c) /\ ~Commit(c)) \/ Abort(c)
      BY <3>2, <3>3 DEF Progress, Abort, Rollback, InsertRow, LockRow, WriteRow,
                        AppendHistory, Reject, LockTimeout, tables
    <3> QED
      BY <1>3, <3>1, <3>3
  <2>4. ASSUME NEW d \in Conn PROVE BasedOnVersion(d)'
    <3> DEFINE q == tx[d].req
    <3> SUFFICES ASSUME tx'[d] # NoTx, tx'[d].req.op \in {"forward", "backward"}
                 PROVE  /\ tx'[d].req.task \in Task
                        /\ basis'[d] \in DOMAIN history'[tx'[d].req.task]
                        /\ StatusAfter(history'[tx'[d].req.task][basis'[d]]) =
                             tx'[d].req.expected
                        /\ tx'[d].phase # "begun" => tx'[d].task = tx'[d].req.task
      BY DEF BasedOnVersion, StatusAfter
    <3>1. /\ tx[d] # NoTx /\ tx'[d].req = q /\ basis'[d] = basis[d]
          /\ tx'[d].phase # "begun" =>
               \/ tx'[d].task = q.task
               \/ tx'[d].task = tx[d].task /\ tx[d].phase # "begun"
      BY <1>3, <2>1, <2>2
    <3>2. /\ q.task \in Task
          /\ basis[d] \in DOMAIN history[q.task]
          /\ StatusAfter(history[q.task][basis[d]]) = q.expected
          /\ tx[d].phase # "begun" => tx[d].task = q.task
      BY <3>1 DEF BasisInv, BasedOnVersion
    <3> HIDE DEF q
    <3>3. /\ basis[d] \in DOMAIN history'[q.task]
          /\ history'[q.task][basis[d]] = history[q.task][basis[d]]
      BY <2>3, <3>2, VersionStays
    <3> QED
      BY <3>1, <3>2, <3>3
  <2> QED
    BY SMTT(60), <1>3, <2>4 DEF BasisInv
<1>4. ASSUME UNCHANGED <<tx, history, basis>> PROVE BasisInv'
  BY <1>4 DEF BasisInv, BasedOnVersion, StatusAfter
<1>5. ASSUME NEW e \in pending, Publish(e), basis' = basis
      PROVE  UNCHANGED <<tx, history, basis>>
  BY <1>5 DEF Publish, tables
<1>6. CASE UNCHANGED clientVars
  BY <1>4, <1>6 DEF clientVars, vars
<1> QED
  BY <1>2, <1>3, <1>4, <1>5, <1>6 DEF ClientNext

LEMMA ClientTypes == ClientSpec => []BasisInv
<1>1. ClientInit => BasisInv
  BY SMTT(60) DEF ClientInit, Init, BasisInv, BasedOnVersion
<1> QED
  BY <1>1, BasisInvStep, ClientRuns, ServiceInvariant, PTL DEF ClientSpec

LEMMA PassedChecks ==
  ASSUME ServiceInv, Lifecycle!AuditTrail, BasisInv, NEW c \in Conn,
         InPhase(c, "written"), tx[c].req.op \in {"forward", "backward"}
  PROVE  LET h == history[tx[c].task]
             later == {i \in DOMAIN h : i > basis[c]}
         IN  /\ \A i \in later : h[i].to # Null
             /\ Cardinality({i \in later : h[i].to = h[i].from + 1}) =
                    Cardinality({i \in later : h[i].to + 1 = h[i].from})
<1> DEFINE q == tx[c].req
           t == q.task
           h == history[t]
           b == basis[c]
           up == Cardinality({i \in {j \in DOMAIN h : j > b} : h[i].to = h[i].from + 1})
           down == Cardinality({i \in {j \in DOMAIN h : j > b} : h[i].to + 1 = h[i].from})
<1>1. /\ t \in Task /\ tx[c].task = t /\ b \in DOMAIN h
      /\ StatusAfter(h[b]) = q.expected
  BY DEF BasisInv, BasedOnVersion, InPhase
<1>2. h \in Seq(Entry)
  BY <1>1 DEF ServiceInv, TypeOK
<1>3. /\ tasks[t] \in Row /\ tasks[t] # NoRow /\ ~tasks[t].isClosed
      /\ tasks[t].status = q.expected
  BY <1>1, NoRowAssumption
  DEF ServiceInv, Consistent, InPhase, Written, Accepted, ChangeAccepted
<1>4. /\ Lifecycle!ChainedFrom(h) /\ h[Len(h)].to # Null
      /\ StatusAfter(h[Len(h)]) = q.expected
  BY <1>1, <1>3 DEF Lifecycle!AuditTrail, Lifecycle!TrailOf, Lifecycle!DescribedBy,
                    Lifecycle!Null, Null, StatusAfter
<1>5. q.expected \in Nat
  BY <1>3 DEF Row, Status
<1>6. up \in Nat /\ down \in Nat
  <2>1. IsFiniteSet(1..Len(h))
    BY <1>2, FS_Interval
  <2>2. DOMAIN h = 1..Len(h)
    BY <1>2
  <2>3. /\ {i \in {j \in DOMAIN h : j > b} : h[i].to = h[i].from + 1} \in SUBSET (1..Len(h))
        /\ {i \in {j \in DOMAIN h : j > b} : h[i].to + 1 = h[i].from} \in SUBSET (1..Len(h))
    BY <2>2
  <2> QED
    BY <2>1, <2>3, FS_Subset, FS_CardinalityType
<1>7. /\ \A i \in {j \in DOMAIN h : j > b} : h[i].to # Null
      /\ StatusAfter(h[b]) + up = StatusAfter(h[Len(h)]) + down
  <2> HIDE DEF h, b
  <2> QED
    BY <1>1, <1>2, <1>4, TrailBalances
<1>8. up = down
  <2> HIDE DEF up, down, h, b, q
  <2> QED
    BY <1>1, <1>4, <1>5, <1>6, <1>7
<1> QED
  BY <1>1, <1>7, <1>8

(* A stale or duplicate submit passes expectedStatus only if the task came  *)
(* back to the status the client saw: none of the later changes is a close, *)
(* and the steps up among them are as many as the steps down.               *)
THEOREM ClientsStaleSubmit == ClientSpec => []StaleSubmitOnlyAfterReturn
<1>1. ServiceInv /\ Lifecycle!AuditTrail /\ BasisInv => StaleSubmitOnlyAfterReturn
  BY PassedChecks DEF StaleSubmitOnlyAfterReturn
<1> QED
  BY <1>1, ClientTypes, ClientRuns, ServiceInvariant, ServiceAuditTrail, PTL
============================================================================
