---------------------------- MODULE TaskService ----------------------------
(***************************************************************************)
(* The task service's write path (TaskService, its DAOs, PostgreSQL).      *)
(*                                                                         *)
(* Every mutation runs in a transaction of its own on a connection of the  *)
(* pool: begin, lock the task row, check, write the row, append the audit  *)
(* entry, commit.  Transactions of several requests, and of several        *)
(* service instances, interleave between any two of these steps, and any   *)
(* of them may fail.  After the commit the connection is free again and    *)
(* the request, no longer in the transaction, publishes its event.         *)
(*                                                                         *)
(* PostgreSQL is READ COMMITTED, so a transaction's writes stay private to *)
(* it until it commits; now(), which fills created_at and updated_at, is   *)
(* the time the TRANSACTION STARTED.                                       *)
(***************************************************************************)
EXTENDS TaskData, FiniteSets

CONSTANTS
    Conn,          \* pooled connections to the primary, of all instances
    Requests,      \* the mutations clients ask for
    UnknownUser,   \* a well-formed user id without a row
    UnknownTask,   \* a well-formed task id without a row
    UnknownType,   \* a type string the registry does not hold
    BadValue,      \* a field value the validator refuses
    NoConn,        \* "row is not locked"
    NoTask,        \* "no row yet"
    NoEntry,       \* "no audit entry yet"
    NoTx,          \* "connection is idle in the pool"
    MaxClock       \* bound: transactions begun

Submission == UNION {[S -> Value \cup {BadValue}] : S \in SUBSET Field}

Assignee == User \cup {UnknownUser}

CreateRequest == [op : {"create"}, type : Type \cup {UnknownType}, next : Assignee]

ChangeRequest == [op : {"forward", "backward"}, task : Task \cup {UnknownTask},
                  expected : Status, next : Assignee, fields : Submission]

CloseRequest == [op : {"close"}, task : Task \cup {UnknownTask}]

Request == CreateRequest \cup ChangeRequest \cup CloseRequest

Tx == [phase : {"begun", "locked", "written", "appended"},
       req   : Requests,
       at    : Nat,                     \* now() of this transaction
       task  : Task \cup {NoTask},      \* the row it inserted or locked
       row   : Row \cup {NoRow},        \* that row as it was read
       new   : Row \cup {NoRow},        \* that row as it was written
       entry : Entry \cup {NoEntry}]    \* the audit entry appended

Event == [name : {"task:created", "task:updated", "task:closed"},
          task : Task, row : Row, updatedAt : Nat, users : SUBSET User]

ASSUME ServiceAssumption ==
    /\ Requests \subseteq Request
    /\ MaxClock \in Nat
    /\ UnknownUser \notin User
    /\ UnknownTask \notin Task
    /\ UnknownType \notin Type
    /\ BadValue \notin Value
    /\ NoConn \notin Conn
    /\ NoTask \notin Task
    /\ NoEntry \notin Entry
    /\ NoTx \notin Tx

VARIABLES
    tasks,         \* tasks[t]: the committed row of task t, or NoRow
    history,       \* history[t]: its audit entries in the order committed
    updatedAt,     \* updatedAt[t]: the updated_at column of the committed row
    createdAt,     \* createdAt[t][i]: the created_at column of history[t][i]
    lock,          \* lock[t]: the connection holding the row lock of t
    tx,            \* tx[c]: the transaction open on connection c, or NoTx
    pending,       \* events of committed changes, not handed over yet
    clock          \* the database clock, read when a transaction starts

vars == <<tasks, history, updatedAt, createdAt, lock, tx, pending, clock>>

tables == <<tasks, history, updatedAt, createdAt>>

Init ==
    /\ tasks = [t \in Task |-> NoRow]
    /\ history = [t \in Task |-> <<>>]
    /\ updatedAt = [t \in Task |-> 0]
    /\ createdAt = [t \in Task |-> <<>>]
    /\ lock = [t \in Task |-> NoConn]
    /\ tx = [c \in Conn |-> NoTx]
    /\ pending = {}
    /\ clock = 0

----------------------------------------------------------------------------
(* Checks and results of a mutation, from the row read under the lock.     *)

(* Fault: one status too many. *)
InTransitionRangeOffByOne(row, req) ==
    IF req.op = "forward" THEN row.status + 1 <= FinalStatus[row.type]
                          ELSE row.status >= 1

InTransitionRange(row, req) ==
    IF req.op = "forward" THEN row.status + 1 <= FinalStatus[row.type]
                          ELSE row.status - 1 >= 1

Target(row, req) ==
    IF req.op = "forward" THEN row.status + 1 ELSE row.status - 1

(* Fault: missing fields are not noticed. *)
ValidFieldsIfPresent(ty, s, submitted) ==
    /\ DOMAIN submitted \subseteq Required[ty][s]
    /\ \A f \in DOMAIN submitted : submitted[f] # BadValue

(* FieldValidatorService.validate: every required field present and         *)
(* acceptable, and no key the status does not know.                         *)
ValidFields(ty, s, submitted) ==
    /\ DOMAIN submitted = Required[ty][s]
    /\ \A f \in DOMAIN submitted : submitted[f] # BadValue

(* Fault: a closed task may still change. *)
ChangeAcceptedClosed(row, req) ==
    /\ row.status = req.expected
    /\ InTransitionRange(row, req)
    /\ req.op = "forward" => ValidFields(row.type, Target(row, req), req.fields)
    /\ req.next \in User

(* Fault: expectedStatus is not compared. *)
ChangeAcceptedUnexpected(row, req) ==
    /\ ~row.isClosed
    /\ InTransitionRange(row, req)
    /\ req.op = "forward" => ValidFields(row.type, Target(row, req), req.fields)
    /\ req.next \in User

(* changeStatus, in the order the code checks. *)
ChangeAccepted(row, req) ==
    /\ ~row.isClosed
    /\ row.status = req.expected
    /\ InTransitionRange(row, req)
    /\ req.op = "forward" => ValidFields(row.type, Target(row, req), req.fields)
    /\ req.next \in User

CloseAccepted(row) == ~row.isClosed /\ row.status = FinalStatus[row.type]

Accepted(row, req) ==
    IF req.op = "close" THEN CloseAccepted(row) ELSE ChangeAccepted(row, req)

CreateAccepted(req) == req.type \in Type /\ req.next \in User

Sanitized(req) == IF req.op = "forward" THEN req.fields ELSE NoFields

(* Fault: the UPDATE leaves the custom fields out. *)
RowAfterWithoutFields(row, req) ==
    IF req.op = "close" THEN ClosedRow(row)
    ELSE MovedRow(row, Target(row, req), req.next, NoFields)

(* The row the UPDATE leaves, and the audit entry appended after it.        *)
RowAfter(row, req) ==
    IF req.op = "close" THEN ClosedRow(row)
    ELSE MovedRow(row, Target(row, req), req.next, Sanitized(req))

(* Fault: fromStatus is read off the updated row. *)
EntryAfterUpdate(row, new, req) ==
    CASE req.op = "create" -> AuditEntry(Null, new.status, new.assignee, new.fields)
      [] req.op = "close" -> AuditEntry(new.status, Null, new.assignee, NoFields)
      [] OTHER -> AuditEntry(new.status, new.status, new.assignee, Sanitized(req))

EntryAfter(row, new, req) ==
    CASE req.op = "create" -> AuditEntry(Null, new.status, new.assignee, new.fields)
      [] req.op = "close" -> AuditEntry(new.status, Null, new.assignee, NoFields)
      [] OTHER -> AuditEntry(row.status, new.status, new.assignee, Sanitized(req))

EventName(req) ==
    CASE req.op = "create" -> "task:created"
      [] req.op = "close" -> "task:closed"
      [] OTHER -> "task:updated"

(* Fault: the previous assignee is not told. *)
TargetUsersNewOnly(x) == {x.new.assignee}

(* targetRooms: the assignee's room, and on a reassignment the previous     *)
(* assignee's (every event also goes to the task's own room).               *)
TargetUsers(x) ==
    {x.new.assignee} \cup
        (IF x.req.op \in {"forward", "backward"} THEN {x.row.assignee} ELSE {})

EventOf(x) ==
    [name |-> EventName(x.req), task |-> x.task, row |-> x.new,
     updatedAt |-> x.at, users |-> TargetUsers(x)]

----------------------------------------------------------------------------
(* Steps of the transaction on connection c.                               *)

InPhase(c, p) == tx[c] # NoTx /\ tx[c].phase = p

(* Fault: a transaction that ends keeps its lock. *)
LocksKept(c) == lock

Unlocked(c) == [t \in Task |-> IF lock[t] = c THEN NoConn ELSE lock[t]]

(* Bound: no create request starts unless an id of Task is left for it. *)
FreshIdLeft ==
    Cardinality({t \in Task : tasks[t] = NoRow /\ lock[t] = NoConn}) >
        Cardinality({d \in Conn : InPhase(d, "begun") /\ tx[d].req.op = "create"})

(* Task ids are random: a client names one it was given, or one of no task. *)
Nameable(q) == q.task \in Task => tasks[q.task] # NoRow

(* A request takes an idle connection and opens its transaction. *)
Begin(c) ==
    /\ tx[c] = NoTx
    /\ clock < MaxClock
    /\ clock' = clock + 1
    /\ \E q \in Requests :
          /\ IF q.op = "create" THEN FreshIdLeft ELSE Nameable(q)
          /\ tx' = [tx EXCEPT ![c] =
                      [phase |-> "begun", req |-> q, at |-> clock + 1,
                       task |-> NoTask, row |-> NoRow, new |-> NoRow,
                       entry |-> NoEntry]]
    /\ UNCHANGED <<tables, lock, pending>>

(* createTask: the INSERT makes a row under a fresh id; nobody else sees it *)
(* before the commit.                                                       *)
InsertRow(c) ==
    /\ InPhase(c, "begun")
    /\ tx[c].req.op = "create"
    /\ CreateAccepted(tx[c].req)
    /\ \E t \in Task :
          /\ tasks[t] = NoRow
          /\ lock[t] = NoConn
          /\ lock' = [lock EXCEPT ![t] = c]
          /\ tx' = [tx EXCEPT ![c] =
                      [@ EXCEPT !.phase = "written", !.task = t,
                                !.new = NewRow(tx[c].req.type, tx[c].req.next)]]
    /\ UNCHANGED <<tables, pending, clock>>

(* Fault: the row is read without FOR UPDATE. *)
ReadRow(c) ==
    /\ InPhase(c, "begun")
    /\ tx[c].req.op # "create"
    /\ LET t == tx[c].req.task
       IN  /\ t \in Task
           /\ lock' = [lock EXCEPT ![t] = c]
           /\ tx' = [tx EXCEPT ![c] =
                       [@ EXCEPT !.phase = "locked", !.task = t, !.row = tasks[t]]]
    /\ UNCHANGED <<tables, pending, clock>>

(* getByIdForUpdate: SELECT ... FOR UPDATE returns the row as last          *)
(* committed once the lock is granted.                                      *)
LockRow(c) ==
    /\ InPhase(c, "begun")
    /\ tx[c].req.op # "create"
    /\ LET t == tx[c].req.task
       IN  /\ t \in Task
           /\ lock[t] = NoConn
           /\ lock' = [lock EXCEPT ![t] = c]
           /\ tx' = [tx EXCEPT ![c] =
                       [@ EXCEPT !.phase = "locked", !.task = t, !.row = tasks[t]]]
    /\ UNCHANGED <<tables, pending, clock>>

(* The checks pass and the one UPDATE statement writes the row. *)
WriteRow(c) ==
    /\ InPhase(c, "locked")
    /\ Accepted(tx[c].row, tx[c].req)
    /\ tx' = [tx EXCEPT ![c] =
                [@ EXCEPT !.phase = "written", !.new = RowAfter(tx[c].row, tx[c].req)]]
    /\ UNCHANGED <<tables, lock, pending, clock>>

(* Fault: the audit INSERT takes a second connection of the pool. *)
AppendHistoryElsewhere(c) ==
    /\ InPhase(c, "written")
    /\ \E d \in Conn \ {c} : tx[d] = NoTx
    /\ tx' = [tx EXCEPT ![c] =
                [@ EXCEPT !.phase = "appended",
                          !.entry = EntryAfter(tx[c].row, tx[c].new, tx[c].req)]]
    /\ UNCHANGED <<tables, lock, pending, clock>>

AppendHistory(c) ==
    /\ InPhase(c, "written")
    /\ tx' = [tx EXCEPT ![c] =
                [@ EXCEPT !.phase = "appended",
                          !.entry = EntryAfter(tx[c].row, tx[c].new, tx[c].req)]]
    /\ UNCHANGED <<tables, lock, pending, clock>>

(* Fault: the UPDATE that closes a task leaves updated_at alone. *)
StampUnlessClosed(x) == IF x.req.op = "close" THEN updatedAt[x.task] ELSE x.at

(* Every UPDATE sets updated_at to CURRENT_TIMESTAMP. *)
StampAfter(x) == x.at

(* Both writes become visible, the lock and the connection are released,    *)
(* and the request goes on to publish.                                      *)
Commit(c) ==
    /\ InPhase(c, "appended")
    /\ LET t == tx[c].task
       IN  /\ tasks' = [tasks EXCEPT ![t] = tx[c].new]
           /\ history' = [history EXCEPT ![t] = Append(@, tx[c].entry)]
           /\ updatedAt' = [updatedAt EXCEPT ![t] = StampAfter(tx[c])]
           /\ createdAt' = [createdAt EXCEPT ![t] = Append(@, tx[c].at)]
    /\ pending' = pending \cup {EventOf(tx[c])}
    /\ lock' = Unlocked(c)
    /\ tx' = [tx EXCEPT ![c] = NoTx]
    /\ UNCHANGED clock

Rollback(c) ==
    /\ lock' = Unlocked(c)
    /\ tx' = [tx EXCEPT ![c] = NoTx]
    /\ UNCHANGED <<tables, pending, clock>>

(* A check throws: unknown type or assignee, no such task, closed, stale    *)
(* expectedStatus, out of range, bad fields, not at the final status.       *)
Reject(c) ==
    /\ \/ /\ InPhase(c, "begun")
          /\ IF tx[c].req.op = "create" THEN ~CreateAccepted(tx[c].req)
                                        ELSE tx[c].req.task \notin Task
       \/ /\ InPhase(c, "locked")
          /\ ~Accepted(tx[c].row, tx[c].req)
    /\ Rollback(c)

(* lock_timeout (or statement_timeout) ends the wait for a row lock. *)
LockTimeout(c) ==
    /\ InPhase(c, "begun")
    /\ tx[c].req.op # "create"
    /\ tx[c].req.task \in Task
    /\ lock[tx[c].req.task] # NoConn
    /\ Rollback(c)

(* A statement fails, the connection drops, or the instance dies. *)
Abort(c) ==
    /\ tx[c] # NoTx
    /\ Rollback(c)

(* publish hands an event to the socket adapter at most once: what the      *)
(* adapter refuses, and what a dying instance still held, is never retried. *)
Publish(e) ==
    /\ e \in pending
    /\ pending' = pending \ {e}
    /\ UNCHANGED <<tables, lock, tx, clock>>

Progress(c) ==
    InsertRow(c) \/ LockRow(c) \/ WriteRow(c) \/ AppendHistory(c)
    \/ Commit(c) \/ Reject(c) \/ LockTimeout(c)

Next ==
    \/ \E c \in Conn : Begin(c) \/ Progress(c) \/ Abort(c)
    \/ \E e \in pending : Publish(e)

Spec == Init /\ [][Next]_vars

(* A running transaction goes on: the driver sends its next statement, and  *)
(* the database answers or times out.  Nothing makes clients send requests, *)
(* connections fail, or events leave.                                       *)
FairSpec == Spec /\ \A c \in Conn : WF_vars(Progress(c))

----------------------------------------------------------------------------
(* The tables, the open transactions and the events held have their types. *)
TypeOK ==
    /\ tasks \in [Task -> Row \cup {NoRow}]
    /\ history \in [Task -> Seq(Entry)]
    /\ updatedAt \in [Task -> Nat]
    /\ createdAt \in [Task -> Seq(Nat)]
    /\ lock \in [Task -> Conn \cup {NoConn}]
    /\ tx \in [Conn -> Tx \cup {NoTx}]
    /\ pending \in SUBSET Event
    /\ clock \in Nat

Written(x) ==
    IF x.req.op = "create"
    THEN /\ x.row = NoRow
         /\ CreateAccepted(x.req)
         /\ x.new = NewRow(x.req.type, x.req.next)
    ELSE /\ x.row \in Row
         /\ Accepted(x.row, x.req)
         /\ x.new = RowAfter(x.row, x.req)

Consistent(c) ==
    LET x == tx[c]
    IN  x # NoTx =>
          /\ x.phase = "begun" => x.row = NoRow
          /\ (x.req.op # "create" /\ x.req.task \in Task) =>
                tasks[x.req.task] # NoRow
          /\ x.phase # "begun" =>
                x.task \in Task /\ lock[x.task] = c /\ tasks[x.task] = x.row
          /\ x.phase = "locked" => x.req.op # "create" /\ x.row \in Row
          /\ x.phase \in {"written", "appended"} => Written(x)
          /\ x.phase = "appended" => x.entry = EntryAfter(x.row, x.new, x.req)

(* A row lock belongs to a running transaction that works on that row: no   *)
(* path out of a transaction, error or success, leaves a lock behind.       *)
LocksHaveOwners ==
    \A t \in Task : lock[t] # NoConn =>
        tx[lock[t]] # NoTx /\ tx[lock[t]].phase # "begun" /\ tx[lock[t]].task = t

(* The timestamps a reader sees beside a row and beside the entry that      *)
(* describes it are those of one transaction.                               *)
StampsAgree ==
    \A t \in Task :
        /\ Len(createdAt[t]) = Len(history[t])
        /\ tasks[t] # NoRow =>
              /\ Len(createdAt[t]) > 0
              /\ updatedAt[t] = createdAt[t][Len(createdAt[t])]

(* What a transaction has done so far fits the committed data: past its     *)
(* begin it holds the lock of its row, what it read is still committed,     *)
(* and what it is about to commit is what the checks allowed on that row.   *)
(* No lock outlives its transaction, and a row and the entry describing it  *)
(* carry the time of one transaction.                                       *)
ServiceInv ==
    /\ TypeOK
    /\ \A c \in Conn : Consistent(c)
    /\ LocksHaveOwners
    /\ StampsAgree

(* No lost update: from the moment a transaction holds a row until it ends, *)
(* the row it read and checked is still the committed one, so what it       *)
(* writes replaces exactly the state its checks were made on.               *)
LockedRowIsCurrent ==
    \A c \in Conn : (tx[c] # NoTx /\ tx[c].phase # "begun") =>
        tasks[tx[c].task] = tx[c].row

(* Once a close is committed, no transaction changes the task, its stamps   *)
(* or its trail any more: not even one that had begun before, with a        *)
(* request that was fine then, and waited for the row behind the close.     *)
ClosedForever ==
    [][\A t \in Task : (tasks[t] # NoRow /\ tasks[t].isClosed) =>
          /\ tasks'[t] = tasks[t] /\ history'[t] = history[t]
          /\ updatedAt'[t] = updatedAt[t] /\ createdAt'[t] = createdAt[t]]_vars

(* An event about to be published announces a change that is in the audit   *)
(* trail: the same kind of step, the same outcome and timestamp, addressed  *)
(* to the holder after the step and to the holder before it.                *)
Announces(e, i) ==
    LET h == history[e.task]
    IN  /\ createdAt[e.task][i] = e.updatedAt
        /\ e.row.assignee = h[i].assignee
        /\ e.name = IF i = 1 THEN "task:created"
                    ELSE IF h[i].to = Null THEN "task:closed" ELSE "task:updated"
        /\ IF e.name = "task:closed" THEN e.row.isClosed ELSE e.row.status = h[i].to
        /\ e.users = {h[j].assignee : j \in {i - 1, i} \ {0}}

EventsMatchTrail ==
    \A e \in pending : \E i \in DOMAIN history[e.task] : Announces(e, i)

(* Every transaction ends, and with it the wait of those behind its lock    *)
(* and its hold on the pool: a transaction never needs a second connection. *)
TransactionsEnd ==
    \A c \in Conn : tx[c] # NoTx ~> tx[c] = NoTx

(* Committed data behaves as the abstract task: atomic create, single-step  *)
(* moves and close, each with its audit entry.                              *)
Lifecycle == INSTANCE TaskLifecycle WITH trail <- history

ImplementsLifecycle == Lifecycle!Spec

(* updated_at follows the order of commits: a later change of a task never  *)
(* carries an earlier time.                                                 *)
UpdatedAtFollowsCommits ==
    [][\A t \in Task : updatedAt'[t] >= updatedAt[t]]_vars

(* getHistoryPage "serves its transitions oldest-first": the timeline,      *)
(* ordered by created_at, lists the transitions in the order they happened. *)
TimelineInOrder ==
    \A t \in Task : \A i, j \in DOMAIN createdAt[t] :
        i < j => createdAt[t][i] <= createdAt[t][j]
============================================================================
