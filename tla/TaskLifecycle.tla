--------------------------- MODULE TaskLifecycle ---------------------------
(***************************************************************************)
(* What the task service promises about one task, seen through committed   *)
(* data only: a task is created at status 1, moves one status at a time,   *)
(* may be closed once it is at its type's final status, and every change   *)
(* of the row leaves one entry in the task's audit trail in the same       *)
(* atomic step.  TaskService is shown to implement this module.            *)
(***************************************************************************)
EXTENDS TaskData

VARIABLES
    tasks,         \* tasks[t]: the committed row of task t, or NoRow
    trail          \* trail[t]: the audit entries of t in the order committed

vars == <<tasks, trail>>

Init ==
    /\ tasks = [t \in Task |-> NoRow]
    /\ trail = [t \in Task |-> <<>>]

----------------------------------------------------------------------------
Record(t, row, entry) ==
    /\ tasks' = [tasks EXCEPT ![t] = row]
    /\ trail' = [trail EXCEPT ![t] = Append(@, entry)]

(* createTask: the row and its creation entry commit together. *)
Create(t, ty, u) ==
    /\ tasks[t] = NoRow
    /\ Record(t, NewRow(ty, u), AuditEntry(Null, 1, u, NoFields))

Open(t) == tasks[t] # NoRow /\ ~tasks[t].isClosed

(* Fault: the entry is taken from the row already updated. *)
MovedFromTarget(t, s, u, snapshot) ==
    Record(t, MovedRow(tasks[t], s, u, snapshot), AuditEntry(s, s, u, snapshot))

Moved(t, s, u, snapshot) ==
    Record(t, MovedRow(tasks[t], s, u, snapshot),
           AuditEntry(tasks[t].status, s, u, snapshot))

(* A forward change merges exactly the fields the target status requires. *)
Advance(t, u, snapshot) ==
    /\ Open(t)
    /\ tasks[t].status < FinalStatus[tasks[t].type]
    /\ DOMAIN snapshot = Required[tasks[t].type][tasks[t].status + 1]
    /\ Moved(t, tasks[t].status + 1, u, snapshot)

(* A backward change keeps every field collected so far. *)
Reverse(t, u) ==
    /\ Open(t)
    /\ tasks[t].status > 1
    /\ Moved(t, tasks[t].status - 1, u, NoFields)

(* Closing is terminal and only possible at the final status. *)
Close(t) ==
    /\ Open(t)
    /\ tasks[t].status = FinalStatus[tasks[t].type]
    /\ Record(t, ClosedRow(tasks[t]),
              AuditEntry(tasks[t].status, Null, tasks[t].assignee, NoFields))

Next ==
    \E t \in Task :
        \/ \E ty \in Type, u \in User : Create(t, ty, u)
        \/ \E u \in User, snapshot \in FieldMap : Advance(t, u, snapshot)
        \/ \E u \in User : Reverse(t, u)
        \/ Close(t)

Spec == Init /\ [][Next]_vars

----------------------------------------------------------------------------
(* Every row and every audit entry has the shape its table declares. *)
TypeOK ==
    /\ tasks \in [Task -> Row \cup {NoRow}]
    /\ trail \in [Task -> Seq(Entry)]

(* The entries of one task form an unbroken chain: they start with the     *)
(* creation at status 1, each next entry leaves the status the previous    *)
(* one reached, in single steps, and nothing follows a close.              *)
ChainedFrom(h) ==
    /\ h[1].from = Null /\ h[1].to = 1
    /\ \A i \in 2..Len(h) :
          /\ h[i - 1].to # Null
          /\ h[i].from = h[i - 1].to
          /\ h[i].to \in {h[i].from + 1, h[i].from - 1, Null}

(* The row is what its last entry says: same assignee, the status that     *)
(* entry reached, closed exactly when that entry is the close.             *)
DescribedBy(row, last) ==
    /\ row.assignee = last.assignee
    /\ row.isClosed = (last.to = Null)
    /\ row.status = IF last.to = Null THEN last.from ELSE last.to

TrailOf(t) ==
    IF tasks[t] = NoRow
    THEN trail[t] = <<>>
    ELSE /\ Len(trail[t]) > 0
         /\ ChainedFrom(trail[t])
         /\ DescribedBy(tasks[t], trail[t][Len(trail[t])])

(* A task and its audit trail never disagree: no task without its          *)
(* creation entry, no entry without its task, no gap in between, and the   *)
(* last entry always describes the row (createTask, changeStatus and       *)
(* closeTask each write both in one transaction).                          *)
AuditTrail == \A t \in Task : TrailOf(t)

(* Entry i is the latest of h whose snapshot holds field f. *)
LatestWith(h, f, i) ==
    /\ f \in DOMAIN h[i].snapshot
    /\ \A j \in DOMAIN h : j > i => f \notin DOMAIN h[j].snapshot

Replays(row, h) ==
    /\ \A i \in DOMAIN h : DOMAIN h[i].snapshot \subseteq DOMAIN row.fields
    /\ \A f \in DOMAIN row.fields :
          \E i \in DOMAIN h : LatestWith(h, f, i) /\ row.fields[f] = h[i].snapshot[f]

(* Replaying the snapshots in the order they were committed rebuilds the   *)
(* row's custom fields: a field's value is the one the latest snapshot     *)
(* holding it carries, and no field appears that no snapshot holds.        *)
FieldsReplay ==
    \A t \in Task : tasks[t] # NoRow => Replays(tasks[t], trail[t])

HoldsRequired(row) ==
    \A s \in 1..row.status : Required[row.type][s] \subseteq DOMAIN row.fields

(* A task that stands at a status holds every field required on the way    *)
(* there, however often it went back and forth in between.                 *)
RequiredFieldsHeld ==
    \A t \in Task : tasks[t] # NoRow => HoldsRequired(tasks[t])

(* A closed task stands at its type's final status. *)
ClosedAtFinal ==
    \A t \in Task : (tasks[t] # NoRow /\ tasks[t].isClosed) =>
        tasks[t].status = FinalStatus[tasks[t].type]
============================================================================
