------------------------------ MODULE TaskData ------------------------------
(***************************************************************************)
(* The data of the task service: the rows of its two tables without their  *)
(* timestamps, and the registry that says which statuses and fields a task *)
(* type has.  Shared by the abstract and the detailed specification.       *)
(***************************************************************************)
EXTENDS Naturals, Sequences

CONSTANTS
    Task,          \* task ids
    Type,          \* registered task types
    User,          \* rows of the users table
    Field,         \* custom field keys
    Value,         \* sanitized custom field values
    MaxStatus,     \* the longest status sequence of a registered type
    FinalStatus,   \* FinalStatus[ty]: the last status of type ty
    Required,      \* Required[ty][s]: fields a forward move into s must carry
    NoRow          \* "no row with this id"

Status == 1..MaxStatus

Null == 0          \* the SQL NULL of from_status and to_status

ASSUME RegistryAssumption ==
    /\ MaxStatus \in Nat \ {0}
    /\ FinalStatus \in [Type -> Status]
    /\ Required \in [Type -> [Status -> SUBSET Field]]
    /\ \A ty \in Type : Required[ty][1] = {}

FieldMap == UNION {[S -> Value] : S \in SUBSET Field}

NoFields == [f \in {} |-> Null]

Row == [type : Type, status : Status, isClosed : BOOLEAN,
        assignee : User, fields : FieldMap]

Entry == [from : Status \cup {Null}, to : Status \cup {Null},
          assignee : User, snapshot : FieldMap]

ASSUME NoRowAssumption == NoRow \notin Row

----------------------------------------------------------------------------
(* Operators marked "fault" are used by no specification: each is a faulty  *)
(* variant of the definition after it, by which a property is seen to fail. *)

(* Fault: the fields already held win. *)
MergeKeepsOld(old, new) ==
    [f \in DOMAIN old \cup DOMAIN new |->
        IF f \in DOMAIN old THEN old[f] ELSE new[f]]

(* { ...old, ...new }: the later object wins key by key. *)
Merge(old, new) ==
    [f \in DOMAIN old \cup DOMAIN new |->
        IF f \in DOMAIN new THEN new[f] ELSE old[f]]

(* The one shape every task starts from: status 1, open, no fields. *)
NewRow(ty, u) ==
    [type |-> ty, status |-> 1, isClosed |-> FALSE,
     assignee |-> u, fields |-> NoFields]

(* Fault: the submitted fields replace those collected so far. *)
MovedRowReplacing(row, s, u, snapshot) ==
    [row EXCEPT !.status = s, !.assignee = u, !.fields = snapshot]

(* The row after a change of status to s, handed to u. *)
MovedRow(row, s, u, snapshot) ==
    [row EXCEPT !.status = s, !.assignee = u, !.fields = Merge(@, snapshot)]

(* The row after the task is closed: nothing else changes. *)
ClosedRow(row) == [row EXCEPT !.isClosed = TRUE]

AuditEntry(from, to, u, snapshot) ==
    [from |-> from, to |-> to, assignee |-> u, snapshot |-> snapshot]
=============================================================================
