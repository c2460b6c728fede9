--------------------------- MODULE MCTaskService ---------------------------
(***************************************************************************)
(* TaskService on small instances: one task type of three statuses, one    *)
(* field required at status 2 and one at status 3.                         *)
(***************************************************************************)
EXTENDS TaskService, TLC

CONSTANTS dev, f2, f3, v1, v2, u1, u2

MCFinalStatus == [ty \in Type |-> 3]

MCRequired ==
    [ty \in Type |-> [s \in Status |->
        CASE s = 1 -> {} [] s = 2 -> {f2} [] s = 3 -> {f3}]]

Submit(f, v) == [g \in {f} |-> v]

Create(ty, u) == [op |-> "create", type |-> ty, next |-> u]
Change(dir, t, s, u, fields) ==
    [op |-> dir, task |-> t, expected |-> s, next |-> u, fields |-> fields]

Closes == {[op |-> "close", task |-> t] : t \in Task}

(* Requests a well-behaved client sends: right fields for the move it asks *)
(* for, from any status it may have seen, to any user.                     *)
PlainRequests ==
    {Create(dev, u) : u \in User}
    \cup {Change("forward", t, s, u, Submit(IF s = 1 THEN f2 ELSE f3, v)) :
            t \in Task, s \in 1..2, u \in User, v \in Value}
    \cup {Change("backward", t, s, u, NoFields) :
            t \in Task, s \in 2..3, u \in User}
    \cup Closes

(* And the ones that must be refused: unknown type or user, a move past    *)
(* either end, missing, foreign and unacceptable fields.                   *)
BadRequests ==
    {Create(UnknownType, u1), Create(dev, UnknownUser)}
    \cup {Change("forward", t, 3, u1, NoFields) : t \in Task}
    \cup {Change("backward", t, 1, u1, NoFields) : t \in Task}
    \cup {Change("forward", t, 1, u1, fields) : t \in Task,
            fields \in {NoFields, Submit(f3, v1), Submit(f2, BadValue)}}
    \cup {Change("forward", t, 1, UnknownUser, Submit(f2, v1)) : t \in Task}
    \cup {[op |-> "close", task |-> UnknownTask],
          Change("backward", UnknownTask, 2, u1, NoFields)}

(* Connections are interchangeable. *)
ConnSymmetry == Permutations(Conn)

AllRequests == PlainRequests \cup BadRequests
============================================================================
