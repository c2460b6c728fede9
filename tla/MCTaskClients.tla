--------------------------- MODULE MCTaskClients ---------------------------
(***************************************************************************)
(* TaskClients on the instance of MCTaskService: one task type of three    *)
(* statuses, one field required at status 2 and one at status 3.           *)
(***************************************************************************)
EXTENDS TaskClients, TLC

CONSTANTS dev, f2, f3, v1

MCFinalStatus == [ty \in Type |-> 3]

MCRequired ==
    [ty \in Type |-> [s \in Status |->
        CASE s = 1 -> {} [] s = 2 -> {f2} [] s = 3 -> {f3}]]

(* Every request a client can make of the one task, with the fields asked. *)
MCRequests ==
    {[op |-> "create", type |-> dev, next |-> u] : u \in User}
    \cup {[op |-> dir, task |-> t, expected |-> s, next |-> u,
           fields |-> IF dir = "backward" \/ s = 3 THEN NoFields
                      ELSE [f \in {IF s = 1 THEN f2 ELSE f3} |-> v1]] :
            dir \in {"forward", "backward"}, t \in Task, s \in 1..3, u \in User}
    \cup {[op |-> "close", task |-> t] : t \in Task}

(* Connections are interchangeable. *)
ConnSymmetry == Permutations(Conn)
============================================================================
