-------------------------- MODULE MCTaskLifecycle --------------------------
(***************************************************************************)
(* TaskLifecycle on a small instance: one task of one type with three      *)
(* statuses, trails of at most MaxTrail entries.                           *)
(***************************************************************************)
EXTENDS TaskLifecycle

CONSTANTS dev, f2, f3,
          MaxTrail     \* bound: audit entries per task

MCFinalStatus == [ty \in Type |-> 3]

MCRequired ==
    [ty \in Type |-> [s \in Status |->
        CASE s = 1 -> {} [] s = 2 -> {f2} [] s = 3 -> {f3}]]

BoundedNext == Next /\ \A t \in Task : Len(trail'[t]) <= MaxTrail

MCSpec == Init /\ [][BoundedNext]_vars
============================================================================
