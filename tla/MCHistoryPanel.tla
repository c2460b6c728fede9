--------------------------- MODULE MCHistoryPanel ---------------------------
(***************************************************************************)
(* Two tasks of three statuses, trails of up to four entries and pages of  *)
(* two: a trail grows past a page while a page of it is in flight.  The    *)
(* drawer is opened twice, so that it also opens on another task's store.  *)
(***************************************************************************)
EXTENDS HistoryPanel

(* Answers in order, controls disabled while a page is in flight; tasks may *)
(* move back, calls fail, or histories come from a replica.                 *)
CalmSettings ==
    {Calm, [Calm EXCEPT !.reversals = TRUE], [Calm EXCEPT !.reliable = FALSE],
     [Calm EXCEPT !.primary = FALSE]}

(* The departures: one condition dropped at a time. *)
LateSettings == {[Calm EXCEPT !.fifo = FALSE]}
FlagSettings == {[Calm EXCEPT !.flag = FALSE]}
BackSettings == {[Calm EXCEPT !.reversals = TRUE]}
LossySettings == {[Calm EXCEPT !.reliable = FALSE]}
ReplicaSettings == {[Calm EXCEPT !.primary = FALSE]}
=============================================================================
