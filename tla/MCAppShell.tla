----------------------------- MODULE MCAppShell -----------------------------
(***************************************************************************)
(* AppShell on a directory as long as the cap on its pages, a task of a    *)
(* type that only release 2 knows, and one that is gone.  A server that    *)
(* hands out wrong cursors meets a client opened at the root.              *)
(***************************************************************************)
EXTENDS AppShell

MCDirectory == <<"u1", "u2", "u3">>
MCAssignee == [t1 |-> "u1", gone |-> "nobody"]
MCTask == DOMAIN MCAssignee
MCTypeOf == [t1 |-> "b", gone |-> "a"]
MCTypes == <<{"a"}, {"b"}>>

MCInit == Init /\ (honest \/ (route = Root /\ cached = 0))

MCSpec == MCInit /\ [][Next]_vars /\ Fairness
=============================================================================
