---------------------------- MODULE TaskClients ----------------------------
(***************************************************************************)
(* TaskService driven by clients that act on a version of the task they    *)
(* have read: a change carries as expectedStatus the status of that        *)
(* version, a close is offered when that version stood at the final        *)
(* status.  basis[c] remembers which version the request on c is based on. *)
(***************************************************************************)
EXTENDS TaskService

VARIABLE basis     \* basis[c]: audit entries behind the version acted on

clientVars == <<vars, basis>>

ClientInit == Init /\ basis = [c \in Conn |-> 0]

StatusAfter(entry) == IF entry.to = Null THEN entry.from ELSE entry.to

(* Version i of the task offers request q (canAdvance, canReverse, canClose *)
(* and the expectedStatus TaskDetailView submits).                          *)
Offers(i, q) ==
    IF q.op = "create" THEN i = 0
    ELSE /\ q.task \in Task
         /\ i \in DOMAIN history[q.task]
         /\ LET s == StatusAfter(history[q.task][i])
            IN  IF q.op = "close" THEN s = FinalStatus[tasks[q.task].type]
                                  ELSE s = q.expected

ClientBegin(c) ==
    /\ Begin(c)
    /\ \E i \in 0..MaxClock :
          /\ Offers(i, tx'[c].req)
          /\ basis' = [basis EXCEPT ![c] = i]

ClientNext ==
    \/ \E c \in Conn : ClientBegin(c)
    \/ /\ \/ \E c \in Conn : Progress(c) \/ Abort(c)
          \/ \E e \in pending : Publish(e)
       /\ UNCHANGED basis

ClientSpec == ClientInit /\ [][ClientNext]_clientVars

ClientFairSpec == ClientSpec /\ \A c \in Conn : WF_vars(Progress(c))

----------------------------------------------------------------------------
(* A change that passed the checks was made on the version the client had  *)
(* read: a stale or duplicate submit never gets past expectedStatus.       *)
StaleSubmitRejected ==
    \A c \in Conn :
        (InPhase(c, "written") /\ tx[c].req.op \in {"forward", "backward"}) =>
            basis[c] = Len(history[tx[c].task])

(* A change that passed the checks finds the task at the status its client *)
(* saw, whatever happened in between: the steps since then cancel out.     *)
StaleSubmitOnlyAfterReturn ==
    \A c \in Conn :
        (InPhase(c, "written") /\ tx[c].req.op \in {"forward", "backward"}) =>
            LET h == history[tx[c].task]
                later == {i \in DOMAIN h : i > basis[c]}
            IN  /\ \A i \in later : h[i].to # Null
                /\ Cardinality({i \in later : h[i].to = h[i].from + 1}) =
                       Cardinality({i \in later : h[i].to + 1 = h[i].from})
============================================================================
