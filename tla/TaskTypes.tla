------------------------------ MODULE TaskTypes ------------------------------
(***************************************************************************)
(* The registry of task types across releases.  A release carries the list *)
(* of type definitions; an instance that boots checks the list against     *)
(* itself and against the types of persisted tasks, and serves with it     *)
(* until it stops.  Tasks outlive releases, and during a rolling deploy    *)
(* instances of two releases serve at the same time.                       *)
(***************************************************************************)
EXTENDS Naturals, Sequences

CONSTANTS
    Task,          \* task ids
    Instance,      \* service instances
    Releases,      \* the definition lists instances may be deployed with
    NoRow,         \* "no row with this id"
    Down           \* "the instance does not serve"

(* The statuses of a definition are a list. *)
ASSUME ReleasesAssumption ==
    \A defs \in Releases : \A i \in DOMAIN defs :
        LET statuses == defs[i].statuses
        IN  statuses \in Seq({statuses[j] : j \in DOMAIN statuses})

VARIABLES
    rows,          \* rows[t]: [type, status] of a persisted task, or NoRow
    serving,       \* serving[i]: the definition list instance i booted with
    beside         \* beside[t]: the instances that served beside the one that
                   \* created t, and have not stopped since (history)

vars == <<rows, serving, beside>>

----------------------------------------------------------------------------
(* A definition is [type, named, statuses]; a status is [status, fields],  *)
(* fields the sequence of its required keys; named tells that no display   *)
(* string of the definition is blank.                                      *)

Numbers(def) == [i \in DOMAIN def.statuses |-> def.statuses[i].status]

UniqueTypes(defs) ==
    \A i, j \in DOMAIN defs : defs[i].type = defs[j].type => i = j

(* Fault: gaps are not noticed. *)
SequenceStartsAtOne(def) == \E i \in DOMAIN def.statuses : Numbers(def)[i] = 1

(* The numbers, sorted, are 1, 2, 3, ...: the code sorts a copy first. *)
ContiguousFromOne(def) ==
    /\ Len(def.statuses) > 0
    /\ {Numbers(def)[i] : i \in DOMAIN def.statuses} = 1..Len(def.statuses)

NoFieldsAtCreation(def) ==
    \A i \in DOMAIN def.statuses :
        def.statuses[i].status = 1 => def.statuses[i].fields = <<>>

UniqueFieldKeys(def) ==
    \A i, j \in DOMAIN def.statuses :
        \A k \in DOMAIN def.statuses[i].fields, m \in DOMAIN def.statuses[j].fields :
            def.statuses[i].fields[k] = def.statuses[j].fields[m] => i = j /\ k = m

SelfConsistent(defs) ==
    /\ UniqueTypes(defs)
    /\ \A i \in DOMAIN defs :
          /\ defs[i].named
          /\ ContiguousFromOne(defs[i])
          /\ NoFieldsAtCreation(defs[i])
          /\ UniqueFieldKeys(defs[i])

Registered(defs, ty) == \E i \in DOMAIN defs : defs[i].type = ty

Definition(defs, ty) == defs[CHOOSE i \in DOMAIN defs : defs[i].type = ty]

(* finalStatusOf: the LAST entry of the definition's statuses. *)
FinalStatusOf(defs, ty) ==
    LET def == Definition(defs, ty) IN def.statuses[Len(def.statuses)].status

StatusDefined(defs, ty, s) ==
    \E i \in DOMAIN Definition(defs, ty).statuses : Definition(defs, ty).statuses[i].status = s

PersistedTypesRegistered(defs) ==
    \A t \in Task : rows[t] # NoRow => Registered(defs, rows[t].type)

----------------------------------------------------------------------------
(* Fault: persisted tasks are not looked at. *)
BootUnchecked(i, defs) ==
    /\ serving[i] = Down
    /\ SelfConsistent(defs)
    /\ serving' = [serving EXCEPT ![i] = defs]
    /\ UNCHANGED <<rows, beside>>

(* onModuleInit: an instance that fails a check never serves.  It counts as *)
(* serving from the check on.                                               *)
Boot(i, defs) ==
    /\ serving[i] = Down
    /\ SelfConsistent(defs)
    /\ PersistedTypesRegistered(defs)
    /\ serving' = [serving EXCEPT ![i] = defs]
    /\ UNCHANGED <<rows, beside>>

Stop(i) ==
    /\ serving[i] # Down
    /\ serving' = [serving EXCEPT ![i] = Down]
    /\ beside' = [t \in Task |-> beside[t] \ {i}]
    /\ UNCHANGED rows

Create(i, t, ty) ==
    /\ rows[t] = NoRow
    /\ Registered(serving[i], ty)
    /\ rows' = [rows EXCEPT ![t] = [type |-> ty, status |-> 1]]
    /\ beside' = [beside EXCEPT ![t] = {j \in Instance \ {i} : serving[j] # Down}]
    /\ UNCHANGED serving

(* A forward move also looks its target status up (statusDefinitionOf). *)
Forward(i, t) ==
    /\ rows[t].status + 1 <= FinalStatusOf(serving[i], rows[t].type)
    /\ StatusDefined(serving[i], rows[t].type, rows[t].status + 1)
    /\ rows' = [rows EXCEPT ![t].status = @ + 1]
    /\ UNCHANGED <<serving, beside>>

Backward(i, t) ==
    /\ rows[t].status - 1 >= 1
    /\ rows[t].status - 1 <= FinalStatusOf(serving[i], rows[t].type)
    /\ rows' = [rows EXCEPT ![t].status = @ - 1]
    /\ UNCHANGED <<serving, beside>>

Serve(i) ==
    /\ serving[i] # Down
    /\ \E t \in Task :
          \/ \E j \in DOMAIN serving[i] : Create(i, t, serving[i][j].type)
          \/ /\ rows[t] # NoRow
             /\ Registered(serving[i], rows[t].type)
             /\ Forward(i, t) \/ Backward(i, t)

Init ==
    /\ rows = [t \in Task |-> NoRow]
    /\ serving = [i \in Instance |-> Down]
    /\ beside = [t \in Task |-> {}]

Next == \E i \in Instance : (\E defs \in Releases : Boot(i, defs)) \/ Stop(i) \/ Serve(i)

Spec == Init /\ [][Next]_vars

----------------------------------------------------------------------------
(* While an instance serves, every persisted task is of a type it knows: no *)
(* request for a task ends in finalStatusOf's internal error.  Holds when   *)
(* one instance serves at a time.                                           *)
KnownTypes ==
    \A i \in Instance : serving[i] # Down => PersistedTypesRegistered(serving[i])

(* An instance does not know the type of a task only if another release     *)
(* created the task while it served already: the check at boot lets none in *)
(* that a persisted task needs more of, and an instance that boots again    *)
(* knows every type or is refused.                                          *)
KnownUnlessOverlapped ==
    \A i \in Instance, t \in Task :
        (serving[i] # Down /\ rows[t] # NoRow /\ i \notin beside[t]) =>
            Registered(serving[i], rows[t].type)

(* Whatever the releases so far, the step a task may take next leads to a   *)
(* status the serving release defines: statusDefinitionOf never throws.     *)
ForwardStepsDefined ==
    \A i \in Instance, t \in Task :
        (/\ serving[i] # Down /\ rows[t] # NoRow
         /\ Registered(serving[i], rows[t].type)
         /\ rows[t].status + 1 <= FinalStatusOf(serving[i], rows[t].type)) =>
            StatusDefined(serving[i], rows[t].type, rows[t].status + 1)

(* The registry answers for every persisted task: its type is known, unless *)
(* a release that serves beside brought it, and its next step defined,      *)
(* whatever releases come and go, and overlap.                              *)
TasksServable == KnownUnlessOverlapped /\ ForwardStepsDefined

(* "A persisted task's type/status pair is always registered by             *)
(* construction (onModuleInit refuses to boot otherwise)" (statusNameOf).   *)
KnownStatuses ==
    \A i \in Instance, t \in Task :
        (serving[i] # Down /\ rows[t] # NoRow) =>
            /\ Registered(serving[i], rows[t].type)
            /\ StatusDefined(serving[i], rows[t].type, rows[t].status)

(* "Every status number must appear exactly once, ascending from 1 ... an   *)
(* out-of-order run would make either derivation wrong": the final status   *)
(* an instance derives is the highest its definition has.                   *)
FinalStatusIsHighest ==
    \A i \in Instance : serving[i] # Down =>
        \A j \in DOMAIN serving[i] : \A k \in DOMAIN serving[i][j].statuses :
            serving[i][j].statuses[k].status <= FinalStatusOf(serving[i], serving[i][j].type)
=============================================================================
