------------------------ MODULE TaskLifecycleProofs ------------------------
(***************************************************************************)
(* The invariants of the abstract task, for every set of tasks, users,     *)
(* types, fields and values.                                               *)
(***************************************************************************)
EXTENDS TaskLifecycle, TaskDataProofs

----------------------------------------------------------------------------
(* The three things a step can do to the task t it works on, with the      *)
(* facts about the row before it that its guard gives.                     *)
Recorded(t, row, entry) ==
    /\ row \in Row /\ entry \in Entry
    /\ tasks' = [tasks EXCEPT ![t] = row]
    /\ trail' = [trail EXCEPT ![t] = Append(@, entry)]

(* A task is created. *)
Creates(t, row, entry) ==
    /\ tasks[t] = NoRow
    /\ row.status = 1 /\ ~row.isClosed /\ row.fields = NoFields
    /\ entry.from = Null /\ entry.to = 1
    /\ entry.assignee = row.assignee /\ entry.snapshot = NoFields

(* It moves one status up or down. *)
Moves(t, row, entry) ==
    /\ tasks[t] \in Row /\ tasks[t] # NoRow /\ ~tasks[t].isClosed
    /\ row.type = tasks[t].type /\ ~row.isClosed
    /\ entry.from = tasks[t].status /\ entry.to = row.status
    /\ entry.assignee = row.assignee
    /\ row.fields = Merge(tasks[t].fields, entry.snapshot)
    /\ \/ /\ row.status = tasks[t].status + 1
          /\ DOMAIN entry.snapshot = Required[row.type][row.status]
       \/ row.status = tasks[t].status - 1

(* It is closed, at its final status. *)
Closes(t, row, entry) ==
    /\ tasks[t] \in Row /\ tasks[t] # NoRow /\ ~tasks[t].isClosed
    /\ tasks[t].status = FinalStatus[tasks[t].type]
    /\ row.type = tasks[t].type /\ row.isClosed
    /\ row.status = tasks[t].status /\ row.assignee = tasks[t].assignee
    /\ row.fields = tasks[t].fields
    /\ entry.from = row.status /\ entry.to = Null
    /\ entry.assignee = row.assignee /\ entry.snapshot = NoFields

(* Every step is one of the three on one task. *)
LEMMA StepCases ==
  ASSUME TypeOK, Next
  PROVE  \E t \in Task, row \in Row, entry \in Entry :
            /\ Recorded(t, row, entry)
            /\ Creates(t, row, entry) \/ Moves(t, row, entry) \/ Closes(t, row, entry)
  <1>1. ASSUME NEW t \in Task, NEW ty \in Type, NEW u \in User, Create(t, ty, u)
        PROVE  \E row \in Row, entry \in Entry :
                  Recorded(t, row, entry) /\ Creates(t, row, entry)
    <2> DEFINE row == NewRow(ty, u)
               entry == AuditEntry(Null, 1, u, NoFields)
    <2>1. 1 \in Status
      BY RegistryAssumption DEF Status
    <2>2. entry \in Entry /\ entry.from = Null /\ entry.to = 1
          /\ entry.assignee = u /\ entry.snapshot = NoFields
      BY <2>1, AuditEntryFields, NoFieldsType
    <2>3. row \in Row /\ row.status = 1 /\ ~row.isClosed
          /\ row.fields = NoFields /\ row.assignee = u
      BY ZenonT(60), NewRowFields
    <2>4. tasks[t] = NoRow /\ Record(t, row, entry)
      BY <1>1 DEF Create
    <2> HIDE DEF row, entry
    <2> QED
      BY <2>2, <2>3, <2>4 DEF Recorded, Creates, Record
  <1>2. ASSUME NEW t \in Task, NEW s \in Status, NEW u \in User,
               NEW snapshot \in FieldMap, Open(t), Moved(t, s, u, snapshot),
               \/ /\ s = tasks[t].status + 1
                  /\ DOMAIN snapshot = Required[tasks[t].type][s]
               \/ s = tasks[t].status - 1
        PROVE  \E row \in Row, entry \in Entry :
                  Recorded(t, row, entry) /\ Moves(t, row, entry)
    <2> DEFINE row == MovedRow(tasks[t], s, u, snapshot)
               entry == AuditEntry(tasks[t].status, s, u, snapshot)
    <2>1. tasks[t] \in Row /\ tasks[t] # NoRow /\ ~tasks[t].isClosed
      BY <1>2 DEF TypeOK, Open
    <2>2. tasks[t].status \in Status
      BY <2>1 DEF Row
    <2>3. entry \in Entry /\ entry.from = tasks[t].status /\ entry.to = s
          /\ entry.assignee = u /\ entry.snapshot = snapshot
      BY <2>2, AuditEntryFields
    <2>4. row \in Row /\ row.type = tasks[t].type /\ row.isClosed = tasks[t].isClosed
          /\ row.status = s /\ row.assignee = u
          /\ row.fields = Merge(tasks[t].fields, snapshot)
      BY <2>1, MovedRowFields
    <2>5. Record(t, row, entry)
      BY <1>2 DEF Moved
    <2> HIDE DEF row, entry
    <2> QED
      BY <1>2, <2>1, <2>3, <2>4, <2>5 DEF Recorded, Moves, Record
  <1>3. ASSUME NEW t \in Task, NEW u \in User, NEW snapshot \in FieldMap,
               Advance(t, u, snapshot)
        PROVE  \E row \in Row, entry \in Entry :
                  Recorded(t, row, entry) /\ Moves(t, row, entry)
    <2>1. tasks[t] \in Row /\ Open(t) /\ tasks[t].status < FinalStatus[tasks[t].type]
      BY <1>3 DEF TypeOK, Advance, Open
    <2>2. tasks[t].status + 1 \in Status
      BY <2>1, RegistryAssumption DEF Row, Status
    <2> QED
      BY <1>2, <1>3, <2>1, <2>2 DEF Advance
  <1>4. ASSUME NEW t \in Task, NEW u \in User, Reverse(t, u)
        PROVE  \E row \in Row, entry \in Entry :
                  Recorded(t, row, entry) /\ Moves(t, row, entry)
    <2>1. tasks[t] \in Row /\ Open(t) /\ tasks[t].status > 1
      BY <1>4 DEF TypeOK, Reverse, Open
    <2>2. tasks[t].status - 1 \in Status
      BY <2>1, RegistryAssumption DEF Row, Status
    <2> QED
      BY <1>2, <1>4, <2>1, <2>2, NoFieldsType DEF Reverse
  <1>5. ASSUME NEW t \in Task, Close(t)
        PROVE  \E row \in Row, entry \in Entry :
                  Recorded(t, row, entry) /\ Closes(t, row, entry)
    <2> DEFINE row == ClosedRow(tasks[t])
               entry == AuditEntry(tasks[t].status, Null, tasks[t].assignee, NoFields)
    <2>1. tasks[t] \in Row /\ tasks[t] # NoRow /\ ~tasks[t].isClosed
      BY <1>5 DEF TypeOK, Close, Open
    <2>2. /\ tasks[t].status \in Status \cup {Null} /\ Null \in Status \cup {Null}
          /\ tasks[t].assignee \in User
      BY <2>1 DEF Row
    <2>3. entry \in Entry /\ entry.from = tasks[t].status /\ entry.to = Null
          /\ entry.assignee = tasks[t].assignee /\ entry.snapshot = NoFields
      BY <2>2, NoFieldsType DEF AuditEntry, Entry
    <2>4. row \in Row /\ row.type = tasks[t].type /\ row.isClosed
          /\ row.status = tasks[t].status /\ row.assignee = tasks[t].assignee
          /\ row.fields = tasks[t].fields
      BY <2>1, ClosedRowFields
    <2>5. Record(t, row, entry) /\ tasks[t].status = FinalStatus[tasks[t].type]
      BY <1>5 DEF Close
    <2> HIDE DEF row, entry
    <2> QED
      BY <2>1, <2>3, <2>4, <2>5 DEF Recorded, Closes, Record
  <1> QED
    BY <1>1, <1>3, <1>4, <1>5 DEF Next

(* Every step of the abstract task keeps its rows and entries well formed. *)
THEOREM LifecycleTypeOK == Spec => []TypeOK
  <1>1. Init => TypeOK
    BY DEF Init, TypeOK
  <1>2. TypeOK /\ [Next]_vars => TypeOK'
    <2> SUFFICES ASSUME TypeOK, [Next]_vars PROVE TypeOK'
      OBVIOUS
    <2>1. ASSUME NEW t \in Task, NEW row, NEW entry, Recorded(t, row, entry)
          PROVE  TypeOK'
      <3>1. trail[t] \in Seq(Entry) /\ Append(trail[t], entry) \in Seq(Entry)
        BY <2>1 DEF TypeOK, Recorded
      <3> QED
        BY <2>1, <3>1 DEF TypeOK, Recorded
    <2>2. CASE Next
      BY <2>1, <2>2, StepCases
    <2>3. CASE UNCHANGED vars
      BY <2>3 DEF vars, TypeOK
    <2> QED
      BY <2>2, <2>3
  <1> QED
    BY <1>1, <1>2, PTL DEF Spec

----------------------------------------------------------------------------
(* An entry that leaves the status the trail reached prolongs the chain. *)
LEMMA ChainExtends ==
  ASSUME NEW h \in Seq(Entry), NEW e \in Entry,
         Len(h) > 0, ChainedFrom(h), h[Len(h)].to # Null,
         e.from = h[Len(h)].to, e.to \in {e.from + 1, e.from - 1, Null}
  PROVE  ChainedFrom(Append(h, e))
  <1> DEFINE g == Append(h, e)
  <1>1. /\ Len(g) = Len(h) + 1 /\ Len(h) \in Nat /\ DOMAIN h = 1..Len(h)
        /\ \A i \in DOMAIN h : g[i] = h[i]
        /\ g[Len(h) + 1] = e
    BY AppendEntry
  <1> HIDE DEF g
  <1>2. g[1].from = Null /\ g[1].to = 1
    BY <1>1 DEF ChainedFrom
  <1>3. ASSUME NEW i \in 2..Len(g)
        PROVE  /\ g[i - 1].to # Null /\ g[i].from = g[i - 1].to
               /\ g[i].to \in {g[i].from + 1, g[i].from - 1, Null}
    <2>1. CASE i \in 2..Len(h)
      BY SMTT(60), <1>1, <2>1 DEF ChainedFrom
    <2>2. CASE i = Len(h) + 1
      BY <1>1, <2>2
    <2> QED
      BY <1>1, <2>1, <2>2
  <1> QED
    BY <1>2, <1>3 DEF ChainedFrom, g

(* A step keeps the trail of the task it works on complete. *)
LEMMA StepKeepsTrail ==
  ASSUME TypeOK, NEW t \in Task, NEW row \in Row, NEW entry \in Entry,
         Recorded(t, row, entry), TrailOf(t),
         Creates(t, row, entry) \/ Moves(t, row, entry) \/ Closes(t, row, entry)
  PROVE  TrailOf(t)'
  <1>1. tasks'[t] = row /\ row # NoRow /\ trail'[t] = Append(trail[t], entry)
    BY NoRowAssumption DEF TypeOK, Recorded
  <1>2. trail[t] \in Seq(Entry)
    BY DEF TypeOK
  <1>3. /\ Len(trail'[t]) = Len(trail[t]) + 1 /\ Len(trail[t]) \in Nat
        /\ trail'[t][Len(trail'[t])] = entry
    BY <1>1, <1>2, AppendEntry
  <1>4. CASE Creates(t, row, entry)
    <2>1. trail[t] = <<>>
      BY <1>4 DEF Creates, TrailOf
    <2>2. trail'[t] = <<entry>>
      BY <1>1, <2>1
    <2>3. ChainedFrom(trail'[t])
      BY <1>4, <2>2 DEF Creates, ChainedFrom
    <2>4. row.isClosed = FALSE /\ entry.to = 1 /\ row.status = 1
          /\ row.assignee = entry.assignee /\ entry.to # Null
      BY <1>4 DEF Creates, Row, Null
    <2>5. DescribedBy(row, entry)
      BY <2>4 DEF DescribedBy
    <2> QED
      BY <1>1, <1>3, <2>3, <2>5 DEF TrailOf
  <1>5. CASE Moves(t, row, entry) \/ Closes(t, row, entry)
    <2>1. /\ tasks[t] \in Row /\ ~tasks[t].isClosed /\ tasks[t] # NoRow
      BY <1>5 DEF Moves, Closes
    <2>2. /\ Len(trail[t]) > 0 /\ ChainedFrom(trail[t])
          /\ trail[t][Len(trail[t])].to # Null
          /\ tasks[t].status = trail[t][Len(trail[t])].to
      BY <2>1 DEF TrailOf, DescribedBy
    <2>3. entry.from = tasks[t].status /\ entry.to \in {entry.from + 1, entry.from - 1, Null}
      BY <1>5 DEF Moves, Closes
    <2>4. ChainedFrom(trail'[t])
      BY <1>1, <1>2, <2>2, <2>3, ChainExtends
    <2>5. row.status \in Nat \ {0}
      BY DEF Row, Status
    <2>6. CASE Moves(t, row, entry)
      <3>1. row.isClosed = FALSE /\ entry.to = row.status /\ entry.to # Null
            /\ row.assignee = entry.assignee
        BY <2>5, <2>6 DEF Moves, Row, Null
      <3>2. DescribedBy(row, entry)
        BY <3>1 DEF DescribedBy
      <3> QED
        BY <1>1, <1>3, <2>4, <3>2 DEF TrailOf
    <2>7. CASE Closes(t, row, entry)
      <3>1. row.isClosed = TRUE /\ entry.from = row.status /\ entry.to = Null
            /\ row.assignee = entry.assignee
        BY <2>7 DEF Closes, Row
      <3>2. DescribedBy(row, entry)
        BY <3>1 DEF DescribedBy
      <3> QED
        BY <1>1, <1>3, <2>4, <3>2 DEF TrailOf
    <2> QED
      BY <1>5, <2>6, <2>7
  <1> QED
    BY <1>4, <1>5

(* Merging the appended snapshot into the row keeps the row a replay of    *)
(* its trail.                                                              *)
LEMMA ReplayExtends ==
  ASSUME NEW h \in Seq(Entry), NEW e \in Entry, NEW row \in Row, NEW new \in Row,
         Replays(row, h), new.fields = Merge(row.fields, e.snapshot)
  PROVE  Replays(new, Append(h, e))
  <1> DEFINE g == Append(h, e)
             n == Len(h) + 1
  <1>1. /\ DOMAIN g = 1..n /\ DOMAIN h = 1..Len(h) /\ Len(h) \in Nat
        /\ \A i \in DOMAIN h : g[i] = h[i]
        /\ g[n] = e
    BY AppendEntry
  <1>2. /\ DOMAIN new.fields = DOMAIN row.fields \cup DOMAIN e.snapshot
        /\ \A f \in DOMAIN e.snapshot : new.fields[f] = e.snapshot[f]
        /\ \A f \in DOMAIN row.fields \ DOMAIN e.snapshot : new.fields[f] = row.fields[f]
    <2>1. row.fields \in FieldMap /\ e.snapshot \in FieldMap
      BY DEF Row, Entry
    <2> DEFINE m == Merge(row.fields, e.snapshot)
    <2>2. /\ DOMAIN m = DOMAIN row.fields \cup DOMAIN e.snapshot
          /\ \A f \in DOMAIN e.snapshot : m[f] = e.snapshot[f]
          /\ \A f \in DOMAIN row.fields \ DOMAIN e.snapshot : m[f] = row.fields[f]
      BY ZenonT(60), <2>1, MergeType
    <2>3. new.fields = m
      OBVIOUS
    <2> HIDE DEF m
    <2> QED
      BY <2>2, <2>3
  <1> HIDE DEF g
  <1>3. ASSUME NEW i \in DOMAIN g
        PROVE  DOMAIN g[i].snapshot \subseteq DOMAIN new.fields
    BY <1>1, <1>2 DEF Replays
  <1>4. ASSUME NEW f \in DOMAIN new.fields
        PROVE  \E i \in DOMAIN g : LatestWith(g, f, i) /\ new.fields[f] = g[i].snapshot[f]
    <2>1. CASE f \in DOMAIN e.snapshot
      <3>1. LatestWith(g, f, n)
        BY <1>1, <2>1 DEF LatestWith
      <3> QED
        BY <1>1, <1>2, <2>1, <3>1
    <2>2. CASE f \notin DOMAIN e.snapshot
      <3>1. PICK i \in DOMAIN h : LatestWith(h, f, i) /\ row.fields[f] = h[i].snapshot[f]
        BY <1>2, <2>2 DEF Replays
      <3>2. i \in DOMAIN g /\ LatestWith(g, f, i)
        BY <1>1, <2>2, <3>1 DEF LatestWith
      <3> QED
        BY <1>1, <1>2, <2>2, <3>1, <3>2
    <2> QED
      BY <2>1, <2>2
  <1> QED
    BY <1>3, <1>4 DEF Replays, g

(* A row that has just been created is the replay of its one entry. *)
LEMMA ReplayStarts ==
  ASSUME NEW e \in Entry, NEW row \in Row,
         row.fields = NoFields, e.snapshot = NoFields
  PROVE  Replays(row, <<e>>)
  <1>1. DOMAIN NoFields = {}
    BY DEF NoFields
  <1> QED
    BY <1>1 DEF Replays

(* A step keeps the fields of the task it works on a replay of its trail. *)
LEMMA StepKeepsReplay ==
  ASSUME TypeOK, NEW t \in Task, NEW row \in Row, NEW entry \in Entry,
         Recorded(t, row, entry), TrailOf(t),
         tasks[t] # NoRow => Replays(tasks[t], trail[t]),
         Creates(t, row, entry) \/ Moves(t, row, entry) \/ Closes(t, row, entry)
  PROVE  Replays(tasks[t], trail[t])'
  <1>1. tasks'[t] = row /\ trail'[t] = Append(trail[t], entry) /\ trail[t] \in Seq(Entry)
    BY DEF TypeOK, Recorded
  <1>2. CASE Creates(t, row, entry)
    <2>0. trail[t] = <<>>
      BY <1>2 DEF Creates, TrailOf
    <2>1. trail'[t] = <<entry>>
      BY <1>1, <2>0
    <2>2. Replays(row, <<entry>>)
      BY <1>2, ReplayStarts DEF Creates
    <2> QED
      BY <1>1, <2>1, <2>2 DEF Replays, LatestWith
  <1>3. CASE Moves(t, row, entry) \/ Closes(t, row, entry)
    <2>1. tasks[t] \in Row /\ Replays(tasks[t], trail[t])
      BY <1>3 DEF Moves, Closes
    <2>2. row.fields = Merge(tasks[t].fields, entry.snapshot)
      <3>1. tasks[t].fields \in FieldMap
        BY <2>1 DEF Row
      <3> QED
        BY <1>3, <3>1, MergeNoFields DEF Moves, Closes
    <2>3. Replays(row, Append(trail[t], entry))
      BY <1>1, <2>1, <2>2, ReplayExtends
    <2> QED
      BY SMTT(60), <1>1, <2>3 DEF Replays, LatestWith
  <1> QED
    BY <1>2, <1>3

(* A step keeps every field required on the way to the task's status. *)
LEMMA StepKeepsRequired ==
  ASSUME TypeOK, NEW t \in Task, NEW row \in Row, NEW entry \in Entry,
         tasks[t] # NoRow => HoldsRequired(tasks[t]),
         Creates(t, row, entry) \/ Moves(t, row, entry) \/ Closes(t, row, entry)
  PROVE  HoldsRequired(row)
  <1>1. row.type \in Type /\ row.status \in Nat /\ entry.snapshot \in FieldMap
    BY DEF Row, Status, Entry
  <1>2. CASE Creates(t, row, entry)
    BY <1>1, <1>2, RegistryAssumption DEF Creates, HoldsRequired
  <1>3. CASE Moves(t, row, entry)
    <2>1. tasks[t] \in Row /\ HoldsRequired(tasks[t]) /\ tasks[t].status \in Nat
      BY <1>3 DEF Moves, Row, Status
    <2>2. DOMAIN row.fields = DOMAIN tasks[t].fields \cup DOMAIN entry.snapshot
      <3>1. tasks[t].fields \in FieldMap
        BY <2>1 DEF Row
      <3> DEFINE m == Merge(tasks[t].fields, entry.snapshot)
      <3>2. DOMAIN m = DOMAIN tasks[t].fields \cup DOMAIN entry.snapshot
        BY <1>1, <3>1, MergeType
      <3>3. row.fields = m
        BY <1>3 DEF Moves
      <3> HIDE DEF m
      <3> QED
        BY <3>2, <3>3
    <2>3. \A s \in 1..tasks[t].status : Required[row.type][s] \subseteq DOMAIN row.fields
      BY <1>3, <2>1, <2>2 DEF Moves, HoldsRequired
    <2> QED
      BY <1>1, <1>3, <2>1, <2>2, <2>3 DEF Moves, HoldsRequired
  <1>4. CASE Closes(t, row, entry)
    BY <1>4 DEF Closes, HoldsRequired
  <1> QED
    BY <1>2, <1>3, <1>4

----------------------------------------------------------------------------
(* The inductive invariant: the trail says what the row is (so an open     *)
(* task's trail does not end with a close), the row's fields replay the    *)
(* trail and cover what its status requires.                               *)
LifecycleInv ==
    /\ TypeOK
    /\ AuditTrail
    /\ FieldsReplay
    /\ RequiredFieldsHeld
    /\ ClosedAtFinal

THEOREM LifecycleInvariant == Spec => []LifecycleInv
  <1>1. Init => LifecycleInv
    BY DEF Init, LifecycleInv, TypeOK, AuditTrail, TrailOf, FieldsReplay,
           RequiredFieldsHeld, ClosedAtFinal
  <1>2. LifecycleInv /\ TypeOK' /\ [Next]_vars => LifecycleInv'
    <2> SUFFICES ASSUME LifecycleInv, TypeOK', [Next]_vars
                 PROVE  LifecycleInv'
      OBVIOUS
    <2>1. CASE Next
      <3>1. PICK t \in Task, row \in Row, entry \in Entry :
               /\ Recorded(t, row, entry)
               /\ Creates(t, row, entry) \/ Moves(t, row, entry) \/ Closes(t, row, entry)
        BY <2>1, StepCases DEF LifecycleInv
      <3>2. tasks'[t] = row /\ row # NoRow
        BY <3>1, NoRowAssumption DEF LifecycleInv, TypeOK, Recorded
      <3>3. \A u \in Task \ {t} : tasks'[u] = tasks[u] /\ trail'[u] = trail[u]
        BY <3>1 DEF LifecycleInv, TypeOK, Recorded
      <3>4. AuditTrail'
        <4>1. TrailOf(t)'
          BY <3>1, StepKeepsTrail DEF LifecycleInv, AuditTrail
        <4>2. \A u \in Task \ {t} : TrailOf(u)'
          BY SMTT(60), <3>3 DEF LifecycleInv, AuditTrail, TrailOf, ChainedFrom, DescribedBy
        <4> QED
          BY <4>1, <4>2 DEF AuditTrail
      <3>5. FieldsReplay'
        <4>1. Replays(tasks[t], trail[t])'
          BY <3>1, StepKeepsReplay DEF LifecycleInv, AuditTrail, FieldsReplay
        <4>2. \A u \in Task \ {t} : (tasks[u] # NoRow => Replays(tasks[u], trail[u]))'
          BY <3>3 DEF LifecycleInv, FieldsReplay, Replays, LatestWith
        <4> QED
          BY <4>1, <4>2 DEF FieldsReplay
      <3>6. RequiredFieldsHeld'
        <4>1. HoldsRequired(row)
          BY <3>1, StepKeepsRequired DEF LifecycleInv, RequiredFieldsHeld
        <4> QED
          BY <3>2, <3>3, <4>1 DEF LifecycleInv, RequiredFieldsHeld, HoldsRequired
      <3>7. ClosedAtFinal'
        <4>1. row.isClosed => row.status = FinalStatus[row.type]
          BY <3>1 DEF Creates, Moves, Closes
        <4> QED
          BY <3>2, <3>3, <4>1 DEF LifecycleInv, ClosedAtFinal
      <3> QED
        BY <3>4, <3>5, <3>6, <3>7 DEF LifecycleInv
    <2>2. CASE UNCHANGED vars
      BY <2>2 DEF vars, LifecycleInv, TypeOK, AuditTrail, TrailOf, ChainedFrom,
                  DescribedBy, FieldsReplay, Replays, LatestWith,
                  RequiredFieldsHeld, HoldsRequired, ClosedAtFinal
    <2> QED
      BY <2>1, <2>2
  <1> QED
    BY <1>1, <1>2, LifecycleTypeOK, PTL DEF Spec

(* The audit trail of every task is complete and describes its row. *)
THEOREM LifecycleAuditTrail == Spec => []AuditTrail
  <1>1. LifecycleInv => AuditTrail
    BY DEF LifecycleInv
  <1> QED
    BY <1>1, LifecycleInvariant, PTL

(* The custom fields of every task are the replay of its snapshots. *)
THEOREM LifecycleFieldsReplay == Spec => []FieldsReplay
  <1>1. LifecycleInv => FieldsReplay
    BY DEF LifecycleInv
  <1> QED
    BY <1>1, LifecycleInvariant, PTL

(* No task stands at a status whose required fields it does not hold. *)
THEOREM LifecycleRequiredFields == Spec => []RequiredFieldsHeld
  <1>1. LifecycleInv => RequiredFieldsHeld
    BY DEF LifecycleInv
  <1> QED
    BY <1>1, LifecycleInvariant, PTL

(* Closed tasks stand at their type's final status. *)
THEOREM LifecycleClosedAtFinal == Spec => []ClosedAtFinal
  <1>1. LifecycleInv => ClosedAtFinal
    BY DEF LifecycleInv
  <1> QED
    BY <1>1, LifecycleInvariant, PTL
============================================================================
