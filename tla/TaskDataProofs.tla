--------------------------- MODULE TaskDataProofs ---------------------------
(***************************************************************************)
(* Facts about rows, audit entries and field maps that both the abstract   *)
(* and the detailed specification's proofs cite.                           *)
(***************************************************************************)
EXTENDS TaskData, TLAPS

(* The empty object is a field map. *)
LEMMA NoFieldsType == NoFields \in FieldMap
  <1>1. NoFields \in [{} -> Value]
    BY DEF NoFields
  <1>2. {} \in SUBSET Field
    OBVIOUS
  <1> QED
    BY <1>1, <1>2 DEF FieldMap

(* A field map is a function from some fields to values. *)
LEMMA FieldMapMember ==
  ASSUME NEW m
  PROVE  m \in FieldMap <=> (DOMAIN m \subseteq Field /\ m \in [DOMAIN m -> Value])
  <1>1. ASSUME m \in FieldMap
        PROVE  DOMAIN m \subseteq Field /\ m \in [DOMAIN m -> Value]
    <2>1. PICK S \in SUBSET Field : m \in [S -> Value]
      BY <1>1 DEF FieldMap
    <2> QED
      BY <2>1
  <1>2. ASSUME DOMAIN m \subseteq Field, m \in [DOMAIN m -> Value]
        PROVE  m \in FieldMap
    <2>1. DOMAIN m \in SUBSET Field
      BY <1>2
    <2> QED
      BY <1>2, <2>1 DEF FieldMap
  <1> QED
    BY <1>1, <1>2

(* Merging two field maps gives one, over the fields of both, in which the *)
(* newer map wins.                                                         *)
LEMMA MergeType ==
  ASSUME NEW old \in FieldMap, NEW new \in FieldMap
  PROVE  /\ Merge(old, new) \in FieldMap
         /\ DOMAIN Merge(old, new) = DOMAIN old \cup DOMAIN new
         /\ \A f \in DOMAIN new : Merge(old, new)[f] = new[f]
         /\ \A f \in DOMAIN old \ DOMAIN new : Merge(old, new)[f] = old[f]
  <1>1. /\ DOMAIN old \subseteq Field /\ old \in [DOMAIN old -> Value]
        /\ DOMAIN new \subseteq Field /\ new \in [DOMAIN new -> Value]
    BY FieldMapMember
  <1>2. /\ DOMAIN Merge(old, new) = DOMAIN old \cup DOMAIN new
        /\ \A f \in DOMAIN new : Merge(old, new)[f] = new[f]
        /\ \A f \in DOMAIN old \ DOMAIN new : Merge(old, new)[f] = old[f]
    BY DEF Merge
  <1>3. Merge(old, new) \in [DOMAIN old \cup DOMAIN new -> Value]
    BY <1>1 DEF Merge
  <1>4. DOMAIN old \cup DOMAIN new \in SUBSET Field
    BY <1>1
  <1> QED
    BY <1>2, <1>3, <1>4 DEF FieldMap

(* Merging the empty object changes nothing. *)
LEMMA MergeNoFields ==
  ASSUME NEW old \in FieldMap
  PROVE  Merge(old, NoFields) = old
  <1>1. old \in [DOMAIN old -> Value]
    BY FieldMapMember
  <1> QED
    BY <1>1 DEF Merge, NoFields

(* What the row operators leave and what they change. *)
LEMMA MovedRowFields ==
  ASSUME NEW row \in Row, NEW s \in Status, NEW u \in User, NEW snapshot \in FieldMap
  PROVE  LET new == MovedRow(row, s, u, snapshot)
         IN  /\ new \in Row
             /\ new.type = row.type /\ new.isClosed = row.isClosed
             /\ new.status = s /\ new.assignee = u
             /\ new.fields = Merge(row.fields, snapshot)
  <1>1. Merge(row.fields, snapshot) \in FieldMap
    BY MergeType DEF Row
  <1> QED
    BY <1>1 DEF MovedRow, Row

LEMMA ClosedRowFields ==
  ASSUME NEW row \in Row
  PROVE  LET new == ClosedRow(row)
         IN  /\ new \in Row
             /\ new.type = row.type /\ new.isClosed = TRUE
             /\ new.status = row.status /\ new.assignee = row.assignee
             /\ new.fields = row.fields
  BY DEF ClosedRow, Row

LEMMA NewRowFields ==
  ASSUME NEW ty \in Type, NEW u \in User
  PROVE  LET new == NewRow(ty, u)
         IN  /\ new \in Row
             /\ new.type = ty /\ new.isClosed = FALSE
             /\ new.status = 1 /\ new.assignee = u
             /\ new.fields = NoFields
  BY NoFieldsType, RegistryAssumption DEF NewRow, Row, Status

LEMMA AuditEntryFields ==
  ASSUME NEW from \in Status \cup {Null}, NEW to \in Status \cup {Null},
         NEW u \in User, NEW snapshot \in FieldMap
  PROVE  LET e == AuditEntry(from, to, u, snapshot)
         IN  /\ e \in Entry
             /\ e.from = from /\ e.to = to
             /\ e.assignee = u /\ e.snapshot = snapshot
  BY DEF AuditEntry, Entry

(* Appending an entry keeps the earlier ones and adds it at the end. *)
LEMMA AppendEntry ==
  ASSUME NEW h \in Seq(Entry), NEW e \in Entry
  PROVE  /\ Append(h, e) \in Seq(Entry)
         /\ Len(Append(h, e)) = Len(h) + 1
         /\ Len(h) \in Nat /\ DOMAIN h = 1..Len(h)
         /\ DOMAIN Append(h, e) = 1..(Len(h) + 1)
         /\ \A i \in DOMAIN h : Append(h, e)[i] = h[i]
         /\ Append(h, e)[Len(h) + 1] = e
  OBVIOUS
=============================================================================
