---------------------------- MODULE ListingProofs ----------------------------
(***************************************************************************)
(* Proofs about listings at both ends: the walk over the server's pages    *)
(* (KeysetPage), for any rows, page size and number of writes; and the     *)
(* tasks a browser holds (TaskStore), for any settings, users and tasks.   *)
(*                                                                         *)
(* Both order a finite set and take it apart in that order, so the module  *)
(* begins with what orders need: a finite set a relation totally orders    *)
(* can be listed in that order.  The set is data, and induction over it is *)
(* replaced by a least counterexample.                                     *)
(***************************************************************************)
EXTENDS KeysetPage, TaskStore, FiniteSetTheorems, SequenceTheorems,
        WellFoundedInduction, TLAPS

(* before orders the rows of S one after another. *)
Orders(before, S) ==
    /\ \A a, b \in S : a # b => <<a, b>> \in before \/ <<b, a>> \in before
    /\ \A a, b, c \in S : <<a, b>> \in before /\ <<b, c>> \in before => <<a, c>> \in before

(* s lists all of S in that order. *)
Lists(s, S, before) ==
    /\ s \in [1..Cardinality(S) -> S]
    /\ \A i, j \in 1..Cardinality(S) : i < j => <<s[i], s[j]>> \in before

LEMMA WellOrdering ==
  ASSUME NEW S \in SUBSET Nat, S # {}
  PROVE  \E m \in S : \A n \in S : m <= n
<1> DEFINE R == OpToRel(<, Nat)
<1>1. IsWellFoundedOn(R, Nat)
  BY NatLessThanWellFounded
<1>2. \A a, b \in Nat : a < b <=> <<a, b>> \in R
  BY DEF OpToRel
<1> HIDE DEF R
<1>3. PICK m \in S : \A y \in S : ~(<<y, m>> \in R)
  BY <1>1, WFMin
<1>4. \A n \in S : m \in Nat /\ n \in Nat /\ ~(n < m)
  BY <1>2, <1>3
<1>5. \A n \in S : m <= n
  BY <1>4
<1> QED BY <1>5

(* Some member of T comes after all the others. *)
HasLast(T, before) == \E m \in T : \A a \in T \ {m} : <<a, m>> \in before

(* A finite set that is ordered and not empty has a last row. *)
LEMMA LastExists ==
  ASSUME NEW S, IsFiniteSet(S), NEW before, Orders(before, S),
         NEW T0 \in SUBSET S, T0 # {}
  PROVE  HasLast(T0, before)
<1> DEFINE Fails(T) == T # {} /\ ~HasLast(T, before)
           Bad == {n \in Nat : \E T \in SUBSET S : Cardinality(T) = n /\ Fails(T)}
<1>1. \A T \in SUBSET S : IsFiniteSet(T) /\ Cardinality(T) \in Nat
  BY FS_Subset, FS_CardinalityType
<1>2. Bad = {}
  <2> SUFFICES ASSUME Bad # {} PROVE FALSE
    OBVIOUS
  <2>1. PICK n \in Bad : \A m \in Bad : n <= m
    <3>1. Bad \in SUBSET Nat
      OBVIOUS
    <3> HIDE DEF Bad
    <3> QED
      BY <3>1, WellOrdering
  <2>2. PICK T \in SUBSET S : Cardinality(T) = n /\ Fails(T)
    OBVIOUS
  <2>3. PICK x \in T : TRUE
    BY <2>2
  <2> DEFINE U == T \ {x}
  <2>4. U \in SUBSET S /\ Cardinality(U) \in Nat /\ Cardinality(U) < n
    <3>1. Cardinality(U) = Cardinality(T) - 1
      BY <1>1, <2>3, FS_RemoveElement
    <3>2. U \in SUBSET S
      OBVIOUS
    <3> QED
      BY <1>1, <2>2, <3>1, <3>2
  <2>5. ~Fails(U)
    <3> SUFFICES ASSUME Fails(U) PROVE FALSE
      OBVIOUS
    <3>1. Cardinality(U) \in Bad
      BY <2>4
    <3>2. n <= Cardinality(U)
      BY <2>1, <3>1
    <3>3. n \in Nat
      OBVIOUS
    <3> HIDE DEF U, Bad
    <3> QED
      BY <2>4, <3>2, <3>3
  <2>6. CASE U = {}
    <3>1. HasLast(T, before)
      BY <2>3, <2>6 DEF HasLast
    <3> QED
      BY <2>2, <3>1
  <2>7. CASE U # {}
    <3>1. PICK m \in U : \A a \in U \ {m} : <<a, m>> \in before
      BY <2>5, <2>7 DEF HasLast
    <3>2. CASE <<x, m>> \in before
      <4>1. \A a \in T \ {m} : <<a, m>> \in before
        BY <3>1, <3>2
      <4> QED
        BY <2>2, <3>1, <4>1 DEF HasLast
    <3>3. CASE <<m, x>> \in before
      <4>1. \A a \in T \ {x} : <<a, x>> \in before
        BY <2>3, <3>1, <3>3 DEF Orders
      <4> QED
        BY <2>2, <2>3, <4>1 DEF HasLast
    <3> QED
      BY <2>3, <3>1, <3>2, <3>3 DEF Orders
  <2> QED
    BY <2>6, <2>7
<1>3. Cardinality(T0) \in Nat
  BY <1>1
<1> QED
  BY <1>2, <1>3

(* It can be listed in its order. *)
LEMMA ListingExists ==
  ASSUME NEW S, IsFiniteSet(S), NEW before, Orders(before, S)
  PROVE  \E s : Lists(s, S, before)
<1> DEFINE Fails(T) == ~\E s : Lists(s, T, before)
           Bad == {n \in Nat : \E T \in SUBSET S : Cardinality(T) = n /\ Fails(T)}
<1>1. \A T \in SUBSET S : IsFiniteSet(T) /\ Cardinality(T) \in Nat
  BY FS_Subset, FS_CardinalityType
<1>2. Bad = {}
  <2> SUFFICES ASSUME Bad # {} PROVE FALSE
    OBVIOUS
  <2>1. PICK n \in Bad : \A m \in Bad : n <= m
    <3>1. Bad \in SUBSET Nat
      OBVIOUS
    <3> HIDE DEF Bad
    <3> QED
      BY <3>1, WellOrdering
  <2>2. PICK T \in SUBSET S : Cardinality(T) = n /\ Fails(T)
    OBVIOUS
  <2>3. T # {}
    <3> SUFFICES ASSUME T = {} PROVE FALSE
      OBVIOUS
    <3>1. Cardinality(T) = 0
      BY FS_EmptySet
    <3>2. 1..Cardinality(T) = {}
      BY <3>1
    <3>3. Lists([i \in 1..Cardinality(T) |-> i], T, before)
      BY <3>2 DEF Lists
    <3> QED
      BY <2>2, <3>3
  <2>4. PICK x \in T : \A a \in T \ {x} : <<a, x>> \in before
    BY <2>3, LastExists DEF HasLast
  <2> DEFINE U == T \ {x}
  <2>5. U \in SUBSET S /\ Cardinality(U) = n - 1 /\ n \in Nat /\ n - 1 \in Nat
    <3>1. Cardinality(U) = Cardinality(T) - 1
      BY <1>1, <2>4, FS_RemoveElement
    <3>2. U \in SUBSET S
      OBVIOUS
    <3>3. Cardinality(U) \in Nat
      BY <1>1, <3>2
    <3> QED
      BY <2>2, <3>1, <3>2, <3>3
  <2>6. PICK s : Lists(s, U, before)
    <3> SUFFICES ASSUME Fails(U) PROVE FALSE
      OBVIOUS
    <3>1. n - 1 \in Bad
      BY <2>5
    <3>2. n <= n - 1
      BY <2>1, <3>1
    <3> QED
      BY <2>5, <3>2
  <2>7. /\ s \in [1..(n - 1) -> U]
        /\ \A i, j \in 1..(n - 1) : i < j => <<s[i], s[j]>> \in before
    BY <2>5, <2>6 DEF Lists
  <2> DEFINE longer == [i \in 1..n |-> IF i < n THEN s[i] ELSE x]
  <2>8. Lists(longer, T, before)
    <3>1. longer \in [1..n -> T]
      BY <2>4, <2>5, <2>7
    <3>2. ASSUME NEW i \in 1..n, NEW j \in 1..n, i < j
          PROVE  <<longer[i], longer[j]>> \in before
      <4>1. i \in 1..(n - 1) /\ longer[i] = s[i] /\ s[i] \in U
        BY <2>5, <2>7, <3>2
      <4>2. CASE j < n
        BY <2>5, <2>7, <3>2, <4>1, <4>2
      <4>3. CASE j = n
        BY <2>4, <4>1, <4>3
      <4> QED
        BY <2>5, <4>2, <4>3
    <3> QED
      BY <2>2, <3>1, <3>2 DEF Lists
  <2> QED
    BY <2>2, <2>8
<1>3. Cardinality(S) \in Nat
  BY <1>1
<1> QED
  BY <1>2, <1>3

(* A listing without repetition leaves no row out. *)
LEMMA ListingIsOnto ==
  ASSUME NEW S, IsFiniteSet(S), NEW before, \A a \in S : <<a, a>> \notin before,
         NEW s, Lists(s, S, before), NEW x \in S
  PROVE  \E i \in 1..Cardinality(S) : s[i] = x
<1> DEFINE n == Cardinality(S)
<1>1. n \in Nat /\ IsFiniteSet(1..n) /\ Cardinality(1..n) = n
  BY FS_CardinalityType, FS_Interval
<1>2. IsFiniteSet(S \ {x}) /\ Cardinality(S \ {x}) = n - 1
  BY FS_RemoveElement
<1> SUFFICES ASSUME \A i \in 1..n : s[i] # x PROVE FALSE
  OBVIOUS
<1>3. s \in [1..n -> S \ {x}]
  BY DEF Lists
<1>4. n - 1 < n
  BY <1>1
<1>5. PICK i, j \in 1..n : i # j /\ s[i] = s[j]
  BY <1>1, <1>2, <1>3, <1>4, FS_PigeonHole
<1>6. s[i] \in S
  BY <1>3
<1>7. i < j \/ j < i
  BY <1>1, <1>5
<1> QED
  BY <1>5, <1>6, <1>7 DEF Lists
----------------------------------------------------------------------------
(* The walk over the pages.  What a row lists is what still lies beyond the *)
(* cursor: a steady row is served already or is one the next pages reach.   *)

(* The state of the walk is typed. *)
WalkType ==
    /\ createdAt \in [Id -> Nat]
    /\ listed \in SUBSET Id
    /\ steady \in SUBSET listed
    /\ \A r \in listed : createdAt[r] # 0
    /\ served \in Seq(Id)
    /\ \A i \in 1..Len(served) : createdAt[served[i]] # 0

(* The cursor is the key of the last row served. *)
CursorAtLast ==
    \/ cursor = Start /\ served = <<>>
    \/ cursor = End
    \/ served # <<>> /\ cursor = Key(served[Len(served)])

(* The row is served, or what is still to come begins before it. *)
Reached(r) ==
    \/ \E i \in 1..Len(served) : served[i] = r
    \/ cursor # End /\ After(cursor, r)

(* The inductive invariant of a walk over the pages. *)
WalkIInv ==
    /\ WalkType
    /\ CursorAtLast
    /\ ServedInOrder
    /\ \A r \in steady : Reached(r)

(* The order of the keys of two rows, without the tuples. *)
LEMMA KeyOrder ==
  ASSUME WalkType, NEW r \in Id, NEW s \in Id
  PROVE  Precedes(Key(r), Key(s)) <=>
           IF direction = "ASC"
           THEN createdAt[r] < createdAt[s] \/ (createdAt[r] = createdAt[s] /\ r < s)
           ELSE createdAt[s] < createdAt[r] \/ (createdAt[s] = createdAt[r] /\ s < r)
<1>1. Key(r)[1] = createdAt[r] /\ Key(r)[2] = r /\ Key(s)[1] = createdAt[s] /\ Key(s)[2] = s
  BY DEF Key
<1> QED
  BY <1>1 DEF Precedes, Below

LEMMA KeyTypes ==
  ASSUME WalkType, NEW r \in Id
  PROVE  r \in Nat /\ createdAt[r] \in Nat
BY KeysetAssumption DEF WalkType

LEMMA KeyTransitive ==
  ASSUME WalkType, NEW r \in Id, NEW s \in Id, NEW t \in Id,
         Precedes(Key(r), Key(s)), Precedes(Key(s), Key(t))
  PROVE  Precedes(Key(r), Key(t))
<1> HIDE DEF WalkType
<1> QED
  BY KeyOrder, KeyTypes

LEMMA KeyTotal ==
  ASSUME WalkType, NEW r \in Id, NEW s \in Id
  PROVE  /\ ~Precedes(Key(r), Key(r))
         /\ r # s => Precedes(Key(r), Key(s)) \/ Precedes(Key(s), Key(r))
<1> HIDE DEF WalkType
<1> QED
  BY KeyOrder, KeyTypes

(* The order of the keys, as a relation. *)
KeyOrderOn(rows) == {p \in rows \X rows : Precedes(Key(p[1]), Key(p[2]))}

(* A listing holds every row of its set, in the order of their keys. *)
LEMMA InOrderLists ==
  ASSUME WalkType, NEW rows \in SUBSET Id
  PROVE  /\ Cardinality(rows) \in Nat
         /\ InOrder(rows) \in [1..Cardinality(rows) -> rows]
         /\ \A i, j \in 1..Cardinality(rows) :
               i < j => Precedes(Key(InOrder(rows)[i]), Key(InOrder(rows)[j]))
         /\ \A r \in rows : \E i \in 1..Cardinality(rows) : InOrder(rows)[i] = r
<1> DEFINE before == KeyOrderOn(rows)
           n == Cardinality(rows)
<1>1. IsFiniteSet(rows) /\ n \in Nat
  BY KeysetAssumption, FS_Subset, FS_CardinalityType
<1>2. \A a, b \in rows : <<a, b>> \in before <=> Precedes(Key(a), Key(b))
  BY DEF KeyOrderOn
<1> HIDE DEF before
<1>3. Orders(before, rows) /\ \A a \in rows : <<a, a>> \notin before
  BY <1>2, KeyTransitive, KeyTotal DEF Orders
<1>4. PICK s : Lists(s, rows, before)
  BY <1>1, <1>3, ListingExists
<1>5. /\ s \in [1..n -> rows]
      /\ \A i, j \in 1..n : i < j => Precedes(Key(s[i]), Key(s[j]))
  BY <1>2, <1>4 DEF Lists
<1>6. /\ InOrder(rows) \in [1..n -> rows]
      /\ \A i, j \in 1..n : i < j => Precedes(Key(InOrder(rows)[i]), Key(InOrder(rows)[j]))
  BY <1>5 DEF InOrder
<1>7. Lists(InOrder(rows), rows, before)
  BY <1>2, <1>6 DEF Lists
<1>8. \A r \in rows : \E i \in 1..n : InOrder(rows)[i] = r
  BY <1>1, <1>3, <1>7, ListingIsOnto
<1> QED
  BY <1>1, <1>6, <1>8

(* What is fetched beyond a cursor: its rows are in order, and those beyond *)
(* the cursor but not fetched follow all of it, which is then a full page   *)
(* and one row more.                                                        *)
LEMMA FetchedRows ==
  ASSUME WalkType, NEW k
  PROVE  LET rows == Fetched(k)
             beyond == {r \in listed : After(k, r)}
         IN  /\ rows \in Seq(beyond)
             /\ Len(rows) <= Limit + 1
             /\ \A i, j \in 1..Len(rows) : i < j => Precedes(Key(rows[i]), Key(rows[j]))
             /\ \A r \in beyond :
                   \/ \E i \in 1..Len(rows) : rows[i] = r
                   \/ /\ Len(rows) = Limit + 1
                      /\ \A i \in 1..Len(rows) : Precedes(Key(rows[i]), Key(r))
<1> DEFINE beyond == {r \in listed : After(k, r)}
           sorted == InOrder(beyond)
           n == Cardinality(beyond)
           m == IF Len(sorted) > Limit THEN Limit + 1 ELSE Len(sorted)
           rows == SubSeq(sorted, 1, m)
<1>1. beyond \in SUBSET Id
  BY DEF WalkType
<1> HIDE DEF beyond
<1>2. /\ n \in Nat /\ sorted \in [1..n -> beyond]
      /\ \A i, j \in 1..n : i < j => Precedes(Key(sorted[i]), Key(sorted[j]))
      /\ \A r \in beyond : \E i \in 1..n : sorted[i] = r
  BY <1>1, InOrderLists
<1> HIDE DEF sorted, n
<1>3. sorted \in Seq(beyond) /\ Len(sorted) = n
  BY <1>2
<1>4. Limit \in Nat \ {0}
  BY KeysetAssumption
<1>5. m \in 0..n /\ m <= Limit + 1 /\ (m = n \/ m = Limit + 1) /\ m \in Nat
  BY <1>2, <1>3, <1>4
<1> HIDE DEF m
<1>6. /\ rows \in Seq(beyond) /\ Len(rows) = m
      /\ \A i \in 1..m : rows[i] = sorted[i]
  BY <1>2, <1>3, <1>5, SubSeqProperties
<1> HIDE DEF rows
<1>7. \A i \in 1..m : i \in 1..n
  BY <1>2, <1>5
<1>8. \A i, j \in 1..m : i < j => Precedes(Key(rows[i]), Key(rows[j]))
  BY <1>2, <1>6, <1>7
<1>9. ASSUME NEW r \in beyond, \A i \in 1..m : rows[i] # r
      PROVE  m = Limit + 1 /\ \A i \in 1..m : Precedes(Key(rows[i]), Key(r))
  <2>1. PICK j \in 1..n : sorted[j] = r
    BY <1>2
  <2>2. j \notin 1..m
    BY <1>6, <1>9, <2>1
  <2>3. j > m /\ m # n
    BY <1>2, <1>5, <2>2
  <2>4. \A i \in 1..m : i < j
    BY <1>5, <2>3
  <2> QED
    BY <1>2, <1>5, <1>6, <1>7, <2>1, <2>3, <2>4
<1> QED
  BY <1>5, <1>6, <1>8, <1>9 DEF Fetched, beyond, sorted, rows, m
LEMMA KeyIsACursor ==
  ASSUME NEW r
  PROVE  Key(r) # Start /\ Key(r) # End
<1>1. Len(Key(r)) = 2 /\ Len(Start) = 0 /\ Len(End) = 3
  BY DEF Key, Start, End
<1> QED
  BY SMTT(60), <1>1

(* The page a read serves, and where it leaves the cursor. *)
IsPage(page) ==
    /\ page \in Seq(listed)
    /\ served' = served \o page
    /\ \A i \in 1..Len(page) : After(cursor, page[i])
    /\ \A i, j \in 1..Len(page) : i < j => Precedes(Key(page[i]), Key(page[j]))
    /\ cursor' = End \/ (page # <<>> /\ cursor' = Key(page[Len(page)]))
    /\ \A r \in listed : After(cursor, r) =>
          \/ \E i \in 1..Len(page) : page[i] = r
          \/ page # <<>> /\ cursor' = Key(page[Len(page)]) /\ Precedes(cursor', Key(r))

LEMMA PageServed ==
  ASSUME WalkType, ReadPage
  PROVE  \E page : IsPage(page)
<1> DEFINE rows == Fetched(cursor)
           beyond == {r \in listed : After(cursor, r)}
           first == SubSeq(rows, 1, Limit)
<1>1. /\ rows \in Seq(beyond)
      /\ Len(rows) <= Limit + 1
      /\ \A i, j \in 1..Len(rows) : i < j => Precedes(Key(rows[i]), Key(rows[j]))
      /\ \A r \in beyond :
            \/ \E i \in 1..Len(rows) : rows[i] = r
            \/ /\ Len(rows) = Limit + 1
               /\ \A i \in 1..Len(rows) : Precedes(Key(rows[i]), Key(r))
  BY FetchedRows
<1>2. /\ served' = served \o (IF Len(rows) > Limit THEN first ELSE rows)
      /\ cursor' = IF Len(rows) > Limit THEN Key(rows[Limit]) ELSE End
  BY DEF ReadPage, CursorOf
<1>3. Limit \in Nat \ {0}
  BY KeysetAssumption
<1>4. beyond \subseteq listed /\ \A r \in beyond : After(cursor, r)
  OBVIOUS
<1>5. \A r \in listed : After(cursor, r) => r \in beyond
  OBVIOUS
<1> HIDE DEF rows, beyond
<1>6. Len(rows) \in Nat /\ \A i \in 1..Len(rows) : rows[i] \in beyond
  BY <1>1
<1>7. CASE Len(rows) > Limit
  <2>1. Len(rows) = Limit + 1
    BY <1>1, <1>3, <1>6, <1>7
  <2>2. \A i \in 1..Limit : i \in 1..Len(rows)
    BY <1>3, <2>1
  <2>3. /\ first \in Seq(beyond) /\ Len(first) = Limit
        /\ \A i \in 1..Limit : first[i] = rows[i]
    BY <1>3, <1>6, <2>2, SubSeqProperties
  <2> HIDE DEF first
  <2>4. first \in Seq(listed) /\ first # <<>>
    BY <1>3, <1>4, <2>3
  <2>5. \A i, j \in 1..Limit : i < j => Precedes(Key(first[i]), Key(first[j]))
    BY <1>1, <2>2, <2>3
  <2>6. \A i \in 1..Limit : After(cursor, first[i])
    BY <1>4, <1>6, <2>2, <2>3
  <2>7. Limit \in 1..Limit /\ cursor' = Key(first[Limit])
    BY <1>2, <1>3, <1>7, <2>3
  <2>8. ASSUME NEW r \in beyond, \A i \in 1..Limit : first[i] # r
        PROVE  Precedes(cursor', Key(r))
    <3>1. \A i \in 1..Limit : rows[i] # r
      BY <2>3, <2>8
    <3>2. CASE \E i \in 1..Len(rows) : rows[i] = r
      <4>1. rows[Limit + 1] = r
        <5>1. PICK i \in 1..Len(rows) : rows[i] = r
          BY <3>2
        <5>2. i = Limit + 1
          BY <1>3, <2>1, <3>1, <5>1
        <5> QED
          BY <5>1, <5>2
      <4>2. Limit \in 1..Len(rows) /\ Limit + 1 \in 1..Len(rows) /\ Limit < Limit + 1
        BY <1>3, <2>1
      <4> QED
        BY <1>1, <2>3, <2>7, <4>1, <4>2
    <3>3. CASE \A i \in 1..Len(rows) : Precedes(Key(rows[i]), Key(r))
      BY <2>2, <2>3, <2>7, <3>3
    <3> QED
      BY <1>1, <3>2, <3>3
  <2>9. IsPage(first)
    BY <1>2, <1>5, <1>7, <2>3, <2>4, <2>5, <2>6, <2>7, <2>8 DEF IsPage
  <2> QED
    BY <2>9
<1>8. CASE ~(Len(rows) > Limit)
  <2>1. Len(rows) # Limit + 1
    BY <1>3, <1>6, <1>8
  <2>2. rows \in Seq(listed)
    BY <1>1, <1>4
  <2>3. IsPage(rows)
    BY <1>1, <1>2, <1>4, <1>5, <1>6, <1>8, <2>1, <2>2 DEF IsPage
  <2> QED
    BY <2>3
<1> QED
  BY <1>7, <1>8

LEMMA WalkInitInv == WalkInit => WalkIInv
<1> SUFFICES ASSUME WalkInit PROVE WalkIInv
  OBVIOUS
<1>1. served = <<>> /\ Len(served) = 0 /\ cursor = Start /\ steady = listed
  BY DEF WalkInit
<1>2. WalkType
  <2>1. 0..MaxTime \subseteq Nat
    BY KeysetAssumption
  <2>2. createdAt \in [Id -> Nat]
    BY <2>1 DEF WalkInit
  <2>3. served \in Seq(Id)
    BY <1>1
  <2> QED
    BY <1>1, <2>2, <2>3 DEF WalkInit, WalkType
<1>3. \A r \in steady : Reached(r)
  <2>1. Start # End
    BY DEF Start, End
  <2> QED
    BY <1>1, <2>1 DEF Reached, After
<1>4. ServedInOrder
  BY <1>1 DEF ServedInOrder
<1> QED
  BY <1>1, <1>2, <1>3, <1>4 DEF WalkIInv, CursorAtLast

LEMMA ReadPageStep ==
  ASSUME WalkIInv, ReadPage
  PROVE  WalkIInv'
<1> DEFINE n == Len(served)
<1>1. PICK page : IsPage(page)
  BY PageServed DEF WalkIInv
<1> DEFINE m == Len(page)
<1>2. /\ cursor # End /\ UNCHANGED <<direction, createdAt, listed, steady>>
      /\ WalkType /\ CursorAtLast /\ ServedInOrder
  BY DEF ReadPage, WalkIInv
<1>3. page \in Seq(Id) /\ \A i \in 1..m : page[i] \in listed
  BY <1>1, <1>2 DEF IsPage, WalkType
<1>4. /\ served \in Seq(Id) /\ n \in Nat /\ m \in Nat
      /\ served' \in Seq(Id) /\ Len(served') = n + m
  BY <1>1, <1>2, <1>3, ConcatProperties DEF IsPage, WalkType
<1>5. \A i \in 1..(n + m) : served'[i] = IF i <= n THEN served[i] ELSE page[i - n]
  BY <1>1, <1>2, <1>3, ConcatProperties DEF IsPage, WalkType
<1> HIDE DEF n, m
<1>6. /\ \A i \in 1..n : i \in 1..(n + m) /\ served'[i] = served[i]
      /\ \A i \in 1..m : n + i \in 1..(n + m) /\ served'[n + i] = page[i]
  <2>1. \A i \in 1..n : i \in 1..(n + m) /\ i <= n
    BY <1>4
  <2>2. \A i \in 1..m : n + i \in 1..(n + m) /\ ~(n + i <= n) /\ (n + i) - n = i
    BY <1>4
  <2>3. \A i \in 1..m : served'[n + i] = page[i]
    BY <1>5, <2>2
  <2> QED
    BY <1>5, <2>1, <2>2, <2>3
<1>7. \A r, s \in Id : Precedes(Key(r), Key(s))' <=> Precedes(Key(r), Key(s))
  BY <1>2 DEF Precedes, Key, Below
<1>8. WalkType'
  <2>1. ASSUME NEW i \in 1..(n + m)
        PROVE  createdAt[served'[i]] # 0
    <3>1. CASE i <= n
      <4>1. i \in 1..n
        BY <1>4, <3>1
      <4> QED
        BY <1>2, <1>6, <4>1 DEF WalkType, n
    <3>2. CASE ~(i <= n)
      <4>1. i - n \in 1..m
        BY <1>4, <3>2
      <4> QED
        BY <1>2, <1>3, <1>5, <3>2, <4>1 DEF WalkType
    <3> QED
      BY <3>1, <3>2
  <2> QED
    BY <1>2, <1>4, <2>1 DEF WalkType
<1>9. CursorAtLast'
  <2>1. CASE cursor' = End
    BY <2>1 DEF CursorAtLast, End
  <2>2. CASE page # <<>> /\ cursor' = Key(page[m])
    <3>1. m \in 1..m
      BY <1>3, <1>4, <2>2 DEF m
    <3>2. served'[n + m] = page[m] /\ n + m # 0
      BY <1>4, <1>6, <3>1
    <3>3. served' # <<>>
      BY <1>4, <3>2
    <3>4. Key(page[m])' = Key(page[m])
      BY <1>2 DEF Key
    <3> QED
      BY <1>2, <1>4, <2>2, <3>2, <3>3 DEF CursorAtLast, Key
  <2> QED
    BY <1>1, <2>1, <2>2 DEF IsPage, m
<1>10. ServedInOrder'
  <2> SUFFICES ASSUME NEW i \in 2..(n + m)
               PROVE  Precedes(Key(served'[i - 1]), Key(served'[i]))
    BY <1>2, <1>4 DEF ServedInOrder, Precedes, Key, Below
  <2>1. CASE i <= n
    <3>1. i \in 2..n /\ i \in 1..n /\ i - 1 \in 1..n
      BY <1>4, <2>1
    <3>2. Precedes(Key(served[i - 1]), Key(served[i]))
      BY <1>2, <3>1 DEF ServedInOrder, n
    <3> QED
      BY <1>6, <3>1, <3>2
  <2>2. CASE i = n + 1
    <3>1. n \in 1..n /\ 1 \in 1..m /\ i - 1 = n
      BY <1>4, <2>2
    <3>2. served # <<>>
      BY <1>4, <3>1 DEF n
    <3>3. cursor = Key(served[n])
      BY <1>2, <3>2 DEF CursorAtLast, n
    <3>4. After(cursor, page[1])
      BY <1>1, <3>1 DEF IsPage, m
    <3>5. Precedes(Key(served[n]), Key(page[1]))
      BY <3>3, <3>4, KeyIsACursor DEF After
    <3>6. served'[n] = served[n] /\ served'[n + 1] = page[1]
      BY <1>6, <3>1
    <3> QED
      BY <2>2, <3>1, <3>5, <3>6
  <2>3. CASE i > n + 1
    <3>1. /\ i - n \in 1..m /\ (i - 1) - n \in 1..m /\ (i - 1) - n < i - n
          /\ n + (i - n) = i /\ n + ((i - 1) - n) = i - 1
      BY <1>4, <2>3
    <3>2. served'[i] = page[i - n] /\ served'[i - 1] = page[(i - 1) - n]
      BY <1>6, <3>1
    <3>3. Precedes(Key(page[(i - 1) - n]), Key(page[i - n]))
      BY <1>1, <3>1 DEF IsPage, m
    <3> QED
      BY <3>2, <3>3
  <2> QED
    BY <1>4, <2>1, <2>2, <2>3
<1>11. ASSUME NEW r \in steady
       PROVE  Reached(r)'
  <2>1. CASE \E i \in 1..n : served[i] = r
    <3>1. \E i \in 1..(n + m) : served'[i] = r
      BY <1>6, <2>1
    <3> QED
      BY <1>4, <3>1 DEF Reached
  <2>2. CASE \E i \in 1..m : page[i] = r
    <3>1. \E i \in 1..(n + m) : served'[i] = r
      BY <1>6, <2>2
    <3> QED
      BY <1>4, <3>1 DEF Reached
  <2>3. CASE page # <<>> /\ cursor' = Key(page[m]) /\ Precedes(cursor', Key(r))
    <3>1. cursor' # End
      BY <2>3, KeyIsACursor
    <3>2. (cursor # End /\ After(cursor, r))'
      BY <2>3, <3>1, <1>2 DEF After, Precedes, Key, Below
    <3> QED
      BY <3>2 DEF Reached
  <2>4. r \in listed /\ Reached(r)
    BY <1>2 DEF WalkIInv, WalkType
  <2> QED
    BY <1>1, <2>1, <2>2, <2>3, <2>4 DEF IsPage, Reached, n, m
<1> QED
  BY <1>2, <1>8, <1>9, <1>10, <1>11 DEF WalkIInv

(* A write leaves the keys of the rows served and of the steady rows alone. *)
LEMMA WriteStep ==
  ASSUME WalkIInv, UNCHANGED <<direction, served, cursor>>,
         createdAt' \in [Id -> Nat],
         \A r \in Id : createdAt[r] # 0 => createdAt'[r] = createdAt[r],
         listed' \in SUBSET Id, \A r \in listed' : createdAt'[r] # 0,
         steady' \subseteq steady, steady' \subseteq listed'
  PROVE  WalkIInv'
<1>1. WalkType /\ CursorAtLast /\ ServedInOrder /\ \A r \in steady : Reached(r)
  BY DEF WalkIInv
<1>2. \A i \in 1..Len(served) : served[i] \in Id /\ createdAt'[served[i]] = createdAt[served[i]]
  BY <1>1 DEF WalkType
<1>3. \A i \in 1..Len(served) : Key(served[i])' = Key(served[i])
  BY <1>2 DEF Key
<1>4. Len(served) \in Nat
  BY <1>1 DEF WalkType
<1>5. WalkType'
  BY <1>1, <1>2 DEF WalkType
<1>6. CursorAtLast'
  <2>1. CASE served # <<>>
    <3>1. Len(served) \in 1..Len(served)
      BY <1>1, <1>4, <2>1 DEF WalkType
    <3> QED
      BY <1>1, <1>3, <3>1 DEF CursorAtLast, Start, End
  <2>2. CASE served = <<>>
    BY <1>1, <2>2 DEF CursorAtLast, Start, End
  <2> QED
    BY <2>1, <2>2
<1>7. ServedInOrder'
  <2> SUFFICES ASSUME NEW i \in 2..Len(served)
               PROVE  Precedes(Key(served[i - 1]), Key(served[i]))'
    BY DEF ServedInOrder
  <2>1. i \in 1..Len(served) /\ i - 1 \in 1..Len(served)
    BY <1>4
  <2>2. Precedes(Key(served[i - 1]), Key(served[i]))
    BY <1>1 DEF ServedInOrder
  <2> QED
    BY <1>3, <2>1, <2>2 DEF Precedes, Below
<1>8. ASSUME NEW r \in steady'
      PROVE  Reached(r)'
  <2>1. r \in Id /\ createdAt'[r] = createdAt[r] /\ Reached(r)
    BY <1>1 DEF WalkType
  <2> QED
    BY <2>1 DEF Reached, After, Precedes, Below, Key, Start, End
<1> QED
  BY <1>5, <1>6, <1>7, <1>8 DEF WalkIInv

LEMMA WalkNextInv == WalkIInv /\ [WalkNext]_walkVars => WalkIInv'
<1> SUFFICES ASSUME WalkIInv, [WalkNext]_walkVars PROVE WalkIInv'
  OBVIOUS
<1>1. WalkType
  BY DEF WalkIInv
<1>2. 0..MaxTime \subseteq Nat
  BY KeysetAssumption
<1>3. CASE UNCHANGED walkVars
  BY <1>1, <1>3, WriteStep DEF walkVars, WalkType
<1>4. CASE ReadPage
  BY <1>4, ReadPageStep
<1>5. ASSUME NEW r \in Id, Insert(r)
      PROVE  WalkIInv'
  <2>1. PICK t \in 1..MaxTime : createdAt' = [createdAt EXCEPT ![r] = t]
    BY <1>5 DEF Insert
  <2>2. t \in Nat /\ t # 0
    BY KeysetAssumption
  <2>3. createdAt' \in [Id -> Nat]
    BY <1>1, <2>1, <2>2 DEF WalkType
  <2>4. \A q \in Id : createdAt[q] # 0 => createdAt'[q] = createdAt[q]
    BY <1>1, <1>5, <2>1 DEF WalkType, Insert
  <2>5. listed' = listed \cup {r} /\ steady' = steady /\ UNCHANGED <<direction, served, cursor>>
    BY <1>5 DEF Insert, Write
  <2>6. listed' \in SUBSET Id /\ \A q \in listed' : createdAt'[q] # 0
    BY <1>1, <2>1, <2>2, <2>5 DEF WalkType
  <2>7. steady' \subseteq steady /\ steady' \subseteq listed'
    BY <1>1, <2>5 DEF WalkType
  <2> QED
    BY <2>3, <2>4, <2>5, <2>6, <2>7, WriteStep
<1>6. ASSUME NEW r \in listed, Leave(r)
      PROVE  WalkIInv'
  BY <1>1, <1>6, WriteStep DEF Leave, Write, WalkType
<1>7. ASSUME NEW r \in Id \ listed, Enter(r)
      PROVE  WalkIInv'
  BY <1>1, <1>7, WriteStep DEF Enter, Write, WalkType
<1> QED
  BY <1>3, <1>4, <1>5, <1>6, <1>7 DEF WalkNext

LEMMA WalkIInvImplies == WalkIInv => ServedInOrder /\ NoneSkipped
<1> SUFFICES ASSUME WalkIInv PROVE NoneSkipped
  BY DEF WalkIInv
<1>1. DOMAIN served = 1..Len(served)
  BY DEF WalkIInv, WalkType
<1> QED
  BY <1>1 DEF WalkIInv, Reached, NoneSkipped, Contains

(* The pages of a walk, put together, are strictly in order (BaseDao        *)
(* .findKeysetPage), whatever is inserted, reassigned or closed between     *)
(* two of them.                                                             *)
THEOREM PagesInOrder == WalkSpec => []ServedInOrder
<1> QED
  BY WalkInitInv, WalkNextInv, WalkIInvImplies, PTL DEF WalkSpec

(* A walk that reached the end has served every row that passed the filter  *)
(* all along, whatever the page size and however many rows share a time.    *)
THEOREM PagesSkipNone == WalkSpec => []NoneSkipped
<1> QED
  BY WalkInitInv, WalkNextInv, WalkIInvImplies, PTL DEF WalkSpec
----------------------------------------------------------------------------
(* Lists of copies: filtering, replacing and looking up a row.             *)

(* s enumerates a set of numbers, lowest first. *)
Rises(s, S) ==
    /\ s \in [1..Cardinality(S) -> S]
    /\ \A i, j \in 1..Cardinality(S) : i < j => s[i] < s[j]

LEMMA RisingIsOnto ==
  ASSUME NEW S, \A a \in S : a \in Nat, IsFiniteSet(S), NEW s, Rises(s, S), NEW x \in S
  PROVE  \E i \in 1..Cardinality(S) : s[i] = x
<1> DEFINE before == {p \in S \X S : p[1] < p[2]}
<1>1. \A a, b \in S : <<a, b>> \in before <=> a < b
  OBVIOUS
<1> HIDE DEF before
<1>2. \A a \in S : <<a, a>> \notin before
  BY <1>1
<1>3. Lists(s, S, before)
  BY <1>1 DEF Lists, Rises
<1> QED
  BY <1>2, <1>3, ListingIsOnto

LEMMA AscendingLists ==
  ASSUME NEW S, \A a \in S : a \in Nat, IsFiniteSet(S)
  PROVE  /\ Cardinality(S) \in Nat
         /\ Rises(Ascending(S), S)
         /\ \A x \in S : \E i \in 1..Cardinality(S) : Ascending(S)[i] = x
<1> DEFINE before == {p \in S \X S : p[1] < p[2]}
<1>1. \A a, b \in S : <<a, b>> \in before <=> a < b
  OBVIOUS
<1> HIDE DEF before
<1>2. Orders(before, S)
  BY <1>1 DEF Orders
<1>3. PICK s : Lists(s, S, before)
  BY <1>2, ListingExists
<1>4. Rises(s, S)
  BY <1>1, <1>3 DEF Lists, Rises
<1>5. Rises(Ascending(S), S)
  BY <1>4 DEF Ascending, Rises
<1>6. \A x \in S : \E i \in 1..Cardinality(S) : Ascending(S)[i] = x
  BY <1>5, RisingIsOnto
<1> QED
  BY <1>5, <1>6, FS_CardinalityType

(* kept says where the rows of shorter come from: a part of items, in order,*)
(* that leaves out exactly the rows of t.                                   *)
FilterOf(kept, shorter, items, t) ==
    /\ kept \in [1..Len(shorter) -> DOMAIN items]
    /\ \A i, j \in 1..Len(shorter) : i < j => kept[i] < kept[j]
    /\ \A i \in 1..Len(shorter) : shorter[i] = items[kept[i]] /\ shorter[i].id # t
    /\ \A k \in DOMAIN items : items[k].id # t => \E i \in 1..Len(shorter) : kept[i] = k

LEMMA WithoutFilters ==
  ASSUME NEW S, NEW items \in Seq(S), NEW t
  PROVE  /\ Without(items, t) \in Seq(S)
         /\ \E kept : FilterOf(kept, Without(items, t), items, t)
<1> DEFINE K == {i \in DOMAIN items : items[i].id # t}
           n == Cardinality(K)
           kept == Ascending(K)
           shorter == Without(items, t)
<1>1. DOMAIN items = 1..Len(items) /\ Len(items) \in Nat
  OBVIOUS
<1>2. K \in SUBSET Nat /\ IsFiniteSet(K)
  <2>1. IsFiniteSet(1..Len(items)) /\ K \in SUBSET (1..Len(items))
    BY <1>1, FS_Interval
  <2>2. \A x \in K : x \in Nat
    BY <1>1
  <2> QED
    BY <2>1, <2>2, FS_Subset
<1> HIDE DEF n, kept
<1>3. /\ n \in Nat /\ kept \in [1..n -> K]
      /\ \A i, j \in 1..n : i < j => kept[i] < kept[j]
      /\ \A x \in K : \E i \in 1..n : kept[i] = x
  <2> HIDE DEF K
  <2>1. \A x \in K : x \in Nat
    BY <1>2
  <2>2. n \in Nat /\ Rises(kept, K) /\ \A x \in K : \E i \in 1..n : kept[i] = x
    BY <1>2, <2>1, AscendingLists DEF n, kept
  <2> QED
    BY <2>2 DEF Rises, n
<1>4. shorter = [k \in 1..n |-> items[kept[k]]]
  <2>1. DOMAIN kept = 1..n
    BY <1>3
  <2> QED
    BY <2>1 DEF Without, kept
<1> HIDE DEF shorter
<1>5. \A k \in 1..n : items[kept[k]] \in S /\ items[kept[k]].id # t /\ kept[k] \in DOMAIN items
  BY <1>1, <1>3
<1>6. shorter \in Seq(S) /\ Len(shorter) = n
  BY <1>3, <1>4, <1>5
<1>7. FilterOf(kept, shorter, items, t)
  <2>1. kept \in [1..n -> DOMAIN items]
    BY <1>3
  <2>2. \A k \in DOMAIN items : items[k].id # t => k \in K
    OBVIOUS
  <2>3. \A i \in 1..n : shorter[i] = items[kept[i]]
    BY <1>4
  <2> HIDE DEF K
  <2> QED
    BY <1>3, <1>5, <1>6, <2>1, <2>2, <2>3 DEF FilterOf
<1> QED
  BY <1>6, <1>7 DEF shorter

(* The first row of t. *)
IsFirst(items, i, t) ==
    i \in DOMAIN items /\ items[i].id = t /\ \A j \in 1..(i - 1) : items[j].id # t

LEMMA RowOfIs ==
  ASSUME NEW S, NEW items \in Seq(S), NEW t, NEW i, IsFirst(items, i, t)
  PROVE  RowOf(items, t) = items[i]
<1> DEFINE c == CHOOSE k \in DOMAIN items :
                    items[k].id = t /\ \A j \in 1..(k - 1) : items[j].id # t
<1>1. c \in DOMAIN items /\ items[c].id = t /\ \A j \in 1..(c - 1) : items[j].id # t
  BY DEF IsFirst
<1>2. RowOf(items, t) = items[c]
  BY DEF RowOf
<1> HIDE DEF c
<1>3. c \in Nat /\ i \in Nat /\ c >= 1 /\ i >= 1
  BY <1>1 DEF IsFirst
<1>4. ~(c < i) /\ ~(i < c)
  <2>1. c < i => c \in 1..(i - 1)
    BY <1>3
  <2>2. i < c => i \in 1..(c - 1)
    BY <1>3
  <2> QED
    BY <1>1, <2>1, <2>2 DEF IsFirst
<1>5. c = i
  BY <1>3, <1>4
<1> QED
  BY <1>2, <1>5

LEMMA FirstExists ==
  ASSUME NEW S, NEW items \in Seq(S), NEW t, InList(items, t)
  PROVE  \E i : IsFirst(items, i, t)
<1> DEFINE K == {i \in DOMAIN items : items[i].id = t}
<1>1. K \in SUBSET Nat /\ K # {} /\ \A x \in K : x \in 1..Len(items)
  BY DEF InList
<1>2. PICK i \in K : \A k \in K : i <= k
  <2> HIDE DEF K
  <2> QED
    BY <1>1, WellOrdering
<1>3. \A j \in 1..(i - 1) : items[j].id # t
  <2> SUFFICES ASSUME NEW j \in 1..(i - 1), items[j].id = t PROVE FALSE
    OBVIOUS
  <2>1. i \in 1..Len(items) /\ Len(items) \in Nat
    BY <1>1
  <2>2. j \in 1..Len(items) /\ j < i
    BY <2>1
  <2>3. j \in K
    BY <2>2
  <2> QED
    BY <1>2, <2>1, <2>2, <2>3
<1> QED
  BY <1>2, <1>3 DEF IsFirst
----------------------------------------------------------------------------
(* The browser's store.  No invariant speaks of one copy alone: a copy on   *)
(* the list is genuine because whatever brought it was, and that was taken  *)
(* from a server whose rows only get newer.  So every event, answer and     *)
(* copy the browser is still to see must be genuine already.                *)

(* A copy that may be held: of a task there is, and genuine. *)
Held(copy) == copy \in Copy /\ server[copy.id] # NoCopy /\ Genuine(copy)

(* A list of such copies. *)
CopiesOK(items) == items \in Seq(Copy) /\ \A i \in DOMAIN items : Held(items[i])

(* One row per task. *)
Distinct(items) ==
    \A i, j \in DOMAIN items : items[i].id = items[j].id => i = j

(* A row of the server is of a commit there has been. *)
ServerOK ==
    /\ setting \in Settings
    /\ commits \in 0..setting.maxCommits
    /\ server \in [TaskId -> Copy \cup {NoCopy}]
    /\ \A t \in TaskId : server[t] # NoCopy =>
          /\ server[t].id = t /\ server[t].version <= commits
          /\ ~setting.overlaps => server[t].stamp = server[t].version

(* The copy the next commit makes; its stamp is in the order of the commits *)
(* where transactions do not overlap.                                       *)
Dated(copy) ==
    /\ copy.version = commits + 1
    /\ ~setting.overlaps => copy.stamp = copy.version

(* A page of a listing. *)
PageOK(page) ==
    /\ CopiesOK(page.rows) /\ Distinct(page.rows)
    /\ page.next \in TaskId \cup {NoTask}

(* The fields a call of the kind has. *)
Fields(kind) ==
    {"kind", "outcome", "answer"} \cup
        (IF kind = "list" THEN {"user", "filter", "cursor"}
         ELSE IF kind = "change" THEN {"task", "expected", "dir", "next"}
         ELSE IF kind = "create" THEN {"next"} ELSE {"task"})

(* What a call asks for exists; what the server answered is genuine. *)
CallOK(call) ==
    /\ call = [x \in DOMAIN call |-> call[x]]
    /\ call.kind \in {"list", "task", "change", "close", "create"}
    /\ DOMAIN call = Fields(call.kind)
    /\ call.kind = "list" =>
          /\ call.user \in User /\ call.filter \in setting.filters
          /\ call.cursor \in TaskId \cup {NoTask}
          /\ "more" \notin setting.kinds => call.cursor = NoTask
    /\ call.kind \in {"task", "change", "close"} =>
          call.task \in TaskId /\ server[call.task] # NoCopy
    /\ call.kind \in {"change", "create"} => call.next \in User
    /\ call.kind = "change" =>
          /\ call.expected \in 1..FinalStatus
          /\ IF call.dir = "forward" THEN call.expected < FinalStatus ELSE call.expected > 1
    /\ call.outcome = "ok" =>
          IF call.kind = "list" THEN PageOK(call.answer) ELSE Held(call.answer)
    /\ call.outcome = "TASK_STATE_CONFLICT" => call.kind = "change"

ViewOK ==
    /\ view \in [user : User, filter : setting.filters, task : TaskId \cup {NoTask}]
    /\ view.task # NoTask => server[view.task] # NoCopy

(* The store holds genuine copies only. *)
StoreOK(st) ==
    /\ st \in Store
    /\ CopiesOK(st.items)
    /\ st.current # NoCopy => Held(st.current)

(* Every call under way is sound. *)
CallsOK ==
    /\ calls = [s \in Slot |-> calls[s]]
    /\ \A s \in Slot : calls[s] # Idle => CallOK(calls[s])

(* The inductive invariant of the client's store. *)
StoreIInv ==
    /\ ServerOK
    /\ \A e \in events : Held(e)
    /\ CallsOK
    /\ StoreOK(store)
    /\ ViewOK
    /\ UnpagedRowsOnce
    /\ LoadingEnds

LEMMA StoreIInvImplies == StoreIInv => StoreInv /\ CopiesAreGenuine
<1> SUFFICES ASSUME StoreIInv PROVE StoreInv /\ CopiesAreGenuine
  OBVIOUS
<1>1. CopiesAreGenuine
  BY DEF StoreIInv, StoreOK, CopiesOK, Held, CopiesAreGenuine
<1>2. TypeOK
  <2>1. events \in SUBSET Copy
    BY DEF StoreIInv, Held
  <2>2. ASSUME NEW s \in Busy, calls[s].outcome = "ok"
        PROVE  IF calls[s].kind = "list" THEN calls[s].answer.rows \in Seq(Copy)
               ELSE calls[s].answer \in Copy
    <3>1. CallOK(calls[s])
      BY DEF StoreIInv, CallsOK, Busy
    <3> QED
      BY <2>2, <3>1 DEF CallOK, PageOK, CopiesOK, Held
  <2> QED
    BY <2>1, <2>2 DEF StoreIInv, ServerOK, StoreOK, ViewOK, TypeOK
<1> QED
  BY <1>1, <1>2 DEF StoreIInv, StoreInv

(* The bounds of a setting are numbers. *)
LEMMA SettingFacts ==
  ASSUME setting \in Settings
  PROVE  /\ setting.maxTask \in Nat /\ setting.existing \in 0..setting.maxTask
         /\ setting.maxCommits \in Nat /\ setting.maxCalls \in Nat \ {0}
         /\ setting.pageSize \in Nat \ {0}
         /\ setting.filters \subseteq {"all", "open", "closed"} /\ "all" \in setting.filters
         /\ \A t \in TaskId : t \in Nat /\ t # NoTask
<1>1. setting.maxTask \in Nat
  BY SettingsAssumption
<1> QED
  BY <1>1, SettingsAssumption DEF TaskId, NoTask

LEMMA CopyFacts ==
  ASSUME setting \in Settings, NEW copy \in Copy
  PROVE  /\ copy.id \in TaskId /\ copy.id # NoTask /\ copy # NoCopy
         /\ copy.assignee \in User /\ copy.status \in 1..FinalStatus
         /\ copy.isClosed \in BOOLEAN /\ copy.stamp \in 0..setting.maxCommits
         /\ copy.stamp \in Nat /\ copy.version \in Nat
<1>1. /\ copy.id \in TaskId /\ copy.stamp \in 0..setting.maxCommits
      /\ copy.version \in 0..setting.maxCommits
  BY DEF Copy
<1>2. copy.id # NoTask /\ copy.stamp \in Nat /\ copy.version \in Nat
  BY <1>1, SettingFacts
<1>3. copy # NoCopy
  BY <1>2 DEF NoCopy
<1> QED
  BY <1>1, <1>2, <1>3 DEF Copy

(* What is up to date has a stamp as late as the server's row.              *)
LEMMA FreshByStamp ==
  ASSUME ServerOK, NEW copy, Held(copy)
  PROVE  UpToDate(copy) <=> copy.stamp >= server[copy.id].stamp
<1>1. copy \in Copy /\ Genuine(copy) /\ setting \in Settings
  BY DEF Held, ServerOK
<1>2. copy.id \in TaskId /\ copy.stamp \in Nat /\ copy.version \in Nat
  BY <1>1, CopyFacts
<1>3. PICK row : row = server[copy.id]
  OBVIOUS
<1>4. row \in Copy /\ (~setting.overlaps => row.stamp = row.version)
  BY <1>2, <1>3 DEF Held, ServerOK
<1>5. row.stamp \in Nat /\ row.version \in Nat
  BY <1>1, <1>4, CopyFacts
<1> QED
  BY <1>1, <1>2, <1>3, <1>4, <1>5 DEF UpToDate, Genuine

(* The server moved on: what was genuine still is. *)
MovesOn ==
    /\ setting' = setting
    /\ \A t \in TaskId : server[t] # NoCopy => server'[t] # NoCopy
    /\ \A copy \in Copy : Held(copy) => Held(copy)'

LEMMA StandsStill ==
  ASSUME UNCHANGED <<setting, server>>
  PROVE  MovesOn
BY DEF MovesOn, Held, Genuine, Copy, TaskId, NoCopy, FinalStatus

LEMMA CommitMovesOn ==
  ASSUME ServerOK, setting' = setting, NEW copy \in Copy, Dated(copy),
         CommitChange(copy)
  PROVE  ServerOK' /\ MovesOn /\ Held(copy)'
<1>1. /\ commits \in Nat /\ setting.maxCommits \in Nat /\ commits < setting.maxCommits
      /\ commits' = commits + 1 /\ server' = [server EXCEPT ![copy.id] = copy]
  BY SettingFacts DEF CommitChange, ServerOK, Dated
<1>2. TaskId' = TaskId /\ Copy' = Copy
  BY DEF TaskId, Copy
<1>3. copy.id \in TaskId /\ copy # NoCopy
  BY CopyFacts DEF ServerOK
<1>4. server' \in [TaskId -> Copy \cup {NoCopy}] /\ server'[copy.id] = copy
  BY <1>1, <1>3 DEF ServerOK
<1>5. \A t \in TaskId : t # copy.id => server'[t] = server[t]
  BY <1>1, <1>3 DEF ServerOK
<1>6. ASSUME NEW t \in TaskId, server[t] # NoCopy
      PROVE  server[t].version \in Nat /\ server[t].version <= commits
  BY <1>6, CopyFacts DEF ServerOK
<1>7. ServerOK'
  <2>1. commits' \in 0..setting.maxCommits
    BY <1>1
  <2>2. ASSUME NEW t \in TaskId, server'[t] # NoCopy
        PROVE  /\ server'[t].id = t /\ server'[t].version <= commits'
               /\ ~setting.overlaps => server'[t].stamp = server'[t].version
    <3>1. CASE t = copy.id
      BY <1>1, <1>4, <3>1 DEF Dated
    <3>2. CASE t # copy.id
      BY <1>1, <1>5, <1>6, <2>2, <3>2 DEF ServerOK
    <3> QED
      BY <3>1, <3>2
  <2> QED
    BY <1>2, <1>4, <2>1, <2>2 DEF ServerOK, NoCopy
<1>8. ASSUME NEW c \in Copy, Held(c)
      PROVE  Held(c)'
  <2>1. c.id \in TaskId /\ c.version \in Nat
    BY CopyFacts DEF ServerOK
  <2>2. CASE c.id = copy.id
    <3>1. c.version < server'[c.id].version
      BY <1>1, <1>4, <1>6, <1>8, <2>1, <2>2 DEF Held, Genuine, Dated
    <3>2. server'[c.id].version \in Nat /\ server'[c.id] # NoCopy
      BY <1>1, <1>3, <1>4, <2>2 DEF Dated
    <3> QED
      BY <1>2, <1>8, <2>1, <3>1, <3>2 DEF Held, Genuine, NoCopy
  <2>3. CASE c.id # copy.id
    BY <1>2, <1>5, <1>8, <2>1, <2>3 DEF Held, Genuine, NoCopy
  <2> QED
    BY <2>2, <2>3
<1>9. Held(copy)'
  <2>1. copy.version \in Nat
    BY CopyFacts DEF ServerOK
  <2> QED
    BY <1>2, <1>3, <1>4, <2>1 DEF Held, Genuine, NoCopy, Dated
<1>10. \A t \in TaskId : server[t] # NoCopy => server'[t] # NoCopy
  BY <1>3, <1>4, <1>5
<1> QED
  BY <1>7, <1>8, <1>9, <1>10 DEF MovesOn

LEMMA PageMovesOn ==
  ASSUME MovesOn, NEW items, CopiesOK(items)
  PROVE  CopiesOK(items)'
<1>1. Copy' = Copy
  BY DEF MovesOn, Copy, TaskId
<1>2. \A i \in DOMAIN items : Held(items[i])'
  BY DEF MovesOn, CopiesOK, Held
<1> QED
  BY <1>1, <1>2 DEF CopiesOK

LEMMA CallMovesOn ==
  ASSUME MovesOn, NEW call, CallOK(call)
  PROVE  CallOK(call)'
<1>1. setting' = setting /\ TaskId' = TaskId
  BY DEF MovesOn, TaskId
<1>2. call.outcome = "ok" =>
         IF call.kind = "list" THEN PageOK(call.answer)' ELSE Held(call.answer)'
  <2>1. CASE call.outcome = "ok" /\ call.kind = "list"
    <3>1. PageOK(call.answer)
      BY <2>1 DEF CallOK
    <3>2. PICK rows, next : rows = call.answer.rows /\ next = call.answer.next
      OBVIOUS
    <3>3. CopiesOK(rows)'
      BY <3>1, <3>2, PageMovesOn DEF PageOK
    <3> QED
      BY <1>1, <2>1, <3>1, <3>2, <3>3 DEF PageOK, Distinct, NoTask
  <2>2. CASE call.outcome = "ok" /\ call.kind # "list"
    BY <2>2 DEF CallOK, MovesOn, Held
  <2> QED
    BY <2>1, <2>2
<1>3. call.kind \in {"task", "change", "close"} =>
         call.task \in TaskId /\ server'[call.task] # NoCopy
  BY DEF CallOK, MovesOn
<1> QED
  BY <1>1, <1>2, <1>3 DEF CallOK, Fields, NoTask, NoCopy, FinalStatus

LEMMA StoreMovesOn ==
  ASSUME MovesOn, NEW st, StoreOK(st)
  PROVE  StoreOK(st)'
<1>1. Store' = Store
  BY DEF MovesOn, Store, Copy, TaskId, NoCopy, NoTask, FinalStatus
<1>2. PICK items, current : items = st.items /\ current = st.current
  OBVIOUS
<1>3. CopiesOK(items)'
  BY <1>2, PageMovesOn DEF StoreOK
<1>4. current # NoCopy => Held(current)'
  BY <1>2 DEF StoreOK, MovesOn, Held
<1> QED
  BY <1>1, <1>2, <1>3, <1>4 DEF StoreOK, NoCopy

(* What the store does to its list keeps copies genuine and rows single.    *)
LEMMA WithoutOK ==
  ASSUME NEW items, CopiesOK(items), NEW t
  PROVE  /\ CopiesOK(Without(items, t))
         /\ Distinct(items) => Distinct(Without(items, t))
<1> DEFINE shorter == Without(items, t)
<1>1. items \in Seq(Copy)
  BY DEF CopiesOK
<1>2. shorter \in Seq(Copy) /\ \E kept : FilterOf(kept, shorter, items, t)
  BY <1>1, WithoutFilters
<1> HIDE DEF shorter
<1>3. PICK kept : FilterOf(kept, shorter, items, t)
  BY <1>2
<1>4. DOMAIN shorter = 1..Len(shorter) /\ Len(shorter) \in Nat
  BY <1>2
<1>5. \A i \in 1..Len(shorter) : kept[i] \in DOMAIN items /\ shorter[i] = items[kept[i]]
  BY <1>3 DEF FilterOf
<1>6. CopiesOK(shorter)
  BY <1>2, <1>4, <1>5 DEF CopiesOK
<1>7. Distinct(items) => Distinct(shorter)
  <2> SUFFICES ASSUME Distinct(items), NEW i \in 1..Len(shorter), NEW j \in 1..Len(shorter),
                      shorter[i].id = shorter[j].id
               PROVE  i = j
    BY <1>4 DEF Distinct
  <2>1. kept[i] = kept[j]
    BY <1>5 DEF Distinct
  <2>2. kept[i] \in Nat
    BY <1>1, <1>5
  <2>3. ~(i < j) /\ ~(j < i)
    BY <1>3, <2>1, <2>2 DEF FilterOf
  <2> QED
    BY <1>4, <2>3
<1> QED
  BY <1>6, <1>7 DEF shorter

LEMMA ReplaceOK ==
  ASSUME NEW items, CopiesOK(items), NEW copy, Held(copy)
  PROVE  /\ CopiesOK(ReplaceInList(items, copy))
         /\ Distinct(items) => Distinct(ReplaceInList(items, copy))
         /\ DOMAIN ReplaceInList(items, copy) = DOMAIN items
<1> DEFINE replaced == ReplaceInList(items, copy)
<1>1. items \in Seq(Copy) /\ DOMAIN items = 1..Len(items) /\ Len(items) \in Nat
  BY DEF CopiesOK
<1>2. /\ DOMAIN replaced = 1..Len(items)
      /\ \A i \in 1..Len(items) :
            replaced[i] = IF items[i].id = copy.id THEN copy ELSE items[i]
      /\ replaced = [i \in 1..Len(items) |-> IF items[i].id = copy.id THEN copy ELSE items[i]]
  BY <1>1 DEF ReplaceInList
<1>3. \A i \in 1..Len(items) : (IF items[i].id = copy.id THEN copy ELSE items[i]) \in Copy
  BY <1>1 DEF Held
<1>4. replaced \in Seq(Copy)
  BY <1>1, <1>2, <1>3
<1> HIDE DEF replaced
<1>5. \A i \in 1..Len(items) : Held(replaced[i]) /\ replaced[i].id = items[i].id
  BY <1>1, <1>2 DEF CopiesOK
<1>6. CopiesOK(replaced) /\ (Distinct(items) => Distinct(replaced))
  BY <1>1, <1>2, <1>4, <1>5 DEF CopiesOK, Distinct
<1> QED
  BY <1>1, <1>2, <1>6 DEF replaced

LEMMA PrependOK ==
  ASSUME NEW items, CopiesOK(items), NEW copy, Held(copy)
  PROVE  /\ CopiesOK(<<copy>> \o items)
         /\ (Distinct(items) /\ ~InList(items, copy.id)) => Distinct(<<copy>> \o items)
<1> DEFINE longer == <<copy>> \o items
<1>1. items \in Seq(Copy) /\ DOMAIN items = 1..Len(items) /\ Len(items) \in Nat
  BY DEF CopiesOK
<1>2. copy \in Copy
  BY DEF Held
<1>3. /\ longer \in Seq(Copy) /\ DOMAIN longer = 1..(Len(items) + 1)
      /\ \A i \in 1..(Len(items) + 1) : longer[i] = IF i = 1 THEN copy ELSE items[i - 1]
  BY <1>1, <1>2
<1> HIDE DEF longer
<1>4. \A i \in 1..(Len(items) + 1) : i # 1 => i - 1 \in 1..Len(items)
  BY <1>1
<1>5. CopiesOK(longer)
  BY <1>1, <1>3, <1>4 DEF CopiesOK
<1>6. (Distinct(items) /\ ~InList(items, copy.id)) => Distinct(longer)
  <2> SUFFICES ASSUME Distinct(items), ~InList(items, copy.id),
                      NEW i \in 1..(Len(items) + 1), NEW j \in 1..(Len(items) + 1),
                      longer[i].id = longer[j].id
               PROVE  i = j
    BY <1>3 DEF Distinct
  <2>1. \A k \in 1..Len(items) : items[k].id # copy.id
    BY <1>1 DEF InList
  <2>2. CASE i = 1
    BY <1>3, <1>4, <2>1, <2>2
  <2>3. CASE j = 1
    BY <1>3, <1>4, <2>1, <2>3
  <2>4. CASE i # 1 /\ j # 1
    <3>1. i - 1 = j - 1
      BY SMTT(60), <1>1, <1>3, <1>4, <2>4 DEF Distinct
    <3> QED
      BY <1>1, <3>1
  <2> QED
    BY <2>2, <2>3, <2>4
<1> QED
  BY <1>5, <1>6 DEF longer

LEMMA ReconcileOK ==
  ASSUME NEW st, CopiesOK(st.items), NEW copy, Held(copy)
  PROVE  /\ CopiesOK(Reconcile(st, copy))
         /\ Distinct(st.items) => Distinct(Reconcile(st, copy))
<1>1. CASE ~Belongs(copy, st.listUserId, st.listFilter)
  BY <1>1, WithoutOK DEF Reconcile
<1>2. CASE Belongs(copy, st.listUserId, st.listFilter) /\ InList(st.items, copy.id)
  BY <1>2, ReplaceOK DEF Reconcile
<1>3. CASE Belongs(copy, st.listUserId, st.listFilter) /\ ~InList(st.items, copy.id)
  BY <1>3, PrependOK DEF Reconcile
<1> QED
  BY <1>1, <1>2, <1>3

(* A store with another list, open task or flag is a store. *)
LEMMA StoreWith ==
  ASSUME NEW st, StoreOK(st), NEW items, CopiesOK(items), NEW current,
         current # NoCopy => Held(current)
  PROVE  /\ StoreOK([st EXCEPT !.items = items, !.current = current])
         /\ [st EXCEPT !.items = items, !.current = current].items = items
         /\ [st EXCEPT !.items = items, !.current = current].isLoading = st.isLoading
<1>1. items \in Seq(Copy) /\ current \in Copy \cup {NoCopy}
  BY DEF CopiesOK, Held
<1> QED
  BY <1>1 DEF StoreOK, Store

LEMMA StoreLoading ==
  ASSUME NEW st, StoreOK(st), NEW loading \in BOOLEAN
  PROVE  /\ StoreOK([st EXCEPT !.isLoading = loading])
         /\ [st EXCEPT !.isLoading = loading].items = st.items
         /\ [st EXCEPT !.isLoading = loading].isLoading = loading
BY DEF StoreOK, Store

LEMMA ApplyEventOK ==
  ASSUME NEW st, StoreOK(st), NEW copy, Held(copy)
  PROVE  /\ StoreOK(ApplyEvent(st, copy))
         /\ Distinct(st.items) => Distinct(ApplyEvent(st, copy).items)
         /\ ApplyEvent(st, copy).isLoading = st.isLoading
<1> DEFINE items == Reconcile(st, copy)
           current == IF st.current # NoCopy /\ st.current.id = copy.id THEN copy ELSE st.current
<1>1. st \in Store /\ CopiesOK(st.items)
  BY DEF StoreOK
<1>2. CopiesOK(items) /\ (Distinct(st.items) => Distinct(items))
  BY <1>1, ReconcileOK
<1>3. current # NoCopy => Held(current)
  BY DEF StoreOK
<1>4. \/ ApplyEvent(st, copy) = st
      \/ ApplyEvent(st, copy) = [st EXCEPT !.items = items, !.current = current]
  BY DEF ApplyEvent
<1> HIDE DEF items, current
<1>5. /\ StoreOK([st EXCEPT !.items = items, !.current = current])
      /\ [st EXCEPT !.items = items, !.current = current].items = items
      /\ [st EXCEPT !.items = items, !.current = current].isLoading = st.isLoading
  BY ZenonT(60), <1>2, <1>3, StoreWith
<1> QED
  BY <1>2, <1>4, <1>5

(* What the server answers is genuine, and a page names each task once.     *)
LEMMA PageAfterOK ==
  ASSUME ServerOK, NEW user, NEW filter, NEW mark
  PROVE  PageOK(PageAfter(user, filter, mark))
<1> DEFINE found == {t \in TaskId : /\ server[t] # NoCopy
                                    /\ Belongs(server[t], user, filter)
                                    /\ mark = NoTask \/ t < mark}
           ids == Reverse(Ascending(found))
           m == IF Len(ids) < setting.pageSize THEN Len(ids) ELSE setting.pageSize
           shown == SubSeq(ids, 1, m)
           rows == [i \in DOMAIN shown |-> server[shown[i]]]
           n == Cardinality(found)
<1>1. \A t \in found : t \in TaskId /\ t \in Nat /\ server[t] # NoCopy
  BY SettingFacts DEF ServerOK
<1>2. IsFiniteSet(found)
  <2>1. setting.maxTask \in Nat
    BY SettingFacts DEF ServerOK
  <2>2. IsFiniteSet(TaskId)
    BY <2>1, FS_Interval DEF TaskId
  <2> QED
    BY <2>2, FS_Subset
<1>3. PageAfter(user, filter, mark) = [rows |-> rows, next |-> NextCursor(ids)]
  BY DEF PageAfter
<1> HIDE DEF found
<1>4. n \in Nat /\ Rises(Ascending(found), found)
  BY <1>1, <1>2, AscendingLists
<1>5. Ascending(found) \in Seq(found) /\ Len(Ascending(found)) = n
  BY <1>4 DEF Rises
<1>6. /\ ids \in Seq(found) /\ Len(ids) = n
      /\ \A i \in 1..n : ids[i] = Ascending(found)[(n - i) + 1] /\ (n - i) + 1 \in 1..n
  <2>1. ids = [i \in 1..n |-> Ascending(found)[(n - i) + 1]]
    BY <1>5 DEF Reverse
  <2>2. \A i \in 1..n : (n - i) + 1 \in 1..n
    BY <1>4
  <2>3. \A i \in 1..n : Ascending(found)[(n - i) + 1] \in found
    BY <1>5, <2>2
  <2> QED
    BY <1>4, <2>1, <2>2, <2>3
<1>7. \A i, j \in 1..n : ids[i] = ids[j] => i = j
  <2> SUFFICES ASSUME NEW i \in 1..n, NEW j \in 1..n, ids[i] = ids[j] PROVE i = j
    OBVIOUS
  <2> DEFINE k == (n - i) + 1
             l == (n - j) + 1
  <2>1. k \in 1..n /\ l \in 1..n /\ Ascending(found)[k] = Ascending(found)[l]
    BY <1>6
  <2>2. Ascending(found)[k] \in Nat
    BY <1>1, <1>5, <2>1
  <2>3. ~(k < l) /\ ~(l < k)
    BY <1>4, <2>1, <2>2 DEF Rises
  <2>4. k = l
    BY <1>4, <2>3
  <2> QED
    BY <1>4, <2>4
<1> HIDE DEF ids
<1>8. m \in 0..n
  BY <1>4, <1>6, SettingFacts DEF ServerOK
<1> HIDE DEF m
<1>9. /\ DOMAIN shown = 1..m
      /\ \A i \in 1..m : shown[i] = ids[i] /\ i \in 1..n /\ ids[i] \in found
  BY <1>4, <1>6, <1>8
<1> HIDE DEF shown
<1>10. \A i \in 1..m : server[shown[i]] \in Copy /\ server[shown[i]].id = shown[i]
  BY <1>1, <1>9 DEF ServerOK
<1>11. /\ DOMAIN rows = 1..m /\ \A i \in 1..m : rows[i] = server[shown[i]]
       /\ rows \in Seq(Copy)
  BY <1>4, <1>8, <1>9, <1>10
<1> HIDE DEF rows
<1>12. ASSUME NEW i \in 1..m
       PROVE  Held(rows[i])
  <2>1. rows[i] = server[shown[i]] /\ rows[i].id = shown[i] /\ shown[i] \in found
    BY <1>9, <1>10, <1>11
  <2>2. server[rows[i].id] = rows[i] /\ rows[i] \in Copy /\ rows[i] # NoCopy
    BY <1>1, <1>10, <2>1
  <2>3. rows[i].version \in Nat
    BY <2>2, CopyFacts DEF ServerOK
  <2>4. ~setting.overlaps => rows[i].stamp = rows[i].version
    <3>1. rows[i].id \in TaskId
      BY <2>2, CopyFacts DEF ServerOK
    <3> QED
      BY <2>2, <3>1 DEF ServerOK
  <2> QED
    BY <2>2, <2>3, <2>4 DEF Held, Genuine
<1>13. CopiesOK(rows)
  BY <1>11, <1>12 DEF CopiesOK
<1>14. Distinct(rows)
  BY <1>7, <1>9, <1>10, <1>11 DEF Distinct
<1>15. NextCursor(ids) \in TaskId \cup {NoTask}
  <2>1. Len(ids) > setting.pageSize => setting.pageSize \in 1..n
    BY <1>4, <1>6, SettingFacts DEF ServerOK
  <2>2. Len(ids) > setting.pageSize => ids[setting.pageSize] \in TaskId
    BY <1>1, <1>6, <2>1
  <2> QED
    BY <2>2 DEF NextCursor
<1>16. PageAfter(user, filter, mark).rows = rows
  BY <1>3
<1>17. PageAfter(user, filter, mark).next = NextCursor(ids)
  BY <1>3
<1> QED
  BY <1>13, <1>14, <1>15, <1>16, <1>17 DEF PageOK

LEMMA ConcatOK ==
  ASSUME NEW items, CopiesOK(items), NEW rows, CopiesOK(rows)
  PROVE  CopiesOK(items \o rows)
<1>1. /\ items \in Seq(Copy) /\ DOMAIN items = 1..Len(items) /\ Len(items) \in Nat
      /\ rows \in Seq(Copy) /\ DOMAIN rows = 1..Len(rows) /\ Len(rows) \in Nat
  BY DEF CopiesOK
<1>2. /\ items \o rows \in Seq(Copy) /\ DOMAIN (items \o rows) = 1..(Len(items) + Len(rows))
      /\ \A i \in 1..(Len(items) + Len(rows)) :
            (items \o rows)[i] = IF i <= Len(items) THEN items[i] ELSE rows[i - Len(items)]
  BY <1>1
<1>3. \A i \in 1..(Len(items) + Len(rows)) :
         IF i <= Len(items) THEN i \in DOMAIN items ELSE i - Len(items) \in DOMAIN rows
  BY <1>1
<1> QED
  BY <1>2, <1>3 DEF CopiesOK

LEMMA TakenOK ==
  ASSUME NEW st, StoreOK(st), NEW call, CallOK(call), call.outcome = "ok"
  PROVE  /\ StoreOK(Taken(st, call))
         /\ ("more" \notin setting.kinds /\ Distinct(st.items)) => Distinct(Taken(st, call).items)
<1>1. st \in Store /\ CopiesOK(st.items)
  BY DEF StoreOK
<1>2. CASE call.kind = "list"
  <2> DEFINE items == IF call.cursor = NoTask THEN call.answer.rows
                      ELSE st.items \o call.answer.rows
  <2>1. PageOK(call.answer) /\ call.user \in User /\ call.filter \in setting.filters
    BY <1>2 DEF CallOK
  <2>2. CopiesOK(items)
    BY <1>1, <2>1, ConcatOK DEF PageOK
  <2>3. Taken(st, call) = [st EXCEPT !.items = items, !.nextCursor = call.answer.next,
                                     !.listUserId = call.user, !.listFilter = call.filter]
    BY <1>1, <1>2 DEF Taken, TakePage, Store
  <2>4. "more" \notin setting.kinds => Distinct(items)
    BY <1>2, <2>1 DEF CallOK, PageOK
  <2> HIDE DEF items
  <2>5. call.answer.next \in TaskId \cup {NoTask} /\ items \in Seq(Copy)
    BY <2>1, <2>2 DEF PageOK, CopiesOK
  <2> QED
    BY <1>1, <2>1, <2>2, <2>3, <2>4, <2>5 DEF StoreOK, Store
<1>3. CASE call.kind = "task"
  <2>1. Held(call.answer)
    BY <1>3 DEF CallOK
  <2>2. Taken(st, call) = [st EXCEPT !.items = ReplaceInList(st.items, call.answer),
                                     !.current = call.answer]
    BY <1>1, <1>3 DEF Taken, TakeTask, Store
  <2>3. /\ CopiesOK(ReplaceInList(st.items, call.answer))
        /\ Distinct(st.items) => Distinct(ReplaceInList(st.items, call.answer))
    BY <1>1, <2>1, ReplaceOK
  <2>4. PICK items, copy : items = ReplaceInList(st.items, call.answer) /\ copy = call.answer
    OBVIOUS
  <2>6. CopiesOK(items) /\ Held(copy) /\ (Distinct(st.items) => Distinct(items))
    BY <2>1, <2>3, <2>4
  <2>5. /\ StoreOK([st EXCEPT !.items = items, !.current = copy])
        /\ [st EXCEPT !.items = items, !.current = copy].items = items
    <3>1. items \in Seq(Copy) /\ copy \in Copy
      BY <2>6 DEF CopiesOK, Held
    <3> QED
      BY <2>6, <3>1 DEF StoreOK, Store
  <2> QED
    BY <2>2, <2>4, <2>5, <2>6
<1>4. CASE call.kind \notin {"list", "task"}
  <2>1. Held(call.answer)
    BY <1>4 DEF CallOK
  <2>2. Taken(st, call) = [st EXCEPT !.items = Reconcile(st, call.answer),
                                     !.current = call.answer]
    BY <1>1, <1>4 DEF Taken, TakeMutation, Store
  <2>3. /\ CopiesOK(Reconcile(st, call.answer))
        /\ Distinct(st.items) => Distinct(Reconcile(st, call.answer))
    BY <1>1, <2>1, ReconcileOK
  <2>4. PICK items, copy : items = Reconcile(st, call.answer) /\ copy = call.answer
    OBVIOUS
  <2>6. CopiesOK(items) /\ Held(copy) /\ (Distinct(st.items) => Distinct(items))
    BY <2>1, <2>3, <2>4
  <2>5. /\ StoreOK([st EXCEPT !.items = items, !.current = copy])
        /\ [st EXCEPT !.items = items, !.current = copy].items = items
    <3>1. items \in Seq(Copy) /\ copy \in Copy
      BY <2>6 DEF CopiesOK, Held
    <3> QED
      BY <2>6, <3>1 DEF StoreOK, Store
  <2> QED
    BY <2>2, <2>4, <2>5, <2>6
<1> QED
  BY <1>2, <1>3, <1>4

(* A call with its outcome and answer filled in. *)
With(call, outcome, answer) ==
    [x \in DOMAIN call |-> IF x = "outcome" THEN outcome
                           ELSE IF x = "answer" THEN answer ELSE call[x]]

LEMMA AnsweredCalls ==
  ASSUME CallsOK, NEW s \in Slot, calls[s] # Idle, NEW outcome, NEW answer,
         Answered(s, outcome, answer)
  PROVE  /\ CallOK(calls[s])
         /\ calls' = [r \in Slot |-> calls'[r]]
         /\ \A r \in Slot : r # s => calls'[r] = calls[r]
         /\ calls'[s] = With(calls[s], outcome, answer)
<1>1. CallOK(calls[s]) /\ calls = [r \in Slot |-> calls[r]]
  BY DEF CallsOK
<1>2. calls' = [r \in Slot |-> IF r = s THEN [calls[s] EXCEPT !.outcome = outcome, !.answer = answer]
                               ELSE calls[r]]
  BY <1>1 DEF Answered
<1>3. /\ calls[s] = [x \in DOMAIN calls[s] |-> calls[s][x]]
      /\ "outcome" \in DOMAIN calls[s] /\ "answer" \in DOMAIN calls[s]
  BY <1>1 DEF CallOK, Fields
<1>4. [calls[s] EXCEPT !.outcome = outcome, !.answer = answer] = With(calls[s], outcome, answer)
  BY <1>3 DEF With
<1> QED
  BY <1>1, <1>2, <1>4

LEMMA WithFields ==
  ASSUME NEW call, CallOK(call), NEW outcome, NEW answer
  PROVE  /\ With(call, outcome, answer) # Idle
         /\ DOMAIN With(call, outcome, answer) = DOMAIN call
         /\ With(call, outcome, answer) = [x \in DOMAIN call |-> With(call, outcome, answer)[x]]
         /\ With(call, outcome, answer).outcome = outcome
         /\ With(call, outcome, answer).answer = answer
         /\ \A x \in DOMAIN call \ {"outcome", "answer"} : With(call, outcome, answer)[x] = call[x]
<1>1. {"kind", "outcome", "answer"} \subseteq DOMAIN call
  BY DEF CallOK, Fields
<1>2. With(call, outcome, answer).kind = call.kind
  BY <1>1 DEF With
<1>3. With(call, outcome, answer) # Idle
  BY <1>2 DEF Idle, CallOK
<1> QED
  BY <1>1, <1>3 DEF With

LEMMA AnswerOK ==
  ASSUME NEW call, CallOK(call), NEW outcome, NEW answer,
         outcome = "ok" => IF call.kind = "list" THEN PageOK(answer) ELSE Held(answer),
         outcome = "TASK_STATE_CONFLICT" => call.kind = "change"
  PROVE  CallOK(With(call, outcome, answer))
<1> DEFINE new == With(call, outcome, answer)
<1>1. /\ DOMAIN new = DOMAIN call /\ new = [x \in DOMAIN call |-> new[x]]
      /\ new.outcome = outcome /\ new.answer = answer
      /\ \A x \in DOMAIN call \ {"outcome", "answer"} : new[x] = call[x]
  BY WithFields
<1> HIDE DEF new
<1>2. new.kind = call.kind
  BY <1>1 DEF CallOK, Fields
<1>3. call.kind = "list" => new.user = call.user /\ new.filter = call.filter /\ new.cursor = call.cursor
  BY <1>1 DEF CallOK, Fields
<1>4. call.kind \in {"task", "change", "close"} => new.task = call.task
  BY <1>1 DEF CallOK, Fields
<1>5. call.kind \in {"change", "create"} => new.next = call.next
  BY <1>1 DEF CallOK, Fields
<1>6. call.kind = "change" => new.expected = call.expected /\ new.dir = call.dir
  BY <1>1 DEF CallOK, Fields
<1>7. CallOK(new)
  BY <1>1, <1>2, <1>3, <1>4, <1>5, <1>6 DEF CallOK
<1> QED
  BY <1>7 DEF new

(* The same for the answer a commit gives. *)
LEMMA CommitAnswerOK ==
  ASSUME MovesOn, NEW call, CallOK(call), call.kind # "list", NEW answer, Held(answer)'
  PROVE  CallOK(With(call, "ok", answer))'
<1> DEFINE quiet == With(call, "pending", answer)
           new == With(call, "ok", answer)
<1>1. CallOK(quiet)
  BY AnswerOK
<1>2. /\ DOMAIN new = DOMAIN call /\ new = [x \in DOMAIN call |-> new[x]]
      /\ DOMAIN quiet = DOMAIN call
      /\ new.outcome = "ok" /\ new.answer = answer
      /\ \A x \in DOMAIN call \ {"outcome", "answer"} : new[x] = call[x] /\ quiet[x] = call[x]
  BY WithFields
<1> HIDE DEF quiet, new
<1>3. PICK q, d : q = quiet /\ d = new
  OBVIOUS
<1>4. CallOK(q)'
  BY <1>1, <1>3, CallMovesOn
<1>5. /\ DOMAIN d = DOMAIN q /\ d = [x \in DOMAIN d |-> d[x]]
      /\ d.outcome = "ok" /\ d.answer = answer
      /\ \A x \in DOMAIN d \ {"outcome", "answer"} : d[x] = q[x]
  BY <1>2, <1>3
<1>6. {"kind", "outcome", "answer"} \subseteq DOMAIN d /\ d.kind = q.kind /\ q.kind # "list"
  BY <1>2, <1>3, <1>5 DEF CallOK, Fields
<1>7. CallOK(d)'
  <2>1. Held(d.answer)'
    BY <1>5
  <2>2. DOMAIN d = Fields(d.kind)
    BY <1>4, <1>5, <1>6 DEF CallOK
  <2>3. d.kind \in {"task", "change", "close"} => d.task = q.task
    BY <1>5, <1>6, <2>2 DEF Fields
  <2>4. d.kind \in {"change", "create"} => d.next = q.next
    BY <1>5, <1>6, <2>2 DEF Fields
  <2>5. d.kind = "change" => d.expected = q.expected /\ d.dir = q.dir
    BY <1>5, <1>6, <2>2 DEF Fields
  <2> QED
    BY <1>4, <1>5, <1>6, <2>1, <2>2, <2>3, <2>4, <2>5 DEF CallOK
<1> QED
  BY <1>3, <1>7 DEF new

(* What a step has to show. *)
LEMMA StepKeeps ==
  ASSUME StoreIInv, MovesOn, ServerOK', \A e \in events' : Held(e)',
         calls' = [s \in Slot |-> calls'[s]],
         \A s \in Slot : calls'[s] # Idle => CallOK(calls'[s]) \/ CallOK(calls[s])',
         StoreOK(store'), ViewOK',
         "more" \notin setting.kinds => Distinct(store'.items),
         store'.isLoading => \E s \in Slot : calls'[s] # Idle
  PROVE  StoreIInv'
<1>1. setting' = setting /\ Slot' = Slot
  BY DEF MovesOn, Slot
<1>2. ASSUME NEW s \in Slot, calls'[s] # Idle
      PROVE  CallOK(calls[s])'
  <2>1. CASE CallOK(calls'[s])
    <3>1. PICK c : c = calls'[s]
      OBVIOUS
    <3>2. CallOK(c)'
      BY <2>1, <3>1, CallMovesOn
    <3> QED
      BY <3>1, <3>2
  <2> QED
    BY <1>2, <2>1
<1>3. CallsOK'
  BY <1>1, <1>2 DEF CallsOK, Idle
<1>4. StoreOK(store)'
  <2>1. PICK st : st = store'
    OBVIOUS
  <2>2. StoreOK(st)'
    BY <2>1, StoreMovesOn
  <2> QED
    BY <2>1, <2>2
<1>5. UnpagedRowsOnce'
  BY <1>1 DEF UnpagedRowsOnce, NoDuplicateRows, Distinct
<1>6. LoadingEnds'
  BY <1>1 DEF LoadingEnds, Busy, Idle
<1> QED
  BY <1>3, <1>4, <1>5, <1>6 DEF StoreIInv

(* The parts of the invariant, for a step that leaves the server alone. *)
LEMMA Parts ==
  ASSUME StoreIInv
  PROVE  /\ ServerOK /\ setting \in Settings /\ CallsOK /\ StoreOK(store) /\ ViewOK
         /\ calls = [s \in Slot |-> calls[s]]
         /\ \A s \in Slot : calls[s] # Idle => CallOK(calls[s])
         /\ "more" \notin setting.kinds => Distinct(store.items)
         /\ store.isLoading => \E s \in Slot : calls[s] # Idle
         /\ \A e \in events : Held(e)
BY DEF StoreIInv, ServerOK, CallsOK, UnpagedRowsOnce, NoDuplicateRows, Distinct, LoadingEnds, Busy

LEMMA ServerStandsStill ==
  ASSUME StoreIInv, UNCHANGED <<setting, server, commits>>, events' \subseteq events
  PROVE  MovesOn /\ ServerOK' /\ \A e \in events' : Held(e)'
<1>1. MovesOn
  BY StandsStill
<1>2. ServerOK'
  BY Parts DEF ServerOK, Copy, TaskId, NoCopy, FinalStatus
<1>3. \A e \in events' : Held(e)'
  BY <1>1, Parts DEF MovesOn, Held
<1> QED
  BY <1>1, <1>2, <1>3

LEMMA CallStep ==
  ASSUME StoreIInv, setting' = setting, ViewOK', NEW kind, NEW call, CallOK(call), call # Idle,
         Call(kind, call)
  PROVE  StoreIInv'
<1>1. MovesOn /\ ServerOK' /\ \A e \in events' : Held(e)'
  BY ServerStandsStill DEF Call
<1>2. PICK s \in Slot : calls' = [calls EXCEPT ![s] = call]
  BY DEF Call, Busy
<1>3. /\ calls' = [r \in Slot |-> calls'[r]]
      /\ calls'[s] = call
      /\ \A r \in Slot : calls'[r] # Idle => CallOK(calls'[r])
  BY <1>2, Parts
<1>4. store' = [store EXCEPT !.isLoading = TRUE]
  BY DEF Call
<1>5. StoreOK(store') /\ store'.items = store.items
  BY <1>4, Parts, StoreLoading
<1> QED
  BY <1>1, <1>3, <1>5, Parts, StepKeeps

LEMMA OpenTaskFacts ==
  ASSUME StoreIInv
  PROVE  /\ store.current # NoCopy => Held(store.current)
         /\ \A i \in DOMAIN store.items : Held(store.items[i])
BY Parts DEF StoreOK, CopiesOK

LEMMA ListCallOK ==
  ASSUME NEW user \in User, NEW filter \in setting.filters, NEW mark \in TaskId \cup {NoTask},
         "more" \notin setting.kinds => mark = NoTask
  PROVE  CallOK(ListCall(user, filter, mark)) /\ ListCall(user, filter, mark) # Idle
BY DEF CallOK, ListCall, Fields, Idle

LEMMA TaskCallOK ==
  ASSUME NEW t \in TaskId, server[t] # NoCopy
  PROVE  /\ CallOK(TaskCall(t)) /\ TaskCall(t) # Idle
         /\ CallOK(CloseCall(t)) /\ CloseCall(t) # Idle
BY DEF CallOK, TaskCall, CloseCall, Fields, Idle

LEMMA ChangeCallOK ==
  ASSUME setting \in Settings, NEW copy, Held(copy), NEW dir \in {"forward", "backward"},
         CanStep(copy, dir), NEW user \in User
  PROVE  CallOK(ChangeCall(copy, dir, user)) /\ ChangeCall(copy, dir, user) # Idle
<1>1. copy.id \in TaskId /\ server[copy.id] # NoCopy /\ copy.status \in 1..FinalStatus
  BY CopyFacts DEF Held
<1>2. IF dir = "forward" THEN copy.status < FinalStatus ELSE copy.status > 1
  BY DEF CanStep
<1> QED
  BY <1>1, <1>2 DEF CallOK, ChangeCall, Fields, Idle

LEMMA CreateCallOK ==
  ASSUME NEW user \in User
  PROVE  CallOK(CreateCall(user)) /\ CreateCall(user) # Idle
BY DEF CallOK, CreateCall, Fields, Idle

LEMMA BothStep ==
  ASSUME StoreIInv, setting' = setting, ViewOK', NEW user \in User,
         NEW filter \in setting.filters, NEW t \in TaskId, server[t] # NoCopy,
         CallBoth(user, filter, t)
  PROVE  StoreIInv'
<1>1. MovesOn /\ ServerOK' /\ \A e \in events' : Held(e)'
  BY ServerStandsStill DEF CallBoth
<1>2. PICK list, task : list = ListCall(user, filter, NoTask) /\ task = TaskCall(t)
  OBVIOUS
<1>3. CallOK(list) /\ CallOK(task) /\ list # Idle
  BY <1>2, ListCallOK, TaskCallOK
<1>4. PICK r, s \in Slot : r < s /\ calls' = [calls EXCEPT ![r] = list, ![s] = task]
  BY <1>2 DEF CallBoth, Busy
<1>5. r # s /\ calls = [q \in Slot |-> calls[q]]
  <2>1. setting.maxCalls \in Nat
    BY Parts, SettingFacts
  <2> QED
    BY <1>4, <2>1, Parts DEF Slot
<1>6. /\ calls' = [q \in Slot |-> calls'[q]]
      /\ calls'[r] = list
      /\ \A q \in Slot : calls'[q] \in {list, task, calls[q]}
  BY <1>4, <1>5
<1>7. \A q \in Slot : calls'[q] # Idle => CallOK(calls'[q])
  BY <1>3, <1>6, Parts
<1>8. store' = [store EXCEPT !.isLoading = TRUE]
  BY DEF CallBoth
<1>9. StoreOK(store') /\ store'.items = store.items
  BY <1>8, Parts, StoreLoading
<1> QED
  BY <1>1, <1>3, <1>6, <1>7, <1>9, Parts, StepKeeps

(* What the views do. *)
LEMMA ViewStepKeeps ==
  ASSUME StoreIInv, setting' = setting, ViewStep
  PROVE  StoreIInv'
<1>1. setting \in Settings /\ StoreOK(store) /\ TaskId' = TaskId
  BY Parts DEF TaskId
<1>2. /\ view \in [user : User, filter : setting.filters, task : TaskId \cup {NoTask}]
      /\ view.user \in User /\ view.filter \in setting.filters
      /\ view.task # NoTask => server[view.task] # NoCopy
  BY SMTT(60), Parts DEF ViewOK
<1>0. server' = server
  BY DEF ViewStep, ShowUser, ShowFilter, LoadMore, OpenDrawer, FollowLink, Reconnected,
         CloseDrawer, SubmitChange, SubmitClose, SubmitCreate, Call, CallBoth
<1>3. ViewOK' <=>
         /\ view' \in [user : User, filter : setting.filters, task : TaskId \cup {NoTask}]
         /\ view'.task # NoTask => server[view'.task] # NoCopy
  BY <1>0, <1>1 DEF ViewOK, NoTask, NoCopy
<1>4. ASSUME NEW u \in User, ShowUser(u)
      PROVE  StoreIInv'
  <2>1. ViewOK'
    BY <1>2, <1>3, <1>4 DEF ShowUser
  <2>2. PICK call : call = ListCall(u, view.filter, NoTask)
    OBVIOUS
  <2>3. CallOK(call) /\ call # Idle
    BY <1>2, <2>2, ListCallOK
  <2> QED
    BY <1>4, <2>1, <2>2, <2>3, CallStep DEF ShowUser
<1>5. ASSUME NEW f \in setting.filters, ShowFilter(f)
      PROVE  StoreIInv'
  <2>1. ViewOK'
    BY <1>2, <1>3, <1>5 DEF ShowFilter
  <2>2. PICK call : call = ListCall(view.user, f, NoTask)
    OBVIOUS
  <2>3. CallOK(call) /\ call # Idle
    BY <1>2, <2>2, ListCallOK
  <2> QED
    BY <1>5, <2>1, <2>2, <2>3, CallStep DEF ShowFilter
<1>6. ASSUME LoadMore
      PROVE  StoreIInv'
  <2>1. ViewOK'
    BY <1>2, <1>3, <1>6 DEF LoadMore
  <2>2. PICK call : call = ListCall(view.user, view.filter, store.nextCursor)
    OBVIOUS
  <2>3. store.nextCursor \in TaskId \cup {NoTask}
    BY <1>1 DEF StoreOK, Store
  <2>4. "more" \in setting.kinds
    BY <1>6 DEF LoadMore, Call
  <2>5. CallOK(call) /\ call # Idle
    BY <1>2, <2>2, <2>3, <2>4, ListCallOK
  <2> QED
    BY <1>6, <2>1, <2>2, <2>5, CallStep DEF LoadMore
<1>7. ASSUME NEW t \in TaskId, OpenDrawer(t)
      PROVE  StoreIInv'
  <2>1. ViewOK'
    BY <1>2, <1>3, <1>7 DEF OpenDrawer
  <2>2. PICK call : call = TaskCall(t)
    OBVIOUS
  <2>3. server[t] # NoCopy
    BY <1>7 DEF OpenDrawer
  <2>4. CallOK(call) /\ call # Idle
    BY <2>2, <2>3, TaskCallOK
  <2> QED
    BY <1>7, <2>1, <2>2, <2>4, CallStep DEF OpenDrawer
<1>8. ASSUME CloseDrawer
      PROVE  StoreIInv'
  <2>1. ViewOK'
    BY <1>2, <1>3, <1>8 DEF CloseDrawer
  <2>2. MovesOn /\ ServerOK' /\ \A e \in events' : Held(e)'
    BY <1>8, ServerStandsStill DEF CloseDrawer
  <2>3. calls' = calls /\ store' = store
    BY <1>8 DEF CloseDrawer
  <2> QED
    BY <2>1, <2>2, <2>3, Parts, StepKeeps
<1>9. ASSUME NEW dir \in {"forward", "backward"}, NEW u \in User, SubmitChange(dir, u)
      PROVE  StoreIInv'
  <2>1. ViewOK'
    BY <1>2, <1>3, <1>9 DEF SubmitChange
  <2>2. PICK call, copy : call = ChangeCall(copy, dir, u) /\ copy = store.current
    OBVIOUS
  <2>3. Held(copy) /\ CanStep(copy, dir)
    BY <1>9, <2>2, OpenTaskFacts DEF SubmitChange
  <2>4. CallOK(call) /\ call # Idle
    BY <1>1, <2>2, <2>3, ChangeCallOK
  <2> QED
    BY <1>9, <2>1, <2>2, <2>4, CallStep DEF SubmitChange
<1>10. ASSUME SubmitClose
       PROVE  StoreIInv'
  <2>1. ViewOK'
    BY <1>2, <1>3, <1>10 DEF SubmitClose
  <2>2. PICK call : call = CloseCall(store.current.id)
    OBVIOUS
  <2>3. Held(store.current)
    BY <1>10, OpenTaskFacts DEF SubmitClose
  <2>4. PICK t : t = store.current.id
    OBVIOUS
  <2>5. t \in TaskId /\ server[t] # NoCopy
    BY <1>1, <2>3, <2>4, CopyFacts DEF Held
  <2>6. CallOK(call) /\ call # Idle
    BY <2>2, <2>4, <2>5, TaskCallOK
  <2> QED
    BY <1>10, <2>1, <2>2, <2>6, CallStep DEF SubmitClose
<1>11. ASSUME NEW u \in User, SubmitCreate(u)
       PROVE  StoreIInv'
  <2>1. ViewOK'
    BY <1>2, <1>3, <1>11 DEF SubmitCreate
  <2>2. PICK call : call = CreateCall(u)
    OBVIOUS
  <2>3. CallOK(call) /\ call # Idle
    BY <2>2, CreateCallOK
  <2> QED
    BY <1>11, <2>1, <2>2, <2>3, CallStep DEF SubmitCreate
<1>12. ASSUME NEW u \in User, NEW t \in TaskId, FollowLink(u, t)
       PROVE  StoreIInv'
  <2>1. ViewOK'
    BY <1>2, <1>3, <1>12 DEF FollowLink
  <2>2. PICK filter : filter = view.filter
    OBVIOUS
  <2> QED
    BY <1>2, <1>12, <2>1, <2>2, BothStep DEF FollowLink
<1>13. ASSUME Reconnected
       PROVE  StoreIInv'
  <2>1. ViewOK' /\ view' = view
    BY <1>2, <1>3, <1>13 DEF Reconnected
  <2>2. PICK user, filter, t, call :
           /\ user = view.user /\ filter = view.filter /\ t = view.task
           /\ call = ListCall(user, filter, NoTask)
    OBVIOUS
  <2>3. CASE t = NoTask
    <3>1. CallOK(call) /\ call # Idle
      BY <1>2, <2>2, ListCallOK
    <3> QED
      BY <1>13, <2>1, <2>2, <2>3, <3>1, CallStep DEF Reconnected
  <2>4. CASE t # NoTask
    <3>1. t \in TaskId /\ server[t] # NoCopy
      BY <1>2, <2>2, <2>4, Parts
    <3> QED
      BY <1>2, <1>13, <2>1, <2>2, <2>4, <3>1, BothStep DEF Reconnected
  <2> QED
    BY <2>3, <2>4
<1> QED
  BY <1>4, <1>5, <1>6, <1>7, <1>8, <1>9, <1>10, <1>11, <1>12, <1>13 DEF ViewStep

(* The copies a commit makes. *)
LEMMA FreshOK ==
  ASSUME ServerOK, commits < setting.maxCommits, NEW t \in TaskId, NEW user \in User
  PROVE  Fresh(t, user) \in Copy /\ Dated(Fresh(t, user))
<1>1. commits + 1 \in 0..setting.maxCommits /\ 0 \in 0..setting.maxCommits
  BY SettingFacts DEF ServerOK
<1> QED
  BY <1>1 DEF Fresh, Copy, FinalStatus, Dated

LEMMA StampsOK ==
  ASSUME ServerOK, commits < setting.maxCommits, NEW at \in Stamps
  PROVE  /\ at \in 0..setting.maxCommits /\ commits + 1 \in 0..setting.maxCommits
         /\ ~setting.overlaps => at = commits + 1
BY SettingFacts DEF ServerOK, Stamps

LEMMA SteppedOK ==
  ASSUME ServerOK, commits < setting.maxCommits, NEW copy \in Copy, NEW user \in User, NEW dir,
         NEW at \in Stamps,
         IF dir = "forward" THEN copy.status < FinalStatus ELSE copy.status > 1
  PROVE  Stepped(copy, dir, user, at) \in Copy /\ Dated(Stepped(copy, dir, user, at))
<1>1. copy.status \in 1..FinalStatus
  BY DEF Copy
<1>2. (IF dir = "forward" THEN copy.status + 1 ELSE copy.status - 1) \in 1..FinalStatus
  BY <1>1 DEF FinalStatus
<1> QED
  BY <1>2, StampsOK DEF Stepped, Copy, Dated

LEMMA ClosedOK ==
  ASSUME ServerOK, commits < setting.maxCommits, NEW copy \in Copy, NEW at \in Stamps
  PROVE  Closed(copy, at) \in Copy /\ Dated(Closed(copy, at))
BY StampsOK DEF Closed, Copy, Dated

LEMMA CommitStep ==
  ASSUME StoreIInv, setting' = setting, NEW copy \in Copy, Dated(copy),
         CommitChange(copy)
  PROVE  MovesOn /\ ServerOK' /\ Held(copy)' /\ \A e \in events' : Held(e)'
<1>1. ServerOK' /\ MovesOn /\ Held(copy)'
  BY CommitMovesOn, Parts
<1>2. \A e \in events' : e \in events \/ e = copy
  BY DEF CommitChange
<1>3. ASSUME NEW e \in events'
      PROVE  Held(e)'
  <2>1. CASE e \in events
    <3>1. Held(e)
      BY <2>1, Parts
    <3> QED
      BY <1>1, <3>1 DEF MovesOn, Held
  <2>2. CASE e = copy
    BY <1>1, <2>2
  <2> QED
    BY <1>2, <2>1, <2>2
<1> QED
  BY <1>1, <1>3

(* The view and the store are left alone by the server and other clients.   *)
LEMMA Unwatched ==
  ASSUME StoreIInv, MovesOn, UNCHANGED <<store, view>>
  PROVE  /\ StoreOK(store') /\ ViewOK'
         /\ "more" \notin setting.kinds => Distinct(store'.items)
         /\ store'.isLoading => \E s \in Slot : calls[s] # Idle
<1>1. store' = store /\ ViewOK'
  BY Parts DEF MovesOn, ViewOK, TaskId, NoTask
<1> QED
  BY <1>1, Parts

(* A call is answered, and nothing else changes. *)
LEMMA AnswerStep ==
  ASSUME StoreIInv, UNCHANGED <<setting, server, commits, events, store, view>>,
         NEW s \in Slot, calls[s] # Idle, NEW outcome, NEW answer,
         Answered(s, outcome, answer),
         outcome = "ok" => IF calls[s].kind = "list" THEN PageOK(answer) ELSE Held(answer),
         outcome = "TASK_STATE_CONFLICT" => calls[s].kind = "change"
  PROVE  StoreIInv'
<1>1. MovesOn /\ ServerOK' /\ \A e \in events' : Held(e)'
  BY ServerStandsStill
<1>2. /\ CallOK(calls[s]) /\ calls' = [r \in Slot |-> calls'[r]]
      /\ \A r \in Slot : r # s => calls'[r] = calls[r]
      /\ calls'[s] = With(calls[s], outcome, answer)
  BY AnsweredCalls, Parts
<1>3. PICK c : c = calls[s]
  OBVIOUS
<1>4. CallOK(calls'[s]) /\ calls'[s] # Idle
  BY <1>2, <1>3, AnswerOK, WithFields
<1>5. \A r \in Slot : calls'[r] # Idle => CallOK(calls'[r])
  BY <1>2, <1>4, Parts
<1> QED
  BY <1>1, <1>2, <1>4, <1>5, Unwatched, StepKeeps

(* A call is answered by a commit. *)
LEMMA CommitAnswerStep ==
  ASSUME StoreIInv, UNCHANGED <<setting, store, view>>,
         NEW s \in Slot, calls[s] # Idle, calls[s].kind # "list", NEW copy \in Copy,
         Dated(copy), CommitChange(copy), Answered(s, "ok", copy)
  PROVE  StoreIInv'
<1>1. MovesOn /\ ServerOK' /\ Held(copy)' /\ \A e \in events' : Held(e)'
  BY CommitStep
<1>2. /\ CallOK(calls[s]) /\ calls' = [r \in Slot |-> calls'[r]]
      /\ \A r \in Slot : r # s => calls'[r] = calls[r]
      /\ calls'[s] = With(calls[s], "ok", copy)
  BY AnsweredCalls, Parts
<1>3. PICK c, d : c = calls[s] /\ d = With(c, "ok", copy)
  OBVIOUS
<1>4. CallOK(d)' /\ d # Idle
  BY <1>1, <1>2, <1>3, CommitAnswerOK, WithFields
<1>5. calls'[s] = d
  BY <1>2, <1>3
<1>6. CallOK(calls[s])'
  BY <1>4, <1>5
<1>7. \A r \in Slot : calls'[r] # Idle => CallOK(calls'[r]) \/ CallOK(calls[r])'
  <2> SUFFICES ASSUME NEW r \in Slot, calls'[r] # Idle
               PROVE  CallOK(calls'[r]) \/ CallOK(calls[r])'
    OBVIOUS
  <2>1. CASE r = s
    BY <1>6, <2>1
  <2>2. CASE r # s
    BY <1>2, <2>2, Parts
  <2> QED
    BY <2>1, <2>2
<1> QED
  BY <1>1, <1>2, <1>4, <1>5, <1>7, Unwatched, StepKeeps

LEMMA ServeKeeps ==
  ASSUME StoreIInv, setting' = setting, NEW s \in Slot, Serve(s)
  PROVE  StoreIInv'
<1>1. /\ calls[s] # Idle /\ CallOK(calls[s]) /\ ServerOK /\ setting \in Settings
      /\ UNCHANGED <<setting, store, view>>
  BY Parts DEF Serve, Busy
<1>2. calls[s].kind \in {"task", "change", "close"} =>
         /\ calls[s].task \in TaskId /\ server[calls[s].task] # NoCopy
         /\ server[calls[s].task] \in Copy /\ server[calls[s].task].id = calls[s].task
  BY <1>1 DEF CallOK, ServerOK
<1>3. ASSUME ServeRead(s)
      PROVE  StoreIInv'
  <2>1. UNCHANGED <<setting, server, commits, events, store, view>>
    BY <1>1, <1>3 DEF ServeRead
  <2>2. CASE calls[s].kind = "task"
    <3>1. PICK copy : copy = server[calls[s].task]
      OBVIOUS
    <3>2. Answered(s, "ok", copy)
      BY <1>3, <2>2, <3>1 DEF ServeRead
    <3>3. copy.version \in Nat
      BY <1>1, <1>2, <2>2, <3>1, CopyFacts
    <3>4. Held(copy)
      BY <1>1, <1>2, <2>2, <3>1, <3>3 DEF Held, Genuine, ServerOK
    <3> QED
      BY <1>1, <2>1, <2>2, <3>2, <3>4, AnswerStep
  <2>3. CASE calls[s].kind = "list"
    <3>1. PICK page : page = PageAfter(calls[s].user, calls[s].filter, calls[s].cursor)
      OBVIOUS
    <3>2. Answered(s, "ok", page)
      BY <1>3, <2>3, <3>1 DEF ServeRead
    <3>3. PICK u, f, c : u = calls[s].user /\ f = calls[s].filter /\ c = calls[s].cursor
      OBVIOUS
    <3>4. PageOK(page)
      BY <1>1, <3>1, <3>3, PageAfterOK
    <3> QED
      BY <1>1, <2>1, <2>3, <3>2, <3>4, AnswerStep
  <2> QED
    BY <1>3, <2>2, <2>3 DEF ServeRead
<1>4. ASSUME ServeCreate(s)
      PROVE  StoreIInv'
  <2>1. PICK t \in TaskId : /\ CommitChange(Fresh(t, calls[s].next))
                            /\ Answered(s, "ok", Fresh(t, calls[s].next))
    BY <1>4 DEF ServeCreate
  <2>2. calls[s].kind = "create" /\ calls[s].next \in User
    BY <1>1, <1>4 DEF ServeCreate, CallOK
  <2>3. PICK u, copy : u = calls[s].next /\ copy = Fresh(t, u)
    OBVIOUS
  <2>4. CommitChange(copy) /\ Answered(s, "ok", copy)
    BY <2>1, <2>3
  <2>5. copy \in Copy /\ Dated(copy)
    <3>1. commits < setting.maxCommits
      BY <2>4 DEF CommitChange
    <3> QED
      BY <1>1, <2>2, <2>3, <3>1, FreshOK
  <2> QED
    BY <1>1, <2>2, <2>4, <2>5, CommitAnswerStep
<1>5. ASSUME ServeMutation(s)
      PROVE  StoreIInv'
  <2>1. PICK row, copy, at :
           /\ at \in Stamps /\ row = server[calls[s].task]
           /\ copy = IF calls[s].kind = "close" THEN Closed(row, at)
                     ELSE Stepped(row, calls[s].dir, calls[s].next, at)
           /\ CommitChange(copy) /\ Answered(s, "ok", copy)
    BY <1>5 DEF ServeMutation
  <2>2. CommitChange(copy) /\ Answered(s, "ok", copy)
    BY <2>1
  <2>3. calls[s].kind \in {"change", "close"} /\ calls[s].kind # "list" /\ row \in Copy
    BY <1>2, <1>5, <2>1 DEF ServeMutation
  <2>4. commits < setting.maxCommits
    BY <2>2 DEF CommitChange
  <2>5. copy \in Copy /\ Dated(copy)
    <3>1. CASE calls[s].kind = "close"
      BY <1>1, <2>1, <2>3, <2>4, <3>1, ClosedOK
    <3>2. CASE calls[s].kind = "change"
      <4>1. PICK dir, u : dir = calls[s].dir /\ u = calls[s].next
        OBVIOUS
      <4>2. u \in User
        BY <1>1, <3>2, <4>1 DEF CallOK
      <4>3. row.status = calls[s].expected
        BY <1>5, <2>1, <3>2 DEF ServeMutation, Refusal
      <4>4. IF dir = "forward" THEN row.status < FinalStatus ELSE row.status > 1
        BY <1>1, <3>2, <4>1, <4>3 DEF CallOK
      <4>5. copy = Stepped(row, dir, u, at)
        BY <2>1, <3>2, <4>1
      <4> QED
        BY <1>1, <2>1, <2>3, <2>4, <4>2, <4>4, <4>5, SteppedOK
    <3> QED
      BY <2>3, <3>1, <3>2
  <2> QED
    BY <1>1, <2>2, <2>3, <2>5, CommitAnswerStep
<1>6. ASSUME Refuse(s)
      PROVE  StoreIInv'
  <2>1. UNCHANGED <<setting, server, commits, events, store, view>>
    BY <1>1, <1>6 DEF Refuse
  <2>2. PICK outcome : outcome = Refusal(calls[s])
    OBVIOUS
  <2>3. Answered(s, outcome, NoCopy)
    BY <1>6, <2>2 DEF Refuse
  <2>4. outcome # "ok" /\ (outcome = "TASK_STATE_CONFLICT" => calls[s].kind = "change")
    BY <1>6, <2>2 DEF Refuse, Refusal
  <2> QED
    BY <1>1, <2>1, <2>3, <2>4, AnswerStep
<1>7. ASSUME Fail(s)
      PROVE  StoreIInv'
  <2>1. UNCHANGED <<setting, server, commits, events, store, view>>
    BY <1>1, <1>7 DEF Fail
  <2>2. Answered(s, "NETWORK", NoCopy)
    BY <1>7 DEF Fail
  <2> QED
    BY <1>1, <2>1, <2>2, AnswerStep
<1> QED
  BY <1>3, <1>4, <1>5, <1>6, <1>7 DEF Serve

LEMMA TakeAnswerKeeps ==
  ASSUME StoreIInv, setting' = setting, NEW s \in Slot, TakeAnswer(s)
  PROVE  StoreIInv'
<1>1. MovesOn /\ ServerOK' /\ \A e \in events' : Held(e)'
  BY ServerStandsStill DEF TakeAnswer
<1>2. CallOK(calls[s]) /\ calls[s].outcome = "ok"
  BY Parts DEF TakeAnswer, Busy
<1>3. PICK st : st = Taken(store, calls[s])
  OBVIOUS
<1>4. StoreOK(st) /\ ("more" \notin setting.kinds => Distinct(st.items))
  <2>1. PICK c, old : c = calls[s] /\ old = store
    OBVIOUS
  <2> QED
    BY <1>2, <1>3, <2>1, Parts, TakenOK
<1>5. store' = [st EXCEPT !.isLoading = FALSE]
  BY <1>3 DEF TakeAnswer
<1>6. StoreOK(store') /\ store'.items = st.items /\ store'.isLoading = FALSE
  BY <1>4, <1>5, StoreLoading
<1>7. /\ calls' = [r \in Slot |-> calls'[r]]
      /\ \A r \in Slot : calls'[r] # Idle => CallOK(calls'[r])
  <2>1. calls' = [calls EXCEPT ![s] = Idle]
    BY DEF TakeAnswer
  <2> QED
    BY <2>1, Parts
<1>8. ViewOK'
  BY Parts DEF TakeAnswer, ViewOK, TaskId, NoTask, NoCopy
<1> QED
  BY <1>1, <1>4, <1>6, <1>7, <1>8, StepKeeps

LEMMA TakeErrorKeeps ==
  ASSUME StoreIInv, setting' = setting, NEW s \in Slot, TakeError(s)
  PROVE  StoreIInv'
<1>1. MovesOn /\ ServerOK' /\ \A e \in events' : Held(e)'
  BY ServerStandsStill DEF TakeError
<1>2. CallOK(calls[s])
  BY Parts DEF TakeError, Busy
<1>3. store' = [store EXCEPT !.isLoading = FALSE]
  BY DEF TakeError
<1>4. StoreOK(store') /\ store'.items = store.items /\ store'.isLoading = FALSE
  BY <1>3, Parts, StoreLoading
<1>5. PICK next : next = IF calls[s].outcome = "TASK_STATE_CONFLICT"
                         THEN TaskCall(calls[s].task) ELSE Idle
  OBVIOUS
<1>6. next # Idle => CallOK(next)
  <2>1. CASE calls[s].outcome = "TASK_STATE_CONFLICT"
    <3>1. PICK t : t = calls[s].task
      OBVIOUS
    <3>2. t \in TaskId /\ server[t] # NoCopy
      BY <1>2, <2>1, <3>1 DEF CallOK
    <3> QED
      BY <1>5, <2>1, <3>1, <3>2, TaskCallOK
  <2> QED
    BY <1>5, <2>1
<1>7. calls' = [calls EXCEPT ![s] = next]
  BY <1>5 DEF TakeError
<1>8. /\ calls' = [r \in Slot |-> calls'[r]]
      /\ \A r \in Slot : calls'[r] # Idle => CallOK(calls'[r])
  BY <1>6, <1>7, Parts
<1>9. ViewOK'
  BY Parts DEF TakeError, ViewOK, TaskId, NoTask, NoCopy
<1> QED
  BY <1>1, <1>4, <1>8, <1>9, Parts, StepKeeps

LEMMA TakeEventKeeps ==
  ASSUME StoreIInv, setting' = setting, NEW e \in events, TakeEvent(e) \/ LoseEvent(e)
  PROVE  StoreIInv'
<1>1. UNCHANGED <<setting, server, commits, calls, view>> /\ events' \subseteq events
  BY DEF TakeEvent, LoseEvent
<1>2. MovesOn /\ ServerOK' /\ \A d \in events' : Held(d)'
  BY <1>1, ServerStandsStill
<1>3. PICK old, once, twice : old = store /\ once = ApplyEvent(old, e) /\ twice = ApplyEvent(once, e)
  OBVIOUS
<1>4. Held(e)
  BY Parts
<1>5. /\ StoreOK(old) /\ StoreOK(once) /\ StoreOK(twice)
      /\ Distinct(old.items) => Distinct(once.items) /\ Distinct(twice.items)
      /\ once.isLoading = old.isLoading /\ twice.isLoading = old.isLoading
  BY <1>3, <1>4, Parts, ApplyEventOK
<1>6. store' \in {old, once, twice}
  BY <1>3 DEF TakeEvent, LoseEvent
<1>7. ViewOK'
  BY <1>1, Parts DEF ViewOK, TaskId, NoTask, NoCopy
<1> QED
  BY <1>1, <1>2, <1>3, <1>5, <1>6, <1>7, Parts, StepKeeps

(* What another client does is a commit.                                   *)
LEMMA OtherClientCommits ==
  ASSUME StoreIInv, OtherClient
  PROVE  /\ UNCHANGED <<calls, store, view>>
         /\ \E copy : copy \in Copy /\ Dated(copy) /\ CommitChange(copy)
<1>1. UNCHANGED <<calls, store, view>> /\ ServerOK
  BY Parts DEF OtherClient
<1>2. ASSUME NEW t \in TaskId, NEW u \in User, CommitChange(Fresh(t, u))
      PROVE  \E copy : copy \in Copy /\ Dated(copy) /\ CommitChange(copy)
  BY <1>1, <1>2, FreshOK DEF CommitChange
<1>3. ASSUME NEW t \in TaskId, server[t] # NoCopy
      PROVE  server[t] \in Copy
  BY <1>1, <1>3 DEF ServerOK
<1>4. ASSUME NEW t \in TaskId, server[t] # NoCopy, NEW dir \in {"forward", "backward"},
             NEW u \in User, NEW at \in Stamps, CanStep(server[t], dir),
             CommitChange(Stepped(server[t], dir, u, at))
      PROVE  \E copy : copy \in Copy /\ Dated(copy) /\ CommitChange(copy)
  <2>1. PICK row, copy : row = server[t] /\ copy = Stepped(row, dir, u, at)
    OBVIOUS
  <2>2. row \in Copy /\ CommitChange(copy) /\ commits < setting.maxCommits
    BY <1>3, <1>4, <2>1 DEF CommitChange
  <2>3. IF dir = "forward" THEN row.status < FinalStatus ELSE row.status > 1
    BY <1>4, <2>1 DEF CanStep
  <2> QED
    BY <1>1, <2>1, <2>2, <2>3, SteppedOK
<1>5. ASSUME NEW t \in TaskId, server[t] # NoCopy, NEW at \in Stamps,
             CommitChange(Closed(server[t], at))
      PROVE  \E copy : copy \in Copy /\ Dated(copy) /\ CommitChange(copy)
  <2>1. PICK row, copy : row = server[t] /\ copy = Closed(row, at)
    OBVIOUS
  <2>2. row \in Copy /\ CommitChange(copy) /\ commits < setting.maxCommits
    BY <1>3, <1>5, <2>1 DEF CommitChange
  <2> QED
    BY <1>1, <2>1, <2>2, ClosedOK
<1> QED
  BY <1>1, <1>2, <1>4, <1>5 DEF OtherClient

LEMMA OtherClientKeeps ==
  ASSUME StoreIInv, setting' = setting, OtherClient
  PROVE  StoreIInv'
<1>1. UNCHANGED <<setting, calls, store, view>> /\ ServerOK
  BY Parts DEF OtherClient
<1>2. PICK copy : copy \in Copy /\ Dated(copy) /\ CommitChange(copy)
  BY OtherClientCommits
<1>3. MovesOn /\ ServerOK' /\ \A e \in events' : Held(e)'
  BY <1>1, <1>2, CommitStep
<1> QED
  BY <1>1, <1>3, Parts, Unwatched, StepKeeps

LEMMA StoreNextKeeps == StoreIInv /\ [Next]_vars => StoreIInv'
<1> SUFFICES ASSUME StoreIInv, [Next]_vars PROVE StoreIInv'
  OBVIOUS
<1>1. CASE UNCHANGED vars
  <2>1. UNCHANGED <<setting, server, commits, events, calls, store, view>>
    BY <1>1 DEF vars
  <2>2. MovesOn /\ ServerOK' /\ \A e \in events' : Held(e)'
    BY <2>1, ServerStandsStill
  <2> QED
    BY <2>1, <2>2, Unwatched, Parts, StepKeeps
<1>2. CASE Next
  <2>1. setting' = setting
    BY <1>2 DEF Next
  <2>2. CASE ViewStep
    BY <2>1, <2>2, ViewStepKeeps
  <2>3. CASE OtherClient
    BY <2>1, <2>3, OtherClientKeeps
  <2>4. ASSUME NEW s \in Slot, Serve(s) \/ TakeAnswer(s) \/ TakeError(s)
        PROVE  StoreIInv'
    BY <2>1, <2>4, ServeKeeps, TakeAnswerKeeps, TakeErrorKeeps
  <2>5. ASSUME NEW e \in events, TakeEvent(e) \/ LoseEvent(e)
        PROVE  StoreIInv'
    BY <2>1, <2>5, TakeEventKeeps
  <2> QED
    BY <1>2, <2>2, <2>3, <2>4, <2>5 DEF Next
<1> QED
  BY <1>1, <1>2

LEMMA StoreInitInv == Init => StoreIInv
<1> SUFFICES ASSUME Init PROVE StoreIInv
  OBVIOUS
<1>1. PICK holder \in [TaskId -> User], u \in User :
         /\ server = [t \in TaskId |-> IF t <= setting.existing THEN
                         [id |-> t, assignee |-> holder[t], status |-> 1,
                          isClosed |-> FALSE, stamp |-> 0, version |-> 0] ELSE NoCopy]
         /\ \E link \in {NoTask} \cup (IF MayDeepLink THEN 1..setting.existing ELSE {}) :
               /\ view = [user |-> u, filter |-> "all", task |-> link]
               /\ calls = [s \in Slot |-> IF s = 1 THEN ListCall(u, "all", NoTask)
                                          ELSE IF s = 2 /\ link # NoTask THEN TaskCall(link)
                                          ELSE Idle]
  BY DEF Init
<1>2. /\ setting \in Settings /\ commits = 0 /\ events = {}
      /\ store = [items |-> <<>>, nextCursor |-> NoTask, current |-> NoCopy,
                  listUserId |-> Nobody, listFilter |-> "all", isLoading |-> TRUE]
  BY DEF Init
<1>3. "all" \in setting.filters /\ commits \in 0..setting.maxCommits /\ 1 \in Slot
  BY <1>2, SettingFacts DEF Slot
<1>4. ASSUME NEW t \in TaskId
      PROVE  [id |-> t, assignee |-> holder[t], status |-> 1, isClosed |-> FALSE,
              stamp |-> 0, version |-> 0] \in Copy
  BY <1>2, <1>3 DEF Copy, FinalStatus
<1>5. ServerOK
  BY <1>1, <1>2, <1>3, <1>4 DEF ServerOK
<1>6. CallOK(ListCall(u, "all", NoTask)) /\ ListCall(u, "all", NoTask) # Idle
  BY <1>3, ListCallOK
<1>7. PICK link \in {NoTask} \cup (IF MayDeepLink THEN 1..setting.existing ELSE {}) :
         /\ view = [user |-> u, filter |-> "all", task |-> link]
         /\ calls = [s \in Slot |-> IF s = 1 THEN ListCall(u, "all", NoTask)
                                    ELSE IF s = 2 /\ link # NoTask THEN TaskCall(link)
                                    ELSE Idle]
  BY <1>1
<1>13. link # NoTask => link \in TaskId /\ server[link] # NoCopy
  <2> SUFFICES ASSUME link # NoTask PROVE link \in TaskId /\ server[link] # NoCopy
    OBVIOUS
  <2>1. link \in TaskId /\ link <= setting.existing
    BY <1>2, SettingFacts DEF TaskId
  <2> QED
    BY <1>1, <1>2, <1>4, <2>1, CopyFacts
<1>14. CallsOK /\ calls[1] # Idle
  BY <1>3, <1>6, <1>7, <1>13, TaskCallOK DEF CallsOK
<1>8. CopiesOK(<<>>) /\ Distinct(<<>>)
  BY DEF CopiesOK, Distinct
<1>9. StoreOK(store)
  BY <1>2, <1>3, <1>8 DEF StoreOK, Store, CopiesOK
<1>10. ViewOK
  BY <1>3, <1>7, <1>13 DEF ViewOK
<1>11. UnpagedRowsOnce
  BY <1>2, <1>8 DEF UnpagedRowsOnce, NoDuplicateRows, Distinct
<1>12. LoadingEnds
  BY <1>3, <1>14 DEF LoadingEnds, Busy
<1> QED
  BY <1>2, <1>5, <1>14, <1>9, <1>10, <1>11, <1>12 DEF StoreIInv

(* What holds of the store in every environment: its types, one row per     *)
(* task on a list no further page was loaded into (reconcileListWithTask    *)
(* replaces the row it has), a loading flag that ends with the last call.   *)
THEOREM StoreSound == Spec => []StoreInv
<1> QED
  BY StoreInitInv, StoreNextKeeps, StoreIInvImplies, PTL DEF Spec

(* However responses overlap, fail or are overtaken by events, and whatever *)
(* stamps overlapping transactions leave, no copy the store holds is of a   *)
(* later commit than the server's row, nor differs from it at the same one. *)
THEOREM StoreCopiesGenuine == Spec => []CopiesAreGenuine
<1> QED
  BY StoreInitInv, StoreNextKeeps, StoreIInvImplies, PTL DEF Spec
----------------------------------------------------------------------------
(* One event, and the rows it finds on the list.                            *)

LEMMA FirstRowKept ==
  ASSUME NEW items, CopiesOK(items), NEW t, NEW f, IsFirst(items, f, t), NEW other, t # other
  PROVE  /\ InList(Without(items, other), t)
         /\ RowOf(Without(items, other), t) = items[f]
<1>1. items \in Seq(Copy) /\ DOMAIN items = 1..Len(items) /\ Len(items) \in Nat
  BY DEF CopiesOK
<1>2. PICK shorter : shorter = Without(items, other)
  OBVIOUS
<1>3. shorter \in Seq(Copy) /\ \E kept : FilterOf(kept, shorter, items, other)
  BY <1>1, <1>2, WithoutFilters
<1>4. PICK kept : FilterOf(kept, shorter, items, other)
  BY <1>3
<1>5. PICK g \in 1..Len(shorter) : kept[g] = f
  BY <1>4 DEF FilterOf, IsFirst
<1>6. DOMAIN shorter = 1..Len(shorter) /\ Len(shorter) \in Nat
  BY <1>3
<1>7. shorter[g] = items[f] /\ shorter[g].id = t
  BY <1>4, <1>5 DEF FilterOf, IsFirst
<1>8. \A j \in 1..(g - 1) : shorter[j].id # t
  <2> SUFFICES ASSUME NEW j \in 1..(g - 1) PROVE shorter[j].id # t
    OBVIOUS
  <2>1. j \in 1..Len(shorter) /\ j < g
    BY <1>6
  <2>2. kept[j] < f /\ kept[j] \in 1..Len(items) /\ shorter[j] = items[kept[j]]
    BY <1>1, <1>4, <1>5, <2>1 DEF FilterOf
  <2>3. kept[j] \in 1..(f - 1)
    BY <1>1, <2>2 DEF IsFirst
  <2> QED
    BY <2>2, <2>3 DEF IsFirst
<1>9. IsFirst(shorter, g, t)
  BY <1>6, <1>7, <1>8 DEF IsFirst
<1>10. RowOf(shorter, t) = items[f]
  BY <1>3, <1>7, <1>9, RowOfIs
<1>11. InList(shorter, t)
  BY <1>6, <1>7 DEF InList
<1> QED
  BY <1>2, <1>10, <1>11

LEMMA FirstRowReplaced ==
  ASSUME NEW items, CopiesOK(items), NEW t, NEW f, IsFirst(items, f, t), NEW copy, Held(copy)
  PROVE  /\ InList(ReplaceInList(items, copy), t)
         /\ RowOf(ReplaceInList(items, copy), t) = IF t = copy.id THEN copy ELSE items[f]
<1>1. items \in Seq(Copy) /\ DOMAIN items = 1..Len(items) /\ Len(items) \in Nat
  BY DEF CopiesOK
<1>2. PICK new : new = ReplaceInList(items, copy)
  OBVIOUS
<1>3. DOMAIN new = 1..Len(items) /\ new \in Seq(Copy)
  BY <1>1, <1>2, ReplaceOK DEF CopiesOK
<1>4. \A i \in 1..Len(items) : new[i] = IF items[i].id = copy.id THEN copy ELSE items[i]
  BY <1>1, <1>2 DEF ReplaceInList
<1>5. \A i \in 1..Len(items) : new[i].id = items[i].id
  BY <1>4
<1>6. f \in 1..Len(items) /\ items[f].id = t
  BY <1>1 DEF IsFirst
<1>7. \A j \in 1..(f - 1) : j \in 1..Len(items)
  BY <1>1, <1>6
<1>8. IsFirst(new, f, t)
  BY <1>3, <1>5, <1>6, <1>7 DEF IsFirst
<1>9. RowOf(new, t) = new[f]
  BY <1>3, <1>8, RowOfIs
<1>10. InList(new, t)
  BY <1>3, <1>5, <1>6 DEF InList
<1> QED
  BY <1>2, <1>4, <1>6, <1>9, <1>10

LEMMA FirstRowPushed ==
  ASSUME NEW items, CopiesOK(items), NEW t, NEW f, IsFirst(items, f, t), NEW copy, Held(copy),
         t # copy.id
  PROVE  /\ InList(<<copy>> \o items, t)
         /\ RowOf(<<copy>> \o items, t) = items[f]
<1>1. items \in Seq(Copy) /\ DOMAIN items = 1..Len(items) /\ Len(items) \in Nat /\ copy \in Copy
  BY DEF CopiesOK, Held
<1>2. PICK new : new = <<copy>> \o items
  OBVIOUS
<1>3. /\ new \in Seq(Copy) /\ DOMAIN new = 1..(Len(items) + 1)
      /\ \A i \in 1..(Len(items) + 1) : new[i] = IF i = 1 THEN copy ELSE items[i - 1]
  BY <1>1, <1>2
<1>4. f \in 1..Len(items) /\ items[f].id = t /\ \A j \in 1..(f - 1) : items[j].id # t
  BY <1>1 DEF IsFirst
<1>5. f + 1 \in 1..(Len(items) + 1) /\ f + 1 # 1 /\ (f + 1) - 1 = f
  BY <1>1, <1>4
<1>6. new[f + 1] = items[f]
  BY <1>3, <1>5
<1>7. \A j \in 1..((f + 1) - 1) : new[j].id # t
  <2> SUFFICES ASSUME NEW j \in 1..((f + 1) - 1) PROVE new[j].id # t
    OBVIOUS
  <2>1. j \in 1..(Len(items) + 1) /\ (j # 1 => j - 1 \in 1..(f - 1))
    BY <1>1, <1>4
  <2> QED
    BY <1>3, <1>4, <2>1
<1>8. IsFirst(new, f + 1, t)
  BY <1>3, <1>4, <1>5, <1>6, <1>7 DEF IsFirst
<1>9. RowOf(new, t) = new[f + 1]
  BY <1>3, <1>8, RowOfIs
<1>10. InList(new, t)
  BY <1>3, <1>4, <1>5, <1>6 DEF InList
<1> QED
  BY <1>2, <1>6, <1>9, <1>10

(* A row stays, no older than it was, unless it is the event's and no       *)
(* longer belongs.                                                          *)
LEMMA RowAfterEvent ==
  ASSUME setting \in Settings, NEW st, StoreOK(st), NEW copy, Held(copy), NEW t,
         InList(st.items, t)
  PROVE  LET after == ApplyEvent(st, copy).items
         IN  IF InList(after, t) THEN RowOf(after, t).stamp >= RowOf(st.items, t).stamp
             ELSE t = copy.id /\ ~Belongs(copy, st.listUserId, st.listFilter)
<1> DEFINE after == ApplyEvent(st, copy).items
           known == Known(st, copy.id)
<1>1. st \in Store /\ CopiesOK(st.items) /\ st.items \in Seq(Copy) /\ copy \in Copy
  BY DEF StoreOK, CopiesOK, Held
<1>2. PICK f : IsFirst(st.items, f, t)
  BY <1>1, FirstExists
<1>3. RowOf(st.items, t) = st.items[f] /\ st.items[f] \in Copy
  BY <1>1, <1>2, RowOfIs DEF IsFirst
<1>4. st.items[f].stamp \in Nat /\ copy.stamp \in Nat /\ st.items[f] # NoCopy
  BY <1>1, <1>3, CopyFacts
<1>5. CASE known # NoCopy /\ IsStale(copy, known)
  <2>1. after = st.items
    BY <1>5 DEF ApplyEvent
  <2> QED
    BY <1>3, <1>4, <2>1
<1>6. CASE ~(known # NoCopy /\ IsStale(copy, known))
  <2>1. after = Reconcile(st, copy)
    BY <1>1, <1>6 DEF ApplyEvent, Store
  <2>2. CASE t = copy.id
    <3>1. known = st.items[f]
      BY <1>3, <2>2 DEF Known
    <3>2. copy.stamp > st.items[f].stamp
      BY <1>4, <1>6, <3>1 DEF IsStale
    <3>3. CASE ~Belongs(copy, st.listUserId, st.listFilter)
      <4>1. after = Without(st.items, copy.id)
        BY <2>1, <3>3 DEF Reconcile
      <4>2. PICK shorter : shorter = after
        OBVIOUS
      <4>3. shorter \in Seq(Copy) /\ \E kept : FilterOf(kept, shorter, st.items, copy.id)
        BY <1>1, <4>1, <4>2, WithoutFilters
      <4>4. ~InList(shorter, t)
        BY <2>2, <4>3 DEF FilterOf, InList
      <4> QED
        BY <2>2, <3>3, <4>2, <4>4
    <3>4. CASE Belongs(copy, st.listUserId, st.listFilter)
      <4>1. after = ReplaceInList(st.items, copy)
        BY <2>1, <2>2, <3>4 DEF Reconcile
      <4>2. InList(after, t) /\ RowOf(after, t) = copy
        BY <1>1, <1>2, <2>2, <4>1, FirstRowReplaced
      <4> QED
        BY <1>3, <1>4, <3>2, <4>2
    <3> QED
      BY <3>3, <3>4
  <2>3. CASE t # copy.id
    <3>1. InList(after, t) /\ RowOf(after, t) = st.items[f]
      <4>1. CASE ~Belongs(copy, st.listUserId, st.listFilter)
        BY <1>1, <1>2, <2>1, <2>3, <4>1, FirstRowKept DEF Reconcile
      <4>2. CASE Belongs(copy, st.listUserId, st.listFilter) /\ InList(st.items, copy.id)
        BY <1>1, <1>2, <2>1, <2>3, <4>2, FirstRowReplaced DEF Reconcile
      <4>3. CASE Belongs(copy, st.listUserId, st.listFilter) /\ ~InList(st.items, copy.id)
        BY <1>1, <1>2, <2>1, <2>3, <4>3, FirstRowPushed DEF Reconcile
      <4> QED
        BY <4>1, <4>2, <4>3
    <3> QED
      BY <1>3, <1>4, <3>1
  <2> QED
    BY <2>2, <2>3
<1> QED
  BY <1>5, <1>6

(* A row an event took away does not come back when it is applied again.    *)
LEMMA GoneStaysGone ==
  ASSUME NEW st, StoreOK(st), NEW copy, Held(copy), ~InList(st.items, copy.id),
         ~Belongs(copy, st.listUserId, st.listFilter)
  PROVE  ~InList(ApplyEvent(st, copy).items, copy.id)
<1>1. st \in Store /\ st.items \in Seq(Copy)
  BY DEF StoreOK, CopiesOK
<1>2. PICK after : after = ApplyEvent(st, copy).items
  OBVIOUS
<1>3. after = st.items \/ after = Without(st.items, copy.id)
  BY <1>1, <1>2 DEF ApplyEvent, Reconcile, Store
<1>4. CASE after = Without(st.items, copy.id)
  <2>1. after \in Seq(Copy) /\ \E kept : FilterOf(kept, after, st.items, copy.id)
    BY <1>1, <1>4, WithoutFilters
  <2>2. ~InList(after, copy.id)
    BY <2>1 DEF FilterOf, InList
  <2> QED
    BY <1>2, <2>2
<1> QED
  BY <1>2, <1>3, <1>4

LEMMA EventKeepsListing ==
  ASSUME NEW st, StoreOK(st), NEW copy
  PROVE  /\ ApplyEvent(st, copy).listUserId = st.listUserId
         /\ ApplyEvent(st, copy).listFilter = st.listFilter
BY DEF ApplyEvent, StoreOK, Store

LEMMA EventTakesNoRowBack ==
  ASSUME StoreIInv, NEW e \in events, TakeEvent(e), NEW t \in TaskId,
         InList(store.items, t), InList(store'.items, t)
  PROVE  RowOf(store'.items, t).stamp >= RowOf(store.items, t).stamp
<1>1. PICK old, once, twice : old = store /\ once = ApplyEvent(old, e) /\ twice = ApplyEvent(once, e)
  OBVIOUS
<1>2. /\ setting \in Settings /\ Held(e)
      /\ StoreOK(old) /\ StoreOK(once)
  BY <1>1, Parts, ApplyEventOK
<1>3. store' = once \/ store' = twice
  BY <1>1 DEF TakeEvent
<1>4. IF InList(once.items, t) THEN RowOf(once.items, t).stamp >= RowOf(old.items, t).stamp
      ELSE t = e.id /\ ~Belongs(e, old.listUserId, old.listFilter)
  BY <1>1, <1>2, RowAfterEvent
<1>5. CASE store' = once
  BY <1>1, <1>4, <1>5
<1>6. CASE store' = twice /\ InList(once.items, t)
  <2>1. RowOf(twice.items, t).stamp >= RowOf(once.items, t).stamp
    BY <1>1, <1>2, <1>6, RowAfterEvent
  <2>2. \A st : StoreOK(st) /\ InList(st.items, t) => RowOf(st.items, t).stamp \in Nat
    <3> SUFFICES ASSUME NEW st, StoreOK(st), InList(st.items, t)
                 PROVE  RowOf(st.items, t).stamp \in Nat
      OBVIOUS
    <3>1. st.items \in Seq(Copy)
      BY DEF StoreOK, CopiesOK
    <3>2. PICK f : IsFirst(st.items, f, t)
      BY <3>1, FirstExists
    <3>3. RowOf(st.items, t) = st.items[f] /\ st.items[f] \in Copy
      BY <3>1, <3>2, RowOfIs DEF IsFirst
    <3> QED
      BY <1>2, <3>3, CopyFacts
  <2>3. StoreOK(twice)
    BY <1>1, <1>2, ApplyEventOK
  <2>4. /\ RowOf(old.items, t).stamp \in Nat /\ RowOf(once.items, t).stamp \in Nat
        /\ RowOf(twice.items, t).stamp \in Nat
    BY <1>1, <1>2, <1>6, <2>2, <2>3
  <2>5. RowOf(twice.items, t).stamp >= RowOf(old.items, t).stamp
    BY <1>4, <1>6, <2>1, <2>4
  <2> QED
    BY <1>1, <1>6, <2>5
<1>7. CASE store' = twice /\ ~InList(once.items, t)
  <2>1. t = e.id /\ ~Belongs(e, once.listUserId, once.listFilter)
    BY <1>1, <1>2, <1>4, <1>7, EventKeepsListing
  <2> QED
    BY <1>1, <1>2, <1>7, <2>1, GoneStaysGone
<1> QED
  BY <1>3, <1>5, <1>6, <1>7

LEMMA EventStep ==
  ASSUME StoreIInv, [Next]_vars
  PROVE  [\A e \in events : TakeEvent(e) =>
             \A t \in TaskId :
                 (InList(store.items, t) /\ InList(store'.items, t)) =>
                     RowOf(store'.items, t).stamp >= RowOf(store.items, t).stamp]_vars
BY EventTakesNoRowBack

(* Whatever the order events arrive in, whether one hook applies them or    *)
(* two, a row that stays on the list is never taken back to an older copy.  *)
THEOREM StoreEventsGoForward == Spec => RowsNeverGoBackOnEvent
<1> QED
  BY StoreInitInv, StoreNextKeeps, EventStep, PTL DEF Spec, RowsNeverGoBackOnEvent

----------------------------------------------------------------------------
(* Calls that do not overlap.  What settles is decided by what is still on  *)
(* its way: one call at most, and the events.                               *)

(* A reconciled list: the rows of other tasks, and the copy if it belongs.  *)
Reconciled(new, old, copy, belongs) ==
    /\ \A i \in DOMAIN new : \/ belongs /\ new[i] = copy
                             \/ /\ new[i].id # copy.id
                                /\ \E j \in DOMAIN old : new[i] = old[j]
    /\ \A j \in DOMAIN old : old[j].id # copy.id => \E i \in DOMAIN new : new[i] = old[j]
    /\ belongs => \E i \in DOMAIN new : new[i] = copy

LEMMA ReconcileIs ==
  ASSUME NEW st, CopiesOK(st.items), NEW copy, Held(copy)
  PROVE  Reconciled(Reconcile(st, copy), st.items, copy,
                    Belongs(copy, st.listUserId, st.listFilter))
<1> DEFINE belongs == Belongs(copy, st.listUserId, st.listFilter)
<1>1. PICK old, new : old = st.items /\ new = Reconcile(st, copy)
  OBVIOUS
<1>2. old \in Seq(Copy) /\ DOMAIN old = 1..Len(old) /\ Len(old) \in Nat /\ copy \in Copy
  BY <1>1 DEF CopiesOK, Held
<1>3. CASE ~belongs
  <2>1. new = Without(old, copy.id)
    BY <1>1, <1>3 DEF Reconcile
  <2>2. new \in Seq(Copy) /\ \E kept : FilterOf(kept, new, old, copy.id)
    BY <1>2, <2>1, WithoutFilters
  <2>3. PICK kept : FilterOf(kept, new, old, copy.id)
    BY <2>2
  <2>4. DOMAIN new = 1..Len(new)
    BY <2>2
  <2>5. \A i \in DOMAIN new : /\ new[i].id # copy.id
                              /\ kept[i] \in DOMAIN old /\ new[i] = old[kept[i]]
    BY <2>3, <2>4 DEF FilterOf
  <2>6. \A j \in DOMAIN old : old[j].id # copy.id => \E i \in DOMAIN new : new[i] = old[j]
    BY <2>3, <2>4 DEF FilterOf
  <2> QED
    BY <1>1, <1>3, <2>5, <2>6 DEF Reconciled
<1>4. CASE belongs /\ InList(old, copy.id)
  <2>1. new = ReplaceInList(old, copy)
    BY <1>1, <1>4 DEF Reconcile
  <2>2. /\ DOMAIN new = DOMAIN old
        /\ \A i \in DOMAIN old : new[i] = IF old[i].id = copy.id THEN copy ELSE old[i]
    BY <2>1 DEF ReplaceInList
  <2>3. \E i \in DOMAIN old : old[i].id = copy.id
    BY <1>4 DEF InList
  <2> QED
    BY <1>1, <1>4, <2>2, <2>3 DEF Reconciled
<1>5. CASE belongs /\ ~InList(old, copy.id)
  <2>1. new = <<copy>> \o old
    BY <1>1, <1>5 DEF Reconcile
  <2>2. /\ DOMAIN new = 1..(Len(old) + 1)
        /\ \A i \in 1..(Len(old) + 1) : new[i] = IF i = 1 THEN copy ELSE old[i - 1]
    BY <1>2, <2>1
  <2>3. \A j \in DOMAIN old : old[j].id # copy.id
    BY <1>5 DEF InList
  <2>4. \A i \in DOMAIN new : i = 1 \/ i - 1 \in DOMAIN old
    BY <1>2, <2>2
  <2>5. \A i \in DOMAIN new : \/ new[i] = copy
                              \/ new[i].id # copy.id /\ \E j \in DOMAIN old : new[i] = old[j]
    BY <2>2, <2>3, <2>4
  <2>6. \A j \in DOMAIN old : j + 1 \in DOMAIN new /\ new[j + 1] = old[j]
    BY <1>2, <2>2
  <2>7. 1 \in DOMAIN new /\ new[1] = copy
    BY <1>2, <2>2
  <2> QED
    BY <1>1, <1>5, <2>5, <2>6, <2>7 DEF Reconciled
<1> QED
  BY <1>1, <1>3, <1>4, <1>5

(* What the store knows of a task is a row of it, or the open task.         *)
LEMMA KnownIs ==
  ASSUME setting \in Settings, NEW st, StoreOK(st), NEW t, Known(st, t) # NoCopy
  PROVE  /\ Known(st, t).id = t /\ Held(Known(st, t))
         /\ \/ \E i \in DOMAIN st.items : st.items[i] = Known(st, t)
            \/ ~InList(st.items, t) /\ Known(st, t) = st.current
<1>1. st.items \in Seq(Copy) /\ \A i \in DOMAIN st.items : Held(st.items[i])
  BY DEF StoreOK, CopiesOK
<1>2. CASE InList(st.items, t)
  <2>1. PICK f : IsFirst(st.items, f, t)
    BY <1>1, <1>2, FirstExists
  <2>2. Known(st, t) = st.items[f]
    BY <1>1, <1>2, <2>1, RowOfIs DEF Known
  <2> QED
    BY <1>1, <2>1, <2>2 DEF IsFirst
<1>3. CASE ~InList(st.items, t)
  BY <1>3 DEF Known, StoreOK
<1> QED
  BY <1>2, <1>3

(* A task on the list, or open, is known.                                   *)
LEMMA KnownExists ==
  ASSUME setting \in Settings, NEW st, StoreOK(st), NEW t,
         InList(st.items, t) \/ (st.current # NoCopy /\ st.current.id = t)
  PROVE  Known(st, t) # NoCopy
<1>1. st.items \in Seq(Copy)
  BY DEF StoreOK, CopiesOK
<1>2. CASE InList(st.items, t)
  <2>1. PICK f : IsFirst(st.items, f, t)
    BY <1>1, <1>2, FirstExists
  <2>2. Known(st, t) = st.items[f] /\ st.items[f] \in Copy
    BY <1>1, <1>2, <2>1, RowOfIs DEF Known, IsFirst
  <2> QED
    BY <2>2, CopyFacts
<1>3. CASE ~InList(st.items, t)
  BY <1>3 DEF Known
<1> QED
  BY <1>2, <1>3

(* An event is dropped, or taken by the list and by the task that is open.  *)
LEMMA EventOutcome ==
  ASSUME NEW st, StoreOK(st), NEW copy, Held(copy)
  PROVE  \/ /\ Known(st, copy.id) # NoCopy /\ copy.stamp <= Known(st, copy.id).stamp
            /\ ApplyEvent(st, copy) = st
         \/ /\ ~(Known(st, copy.id) # NoCopy /\ copy.stamp <= Known(st, copy.id).stamp)
            /\ Reconciled(ApplyEvent(st, copy).items, st.items, copy,
                          Belongs(copy, st.listUserId, st.listFilter))
            /\ ApplyEvent(st, copy).current =
                 IF st.current # NoCopy /\ st.current.id = copy.id THEN copy ELSE st.current
            /\ ApplyEvent(st, copy).nextCursor = st.nextCursor
<1>1. st \in Store /\ CopiesOK(st.items)
  BY DEF StoreOK
<1>2. PICK known : known = Known(st, copy.id)
  OBVIOUS
<1>3. CASE known # NoCopy /\ copy.stamp <= known.stamp
  BY <1>2, <1>3 DEF ApplyEvent, IsStale
<1>4. CASE ~(known # NoCopy /\ copy.stamp <= known.stamp)
  <2>1. PICK items, current :
           /\ items = Reconcile(st, copy)
           /\ current = IF st.current # NoCopy /\ st.current.id = copy.id THEN copy
                        ELSE st.current
    OBVIOUS
  <2>2. ApplyEvent(st, copy) = [st EXCEPT !.items = items, !.current = current]
    BY <1>2, <1>4, <2>1 DEF ApplyEvent, IsStale
  <2>3. /\ ApplyEvent(st, copy).items = items /\ ApplyEvent(st, copy).current = current
        /\ ApplyEvent(st, copy).nextCursor = st.nextCursor
    BY <1>1, <2>2 DEF Store
  <2>4. Reconciled(items, st.items, copy, Belongs(copy, st.listUserId, st.listFilter))
    BY <1>1, <2>1, ReconcileIs
  <2> QED
    BY <1>2, <1>4, <2>1, <2>3, <2>4
<1> QED
  BY <1>3, <1>4

(* One committed change, as the views hear of it.                           *)
LEMMA CommitOutcome ==
  ASSUME ServerOK, NEW copy \in Copy, CommitChange(copy)
  PROVE  /\ copy.id \in TaskId /\ server'[copy.id] = copy
         /\ \A t \in TaskId : t # copy.id => server'[t] = server[t]
         /\ events \subseteq events'
         /\ copy \in events' \/ (copy.assignee # view.user /\ view.task # copy.id)
<1>1. copy.id \in TaskId
  BY CopyFacts DEF ServerOK
<1>2. server' = [server EXCEPT ![copy.id] = copy]
  BY DEF CommitChange
<1>3. events' = events \cup {copy} \/ events' = events
  BY DEF CommitChange
<1>4. copy \in events' \/ (copy.assignee # view.user /\ view.task # copy.id)
  BY DEF CommitChange
<1> QED
  BY <1>1, <1>2, <1>3, <1>4 DEF ServerOK

(* A call that does not overlap another.                                    *)
LEMMA LoneCall ==
  ASSUME StoreIInv, setting.exclusive, setting' = setting, NEW kind, NEW call, call # Idle,
         Call(kind, call)
  PROVE  /\ Busy = {} /\ UNCHANGED <<server, commits, events>> /\ kind \in setting.kinds
         /\ \E s \in Slot : Busy' = {s} /\ calls'[s] = call
         /\ store' = [store EXCEPT !.isLoading = TRUE]
<1>1. Busy = {} /\ UNCHANGED <<server, commits, events>> /\ kind \in setting.kinds
  BY DEF Call
<1>2. PICK s \in Slot : calls' = [calls EXCEPT ![s] = call]
  BY DEF Call
<1>3. /\ calls'[s] = call
      /\ \A r \in Slot : r # s => calls'[r] = calls[r]
  BY <1>2, Parts
<1>4. Busy' = {s}
  <2>1. Slot' = Slot /\ Idle' = Idle
    BY DEF Slot, Idle
  <2>2. \A r \in Slot : calls[r] = Idle
    BY <1>1 DEF Busy
  <2> QED
    BY <1>3, <2>1, <2>2 DEF Busy
<1> QED
  BY <1>1, <1>3, <1>4 DEF Call

(* The list and the open task do not depend on the flag.                    *)
LEMMA FlagOnly ==
  ASSUME NEW st, StoreOK(st), NEW loading, NEW new, new = [st EXCEPT !.isLoading = loading]
  PROVE  /\ new.items = st.items /\ new.current = st.current
         /\ new.nextCursor = st.nextCursor /\ new.listUserId = st.listUserId
         /\ new.listFilter = st.listFilter
BY DEF StoreOK, Store

(* How the server deals with a call.                                        *)
ReadServed(s, answer) ==
    /\ Answered(s, "ok", answer) /\ UNCHANGED <<server, commits, events>>
    /\ \/ calls[s].kind = "task" /\ answer = server[calls[s].task]
       \/ /\ calls[s].kind = "list"
          /\ answer = PageAfter(calls[s].user, calls[s].filter, calls[s].cursor)

CommitServed(s, copy) ==
    /\ Answered(s, "ok", copy) /\ copy \in Copy /\ Dated(copy) /\ CommitChange(copy)
    /\ \/ calls[s].kind = "create"
       \/ calls[s].kind \in {"change", "close"} /\ copy.id = calls[s].task

Refused(s, outcome) ==
    /\ Answered(s, outcome, NoCopy) /\ UNCHANGED <<server, commits, events>>
    /\ outcome \notin {"pending", "ok"} /\ calls[s].kind \in {"change", "close"}

(* A call that is dealt with has one of these outcomes: nothing is lost.   *)
LEMMA ServeOutcomes ==
  ASSUME StoreIInv, setting.reliable, NEW s \in Slot, Serve(s)
  PROVE  /\ calls[s] # Idle /\ calls[s].outcome = "pending" /\ UNCHANGED <<store, view>>
         /\ \/ \E answer : ReadServed(s, answer)
            \/ \E copy : CommitServed(s, copy)
            \/ \E outcome : Refused(s, outcome)
<1>1. /\ calls[s] # Idle /\ CallOK(calls[s]) /\ ServerOK /\ setting \in Settings
      /\ UNCHANGED <<store, view>> /\ calls[s].outcome = "pending"
      /\ ServeRead(s) \/ ServeCreate(s) \/ ServeMutation(s) \/ Refuse(s)
  BY Parts DEF Serve, Busy, Fail
<1>2. CASE ServeRead(s)
  BY <1>1, <1>2 DEF ServeRead, ReadServed
<1>3. CASE ServeCreate(s)
  <2>1. PICK t \in TaskId : /\ CommitChange(Fresh(t, calls[s].next))
                            /\ Answered(s, "ok", Fresh(t, calls[s].next))
    BY <1>3 DEF ServeCreate
  <2>2. calls[s].kind = "create" /\ calls[s].next \in User
    BY <1>1, <1>3 DEF ServeCreate, CallOK
  <2>3. PICK u, copy : u = calls[s].next /\ copy = Fresh(t, u)
    OBVIOUS
  <2>4. CommitChange(copy) /\ Answered(s, "ok", copy)
    BY <2>1, <2>3
  <2>5. copy \in Copy /\ Dated(copy)
    <3>1. commits < setting.maxCommits
      BY <2>4 DEF CommitChange
    <3> QED
      BY <1>1, <2>2, <2>3, <3>1, FreshOK
  <2> QED
    BY <1>1, <2>2, <2>4, <2>5 DEF CommitServed
<1>4. CASE ServeMutation(s)
  <2>1. PICK row, copy, at :
           /\ at \in Stamps /\ row = server[calls[s].task]
           /\ copy = IF calls[s].kind = "close" THEN Closed(row, at)
                     ELSE Stepped(row, calls[s].dir, calls[s].next, at)
           /\ CommitChange(copy) /\ Answered(s, "ok", copy)
    BY <1>4 DEF ServeMutation
  <2>2. CommitChange(copy) /\ Answered(s, "ok", copy)
    BY <2>1
  <2>3. /\ calls[s].kind \in {"change", "close"}
        /\ row \in Copy /\ row.id = calls[s].task
    BY <1>1, <1>4, <2>1 DEF ServeMutation, CallOK, ServerOK
  <2>4. commits < setting.maxCommits
    BY <2>2 DEF CommitChange
  <2>5. copy \in Copy /\ Dated(copy) /\ copy.id = row.id
    <3>1. CASE calls[s].kind = "close"
      <4>1. copy = Closed(row, at)
        BY <2>1, <3>1
      <4>2. Closed(row, at).id = row.id
        BY <2>3 DEF Closed, Copy
      <4> QED
        BY <1>1, <2>1, <2>3, <2>4, <4>1, <4>2, ClosedOK
    <3>2. CASE calls[s].kind = "change"
      <4>1. PICK dir, u : dir = calls[s].dir /\ u = calls[s].next
        OBVIOUS
      <4>2. u \in User
        BY <1>1, <3>2, <4>1 DEF CallOK
      <4>3. row.status = calls[s].expected
        BY <1>4, <2>1, <3>2 DEF ServeMutation, Refusal
      <4>4. IF dir = "forward" THEN row.status < FinalStatus ELSE row.status > 1
        BY <1>1, <3>2, <4>1, <4>3 DEF CallOK
      <4>5. copy = Stepped(row, dir, u, at)
        BY <2>1, <3>2, <4>1
      <4>6. Stepped(row, dir, u, at).id = row.id
        BY <2>3 DEF Stepped, Copy
      <4> QED
        BY <1>1, <2>1, <2>3, <2>4, <4>2, <4>4, <4>5, <4>6, SteppedOK
    <3> QED
      BY <2>3, <3>1, <3>2
  <2> QED
    BY <1>1, <2>2, <2>3, <2>5 DEF CommitServed
<1>5. CASE Refuse(s)
  <2>1. Refusal(calls[s]) \notin {"pending", "ok"}
    BY <1>5 DEF Refuse, Refusal
  <2> QED
    BY <1>1, <1>5, <2>1 DEF Refuse, Refused
<1> QED
  BY <1>1, <1>2, <1>3, <1>4, <1>5

----------------------------------------------------------------------------
(* The open drawer.  The store holds an up-to-date copy of the task, by its *)
(* stamp, or the event of the latest is still on its way; and every row of  *)
(* the task is the copy in the drawer, so that what is known of it is that  *)
(* copy.                                                                    *)
Tracked(t, st, told) ==
    /\ st.current # NoCopy /\ st.current.id = t
    /\ \A i \in DOMAIN st.items : st.items[i].id = t => st.items[i] = st.current
    /\ st.current.stamp >= server[t].stamp \/ server[t] \in told

(* Unless a read of it is under way, which will then say so: an answer is   *)
(* the latest copy, or was overtaken by an event that is still on its way.  *)
OpenTaskCall(call, t) ==
    /\ call.kind \in {"task", "change", "close"} /\ call.task = t
    /\ call.kind = "task" => call.outcome \in {"pending", "ok"}
    /\ call.outcome = "ok" =>
          call.answer.id = t /\ (call.answer = server[t] \/ server[t] \in events)

DrawerIInv ==
    /\ \A r, s \in Busy : r = s
    /\ view.task # NoTask =>
          /\ \A s \in Busy : OpenTaskCall(calls[s], view.task)
          /\ \/ \E s \in Busy : calls[s].kind = "task"
             \/ Tracked(view.task, store, events)

(* An event of the task is taken, and any other leaves it alone.            *)
LEMMA TrackedEvent ==
  ASSUME ServerOK, NEW st, StoreOK(st), NEW e, Held(e), NEW told, NEW t \in TaskId,
         Tracked(t, st, told)
  PROVE  Tracked(t, ApplyEvent(st, e), told \ {e})
<1>1. Held(st.current) /\ st.current.id = t /\ st.current.stamp \in Nat /\ st.current # NoCopy
  <2>1. Held(st.current) /\ st.current.id = t /\ setting \in Settings
    BY DEF Tracked, StoreOK, ServerOK
  <2>2. PICK c : c = st.current
    OBVIOUS
  <2>3. c \in Copy
    BY <2>1, <2>2 DEF Held
  <2> QED
    BY <2>1, <2>2, <2>3, CopyFacts
<1>2. e \in Copy /\ e.stamp \in Nat /\ e # NoCopy
  BY CopyFacts DEF Held, ServerOK
<1>3. server[t] # NoCopy /\ server[t].id = t /\ server[t].stamp \in Nat /\ setting \in Settings
  <2>1. server[t] # NoCopy /\ server[t].id = t /\ server[t] \in Copy /\ setting \in Settings
    BY <1>1 DEF Held, ServerOK
  <2> QED
    BY <2>1, CopyFacts
<1>4. CASE e.id = t
  <2>1. Known(st, t) = st.current
    <3>1. Known(st, t) # NoCopy
      BY <1>1, <1>3, KnownExists
    <3>2. Known(st, t).id = t
      BY <1>3, <3>1, KnownIs
    <3>3. \/ \E i \in DOMAIN st.items : st.items[i] = Known(st, t)
          \/ Known(st, t) = st.current
      BY <1>3, <3>1, KnownIs
    <3> QED
      BY <3>2, <3>3 DEF Tracked
  <2>2. CASE e.stamp <= st.current.stamp
    <3>1. ApplyEvent(st, e) = st
      BY <1>1, <1>4, <2>1, <2>2 DEF ApplyEvent, IsStale
    <3>2. server[t] = e => st.current.stamp >= server[t].stamp
      BY <1>1, <1>2, <2>2
    <3> QED
      BY <3>1, <3>2 DEF Tracked
  <2>3. CASE ~(e.stamp <= st.current.stamp)
    <3>1. PICK new : new = ApplyEvent(st, e)
      OBVIOUS
    <3>2. /\ Reconciled(new.items, st.items, e, Belongs(e, st.listUserId, st.listFilter))
          /\ new.current = e
      BY <1>1, <1>4, <2>1, <2>3, <3>1, EventOutcome
    <3>4. server[t] \in told \ {e} \/ e.stamp >= server[t].stamp
      BY <1>1, <1>2, <1>3, <2>3 DEF Tracked
    <3>5. \A i \in DOMAIN new.items : new.items[i].id = t => new.items[i] = e
      BY <1>4, <3>2 DEF Reconciled
    <3> QED
      BY <1>2, <1>4, <3>1, <3>2, <3>4, <3>5 DEF Tracked
  <2> QED
    BY <2>2, <2>3
<1>5. CASE e.id # t
  <2>1. PICK new : new = ApplyEvent(st, e)
    OBVIOUS
  <2>2. new.current = st.current
    BY <1>1, <1>5, <2>1, EventOutcome
  <2>3. \A i \in DOMAIN new.items : new.items[i].id = t =>
           \E j \in DOMAIN st.items : new.items[i] = st.items[j]
    <3>1. CASE new = st
      BY <3>1
    <3>2. CASE Reconciled(new.items, st.items, e, Belongs(e, st.listUserId, st.listFilter))
      BY <1>5, <3>2 DEF Reconciled
    <3> QED
      BY <2>1, <3>1, <3>2, EventOutcome
  <2>4. server[t] # e
    BY <1>3, <1>5
  <2> QED
    BY <2>1, <2>2, <2>3, <2>4 DEF Tracked
<1> QED
  BY <1>4, <1>5

(* An answer is the copy in the drawer from then on.                        *)
LEMMA TrackedAnswer ==
  ASSUME NEW st, StoreOK(st), NEW call, CallOK(call), NEW t, NEW told,
         call.kind \in {"task", "change", "close"}, call.outcome = "ok", call.answer.id = t,
         call.answer = server[t] \/ server[t] \in told, setting \in Settings
  PROVE  Tracked(t, Taken(st, call), told)
<1>1. PICK copy, new : copy = call.answer /\ new = Taken(st, call)
  OBVIOUS
<1>2. Held(copy) /\ copy # NoCopy /\ copy.id = t /\ copy.stamp \in Nat
  BY <1>1, CopyFacts DEF CallOK, Held
<1>3. st \in Store /\ CopiesOK(st.items)
  BY DEF StoreOK
<1>4. new.current = copy
  BY <1>1, <1>3 DEF Taken, TakeTask, TakeMutation, Store
<1>5. \A i \in DOMAIN new.items : new.items[i].id = t => new.items[i] = copy
  <2>1. CASE call.kind = "task"
    <3>1. new.items = ReplaceInList(st.items, copy)
      BY <1>1, <1>3, <2>1 DEF Taken, TakeTask, Store
    <3> QED
      BY <1>2, <3>1 DEF ReplaceInList
  <2>2. CASE call.kind # "task"
    <3>1. PICK items : items = Reconcile(st, copy)
      OBVIOUS
    <3>2. new = [st EXCEPT !.current = copy, !.items = items]
      BY <1>1, <2>2, <3>1 DEF Taken, TakeMutation
    <3>3. new.items = items
      BY <1>3, <3>2 DEF Store
    <3>4. Reconciled(items, st.items, copy, Belongs(copy, st.listUserId, st.listFilter))
      BY <1>2, <1>3, <3>1, ReconcileIs
    <3> QED
      BY <1>2, <3>3, <3>4 DEF Reconciled
  <2> QED
    BY <2>1, <2>2
<1> QED
  BY <1>1, <1>2, <1>4, <1>5 DEF Tracked

(* While the server moves on, the drawer is told of it.                     *)
LEMMA TrackedCommit ==
  ASSUME ServerOK, NEW copy \in Copy, CommitChange(copy), NEW t \in TaskId, view.task = t
  PROVE  /\ server'[t] = server[t] \/ server'[t] \in events'
         /\ events \subseteq events'
BY CommitOutcome

(* So what was tracked still is, and an answer is still as good.            *)
LEMMA StillTracked ==
  ASSUME NEW t, server'[t] = server[t] \/ server'[t] \in events', events \subseteq events'
  PROVE  /\ \A st : Tracked(t, st, events) => Tracked(t, st, events)'
         /\ \A call : OpenTaskCall(call, t) => OpenTaskCall(call, t)'
<1>1. ASSUME NEW st, Tracked(t, st, events) PROVE Tracked(t, st, events)'
  <2>1. st.current.stamp >= server'[t].stamp \/ server'[t] \in events'
    BY <1>1 DEF Tracked
  <2> QED
    BY <1>1, <2>1 DEF Tracked, NoCopy, NoTask
<1>2. ASSUME NEW call, OpenTaskCall(call, t) PROVE OpenTaskCall(call, t)'
  <2>1. call.outcome = "ok" => call.answer = server'[t] \/ server'[t] \in events'
    BY <1>2 DEF OpenTaskCall
  <2> QED
    BY <1>2, <2>1 DEF OpenTaskCall
<1> QED
  BY <1>1, <1>2

(* The flag is none of the drawer's.                                        *)
LEMMA TrackedFlag ==
  ASSUME NEW st, StoreOK(st), NEW loading, NEW t, NEW told, Tracked(t, st, told)
  PROVE  Tracked(t, [st EXCEPT !.isLoading = loading], told)
<1>1. PICK new : new = [st EXCEPT !.isLoading = loading]
  OBVIOUS
<1>2. new.items = st.items /\ new.current = st.current
  BY <1>1, FlagOnly
<1> QED
  BY <1>1, <1>2 DEF Tracked

(* A task that is open or that a call is about exists.                      *)
LEMMA OpenTaskExists ==
  ASSUME StoreIInv, view.task # NoTask
  PROVE  /\ view.task \in TaskId /\ setting \in Settings
         /\ server[view.task] # NoCopy => server[view.task].id = view.task
BY Parts DEF ViewOK, ServerOK

(* A call is made.                                                          *)
LEMMA DrawerCallStep ==
  ASSUME StoreIInv, Calm, DrawerIInv, setting' = setting, NEW kind, NEW call, call # Idle,
         Call(kind, call),
         \/ view'.task = NoTask
         \/ OpenTaskCall(call, view'.task) /\ call.kind = "task"
         \/ OpenTaskCall(call, view'.task) /\ view' = view
  PROVE  DrawerIInv'
<1>1. /\ Busy = {} /\ UNCHANGED <<server, commits, events>>
      /\ \E s \in Slot : Busy' = {s} /\ calls'[s] = call
      /\ store' = [store EXCEPT !.isLoading = TRUE]
  BY LoneCall DEF Calm
<1>2. PICK s \in Slot : Busy' = {s} /\ calls'[s] = call
  BY <1>1
<1>3. PICK t : t = view'.task
  OBVIOUS
<1>4. CASE t = NoTask
  BY <1>2, <1>3, <1>4 DEF DrawerIInv, NoTask
<1>5. CASE t # NoTask
  <2>1. OpenTaskCall(call, t)'
    BY <1>1, <1>3, <1>5, StillTracked
  <2>2. call.kind = "task" \/ Tracked(t, store, events)'
    <3>1. CASE view' = view
      <4>1. Tracked(t, store, events)
        BY <1>1, <1>3, <1>5, <3>1 DEF DrawerIInv
      <4>2. PICK st : st = store'
        OBVIOUS
      <4>3. Tracked(t, st, events)
        BY <1>1, <4>1, <4>2, TrackedFlag, Parts
      <4>4. Tracked(t, st, events)'
        BY <1>1, <4>3, StillTracked
      <4> QED
        BY <4>2, <4>4
    <3> QED
      BY <1>3, <1>5, <3>1
  <2>3. OpenTaskCall(calls[s], view.task)'
    <3>1. OpenTaskCall(calls[s], view.task)' <=> OpenTaskCall(call, t)'
      BY <1>2, <1>3 DEF OpenTaskCall
    <3> QED
      BY <2>1, <3>1
  <2>4. Tracked(t, store, events)' => Tracked(view.task, store, events)'
    BY <1>3
  <2> QED
    BY <1>2, <2>2, <2>3, <2>4 DEF DrawerIInv
<1> QED
  BY <1>4, <1>5

(* What the views do.                                                       *)
LEMMA DrawerViewStep ==
  ASSUME StoreIInv, Calm, DrawerIInv, setting' = setting, ViewStep
  PROVE  DrawerIInv'
<1>1. view \in [user : User, filter : setting.filters, task : TaskId \cup {NoTask}]
  BY Parts DEF ViewOK
<1>2. ASSUME NEW u \in User, ShowUser(u)
      PROVE  DrawerIInv'
  <2>1. PICK call : call = ListCall(u, view.filter, NoTask)
    OBVIOUS
  <2>2. call # Idle /\ view'.task = NoTask
    BY <1>1, <1>2, <2>1 DEF ListCall, Idle, ShowUser
  <2> QED
    BY <1>2, <2>1, <2>2, DrawerCallStep DEF ShowUser
<1>3. ASSUME NEW f \in setting.filters, ShowFilter(f)
      PROVE  DrawerIInv'
  <2>1. PICK call : call = ListCall(view.user, f, NoTask)
    OBVIOUS
  <2>2. call # Idle /\ view'.task = NoTask
    BY <1>1, <1>3, <2>1 DEF ListCall, Idle, ShowFilter
  <2> QED
    BY <1>3, <2>1, <2>2, DrawerCallStep DEF ShowFilter
<1>4. ASSUME LoadMore
      PROVE  DrawerIInv'
  <2>1. PICK call : call = ListCall(view.user, view.filter, store.nextCursor)
    OBVIOUS
  <2>2. call # Idle /\ view'.task = NoTask
    BY <1>4, <2>1 DEF ListCall, Idle, LoadMore
  <2> QED
    BY <1>4, <2>1, <2>2, DrawerCallStep DEF LoadMore
<1>5. ASSUME NEW t \in TaskId, OpenDrawer(t)
      PROVE  DrawerIInv'
  <2>1. PICK call : call = TaskCall(t)
    OBVIOUS
  <2>2. call # Idle /\ call.kind = "task" /\ OpenTaskCall(call, t)
    BY <2>1 DEF TaskCall, Idle, OpenTaskCall
  <2>3. view'.task = t
    BY <1>1, <1>5 DEF OpenDrawer
  <2> QED
    BY <1>5, <2>1, <2>2, <2>3, DrawerCallStep DEF OpenDrawer
<1>6. ASSUME CloseDrawer
      PROVE  DrawerIInv'
  <2>1. view'.task = NoTask /\ Busy' = Busy
    BY <1>1, <1>6 DEF CloseDrawer, Busy, Slot, Idle
  <2> QED
    BY <2>1 DEF DrawerIInv, NoTask
<1>7. view.task # NoTask /\ Busy = {} => store.current.id = view.task
  BY DEF DrawerIInv, Tracked
<1>8. ASSUME NEW dir \in {"forward", "backward"}, NEW u \in User, SubmitChange(dir, u)
      PROVE  DrawerIInv'
  <2>1. PICK call : call = ChangeCall(store.current, dir, u)
    OBVIOUS
  <2>2. Busy = {} /\ view.task # NoTask /\ view' = view /\ Call("change", call)
    BY <1>8, <2>1 DEF SubmitChange, Call, Calm
  <2>3. call # Idle /\ OpenTaskCall(call, view.task)
    BY <1>7, <2>1, <2>2 DEF ChangeCall, Idle, OpenTaskCall
  <2> QED
    BY <2>2, <2>3, DrawerCallStep
<1>9. ASSUME SubmitClose
      PROVE  DrawerIInv'
  <2>1. PICK call : call = CloseCall(store.current.id)
    OBVIOUS
  <2>2. Busy = {} /\ view.task # NoTask /\ view' = view /\ Call("close", call)
    BY <1>9, <2>1 DEF SubmitClose, Call, Calm
  <2>3. call # Idle /\ OpenTaskCall(call, view.task)
    BY <1>7, <2>1, <2>2 DEF CloseCall, Idle, OpenTaskCall
  <2> QED
    BY <2>2, <2>3, DrawerCallStep
<1>10. ASSUME NEW u \in User, SubmitCreate(u)
       PROVE  DrawerIInv'
  <2>1. PICK call : call = CreateCall(u)
    OBVIOUS
  <2>2. call # Idle /\ view'.task = NoTask
    BY <1>10, <2>1 DEF CreateCall, Idle, SubmitCreate
  <2> QED
    BY <1>10, <2>1, <2>2, DrawerCallStep DEF SubmitCreate
<1>11. ~Reconnected /\ \A u \in User, t \in TaskId : ~FollowLink(u, t)
  BY DEF Reconnected, FollowLink, CallBoth, Calm
<1> QED
  BY <1>2, <1>3, <1>4, <1>5, <1>6, <1>8, <1>9, <1>10, <1>11 DEF ViewStep

(* Other clients commit.                                                    *)
LEMMA DrawerOthers ==
  ASSUME StoreIInv, DrawerIInv, setting' = setting, OtherClient
  PROVE  DrawerIInv'
<1>1. UNCHANGED <<calls, store, view>>
  BY OtherClientCommits
<1>2. Busy' = Busy
  BY <1>1 DEF Busy, Slot, Idle
<1>3. CASE view.task = NoTask
  BY <1>1, <1>2, <1>3 DEF DrawerIInv, NoTask
<1>4. CASE view.task # NoTask
  <2>1. PICK t : t = view.task
    OBVIOUS
  <2>2. PICK copy : copy \in Copy /\ Dated(copy) /\ CommitChange(copy)
    BY OtherClientCommits
  <2>3. (server'[t] = server[t] \/ server'[t] \in events') /\ events \subseteq events'
    BY <1>4, <2>1, <2>2, TrackedCommit, OpenTaskExists, Parts
  <2>4. /\ \A st : Tracked(t, st, events) => Tracked(t, st, events)'
        /\ \A call : OpenTaskCall(call, t) => OpenTaskCall(call, t)'
    BY <2>3, StillTracked
  <2>5. Tracked(t, store, events) => Tracked(view.task, store, events)'
    <3>1. PICK st : st = store
      OBVIOUS
    <3>2. Tracked(t, st, events)' <=> Tracked(view.task, store, events)'
      BY <1>1, <2>1, <3>1 DEF Tracked
    <3> QED
      BY <2>4, <3>1, <3>2
  <2>6. \A s \in Busy : OpenTaskCall(calls[s], t) => OpenTaskCall(calls[s], view.task)'
    <3> SUFFICES ASSUME NEW s \in Busy, OpenTaskCall(calls[s], t)
                 PROVE  OpenTaskCall(calls[s], view.task)'
      OBVIOUS
    <3>1. PICK call : call = calls[s]
      OBVIOUS
    <3>2. OpenTaskCall(call, t)' <=> OpenTaskCall(calls[s], view.task)'
      BY <1>1, <2>1, <3>1 DEF OpenTaskCall
    <3> QED
      BY <2>4, <3>1, <3>2
  <2> QED
    BY <1>1, <1>2, <1>4, <2>1, <2>5, <2>6 DEF DrawerIInv
<1> QED
  BY <1>3, <1>4

(* A call that is answered stays the call it is.                            *)
LEMMA AnsweredCall ==
  ASSUME StoreIInv, setting' = setting, NEW s \in Slot, calls[s] # Idle,
         NEW outcome, NEW answer, Answered(s, outcome, answer)
  PROVE  /\ Busy' = Busy /\ CallOK(calls[s])
         /\ \A r \in Slot : r # s => calls'[r] = calls[r]
         /\ calls'[s].kind = calls[s].kind
         /\ calls'[s].outcome = outcome /\ calls'[s].answer = answer
         /\ calls[s].kind \in {"task", "change", "close"} => calls'[s].task = calls[s].task
         /\ calls[s].kind = "list" => /\ calls'[s].user = calls[s].user
                                      /\ calls'[s].filter = calls[s].filter
                                      /\ calls'[s].cursor = calls[s].cursor
<1>1. /\ CallOK(calls[s])
      /\ \A r \in Slot : r # s => calls'[r] = calls[r]
      /\ calls'[s] = With(calls[s], outcome, answer)
  BY AnsweredCalls, Parts
<1>2. PICK call, new : call = calls[s] /\ new = With(call, outcome, answer)
  OBVIOUS
<1>3. /\ new # Idle /\ new.outcome = outcome /\ new.answer = answer
      /\ \A x \in DOMAIN call \ {"outcome", "answer"} : new[x] = call[x]
  BY <1>1, <1>2, WithFields
<1>4. DOMAIN call = Fields(call.kind)
  BY <1>1, <1>2 DEF CallOK
<1>5. "kind" \in DOMAIN call \ {"outcome", "answer"}
  BY <1>4 DEF Fields
<1>6. call.kind \in {"task", "change", "close"} => "task" \in DOMAIN call \ {"outcome", "answer"}
  BY <1>4 DEF Fields
<1>7. call.kind = "list" => {"user", "filter", "cursor"} \subseteq DOMAIN call \ {"outcome", "answer"}
  BY <1>4 DEF Fields
<1>8. Busy' = Busy
  <2>1. Slot' = Slot /\ Idle' = Idle
    BY DEF Slot, Idle
  <2>2. \A r \in Slot : calls'[r] # Idle <=> calls[r] # Idle
    BY <1>1, <1>2, <1>3
  <2> QED
    BY <2>1, <2>2 DEF Busy
<1> QED
  BY <1>1, <1>2, <1>3, <1>5, <1>6, <1>7, <1>8

(* The server deals with a call.                                            *)
LEMMA DrawerServe ==
  ASSUME StoreIInv, Calm, DrawerIInv, setting' = setting, NEW s \in Slot, Serve(s)
  PROVE  DrawerIInv'
<1>1. /\ calls[s] # Idle /\ calls[s].outcome = "pending" /\ UNCHANGED <<store, view>>
      /\ \/ \E answer : ReadServed(s, answer)
         \/ \E copy : CommitServed(s, copy)
         \/ \E outcome : Refused(s, outcome)
  BY ServeOutcomes DEF Calm
<1>2. Busy = {s}
  BY <1>1 DEF DrawerIInv, Busy
<1>3. \E outcome, answer : Answered(s, outcome, answer)
  BY <1>1 DEF ReadServed, CommitServed, Refused
<1>4. Busy' = {s} /\ CallOK(calls[s])
  BY <1>1, <1>2, <1>3, AnsweredCall
<1>5. CASE view.task = NoTask
  BY <1>1, <1>4, <1>5 DEF DrawerIInv, NoTask
<1>6. CASE view.task # NoTask
  <2>1. PICK t : t = view.task
    OBVIOUS
  <2>2. /\ OpenTaskCall(calls[s], t)
        /\ calls[s].kind = "task" \/ Tracked(t, store, events)
    BY <1>2, <1>6, <2>1 DEF DrawerIInv
  <2>3. t \in TaskId /\ server[t] # NoCopy /\ server[t].id = t
    BY <1>4, <1>6, <2>1, <2>2, OpenTaskExists DEF OpenTaskCall, CallOK
  <2>4. /\ server'[t] = server[t] \/ server'[t] \in events'
        /\ events \subseteq events'
        /\ calls'[s].kind = calls[s].kind /\ calls'[s].task = t
        /\ calls[s].kind = "task" => calls'[s].outcome \in {"pending", "ok"}
        /\ calls'[s].outcome = "ok" =>
              /\ calls'[s].answer.id = t
              /\ calls'[s].answer = server'[t] \/ server'[t] \in events'
    <3>1. CASE \E answer : ReadServed(s, answer)
      <4>1. PICK answer : ReadServed(s, answer)
        BY <3>1
      <4>2. answer = server[t] /\ UNCHANGED <<server, events>> /\ Answered(s, "ok", answer)
        BY <2>2, <4>1 DEF ReadServed, OpenTaskCall
      <4> QED
        BY <1>1, <2>2, <2>3, <4>2, AnsweredCall DEF OpenTaskCall
    <3>2. CASE \E copy : CommitServed(s, copy)
      <4>1. PICK copy : CommitServed(s, copy)
        BY <3>2
      <4>2. /\ copy \in Copy /\ CommitChange(copy) /\ Answered(s, "ok", copy)
            /\ copy.id = t /\ calls[s].kind # "task"
        BY <2>2, <4>1 DEF CommitServed, OpenTaskCall
      <4>3. server'[t] = copy /\ copy \in events' /\ events \subseteq events'
        BY <2>1, <4>2, CommitOutcome, Parts
      <4> QED
        BY <1>1, <2>2, <4>2, <4>3, AnsweredCall DEF OpenTaskCall
    <3>3. CASE \E outcome : Refused(s, outcome)
      <4>1. PICK outcome : Refused(s, outcome)
        BY <3>3
      <4>2. /\ Answered(s, outcome, NoCopy) /\ UNCHANGED <<server, events>>
            /\ outcome # "ok" /\ calls[s].kind # "task"
        BY <4>1 DEF Refused
      <4> QED
        BY <1>1, <2>2, <4>2, AnsweredCall DEF OpenTaskCall
    <3> QED
      BY <1>1, <3>1, <3>2, <3>3
  <2>5. OpenTaskCall(calls[s], view.task)'
    BY <1>1, <2>1, <2>2, <2>4 DEF OpenTaskCall
  <2>6. Tracked(t, store, events) => Tracked(view.task, store, events)'
    <3>1. PICK st : st = store
      OBVIOUS
    <3>2. Tracked(t, st, events) => Tracked(t, st, events)'
      BY <2>4, StillTracked
    <3>3. Tracked(t, st, events)' <=> Tracked(view.task, store, events)'
      BY <1>1, <2>1, <3>1 DEF Tracked
    <3> QED
      BY <3>1, <3>2, <3>3
  <2> QED
    BY <1>4, <2>2, <2>4, <2>5, <2>6 DEF DrawerIInv
<1> QED
  BY <1>5, <1>6

(* The call is over, answered or refused.                                   *)
LEMMA DrawerAnswer ==
  ASSUME StoreIInv, DrawerIInv, setting' = setting, NEW s \in Slot, TakeAnswer(s)
  PROVE  DrawerIInv'
<1>1. /\ calls[s] # Idle /\ calls[s].outcome = "ok" /\ UNCHANGED <<server, events, view>>
      /\ store' = [Taken(store, calls[s]) EXCEPT !.isLoading = FALSE]
      /\ calls' = [calls EXCEPT ![s] = Idle]
  BY DEF TakeAnswer, Busy
<1>2. Busy = {s} /\ CallOK(calls[s]) /\ StoreOK(store)
  BY <1>1, Parts DEF DrawerIInv, Busy
<1>3. Busy' = {}
  <2>1. Slot' = Slot /\ Idle' = Idle
    BY DEF Slot, Idle
  <2>2. \A r \in Slot : calls'[r] = Idle
    BY <1>1, <1>2, Parts DEF Busy
  <2> QED
    BY <2>1, <2>2 DEF Busy
<1>4. CASE view.task = NoTask
  BY <1>1, <1>3, <1>4 DEF DrawerIInv, NoTask
<1>5. CASE view.task # NoTask
  <2>1. PICK t, call, st, new : /\ t = view.task /\ call = calls[s] /\ st = store
                                /\ new = Taken(st, call)
    OBVIOUS
  <2>2. OpenTaskCall(call, t)
    BY <1>2, <1>5, <2>1 DEF DrawerIInv
  <2>3. Tracked(t, new, events)
    BY <1>1, <1>2, <2>1, <2>2, TrackedAnswer, Parts DEF OpenTaskCall
  <2>4. StoreOK(new)
    BY <1>1, <1>2, <2>1, TakenOK
  <2>5. Tracked(t, [new EXCEPT !.isLoading = FALSE], events)
    BY <2>3, <2>4, TrackedFlag
  <2>6. Tracked(view.task, store, events)'
    BY <1>1, <2>1, <2>5 DEF Tracked, NoCopy, NoTask
  <2> QED
    BY <1>3, <2>6 DEF DrawerIInv
<1> QED
  BY <1>4, <1>5

(* A refusal ends the call, or begins a read of the task.                   *)
LEMMA DrawerError ==
  ASSUME StoreIInv, DrawerIInv, setting' = setting, NEW s \in Slot, TakeError(s)
  PROVE  DrawerIInv'
<1>1. /\ calls[s] # Idle /\ calls[s].outcome \notin {"pending", "ok"}
      /\ UNCHANGED <<server, events, view>>
      /\ store' = [store EXCEPT !.isLoading = FALSE]
  BY DEF TakeError, Busy
<1>2. PICK next : next = IF calls[s].outcome = "TASK_STATE_CONFLICT"
                         THEN TaskCall(calls[s].task) ELSE Idle
  OBVIOUS
<1>3. Busy = {s} /\ StoreOK(store)
  BY <1>1, Parts DEF DrawerIInv, Busy
<1>4. calls'[s] = next /\ Busy' \subseteq {s} /\ (next # Idle => Busy' = {s})
  <2>1. Slot' = Slot /\ Idle' = Idle
    BY DEF Slot, Idle
  <2>2. calls' = [calls EXCEPT ![s] = next]
    BY <1>2 DEF TakeError
  <2>3. calls'[s] = next /\ \A r \in Slot : r # s => calls'[r] = Idle
    BY <1>3, <2>2, Parts DEF Busy
  <2> QED
    BY <2>1, <2>3 DEF Busy
<1>5. CASE view.task = NoTask
  BY <1>1, <1>4, <1>5 DEF DrawerIInv, NoTask
<1>6. CASE view.task # NoTask
  <2>1. PICK t, st, new : t = view.task /\ st = store /\ new = [st EXCEPT !.isLoading = FALSE]
    OBVIOUS
  <2>2. OpenTaskCall(calls[s], t) /\ calls[s].kind # "task" /\ Tracked(t, st, events)
    BY <1>1, <1>3, <1>6, <2>1 DEF DrawerIInv, OpenTaskCall
  <2>3. Tracked(t, new, events)
    BY <1>3, <2>1, <2>2, TrackedFlag
  <2>4. Tracked(view.task, store, events)'
    BY <1>1, <2>1, <2>3 DEF Tracked, NoCopy, NoTask
  <2>5. next # Idle => OpenTaskCall(calls[s], view.task)'
    BY <1>1, <1>2, <1>4, <2>1, <2>2 DEF OpenTaskCall, TaskCall
  <2>6. \A r \in Busy' : r = s /\ next # Idle
    <3>1. \A r \in Busy' : calls'[r] # Idle
      BY DEF Busy, Idle
    <3> QED
      BY <1>4, <3>1
  <2> QED
    BY <1>4, <2>4, <2>5, <2>6 DEF DrawerIInv
<1> QED
  BY <1>5, <1>6

(* The list's hook applies an event, and the drawer's once more.            *)
LEMMA DrawerEvent ==
  ASSUME StoreIInv, Calm, DrawerIInv, setting' = setting, NEW e \in events, TakeEvent(e)
  PROVE  DrawerIInv'
<1>1. Busy = {} /\ UNCHANGED <<server, calls, view>> /\ events' = events \ {e}
  BY DEF TakeEvent, Calm
<1>2. Busy' = {}
  BY <1>1 DEF Busy, Slot, Idle
<1>3. CASE view.task = NoTask
  BY <1>1, <1>2, <1>3 DEF DrawerIInv, NoTask
<1>4. CASE view.task # NoTask
  <2>1. PICK t, st, once, told : /\ t = view.task /\ st = store /\ once = ApplyEvent(st, e)
                                 /\ told = events \ {e}
    OBVIOUS
  <2>2. StoreOK(st) /\ Held(e) /\ ServerOK /\ setting \in Settings /\ t \in TaskId
    BY <1>4, <2>1, OpenTaskExists, Parts
  <2>3. Tracked(t, st, events)
    BY <1>1, <1>4, <2>1 DEF DrawerIInv
  <2>4. Tracked(t, once, told) /\ StoreOK(once)
    BY <2>1, <2>2, <2>3, TrackedEvent, ApplyEventOK
  <2>5. Tracked(t, ApplyEvent(once, e), told \ {e})
    BY <2>2, <2>4, TrackedEvent
  <2>6. told \ {e} = told /\ store' = ApplyEvent(once, e)
    BY <1>4, <2>1 DEF TakeEvent
  <2>7. Tracked(view.task, store, events)'
    BY <1>1, <2>1, <2>5, <2>6 DEF Tracked, NoCopy, NoTask
  <2> QED
    BY <1>2, <2>7 DEF DrawerIInv
<1> QED
  BY <1>3, <1>4

(* At first the drawer is closed, and the first page on its way.            *)
LEMMA CalmStart ==
  ASSUME Init, Calm
  PROVE  \E u \in User :
            /\ view = [user |-> u, filter |-> "all", task |-> NoTask]
            /\ calls = [s \in Slot |-> IF s = 1 THEN ListCall(u, "all", NoTask) ELSE Idle]
<1>1. ~MayDeepLink
  BY DEF Calm, MayDeepLink
<1>2. PICK u \in User, link \in {NoTask} :
         /\ view = [user |-> u, filter |-> "all", task |-> link]
         /\ calls = [s \in Slot |-> IF s = 1 THEN ListCall(u, "all", NoTask)
                                    ELSE IF s = 2 /\ link # NoTask THEN TaskCall(link)
                                    ELSE Idle]
  BY <1>1 DEF Init
<1> QED
  BY <1>2

LEMMA DrawerInit == Init => (Calm => DrawerIInv)
<1> SUFFICES ASSUME Init, Calm PROVE DrawerIInv
  OBVIOUS
<1>1. /\ view.task = NoTask
      /\ \E u \in User : calls = [s \in Slot |-> IF s = 1 THEN ListCall(u, "all", NoTask) ELSE Idle]
  BY CalmStart
<1>2. Busy \subseteq {1}
  BY <1>1 DEF Busy
<1> QED
  BY <1>1, <1>2 DEF DrawerIInv

(* Every step keeps the drawer tracked.                                     *)
LEMMA DrawerNext ==
  ASSUME StoreIInv, Calm => DrawerIInv, [Next]_vars
  PROVE  (Calm => DrawerIInv)'
<1> SUFFICES ASSUME Calm' PROVE DrawerIInv'
  OBVIOUS
<1>1. setting' = setting
  BY DEF Next, vars
<1>2. Calm /\ DrawerIInv
  BY <1>1 DEF Calm
<1>3. CASE UNCHANGED vars
  BY <1>2, <1>3 DEF vars, DrawerIInv, Busy, Slot, Idle, NoTask, NoCopy, OpenTaskCall, Tracked
<1>4. CASE ViewStep
  BY <1>1, <1>2, <1>4, DrawerViewStep
<1>5. CASE OtherClient
  BY <1>1, <1>2, <1>5, DrawerOthers
<1>6. ASSUME NEW s \in Slot, Serve(s) \/ TakeAnswer(s) \/ TakeError(s)
      PROVE  DrawerIInv'
  BY <1>1, <1>2, <1>6, DrawerServe, DrawerAnswer, DrawerError
<1>7. ASSUME NEW e \in events, TakeEvent(e) \/ LoseEvent(e)
      PROVE  DrawerIInv'
  <2>1. ~LoseEvent(e)
    BY <1>2 DEF LoseEvent, Calm
  <2> QED
    BY <1>1, <1>2, <1>7, <2>1, DrawerEvent
<1> QED
  BY <1>3, <1>4, <1>5, <1>6, <1>7 DEF Next

(* Once every event has arrived and no call is in flight, the open drawer   *)
(* shows an up-to-date copy of its task: whatever was changed, refused and  *)
(* read again meanwhile, and though two hooks apply each event.             *)
THEOREM StoreDrawerCurrent == Spec => []CalmDrawerCurrent
<1>1. ASSUME StoreIInv, DrawerIInv, Settled, view.task # NoTask
      PROVE  /\ store.current # NoCopy /\ store.current.id = view.task
             /\ UpToDate(store.current)
  <2>1. /\ store.current # NoCopy /\ store.current.id = view.task
        /\ store.current.stamp >= server[view.task].stamp
    BY <1>1 DEF DrawerIInv, Settled, Tracked
  <2>2. PICK copy : copy = store.current
    OBVIOUS
  <2>3. Held(copy) /\ ServerOK
    BY <1>1, <2>1, <2>2, Parts, OpenTaskFacts
  <2> QED
    BY <2>1, <2>2, <2>3, FreshByStamp
<1>2. StoreIInv /\ (Calm => DrawerIInv) => CalmDrawerCurrent
  BY <1>1 DEF CalmDrawerCurrent, SettledDrawerCurrent
<1> QED
  BY <1>2, StoreInitInv, StoreNextKeeps, DrawerInit, DrawerNext, PTL DEF Spec

----------------------------------------------------------------------------
(* The loaded list.  A row that is due on it is there, or its event is on   *)
(* its way and will not be dropped: the open task is not as new by stamp.   *)
Due(t) == server[t] # NoCopy /\ Belongs(server[t], view.user, view.filter)

Covered(t, rows, current, told) ==
    \/ \E i \in DOMAIN rows : rows[i].id = t /\ rows[i].stamp >= server[t].stamp
    \/ /\ server[t] \in told
       /\ current # NoCopy /\ current.id = t => ~(current.stamp >= server[t].stamp)

(* Nothing due is missing from the rows of the list after one cursor up to  *)
(* another; a first page has none before it, a last page none after it.     *)
Exact(rows, from, to, current, told) ==
    \A t \in TaskId :
        ((from = NoTask \/ t < from) /\ t >= to /\ Due(t)) => Covered(t, rows, current, told)

(* The browser hears of a task's latest copy, if it is its user's.          *)
Announced(t, told) == server[t] \in told \/ server[t].assignee # view.user

RowsOfPair(rows, user, filter) == \A i \in DOMAIN rows : Belongs(rows[i], user, filter)

(* A call of the list's view, and what its answer is good for.              *)
ListedCall(call) ==
    /\ call.kind \in {"list", "create"} /\ call.outcome \in {"pending", "ok"}
    /\ call.kind = "list" => call.user = view.user /\ call.filter = view.filter
    /\ call.kind = "create" => ~setting.overlaps
    /\ call.outcome = "ok" =>
          IF call.kind = "create"
          THEN call.answer = server[call.answer.id] \/ Announced(call.answer.id, events)
          ELSE /\ RowsOfPair(call.answer.rows, call.user, call.filter)
               /\ Exact(call.answer.rows, call.cursor, call.answer.next, store.current, events)

(* The first page of what the view shows is on its way, or was loaded; then *)
(* a page under way is the next one.                                        *)
FirstPage(call) == call.kind = "list" /\ call.cursor = NoTask

Loaded ==
    /\ store.listUserId = view.user /\ store.listFilter = view.filter
    /\ Exact(store.items, NoTask, store.nextCursor, store.current, events)
    /\ \A s \in Busy : calls[s].kind = "list" => calls[s].cursor = store.nextCursor

ListIInv ==
    /\ \A r, s \in Busy : r = s
    /\ view.task = NoTask
    /\ \A s \in Busy : ListedCall(calls[s])
    /\ \A e \in events : Announced(e.id, events)
    /\ RowsBelong
    /\ setting.overlaps => store.current = NoCopy
    /\ (\E s \in Busy : FirstPage(calls[s])) \/ Loaded

CalmListOnly == Calm /\ ListAlone

(* A row as the server has it is as new as can be.                          *)
LEMMA LatestCovers ==
  ASSUME ServerOK, NEW t \in TaskId, server[t] # NoCopy, NEW rows, NEW current, NEW told,
         \E i \in DOMAIN rows : rows[i] = server[t]
  PROVE  Covered(t, rows, current, told)
<1>1. server[t].id = t /\ server[t] \in Copy /\ setting \in Settings
  BY DEF ServerOK
<1>2. server[t].stamp \in Nat
  BY <1>1, CopyFacts
<1> QED
  BY <1>1, <1>2 DEF Covered

(* In the order of the commits, a copy that is not the latest has an        *)
(* earlier stamp.                                                           *)
LEMMA OldByStamp ==
  ASSUME ServerOK, ~setting.overlaps, NEW copy, Held(copy), copy # server[copy.id]
  PROVE  ~(copy.stamp >= server[copy.id].stamp)
BY FreshByStamp DEF UpToDate

(* A page has what is due between its cursors, and nothing else.            *)
LEMMA PageCovers ==
  ASSUME ServerOK, NEW user, NEW filter, NEW mark
  PROVE  /\ RowsOfPair(PageAfter(user, filter, mark).rows, user, filter)
         /\ \A t \in TaskId :
               (/\ server[t] # NoCopy /\ Belongs(server[t], user, filter)
                /\ mark = NoTask \/ t < mark
                /\ t >= PageAfter(user, filter, mark).next) =>
                  \E i \in DOMAIN PageAfter(user, filter, mark).rows :
                      PageAfter(user, filter, mark).rows[i] = server[t]
<1> DEFINE found == {t \in TaskId : /\ server[t] # NoCopy
                                    /\ Belongs(server[t], user, filter)
                                    /\ mark = NoTask \/ t < mark}
           ids == Reverse(Ascending(found))
           m == IF Len(ids) < setting.pageSize THEN Len(ids) ELSE setting.pageSize
           shown == SubSeq(ids, 1, m)
           rows == [i \in DOMAIN shown |-> server[shown[i]]]
           n == Cardinality(found)
<1>1. \A t \in found : t \in TaskId /\ t \in Nat /\ Belongs(server[t], user, filter)
  BY SettingFacts DEF ServerOK
<1>2. IsFiniteSet(found)
  <2>1. setting.maxTask \in Nat
    BY SettingFacts DEF ServerOK
  <2>2. IsFiniteSet(TaskId)
    BY <2>1, FS_Interval DEF TaskId
  <2> QED
    BY <2>2, FS_Subset
<1>3. PageAfter(user, filter, mark) = [rows |-> rows, next |-> NextCursor(ids)]
  BY DEF PageAfter
<1>4. \A t \in TaskId : (/\ server[t] # NoCopy /\ Belongs(server[t], user, filter)
                         /\ mark = NoTask \/ t < mark) => t \in found
  OBVIOUS
<1> HIDE DEF found
<1>5. /\ n \in Nat /\ Rises(Ascending(found), found)
      /\ \A t \in found : \E i \in 1..n : Ascending(found)[i] = t
  BY <1>1, <1>2, AscendingLists
<1>6. Ascending(found) \in Seq(found) /\ Len(Ascending(found)) = n
  BY <1>5 DEF Rises
<1>7. /\ ids \in Seq(found) /\ Len(ids) = n
      /\ \A i \in 1..n : ids[i] = Ascending(found)[(n - i) + 1] /\ (n - i) + 1 \in 1..n
  <2>1. ids = [i \in 1..n |-> Ascending(found)[(n - i) + 1]]
    BY <1>6 DEF Reverse
  <2>2. \A i \in 1..n : (n - i) + 1 \in 1..n
    BY <1>5
  <2>3. \A i \in 1..n : Ascending(found)[(n - i) + 1] \in found
    BY <1>6, <2>2
  <2> QED
    BY <1>5, <2>1, <2>2, <2>3
<1>8. \A i, j \in 1..n : i < j => ids[j] < ids[i]
  <2> SUFFICES ASSUME NEW i \in 1..n, NEW j \in 1..n, i < j PROVE ids[j] < ids[i]
    OBVIOUS
  <2> DEFINE k == (n - i) + 1
             l == (n - j) + 1
  <2>1. k \in 1..n /\ l \in 1..n /\ ids[i] = Ascending(found)[k] /\ ids[j] = Ascending(found)[l]
    BY <1>7
  <2>2. l < k
    BY <1>5
  <2> HIDE DEF k, l
  <2> QED
    BY <1>5, <2>1, <2>2 DEF Rises
<1>9. \A t \in found : \E i \in 1..n : ids[i] = t
  <2> SUFFICES ASSUME NEW t \in found PROVE \E i \in 1..n : ids[i] = t
    OBVIOUS
  <2>1. PICK k \in 1..n : Ascending(found)[k] = t
    BY <1>5
  <2>2. (n - k) + 1 \in 1..n /\ (n - ((n - k) + 1)) + 1 = k
    BY <1>5
  <2> QED
    BY <1>7, <2>1, <2>2
<1> HIDE DEF ids
<1>10. PICK size \in Nat \ {0} : size = setting.pageSize
  BY SettingFacts DEF ServerOK
<1>11. m = IF n < size THEN n ELSE size
  BY <1>7, <1>10
<1>12. /\ m \in 0..n
       /\ n <= size => m = n
       /\ ~(n <= size) => m = size /\ m \in 1..n
  <2>1. n \in Nat /\ size \in Nat /\ size >= 1
    BY <1>5
  <2> HIDE DEF n, m
  <2> QED
    BY <1>11, <2>1
<1>13. NextCursor(ids) = IF n <= size THEN NoTask ELSE ids[m]
  <2>1. NextCursor(ids) = IF n > size THEN ids[size] ELSE NoTask
    BY <1>7, <1>10 DEF NextCursor
  <2>2. n \in Nat /\ size \in Nat
    BY <1>5
  <2> HIDE DEF n, m
  <2> QED
    BY <1>12, <2>1, <2>2
<1> HIDE DEF m
<1>14. DOMAIN shown = 1..m /\ \A i \in 1..m : shown[i] = ids[i] /\ i \in 1..n /\ ids[i] \in found
  <2>1. n \in Nat /\ m \in 0..n /\ ids \in Seq(found) /\ Len(ids) = n
    BY <1>5, <1>7, <1>12
  <2> HIDE DEF n
  <2> QED
    BY <2>1
<1> HIDE DEF shown
<1>15. DOMAIN rows = 1..m /\ \A i \in 1..m : rows[i] = server[ids[i]]
  BY <1>14
<1> HIDE DEF rows
<1>16. RowsOfPair(rows, user, filter)
  BY <1>1, <1>14, <1>15 DEF RowsOfPair
<1>17. ASSUME NEW t \in found, t >= NextCursor(ids)
       PROVE  \E i \in DOMAIN rows : rows[i] = server[t]
  <2>1. PICK k \in 1..n : ids[k] = t
    BY <1>9
  <2>2. k \in 1..m
    <3>1. CASE n <= size
      BY <1>12, <3>1
    <3>2. CASE ~(n <= size)
      <4>1. m \in 1..n /\ t >= ids[m]
        BY <1>12, <1>13, <1>17, <3>2
      <4>2. ids[m] \in Nat /\ t \in Nat
        BY <1>1, <1>7, <4>1
      <4>3. ~(m < k)
        BY <1>8, <2>1, <4>1, <4>2
      <4> QED
        BY <1>5, <4>1, <4>3
    <3> QED
      BY <3>1, <3>2
  <2> QED
    BY <1>15, <2>1, <2>2
<1>18. PageAfter(user, filter, mark).rows = rows /\ PageAfter(user, filter, mark).next = NextCursor(ids)
  BY <1>3
<1> QED
  BY <1>4, <1>16, <1>17, <1>18

(* A commit leaves the list as it was but for the task's, which is told of  *)
(* or not due; and no copy held is as new.                                  *)
LEMMA ListCommit ==
  ASSUME StoreIInv, setting' = setting, NEW copy \in Copy, Dated(copy),
         CommitChange(copy), UNCHANGED <<store, view>>,
         setting.overlaps => store.current = NoCopy
  PROVE  /\ \A rows, from, to : Exact(rows, from, to, store.current, events) =>
                                    Exact(rows, from, to, store.current, events)'
         /\ \A t \in TaskId : Announced(t, events) => Announced(t, events)'
         /\ Announced(copy.id, events)'
         /\ \A d : d.id \in TaskId /\ (d = server[d.id] \/ Announced(d.id, events)) =>
                       d = server'[d.id] \/ Announced(d.id, events)'
<1>1. ServerOK /\ setting \in Settings /\ TaskId' = TaskId
  BY Parts DEF TaskId
<1>2. /\ copy.id \in TaskId /\ server'[copy.id] = copy
      /\ \A t \in TaskId : t # copy.id => server'[t] = server[t]
      /\ events \subseteq events'
      /\ copy \in events' \/ copy.assignee # view.user
  BY <1>1, CommitOutcome
<1>3. Announced(copy.id, events)'
  BY <1>2 DEF Announced
<1>4. \A t \in TaskId : Announced(t, events) => Announced(t, events)'
  BY <1>2, <1>3 DEF Announced
<1>5. PICK current : current = store.current
  OBVIOUS
<1>6. current # NoCopy => ~(current.stamp >= copy.stamp)
  <2> SUFFICES ASSUME current # NoCopy PROVE ~(current.stamp >= copy.stamp)
    OBVIOUS
  <2>1. Held(current) /\ ~setting.overlaps
    BY <1>5, OpenTaskFacts
  <2>2. /\ current.id \in TaskId /\ current.version \in Nat
        /\ current.stamp = current.version
    BY <1>1, <2>1, CopyFacts DEF Held, Genuine
  <2>3. /\ server[current.id] # NoCopy /\ server[current.id] \in Copy
        /\ server[current.id].version <= commits
        /\ current.version <= server[current.id].version
    BY <1>1, <2>1, <2>2 DEF Held, Genuine, ServerOK
  <2>4. PICK row : row = server[current.id]
    OBVIOUS
  <2>5. row.version \in Nat /\ commits \in Nat
    BY <1>1, <2>3, <2>4, CopyFacts, SettingFacts DEF ServerOK
  <2>6. copy.stamp = commits + 1
    BY <2>1 DEF Dated
  <2> QED
    BY <2>2, <2>3, <2>4, <2>5, <2>6
<1>7. ASSUME NEW rows, NEW from, NEW to, Exact(rows, from, to, current, events)
      PROVE  Exact(rows, from, to, current, events)'
  <2> SUFFICES ASSUME NEW t \in TaskId, from = NoTask \/ t < from, t >= to, Due(t)'
               PROVE  Covered(t, rows, current, events)'
    BY <1>1 DEF Exact, NoTask
  <2>1. CASE t = copy.id
    <3>1. copy.assignee = view.user
      BY <1>2, <2>1 DEF Due, Belongs
    <3>2. server'[t] \in events' /\ server'[t] = copy
      BY <1>2, <2>1, <3>1
    <3> QED
      BY <1>6, <3>2 DEF Covered, NoCopy, NoTask
  <2>2. CASE t # copy.id
    <3>1. server'[t] = server[t]
      BY <1>2, <2>2
    <3>2. Due(t)
      BY <3>1 DEF Due, NoCopy, NoTask
    <3>3. Covered(t, rows, current, events)
      BY <1>7, <3>2 DEF Exact
    <3> QED
      BY <1>2, <3>1, <3>3 DEF Covered, NoCopy, NoTask
  <2> QED
    BY <2>1, <2>2
<1>8. ASSUME NEW rows, NEW from, NEW to, Exact(rows, from, to, store.current, events)
      PROVE  Exact(rows, from, to, store.current, events)'
  <2>1. Exact(rows, from, to, current, events)'
    BY <1>5, <1>7, <1>8
  <2>2. store'.current = current
    BY <1>5
  <2> QED
    BY <2>1, <2>2
<1>9. \A d : d.id \in TaskId /\ (d = server[d.id] \/ Announced(d.id, events)) =>
                 d = server'[d.id] \/ Announced(d.id, events)'
  BY <1>2, <1>3, <1>4
<1> QED
  BY <1>3, <1>4, <1>8, <1>9

(* What does not look at the server: the same rows, cursors and events.     *)
LEMMA ExactStays ==
  ASSUME UNCHANGED <<setting, server>>, view'.user = view.user, view'.filter = view.filter,
         NEW rows, NEW from, NEW to, NEW current, NEW told
  PROVE  Exact(rows, from, to, current, told)' <=> Exact(rows, from, to, current, told)
BY DEF Exact, Covered, Due, TaskId, NoTask, NoCopy

(* The event that is taken is the oldest: what is told of stays told.       *)
LEMMA StillAnnounced ==
  ASSUME StoreIInv, NEW e \in events, \A d \in events : e.version <= d.version,
         NEW d \in events \ {e}, Announced(d.id, events)
  PROVE  Announced(d.id, events \ {e})
<1>1. Held(e) /\ Held(d) /\ setting \in Settings /\ e.version <= d.version
  BY Parts
<1>2. e.version \in Nat /\ d.version \in Nat
  BY <1>1, CopyFacts DEF Held
<1>3. server[d.id] # e
  <2> SUFFICES ASSUME server[d.id] = e PROVE FALSE
    OBVIOUS
  <2>1. d.version = server[d.id].version
    BY <1>1, <1>2 DEF Held, Genuine
  <2>2. d = server[d.id]
    BY <1>1, <2>1 DEF Held, Genuine
  <2> QED
    BY <2>2
<1> QED
  BY <1>3 DEF Announced

(* What the list lacks is not lost with an event: a row that is due and not *)
(* shown has its event still to come, or this one brings it.                *)
LEMMA EventCovers ==
  ASSUME StoreIInv, NEW e \in events, Announced(e.id, events), NEW t \in TaskId, Due(t),
         store.listUserId = view.user, store.listFilter = view.filter,
         setting.overlaps => store.current = NoCopy,
         Covered(t, store.items, store.current, events)
  PROVE  Covered(t, ApplyEvent(store, e).items, ApplyEvent(store, e).current, events \ {e})
<1>1. PICK st, new : st = store /\ new = ApplyEvent(st, e)
  OBVIOUS
<1>2. /\ StoreOK(st) /\ setting \in Settings /\ Held(e) /\ ServerOK
      /\ server[t] # NoCopy /\ server[t].id = t /\ server[t] \in Copy
  BY <1>1, Parts DEF ServerOK, Due
<1>3. PICK row : row = server[t]
  OBVIOUS
<1>4. e.stamp \in Nat /\ row.stamp \in Nat /\ e # NoCopy
  BY <1>2, <1>3, CopyFacts DEF Held
<1>5. CASE new = st /\ Known(st, e.id) # NoCopy /\ e.stamp <= Known(st, e.id).stamp
  <2>1. CASE row = e
    <3>1. PICK known : known = Known(st, e.id)
      OBVIOUS
    <3>2. Held(known) /\ known.id = t /\ known # NoCopy /\ e.stamp <= known.stamp
      BY <1>2, <1>3, <1>5, <2>1, <3>1, KnownIs
    <3>3. known.stamp \in Nat
      BY <1>2, <3>2, CopyFacts DEF Held
    <3>4. known.stamp >= row.stamp
      BY <1>4, <2>1, <3>2, <3>3
    <3>5. (\E i \in DOMAIN st.items : st.items[i] = known) \/ known = st.current
      BY <1>2, <1>5, <3>1, KnownIs
    <3> QED
      BY <1>1, <1>3, <1>5, <3>2, <3>4, <3>5 DEF Covered
  <2>2. CASE row # e
    BY <1>1, <1>3, <1>5, <2>2 DEF Covered
  <2> QED
    BY <2>1, <2>2
<1>6. CASE /\ Reconciled(new.items, st.items, e, Belongs(e, st.listUserId, st.listFilter))
           /\ new.current = IF st.current # NoCopy /\ st.current.id = e.id THEN e ELSE st.current
  <2>1. CASE t # e.id
    <3>1. row # e
      BY <1>2, <1>3, <2>1
    <3>2. CASE \E i \in DOMAIN st.items : st.items[i].id = t /\ st.items[i].stamp >= row.stamp
      <4>1. PICK i \in DOMAIN st.items : st.items[i].id = t /\ st.items[i].stamp >= row.stamp
        BY <3>2
      <4>2. \E k \in DOMAIN new.items : new.items[k] = st.items[i]
        BY <1>6, <2>1, <4>1 DEF Reconciled
      <4> QED
        BY <1>1, <1>3, <4>1, <4>2 DEF Covered
    <3>3. CASE /\ row \in events
               /\ st.current # NoCopy /\ st.current.id = t => ~(st.current.stamp >= row.stamp)
      BY <1>1, <1>3, <1>6, <2>1, <3>1, <3>3 DEF Covered
    <3> QED
      BY <1>1, <1>3, <3>2, <3>3 DEF Covered
  <2>2. CASE t = e.id /\ row = e
    <3>1. Belongs(e, st.listUserId, st.listFilter)
      BY <1>1, <1>3, <2>2 DEF Due
    <3>2. \E i \in DOMAIN new.items : new.items[i] = server[t]
      BY <1>3, <1>6, <2>2, <3>1 DEF Reconciled
    <3> QED
      BY <1>1, <1>2, <3>2, LatestCovers
  <2>3. CASE t = e.id /\ row # e
    <3>1. row \in events \ {e}
      <4>1. row.assignee = view.user
        BY <1>3 DEF Due, Belongs
      <4> QED
        BY <1>3, <2>3, <4>1 DEF Announced
    <3>2. new.current # NoCopy /\ new.current.id = t => ~(new.current.stamp >= row.stamp)
      <4> SUFFICES ASSUME new.current # NoCopy, new.current.id = t
                   PROVE  ~(new.current.stamp >= row.stamp)
        OBVIOUS
      <4>1. new.current = e /\ ~setting.overlaps
        BY <1>1, <1>6, <2>3
      <4> QED
        BY <1>2, <1>3, <2>3, <4>1, OldByStamp
    <3> QED
      BY <1>1, <1>3, <3>1, <3>2 DEF Covered
  <2> QED
    BY <2>1, <2>2, <2>3
<1> QED
  BY <1>1, <1>2, <1>5, <1>6, EventOutcome

(* Rows that belong stay, and what is added belongs.                        *)
LEMMA EventBelongs ==
  ASSUME NEW st, StoreOK(st), NEW copy, Held(copy),
         RowsOfPair(st.items, st.listUserId, st.listFilter)
  PROVE  RowsOfPair(ApplyEvent(st, copy).items, st.listUserId, st.listFilter)
<1>1. PICK new : new = ApplyEvent(st, copy)
  OBVIOUS
<1>2. CASE new = st
  BY <1>1, <1>2
<1>3. CASE Reconciled(new.items, st.items, copy, Belongs(copy, st.listUserId, st.listFilter))
  <2>1. RowsOfPair(new.items, st.listUserId, st.listFilter)
    BY <1>3 DEF Reconciled, RowsOfPair
  <2> QED
    BY <1>1, <2>1
<1> QED
  BY <1>1, <1>2, <1>3, EventOutcome

(* The answer to a creation.                                                *)
LEMMA CreatedCovers ==
  ASSUME StoreIInv, ~setting.overlaps, NEW copy, Held(copy),
         copy = server[copy.id] \/ Announced(copy.id, events),
         NEW t \in TaskId, Due(t), store.listUserId = view.user, store.listFilter = view.filter,
         Covered(t, store.items, store.current, events)
  PROVE  Covered(t, Reconcile(store, copy), copy, events)
<1>1. PICK st, items : st = store /\ items = Reconcile(st, copy)
  OBVIOUS
<1>2. /\ CopiesOK(st.items) /\ copy \in Copy /\ ServerOK
      /\ server[t] # NoCopy /\ server[t].id = t /\ server[t] \in Copy
  BY <1>1, Parts DEF ServerOK, Due, StoreOK, Held
<1>3. PICK row : row = server[t]
  OBVIOUS
<1>4. Reconciled(items, st.items, copy, Belongs(copy, st.listUserId, st.listFilter))
  BY <1>1, <1>2, ReconcileIs
<1>5. CASE t # copy.id
  <2>1. row # copy
    BY <1>2, <1>3, <1>5
  <2>2. CASE \E i \in DOMAIN st.items : st.items[i].id = t /\ st.items[i].stamp >= row.stamp
    <3>1. PICK i \in DOMAIN st.items : st.items[i].id = t /\ st.items[i].stamp >= row.stamp
      BY <2>2
    <3>2. \E k \in DOMAIN items : items[k] = st.items[i]
      BY <1>4, <1>5, <3>1 DEF Reconciled
    <3> QED
      BY <1>1, <1>3, <3>1, <3>2 DEF Covered
  <2>3. CASE row \in events
    BY <1>1, <1>3, <1>5, <2>1, <2>3 DEF Covered
  <2> QED
    BY <1>1, <1>3, <2>2, <2>3 DEF Covered
<1>6. CASE t = copy.id /\ row = copy
  <2>1. Belongs(copy, st.listUserId, st.listFilter)
    BY <1>1, <1>3, <1>6 DEF Due
  <2>2. \E i \in DOMAIN items : items[i] = server[t]
    BY <1>3, <1>4, <1>6, <2>1 DEF Reconciled
  <2> QED
    BY <1>1, <1>2, <2>2, LatestCovers
<1>7. CASE t = copy.id /\ row # copy
  <2>1. row \in events
    <3>1. row.assignee = view.user
      BY <1>3 DEF Due, Belongs
    <3> QED
      BY <1>3, <1>7, <3>1 DEF Announced
  <2>2. ~(copy.stamp >= row.stamp)
    BY <1>2, <1>3, <1>7, OldByStamp
  <2> QED
    BY <1>1, <1>3, <1>7, <2>1, <2>2 DEF Covered
<1> QED
  BY <1>5, <1>6, <1>7

(* Pages joined: what is due up to one cursor, and from there to the next.  *)
LEMMA PagesJoin ==
  ASSUME setting \in Settings, NEW items, CopiesOK(items), NEW rows, CopiesOK(rows),
         NEW mark \in TaskId, NEW next \in TaskId \cup {NoTask}, NEW current, NEW told,
         Exact(items, NoTask, mark, current, told), Exact(rows, mark, next, current, told)
  PROVE  Exact(items \o rows, NoTask, next, current, told)
<1>1. /\ DOMAIN items = 1..Len(items) /\ Len(items) \in Nat
      /\ DOMAIN rows = 1..Len(rows) /\ Len(rows) \in Nat
      /\ items \in Seq(Copy) /\ rows \in Seq(Copy)
  BY DEF CopiesOK
<1>2. /\ DOMAIN (items \o rows) = 1..(Len(items) + Len(rows))
      /\ \A i \in 1..(Len(items) + Len(rows)) :
            (items \o rows)[i] = IF i <= Len(items) THEN items[i] ELSE rows[i - Len(items)]
  BY <1>1
<1>3. PICK all : all = items \o rows
  OBVIOUS
<1>4. \A i \in DOMAIN items : i \in DOMAIN all /\ all[i] = items[i]
  BY <1>1, <1>2, <1>3
<1>5. \A i \in DOMAIN rows : Len(items) + i \in DOMAIN all /\ all[Len(items) + i] = rows[i]
  BY <1>1, <1>2, <1>3
<1>6. ASSUME NEW t \in TaskId, t >= next, Due(t)
      PROVE  Covered(t, all, current, told)
  <2>1. t \in Nat /\ mark \in Nat /\ mark # NoTask
    BY SettingFacts
  <2>2. CASE t >= mark
    BY <1>4, <1>6, <2>2 DEF Exact, Covered
  <2>3. CASE t < mark
    BY <1>5, <1>6, <2>3 DEF Exact, Covered
  <2> QED
    BY <2>1, <2>2, <2>3
<1> QED
  BY <1>3, <1>6 DEF Exact

(* The list after a step: its rows belong, and nothing due is missing.      *)
LEMMA LoadedAfter ==
  ASSUME UNCHANGED <<setting, server>>, view'.user = view.user, view'.filter = view.filter,
         NEW items, NEW next, NEW current, NEW told,
         store'.items = items, store'.nextCursor = next, store'.current = current,
         events' = told, store'.listUserId = view.user, store'.listFilter = view.filter,
         RowsOfPair(items, view.user, view.filter), Exact(items, NoTask, next, current, told),
         \A s \in Busy' : calls'[s].kind = "list" => calls'[s].cursor = next
  PROVE  RowsBelong' /\ Loaded'
<1>1. Exact(items, NoTask, next, current, told)'
  BY ExactStays
<1>2. Exact(store.items, NoTask, store.nextCursor, store.current, events)'
  BY <1>1 DEF Exact, Covered, NoTask
<1> QED
  BY <1>2 DEF Loaded, RowsBelong, RowsOfPair

(* A call is made: the first page of another pair, or one the list goes     *)
(* along with.                                                              *)
LEMMA ListCallStep ==
  ASSUME StoreIInv, Calm, ListIInv, setting' = setting, NEW kind, NEW call, call # Idle,
         Call(kind, call), view'.task = NoTask, call.outcome = "pending",
         call.kind \in {"list", "create"}, call.kind = "create" => ~setting.overlaps,
         call.kind = "list" => call.user = view'.user /\ call.filter = view'.filter,
         \/ FirstPage(call) /\ (view'.user = view.user \/ events = {})
         \/ view' = view /\ (call.kind = "list" => call.cursor = store.nextCursor)
  PROVE  ListIInv'
<1>1. /\ Busy = {} /\ UNCHANGED <<server, commits, events>>
      /\ \E s \in Slot : Busy' = {s} /\ calls'[s] = call
      /\ store' = [store EXCEPT !.isLoading = TRUE]
  BY LoneCall DEF Calm
<1>2. PICK s \in Slot : Busy' = {s} /\ calls'[s] = call
  BY <1>1
<1>3. /\ store'.items = store.items /\ store'.current = store.current
      /\ store'.nextCursor = store.nextCursor /\ store'.listUserId = store.listUserId
      /\ store'.listFilter = store.listFilter
  <2>1. PICK st, new : st = store /\ new = store'
    OBVIOUS
  <2> QED
    BY <1>1, <2>1, FlagOnly, Parts
<1>4. ListedCall(calls[s])'
  BY <1>2 DEF ListedCall
<1>5. (\A e \in events : Announced(e.id, events))'
  BY <1>1 DEF ListIInv, Announced
<1>6. RowsBelong' /\ (setting.overlaps => store.current = NoCopy)'
  BY <1>3 DEF ListIInv, RowsBelong, Belongs, MatchesFilter, NoCopy, NoTask
<1>7. CASE FirstPage(call)
  <2>1. FirstPage(calls[s])'
    BY <1>2, <1>7 DEF FirstPage, NoTask
  <2> QED
    BY <1>2, <1>4, <1>5, <1>6, <2>1 DEF ListIInv, NoTask, NoCopy
<1>8. CASE view' = view /\ (call.kind = "list" => call.cursor = store.nextCursor)
  <2>1. Loaded
    BY <1>1 DEF ListIInv
  <2>2. PICK items, next, current, told :
           /\ items = store.items /\ next = store.nextCursor
           /\ current = store.current /\ told = events
    OBVIOUS
  <2>3. RowsOfPair(items, view.user, view.filter) /\ Exact(items, NoTask, next, current, told)
    BY <2>1, <2>2 DEF Loaded, ListIInv, RowsBelong, RowsOfPair
  <2>4. \A r \in Busy' : calls'[r].kind = "list" => calls'[r].cursor = next
    BY <1>2, <1>8, <2>2
  <2>5. Loaded'
    BY <1>1, <1>3, <1>8, <2>1, <2>2, <2>3, <2>4, LoadedAfter DEF Loaded
  <2> QED
    BY <1>2, <1>4, <1>5, <1>6, <2>5 DEF ListIInv, NoTask, NoCopy
<1> QED
  BY <1>7, <1>8

(* What the views do.                                                       *)
LEMMA ListViewStep ==
  ASSUME StoreIInv, CalmListOnly, ListIInv, setting' = setting, ViewStep
  PROVE  ListIInv'
<1>1. /\ view \in [user : User, filter : setting.filters, task : TaskId \cup {NoTask}]
      /\ view.task = NoTask /\ Calm /\ setting.exclusive
      /\ setting.kinds \cap {"task", "change", "close"} = {}
      /\ setting.overlaps => "create" \notin setting.kinds
  BY Parts DEF ViewOK, ListIInv, CalmListOnly, ListAlone, Calm
<1>2. ASSUME NEW u \in User, ShowUser(u)
      PROVE  ListIInv'
  <2>1. PICK call : call = ListCall(u, view.filter, NoTask)
    OBVIOUS
  <2>2. /\ call # Idle /\ FirstPage(call) /\ call.outcome = "pending" /\ call.kind = "list"
        /\ call.user = u /\ call.filter = view.filter
    BY <2>1 DEF ListCall, Idle, FirstPage
  <2>3. /\ view'.task = NoTask /\ view'.user = u /\ view'.filter = view.filter
        /\ events = {}
    BY <1>1, <1>2 DEF ShowUser
  <2>4. Call("list", call)
    BY <1>2, <2>1 DEF ShowUser
  <2> QED
    BY <1>1, <2>2, <2>3, <2>4, ListCallStep
<1>3. ASSUME NEW f \in setting.filters, ShowFilter(f)
      PROVE  ListIInv'
  <2>1. PICK call : call = ListCall(view.user, f, NoTask)
    OBVIOUS
  <2>2. /\ call # Idle /\ FirstPage(call) /\ call.outcome = "pending" /\ call.kind = "list"
        /\ call.user = view.user /\ call.filter = f
    BY <2>1 DEF ListCall, Idle, FirstPage
  <2>3. view'.task = NoTask /\ view'.user = view.user /\ view'.filter = f
    BY <1>1, <1>3 DEF ShowFilter
  <2>4. Call("list", call)
    BY <1>3, <2>1 DEF ShowFilter
  <2> QED
    BY <1>1, <2>2, <2>3, <2>4, ListCallStep
<1>4. ASSUME LoadMore
      PROVE  ListIInv'
  <2>1. PICK call : call = ListCall(view.user, view.filter, store.nextCursor)
    OBVIOUS
  <2>2. /\ call # Idle /\ call.outcome = "pending" /\ call.kind = "list"
        /\ call.user = view.user /\ call.filter = view.filter /\ call.cursor = store.nextCursor
    BY <2>1 DEF ListCall, Idle
  <2>3. view' = view /\ Call("more", call)
    BY <1>4, <2>1 DEF LoadMore
  <2> QED
    BY <1>1, <2>2, <2>3, ListCallStep
<1>5. ASSUME NEW u \in User, SubmitCreate(u)
      PROVE  ListIInv'
  <2>1. PICK call : call = CreateCall(u)
    OBVIOUS
  <2>2. call # Idle /\ call.outcome = "pending" /\ call.kind = "create"
    BY <2>1 DEF CreateCall, Idle
  <2>3. view' = view /\ Call("create", call) /\ ~setting.overlaps
    BY <1>1, <1>5, <2>1 DEF SubmitCreate, Call
  <2> QED
    BY <1>1, <2>2, <2>3, ListCallStep
<1>6. /\ ~CloseDrawer /\ ~SubmitClose /\ ~Reconnected
      /\ \A t \in TaskId : ~OpenDrawer(t) /\ \A u \in User : ~FollowLink(u, t)
      /\ \A dir \in {"forward", "backward"}, u \in User : ~SubmitChange(dir, u)
  BY <1>1 DEF CloseDrawer, SubmitClose, OpenDrawer, SubmitChange, Reconnected, FollowLink, Call,
         CallBoth, Calm
<1> QED
  BY <1>2, <1>3, <1>4, <1>5, <1>6 DEF ViewStep

(* A commit, whoever made it, with a call it may answer.                    *)
LEMMA ListAfterCommit ==
  ASSUME StoreIInv, ListIInv, setting' = setting, NEW copy \in Copy, Dated(copy),
         CommitChange(copy), UNCHANGED <<store, view>>, Busy' = Busy,
         \A s \in Busy : \/ calls'[s] = calls[s]
                         \/ /\ calls[s].kind = "create" /\ calls'[s].kind = "create"
                            /\ calls'[s].outcome = "ok" /\ calls'[s].answer = copy
  PROVE  ListIInv'
<1>1. /\ \A rows, from, to : Exact(rows, from, to, store.current, events) =>
                                 Exact(rows, from, to, store.current, events)'
      /\ \A t \in TaskId : Announced(t, events) => Announced(t, events)'
      /\ Announced(copy.id, events)'
      /\ \A d : d.id \in TaskId /\ (d = server[d.id] \/ Announced(d.id, events)) =>
                    d = server'[d.id] \/ Announced(d.id, events)'
  BY ListCommit DEF ListIInv
<1>2. \A s \in Busy : ListedCall(calls[s])'
  <2> SUFFICES ASSUME NEW s \in Busy PROVE ListedCall(calls[s])'
    OBVIOUS
  <2>1. ListedCall(calls[s]) /\ CallOK(calls[s])
    BY Parts DEF ListIInv, Busy
  <2>2. PICK call, new : call = calls[s] /\ new = calls'[s]
    OBVIOUS
  <2>3. CASE new = call /\ (call.outcome # "ok")
    BY <2>1, <2>2, <2>3 DEF ListedCall
  <2>4. CASE new = call /\ call.outcome = "ok" /\ call.kind = "create"
    <3>1. Held(call.answer) /\ (call.answer = server[call.answer.id] \/ Announced(call.answer.id, events))
      BY <2>1, <2>2, <2>4 DEF CallOK, ListedCall
    <3>2. call.answer.id \in TaskId
      <4>1. PICK d : d = call.answer
        OBVIOUS
      <4> QED
        BY <3>1, <4>1, CopyFacts, Parts DEF Held
    <3>3. call.answer = server'[call.answer.id] \/ Announced(call.answer.id, events)'
      BY <1>1, <3>1, <3>2
    <3> QED
      BY <2>1, <2>2, <2>4, <3>3 DEF ListedCall
  <2>5. CASE new = call /\ call.outcome = "ok" /\ call.kind = "list"
    <3>1. PICK rows, from, to :
             rows = call.answer.rows /\ from = call.cursor /\ to = call.answer.next
      OBVIOUS
    <3>2. Exact(rows, from, to, store.current, events)'
      BY <1>1, <2>1, <2>2, <2>5, <3>1 DEF ListedCall
    <3>3. Exact(call.answer.rows, call.cursor, call.answer.next, store.current, events)'
      BY <3>1, <3>2
    <3>4. RowsOfPair(call.answer.rows, call.user, call.filter)'
      BY <2>1, <2>2, <2>5 DEF ListedCall, RowsOfPair, Belongs, MatchesFilter
    <3>5. call.user = view'.user /\ call.filter = view'.filter
      BY <2>1, <2>2, <2>5 DEF ListedCall
    <3>6. ListedCall(call)'
      BY <2>5, <3>3, <3>4, <3>5 DEF ListedCall
    <3> QED
      BY <2>2, <2>5, <3>6
  <2>6. CASE new.kind = "create" /\ new.outcome = "ok" /\ new.answer = copy
    BY <1>1, <2>1, <2>2, <2>6 DEF ListedCall
  <2> QED
    BY <2>1, <2>2, <2>3, <2>4, <2>5, <2>6 DEF ListedCall
<1>3. (\A e \in events : Announced(e.id, events))'
  <2> SUFFICES ASSUME NEW e \in events' PROVE Announced(e.id, events)'
    OBVIOUS
  <2>1. CASE e \in events
    <3>1. e.id \in TaskId
      BY <2>1, Parts, CopyFacts DEF Held
    <3> QED
      BY <1>1, <2>1, <3>1 DEF ListIInv
  <2>2. CASE e = copy
    BY <1>1, <2>2
  <2> QED
    BY <2>1, <2>2 DEF CommitChange
<1>4. RowsBelong'
  BY DEF ListIInv, RowsBelong, Belongs, MatchesFilter
<1>5. (\E s \in Busy : FirstPage(calls[s])) => \E s \in Busy : FirstPage(calls[s])'
  BY DEF FirstPage, NoTask
<1>6. Loaded => Loaded'
  <2> SUFFICES ASSUME Loaded PROVE Loaded'
    OBVIOUS
  <2>1. PICK rows, to : rows = store.items /\ to = store.nextCursor
    OBVIOUS
  <2>2. Exact(rows, NoTask, to, store.current, events)'
    BY <1>1, <2>1 DEF Loaded, NoTask
  <2>3. Exact(store.items, NoTask, store.nextCursor, store.current, events)'
    BY <2>1, <2>2
  <2>4. \A s \in Busy : calls'[s].kind = "list" => calls'[s].cursor = store.nextCursor
    BY DEF Loaded
  <2> QED
    BY <2>3, <2>4 DEF Loaded
<1> QED
  BY <1>2, <1>3, <1>4, <1>5, <1>6 DEF ListIInv, NoTask, NoCopy

(* Other clients commit.                                                    *)
LEMMA ListOthers ==
  ASSUME StoreIInv, ListIInv, setting' = setting, OtherClient
  PROVE  ListIInv'
<1>1. UNCHANGED <<calls, store, view>>
  BY OtherClientCommits
<1>2. PICK copy : copy \in Copy /\ Dated(copy) /\ CommitChange(copy)
  BY OtherClientCommits
<1>3. Busy' = Busy
  BY <1>1 DEF Busy, Slot, Idle
<1> QED
  BY <1>1, <1>2, <1>3, ListAfterCommit

(* The server deals with a call.                                            *)
LEMMA ListServe ==
  ASSUME StoreIInv, Calm, ListIInv, setting' = setting, NEW s \in Slot, Serve(s)
  PROVE  ListIInv'
<1>1. /\ calls[s] # Idle /\ calls[s].outcome = "pending" /\ UNCHANGED <<store, view>>
      /\ \/ \E answer : ReadServed(s, answer)
         \/ \E copy : CommitServed(s, copy)
         \/ \E outcome : Refused(s, outcome)
  BY ServeOutcomes DEF Calm
<1>2. Busy = {s} /\ ListedCall(calls[s])
  BY <1>1 DEF ListIInv, Busy
<1>3. CASE \E copy : CommitServed(s, copy)
  <2>1. PICK copy : CommitServed(s, copy)
    BY <1>3
  <2>2. /\ copy \in Copy /\ Dated(copy) /\ CommitChange(copy)
        /\ Answered(s, "ok", copy) /\ calls[s].kind = "create"
    BY <1>2, <2>1 DEF CommitServed, ListedCall
  <2>3. /\ Busy' = Busy /\ calls'[s].kind = "create"
        /\ calls'[s].outcome = "ok" /\ calls'[s].answer = copy
    BY <1>1, <2>2, AnsweredCall
  <2> QED
    BY <1>1, <1>2, <2>2, <2>3, ListAfterCommit
<1>4. CASE \E answer : ReadServed(s, answer)
  <2>1. PICK page : ReadServed(s, page)
    BY <1>4
  <2>2. PICK user, filter, mark :
           user = calls[s].user /\ filter = calls[s].filter /\ mark = calls[s].cursor
    OBVIOUS
  <2>3. /\ page = PageAfter(user, filter, mark) /\ Answered(s, "ok", page)
        /\ UNCHANGED <<server, events>> /\ calls[s].kind = "list"
        /\ user = view.user /\ filter = view.filter
    BY <1>2, <2>1, <2>2 DEF ReadServed, ListedCall
  <2>4. /\ Busy' = {s} /\ calls'[s].kind = "list"
        /\ calls'[s].outcome = "ok" /\ calls'[s].answer = page
        /\ calls'[s].user = user /\ calls'[s].filter = filter /\ calls'[s].cursor = mark
    BY ZenonT(60), <1>1, <1>2, <2>2, <2>3, AnsweredCall
  <2>5. PICK rows, to, current, told :
           /\ rows = page.rows /\ to = page.next /\ current = store.current /\ told = events
    OBVIOUS
  <2>6. RowsOfPair(rows, user, filter) /\ Exact(rows, mark, to, current, told)
    <3>1. ServerOK /\ RowsOfPair(rows, user, filter)
      BY <2>3, <2>5, PageCovers, Parts
    <3>2. ASSUME NEW t \in TaskId, mark = NoTask \/ t < mark, t >= to, Due(t)
          PROVE  Covered(t, rows, current, told)
      <4>1. \E i \in DOMAIN rows : rows[i] = server[t]
        BY <2>3, <2>5, <3>1, <3>2, PageCovers DEF Due
      <4> QED
        BY <3>1, <3>2, <4>1, LatestCovers DEF Due
    <3> QED
      BY <3>1, <3>2 DEF Exact
  <2>7. Exact(rows, mark, to, current, told)'
    BY <1>1, <2>3, <2>6, ExactStays
  <2>8. Exact(calls[s].answer.rows, calls[s].cursor, calls[s].answer.next, store.current, events)'
    BY <1>1, <2>3, <2>4, <2>5, <2>7 DEF Exact, Covered
  <2>9. RowsOfPair(calls[s].answer.rows, calls[s].user, calls[s].filter)'
    BY <2>4, <2>5, <2>6 DEF RowsOfPair
  <2>10. ListedCall(calls[s])'
    BY <1>1, <2>3, <2>4, <2>8, <2>9 DEF ListedCall
  <2>11. (\A e \in events : Announced(e.id, events))' /\ RowsBelong'
    BY <1>1, <2>3 DEF ListIInv, Announced, RowsBelong, Belongs, MatchesFilter
  <2>12. CASE FirstPage(calls[s])
    <3>1. FirstPage(calls[s])'
      BY <2>2, <2>4, <2>12 DEF FirstPage, NoTask
    <3> QED
      BY <1>1, <2>4, <2>10, <2>11, <3>1 DEF ListIInv, NoTask, NoCopy
  <2>13. CASE ~FirstPage(calls[s])
    <3>1. Loaded /\ mark = store.nextCursor
      BY <1>2, <2>2, <2>3, <2>13 DEF ListIInv, Loaded
    <3>2. PICK items, next : items = store.items /\ next = store.nextCursor
      OBVIOUS
    <3>3. RowsOfPair(items, view.user, view.filter) /\ Exact(items, NoTask, next, current, told)
      BY <2>5, <3>1, <3>2 DEF Loaded, ListIInv, RowsBelong, RowsOfPair
    <3>4. Loaded'
      BY <1>1, <2>3, <2>4, <2>5, <3>1, <3>2, <3>3, LoadedAfter DEF Loaded
    <3> QED
      BY <1>1, <2>4, <2>10, <2>11, <3>4 DEF ListIInv, NoTask, NoCopy
  <2> QED
    BY <2>12, <2>13
<1>5. ~\E outcome : Refused(s, outcome)
  BY <1>2 DEF Refused, ListedCall
<1> QED
  BY <1>1, <1>3, <1>4, <1>5

(* The answer is taken: a page replaces the list or is appended to it, a    *)
(* new task joins it.                                                       *)
LEMMA ListAnswer ==
  ASSUME StoreIInv, ListIInv, setting' = setting, NEW s \in Slot, TakeAnswer(s)
  PROVE  ListIInv'
<1>1. /\ calls[s] # Idle /\ calls[s].outcome = "ok" /\ UNCHANGED <<server, events, view>>
      /\ store' = [Taken(store, calls[s]) EXCEPT !.isLoading = FALSE]
      /\ calls' = [calls EXCEPT ![s] = Idle]
  BY DEF TakeAnswer, Busy
<1>2. Busy = {s} /\ ListedCall(calls[s])
  BY <1>1 DEF ListIInv, Busy
<1>3. Busy' = {}
  <2>1. Slot' = Slot /\ Idle' = Idle
    BY DEF Slot, Idle
  <2>2. \A r \in Slot : calls'[r] = Idle
    BY <1>1, <1>2, Parts DEF Busy
  <2> QED
    BY <2>1, <2>2 DEF Busy
<1>4. PICK call, st, new, told : call = calls[s] /\ st = store /\ new = Taken(st, call) /\ told = events
  OBVIOUS
<1>5. CallOK(call) /\ StoreOK(st) /\ StoreOK(new) /\ setting \in Settings
  BY <1>1, <1>4, TakenOK, Parts
<1>6. /\ store'.items = new.items /\ store'.current = new.current
      /\ store'.nextCursor = new.nextCursor /\ store'.listUserId = new.listUserId
      /\ store'.listFilter = new.listFilter
  BY <1>1, <1>4, <1>5, FlagOnly
<1>7. PICK items, next, current :
         items = new.items /\ next = new.nextCursor /\ current = new.current
  OBVIOUS
<1>8. /\ new.listUserId = view.user /\ new.listFilter = view.filter
      /\ RowsOfPair(items, view.user, view.filter) /\ Exact(items, NoTask, next, current, told)
  <2>1. CASE call.kind = "create"
    <3>1. Loaded
      BY <1>2, <1>4, <2>1 DEF ListIInv, FirstPage
    <3>2. PICK copy, rows : copy = call.answer /\ rows = Reconcile(st, copy)
      OBVIOUS
    <3>3. Held(copy) /\ (copy = server[copy.id] \/ Announced(copy.id, events))
      BY <1>1, <1>2, <1>4, <1>5, <2>1, <3>2 DEF CallOK, ListedCall
    <3>4. new = [st EXCEPT !.current = copy, !.items = rows]
      BY <1>4, <2>1, <3>2 DEF Taken, TakeMutation
    <3>5. /\ new.items = rows /\ new.current = copy /\ new.nextCursor = st.nextCursor
          /\ new.listUserId = st.listUserId /\ new.listFilter = st.listFilter
      BY <1>5, <3>4 DEF StoreOK, Store
    <3>6. Exact(rows, NoTask, st.nextCursor, copy, told)
      <4>1. ~setting.overlaps
        BY <1>2, <1>4, <2>1 DEF ListedCall
      <4> QED
        BY <1>4, <3>1, <3>2, <3>3, <4>1, CreatedCovers DEF Loaded, Exact
    <3>7. RowsOfPair(rows, st.listUserId, st.listFilter)
      <4>1. Reconciled(rows, st.items, copy, Belongs(copy, st.listUserId, st.listFilter))
        BY <1>5, <3>2, <3>3, ReconcileIs DEF StoreOK
      <4>2. RowsOfPair(st.items, st.listUserId, st.listFilter)
        BY <1>4 DEF ListIInv, RowsBelong, RowsOfPair
      <4> QED
        BY <4>1, <4>2 DEF Reconciled, RowsOfPair
    <3> QED
      BY <1>4, <1>7, <3>1, <3>5, <3>6, <3>7 DEF Loaded
  <2>2. CASE call.kind = "list"
    <3>1. PICK rows, mark, to :
             rows = call.answer.rows /\ mark = call.cursor /\ to = call.answer.next
      OBVIOUS
    <3>2. /\ RowsOfPair(rows, view.user, view.filter)
          /\ Exact(rows, mark, to, st.current, told)
          /\ call.user = view.user /\ call.filter = view.filter
      BY <1>1, <1>2, <1>4, <2>2, <3>1 DEF ListedCall
    <3>3. PICK joined : joined = IF mark = NoTask THEN rows ELSE st.items \o rows
      OBVIOUS
    <3>4. new = [st EXCEPT !.items = joined, !.nextCursor = to,
                           !.listUserId = call.user, !.listFilter = call.filter]
      BY <1>4, <1>5, <2>2, <3>1, <3>3 DEF Taken, TakePage, StoreOK, Store
    <3>5. /\ items = joined /\ next = to /\ current = st.current
          /\ new.listUserId = view.user /\ new.listFilter = view.filter
      BY <1>5, <1>7, <3>2, <3>4 DEF StoreOK, Store
    <3>6. /\ CopiesOK(rows) /\ CopiesOK(st.items)
          /\ to \in TaskId \cup {NoTask} /\ mark \in TaskId \cup {NoTask}
      BY <1>1, <1>4, <1>5, <2>2, <3>1 DEF CallOK, PageOK, StoreOK
    <3>7. CASE mark = NoTask
      BY <3>2, <3>3, <3>5, <3>7
    <3>8. CASE mark # NoTask
      <4>1. Loaded /\ mark = st.nextCursor
        BY <1>2, <1>4, <2>2, <3>1, <3>8 DEF ListIInv, Loaded, FirstPage
      <4>2. PICK old : old = st.items
        OBVIOUS
      <4>3. Exact(old, NoTask, mark, current, told) /\ RowsOfPair(old, view.user, view.filter)
        BY <1>4, <3>5, <4>1, <4>2 DEF Loaded, ListIInv, RowsBelong, RowsOfPair
      <4>4. Exact(old \o rows, NoTask, to, current, told)
        BY <1>5, <3>2, <3>5, <3>6, <3>8, <4>2, <4>3, PagesJoin
      <4>5. RowsOfPair(old \o rows, view.user, view.filter)
        <5>1. old \in Seq(Copy) /\ rows \in Seq(Copy)
          BY <3>6, <4>2 DEF CopiesOK
        <5>2. \A i \in DOMAIN (old \o rows) :
                 \/ i \in DOMAIN old /\ (old \o rows)[i] = old[i]
                 \/ i - Len(old) \in DOMAIN rows /\ (old \o rows)[i] = rows[i - Len(old)]
          BY <5>1
        <5> QED
          BY <3>2, <4>3, <5>2 DEF RowsOfPair
      <4> QED
        BY <3>3, <3>5, <3>8, <4>2, <4>4, <4>5
    <3> QED
      BY <3>7, <3>8
  <2> QED
    BY <1>2, <1>4, <2>1, <2>2 DEF ListedCall
<1>9. RowsBelong' /\ Loaded'
  BY <1>1, <1>3, <1>4, <1>6, <1>7, <1>8, LoadedAfter
<1>10. (\A e \in events : Announced(e.id, events))'
  BY <1>1 DEF ListIInv, Announced
<1>11. setting.overlaps => store'.current = NoCopy
  <2> SUFFICES ASSUME setting.overlaps PROVE store'.current = NoCopy
    OBVIOUS
  <2>1. st.current = NoCopy /\ call.kind = "list"
    BY <1>2, <1>4 DEF ListIInv, ListedCall
  <2>2. new.current = st.current
    BY <1>4, <1>5, <2>1 DEF Taken, TakePage, StoreOK, Store
  <2> QED
    BY <1>6, <2>1, <2>2
<1> QED
  BY <1>1, <1>3, <1>9, <1>10, <1>11 DEF ListIInv, NoTask, NoCopy

(* The list's hook applies an event.                                        *)
LEMMA ListEvent ==
  ASSUME StoreIInv, Calm, ListIInv, setting' = setting, NEW e \in events, TakeEvent(e)
  PROVE  ListIInv'
<1>1. /\ Busy = {} /\ UNCHANGED <<server, calls, view>> /\ events' = events \ {e}
      /\ \A d \in events : e.version <= d.version
      /\ store' = ApplyEvent(store, e)
  BY DEF TakeEvent, Calm, ListIInv
<1>2. Busy' = {} /\ Loaded
  BY <1>1 DEF Busy, Slot, Idle, ListIInv
<1>3. (\A d \in events : Announced(d.id, events))'
  <2>1. \A d \in events \ {e} : Announced(d.id, events \ {e})
    BY <1>1, StillAnnounced DEF ListIInv
  <2> QED
    BY <1>1, <2>1 DEF Announced
<1>4. PICK st, new, told : st = store /\ new = ApplyEvent(st, e) /\ told = events \ {e}
  OBVIOUS
<1>5. PICK items, next, current :
         items = new.items /\ next = new.nextCursor /\ current = new.current
  OBVIOUS
<1>6. /\ StoreOK(st) /\ Held(e)
      /\ new.listUserId = view.user /\ new.listFilter = view.filter
  BY <1>2, <1>4, EventKeepsListing, Parts DEF Loaded
<1>7. next = st.nextCursor
  BY <1>4, <1>5, <1>6, EventOutcome
<1>8. Exact(items, NoTask, next, current, told)
  BY <1>2, <1>4, <1>5, <1>7, EventCovers DEF Loaded, ListIInv, Exact
<1>9. RowsOfPair(items, view.user, view.filter)
  <2>1. RowsOfPair(st.items, st.listUserId, st.listFilter)
    BY <1>4 DEF ListIInv, RowsBelong, RowsOfPair
  <2> QED
    BY <1>2, <1>4, <1>5, <1>6, <2>1, EventBelongs DEF Loaded
<1>10. RowsBelong' /\ Loaded'
  BY <1>1, <1>2, <1>4, <1>5, <1>6, <1>8, <1>9, LoadedAfter
<1>11. setting.overlaps => store'.current = NoCopy
  BY <1>1, <1>4, <1>6, EventOutcome DEF ListIInv
<1> QED
  BY <1>1, <1>2, <1>3, <1>10, <1>11 DEF ListIInv, NoTask, NoCopy

(* At first the first page is on its way.                                   *)
LEMMA ListInit == Init => (CalmListOnly => ListIInv)
<1> SUFFICES ASSUME Init, CalmListOnly PROVE ListIInv
  OBVIOUS
<1>1. /\ setting \in Settings /\ events = {} /\ store.items = <<>>
      /\ store.current = NoCopy
  BY DEF Init
<1>2. PICK u \in User : /\ view = [user |-> u, filter |-> "all", task |-> NoTask]
                        /\ calls = [s \in Slot |-> IF s = 1 THEN ListCall(u, "all", NoTask) ELSE Idle]
  BY CalmStart DEF CalmListOnly
<1>3. 1 \in Slot
  BY <1>1, SettingFacts DEF Slot
<1>4. /\ FirstPage(ListCall(u, "all", NoTask)) /\ ListedCall(ListCall(u, "all", NoTask))
      /\ ListCall(u, "all", NoTask) # Idle
  BY <1>2 DEF FirstPage, ListedCall, ListCall, Idle
<1>5. Busy = {1} /\ calls[1] = ListCall(u, "all", NoTask)
  BY <1>2, <1>3, <1>4 DEF Busy
<1>6. RowsBelong
  BY <1>1 DEF RowsBelong
<1> QED
  BY <1>1, <1>2, <1>4, <1>5, <1>6 DEF ListIInv

(* Every step keeps the list covered.                                       *)
LEMMA ListNext ==
  ASSUME StoreIInv, CalmListOnly => ListIInv, [Next]_vars
  PROVE  (CalmListOnly => ListIInv)'
<1> SUFFICES ASSUME CalmListOnly' PROVE ListIInv'
  OBVIOUS
<1>1. setting' = setting
  BY DEF Next, vars
<1>2. CalmListOnly /\ ListIInv /\ Calm
  BY <1>1 DEF CalmListOnly, Calm, ListAlone
<1>3. CASE UNCHANGED vars
  <2>1. UNCHANGED <<setting, server, events, calls, store, view>>
    BY <1>3 DEF vars
  <2>2. Busy' = Busy
    BY <2>1 DEF Busy, Slot, Idle
  <2>3. \A rows, from, to, current, told :
           Exact(rows, from, to, current, told)' <=> Exact(rows, from, to, current, told)
    BY <2>1 DEF Exact, Covered, Due, TaskId, NoTask, NoCopy, Belongs, MatchesFilter
  <2>4. \A t, told : Announced(t, told)' <=> Announced(t, told)
    BY <2>1 DEF Announced
  <2>5. ASSUME NEW s \in Busy PROVE ListedCall(calls[s])'
    BY <1>2, <2>1, <2>3, <2>4 DEF ListIInv, ListedCall
  <2>6. RowsBelong'
    BY <1>2, <2>1 DEF ListIInv, RowsBelong
  <2>7. ((\E s \in Busy : FirstPage(calls[s])) \/ Loaded)'
    BY <1>2, <2>1, <2>2, <2>3 DEF ListIInv, Loaded
  <2> QED
    BY <1>2, <2>1, <2>2, <2>4, <2>5, <2>6, <2>7 DEF ListIInv
<1>4. CASE ViewStep
  BY <1>1, <1>2, <1>4, ListViewStep
<1>5. CASE OtherClient
  BY <1>1, <1>2, <1>5, ListOthers
<1>6. ASSUME NEW s \in Slot, Serve(s) \/ TakeAnswer(s) \/ TakeError(s)
      PROVE  ListIInv'
  <2>1. ~TakeError(s)
    BY <1>2 DEF TakeError, ListIInv, ListedCall
  <2> QED
    BY <1>1, <1>2, <1>6, <2>1, ListServe, ListAnswer
<1>7. ASSUME NEW e \in events, TakeEvent(e) \/ LoseEvent(e)
      PROVE  ListIInv'
  <2>1. ~LoseEvent(e)
    BY <1>2 DEF LoseEvent, Calm
  <2> QED
    BY <1>1, <1>2, <1>7, <2>1, ListEvent
<1> QED
  BY <1>3, <1>4, <1>5, <1>6, <1>7 DEF Next

(* "A task that no longer belongs on the loaded page leaves it", and none   *)
(* that does is skipped at a page's end, lost with an event the staleness   *)
(* guard drops, or left outdated: however many pages are loaded, whatever   *)
(* filter and user they are loaded for, and whoever changes tasks between.  *)
THEOREM StoreListExact == Spec => []CalmListExact
<1>1. ASSUME StoreIInv, ListIInv PROVE RowsBelong /\ SettledListComplete
  <2>1. RowsBelong
    BY <1>1 DEF ListIInv
  <2>2. ASSUME Settled, NEW t \in TaskId, Due(t), t >= store.nextCursor
        PROVE  \E i \in DOMAIN store.items :
                  store.items[i].id = t /\ UpToDate(store.items[i])
    <3>1. Busy = {} /\ events = {}
      BY <2>2 DEF Settled
    <3>2. Loaded
      BY <1>1, <3>1 DEF ListIInv
    <3>3. PICK i \in DOMAIN store.items :
             store.items[i].id = t /\ store.items[i].stamp >= server[t].stamp
      BY <2>2, <3>1, <3>2 DEF Loaded, Exact, Covered
    <3>4. PICK copy : copy = store.items[i]
      OBVIOUS
    <3>5. Held(copy) /\ ServerOK
      BY <1>1, <3>4, Parts DEF StoreOK, CopiesOK
    <3> QED
      BY <3>3, <3>4, <3>5, FreshByStamp
  <2> QED
    BY <2>1, <2>2 DEF SettledListComplete, Due
<1>2. StoreIInv /\ (CalmListOnly => ListIInv) => CalmListExact
  BY <1>1 DEF CalmListExact, CalmListOnly
<1> QED
  BY <1>2, StoreInitInv, StoreNextKeeps, ListInit, ListNext, PTL DEF Spec
=============================================================================
