--------------------------- MODULE AdvanceFormProofs ---------------------------
(***************************************************************************)
(* Proofs about AdvanceForm, FieldValidator and ApiErrors, for any task    *)
(* type, any texts a user types and any payloads a script sends.           *)
(*                                                                         *)
(* The lemmas about the validator say what its operators make of any text  *)
(* and payload: a value it accepts is stored clean (EvaluatedClean), and a *)
(* payload corrected by what the report names is accepted                  *)
(* (CorrectedAccepted).  The invariant FormIInv carries them from the      *)
(* moment a text is typed or a payload sent, over the call, to the row it  *)
(* changes or the error it ends in.                                        *)
(***************************************************************************)
EXTENDS AdvanceForm, FiniteSetTheorems, SequenceTheorems, WellFoundedInduction, TLAPS

(* A one-to-one listing of a finite set lists all of it. *)
LEMMA ListsAll ==
  ASSUME NEW S, IsFiniteSet(S), NEW s \in [1..Cardinality(S) -> S],
         \A i, j \in 1..Cardinality(S) : s[i] = s[j] => i = j
  PROVE  /\ Cardinality(S) \in Nat
         /\ \A x \in S : \E i \in 1..Cardinality(S) : s[i] = x
<1>1. Cardinality(S) \in Nat
  BY FS_CardinalityType
<1>2. Cardinality(1..Cardinality(S)) = Cardinality(S)
  BY <1>1, FS_Interval
<1>3. s \in Injection(1..Cardinality(S), S)
  BY DEF Injection, IsInjective
<1>4. s \in Surjection(1..Cardinality(S), S)
  BY <1>2, <1>3, FS_Injection
<1> QED
  BY <1>1, <1>4 DEF Surjection

(* SetToSeq lists a finite set, every element once. *)
LEMMA SetToSeqLists ==
  ASSUME NEW S, IsFiniteSet(S)
  PROVE  /\ Cardinality(S) \in Nat
         /\ SetToSeq(S) \in [1..Cardinality(S) -> S]
         /\ \A i, j \in 1..Cardinality(S) : SetToSeq(S)[i] = SetToSeq(S)[j] => i = j
         /\ \A x \in S : \E i \in 1..Cardinality(S) : SetToSeq(S)[i] = x
<1>1. Cardinality(S) \in Nat /\ \E f : f \in Bijection(1..Cardinality(S), S)
  BY FS_CardinalityType DEF ExistsBijection
<1>2. \E f \in [1..Cardinality(S) -> S] : IsInjective(f)
  BY <1>1 DEF Bijection, Injection
<1>3. SetToSeq(S) \in [1..Cardinality(S) -> S] /\ IsInjective(SetToSeq(S))
  BY <1>2 DEF SetToSeq
<1>4. \A i, j \in 1..Cardinality(S) : SetToSeq(S)[i] = SetToSeq(S)[j] => i = j
  BY <1>3 DEF IsInjective
<1> QED
  BY <1>3, <1>4, ListsAll

(* s lists the numbers of S, n of them, each above the one before. *)
Rises(s, n, S) == s \in [1..n -> S] /\ \A i, j \in 1..n : i < j => s[i] < s[j]

(* Every set of positions can be listed from the smallest up: by induction *)
(* over a bound on its members, as a least counterexample.                 *)
LEMMA RisingExists ==
  ASSUME NEW n \in Nat, NEW S \in SUBSET (1..n)
  PROVE  \E s : Rises(s, Cardinality(S), S)
<1> DEFINE Listed(m) == \A T \in SUBSET (1..m) : \E s : Rises(s, Cardinality(T), T)
           Bad == {m \in Nat : ~Listed(m)}
<1>1. Listed(0)
  <2> SUFFICES ASSUME NEW T \in SUBSET (1..0) PROVE \E s : Rises(s, Cardinality(T), T)
    OBVIOUS
  <2>1. T = {} /\ Cardinality({}) = 0
    BY FS_EmptySet
  <2> DEFINE none == [i \in 1..0 |-> 0]
  <2>2. none \in [1..0 -> {}] /\ \A i, j \in 1..0 : i < j => none[i] < none[j]
    OBVIOUS
  <2> HIDE DEF none
  <2>3. Rises(none, 0, {})
    BY <2>2 DEF Rises
  <2> QED
    BY <2>1, <2>3
<1>2. ASSUME NEW m \in Nat, Listed(m)
      PROVE  Listed(m + 1)
  <2> SUFFICES ASSUME NEW T \in SUBSET (1..(m + 1)) PROVE \E s : Rises(s, Cardinality(T), T)
    OBVIOUS
  <2>1. CASE m + 1 \notin T
    <3>1. T \in SUBSET (1..m)
      BY <2>1
    <3> QED
      BY <1>2, <3>1
  <2>2. CASE m + 1 \in T
    <3> DEFINE U == T \ {m + 1}
    <3>1. U \in SUBSET (1..m)
      OBVIOUS
    <3>2. PICK s : Rises(s, Cardinality(U), U)
      BY <1>2, <3>1
    <3>3. IsFiniteSet(T)
      <4>1. 1 \in Int /\ m + 1 \in Int
        OBVIOUS
      <4>2. IsFiniteSet(1..(m + 1))
        BY <4>1, FS_Interval
      <4> QED
        BY <4>2, FS_Subset
    <3>4. PICK c \in Nat : Cardinality(U) = c /\ Cardinality(T) = c + 1
      <4>1. IsFiniteSet(U) /\ Cardinality(U) = Cardinality(T) - 1
        BY <2>2, <3>3, FS_RemoveElement
      <4>2. Cardinality(U) \in Nat /\ Cardinality(T) \in Nat
        BY <3>3, <4>1, FS_CardinalityType
      <4> QED
        BY <4>1, <4>2
    <3>5. s \in [1..c -> U] /\ \A i, j \in 1..c : i < j => s[i] < s[j]
      BY <3>2, <3>4 DEF Rises
    <3> DEFINE t == [i \in 1..(c + 1) |-> IF i = c + 1 THEN m + 1 ELSE s[i]]
    <3>6. t \in [1..(c + 1) -> T]
      BY <2>2, <3>5
    <3>7. ASSUME NEW i \in 1..(c + 1), NEW j \in 1..(c + 1), i < j
          PROVE  t[i] < t[j]
      <4>1. i \in 1..c /\ t[i] = s[i]
        BY <3>7
      <4>4. s[i] \in U
        BY <3>5, <4>1
      <4>5. s[i] \in 1..m
        BY <3>1, <4>4
      <4>2. CASE j = c + 1
        <5>1. t[j] = m + 1
          BY <4>2
        <5> QED
          BY <4>1, <4>5, <5>1
      <4>3. CASE j # c + 1
        <5>1. j \in 1..c /\ t[j] = s[j]
          BY <4>3
        <5> QED
          BY <3>5, <3>7, <4>1, <5>1
      <4> QED
        BY <4>2, <4>3
    <3> HIDE DEF t
    <3>8. Rises(t, c + 1, T)
      BY <3>6, <3>7 DEF Rises
    <3> QED
      BY <3>4, <3>8
  <2> QED
    BY <2>1, <2>2
<1> HIDE DEF Listed
<1>3. Bad = {}
  <2> SUFFICES ASSUME Bad # {} PROVE FALSE
    OBVIOUS
  <2>1. PICK m \in Bad : \A y \in Bad : ~(<<y, m>> \in OpToRel(<, Nat))
    <3>1. Bad \subseteq Nat
      OBVIOUS
    <3> HIDE DEF Bad
    <3> QED
      BY <3>1, NatLessThanWellFounded, WFMin
  <2>2. m \in Nat /\ ~Listed(m) /\ m # 0
    BY <1>1
  <2>3. m - 1 \in Nat /\ m - 1 < m
    BY <2>2
  <2>5. <<m - 1, m>> \in OpToRel(<, Nat)
    BY <2>2, <2>3 DEF OpToRel
  <2>4. Listed(m - 1)
    BY <2>1, <2>3, <2>5
  <2>6. Listed((m - 1) + 1) /\ (m - 1) + 1 = m
    BY <1>2, <2>2, <2>3, <2>4
  <2> QED
    BY <2>2, <2>6
<1>4. Listed(n)
  BY <1>3
<1> QED
  BY <1>4 DEF Listed

(* So Ascending, which is chosen to be such a listing, is one. *)
LEMMA AscendingRises ==
  ASSUME NEW n \in Nat, NEW S \in SUBSET (1..n)
  PROVE  /\ Cardinality(S) \in Nat /\ Cardinality(S) <= n
         /\ Ascending(S) \in [1..Cardinality(S) -> S]
         /\ \A i, j \in 1..Cardinality(S) : i < j => Ascending(S)[i] < Ascending(S)[j]
         /\ \A x \in S : \E i \in 1..Cardinality(S) : Ascending(S)[i] = x
<1>1. IsFiniteSet(S) /\ Cardinality(S) <= n /\ Cardinality(S) \in Nat
  <2>1. IsFiniteSet(1..n) /\ Cardinality(1..n) = n
    BY FS_Interval
  <2> QED
    BY <2>1, FS_Subset, FS_CardinalityType
<1>2. PICK c \in Nat : c = Cardinality(S)
  BY <1>1
<1>3. \E s \in [1..c -> S] : \A i, j \in 1..c : i < j => s[i] < s[j]
  BY <1>2, RisingExists DEF Rises
<1>4. PICK a : a = Ascending(S)
  OBVIOUS
<1>5. a \in [1..c -> S] /\ \A i, j \in 1..c : i < j => a[i] < a[j]
  <2>1. a = CHOOSE s \in [1..c -> S] : \A i, j \in 1..c : i < j => s[i] < s[j]
    BY <1>2, <1>4 DEF Ascending
  <2> QED
    BY <1>3, <2>1
<1>6. \A i, j \in 1..c : a[i] = a[j] => i = j
  <2> TAKE i, j \in 1..c
  <2>2. a[i] \in S /\ a[j] \in S
    BY <1>5
  <2>3. \A x \in S : x \in Int
    OBVIOUS
  <2>1. a[i] \in Int /\ a[j] \in Int
    BY <2>2, <2>3
  <2> QED
    BY <1>5, <2>1
<1>7. \A x \in S : \E i \in 1..c : a[i] = x
  BY <1>1, <1>2, <1>5, <1>6, ListsAll
<1> QED
  BY <1>1, <1>2, <1>4, <1>5, <1>7

(* The largest of some places. *)
LEMMA MaxIs ==
  ASSUME NEW n \in Nat, NEW S \in SUBSET (1..n), S # {}
  PROVE  Max(S) \in S /\ \A y \in S : Max(S) >= y
<1>1. PICK c \in Nat : c = Cardinality(S)
  <2>1. Cardinality(S) \in Nat
    BY AscendingRises
  <2> QED
    BY <2>1
<1>2. PICK s : s = Ascending(S)
  OBVIOUS
<1>3. /\ Ascending(S) \in [1..Cardinality(S) -> S]
      /\ \A i, j \in 1..Cardinality(S) : i < j => Ascending(S)[i] < Ascending(S)[j]
      /\ \A x \in S : \E i \in 1..Cardinality(S) : Ascending(S)[i] = x
  BY AscendingRises
<1>4. /\ s \in [1..c -> S]
      /\ \A i, j \in 1..c : i < j => s[i] < s[j]
      /\ \A x \in S : \E i \in 1..c : s[i] = x
  BY <1>1, <1>2, <1>3
<1>5. ASSUME NEW x \in S PROVE x \in Int
  <2>1. x \in 1..n
    OBVIOUS
  <2> QED
    BY <2>1
<1>6. c \in 1..c
  <2>1. PICK x \in S : TRUE
    OBVIOUS
  <2>2. \E i \in 1..c : s[i] = x
    BY <1>4
  <2> QED
    BY <2>2
<1>7. s[c] \in S
  BY <1>4, <1>6
<1>8. ASSUME NEW y \in S PROVE s[c] >= y
  <2>1. PICK i \in 1..c : s[i] = y
    BY <1>4
  <2>2. CASE i = c
    BY <1>5, <2>1, <2>2
  <2>3. CASE i # c
    <3>1. i < c
      BY <1>6, <2>3
    <3>2. s[i] < s[c]
      BY <1>4, <1>6, <3>1
    <3>3. s[i] \in Int /\ s[c] \in Int
      BY <1>5, <1>7, <2>1
    <3> QED
      BY <2>1, <3>2, <3>3
  <2> QED
    BY <2>2, <2>3
<1> QED
  BY <1>7, <1>8 DEF Max
----------------------------------------------------------------------------
(* The sanitizer.                                                           *)
LEMMA CharactersAtIs ==
  ASSUME NEW t \in Seq(Char), NEW P \in SUBSET (1..Len(t))
  PROVE  \E c \in Nat : \E a \in [1..c -> P] :
            /\ c <= Len(t)
            /\ \A i, j \in 1..c : i < j => a[i] < a[j]
            /\ \A x \in P : \E i \in 1..c : a[i] = x
            /\ CharactersAt(t, P) = [k \in 1..c |-> t[a[k]]]
<1>1. Len(t) \in Nat
  OBVIOUS
<1>2. PICK c \in Nat : c = Cardinality(P) /\ c <= Len(t)
  BY <1>1, AscendingRises
<1>3. PICK a \in [1..c -> P] :
         /\ a = Ascending(P)
         /\ \A i, j \in 1..c : i < j => a[i] < a[j]
         /\ \A x \in P : \E i \in 1..c : a[i] = x
  BY <1>1, <1>2, AscendingRises
<1>4. CharactersAt(t, P) = [k \in 1..c |-> t[a[k]]]
  BY <1>2, <1>3 DEF CharactersAt
<1> QED
  BY <1>2, <1>3, <1>4

(* Trimmed, and no two blanks in a row. *)
Trimmed(u) ==
    /\ u[1] = "x" /\ u[Len(u)] = "x"
    /\ \A i \in 1..Len(u) : u[i] = "x" \/ (u[i] = "w" /\ u[i - 1] = "x")

(* What sanitizing makes of a text: no longer than it was, trimmed, not    *)
(* empty if anything was visible, and visible throughout if all of it was. *)
LEMMA SanitizeIs ==
  ASSUME NEW t \in Seq(Char)
  PROVE  /\ Sanitize(t) \in Seq(Char) /\ Len(Sanitize(t)) <= Len(t)
         /\ Sanitize(t) # <<>> => Trimmed(Sanitize(t))
         /\ Visible(t) # {} => Sanitize(t) # <<>>
         /\ Visible(t) = DOMAIN t => Visible(Sanitize(t)) = DOMAIN Sanitize(t)
<1> DEFINE P == {i \in DOMAIN t :
                    t[i] = "x" \/ (Separates(t, i) /\ \E j \in Visible(t) : j > i)}
<1>1. Len(t) \in Nat /\ DOMAIN t = 1..Len(t) /\ \A i \in 1..Len(t) : t[i] \in Char
  OBVIOUS
<1>2. P \in SUBSET (1..Len(t))
  BY <1>1
<1>3. \A i \in P : i \in 1..Len(t)
  BY <1>2
<1>4. \A i \in Visible(t) : i \in P /\ t[i] = "x"
  BY DEF Visible
<1>5. \A i \in P : t[i] # "x" =>
        /\ t[i] = "w" /\ \E j \in P : j > i
        /\ \E h \in P : h < i /\ t[h] = "x" /\ \A g \in (h + 1)..(i - 1) : t[g] = "c"
  <2> SUFFICES ASSUME NEW i \in P, t[i] # "x"
               PROVE  /\ t[i] = "w" /\ \E j \in P : j > i
                      /\ \E h \in P : h < i /\ t[h] = "x" /\ \A g \in (h + 1)..(i - 1) : t[g] = "c"
    OBVIOUS
  <2>1. Separates(t, i) /\ \E j \in Visible(t) : j > i
    OBVIOUS
  <2>2. PICK h \in 1..i-1 : t[h] = "x" /\ \A g \in h+1..i-1 : t[g] = "c"
    BY <2>1 DEF Separates
  <2>3. h \in 1..Len(t) /\ h < i
    BY <1>1, <1>3, <2>2
  <2>4. h \in P
    BY <1>1, <2>2, <2>3
  <2>5. t[i] = "w"
    BY <2>1 DEF Separates
  <2> QED
    BY <1>4, <2>1, <2>2, <2>3, <2>4, <2>5
<1>6. \A i \in P : t[i] # "c"
  BY <1>5
<1>7. Sanitize(t) = CharactersAt(t, P)
  BY DEF Sanitize
<1> HIDE DEF P
<1>16. PICK c \in Nat : \E a \in [1..c -> P] :
         /\ c <= Len(t)
         /\ \A i, j \in 1..c : i < j => a[i] < a[j]
         /\ \A x \in P : \E i \in 1..c : a[i] = x
         /\ CharactersAt(t, P) = [k \in 1..c |-> t[a[k]]]
  BY <1>2, CharactersAtIs
<1>8. PICK a \in [1..c -> P] :
         /\ c <= Len(t)
         /\ \A i, j \in 1..c : i < j => a[i] < a[j]
         /\ \A x \in P : \E i \in 1..c : a[i] = x
         /\ CharactersAt(t, P) = [k \in 1..c |-> t[a[k]]]
  BY <1>16
<1>9. PICK u : u = Sanitize(t) /\ u = [k \in 1..c |-> t[a[k]]]
  BY <1>7, <1>8
<1>10. \A k \in 1..c : a[k] \in P /\ a[k] \in Int /\ u[k] = t[a[k]] /\ u[k] \in Char
  BY <1>1, <1>3, <1>8, <1>9
<1>11. u \in Seq(Char) /\ Len(u) = c /\ DOMAIN u = 1..c
  BY <1>8, <1>9, <1>10
<1>12. ASSUME NEW k \in 1..c, u[k] # "x"
       PROVE  u[k] = "w" /\ k > 1 /\ u[k - 1] = "x" /\ k < c
  <2>1. a[k] \in P /\ t[a[k]] # "x" /\ u[k] = "w"
    BY <1>5, <1>10, <1>12
  <2>2. PICK h \in P : h < a[k] /\ t[h] = "x" /\ \A g \in (h + 1)..(a[k] - 1) : t[g] = "c"
    BY <1>5, <2>1
  <2>3. PICK m \in 1..c : a[m] = h
    BY <1>8
  <2>4. m < k
    <3> SUFFICES ASSUME m >= k PROVE FALSE
      OBVIOUS
    <3>1. m = k \/ a[k] < a[m]
      BY <1>8
    <3> QED
      BY <1>10, <2>2, <2>3, <3>1
  <2>5. m = k - 1
    <3> SUFFICES ASSUME m # k - 1 PROVE FALSE
      OBVIOUS
    <3>1. k - 1 \in 1..c /\ m < k - 1 /\ k - 1 < k
      BY <2>4
    <3>2. a[m] < a[k - 1] /\ a[k - 1] < a[k]
      BY <1>8, <3>1
    <3>3. a[k - 1] \in P /\ a[k - 1] \in Int /\ a[k] \in Int /\ a[m] \in Int
      BY <1>10, <3>1
    <3>4. a[k - 1] \in (h + 1)..(a[k] - 1)
      BY <2>3, <3>2, <3>3
    <3> QED
      BY <1>6, <2>2, <3>3, <3>4
  <2>6. PICK j \in P : j > a[k]
    BY <1>5, <2>1
  <2>7. PICK l \in 1..c : a[l] = j
    BY <1>8
  <2>8. k < c
    <3> SUFFICES ASSUME k = c PROVE FALSE
      OBVIOUS
    <3>1. l = k \/ a[l] < a[k]
      BY <1>8
    <3> QED
      BY <1>10, <2>6, <2>7, <3>1
  <2>9. u[k - 1] = "x"
    BY <1>10, <2>2, <2>3, <2>5
  <2> QED
    BY <2>1, <2>5, <2>8, <2>9
<1>13. u # <<>> => Trimmed(u)
  <2> HAVE u # <<>>
  <2>1. c # 0
    BY <1>11
  <2>2. 1 \in 1..c /\ c \in 1..c
    BY <2>1
  <2> QED
    BY <1>11, <1>12, <2>2 DEF Trimmed
<1>14. Visible(t) # {} => u # <<>>
  BY <1>4, <1>8, <1>11
<1>15. Visible(t) = DOMAIN t => Visible(u) = DOMAIN u
  <2> HAVE Visible(t) = DOMAIN t
  <2>1. \A k \in 1..c : u[k] = "x"
    BY <1>1, <1>3, <1>4, <1>10
  <2> QED
    BY <1>11, <2>1 DEF Visible
<1> QED
  BY <1>8, <1>9, <1>11, <1>13, <1>14, <1>15
----------------------------------------------------------------------------
(* The validator.                                                           *)
Payload(p) ==
    /\ Len(p) \in Nat /\ DOMAIN p = 1..Len(p)
    /\ \A i \in 1..Len(p) : Value(p[i].value)

(* The verdict over one value, by the field's type. *)
Judge(d, v) == IF d.fieldType = "string" THEN EvaluateString(d, v) ELSE EvaluateNumber(d, v)

(* A value that is accepted is stored sanitized and within its limits. *)
LEMMA JudgedClean ==
  ASSUME NEW d, Descriptor(d), NEW v, Value(v), Judge(d, v).kind = "valid"
  PROVE  Clean(d, Judge(d, v).stored)
<1>1. CASE d.fieldType = "string"
  <2>1. Judge(d, v) = EvaluateString(d, v) /\ d.maxLength \in Nat
    BY <1>1 DEF Judge, Descriptor
  <2>2. v.type = "text"
    <3> SUFFICES ASSUME v.type # "text" PROVE FALSE
      OBVIOUS
    <3> QED
      BY <2>1 DEF EvaluateString, Invalid
  <2>3. v = [type |-> "text", text |-> v.text] /\ v.text \in Seq(Char)
    BY <2>2 DEF Value, Text
  <2>4. PICK u : u = Sanitize(v.text)
    OBVIOUS
  <2>5. u \in Seq(Char) /\ (u # <<>> => Trimmed(u))
    BY <2>3, <2>4, SanitizeIs
  <2>6. EvaluateString(d, v) =
          IF u = <<>> THEN Missing
          ELSE IF Len(u) > d.maxLength \/ ~Matches(d, u) THEN Invalid
          ELSE Valid([v EXCEPT !.text = u])
    BY <2>2, <2>4 DEF EvaluateString
  <2>7. u # <<>> /\ ~(Len(u) > d.maxLength) /\ Matches(d, u)
    BY <2>1, <2>6 DEF Missing, Invalid
  <2>8. Judge(d, v).stored = [v EXCEPT !.text = u]
    BY <2>1, <2>6, <2>7 DEF Valid
  <2>9. PICK w : w = Judge(d, v).stored
    OBVIOUS
  <2>10. w.type = "text" /\ w.text = u
    BY <2>3, <2>8, <2>9
  <2>11. Len(u) \in 1..d.maxLength /\ Last(u) = u[Len(u)] /\ DOMAIN u = 1..Len(u)
    BY <2>1, <2>5, <2>7 DEF Last
  <2> QED
    BY <1>1, <2>5, <2>7, <2>9, <2>10, <2>11 DEF Clean, Trimmed
<1>2. CASE d.fieldType # "string"
  <2>1. d.fieldType = "number" /\ d.min \in Int /\ d.max \in Int
    BY <1>2 DEF Descriptor
  <2>2. Judge(d, v) = EvaluateNumber(d, v)
    BY <1>2 DEF Judge
  <2>3. v.type = "number" /\ d.min <= v.number /\ v.number <= d.max /\ Judge(d, v).stored = v
    BY <2>2 DEF EvaluateNumber, Valid, Invalid
  <2>4. v.number \in Int
    BY <2>3 DEF Value
  <2> QED
    BY <2>1, <2>3, <2>4 DEF Clean
<1> QED
  BY <1>1, <1>2

(* The entry that counts, of those for a key. *)
LEMMA EvaluateIs ==
  ASSUME NEW d, NEW p, Payload(p), Submitted(p, d.key) # {}
  PROVE  \E i \in 1..Len(p) : p[i].key = d.key /\ Evaluate(d, p) = Judge(d, p[i].value)
<1>1. Submitted(p, d.key) \in SUBSET (1..Len(p)) /\ Len(p) \in Nat
  BY DEF Submitted, Payload
<1>2. PICK i : i = Max(Submitted(p, d.key))
  OBVIOUS
<1>3. i \in Submitted(p, d.key)
  BY <1>1, <1>2, MaxIs
<1>4. i \in 1..Len(p) /\ p[i].key = d.key
  BY <1>1, <1>3 DEF Submitted
<1>5. Evaluate(d, p) = Judge(d, p[i].value)
  BY <1>2 DEF Evaluate, Judge
<1> QED
  BY <1>4, <1>5

(* And so is one that a payload submits for the field. *)
LEMMA EvaluatedClean ==
  ASSUME NEW d, Descriptor(d), NEW p, Payload(p), Evaluate(d, p).kind = "valid"
  PROVE  Clean(d, Evaluate(d, p).stored)
<1>1. Submitted(p, d.key) # {}
  BY DEF Evaluate, Missing
<1>2. PICK i \in 1..Len(p) : Evaluate(d, p) = Judge(d, p[i].value)
  BY <1>1, EvaluateIs
<1>3. Value(p[i].value)
  BY DEF Payload
<1> QED
  BY <1>2, <1>3, JudgedClean

(* The descriptors of the next status, and an acceptable value of each. *)
LEMMA NextFieldsAre ==
  ASSUME NEW s \in 1..(FinalStatus - 1)
  PROVE  /\ NextFields(s) = Fields[s + 1] /\ s + 1 \in 2..FinalStatus
         /\ IsFiniteSet(NextFields(s))
         /\ \A d \in NextFields(s) : Descriptor(d)
         /\ \A d, e \in NextFields(s) : d.key = e.key => d = e
<1>1. FinalStatus \in Nat
  BY FormAssumption
<1>2. NextFields(s) = Fields[s + 1] /\ s + 1 \in 2..FinalStatus
  BY <1>1 DEF NextFields
<1>3. PICK u \in 2..FinalStatus : u = s + 1
  BY <1>2
<1>4. /\ IsFiniteSet(Fields[u])
      /\ \A d \in Fields[u] : Descriptor(d)
      /\ \A d \in Fields[u] : \A e \in Fields[u] : d.key = e.key => d = e
  BY FormAssumption
<1> QED
  BY <1>2, <1>3, <1>4

(* The value a corrected entry carries is accepted as it stands. *)
LEMMA GoodIs ==
  ASSUME NEW s \in 2..FinalStatus, NEW d \in Fields[s]
  PROVE  /\ Value(Good(d)) /\ Judge(d, Good(d)) = Valid(Good(d))
         /\ Clean(d, Good(d))
<1>1. Descriptor(d) /\ Value(Good(d)) /\ Evaluate(d, <<Entry(d)>>) = Valid(Good(d))
  BY FormAssumption
<1>2. PICK p : p = <<Entry(d)>>
  OBVIOUS
<1>3. Len(p) = 1 /\ DOMAIN p = 1..1 /\ p[1] = Entry(d)
  BY <1>2
<1>4. p[1].key = d.key /\ p[1].value = Good(d)
  BY <1>3 DEF Entry
<1>5. Payload(p) /\ Submitted(p, d.key) # {}
  BY <1>1, <1>3, <1>4 DEF Payload, Submitted
<1>6. PICK i \in 1..Len(p) : Evaluate(d, p) = Judge(d, p[i].value)
  BY <1>5, EvaluateIs
<1>7. Judge(d, Good(d)) = Valid(Good(d))
  BY <1>1, <1>2, <1>3, <1>4, <1>6
<1>8. Judge(d, Good(d)).kind = "valid" /\ Judge(d, Good(d)).stored = Good(d)
  BY <1>7 DEF Valid
<1>9. Clean(d, Judge(d, Good(d)).stored)
  BY <1>1, <1>8, JudgedClean
<1> QED
  BY <1>1, <1>7, <1>8, <1>9
----------------------------------------------------------------------------
(* A script's correction is accepted, unless keys trim to the same one.     *)
KeptAt(p, named, D, k) == RawKey(p[k]) \notin named \/ p[k].key \in Keys(Known(named, D))

(* What the correction makes of entry k. *)
PutFor(p, named, D, k) == Correction(p[k], named, Known(named, D))

(* No entry of the payload has the field's exact key. *)
AbsentIn(p, d) == \A k \in 1..Len(p) : RawKey(p[k]) # <<d.key, FALSE>>

(* A correction keeps the entries that are no unknown key, each one as it  *)
(* was or with a good value, and adds the named fields that were absent.   *)
LEMMA CorrectedIs ==
  ASSUME NEW p, Payload(p), NEW named, NEW D, IsFiniteSet(D),
         NEW q, q = Corrected(p, named, D)
  PROVE  /\ Len(q) \in Nat /\ DOMAIN q = 1..Len(q)
         /\ \A i \in 1..Len(q) :
                \/ \E k \in 1..Len(p) : KeptAt(p, named, D, k) /\ q[i] = PutFor(p, named, D, k)
                \/ \E d \in Known(named, D) : q[i] = Entry(d)
         /\ \A k \in 1..Len(p) : KeptAt(p, named, D, k) =>
                \E i \in 1..Len(q) : q[i] = PutFor(p, named, D, k)
         /\ \A d \in Known(named, D) : AbsentIn(p, d) =>
                \E i \in 1..Len(q) : q[i] = Entry(d)
<1> DEFINE known == Known(named, D)
           Kept(k) == KeptAt(p, named, D, k)
           PutAt(k) == PutFor(p, named, D, k)
           Absent(d) == AbsentIn(p, d)
           K == {k \in 1..Len(p) : Kept(k)}
           A == {d \in known : Absent(d)}
<1>1. Len(p) \in Nat /\ DOMAIN p = 1..Len(p)
  BY DEF Payload
<1>2. K \in SUBSET (1..Len(p))
  OBVIOUS
<1>3. IsFiniteSet(A)
  <2>1. A \in SUBSET D
    BY DEF Known
  <2> QED
    BY <2>1, FS_Subset
<1>4. q =
        [i \in DOMAIN Ascending(K) |-> PutAt(Ascending(K)[i])]
        \o [i \in DOMAIN SetToSeq(A) |-> Entry(SetToSeq(A)[i])]
  <2>1. K = {i \in DOMAIN p : RawKey(p[i]) \notin named \/ p[i].key \in Keys(known)}
    BY <1>1 DEF KeptAt
  <2>2. A = {d \in known : \A i \in DOMAIN p : RawKey(p[i]) # <<d.key, FALSE>>}
    BY <1>1 DEF AbsentIn
  <2> HIDE DEF K, A
  <2> QED
    BY <2>1, <2>2 DEF Corrected, PutFor
<1> HIDE DEF K, A, PutAt
<1>5. PICK m \in Nat : m = Cardinality(K)
  <2>1. Cardinality(K) \in Nat
    BY <1>1, <1>2, AscendingRises
  <2> QED
    BY <2>1
<1>6. PICK a : a = Ascending(K)
  OBVIOUS
<1>7. a \in [1..m -> K] /\ \A k \in K : \E i \in 1..m : a[i] = k
  <2>1. /\ Ascending(K) \in [1..Cardinality(K) -> K]
        /\ \A k \in K : \E i \in 1..Cardinality(K) : Ascending(K)[i] = k
    BY <1>1, <1>2, AscendingRises
  <2> QED
    BY <1>5, <1>6, <2>1
<1>8. PICK n \in Nat : n = Cardinality(A)
  <2>1. Cardinality(A) \in Nat
    BY <1>3, SetToSeqLists
  <2> QED
    BY <2>1
<1>9. PICK b : b = SetToSeq(A)
  OBVIOUS
<1>10. b \in [1..n -> A] /\ \A d \in A : \E i \in 1..n : b[i] = d
  <2>1. /\ SetToSeq(A) \in [1..Cardinality(A) -> A]
        /\ \A d \in A : \E i \in 1..Cardinality(A) : SetToSeq(A)[i] = d
    BY <1>3, SetToSeqLists
  <2> QED
    BY <1>8, <1>9, <2>1
<1>11. PICK f : f = [i \in 1..m |-> PutAt(a[i])]
  OBVIOUS
<1>12. PICK g : g = [i \in 1..n |-> Entry(b[i])]
  OBVIOUS
<1>13. q = f \o g
  <2>1. DOMAIN a = 1..m /\ DOMAIN b = 1..n
    BY <1>7, <1>10
  <2> QED
    BY <1>4, <1>6, <1>9, <1>11, <1>12, <2>1
<1>14. PICK T : T = {PutAt(k) : k \in K} \cup {Entry(d) : d \in A}
  OBVIOUS
<1>15. f \in [1..m -> T] /\ g \in [1..n -> T]
  BY <1>7, <1>10, <1>11, <1>12, <1>14
<1>16. f \in Seq(T) /\ g \in Seq(T) /\ Len(f) = m /\ Len(g) = n
  BY <1>5, <1>8, <1>15
<1>17. /\ q \in Seq(T) /\ Len(q) = m + n
       /\ \A i \in 1..m : q[i] = f[i]
       /\ \A i \in 1..n : q[m + i] = g[i]
  <2>1. /\ f \o g \in Seq(T) /\ Len(f \o g) = Len(f) + Len(g)
        /\ \A i \in 1 .. Len(f) + Len(g) : (f \o g)[i] = IF i <= Len(f) THEN f[i] ELSE g[i - Len(f)]
    BY <1>16, ConcatProperties
  <2>2. \A i \in 1..m : q[i] = f[i]
    BY <1>13, <1>16, <2>1
  <2>3. ASSUME NEW i \in 1..n PROVE q[m + i] = g[i]
    <3>1. m + i \in 1 .. m + n /\ ~(m + i <= m) /\ (m + i) - m = i
      OBVIOUS
    <3> QED
      BY <1>13, <1>16, <2>1, <3>1
  <2> QED
    BY <1>13, <1>16, <2>1, <2>2, <2>3
<1>18. Len(q) \in Nat /\ DOMAIN q = 1..Len(q)
  BY <1>17
<1>19. ASSUME NEW i \in 1..Len(q)
       PROVE  (\E k \in K : q[i] = PutAt(k)) \/ (\E d \in A : q[i] = Entry(d))
  <2>1. CASE i \in 1..m
    BY <1>7, <1>11, <1>17, <2>1
  <2>2. CASE i \notin 1..m
    <3>1. i - m \in 1..n /\ m + (i - m) = i
      BY <1>17, <2>2
    <3>2. q[i] = g[i - m]
      BY <1>17, <3>1
    <3> QED
      BY <1>10, <1>12, <3>1, <3>2
  <2> QED
    BY <2>1, <2>2
<1>20. ASSUME NEW k \in K PROVE \E i \in 1..Len(q) : q[i] = PutAt(k)
  <2>1. PICK i \in 1..m : a[i] = k
    BY <1>7
  <2>2. i \in 1..Len(q) /\ q[i] = PutAt(k)
    BY <1>11, <1>17, <2>1
  <2> QED
    BY <2>2
<1>21. ASSUME NEW d \in A PROVE \E i \in 1..Len(q) : q[i] = Entry(d)
  <2>1. PICK i \in 1..n : b[i] = d
    BY <1>10
  <2>2. m + i \in 1..Len(q) /\ q[m + i] = Entry(d)
    BY <1>12, <1>17, <2>1
  <2> QED
    BY <2>2
<1>22. /\ \A k : k \in K <=> (k \in 1..Len(p) /\ Kept(k))
       /\ \A d : d \in A <=> (d \in known /\ Absent(d))
  BY DEF K, A
<1> HIDE DEF known, Kept, Absent
<1>23. /\ \A i \in 1..Len(q) :
              \/ \E k \in 1..Len(p) : Kept(k) /\ q[i] = PutAt(k)
              \/ \E d \in known : q[i] = Entry(d)
       /\ \A k \in 1..Len(p) : Kept(k) => \E i \in 1..Len(q) : q[i] = PutAt(k)
       /\ \A d \in known : Absent(d) => \E i \in 1..Len(q) : q[i] = Entry(d)
  BY <1>19, <1>20, <1>21, <1>22
<1> QED
  BY <1>13, <1>18, <1>23 DEF PutAt, known, Kept, Absent

(* What a report names: fields by their key, unknown keys as they came. *)
LEMMA ReportNames ==
  ASSUME NEW p, NEW D, NEW k \in 1..Len(p), DOMAIN p = 1..Len(p),
         NEW d \in D, \A x, y \in D : x.key = y.key => x = y,
         p[k].key = d.key, RawKey(p[k]) \in Report(p, D)
  PROVE  Evaluate(d, p).kind # "valid" /\ RawKey(p[k]) = <<d.key, FALSE>>
<1>1. RawKey(p[k]) = <<d.key, p[k].padded>>
  BY DEF RawKey
<1>2. CASE \E i \in UnknownKeys(p, D) : RawKey(p[k]) = RawKey(p[i])
  <2>1. PICK i \in UnknownKeys(p, D) : RawKey(p[k]) = RawKey(p[i])
    BY <1>2
  <2>2. p[i].key # d.key
    BY <2>1 DEF UnknownKeys
  <2> QED
    BY <1>1, <2>1, <2>2 DEF RawKey
<1>3. CASE \E e \in D : Evaluate(e, p).kind # "valid" /\ RawKey(p[k]) = <<e.key, FALSE>>
  <2>1. PICK e \in D : Evaluate(e, p).kind # "valid" /\ RawKey(p[k]) = <<e.key, FALSE>>
    BY <1>3
  <2>2. e.key = d.key
    BY <1>1, <2>1
  <2> QED
    BY <2>1, <2>2
<1> QED
  BY <1>2, <1>3 DEF Report

(* The heart of OneRoundTrip: what is corrected by a report, key for key,  *)
(* is accepted, unless two raw keys trim to one.                           *)
LEMMA CorrectedAccepted ==
  ASSUME NEW s \in 1..(FinalStatus - 1), NEW p, Payload(p), NEW q,
         q = Corrected(p, Report(p, NextFields(s)), NextFields(s))
  PROVE  /\ Payload(q)
         /\ NoTwins(q) => Accepts(q, NextFields(s))
<1> DEFINE D == NextFields(s)
           named == Report(p, D)
           known == Known(named, D)
           Kept(k) == KeptAt(p, named, D, k)
           PutAt(k) == PutFor(p, named, D, k)
           Absent(d) == AbsentIn(p, d)
<1>1. /\ IsFiniteSet(D)
      /\ \A x, y \in D : x.key = y.key => x = y
      /\ \A d \in D : /\ Value(Good(d)) /\ Judge(d, Good(d)) = Valid(Good(d))
  <2>1. PICK u \in 2..FinalStatus : D = Fields[u]
    BY NextFieldsAre
  <2>2. \A d \in Fields[u] : Value(Good(d)) /\ Judge(d, Good(d)) = Valid(Good(d))
    BY GoodIs
  <2>3. IsFiniteSet(D) /\ \A x, y \in D : x.key = y.key => x = y
    BY NextFieldsAre
  <2> QED
    BY <2>1, <2>2, <2>3
<1>16. q = Corrected(p, named, D)
  OBVIOUS
<1>2. /\ Len(q) \in Nat /\ DOMAIN q = 1..Len(q)
      /\ \A i \in 1..Len(q) :
             \/ \E k \in 1..Len(p) : Kept(k) /\ q[i] = PutAt(k)
             \/ \E d \in known : q[i] = Entry(d)
      /\ \A k \in 1..Len(p) : Kept(k) => \E i \in 1..Len(q) : q[i] = PutAt(k)
      /\ \A d \in known : Absent(d) => \E i \in 1..Len(q) : q[i] = Entry(d)
  BY SMTT(60), <1>1, <1>16, CorrectedIs
<1>3. DOMAIN p = 1..Len(p) /\ Len(p) \in Nat /\ \A k \in 1..Len(p) : Value(p[k].value)
  BY DEF Payload
<1>4. \A d \in D : d \in known <=> <<d.key, FALSE>> \in named
  BY DEF Known
<1>5. \A d \in D : Evaluate(d, p).kind # "valid" => d \in known
  BY DEF Report, Known
<1>6. \A k \in 1..Len(p) : RawKey(p[k]) \notin named => p[k].key \in Keys(D)
  BY <1>3 DEF Report, UnknownKeys, Keys
<1>7. \A k \in 1..Len(p) : \A d \in D :
        (p[k].key = d.key /\ RawKey(p[k]) \in named) =>
            Evaluate(d, p).kind # "valid" /\ RawKey(p[k]) = <<d.key, FALSE>>
  BY <1>1, <1>3, ReportNames
<1>8. \A d : Entry(d).key = d.key /\ Entry(d).value = Good(d)
  BY DEF Entry
<1>9. known \subseteq D
  BY DEF Known
<1> HIDE DEF named
<1>10. ASSUME NEW k \in 1..Len(p), Kept(k)
       PROVE  \/ RawKey(p[k]) \notin named /\ PutAt(k) = p[k]
              \/ \E d \in known : d.key = p[k].key /\ PutAt(k) = Entry(d) /\ RawKey(p[k]) \in named
  <2>1. CASE RawKey(p[k]) \notin named
    BY <2>1 DEF PutFor, Correction
  <2>2. CASE RawKey(p[k]) \in named
    <3>1. \E d \in known : d.key = p[k].key
      BY <1>10, <2>2 DEF Keys, KeptAt
    <3>2. PICK e : e = CHOOSE d \in known : d.key = p[k].key
      OBVIOUS
    <3>3. e \in known /\ e.key = p[k].key
      BY <3>1, <3>2
    <3>4. PutAt(k) = Entry(e)
      BY <2>2, <3>2 DEF PutFor, Correction
    <3> QED
      BY <2>2, <3>3, <3>4
  <2> QED
    BY <2>1, <2>2
<1> HIDE DEF PutAt
<1>11. \A i \in 1..Len(q) : q[i].key \in Keys(D) /\ Value(q[i].value)
  <2> TAKE i \in 1..Len(q)
  <2>1. CASE \E d \in known : q[i] = Entry(d)
    BY <1>1, <1>8, <1>9, <2>1 DEF Keys
  <2>2. CASE \E k \in 1..Len(p) : Kept(k) /\ q[i] = PutAt(k)
    <3>1. PICK k \in 1..Len(p) : Kept(k) /\ q[i] = PutAt(k)
      BY <2>2
    <3>2. CASE RawKey(p[k]) \notin named /\ PutAt(k) = p[k]
      BY <1>3, <1>6, <3>1, <3>2
    <3>3. CASE \E d \in known : d.key = p[k].key /\ PutAt(k) = Entry(d)
      BY <1>1, <1>8, <1>9, <3>1, <3>3 DEF Keys
    <3> QED
      BY <1>10, <3>1, <3>2, <3>3
  <2> QED
    BY <1>2, <2>1, <2>2
<1>12. Payload(q)
  BY <1>2, <1>11 DEF Payload
<1>13. ASSUME NoTwins(q), NEW d \in D
       PROVE  Evaluate(d, q).kind = "valid"
  <2>1. ASSUME NEW i \in 1..Len(q), q[i].key = d.key
        PROVE  Evaluate(d, q) = Judge(d, q[i].value)
    <3>1. Submitted(q, d.key) # {}
      BY <1>2, <2>1 DEF Submitted
    <3>2. PICK j \in 1..Len(q) : q[j].key = d.key /\ Evaluate(d, q) = Judge(d, q[j].value)
      BY <1>12, <3>1, EvaluateIs
    <3>3. i = j
      BY <1>2, <1>13, <2>1, <3>2 DEF NoTwins
    <3> QED
      BY <3>2, <3>3
  <2>2. ASSUME NEW i \in 1..Len(q), q[i] = Entry(d)
        PROVE  Evaluate(d, q).kind = "valid"
    <3>1. Evaluate(d, q) = Judge(d, Good(d))
      BY <1>8, <2>1, <2>2
    <3> QED
      BY <1>1, <3>1 DEF Valid
  <2>3. CASE Evaluate(d, p).kind # "valid"
    <3>1. d \in known
      BY <1>5, <2>3
    <3>2. CASE Absent(d)
      BY <1>2, <2>2, <3>1, <3>2
    <3>3. CASE ~Absent(d)
      <4>1. PICK k \in 1..Len(p) : RawKey(p[k]) = <<d.key, FALSE>>
        BY <3>3 DEF AbsentIn
      <4>2. RawKey(p[k]) \in named /\ p[k].key = d.key
        BY <1>4, <3>1, <4>1 DEF RawKey
      <4>3. Kept(k)
        BY <3>1, <4>2 DEF Keys, KeptAt
      <4>4. PICK e \in known : e.key = p[k].key /\ PutAt(k) = Entry(e)
        BY <1>10, <4>2, <4>3
      <4>5. e = d
        BY <1>1, <1>9, <4>2, <4>4
      <4>6. PICK i \in 1..Len(q) : q[i] = PutAt(k)
        BY <1>2, <4>3
      <4> QED
        BY <2>2, <4>4, <4>5, <4>6
    <3> QED
      BY <3>2, <3>3
  <2>4. CASE Evaluate(d, p).kind = "valid"
    <3>1. Submitted(p, d.key) # {}
      BY <2>4 DEF Evaluate, Missing
    <3>2. PICK k \in 1..Len(p) : p[k].key = d.key /\ Evaluate(d, p) = Judge(d, p[k].value)
      BY <3>1, EvaluateIs
    <3>3. RawKey(p[k]) \notin named
      BY <1>7, <2>4, <3>2
    <3>4. Kept(k) /\ PutAt(k) = p[k]
      BY <1>10, <3>3 DEF KeptAt
    <3>5. PICK i \in 1..Len(q) : q[i] = PutAt(k)
      BY <1>2, <3>4
    <3>6. q[i] = p[k]
      BY <3>4, <3>5
    <3>7. Evaluate(d, q) = Judge(d, p[k].value)
      BY <2>1, <3>2, <3>6
    <3> QED
      BY <2>4, <3>2, <3>7
  <2> QED
    BY <2>3, <2>4
<1>14. UnknownKeys(q, D) = {}
  BY <1>2, <1>11 DEF UnknownKeys, Keys
<1>15. NoTwins(q) => Accepts(q, D)
  BY <1>13, <1>14 DEF Accepts, Report
<1> QED
  BY <1>12, <1>15
----------------------------------------------------------------------------
(* What the form submits.                                                   *)

(* What was typed is typed for the status that is seen. *)
(* What is typed so far: texts for fields of the next status, of a shape   *)
(* the inputs let through.                                                 *)
FormOk(status, vals) ==
    /\ IsFiniteSet(DOMAIN vals)
    /\ \A k \in DOMAIN vals : \E d \in NextFields(status) :
          d.key = k /\ vals[k] \in Seq(Char) /\ Typable(d, vals[k])

(* The payload of the form: one entry for each field typed, its key as it  *)
(* is.                                                                     *)
LEMMA FormedIs ==
  ASSUME NEW s, NEW vals, FormOk(s, vals), NEW q, q = Formed(vals)
  PROVE  /\ Payload(q) /\ NoTwins(q)
         /\ \A i \in 1..Len(q) : /\ q[i].key \in DOMAIN vals
                                 /\ q[i].value = Text(vals[q[i].key])
         /\ \A k \in DOMAIN vals : \E i \in 1..Len(q) : q[i].key = k
<1> DEFINE K == DOMAIN vals
<1>1. IsFiniteSet(K) /\ \A k \in K : vals[k] \in Seq(Char)
  BY DEF FormOk
<1>2. PICK n \in Nat : n = Cardinality(K)
  <2>1. Cardinality(K) \in Nat
    BY <1>1, SetToSeqLists
  <2> QED
    BY <2>1
<1>3. PICK b : b = SetToSeq(K)
  OBVIOUS
<1>4. /\ b \in [1..n -> K]
      /\ \A i, j \in 1..n : b[i] = b[j] => i = j
      /\ \A k \in K : \E i \in 1..n : b[i] = k
  <2>1. /\ SetToSeq(K) \in [1..Cardinality(K) -> K]
        /\ \A i, j \in 1..Cardinality(K) : SetToSeq(K)[i] = SetToSeq(K)[j] => i = j
        /\ \A k \in K : \E i \in 1..Cardinality(K) : SetToSeq(K)[i] = k
    BY <1>1, SetToSeqLists
  <2> QED
    BY <1>2, <1>3, <2>1
<1>5. q = [i \in 1..n |-> [key |-> b[i], padded |-> FALSE, value |-> Text(vals[b[i]])]]
  BY <1>2, <1>3 DEF Formed
<1> HIDE DEF K
<1>6. DOMAIN q = 1..n /\ \A i \in 1..n : q[i].key = b[i] /\ q[i].value = Text(vals[b[i]])
  BY <1>5
<1>7. Len(q) = n
  BY <1>5
<1>8. \A i \in 1..n : b[i] \in K /\ Value(Text(vals[b[i]]))
  BY <1>1, <1>4 DEF Value, Text
<1>9. Payload(q)
  BY <1>6, <1>7, <1>8 DEF Payload
<1>10. NoTwins(q)
  BY <1>4, <1>6 DEF NoTwins
<1>11. \A k \in K : \E i \in 1..Len(q) : q[i].key = k
  BY <1>4, <1>6, <1>7
<1> QED
  BY <1>6, <1>7, <1>8, <1>9, <1>10, <1>11 DEF K

(* No text is refused in silence, unless its pattern counts characters. *)
Quiet(p, D) ==
    /\ UnknownKeys(p, D) = {}
    /\ \A d \in Silent(p, D) : d.fieldType = "number" \/ d.pattern = "counts"

(* A text without error or control characters is not sanitized away. *)
LEMMA QuietText ==
  ASSUME NEW d, Descriptor(d), d.fieldType = "string", d.pattern # "counts",
         NEW t \in Seq(Char),
         ~Blank(t), ~Contains(t, "c"), ~FormatError(d, t), Typable(d, t)
  PROVE  Judge(d, Text(t)).kind = "valid"
<1>1. Len(t) \in Nat /\ DOMAIN t = 1..Len(t) /\ \A i \in 1..Len(t) : t[i] \in Char
  OBVIOUS
<1>2. d.maxLength \in Nat /\ Len(t) <= d.maxLength /\ Matches(d, t)
  BY DEF Descriptor, Typable, FormatError
<1>3. PICK i \in 1..Len(t) : t[i] # "w"
  BY <1>1 DEF Blank
<1>4. t[i] = "x"
  BY <1>1, <1>3 DEF Contains, Char
<1>5. Visible(t) # {}
  BY <1>1, <1>4 DEF Visible
<1>6. PICK u : u = Sanitize(t)
  OBVIOUS
<1>7. /\ u \in Seq(Char) /\ Len(u) <= Len(t) /\ u # <<>>
      /\ Visible(t) = DOMAIN t => Visible(u) = DOMAIN u
  BY <1>5, <1>6, SanitizeIs
<1>8. Matches(d, u) /\ ~(Len(u) > d.maxLength)
  BY <1>1, <1>2, <1>7 DEF Matches
<1>9. Text(t).type = "text" /\ Text(t).text = t
  BY DEF Text
<1>10. EvaluateString(d, Text(t)) = Valid([Text(t) EXCEPT !.text = u])
  BY <1>6, <1>7, <1>8, <1>9 DEF EvaluateString
<1> QED
  BY <1>10 DEF Judge, Valid

(* What a form sends that its own check lets through is refused for a text *)
(* only if that field shows an error or hides a control character.         *)
LEMMA QuietSubmit ==
  ASSUME NEW s \in 1..(FinalStatus - 1), NEW vals, FormOk(s, vals), NEW q, q = Formed(vals),
         GetMissingRequiredFieldKeys(NextFields(s), vals) = {}
  PROVE  Quiet(q, NextFields(s))
<1> DEFINE D == NextFields(s)
<1>1. /\ \A d \in D : Descriptor(d)
      /\ \A d, e \in D : d.key = e.key => d = e
  BY NextFieldsAre
<1>2. /\ Payload(q) /\ NoTwins(q)
      /\ \A i \in 1..Len(q) : /\ q[i].key \in DOMAIN vals
                              /\ q[i].value = Text(vals[q[i].key])
      /\ \A k \in DOMAIN vals : \E i \in 1..Len(q) : q[i].key = k
  BY SMTT(60), FormedIs
<1>3. Len(q) \in Nat /\ DOMAIN q = 1..Len(q)
  BY <1>2 DEF Payload
<1>4. \A k \in DOMAIN vals : \E d \in D :
        d.key = k /\ vals[k] \in Seq(Char) /\ Typable(d, vals[k])
  BY DEF FormOk
<1>5. \A d \in D : ~Blank(ValueOf(vals, d.key))
  BY DEF GetMissingRequiredFieldKeys
<1>6. Blank(<<>>)
  BY DEF Blank
<1>7. \A d \in D : d.key \in DOMAIN vals /\ ~Blank(vals[d.key])
  BY <1>5, <1>6 DEF ValueOf
<1>8. \A d \in D : Descriptor(d) /\ d.fieldType # "number" => d.fieldType = "string"
  BY DEF Descriptor
<1>9. ASSUME NEW d \in D, d.fieldType = "string", d.pattern # "counts",
             \A i \in Submitted(q, d.key) :
                ~Contains(q[i].value.text, "c") /\ ~FormatError(d, q[i].value.text)
      PROVE  Evaluate(d, q).kind = "valid"
  <2>1. Submitted(q, d.key) # {}
    BY <1>2, <1>3, <1>7 DEF Submitted
  <2>2. PICK i \in 1..Len(q) : q[i].key = d.key /\ Evaluate(d, q) = Judge(d, q[i].value)
    <3>1. Payload(q)
      BY <1>2
    <3> QED
      BY <2>1, <3>1, EvaluateIs
  <2>3. PICK t : t = vals[d.key]
    OBVIOUS
  <2>4. q[i].value = Text(t) /\ q[i].value.text = t
    BY <1>2, <2>2, <2>3 DEF Text
  <2>5. PICK e \in D : e.key = d.key /\ t \in Seq(Char) /\ Typable(e, t)
    BY <1>4, <1>7, <2>3
  <2>6. Typable(d, t)
    BY <1>1, <2>5
  <2>7. ~Contains(t, "c") /\ ~FormatError(d, t) /\ ~Blank(t)
    <3>1. i \in Submitted(q, d.key)
      BY <1>3, <2>2 DEF Submitted
    <3> QED
      BY <1>7, <1>9, <2>3, <2>4, <3>1
  <2>8. Descriptor(d)
    BY <1>1
  <2>9. Judge(d, Text(t)).kind = "valid"
    BY <1>9, <2>5, <2>6, <2>7, <2>8, QuietText
  <2> QED
    BY <2>2, <2>4, <2>9
<1>10. UnknownKeys(q, D) = {}
  BY <1>2, <1>3, <1>4 DEF UnknownKeys
<1>11. ASSUME NEW d \in Silent(q, D) PROVE d.fieldType = "number" \/ d.pattern = "counts"
  <2>1. /\ d \in D /\ Evaluate(d, q).kind # "valid"
        /\ \A i \in Submitted(q, d.key) :
              ~Contains(q[i].value.text, "c") /\ ~FormatError(d, q[i].value.text)
    BY DEF Silent
  <2> QED
    BY <1>1, <1>8, <1>9, <2>1
<1> QED
  BY <1>10, <1>11 DEF Quiet
----------------------------------------------------------------------------
(* The way of a failure to the text a user reads.                           *)
TextFits(api, cause) ==
    LET text == ErrorText(api)
    IN  /\ cause = Lost => text = "network"
        /\ cause \in {Gateway, Framework(413), Other} => text = "generic"
        /\ cause = Framework(429) => text = "too-many-requests"
        /\ cause.by = "app" => text \notin {"generic", "network"}

(* A refusal by a rule of the service reaches the user as itself ... *)
LEMMA RulesFit ==
  ASSUME NEW code \in {40900, 40901, 42201, 42202, 42203}, NEW named, NEW a,
         a = ToApiError(ToResponse(App(code, named)))
  PROVE  a.code = code /\ a.named = named /\ TextFits(a, App(code, named))
<1>1. PICK f : f = App(code, named)
  OBVIOUS
<1>2. f.by = "app" /\ f.code = code /\ f.named = named
  BY <1>1 DEF App
<1>3. PICK r : r = ToResponse(f)
  OBVIOUS
<1>4. r.envelope /\ r.code = code /\ r.named = named
  BY <1>2, <1>3 DEF ToResponse
<1>5. a.code = code /\ a.named = named /\ ~a.network
  BY <1>1, <1>3, <1>4 DEF ToApiError, EnvelopeErrorCode, ErrorCode
<1>6. ErrorText(a) \in {"task-closed", "task-changed", "invalid-details", "invalid-action",
                        "missing-fields"}
  <2>1. CASE code = 40900
    BY <1>5, <2>1 DEF ErrorText
  <2>2. CASE code = 40901
    BY <1>5, <2>2 DEF ErrorText
  <2>3. CASE code = 42203
    BY <1>5, <2>3 DEF ErrorText
  <2>4. CASE code = 42201
    BY <1>5, <2>4 DEF ErrorText
  <2>5. CASE code = 42202
    BY <1>5, <2>5 DEF ErrorText
  <2> QED
    BY <2>1, <2>2, <2>3, <2>4, <2>5
<1>7. f # Lost /\ f \notin {Gateway, Framework(413), Other} /\ f # Framework(429)
  BY <1>2 DEF Lost, Gateway, Framework, Other
<1> QED
  BY <1>1, <1>5, <1>6, <1>7 DEF TextFits

(* ... a refusal by the framework or a crash as the text kept for it ... *)
LEMMA AccidentsFit ==
  ASSUME NEW f \in {Framework(429), Framework(413), Other}, NEW a, a = ToApiError(ToResponse(f))
  PROVE  a.code \in {42900, 50000} /\ a.named = {} /\ TextFits(a, f)
<1>1. f.by # "app" /\ f.named = {} /\ f # Lost /\ f # Gateway
  BY DEF Framework, Other, Lost, Gateway
<1>2. PICK r : r = ToResponse(f)
  OBVIOUS
<1>3. CASE f = Framework(429)
  <2>1. r.envelope /\ r.code = 42900 /\ r.named = {}
    BY <1>2, <1>3 DEF ToResponse, Framework, DefaultErrorCodeForStatus
  <2>2. a.code = 42900 /\ a.named = {} /\ ~a.network
    BY <1>2, <2>1 DEF ToApiError, EnvelopeErrorCode, ErrorCode
  <2>3. ErrorText(a) = "too-many-requests"
    BY <2>2 DEF ErrorText
  <2>4. f \notin {Framework(413), Other}
    BY <1>3 DEF Framework, Other
  <2> QED
    BY <1>1, <2>2, <2>3, <2>4 DEF TextFits
<1>4. CASE f \in {Framework(413), Other}
  <2>1. r.envelope /\ r.code \in {41300, 50000} /\ r.named = {}
    BY <1>2, <1>4 DEF ToResponse, Framework, Other, DefaultErrorCodeForStatus, InternalError
  <2>2. a.code = 50000 /\ a.named = {} /\ ~a.network
    BY <1>2, <2>1 DEF ToApiError, EnvelopeErrorCode, ErrorCode, InternalError
  <2>3. ErrorText(a) = "generic"
    BY <2>2 DEF ErrorText
  <2>4. f # Framework(429)
    BY <1>4 DEF Framework, Other
  <2> QED
    BY <1>1, <2>2, <2>3, <2>4 DEF TextFits
<1> QED
  BY <1>3, <1>4

(* ... and an answer that was lost on its way, or garbled, without blame. *)
LEMMA LossesFit ==
  /\ NetworkError.code = 50000 /\ NetworkError.named = {} /\ TextFits(NetworkError, Lost)
  /\ LET a == ToApiError(Garbled(Gateway.status))
     IN  a.code = 50000 /\ a.named = {} /\ TextFits(a, Gateway)
<1>1. ErrorText(NetworkError) = "network"
  BY DEF ErrorText, NetworkError
<1>2. Lost \notin {Gateway, Framework(413), Other, Framework(429)} /\ Lost.by # "app"
  BY DEF Lost, Gateway, Framework, Other
<1>3. PICK a : a = ToApiError(Garbled(Gateway.status))
  OBVIOUS
<1>4. a.code = 50000 /\ a.named = {} /\ ~a.network
  BY <1>3 DEF ToApiError, Garbled, EnvelopeErrorCode, InternalError
<1>5. ErrorText(a) = "generic"
  BY <1>4 DEF ErrorText
<1>6. Gateway # Lost /\ Gateway # Framework(429) /\ Gateway.by # "app"
  BY DEF Lost, Gateway, Framework
<1>7. NetworkError.code = 50000 /\ NetworkError.named = {}
  BY DEF NetworkError, InternalError
<1> QED
  BY <1>1, <1>2, <1>3, <1>4, <1>5, <1>6, <1>7 DEF TextFits
----------------------------------------------------------------------------
(* The inductive invariant.                                                 *)

(* A change under way: whose fields it is of, and what it is known to pass. *)
ChangeOk(cl, rd, c) ==
    /\ c.expected \in 1..FinalStatus /\ Payload(c.payload)
    /\ cl = "form" =>
          /\ \A i \in 1..Len(c.payload) : c.payload[i].key \in Keys(NextFields(c.expected))
          /\ Quiet(c.payload, NextFields(c.expected))
    /\ (rd = 2 /\ NoTwins(c.payload)) => Accepts(c.payload, NextFields(c.expected))

(* A refusal fits its cause, and names what the report of the fields does.  *)
Refused(c) ==
    /\ TextFits(c.answer, c.cause)
    /\ \/ c.answer.named = {} /\ c.answer.code # 42203
       \/ /\ c.kind = "change" /\ c.expected < FinalStatus
          /\ c.answer.named = Report(c.payload, NextFields(c.expected))

(* A call: a failure is explained, an answer is a status of the type. *)
CallOk(cl, rd, c) ==
    c # Idle =>
        /\ c = [kind |-> c.kind, expected |-> c.expected, payload |-> c.payload, done |-> c.done,
                status |-> c.status, cause |-> c.cause, answer |-> c.answer]
        /\ ~c.done => c.answer = NoError
        /\ c.answer # NoError => Refused(c)
        /\ (c.done /\ c.answer = NoError) => c.status \in 1..FinalStatus
        /\ c.kind = "change" => ChangeOk(cl, rd, c)

(* The row: every field required on the way to its status is there, clean. *)
ServerOk(sv) ==
    /\ sv = [status |-> sv.status, isClosed |-> sv.isClosed, fields |-> sv.fields]
    /\ sv.status \in 1..FinalStatus
    /\ \A s \in 2..sv.status : \A d \in Fields[s] :
          d.key \in DOMAIN sv.fields /\ Clean(d, sv.fields[d.key])

(* The error on the page fits its cause, and names fields the form shows. *)
ErrorOk(cl, e) ==
    e # NoError =>
        /\ TextFits(e.api, e.cause)
        /\ cl = "form" => {k[1] : k \in e.api.named} \subseteq Keys(NextFields(e.at))

(* All of it is needed at once: the row is clean because a change is       *)
(* accepted only as judged (ServerOk); an error is what the last call was  *)
(* answered (ErrorOk from CallOk); and what a call may be answered depends *)
(* on what was typed or corrected before it was made (ChangeOk from        *)
(* FormOk).                                                                *)
FormIInv ==
    /\ client \in {"form", "script"} /\ seen \in 1..FinalStatus
    /\ client = "form" => round = 0
    /\ ServerOk(server)
    /\ FormOk(seen, values)
    /\ CallOk(client, round, call)
    /\ ErrorOk(client, error)

(* The form opens on a new task. *)
LEMMA FormInitial == Init => FormIInv
<1> SUFFICES ASSUME Init PROVE FormIInv
  OBVIOUS
<1>1. FinalStatus \in Nat \ {0}
  BY FormAssumption
<1>2. ServerOk(server)
  <2>1. PICK sv : sv = server /\ sv = [status |-> 1, isClosed |-> FALSE, fields |-> NoValues]
    BY DEF Init
  <2>2. sv.status = 1 /\ 2..1 = {}
    BY <2>1
  <2> QED
    BY <1>1, <2>1, <2>2 DEF ServerOk
<1>3. FormOk(seen, values)
  <2>1. DOMAIN values = {}
    BY DEF Init, NoValues
  <2> QED
    BY <2>1, FS_EmptySet DEF FormOk
<1> QED
  BY <1>1, <1>2, <1>3 DEF Init, FormIInv, CallOk, ErrorOk

(* The user types into a field. *)
LEMMA StepType ==
  ASSUME FormIInv, NEW d \in NextFields(seen), NEW t \in Texts, Type(d, t)
  PROVE  FormIInv'
<1>1. FormOk(seen, values')
  <2>1. values' = [k \in DOMAIN values \cup {d.key} |-> IF k = d.key THEN t ELSE values[k]]
    BY DEF Type
  <2>2. IsFiniteSet(DOMAIN values) /\ DOMAIN values' = DOMAIN values \cup {d.key}
    BY <2>1 DEF FormIInv, FormOk
  <2>3. IsFiniteSet(DOMAIN values')
    BY <2>2, FS_AddElement
  <2>4. t \in Seq(Char) /\ Typable(d, t)
    BY FormAssumption DEF Type
  <2>5. ASSUME NEW k \in DOMAIN values'
        PROVE  \E e \in NextFields(seen) :
                  e.key = k /\ values'[k] \in Seq(Char) /\ Typable(e, values'[k])
    <3>1. CASE k = d.key
      BY <2>1, <2>2, <2>4, <3>1
    <3>2. CASE k # d.key
      <4>1. k \in DOMAIN values /\ values'[k] = values[k]
        BY <2>1, <2>2, <3>2
      <4> QED
        BY <4>1 DEF FormIInv, FormOk
    <3> QED
      BY <3>1, <3>2
  <2> QED
    BY <2>3, <2>5 DEF FormOk
<1> QED
  BY <1>1 DEF Type, FormIInv

(* The form is submitted: what it sends passed the client's own check. *)
LEMMA StepSubmit ==
  ASSUME FormIInv, SubmitAdvance
  PROVE  FormIInv'
<1>1. /\ client = "form" /\ seen \in 1..FinalStatus /\ seen < FinalStatus /\ FinalStatus \in Nat
      /\ round = 0 /\ FormOk(seen, values)
      /\ UNCHANGED <<client, server, seen, values, round>>
  BY FormAssumption DEF SubmitAdvance, FormIInv
<1>2. seen \in 1..(FinalStatus - 1)
  BY <1>1
<1>3. CASE GetMissingRequiredFieldKeys(NextFields(seen), values) # {}
  <2>1. UNCHANGED <<error, call>>
    BY <1>3 DEF SubmitAdvance
  <2> QED
    BY <1>1, <2>1 DEF FormIInv
<1>4. CASE GetMissingRequiredFieldKeys(NextFields(seen), values) = {}
  <2>1. call' = Call(Formed(values)) /\ error' = NoError
    BY <1>4 DEF SubmitAdvance
  <2>2. PICK q : q = Formed(values)
    OBVIOUS
  <2>3. PICK c : c = Call(q)
    OBVIOUS
  <2>4. /\ c = [kind |-> c.kind, expected |-> c.expected, payload |-> c.payload, done |-> c.done,
                status |-> c.status, cause |-> c.cause, answer |-> c.answer]
        /\ c.kind = "change" /\ c.expected = seen /\ c.payload = q /\ ~c.done /\ c.answer = NoError
    BY <2>3 DEF Call
  <2>5. /\ Payload(q)
        /\ \A i \in 1..Len(q) : q[i].key \in DOMAIN values
    BY <1>1, <2>2, FormedIs
  <2>6. \A i \in 1..Len(q) : q[i].key \in Keys(NextFields(seen))
    BY <1>1, <2>5 DEF FormOk, Keys
  <2>7. Quiet(q, NextFields(seen))
    BY <1>1, <1>2, <1>4, <2>2, QuietSubmit
  <2>8. ChangeOk(client, round, c)
    BY <1>1, <1>2, <2>4, <2>5, <2>6, <2>7 DEF ChangeOk
  <2>9. CallOk(client, round, c)
    BY <2>4, <2>8 DEF CallOk
  <2>10. call' = c /\ ErrorOk(client, error')
    BY <2>1, <2>2, <2>3 DEF ErrorOk
  <2> QED
    BY <1>1, <2>9, <2>10 DEF FormIInv
<1> QED
  BY <1>3, <1>4

(* A script sends any payload. *)
LEMMA StepScript ==
  ASSUME FormIInv, NEW p \in Payloads, Script(p)
  PROVE  FormIInv'
<1>1. /\ client = "script" /\ seen \in 1..FinalStatus /\ FinalStatus \in Nat
      /\ round' = 1 /\ call' = Call(p)
      /\ UNCHANGED <<client, server, seen, values, error>>
  BY FormAssumption DEF Script, FormIInv
<1>2. Payload(p)
  <2>1. p \in Seq(Range(p)) /\ \A i \in DOMAIN p : Value(p[i].value)
    BY FormAssumption
  <2> QED
    BY <2>1 DEF Payload
<1>3. PICK c : c = Call(p)
  OBVIOUS
<1>4. /\ c = [kind |-> c.kind, expected |-> c.expected, payload |-> c.payload, done |-> c.done,
              status |-> c.status, cause |-> c.cause, answer |-> c.answer]
      /\ c.kind = "change" /\ c.expected = seen /\ c.payload = p /\ ~c.done /\ c.answer = NoError
  BY <1>3 DEF Call
<1>5. ChangeOk(client, 1, c)
  BY <1>1, <1>2, <1>4 DEF ChangeOk
<1>6. CallOk(client, 1, c)
  BY <1>4, <1>5 DEF CallOk
<1> QED
  BY <1>1, <1>3, <1>6 DEF FormIInv

(* An answer that refuses the call for the cause. *)
RefusedWith(c, cause, a) ==
    /\ a.code # 0 /\ TextFits(a, cause)
    /\ \/ a.named = {} /\ a.code # 42203
       \/ /\ c.kind = "change" /\ c.expected < FinalStatus
          /\ a.named = Report(c.payload, NextFields(c.expected))

(* The call with that answer. *)
Replied(c, reason, a) == [c EXCEPT !.done = TRUE, !.cause = reason, !.answer = a]

(* A call that is answered: refused, with what fits its cause. *)
LEMMA CallRefused ==
  ASSUME FormIInv, call # Idle, ~call.done, NEW cause, NEW a, RefusedWith(call, cause, a),
         call' = Replied(call, cause, a)
  PROVE  CallOk(client, round, call')
<1>1. PICK c : c = call'
  OBVIOUS
<1>2. /\ call = [kind |-> call.kind, expected |-> call.expected, payload |-> call.payload,
                 done |-> call.done, status |-> call.status, cause |-> call.cause,
                 answer |-> call.answer]
      /\ call.kind = "change" => ChangeOk(client, round, call)
  BY DEF FormIInv, CallOk
<1>8. c = [kind |-> call.kind, expected |-> call.expected, payload |-> call.payload,
           done |-> TRUE, status |-> call.status, cause |-> cause, answer |-> a]
  BY <1>1, <1>2 DEF Replied
<1>3. /\ c = [kind |-> c.kind, expected |-> c.expected, payload |-> c.payload, done |-> c.done,
              status |-> c.status, cause |-> c.cause, answer |-> c.answer]
      /\ c.kind = call.kind /\ c.expected = call.expected /\ c.payload = call.payload
      /\ c.done = TRUE /\ c.cause = cause /\ c.answer = a
  BY <1>8
<1>4. a # NoError
  BY DEF NoError, RefusedWith
<1>5. Refused(c)
  BY <1>3 DEF Refused, RefusedWith
<1>6. c.kind = "change" => ChangeOk(client, round, c)
  BY <1>2, <1>3 DEF ChangeOk
<1>7. CallOk(client, round, c)
  BY <1>3, <1>4, <1>5, <1>6 DEF CallOk
<1> QED
  BY <1>1, <1>7

(* ... or taken, with the status it tells. *)
LEMMA CallTaken ==
  ASSUME FormIInv, call # Idle, ~call.done, NEW status \in 1..FinalStatus,
         call' = [call EXCEPT !.done = TRUE, !.status = status]
  PROVE  CallOk(client, round, call')
<1>1. PICK c : c = call'
  OBVIOUS
<1>2. /\ call = [kind |-> call.kind, expected |-> call.expected, payload |-> call.payload,
                 done |-> call.done, status |-> call.status, cause |-> call.cause,
                 answer |-> call.answer]
      /\ call.answer = NoError
      /\ call.kind = "change" => ChangeOk(client, round, call)
  BY DEF FormIInv, CallOk
<1>3. /\ c = [kind |-> c.kind, expected |-> c.expected, payload |-> c.payload, done |-> c.done,
              status |-> c.status, cause |-> c.cause, answer |-> c.answer]
      /\ c.kind = call.kind /\ c.expected = call.expected /\ c.payload = call.payload
      /\ c.done = TRUE /\ c.status = status /\ c.answer = NoError
  BY <1>1, <1>2
<1>4. c.kind = "change" => ChangeOk(client, round, c)
  BY <1>2, <1>3 DEF ChangeOk
<1>5. CallOk(client, round, c)
  BY <1>3, <1>4 DEF CallOk
<1> QED
  BY <1>1, <1>5

(* The fields a status adds are clean, and what was held stays so. *)
LEMMA FieldsAdded ==
  ASSUME NEW sv, ServerOk(sv), sv.status < FinalStatus, NEW new,
         DOMAIN new = Keys(NextFields(sv.status)),
         \A d \in NextFields(sv.status) : Clean(d, new[d.key]),
         NEW after, after = [sv EXCEPT !.status = @ + 1, !.fields = Overwritten(@, new)]
  PROVE  ServerOk(after)
<1>1. /\ sv = [status |-> sv.status, isClosed |-> sv.isClosed, fields |-> sv.fields]
      /\ sv.status \in 1..FinalStatus /\ FinalStatus \in Nat
      /\ \A s \in 2..sv.status : \A d \in Fields[s] :
            d.key \in DOMAIN sv.fields /\ Clean(d, sv.fields[d.key])
  BY FormAssumption DEF ServerOk
<1>2. PICK n \in 2..FinalStatus : n = sv.status + 1
  BY <1>1
<1>3. NextFields(sv.status) = Fields[n]
  BY <1>1, <1>2 DEF NextFields
<1>4. PICK f : f = Overwritten(sv.fields, new)
  OBVIOUS
<1>5. /\ DOMAIN f = DOMAIN new \cup DOMAIN sv.fields
      /\ \A k \in DOMAIN f : f[k] = IF k \in DOMAIN new THEN new[k] ELSE sv.fields[k]
  BY <1>4 DEF Overwritten
<1>6. /\ after = [status |-> after.status, isClosed |-> after.isClosed, fields |-> after.fields]
      /\ after.status = n /\ after.fields = f
  BY <1>1, <1>2, <1>4
<1>7. ASSUME NEW s \in 2..n, NEW d \in Fields[s]
      PROVE  d.key \in DOMAIN f /\ Clean(d, f[d.key])
  <2>1. CASE d.key \in DOMAIN new
    <3>1. PICK e \in Fields[n] : e.key = d.key
      BY <1>3, <2>1 DEF Keys
    <3>2. s \in 2..FinalStatus
      BY <1>1, <1>2
    <3>3. e = d
      BY <3>1, <3>2, FormAssumption
    <3> QED
      BY <1>3, <1>5, <2>1, <3>1, <3>3
  <2>2. CASE d.key \notin DOMAIN new
    <3>1. s # n
      BY <1>3, <2>2 DEF Keys
    <3>2. s \in 2..sv.status
      BY <1>1, <1>2, <3>1
    <3> QED
      BY <1>1, <1>5, <2>2, <3>2
  <2> QED
    BY <2>1, <2>2
<1> QED
  BY <1>6, <1>7 DEF ServerOk

(* The change is made: the merged fields are clean for one status more. *)
LEMMA AdvancedClean ==
  ASSUME FormIInv, call # Idle, call.kind = "change", Acceptable, server' = Advanced
  PROVE  ServerOk(server') /\ server.status + 1 \in 1..FinalStatus
<1> DEFINE D == NextFields(call.expected)
<1>1. /\ server.status = call.expected /\ server.status < FinalStatus
      /\ Accepts(call.payload, D)
      /\ server' = [server EXCEPT !.status = @ + 1,
                                  !.fields = Overwritten(@, SanitizedFields(call.payload, D))]
  BY DEF Acceptable, Current, Advanced
<1>2. call.expected \in 1..(FinalStatus - 1) /\ Payload(call.payload) /\ FinalStatus \in Nat
  BY <1>1, FormAssumption DEF FormIInv, CallOk, ChangeOk
<1>3. /\ \A d \in D : Descriptor(d)
      /\ \A d, e \in D : d.key = e.key => d = e
  BY <1>2, NextFieldsAre
<1>4. PICK new : new = SanitizedFields(call.payload, D)
  OBVIOUS
<1>5. DOMAIN new = Keys(D)
  BY <1>4 DEF SanitizedFields, Keys
<1>6. ASSUME NEW d \in D PROVE Clean(d, new[d.key])
  <2>1. d.key \in {e.key : e \in D}
    OBVIOUS
  <2>2. PICK e : e = CHOOSE x \in D : x.key = d.key
    OBVIOUS
  <2>3. e = d
    BY <1>3, <2>2
  <2>4. new[d.key] = Evaluate(d, call.payload).stored
    BY <1>4, <2>1, <2>2, <2>3 DEF SanitizedFields
  <2>5. Evaluate(d, call.payload).kind = "valid"
    <3>1. PICK p : p = call.payload
      OBVIOUS
    <3>2. {<<f.key, FALSE>> : f \in {g \in D : Evaluate(g, p).kind # "valid"}} = {}
      BY <1>1, <3>1 DEF Accepts, Report
    <3>3. Evaluate(d, p).kind = "valid"
      BY <3>2
    <3> QED
      BY <3>1, <3>3
  <2>6. Descriptor(d)
    BY <1>3
  <2> QED
    BY <1>2, <2>4, <2>5, <2>6, EvaluatedClean
<1>7. PICK sv : sv = server /\ ServerOk(sv)
  BY DEF FormIInv
<1>8. PICK after : after = server'
  OBVIOUS
<1>9. /\ sv.status < FinalStatus /\ DOMAIN new = Keys(NextFields(sv.status))
      /\ \A d \in NextFields(sv.status) : Clean(d, new[d.key])
  BY <1>1, <1>2, <1>5, <1>6, <1>7
<1>10. after = [sv EXCEPT !.status = @ + 1, !.fields = Overwritten(@, new)]
  BY <1>1, <1>4, <1>7, <1>8
<1>11. ServerOk(after)
  BY <1>7, <1>9, <1>10, FieldsAdded
<1>12. server.status + 1 \in 1..FinalStatus
  BY <1>1, <1>2
<1> QED
  BY <1>8, <1>11, <1>12

(* The service accepts, and says so. *)
LEMMA StepAccept ==
  ASSUME FormIInv, call # Idle, ~call.done, call.kind = "change", Accept
  PROVE  ServerOk(server') /\ CallOk(client, round, call')
<1>1. PICK status : status = server.status + 1
  OBVIOUS
<1>2. ServerOk(server') /\ status \in 1..FinalStatus
  BY <1>1, AdvancedClean DEF Accept
<1>3. call' = [call EXCEPT !.done = TRUE, !.status = status]
  BY <1>1 DEF Accept
<1> QED
  BY <1>2, <1>3, CallTaken

(* A rule of the service refuses, and names nothing or what the report     *)
(* does.                                                                   *)
LEMMA RuleAnswered ==
  ASSUME FormIInv, call # Idle, ~call.done, call.kind = "change",
         NEW code \in {40900, 40901, 42201, 42202, 42203}, NEW named, Answer(App(code, named)),
         \/ named = {} /\ code # 42203
         \/ /\ call.expected < FinalStatus
            /\ named = Report(call.payload, NextFields(call.expected))
  PROVE  server' = server /\ CallOk(client, round, call')
<1>1. PICK cause : cause = App(code, named)
  OBVIOUS
<1>2. PICK a : a = ToApiError(ToResponse(App(code, named)))
  OBVIOUS
<1>3. a.code = code /\ a.named = named /\ TextFits(a, cause)
  BY <1>1, <1>2, RulesFit
<1>4. RefusedWith(call, cause, a)
  BY <1>3 DEF RefusedWith
<1>5. call' = Replied(call, cause, a)
  BY <1>1, <1>2 DEF Answer, Replied
<1>6. CallOk(client, round, call')
  BY <1>4, <1>5, CallRefused
<1> QED
  BY <1>6 DEF Answer

(* The rules in the order they are tried. *)
LEMMA StepRefuse ==
  ASSUME FormIInv, call # Idle, ~call.done, call.kind = "change", Refuse
  PROVE  server' = server /\ CallOk(client, round, call')
<1>1. PICK named : named = Report(call.payload, NextFields(call.expected))
  OBVIOUS
<1>2. \/ Answer(App(40900, {})) \/ Answer(App(40901, {}))
      \/ Answer(App(42201, {})) \/ Answer(App(42202, {}))
      \/ call.expected < FinalStatus /\ Answer(App(42203, named))
  BY <1>1 DEF Refuse, Current
<1> QED
  BY <1>1, <1>2, RuleAnswered

(* A failure that fits its cause and names nothing, the change made or not. *)
LEMMA StepUnsettled ==
  ASSUME FormIInv, call # Idle, ~call.done, NEW cause, NEW a, Unsettled(cause, a),
         a.code # 0, a.code # 42203, a.named = {}, TextFits(a, cause)
  PROVE  ServerOk(server') /\ CallOk(client, round, call')
<1>1. ServerOk(server')
  <2>1. CASE UNCHANGED server
    BY <2>1 DEF FormIInv
  <2>2. CASE call.kind = "change" /\ Acceptable /\ server' = Advanced
    BY <2>2, AdvancedClean
  <2> QED
    BY <2>1, <2>2 DEF Unsettled
<1>2. RefusedWith(call, cause, a)
  BY DEF RefusedWith
<1>3. call' = Replied(call, cause, a)
  BY DEF Unsettled, Replied
<1> QED
  BY <1>1, <1>2, <1>3, CallRefused

(* What happens to a call without the service having its say. *)
LEMMA StepAccident ==
  ASSUME FormIInv, call # Idle, ~call.done, Accident \/ Lose \/ Garble
  PROVE  ServerOk(server') /\ CallOk(client, round, call')
<1>1. CASE \E f \in {Framework(429), Framework(413)} : Answer(f)
  <2>1. PICK f \in {Framework(429), Framework(413), Other} : Answer(f)
    BY <1>1
  <2>2. PICK a : a = ToApiError(ToResponse(f))
    OBVIOUS
  <2>3. a.code \in {42900, 50000} /\ a.named = {} /\ TextFits(a, f)
    BY <2>2, AccidentsFit
  <2>4. RefusedWith(call, f, a)
    BY <2>3 DEF RefusedWith
  <2>5. call' = Replied(call, f, a) /\ server' = server
    BY <2>1, <2>2 DEF Answer, Replied
  <2> QED
    BY <2>4, <2>5, CallRefused DEF FormIInv
<1>2. CASE Unsettled(Other, ToApiError(ToResponse(Other)))
  <2>1. PICK a : a = ToApiError(ToResponse(Other))
    OBVIOUS
  <2>2. a.code \in {42900, 50000} /\ a.named = {} /\ TextFits(a, Other)
    BY <2>1, AccidentsFit
  <2> QED
    BY <1>2, <2>1, <2>2, StepUnsettled
<1>3. CASE Lose
  <2>1. PICK a : a = NetworkError
    OBVIOUS
  <2>2. a.code = 50000 /\ a.named = {} /\ TextFits(a, Lost)
    BY <2>1, LossesFit
  <2>3. Unsettled(Lost, a)
    BY <1>3, <2>1 DEF Lose
  <2> QED
    BY <2>2, <2>3, StepUnsettled
<1>4. CASE Garble
  <2>1. PICK a : a = ToApiError(Garbled(Gateway.status))
    OBVIOUS
  <2>2. a.code = 50000 /\ a.named = {} /\ TextFits(a, Gateway)
    BY <2>1, LossesFit
  <2>3. Unsettled(Gateway, a)
    BY <1>4, <2>1 DEF Garble
  <2> QED
    BY <2>2, <2>3, StepUnsettled
<1> QED
  BY <1>1, <1>2, <1>3, <1>4 DEF Accident

(* A call arrives at the service. *)
LEMMA StepServe ==
  ASSUME FormIInv, Serve
  PROVE  FormIInv'
<1>1. /\ call # Idle /\ ~call.done
      /\ UNCHANGED <<client, seen, values, error, round>>
  BY DEF Serve
<1>2. ServerOk(server') /\ CallOk(client, round, call')
  <2>1. CASE call.kind = "change" /\ Refuse
    BY <1>1, <2>1, StepRefuse DEF FormIInv
  <2>2. CASE call.kind = "change" /\ Accept
    BY <1>1, <2>2, StepAccept
  <2>3. CASE Accident \/ Lose \/ Garble
    BY <1>1, <2>3, StepAccident
  <2>4. CASE call' = [call EXCEPT !.done = TRUE, !.status = server.status] /\ UNCHANGED server
    <3>1. PICK status \in 1..FinalStatus : status = server.status
      BY DEF FormIInv, ServerOk
    <3>2. CallOk(client, round, call')
      BY <1>1, <2>4, <3>1, CallTaken
    <3> QED
      BY <2>4, <3>2 DEF FormIInv
  <2> QED
    BY <2>1, <2>2, <2>3, <2>4 DEF Serve
<1> QED
  BY <1>1, <1>2 DEF FormIInv

(* What was typed is kept while the status is, and dropped with it. *)
LEMMA SeeKeeps ==
  ASSUME FormIInv, NEW status \in 1..FinalStatus, See(status)
  PROVE  seen' = status /\ FormOk(seen', values')
<1>1. CASE status = seen
  BY <1>1 DEF See, FormIInv
<1>2. CASE status # seen
  <2>1. seen' = status /\ DOMAIN values' = {}
    BY <1>2 DEF See, NoValues
  <2> QED
    BY <2>1, FS_EmptySet DEF FormOk
<1> QED
  BY <1>1, <1>2

(* The client takes the row it is answered. *)
LEMMA StepTakeAnswer ==
  ASSUME FormIInv, TakeAnswer
  PROVE  FormIInv'
<1>1. /\ call # Idle /\ call.done /\ call.answer = NoError /\ See(call.status)
      /\ call' = Idle /\ UNCHANGED <<client, server, error, round>>
  BY DEF TakeAnswer
<1>2. PICK status \in 1..FinalStatus : status = call.status
  BY <1>1 DEF FormIInv, CallOk
<1>3. seen' = status /\ FormOk(seen', values')
  BY <1>1, <1>2, SeeKeeps
<1>4. CallOk(client, round, call')
  BY <1>1 DEF CallOk
<1> QED
  BY <1>1, <1>3, <1>4 DEF FormIInv

(* The client hears of another's change. *)
LEMMA StepHear ==
  ASSUME FormIInv, Hear
  PROVE  FormIInv'
<1>1. /\ See(server.status)
      /\ UNCHANGED <<client, server, error, call, round>>
  BY DEF Hear
<1>2. PICK status \in 1..FinalStatus : status = server.status
  BY DEF FormIInv, ServerOk
<1>3. seen' = status /\ FormOk(seen', values')
  BY <1>1, <1>2, SeeKeeps
<1>4. CallOk(client, round, call)
  BY <1>1 DEF FormIInv, CallOk, ChangeOk
<1> QED
  BY <1>1, <1>3, <1>4 DEF FormIInv

(* A conflict makes the client read the row again. *)
LEMMA StepTakeConflict ==
  ASSUME FormIInv, TakeConflict
  PROVE  FormIInv'
<1>1. /\ call' = [Call(<<>>) EXCEPT !.kind = "read"]
      /\ UNCHANGED <<client, server, seen, values, error, round>>
  BY DEF TakeConflict
<1>2. PICK c : c = call'
  OBVIOUS
<1>3. c = [kind |-> "read", expected |-> seen, payload |-> <<>>,
           done |-> FALSE, status |-> 0, cause |-> NoError, answer |-> NoError]
  BY <1>1, <1>2 DEF Call
<1>4. /\ c = [kind |-> c.kind, expected |-> c.expected, payload |-> c.payload, done |-> c.done,
              status |-> c.status, cause |-> c.cause, answer |-> c.answer]
      /\ c.kind = "read" /\ ~c.done /\ c.answer = NoError
  BY <1>3
<1>5. CallOk(client, round, c)
  BY <1>4 DEF CallOk
<1> QED
  BY <1>1, <1>2, <1>5 DEF FormIInv

(* The client shows an error; a script corrects what it names and tries    *)
(* once more, which CorrectedAccepted shows to pass.                       *)
LEMMA StepTakeError ==
  ASSUME FormIInv, TakeError
  PROVE  FormIInv'
<1>1. /\ call # Idle /\ call.answer # NoError
      /\ error' = [api |-> call.answer, cause |-> call.cause, at |-> call.expected]
      /\ UNCHANGED <<client, server, seen, values>>
  BY DEF TakeError
<1>2. /\ Refused(call) /\ (call.kind = "change" => ChangeOk(client, round, call))
  BY <1>1 DEF FormIInv, CallOk
<1>3. ErrorOk(client, error')
  <2>1. PICK e : e = error' /\ e.api = call.answer /\ e.cause = call.cause /\ e.at = call.expected
    BY <1>1
  <2>2. TextFits(e.api, e.cause)
    BY <1>2, <2>1 DEF Refused
  <2>3. ASSUME client = "form", NEW k \in e.api.named
        PROVE  k[1] \in Keys(NextFields(e.at))
    <3>1. PICK D : D = NextFields(e.at)
      OBVIOUS
    <3>2. call.kind = "change" /\ k \in Report(call.payload, D)
      BY <1>2, <2>1, <2>3, <3>1 DEF Refused
    <3>3. /\ DOMAIN call.payload = 1..Len(call.payload)
          /\ \A i \in 1..Len(call.payload) : call.payload[i].key \in Keys(D)
      BY <1>2, <2>1, <2>3, <3>1, <3>2 DEF ChangeOk, Payload
    <3>4. CASE \E d \in D : k = <<d.key, FALSE>>
      BY <3>1, <3>4 DEF Keys
    <3>5. CASE \E i \in UnknownKeys(call.payload, D) : k = RawKey(call.payload[i])
      <4>1. PICK i \in UnknownKeys(call.payload, D) : k = RawKey(call.payload[i])
        BY <3>5
      <4>2. i \in 1..Len(call.payload) /\ k[1] = call.payload[i].key
        BY <3>3, <4>1 DEF UnknownKeys, RawKey
      <4> QED
        BY <3>1, <3>3, <4>2
    <3> QED
      BY <3>2, <3>4, <3>5 DEF Report
  <2>4. client = "form" => {k[1] : k \in e.api.named} \subseteq Keys(NextFields(e.at))
    BY <2>3
  <2>5. ErrorOk(client, e)
    BY <2>2, <2>4 DEF ErrorOk
  <2> QED
    BY <2>1, <2>5
<1>4. CASE ~(client = "script" /\ round = 1 /\ call.answer.code = 42203)
  <2>1. call' = Idle /\ round' = round
    BY <1>4 DEF TakeError
  <2> QED
    BY <1>1, <1>3, <2>1 DEF FormIInv, CallOk
<1>5. CASE client = "script" /\ round = 1 /\ call.answer.code = 42203
  <2>1. PICK s : s = call.expected
    OBVIOUS
  <2>2. PICK p : p = call.payload
    OBVIOUS
  <2>3. /\ call.kind = "change" /\ call.answer.named = Report(p, NextFields(s))
        /\ s \in 1..FinalStatus /\ s < FinalStatus /\ Payload(p)
    BY <1>2, <1>5, <2>1, <2>2 DEF Refused, ChangeOk
  <2>4. PICK q : q = Corrected(p, Report(p, NextFields(s)), NextFields(s))
    OBVIOUS
  <2>5. /\ Payload(q)
        /\ NoTwins(q) => Accepts(q, NextFields(s))
    <3>1. s \in 1..(FinalStatus - 1)
      BY <2>3, FormAssumption
    <3> QED
      BY <2>3, <2>4, <3>1, CorrectedAccepted
  <2>6. call' = [Call(q) EXCEPT !.expected = s] /\ round' = 2
    BY <1>5, <2>1, <2>2, <2>3, <2>4 DEF TakeError
  <2>7. PICK c : c = [Call(q) EXCEPT !.expected = s]
    OBVIOUS
  <2>8. /\ c = [kind |-> c.kind, expected |-> c.expected, payload |-> c.payload, done |-> c.done,
                status |-> c.status, cause |-> c.cause, answer |-> c.answer]
        /\ c.kind = "change" /\ c.expected = s /\ c.payload = q /\ ~c.done /\ c.answer = NoError
    BY <2>7 DEF Call
  <2>9. ChangeOk(client, 2, c)
    BY <1>5, <2>3, <2>5, <2>8 DEF ChangeOk
  <2>10. CallOk(client, 2, c)
    BY <2>8, <2>9 DEF CallOk
  <2> QED
    BY <1>1, <1>3, <1>5, <2>6, <2>7, <2>10 DEF FormIInv
<1> QED
  BY <1>4, <1>5

(* Another client changes or closes the task. *)
LEMMA StepOther ==
  ASSUME FormIInv, OtherClient
  PROVE  FormIInv'
<1>1. UNCHANGED <<client, seen, values, error, call, round>>
  BY DEF OtherClient
<1>2. PICK sv : sv = server /\ ServerOk(sv)
  BY DEF FormIInv
<1>3. /\ sv = [status |-> sv.status, isClosed |-> sv.isClosed, fields |-> sv.fields]
      /\ sv.status \in 1..FinalStatus /\ FinalStatus \in Nat
      /\ \A s \in 2..sv.status : \A d \in Fields[s] :
            d.key \in DOMAIN sv.fields /\ Clean(d, sv.fields[d.key])
  BY <1>2, FormAssumption DEF ServerOk
<1>4. PICK after : after = server'
  OBVIOUS
<1>5. CASE sv.status < FinalStatus /\
           server' = [server EXCEPT !.status = @ + 1,
                !.fields = Overwritten(@, [k \in Keys(NextFields(server.status)) |->
                    Good(CHOOSE d \in NextFields(server.status) : d.key = k)])]
  <2>1. PICK D : D = NextFields(sv.status)
    OBVIOUS
  <2>2. PICK new : new = [k \in Keys(D) |-> Good(CHOOSE d \in D : d.key = k)]
    OBVIOUS
  <2>3. PICK s \in 1..(FinalStatus - 1) : s = sv.status
    BY <1>3, <1>5
  <2>4. /\ D = Fields[s + 1] /\ s + 1 \in 2..FinalStatus
        /\ \A d, e \in D : d.key = e.key => d = e
    BY <2>1, <2>3, NextFieldsAre
  <2>5. ASSUME NEW d \in D PROVE Clean(d, new[d.key])
    <3>1. d.key \in Keys(D)
      BY DEF Keys
    <3>2. PICK e : e = CHOOSE x \in D : x.key = d.key
      OBVIOUS
    <3>3. e = d
      BY <2>4, <3>2
    <3>4. new[d.key] = Good(d)
      BY <2>2, <3>1, <3>2, <3>3
    <3> QED
      BY <2>4, <3>4, GoodIs
  <2>6. /\ sv.status < FinalStatus /\ DOMAIN new = Keys(NextFields(sv.status))
        /\ \A d \in NextFields(sv.status) : Clean(d, new[d.key])
    BY <1>5, <2>1, <2>2, <2>5
  <2>7. after = [sv EXCEPT !.status = @ + 1, !.fields = Overwritten(@, new)]
    BY <1>2, <1>4, <1>5, <2>1, <2>2
  <2>8. ServerOk(after)
    BY <1>2, <2>6, <2>7, FieldsAdded
  <2> QED
    BY <1>1, <1>4, <2>8 DEF FormIInv
<1>6. CASE sv.status > 1 /\ server' = [server EXCEPT !.status = @ - 1]
  <2>1. /\ after = [status |-> after.status, isClosed |-> after.isClosed, fields |-> after.fields]
        /\ after.status = sv.status - 1 /\ after.fields = sv.fields
    BY <1>2, <1>3, <1>4, <1>6
  <2>2. ServerOk(after)
    BY <1>3, <1>6, <2>1 DEF ServerOk
  <2> QED
    BY <1>1, <1>4, <2>2 DEF FormIInv
<1>7. CASE server' = [server EXCEPT !.isClosed = TRUE]
  <2>1. /\ after = [status |-> after.status, isClosed |-> after.isClosed, fields |-> after.fields]
        /\ after.status = sv.status /\ after.fields = sv.fields
    BY <1>2, <1>3, <1>4, <1>7
  <2>2. ServerOk(after)
    BY <1>3, <2>1 DEF ServerOk
  <2> QED
    BY <1>1, <1>4, <2>2 DEF FormIInv
<1> QED
  BY <1>2, <1>5, <1>6, <1>7 DEF OtherClient

(* Every step keeps the invariant. *)
LEMMA FormNext == FormIInv /\ [Next]_vars => FormIInv'
<1> SUFFICES ASSUME FormIInv, [Next]_vars PROVE FormIInv'
  OBVIOUS
<1>1. CASE UNCHANGED vars
  BY <1>1 DEF vars, FormIInv
<1>2. ASSUME NEW d \in NextFields(seen), NEW t \in Texts, Type(d, t) PROVE FormIInv'
  BY <1>2, StepType
<1>3. ASSUME NEW p \in Payloads, Script(p) PROVE FormIInv'
  BY <1>3, StepScript
<1>4. CASE SubmitAdvance
  BY <1>4, StepSubmit
<1>5. CASE Serve
  BY <1>5, StepServe
<1>6. CASE TakeAnswer
  BY <1>6, StepTakeAnswer
<1>7. CASE TakeConflict
  BY <1>7, StepTakeConflict
<1>8. CASE TakeError
  BY <1>8, StepTakeError
<1>9. CASE OtherClient
  BY <1>9, StepOther
<1>10. CASE Hear
  BY <1>10, StepHear
<1> QED
  BY <1>1, <1>2, <1>3, <1>4, <1>5, <1>6, <1>7, <1>8, <1>9, <1>10 DEF Next

(* The inductive invariant of the form, the script and the service holds in *)
(* every state, whatever is typed, submitted, lost or moved by others.      *)
THEOREM FormInductive == Spec => []FormIInv
BY FormInitial, FormNext, PTL DEF Spec

(* FieldValidatorService keeps what is stored sanitized and complete: a     *)
(* task at a status holds every field required on the way there, whoever    *)
(* submitted and whatever the payload.                                      *)
THEOREM FieldsStayClean == Spec => []StoredFieldsClean
<1>1. FormIInv => StoredFieldsClean
  BY DEF FormIInv, ServerOk, StoredFieldsClean
<1> QED
  BY <1>1, FormInductive, PTL

(* MissingRequiredFieldsException names everything that is wrong: a payload *)
(* corrected in the keys it names is accepted, for any task type and        *)
(* payload of which no two keys trim to the same one.                       *)
THEOREM OneRoundTripIsEnough == Spec => []OneRoundTrip
<1>1. FormIInv => OneRoundTrip
  BY DEF FormIInv, CallOk, ChangeOk, OneRoundTrip, InFlight
<1> QED
  BY <1>1, FormInductive, PTL

(* The form's checks (getMissingRequiredFieldKeys, isStringFormatInvalid)   *)
(* are as strict as the validator's, field by field: a text that the form   *)
(* submits and the validator refuses showed an error, or hides a control    *)
(* character, or has a pattern that counts characters.                      *)
THEOREM QuietTextFormIsAccepted == Spec => []QuietTextFormAccepted
<1>1. FormIInv => QuietTextFormAccepted
  <2> SUFFICES ASSUME FormIInv, call # Idle, call.kind = "change", client = "form"
               PROVE  Quiet(call.payload, NextFields(call.expected))
    BY DEF QuietTextFormAccepted, InFlight, Quiet
  <2> QED
    BY DEF FormIInv, CallOk, ChangeOk
<1> QED
  BY <1>1, FormInductive, PTL

(* submitAdvance's highlight can be shown: every field a refusal names is a *)
(* field of the form, while the task stays at the status it was made at.    *)
THEOREM RefusalIsActionable == Spec => []RefusalActionable
<1>1. FormIInv => RefusalActionable
  BY DEF FormIInv, ErrorOk, RefusalActionable
<1> QED
  BY <1>1, FormInductive, PTL

(* HttpExceptionFilter, toApiError and resolveErrorText keep a refusal of   *)
(* the service's own rules apart from a failure of anything else.           *)
THEOREM TextTellsTheCause == Spec => []TextTellsCause
<1>1. FormIInv => TextTellsCause
  BY DEF FormIInv, ErrorOk, TextTellsCause, TextFits
<1> QED
  BY <1>1, FormInductive, PTL
================================================================================
