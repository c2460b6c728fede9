----------------------------- MODULE KeysetPage -----------------------------
(***************************************************************************)
(* A walk over the pages of a listing (BaseDao.findKeysetPage) while other *)
(* clients add rows and rows enter and leave the listing's filter.  All    *)
(* three listings page this way: tasks of a user and users newest first, a *)
(* task's history oldest first.                                            *)
(*                                                                         *)
(* A row is ordered by created_at, then by id.  Its created_at is the time *)
(* its transaction started, so a row may appear anywhere in the order; its *)
(* id is random.  Both never change.  Times are microseconds; Milli of     *)
(* them share a millisecond, the precision of a JS Date.                   *)
(***************************************************************************)
EXTENDS Naturals, SequencesExt

CONSTANTS
    Id,            \* row ids, as numbers in their order
    MaxTime,       \* bound: created_at
    Milli,         \* microseconds of a millisecond
    Limit,         \* rows of a page
    MaxWrites      \* bound: writes during the walk

ASSUME KeysetAssumption ==
    /\ Id \subseteq Nat /\ IsFiniteSet(Id) /\ MaxTime \in Nat /\ MaxWrites \in Nat
    /\ Milli \in Nat \ {0} /\ Limit \in Nat \ {0}

VARIABLES
    direction,     \* "ASC" or "DESC"
    createdAt,     \* createdAt[r]: created_at of row r, 0 if there is none
    listed,        \* rows that pass the filter
    steady,        \* rows that passed it ever since the walk began
    served,        \* ids of the pages read so far
    cursor,        \* key the next page follows: none yet, a key, or the end
    writes

walkVars == <<direction, createdAt, listed, steady, served, cursor, writes>>

Start == <<>>

End == <<0, 0, 0>>

Key(r) == <<createdAt[r], r>>

Below(k, l) == k[1] < l[1] \/ (k[1] = l[1] /\ k[2] < l[2])

Precedes(k, l) == IF direction = "ASC" THEN Below(k, l) ELSE Below(l, k)

----------------------------------------------------------------------------
(* Fault: rows of the cursor's created_at are taken to be served. *)
AfterByTime(k, r) == k = Start \/ (k[1] # createdAt[r] /\ Precedes(k, Key(r)))

(* Fault: the boundary row is served again. *)
AfterInclusive(k, r) == k = Start \/ ~Precedes(Key(r), k)

(* (created_at, id) strictly beyond the cursor. *)
After(k, r) == k = Start \/ Precedes(k, Key(r))

(* Fault: the cursor carries a JS Date. *)
CursorOfDate(r) == <<createdAt[r] - (createdAt[r] % Milli), r>>

(* encodeKeysetCursor and decodeKeysetCursor keep every digit of the key. *)
CursorOf(r) == Key(r)

(* ORDER BY (created_at, id), of a finite set of rows. *)
InOrder(rows) ==
    CHOOSE s \in [1..Cardinality(rows) -> rows] :
        \A i, j \in 1..Cardinality(rows) : i < j => Precedes(Key(s[i]), Key(s[j]))

(* The first Limit + 1 rows beyond the cursor. *)
Fetched(k) ==
    LET sorted == InOrder({r \in listed : After(k, r)})
    IN  SubSeq(sorted, 1, IF Len(sorted) > Limit THEN Limit + 1 ELSE Len(sorted))

(* One page: the row fetched beyond Limit only tells that there is another. *)
ReadPage ==
    /\ cursor # End
    /\ LET rows == Fetched(cursor)
           hasNextPage == Len(rows) > Limit
       IN  /\ served' = served \o (IF hasNextPage THEN SubSeq(rows, 1, Limit) ELSE rows)
           /\ cursor' = IF hasNextPage THEN CursorOf(rows[Limit]) ELSE End
    /\ UNCHANGED <<direction, createdAt, listed, steady, writes>>

Write ==
    /\ cursor # End
    /\ writes < MaxWrites
    /\ writes' = writes + 1
    /\ UNCHANGED <<direction, served, cursor>>

(* A new row commits, at whatever time its transaction started. *)
Insert(r) ==
    /\ Write
    /\ createdAt[r] = 0
    /\ \E t \in 1..MaxTime : createdAt' = [createdAt EXCEPT ![r] = t]
    /\ listed' = listed \cup {r}
    /\ UNCHANGED steady

(* A task is reassigned or closed: it leaves the listing, or enters it. *)
Leave(r) ==
    /\ Write
    /\ listed' = listed \ {r}
    /\ steady' = steady \ {r}
    /\ UNCHANGED createdAt

Enter(r) ==
    /\ Write
    /\ createdAt[r] # 0
    /\ listed' = listed \cup {r}
    /\ UNCHANGED <<createdAt, steady>>

WalkInit ==
    /\ direction \in {"ASC", "DESC"}
    /\ createdAt \in [Id -> 0..MaxTime]
    /\ listed \in SUBSET {r \in Id : createdAt[r] # 0}
    /\ steady = listed
    /\ served = <<>>
    /\ cursor = Start
    /\ writes = 0

WalkNext ==
    \/ ReadPage
    \/ \E r \in Id : Insert(r)
    \/ \E r \in listed : Leave(r)
    \/ \E r \in Id \ listed : Enter(r)

WalkSpec == WalkInit /\ [][WalkNext]_walkVars

----------------------------------------------------------------------------
(* The pages, put together, are strictly in order: "a page boundary ...     *)
(* neither skips nor repeats" a row (findKeysetPage), whatever was written  *)
(* between two pages.                                                       *)
ServedInOrder ==
    \A i \in 2..Len(served) : Precedes(Key(served[i - 1]), Key(served[i]))

(* A walk that reached the end has served every row that was there all      *)
(* along: none is skipped at a page boundary, not even one that shares its  *)
(* created_at with the last row of a page.                                  *)
NoneSkipped ==
    cursor = End => \A r \in steady : Contains(served, r)
=============================================================================
