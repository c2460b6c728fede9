--------------------------- MODULE UserDirectory ---------------------------
(***************************************************************************)
(* The client's store of seeded users (useCurrentUserStore).  A fetch      *)
(* walks the pages of GET /users to their end and only then replaces the   *)
(* directory; every view that needs the directory starts a fetch of its    *)
(* own, so walks overlap.  The server answers each page with what follows  *)
(* its cursor, or, if it does not keep its word, with any cursor.          *)
(***************************************************************************)
EXTENDS Naturals, SequencesExt

CONSTANTS
    Directory,     \* the users, in the order of the listing; a page is one of them
    MaxPages,      \* MAX_DIRECTORY_PAGES
    Cursor,        \* cursors a server hands out, 1..n
    Walk,          \* bound: slots for walks in flight, 1..n
    NoWalk

ASSUME DirectoryAssumption ==
    /\ Directory \in Seq(ToSet(Directory))
    /\ MaxPages \in Nat /\ Len(Directory) \in 1..MaxPages
    /\ 1..Len(Directory) \subseteq Cursor

VARIABLES
    honest,        \* the server's cursors are those of its listing
    users,
    loadingUsers,  \* isLoading
    usersError,    \* error: "none", "request", or "internal", the walk's own
    walks          \* walks[w]: a fetch in flight, or NoWalk

directoryVars == <<honest, users, loadingUsers, usersError, walks>>

----------------------------------------------------------------------------
NewWalk == [cursor |-> 1, consumed |-> {}, pageCount |-> 0, found |-> <<>>]

Free == {w \in Walk : walks[w] = NoWalk}

(* fetchUsers begins, in the first free slots, once per view that starts it. *)
StartWalks(ws) ==
    /\ ws \subseteq Free
    /\ \A w \in ws, v \in Free \ ws : w < v
    /\ walks' = [w \in Walk |-> IF w \in ws THEN NewWalk ELSE walks[w]]
    /\ IF ws = {} THEN UNCHANGED <<loadingUsers, usersError>>
       ELSE loadingUsers' = TRUE /\ usersError' = "none"
    /\ UNCHANGED <<honest, users>>

(* What the server may answer: a page, and the cursor that follows, 0 if    *)
(* the listing ends (UserService.listUsers, UserDao.findPage).  What else   *)
(* the pages of a server that lies hold does not matter.                    *)
Pages(cursor) ==
    IF honest
    THEN {[items |-> <<Directory[cursor]>>,
           next |-> IF cursor = Len(Directory) THEN 0 ELSE cursor + 1]}
    ELSE {[items |-> <<>>, next |-> n] : n \in Cursor \cup {0}}

(* Fault: only the last page is kept. *)
AccumulateLast(w, page) == page.items

Accumulate(w, page) == walks[w].found \o page.items

(* Fault: the guards are set up anew for every page. *)
CarryNothing(w, page) == [consumed |-> {}, pageCount |-> 0]

Carry(w, page) ==
    [consumed |-> walks[w].consumed \cup {page.next}, pageCount |-> walks[w].pageCount + 1]

(* Fault: the page that fills the cap is already beyond it. *)
OutrunAtCap(pageCount) == pageCount + 1 >= MaxPages

Outrun(pageCount) == pageCount >= MaxPages

(* Fault: a failure only shows its toast. *)
FinishSilently(w, found, failure) ==
    /\ walks' = [walks EXCEPT ![w] = NoWalk]
    /\ loadingUsers' = FALSE
    /\ users' = IF failure = "none" THEN found ELSE users
    /\ UNCHANGED usersError

Finish(w, found, failure) ==
    /\ walks' = [walks EXCEPT ![w] = NoWalk]
    /\ loadingUsers' = FALSE
    /\ IF failure = "none"
       THEN users' = found /\ UNCHANGED usersError
       ELSE usersError' = failure /\ UNCHANGED users

(* The page is answered, and the walk ends with it, or asks for the next.   *)
TakePage(w, page) ==
    LET found == Accumulate(w, page)
        carried == Carry(w, page)
    IN  IF page.next = 0 THEN Finish(w, found, "none")
        ELSE IF page.next \in walks[w].consumed \/ Outrun(carried.pageCount)
        THEN Finish(w, found, "internal")
        ELSE /\ walks' = [walks EXCEPT ![w] =
                   [cursor |-> page.next, found |-> found,
                    consumed |-> carried.consumed, pageCount |-> carried.pageCount]]
             /\ UNCHANGED <<users, loadingUsers, usersError>>

StepWalk(w) ==
    /\ walks[w] # NoWalk
    /\ \/ \E page \in Pages(walks[w].cursor) : TakePage(w, page)
       \/ Finish(w, <<>>, "request")
    /\ UNCHANGED honest

DirectoryInit ==
    /\ honest \in BOOLEAN
    /\ users = <<>> /\ loadingUsers = FALSE /\ usersError = "none"
    /\ walks = [w \in Walk |-> NoWalk]

Known(u) == Contains(users, u)

----------------------------------------------------------------------------
(* A fetch ends, whatever cursors it is given: "Two server bugs could       *)
(* otherwise hang the walk forever".                                        *)
WalksEnd == \A w \in Walk : walks[w] # NoWalk ~> walks[w] = NoWalk

(* "a truncated directory would make some assignee simply unpickable": what *)
(* the store holds is every user in order, or nothing yet, while walks are  *)
(* under way still the last complete one; and the guards against a server   *)
(* that lies never fail the walk of a listing within the cap.               *)
DirectorySound ==
    honest => users \in {<<>>, Directory} /\ usersError # "internal"
=============================================================================
