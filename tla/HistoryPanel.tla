---------------------------- MODULE HistoryPanel ----------------------------
(***************************************************************************)
(* The timeline of the drawer: TaskDetailView's effects, fetchTaskHistory  *)
(* and the store's history page, and the audit trails it reads.  The store *)
(* outlives the drawer, so a drawer opens on whatever the last one left.   *)
(***************************************************************************)
EXTENDS Naturals, SequencesExt

CONSTANTS
    Task,
    NoTask,
    FinalStatus,
    PageSize,      \* entries of a page
    MaxMoves,      \* bound: moves of tasks
    MaxOpens,      \* bound: drawers opened
    MaxCalls,      \* bound: calls in flight at once
    Settings       \* the conditions a behaviour may run under

ASSUME HistoryAssumption ==
    /\ NoTask \notin Task
    /\ FinalStatus \in Nat /\ PageSize \in Nat \ {0}
    /\ MaxMoves \in Nat /\ MaxOpens \in Nat /\ MaxCalls \in Nat
    /\ Settings \subseteq [fifo : BOOLEAN, flag : BOOLEAN, reversals : BOOLEAN,
                          reliable : BOOLEAN, primary : BOOLEAN]

VARIABLES
    setting,       \* [fifo: answers come in the order of the calls,
                   \*  flag: isLoading is still set while a page is in flight,
                   \*  reversals: tasks may move back,
                   \*  reliable: no call fails,
                   \*  primary: histories are read where they are written,
                   \*  not from a replica that lags]; it never changes
    trail,         \* trail[t]: statuses of the trail's entries, 0 for the close,
                   \* in the order of their commits
    began,         \* began[t]: when the transaction of each entry began
    shown,         \* the task of the drawer's route, or NoTask
    copy,          \* currentTask: the task and how much of its trail it reflects
    items,         \* historyItems: entries, as <<task, place in its trail>>
    next,          \* historyNextCursor: when the last entry served began, 0 if null
    isLoading,
    calls,         \* calls in flight, in their order
    opens,
    moves

historyVars ==
    <<setting, trail, began, shown, copy, items, next, isLoading, calls, opens, moves>>

NoCopy == [task |-> NoTask, upTo |-> 0]

Status(c) == trail[c.task][c.upTo]

FetchTask(t) == [kind |-> "task", task |-> t, after |-> 0, upTo |-> 0]

(* upTo: the trail's length when the server answered, 0 before. *)
FetchHistory(t, from) == [kind |-> "history", task |-> t, after |-> from, upTo |-> 0]

Ask(requests, others) ==
    /\ Len(others) + Len(requests) <= MaxCalls
    /\ calls' = others \o requests
    /\ isLoading' = IF requests = <<>> THEN isLoading ELSE TRUE

----------------------------------------------------------------------------
(* Fault: the effect only follows the status: a close goes unnoticed. *)
FollowStatus(c) ==
    IF shown # NoTask /\ (copy = NoCopy \/ (Status(c) # Status(copy) /\ Status(c) # 0))
    THEN <<FetchHistory(shown, 0)>> ELSE <<>>

(* The effect on the loaded status and closure: the first page, again. *)
Follow(c) ==
    IF shown # NoTask /\ (copy = NoCopy \/ Status(c) # Status(copy))
    THEN <<FetchHistory(shown, 0)>> ELSE <<>>

(* The drawer mounts: the task is read, and its history if any task is      *)
(* loaded.                                                                  *)
Open(t) ==
    /\ shown = NoTask /\ opens < MaxOpens
    /\ shown' = t /\ opens' = opens + 1
    /\ Ask(<<FetchTask(t)>> \o (IF copy = NoCopy THEN <<>> ELSE <<FetchHistory(t, 0)>>), calls)
    /\ UNCHANGED <<setting, trail, began, copy, items, next, moves>>

Close ==
    /\ shown # NoTask
    /\ shown' = NoTask
    /\ UNCHANGED <<setting, trail, began, copy, items, next, isLoading, calls, opens, moves>>

(* The link is back after a gap: the drawer reads its task again. *)
Refetch ==
    /\ shown # NoTask
    /\ Ask(<<FetchTask(shown)>>, calls)
    /\ UNCHANGED <<setting, trail, began, shown, copy, items, next, opens, moves>>

PageInFlight == \E i \in DOMAIN calls : calls[i].kind = "history"

(* handleLoadMoreHistory; the button is disabled while isLoading.           *)
LoadMore ==
    /\ shown # NoTask /\ copy # NoCopy
    /\ next # 0
    /\ ~isLoading /\ (setting.flag => ~PageInFlight)
    /\ Ask(<<FetchHistory(shown, next)>>, calls)
    /\ UNCHANGED <<setting, trail, began, shown, copy, items, next, opens, moves>>

(* Someone moves the task on, back, or closes it: one after another, by the *)
(* lock of its row, but an entry's created_at is the beginning of its       *)
(* transaction, which may be long before others that have committed.        *)
Move(t) ==
    /\ moves < MaxMoves /\ Last(trail[t]) # 0
    /\ moves' = moves + 1
    /\ \E s \in {Last(trail[t]) + 1, Last(trail[t]) - 1, 0} :
          /\ s <= FinalStatus
          /\ s = 0 => Last(trail[t]) = FinalStatus
          /\ s = Last(trail[t]) - 1 => setting.reversals /\ s > 0
          /\ trail' = [trail EXCEPT ![t] = Append(@, s)]
    /\ \E at \in 2 .. MaxMoves + 1 :
          /\ \A u \in Task : at \notin Range(began[u])
          /\ began' = [began EXCEPT ![t] = Append(@, at)]
    /\ UNCHANGED <<setting, shown, copy, items, next, isLoading, calls, opens>>

(* The order of the timeline: by created_at, ties by id. *)
Sooner(t, m, n) == began[t][m] < began[t][n]

(* Another copy of the current task: an answer to a change, which is later, *)
(* or an event, which need only have the later updated_at.                  *)
Hear ==
    /\ copy # NoCopy
    /\ \E n \in 1 .. Len(trail[copy.task]) :
          LET c == [copy EXCEPT !.upTo = n]
          IN  /\ n > copy.upTo \/ Sooner(copy.task, copy.upTo, n)
              /\ copy' = c /\ Ask(Follow(c), calls)
    /\ UNCHANGED <<setting, trail, began, shown, items, next, opens, moves>>

(* getById reads the primary, getHistoryPage the replica if there is one.   *)
Visible(call) ==
    IF call.kind = "task" \/ setting.primary THEN {Len(trail[call.task])}
    ELSE 1..Len(trail[call.task])

Serve(i) ==
    /\ calls[i].upTo = 0
    /\ setting.fifo => \A j \in 1..i-1 : calls[j].upTo # 0
    /\ \E n \in Visible(calls[i]) : calls' = [calls EXCEPT ![i].upTo = n]
    /\ UNCHANGED <<setting, trail, began, shown, copy, items, next, isLoading, opens, moves>>

----------------------------------------------------------------------------
(* getHistoryPage: what the database read holds beyond the cursor. *)
Beyond(call) == {n \in 1..call.upTo : call.after < began[call.task][n]}

In(page, n) == \E i \in DOMAIN page : page[i] = n

(* A page of it: oldest first, and full if there is more. *)
Pages(call) ==
    {page \in BoundedSeq(Beyond(call), PageSize) :
        /\ \A i, j \in DOMAIN page : i < j => Sooner(call.task, page[i], page[j])
        /\ \A n \in Beyond(call) : ~In(page, n) =>
              /\ Len(page) = PageSize
              /\ \A i \in DOMAIN page : Sooner(call.task, page[i], n)}

NextCursor(call, page) ==
    IF \E n \in Beyond(call) : ~In(page, n) THEN began[call.task][Last(page)] ELSE 0

Entries(call, page) == [i \in DOMAIN page |-> <<call.task, page[i]>>]

(* Fault: a page is put behind what is there, first page or not. *)
MergedAppending(call, page) == items \o Entries(call, page)

Merged(call, page) ==
    IF call.after = 0 THEN Entries(call, page) ELSE items \o Entries(call, page)

Answered(i) ==
    /\ calls[i].upTo # 0
    /\ setting.fifo => i = 1

Done(i) == RemoveAt(calls, i)

TakeHistory(i) ==
    /\ Answered(i) /\ calls[i].kind = "history"
    /\ \E page \in Pages(calls[i]) :
          /\ items' = Merged(calls[i], page)
          /\ next' = NextCursor(calls[i], page)
    /\ isLoading' = FALSE /\ calls' = Done(i)
    /\ UNCHANGED <<setting, trail, began, shown, copy, opens, moves>>

(* The read's answer replaces the copy; the effect's call sets isLoading    *)
(* again.                                                                   *)
TakeTask(i) ==
    /\ Answered(i) /\ calls[i].kind = "task"
    /\ LET c == [task |-> calls[i].task, upTo |-> calls[i].upTo]
           reload == Follow(c)
       IN  /\ copy' = c
           /\ Len(calls) - 1 + Len(reload) <= MaxCalls
           /\ calls' = Done(i) \o reload
           /\ isLoading' = (reload # <<>>)
    /\ UNCHANGED <<setting, trail, began, shown, items, next, opens, moves>>

Fail(i) ==
    /\ ~setting.reliable
    /\ setting.fifo => i = 1
    /\ isLoading' = FALSE /\ calls' = Done(i)
    /\ UNCHANGED <<setting, trail, began, shown, copy, items, next, opens, moves>>

HistoryInit ==
    /\ setting \in Settings
    /\ trail = [t \in Task |-> <<1>>] /\ began = [t \in Task |-> <<1>>]
    /\ shown = NoTask /\ copy = NoCopy
    /\ items = <<>> /\ next = 0
    /\ isLoading = FALSE /\ calls = <<>> /\ opens = 0 /\ moves = 0

HistoryNext ==
    \/ \E t \in Task : Open(t) \/ Move(t)
    \/ Close \/ Refetch \/ LoadMore \/ Hear
    \/ \E i \in DOMAIN calls : Serve(i) \/ TakeHistory(i) \/ TakeTask(i) \/ Fail(i)

HistorySpec == HistoryInit /\ [][HistoryNext]_historyVars

----------------------------------------------------------------------------
Calm ==
    [fifo |-> TRUE, flag |-> TRUE, reversals |-> FALSE, reliable |-> TRUE, primary |-> TRUE]

Orderly == setting \in {Calm, [Calm EXCEPT !.reversals = TRUE], [Calm EXCEPT !.primary = FALSE]}

CursorAt(entry) == began[entry[1]][entry[2]]

Shows(t, n) == \E i \in DOMAIN items : items[i] = <<t, n>>

(* What the store holds is of one task's trail, in its order, no entry      *)
(* twice; the cursor is where it ends; and up to there an entry is missing  *)
(* only if it came late: if it was committed after one that is shown though *)
(* its transaction began before that one's.  So it is, even when pages are  *)
(* read from replicas that lag differently.                                 *)
TimelineWhole ==
    /\ \A i, j \in DOMAIN items :
          /\ items[i][1] = items[j][1]
          /\ i < j => Sooner(items[i][1], items[i][2], items[j][2])
    /\ \A i \in DOMAIN items : LET t == items[i][1] IN
          \A n \in 1..Len(trail[t]) :
              (Sooner(t, n, items[i][2]) /\ ~Shows(t, n)) =>
                  \E j \in DOMAIN items :
                      Sooner(t, n, items[j][2]) /\ items[j][2] < n
    /\ next # 0 => items # <<>> /\ next = CursorAt(Last(items))

(* fetchTaskHistory keeps it so whenever answers keep the order of their    *)
(* calls and no other call's end re-enables "load more" early, replicas     *)
(* that lag and moves back included; and even when calls fail, the cursor   *)
(* is where the shown timeline ends.                                        *)
OrderlyTimelineWhole ==
    /\ Orderly => TimelineWhole
    /\ setting.fifo /\ setting.flag /\ next # 0 => next = CursorAt(Last(items))

(* With nothing in flight, the drawer's timeline is of the drawer's task,   *)
(* and shows every entry its copy of the task reflects, late ones included, *)
(* or offers more: "refreshes on any later move, including one made         *)
(* elsewhere".                                                              *)
TimelineFollows ==
    (shown # NoTask /\ calls = <<>> /\ copy.task = shown) =>
        /\ items # <<>> /\ items[1][1] = shown
        /\ \A n \in 1..copy.upTo :
              Shows(shown, n) \/ (next # 0 /\ next < began[shown][n])

CalmTimelineFollows == setting = Calm => TimelineFollows

(* "Oldest-first keyset page of one task's timeline", page by page, leaves  *)
(* nothing out: up to its last entry the timeline shows the whole trail.    *)
NothingLeftOut ==
    setting = Calm =>
        \A i \in DOMAIN items : LET t == items[i][1] IN
            \A n \in 1..Len(trail[t]) : Sooner(t, n, items[i][2]) => Shows(t, n)
=============================================================================
