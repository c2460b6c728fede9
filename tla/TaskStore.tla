------------------------------ MODULE TaskStore ------------------------------
(***************************************************************************)
(* The browser's task state (useTaskStore) under its views (MyTasksView    *)
(* and the task drawer, TaskDetailView), against a server other clients    *)
(* change at the same time.                                                *)
(*                                                                         *)
(* Two channels fill the store: the responses of REST calls, any of which  *)
(* may be late or fail, and the events of committed changes, delivered at  *)
(* most once and in any order.  A call is made, served and answered in     *)
(* three steps, and the store reads its own state when the answer comes.   *)
(*                                                                         *)
(* The server is its contract: one task type with two statuses, an event   *)
(* to the rooms of the task, its assignee and its previous assignee, and a *)
(* stamp (updated_at) on every change: the start of the transaction that   *)
(* made it, which is in the order of the commits only where transactions   *)
(* do not overlap.  A row's id is its place in creation order, the order   *)
(* of the list's keyset.                                                   *)
(***************************************************************************)
EXTENDS Naturals, SequencesExt

CONSTANTS
    User,          \* users; the views show one user's list
    Nobody,        \* "no list loaded yet"
    Settings       \* what a run lets happen: one of these, chosen at the start

VARIABLE
    setting        \* the setting of this behaviour; it never changes

(* kinds: the calls the views make; filters: the filters they choose from;  *)
(* existing: tasks at the start; reliable: no call fails, no event is lost  *)
(* or overtakes another; exclusive: one call at a time, no event meanwhile, *)
(* none outlives the list it was sent to; overlaps: a transaction may begin *)
(* before another of the same task commits.  maxTask, maxCommits, maxCalls  *)
(* (in flight at a time) and pageSize are bounds.                           *)
ASSUME SettingsAssumption ==
    \A s \in Settings :
        /\ s.kinds \subseteq {"list", "more", "task", "change", "close", "create"}
        /\ s.filters \subseteq {"all", "open", "closed"} /\ "all" \in s.filters
        /\ s.maxTask \in Nat /\ s.existing \in 0..s.maxTask /\ s.maxCommits \in Nat
        /\ s.maxCalls \in Nat \ {0} /\ s.pageSize \in Nat \ {0}
        /\ s.reliable \in BOOLEAN /\ s.exclusive \in BOOLEAN /\ s.overlaps \in BOOLEAN

FinalStatus == 2

TaskId == 1..setting.maxTask

NoTask == 0        \* "the drawer is closed", "no further page", "first page"

NoCopy == [id |-> NoTask]         \* null instead of a task

Idle == [kind |-> "none"]         \* no call in this slot

Slot == 1..setting.maxCalls

(* A row as the client receives it.  version, its place among all commits,  *)
(* is not in the code: the properties tell by it which copy is the later.   *)
Copy == [id : TaskId, assignee : User, status : 1..FinalStatus, isClosed : BOOLEAN,
         stamp : 0..setting.maxCommits, version : 0..setting.maxCommits]

Store == [items : Seq(Copy), nextCursor : TaskId \cup {NoTask},
          current : Copy \cup {NoCopy}, listUserId : User \cup {Nobody},
          listFilter : setting.filters, isLoading : BOOLEAN]

VARIABLES
    server,        \* server[t]: the committed row of t, or NoCopy
    commits,       \* the changes committed so far
    events,        \* events on their way to this client
    calls,         \* calls[s]: the call in flight in slot s, or Idle
    store,         \* the state of useTaskStore
    view           \* what the routes show: user, filter, task of the drawer

vars == <<setting, server, commits, events, calls, store, view>>

----------------------------------------------------------------------------
(* The store's own rules.                                                  *)

IsStale(payload, known) == payload.stamp <= known.stamp

MatchesFilter(copy, filter) ==
    filter = "all" \/ copy.isClosed = (filter = "closed")

(* belongsOnLoadedList *)
Belongs(copy, user, filter) ==
    copy.assignee = user /\ MatchesFilter(copy, filter)

InList(items, t) == \E i \in DOMAIN items : items[i].id = t

(* The first row of t on a list that has one. *)
RowOf(items, t) ==
    items[CHOOSE i \in DOMAIN items :
            items[i].id = t /\ \A j \in 1..(i - 1) : items[j].id # t]

(* The numbers of a finite set, lowest first. *)
Ascending(S) ==
    CHOOSE s \in [1..Cardinality(S) -> S] :
        \A i, j \in 1..Cardinality(S) : i < j => s[i] < s[j]

(* The list with every row of t filtered out. *)
Without(items, t) ==
    LET kept == Ascending({i \in DOMAIN items : items[i].id # t})
    IN  [k \in DOMAIN kept |-> items[kept[k]]]

ReplaceInList(items, copy) ==
    [i \in DOMAIN items |-> IF items[i].id = copy.id THEN copy ELSE items[i]]

(* Fault: what belongs is prepended, present or not. *)
ReconcilePrepending(st, copy) ==
    IF Belongs(copy, st.listUserId, st.listFilter) THEN <<copy>> \o st.items
    ELSE Without(st.items, copy.id)

(* Fault: what is present stays, belonging or not. *)
ReconcileKeeping(st, copy) ==
    IF InList(st.items, copy.id) THEN ReplaceInList(st.items, copy)
    ELSE IF Belongs(copy, st.listUserId, st.listFilter) THEN <<copy>> \o st.items
    ELSE st.items

(* reconcileListWithTask *)
Reconcile(st, copy) ==
    IF ~Belongs(copy, st.listUserId, st.listFilter) THEN Without(st.items, copy.id)
    ELSE IF InList(st.items, copy.id) THEN ReplaceInList(st.items, copy)
    ELSE <<copy>> \o st.items

(* Fault: only the open task is compared. *)
KnownIfOpen(st, t) ==
    IF st.current # NoCopy /\ st.current.id = t THEN st.current ELSE NoCopy

(* findKnownTask: the row of the list, else the open task. *)
Known(st, t) ==
    IF InList(st.items, t) THEN RowOf(st.items, t)
    ELSE IF st.current # NoCopy /\ st.current.id = t THEN st.current ELSE NoCopy

(* Fault: the event updates the list only. *)
ApplyEventToList(st, copy) ==
    LET known == Known(st, copy.id)
    IN  IF known # NoCopy /\ IsStale(copy, known) THEN st
        ELSE [st EXCEPT !.items = Reconcile(st, copy)]

(* Fault: the event is merged into the copy known, whose assignee stays.    *)
ApplyEventMerging(st, copy) ==
    LET known == Known(st, copy.id)
        merged == IF known = NoCopy THEN copy ELSE [copy EXCEPT !.assignee = known.assignee]
    IN  IF known # NoCopy /\ IsStale(copy, known) THEN st
        ELSE [st EXCEPT !.items = Reconcile(st, merged),
                        !.current = IF @ # NoCopy /\ @.id = copy.id THEN merged ELSE @]

(* applyTaskEvent *)
ApplyEvent(st, copy) ==
    LET known == Known(st, copy.id)
    IN  IF known # NoCopy /\ IsStale(copy, known) THEN st
        ELSE [st EXCEPT !.items = Reconcile(st, copy),
                        !.current = IF @ # NoCopy /\ @.id = copy.id THEN copy ELSE @]

(* What createTask, changeTaskStatus and closeTask do with their response. *)
TakeMutation(st, copy) ==
    [st EXCEPT !.current = copy, !.items = Reconcile(st, copy)]

TakeTask(st, copy) ==
    [st EXCEPT !.current = copy, !.items = ReplaceInList(@, copy)]

TakePage(st, call) ==
    [st EXCEPT !.items = IF call.cursor = NoTask THEN call.answer.rows
                         ELSE @ \o call.answer.rows,
               !.nextCursor = call.answer.next,
               !.listUserId = call.user,
               !.listFilter = call.filter]

----------------------------------------------------------------------------
(* The server's contract.                                                  *)

(* Fault: the cursor is the first row of the next page, which that page,    *)
(* strictly after the cursor, then skips.                                   *)
NextCursorSkipping(ids) == IF Len(ids) > setting.pageSize THEN ids[setting.pageSize + 1] ELSE NoTask

NextCursor(ids) == IF Len(ids) > setting.pageSize THEN ids[setting.pageSize] ELSE NoTask

(* findPageByAssignee: newest first, strictly after the cursor. *)
PageAfter(user, filter, cursor) ==
    LET found == {t \in TaskId : /\ server[t] # NoCopy
                                 /\ Belongs(server[t], user, filter)
                                 /\ cursor = NoTask \/ t < cursor}
        ids == Reverse(Ascending(found))
        shown == SubSeq(ids, 1, IF Len(ids) < setting.pageSize THEN Len(ids) ELSE setting.pageSize)
    IN  [rows |-> [i \in DOMAIN shown |-> server[shown[i]]],
         next |-> NextCursor(ids)]

(* One committed change: the row, and its event to the rooms it targets.   *)
CommitChange(copy) ==
    LET old == server[copy.id]
        users == {copy.assignee} \cup (IF old = NoCopy THEN {} ELSE {old.assignee})
    IN  /\ commits < setting.maxCommits
        /\ commits' = commits + 1
        /\ server' = [server EXCEPT ![copy.id] = copy]
        /\ events' = IF view.user \in users \/ view.task = copy.id
                     THEN events \cup {copy} ELSE events

(* When the transaction of a change may have begun: now() does not move    *)
(* while it waits for the lock of the row, and others commit.  Stamps are   *)
(* compared within a task only, and all are after its creation.             *)
Stamps == IF setting.overlaps THEN 1..setting.maxCommits ELSE {commits + 1}

Fresh(t, user) == [id |-> t, assignee |-> user, status |-> 1, isClosed |-> FALSE,
                   stamp |-> IF setting.overlaps THEN 0 ELSE commits + 1,
                   version |-> commits + 1]

Stepped(copy, dir, user, at) ==
    [copy EXCEPT !.status = IF dir = "forward" THEN @ + 1 ELSE @ - 1,
                 !.assignee = user, !.stamp = at, !.version = commits + 1]

Closed(copy, at) == [copy EXCEPT !.isClosed = TRUE, !.stamp = at, !.version = commits + 1]

(* Fault: one status too many. *)
CanStepOffByOne(copy, dir) ==
    ~copy.isClosed /\ IF dir = "forward" THEN copy.status <= FinalStatus ELSE copy.status > 1

CanStep(copy, dir) ==
    ~copy.isClosed /\ IF dir = "forward" THEN copy.status < FinalStatus ELSE copy.status > 1

CanClose(copy) == ~copy.isClosed /\ copy.status = FinalStatus

NextNew(t) == server[t] = NoCopy /\ \A u \in 1..(t - 1) : server[u] # NoCopy

(* Why the server refuses a mutation of the row it holds, "" if it does not. *)
Refusal(call) ==
    LET row == server[call.task]
    IN  IF row.isClosed THEN "TASK_CLOSED"
        ELSE IF call.kind = "change" /\ row.status # call.expected THEN "TASK_STATE_CONFLICT"
        ELSE IF call.kind = "close" /\ row.status # FinalStatus THEN "TASK_NOT_AT_FINAL_STATUS"
        ELSE ""

----------------------------------------------------------------------------
(* Calls: made by the views, served by the server, answered to the store.  *)

ListCall(user, filter, cursor) ==
    [kind |-> "list", outcome |-> "pending", answer |-> NoCopy,
     user |-> user, filter |-> filter, cursor |-> cursor]

TaskCall(t) == [kind |-> "task", outcome |-> "pending", answer |-> NoCopy, task |-> t]

ChangeCall(copy, dir, user) ==
    [kind |-> "change", outcome |-> "pending", answer |-> NoCopy, task |-> copy.id,
     expected |-> copy.status, dir |-> dir, next |-> user]

CloseCall(t) == [kind |-> "close", outcome |-> "pending", answer |-> NoCopy, task |-> t]

CreateCall(user) ==
    [kind |-> "create", outcome |-> "pending", answer |-> NoCopy, next |-> user]

Busy == {s \in Slot : calls[s] # Idle}

(* Every store action begins with set({ isLoading: true }) and its request. *)
Call(kind, call) ==
    /\ kind \in setting.kinds
    /\ setting.exclusive => Busy = {}
    /\ \E s \in Slot \ Busy :
          /\ \A r \in 1..(s - 1) : r \in Busy
          /\ calls' = [calls EXCEPT ![s] = call]
    /\ store' = [store EXCEPT !.isLoading = TRUE]
    /\ UNCHANGED <<server, commits, events>>

(* Two effects of one render, or two handlers of one event: a list and a    *)
(* task are asked for together.                                             *)
CallBoth(user, filter, t) ==
    /\ {"list", "task"} \subseteq setting.kinds
    /\ ~setting.exclusive
    /\ \E r, s \in Slot \ Busy :
          /\ r < s
          /\ \A q \in 1..(s - 1) : q \in Busy \cup {r}
          /\ calls' = [calls EXCEPT ![r] = ListCall(user, filter, NoTask),
                                   ![s] = TaskCall(t)]
    /\ store' = [store EXCEPT !.isLoading = TRUE]
    /\ UNCHANGED <<server, commits, events>>

(* Another user's list is shown; the drawer over the old one is gone. *)
ShowUser(u) ==
    /\ u # view.user
    /\ setting.exclusive => events = {}
    /\ view' = [view EXCEPT !.user = u, !.task = NoTask]
    /\ Call("list", ListCall(u, view.filter, NoTask))

ShowFilter(f) ==
    /\ f # view.filter
    /\ view.task = NoTask
    /\ view' = [view EXCEPT !.filter = f]
    /\ Call("list", ListCall(view.user, f, NoTask))

(* The button is disabled while isLoading. *)
LoadMore ==
    /\ store.nextCursor # NoTask
    /\ ~store.isLoading
    /\ view.task = NoTask
    /\ Call("more", ListCall(view.user, view.filter, store.nextCursor))
    /\ UNCHANGED view

(* The drawer opens on a task, whatever currentTask is: a row is selected,  *)
(* or the browser's history leads back to a task, listed or not.            *)
OpenDrawer(t) ==
    /\ t # view.task
    /\ server[t] # NoCopy
    /\ view' = [view EXCEPT !.task = t]
    /\ Call("task", TaskCall(t))

(* The history leads back to a task over another user's list. *)
FollowLink(u, t) ==
    /\ u # view.user
    /\ server[t] # NoCopy
    /\ view' = [view EXCEPT !.user = u, !.task = t]
    /\ CallBoth(u, view.filter, t)

(* realtime:reconnected, after events may have been missed: the list's hook *)
(* reads its first page again, and the drawer's its task.                   *)
Reconnected ==
    /\ ~setting.reliable
    /\ IF view.task = NoTask THEN Call("list", ListCall(view.user, view.filter, NoTask))
       ELSE CallBoth(view.user, view.filter, view.task)
    /\ UNCHANGED view

CloseDrawer ==
    /\ view.task # NoTask
    /\ view' = [view EXCEPT !.task = NoTask]
    /\ UNCHANGED <<server, commits, events, calls, store>>

(* Advance and reverse act on currentTask, the task the drawer renders. *)
SubmitChange(dir, u) ==
    /\ view.task # NoTask
    /\ store.current # NoCopy
    /\ ~store.isLoading
    /\ CanStep(store.current, dir)
    /\ Call("change", ChangeCall(store.current, dir, u))
    /\ UNCHANGED view

(* The close is confirmed in a dialog, which isLoading does not disable. *)
SubmitClose ==
    /\ view.task # NoTask
    /\ store.current # NoCopy
    /\ CanClose(store.current)
    /\ Call("close", CloseCall(store.current.id))
    /\ UNCHANGED view

SubmitCreate(u) ==
    /\ view.task = NoTask
    /\ ~store.isLoading
    /\ Call("create", CreateCall(u))
    /\ UNCHANGED view

Answered(s, outcome, answer) ==
    calls' = [calls EXCEPT ![s].outcome = outcome, ![s].answer = answer]

ServeRead(s) ==
    /\ calls[s].kind \in {"list", "task"}
    /\ Answered(s, "ok", IF calls[s].kind = "task" THEN server[calls[s].task]
                         ELSE PageAfter(calls[s].user, calls[s].filter, calls[s].cursor))
    /\ UNCHANGED <<server, commits, events>>

ServeCreate(s) ==
    /\ calls[s].kind = "create"
    /\ \E t \in TaskId :
          /\ NextNew(t)
          /\ CommitChange(Fresh(t, calls[s].next))
          /\ Answered(s, "ok", Fresh(t, calls[s].next))

ServeMutation(s) ==
    /\ calls[s].kind \in {"change", "close"}
    /\ Refusal(calls[s]) = ""
    /\ LET row == server[calls[s].task]
       IN  \E at \in Stamps :
              LET new == IF calls[s].kind = "close" THEN Closed(row, at)
                         ELSE Stepped(row, calls[s].dir, calls[s].next, at)
              IN  CommitChange(new) /\ Answered(s, "ok", new)

Refuse(s) ==
    /\ calls[s].kind \in {"change", "close"}
    /\ Refusal(calls[s]) # ""
    /\ Answered(s, Refusal(calls[s]), NoCopy)
    /\ UNCHANGED <<server, commits, events>>

(* The request, or the response of a call already served, is lost. *)
Fail(s) ==
    /\ ~setting.reliable
    /\ calls[s].outcome \in {"pending", "ok"}
    /\ Answered(s, "NETWORK", NoCopy)
    /\ UNCHANGED <<server, commits, events>>

Serve(s) ==
    /\ s \in Busy
    /\ \/ /\ calls[s].outcome = "pending"
          /\ ServeRead(s) \/ ServeCreate(s) \/ ServeMutation(s) \/ Refuse(s)
       \/ Fail(s)
    /\ UNCHANGED <<store, view>>

Taken(st, call) ==
    IF call.kind = "list" THEN TakePage(st, call)
    ELSE IF call.kind = "task" THEN TakeTask(st, call.answer)
    ELSE TakeMutation(st, call.answer)

(* The response is taken into the store as it is now; isLoading ends. *)
TakeAnswer(s) ==
    /\ s \in Busy
    /\ calls[s].outcome = "ok"
    /\ store' = [Taken(store, calls[s]) EXCEPT !.isLoading = FALSE]
    /\ calls' = [calls EXCEPT ![s] = Idle]
    /\ UNCHANGED <<server, commits, events, view>>

(* Fault: the flag is cleared by a success only. *)
TakeErrorStillLoading(s) ==
    /\ s \in Busy
    /\ calls[s].outcome \notin {"pending", "ok"}
    /\ calls' = [calls EXCEPT ![s] =
                    IF calls[s].outcome = "TASK_STATE_CONFLICT"
                    THEN TaskCall(calls[s].task) ELSE Idle]
    /\ UNCHANGED <<server, commits, events, store, view>>

(* handleTaskRequestFailure: only a TASK_STATE_CONFLICT refetches the task, *)
(* a call that starts before the finally block ends isLoading.              *)
TakeError(s) ==
    /\ s \in Busy
    /\ calls[s].outcome \notin {"pending", "ok"}
    /\ store' = [store EXCEPT !.isLoading = FALSE]
    /\ calls' = [calls EXCEPT ![s] =
                    IF calls[s].outcome = "TASK_STATE_CONFLICT"
                    THEN TaskCall(calls[s].task) ELSE Idle]
    /\ UNCHANGED <<server, commits, events, view>>

(* The list's hook, and the drawer's while it is open, each apply it. *)
TakeEvent(e) ==
    /\ e \in events
    /\ setting.reliable => \A d \in events : e.version <= d.version
    /\ setting.exclusive => Busy = {}
    /\ events' = events \ {e}
    /\ LET once == ApplyEvent(store, e)
       IN  store' = IF view.task = NoTask THEN once ELSE ApplyEvent(once, e)
    /\ UNCHANGED <<server, commits, calls, view>>

LoseEvent(e) ==
    /\ ~setting.reliable
    /\ e \in events
    /\ events' = events \ {e}
    /\ UNCHANGED <<server, commits, calls, store, view>>

(* Other clients change tasks. *)
OtherClient ==
    /\ \/ \E t \in TaskId, u \in User : NextNew(t) /\ CommitChange(Fresh(t, u))
       \/ \E t \in TaskId, at \in Stamps :
             /\ server[t] # NoCopy
             /\ \/ \E dir \in {"forward", "backward"}, u \in User :
                      CanStep(server[t], dir) /\ CommitChange(Stepped(server[t], dir, u, at))
                \/ CanClose(server[t]) /\ CommitChange(Closed(server[t], at))
    /\ UNCHANGED <<calls, store, view>>

ViewStep ==
    \/ \E u \in User : ShowUser(u)
    \/ \E f \in setting.filters : ShowFilter(f)
    \/ LoadMore
    \/ \E t \in TaskId : OpenDrawer(t)
    \/ \E u \in User, t \in TaskId : FollowLink(u, t)
    \/ Reconnected
    \/ CloseDrawer
    \/ \E dir \in {"forward", "backward"}, u \in User : SubmitChange(dir, u)
    \/ SubmitClose
    \/ \E u \in User : SubmitCreate(u)

Next ==
    /\ \/ ViewStep
       \/ OtherClient
       \/ \E s \in Slot : Serve(s) \/ TakeAnswer(s) \/ TakeError(s)
       \/ \E e \in events : TakeEvent(e) \/ LoseEvent(e)
    /\ UNCHANGED setting

(* A list may be mounted with the drawer over it, by a deep link: two calls. *)
MayDeepLink == {"list", "task"} \subseteq setting.kinds /\ ~setting.exclusive /\ 2 \in Slot

(* The list of a user is mounted, its first page on the way. *)
Init ==
    /\ setting \in Settings
    /\ commits = 0
    /\ \E holder \in [TaskId -> User], u \in User :
          /\ server = [t \in TaskId |-> IF t <= setting.existing THEN
                          [id |-> t, assignee |-> holder[t], status |-> 1,
                           isClosed |-> FALSE, stamp |-> 0, version |-> 0] ELSE NoCopy]
          /\ \A t \in (setting.existing + 1)..setting.maxTask : holder[t] = u
          /\ \E link \in {NoTask} \cup (IF MayDeepLink THEN 1..setting.existing ELSE {}) :
                /\ view = [user |-> u, filter |-> "all", task |-> link]
                /\ calls = [s \in Slot |-> IF s = 1 THEN ListCall(u, "all", NoTask)
                                           ELSE IF s = 2 /\ link # NoTask THEN TaskCall(link)
                                           ELSE Idle]
    /\ events = {}
    /\ store = [items |-> <<>>, nextCursor |-> NoTask, current |-> NoCopy,
                listUserId |-> Nobody, listFilter |-> "all", isLoading |-> TRUE]

Spec == Init /\ [][Next]_vars

----------------------------------------------------------------------------
(* Every part of the state has its type. *)
TypeOK ==
    /\ setting \in Settings
    /\ server \in [TaskId -> Copy \cup {NoCopy}]
    /\ commits \in 0..setting.maxCommits
    /\ events \in SUBSET Copy
    /\ \A s \in Busy :
          calls[s].outcome = "ok" =>
              IF calls[s].kind = "list" THEN calls[s].answer.rows \in Seq(Copy)
              ELSE calls[s].answer \in Copy
    /\ store \in Store
    /\ view \in [user : User, filter : setting.filters, task : TaskId \cup {NoTask}]

(* A task is one row of the list: the README says that the store "appends   *)
(* new pages without duplicating rows at boundaries".                       *)
NoDuplicateRows ==
    \A i, j \in DOMAIN store.items :
        store.items[i].id = store.items[j].id => i = j

(* It is so, whatever response or event brought the row, until a further    *)
(* page is loaded.                                                          *)
UnpagedRowsOnce == "more" \notin setting.kinds => NoDuplicateRows

(* Nothing of the server's state that an event, a response or a row carries *)
(* is invented: each copy of a task the client holds is of no later commit  *)
(* than the server's row, and the same row if it is of the same commit.     *)
Genuine(copy) ==
    /\ copy.version <= server[copy.id].version
    /\ copy.version = server[copy.id].version => copy = server[copy.id]
    /\ ~setting.overlaps => copy.stamp = copy.version

CopiesAreGenuine ==
    /\ \A i \in DOMAIN store.items : Genuine(store.items[i])
    /\ store.current # NoCopy => Genuine(store.current)

(* An event never takes a row of the list back to an older stamp, whatever  *)
(* the order events arrive in (applyTaskEvent's staleness guard).           *)
RowsNeverGoBackOnEvent ==
    [][\A e \in events : TakeEvent(e) =>
          \A t \in TaskId :
              (InList(store.items, t) /\ InList(store'.items, t)) =>
                  RowOf(store'.items, t).stamp >= RowOf(store.items, t).stamp]_vars

(* "The server's commit timestamp", whose comparison "equals chronological  *)
(* comparison" (isStaleEvent): an event dropped as stale is of no later     *)
(* commit than the copy it is compared with.                                *)
StaleIsOlder ==
    [][\A e \in events :
          LET known == Known(store, e.id)
          IN  (TakeEvent(e) /\ known # NoCopy /\ IsStale(e, known)) =>
                  e.version <= known.version]_vars

(* A copy of the latest commit; or, where transactions overlap and stamps   *)
(* are all the client has to go by, one with a stamp as late as that one's. *)
UpToDate(copy) ==
    \/ copy = server[copy.id]
    \/ setting.overlaps /\ copy.stamp >= server[copy.id].stamp

Settled == events = {} /\ Busy = {}

(* Once every event has arrived and no call is in flight, the list of the   *)
(* user and filter shown holds an up-to-date copy of every task that        *)
(* belongs on the pages loaded so far: paging skipped none, and neither did *)
(* the staleness guard drop the event that brought one.                     *)
SettledListComplete ==
    Settled => \A t \in TaskId :
        (/\ server[t] # NoCopy
         /\ Belongs(server[t], view.user, view.filter)
         /\ t >= store.nextCursor) =>
            \E i \in DOMAIN store.items : store.items[i].id = t /\ UpToDate(store.items[i])

Calm == setting.reliable /\ setting.exclusive

(* Once settled, the open drawer shows an up-to-date copy of its task. *)
SettledDrawerCurrent ==
    (Settled /\ view.task # NoTask) =>
        store.current # NoCopy /\ store.current.id = view.task /\ UpToDate(store.current)

(* While calls do not overlap and events keep their order, it does, whoever *)
(* changes the task, and whatever is submitted and refused meanwhile.       *)
CalmDrawerCurrent == Calm => SettledDrawerCurrent

(* A row of the loaded list belongs on it: "a task that no longer belongs   *)
(* on the loaded page ... leaves it" (reconcileListWithTask).               *)
RowsBelong ==
    \A i \in DOMAIN store.items :
        Belongs(store.items[i], store.listUserId, store.listFilter)

(* The list alone: the drawer stays closed, and where transactions overlap  *)
(* nothing is created here (a new task stays in currentTask, and is known). *)
ListAlone ==
    /\ setting.kinds \cap {"task", "change", "close"} = {}
    /\ setting.overlaps => "create" \notin setting.kinds

(* While calls do not overlap, events keep their order and the drawer stays *)
(* closed, the loaded list is exact: every row belongs on it at every       *)
(* moment, and once settled none of its tasks is missing or outdated.       *)
CalmListExact == (Calm /\ ListAlone) => RowsBelong /\ SettledListComplete

(* The controls come back: isLoading, one flag for every call, is never     *)
(* left set when no call is in flight, however the calls overlapped or      *)
(* failed.                                                                  *)
LoadingEnds == store.isLoading => Busy # {}

(* What holds of the store in every environment, reliable or not: the types *)
(* of its state, one row per task on an unpaged list, a flag that ends.     *)
StoreInv ==
    /\ TypeOK
    /\ UnpagedRowsOnce
    /\ LoadingEnds

(* TaskListSection shows "the loaded page for the current user/filter       *)
(* pair": with no call in flight, the page loaded is that of the pair.      *)
ListIsOfView ==
    Busy = {} => store.listUserId = view.user /\ store.listFilter = view.filter

(* "the mutations ... only ever touch the task already open": the answer of *)
(* a change or close is never that of a task other than the drawer's.       *)
MutationTouchesOpenTask ==
    [][\A s \in Slot :
          (s \in Busy /\ calls[s].kind \in {"change", "close"} /\ TakeAnswer(s)) =>
              view.task \in {NoTask, calls[s].task}]_vars

(* "the exact staleness guard it already trusts for its own mutations": the *)
(* answer of a mutation never takes the open task back to an older copy.    *)
ResponseNeverGoesBack ==
    [][\A s \in Slot :
          (s \in Busy /\ calls[s].kind \in {"change", "close"} /\ TakeAnswer(s)
             /\ store.current # NoCopy /\ store.current.id = calls[s].task) =>
              store'.current.stamp >= store.current.stamp]_vars

(* isSubmitting is "true while an advance/reverse/close request is in       *)
(* flight".                                                                 *)
SubmittingWhileInFlight ==
    (\E s \in Busy : calls[s].kind \in {"change", "close"}) => store.isLoading

(* "a stale conflict resolves itself: the store refetches": a mutation the  *)
(* server refused because the task had moved on is followed by a read of    *)
(* that task.                                                               *)
StaleRefusalRefetches ==
    [][\A s \in Slot :
          (/\ s \in Busy /\ TakeError(s)
           /\ calls[s].outcome \in {"TASK_CLOSED", "TASK_STATE_CONFLICT",
                                    "TASK_NOT_AT_FINAL_STATUS"}) =>
              \E r \in Slot : /\ calls'[r] # Idle
                              /\ calls'[r].kind = "task"
                              /\ calls'[r].task = calls[s].task]_vars
=============================================================================
