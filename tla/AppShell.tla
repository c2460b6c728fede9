------------------------------ MODULE AppShell ------------------------------
(***************************************************************************)
(* The routes of the client and what their views load: TaskTypesGate       *)
(* around everything, ConnectView at the root, MyTasksView with            *)
(* TaskDetailView in it, LegacyTaskRedirect for old links.  A view renders *)
(* first and its effects run later, but before anything renders again; the *)
(* gate unmounts all views whenever the task types load again, while their *)
(* requests live on.                                                       *)
(***************************************************************************)
EXTENDS UserDirectory

CONSTANTS
    Task,
    Assignee,      \* Assignee[t]: the user of task t, or NoUser if t is gone
    NoUser,
    TypeOf,        \* TypeOf[t]
    Types,         \* Types[r]: the task types of release r, 1 the oldest
    MaxAttempts,   \* MAX_LOAD_ATTEMPTS
    MaxGo,         \* bound: navigations
    NoTask

VARIABLES
    route,         \* the address: [view, user, task]
    types,         \* useTaskTypeStore.status
    load,          \* the load in flight: its attempt and whether it pauses
    definitions,   \* the release whose types the store holds, 0 if none
    cached,        \* the release whose body the browser's cache holds
    releases,      \* releases that serve: a deploy goes over from one to the next
    currentTask,
    fetches,       \* fetches[t]: views whose fetchTask of t is in flight
    hasFailed,     \* of the LegacyTaskRedirect that is mounted
    due,           \* effects of the views that rendered last, not yet run
    went           \* navigations so far

shellVars == <<route, types, load, definitions, cached, releases, currentTask,
               fetches, hasFailed, due, went>>

vars == <<directoryVars, shellVars>>

NoLoad == [attempt |-> 0, paused |-> FALSE]

At(view, u, t) == [view |-> view, user |-> u, task |-> t]

Root == At("root", NoUser, NoTask)

Routes ==
    {Root} \cup {At("list", u, NoTask) : u \in ToSet(Directory) \cup {NoUser}}
    \cup {At("detail", Assignee[t], t) : t \in {s \in Task : Assignee[s] # NoUser}}

Listing(r) == r.view \in {"list", "detail"}

----------------------------------------------------------------------------
(* The effects of the views that mount when the address goes from r to s    *)
(* (r = s: everything mounts).  TaskDetailView judges the directory as it   *)
(* was rendered with it, so that of an address just opened is still empty.  *)
Fetchers(r, s) ==
    (IF s.view = "root" \/ (Listing(s) /\ (r = s \/ ~Listing(r))) THEN {"view"} ELSE {})
    \cup (IF s.view = "detail" /\ (r = s \/ r.view # "detail") /\ users = <<>>
          THEN {"drawer"} ELSE {})

Loaders(r, s) ==
    IF s.view \in {"detail", "legacy"} /\ (r = s \/ r.view # s.view \/ r.task # s.task)
    THEN {[task |-> s.task, view |-> s.view]} ELSE {}

NoEffects == [fetchers |-> {}, loaders |-> {}]

(* The views of s are on the screen.  The redirect that was mounted no      *)
(* longer hears of its fetch; the store does.                               *)
Mount(r, s) ==
    /\ due' = [fetchers |-> Fetchers(r, s), loaders |-> Loaders(r, s)]
    /\ fetches' = {[f EXCEPT !.view = IF @ = "legacy" THEN "gone" ELSE @] : f \in fetches}
    /\ hasFailed' = FALSE

(* ... and their effects begin what they load. *)
RunEffects ==
    /\ due # NoEffects
    /\ \E ws \in SUBSET Walk :
          Cardinality(ws) = Cardinality(due.fetchers) /\ StartWalks(ws)
    /\ fetches' = fetches \cup due.loaders
    /\ due' = NoEffects
    /\ UNCHANGED <<route, types, load, definitions, cached, releases, currentTask,
                   hasFailed, went>>

(* A link, a row, a pick, or the browser's back and forward. *)
Go(s) ==
    /\ types = "ready" /\ due = NoEffects /\ went < MaxGo
    /\ s # route
    /\ route' = s /\ went' = went + 1
    /\ Mount(route, s)
    /\ UNCHANGED <<directoryVars, types, load, definitions, cached, releases, currentTask>>

(* fetchUsers again, from the retry button of UserGate. *)
RetryUsers ==
    /\ types = "ready" /\ due = NoEffects /\ route.view \in {"root", "list", "detail"}
    /\ ~loadingUsers
    /\ usersError # "none" \/ (Listing(route) /\ ~Known(route.user))
    /\ went < MaxGo /\ went' = went + 1
    /\ \E w \in Walk : StartWalks({w})
    /\ UNCHANGED <<route, types, load, definitions, cached, releases,
                   currentTask, fetches, hasFailed, due>>

----------------------------------------------------------------------------
(* The task that a fetch asked for is there, or it is not, or is not heard of. *)
AnswerTask(f) ==
    /\ fetches' = fetches \ {f}
    /\ \/ Assignee[f.task] # NoUser /\ currentTask' = f.task /\ UNCHANGED hasFailed
       \/ /\ hasFailed' = (hasFailed \/ f = [task |-> route.task, view |-> "legacy"])
          /\ UNCHANGED currentTask
    /\ UNCHANGED <<directoryVars, route, types, load, definitions, cached, releases,
                   due, went>>

(* Fault: only a task that is there ends the wait. *)
LandingIfFound == IF currentTask = route.task THEN {At("detail", Assignee[route.task], route.task)}
                  ELSE {}

(* LegacyTaskRedirect: the root if its fetch failed, else the task's list. *)
Landing ==
    IF hasFailed THEN {Root}
    ELSE IF currentTask = route.task
         THEN {At("detail", Assignee[route.task], route.task)} ELSE {}

Redirect ==
    /\ types = "ready" /\ due = NoEffects /\ route.view = "legacy"
    /\ \E s \in Landing : route' = s /\ Mount(route, s)
    /\ UNCHANGED <<directoryVars, types, load, definitions, cached, releases,
                   currentTask, went>>

----------------------------------------------------------------------------
(* loadTaskTypes begins.  The gate shows its placeholder: all views go.     *)
BeginLoad ==
    /\ types' = "loading"
    /\ load' = [attempt |-> 1, paused |-> FALSE]
    /\ hasFailed' = FALSE

(* The gate's effect, or its retry button. *)
StartLoad ==
    /\ types \in {"idle", "error"}
    /\ types = "error" => went < MaxGo
    /\ went' = IF types = "error" THEN went + 1 ELSE went
    /\ BeginLoad
    /\ UNCHANGED <<directoryVars, route, definitions, cached, releases, currentTask,
                   fetches, due>>

Unresolved == TypeOf[currentTask] \notin Types[definitions]

(* retryTypeResolution of the drawer: the types and the task, both again.   *)
RetryTypes ==
    /\ types = "ready" /\ due = NoEffects /\ route.view = "detail"
    /\ currentTask # NoTask /\ Unresolved
    /\ went < MaxGo /\ went' = went + 1
    /\ BeginLoad
    /\ fetches' = fetches \cup {[task |-> route.task, view |-> "detail"]}
    /\ UNCHANGED <<directoryVars, route, definitions, cached, releases, currentTask, due>>

(* etagOf: a digest of the body. *)
Etag(r) == Types[r]

NotModified(r) == cached # 0 /\ Etag(cached) = Etag(r)

(* Each release that serves may answer; the browser revalidates its copy.   *)
(* Ready, the gate mounts the views of the address.                         *)
TypesArrive(r) ==
    /\ definitions' = IF NotModified(r) THEN cached ELSE r
    /\ cached' = definitions'
    /\ types' = "ready" /\ load' = NoLoad
    /\ Mount(route, route)
    /\ UNCHANGED directoryVars

(* Fault: a pause does not count its attempt. *)
AttemptAgain == [attempt |-> load.attempt, paused |-> FALSE]

NextAttempt == [attempt |-> load.attempt + 1, paused |-> FALSE]

TypesFail ==
    /\ IF load.attempt = MaxAttempts
       THEN types' = "error" /\ load' = NoLoad
       ELSE load' = [load EXCEPT !.paused = TRUE] /\ UNCHANGED types
    /\ UNCHANGED <<directoryVars, definitions, cached, fetches, hasFailed, due>>

StepLoad ==
    /\ types = "loading"
    /\ \/ ~load.paused /\ (TypesFail \/ \E r \in releases : TypesArrive(r))
       \/ /\ load.paused
          /\ load' = NextAttempt
          /\ UNCHANGED <<directoryVars, types, definitions, cached, fetches, hasFailed,
                         due>>
    /\ UNCHANGED <<route, releases, currentTask, went>>

(* A rolling deploy begins, or its old instances are gone. *)
Deploy ==
    /\ \/ \E r \in releases : releases = {r} /\ r < Len(Types) /\ releases' = {r, r + 1}
       \/ \E r \in releases : r + 1 \in releases /\ releases' = {r + 1}
    /\ UNCHANGED <<directoryVars, route, types, load, definitions, cached, currentTask,
                   fetches, hasFailed, due, went>>

----------------------------------------------------------------------------
(* The page is opened at any address, old links included. *)
Init ==
    /\ DirectoryInit
    /\ route \in Routes \cup {At("legacy", NoUser, t) : t \in Task}
    /\ types = "idle" /\ load = NoLoad
    /\ definitions = 0 /\ releases = {1}
    /\ cached \in {0, 1}
    /\ currentTask = NoTask /\ fetches = {} /\ hasFailed = FALSE
    /\ due = NoEffects /\ went = 0

Walking(w) == StepWalk(w) /\ UNCHANGED shellVars

Next ==
    \/ \E w \in Walk : Walking(w)
    \/ \E s \in Routes : Go(s)
    \/ \E f \in fetches : AnswerTask(f)
    \/ RunEffects
    \/ RetryUsers \/ Redirect \/ StartLoad \/ RetryTypes \/ StepLoad \/ Deploy

(* Requests have a timeout, pauses a timer, and React runs its effects.     *)
Fairness ==
    /\ \A w \in Walk : WF_vars(Walking(w))
    /\ WF_vars(\E f \in fetches : AnswerTask(f))
    /\ WF_vars(RunEffects)
    /\ WF_vars(StepLoad) /\ WF_vars(StartLoad) /\ WF_vars(Redirect)

Spec == Init /\ [][Next]_vars /\ Fairness

----------------------------------------------------------------------------
(* The gate never stays at its placeholder: an attempt that fails is made   *)
(* again MAX_LOAD_ATTEMPTS times at most, then the user is told.            *)
LoadEnds == types \in {"idle", "loading"} ~> types \in {"ready", "error"}

(* Neither store leaves a view waiting: the types' load and every walk of   *)
(* the directory end, whatever the server answers.                          *)
LoadsEnd == LoadEnds /\ WalksEnd

(* An old link lands: on the task's own list, or at the root if the task    *)
(* cannot be loaded; it never spins forever.                                *)
OldLinksLand == route.view = "legacy" /\ types = "ready" ~> route.view # "legacy" \/ types # "ready"

ToldUnknown ==
    /\ types = "ready" /\ Listing(route)
    /\ ~loadingUsers /\ usersError = "none" /\ ~Known(route.user)

(* "unknown user" (MyTasksView, UserGate) is only said of a user who is not *)
(* in the directory, however walks overlap, fail or are retried, once the   *)
(* effects of the views on the screen have run.                             *)
UnknownIsUnknown ==
    (honest /\ due = NoEffects /\ ToldUnknown) => ~Contains(Directory, route.user)

(* ... before them too: the first render of an address finds no directory,  *)
(* no walk and no error.                                                    *)
NeverCalledUnknown == (honest /\ ToldUnknown) => ~Contains(Directory, route.user)

(* A user whom the loaded directory knows keeps the list.                   *)
KnownKeepsList ==
    (Listing(route) /\ types = "ready" /\ Known(route.user) /\ \A w \in Walk : walks[w] = NoWalk)
        => usersError = "none"
=============================================================================
