# Verification of the task management platform

TLA+ specifications of the task management platform, the TLC configurations that
model-check them, and proofs checked by TLAPS. Paths below are relative to the
repository; `TS` is `backend-services/task-service/src`, `SH` is
`backend-services/libs/core/shared/src`, `FE` is `frontend-application/task-app/src`.

    tlc -workers 2 -config MCTaskService.cfg MCTaskService    # model-check
    tlapm TaskServiceProofs.tla                               # check proofs

## 1. The system

Browsers (React, zustand stores) talk to a NestJS task service over REST and hear of
changes over socket.io. Several instances of the service share one PostgreSQL database
and fan events out to each other through a Redis adapter.

| Component | State it keeps | Operations | What makes it correct | Module |
|---|---|---|---|---|
| Task write path: `TS/task/task.service.ts`, its write DAOs, `TS/domain/task.dao.ts` | rows of `tasks` and `task_status_history`; row locks; open transactions; events of committed changes | `createTask`, `changeStatus` (forward, backward), `closeTask`, publish after commit | no lost update; row and audit trail change together and never disagree; required fields are never lost; closed is final; events announce what was committed to whoever held the task | `TaskLifecycle` (promise), `TaskService` (code), `TaskClients` (with clients) |
| Listings: `SH/dao/base.dao.ts`, `keyset-cursor.ts`, `microsecond-timestamp.ts` | none between two pages but the client's cursor | next page of tasks, users, history | a walk repeats no row and skips none that was there all along | `KeysetPage` |
| Task type registry: `TS/task-type/task-type.registry.ts` | the definitions an instance booted with | boot checks, `finalStatusOf`, `statusDefinitionOf` | what an instance serves fits what earlier releases persisted | `TaskTypes` |
| Field validator: `TS/task-type/field-validator.service.ts`, `SH/sanitizers/` | none | `validate` | what it lets through is sanitized and within its descriptor; a refusal names everything wrong at once | `FieldValidator`; its verdict is a guard of `TaskService` |
| Partition maintenance: `TS/infrastructure/database/partitioning/` | monthly partitions, advisory lock | cron and startup run | one creator at a time; the current month always has a partition; the lock is freed | `PartitionMaintenance` |
| Gateway and publisher: `TS/realtime/` | rooms of each connection, connection cap | connect, join, leave, disconnect; targeting of an event | cap kept; events reach the rooms of the task and of both assignees | `RealtimeLink`, `TaskService` |
| Socket client and hooks: `FE/core/services/RealtimeService.ts`, `FE/features/tasks/hooks/useTaskRealtime.ts` | the rooms views hold | join, leave, reconnect, refetch | after a reconnect rooms are held again and what was missed is read | `RealtimeLink` |
| Client task store and its views: `FE/features/tasks/stores/useTaskStore.ts`, `MyTasksView`, `TaskDetailView` | list, cursor, open task, user and filter loaded, `isLoading` | fetch list / page / task, create, change, close, apply event, failure handling | converges on the server's state whatever the order of answers and events; never shows a task twice, or where it does not belong | `TaskStore` |
| History panel: `fetchTaskHistory`, the drawer's effects, `HistoryTimeline` | timeline, cursor, calls in flight | read task, read and append pages, follow the task | the timeline is one task's, without hole or repetition, and keeps up with the task | `HistoryPanel` |
| Forms and errors: `DynamicFieldsForm`, `TaskDetailView.submitAdvance`, `BaseHttpService`, `HttpExceptionFilter` | typed values, highlighted fields, the store's error | type, submit, correct; exception to envelope to text | a form that shows no problem is accepted; a refusal can be acted on; the text tells the cause | `AdvanceForm`, `ApiErrors` |
| User directory: `FE/features/tasks/stores/useCurrentUserStore.ts`, `UserGate` | users, flags, walks in flight | `fetchUsers` | every walk ends and is complete; nobody of the directory is called unknown once the views' effects have run | `UserDirectory` |
| Routes, gate and task types: `FE/core/router/`, `TaskTypesGate`, `useTaskTypeStore.ts`, `SH/http/conditional-get*.ts` | address, status of the load, cached body | navigate, load, retry, revalidate, redirect | the load ends; old links land | `AppShell` |
| Event bus, toasts, modals, drawer, focus trap: `FE/core/bus/`, `FE/shared/components/` | handlers, toasts and timers, open dialogs, focus | emit, subscribe, open, close, Tab, Escape | no handler is lost or doubled; toasts leave; Tab stays in the dialog | `Overlays` |
| Select: `FE/shared/components/Select/Select.tsx` | open panel, highlighted option, value | keys, mouse, options that change | the highlighted option exists | `Select` |
| Start-up: `TS/infrastructure/config/`, `TS/main.ts`, migration job, `docker-compose.yml`, `package.json` | environment, `.env`, what compose has given its containers, configuration | load, start on a host or in a container, migrate by hand or by compose | an instance works on the database, and with the login, of the migration job that goes with it | `Startup` |
| Logging, metrics, health, seeds, presentation, build | | | | not modelled (section 8) |

Interactions: a REST call runs one service method, which for a mutation runs one
database transaction and then publishes one event. The gateway fans the event out to
the rooms `task:{id}` and `user:{id}`. The socket client puts it on the in-browser event
bus, and each mounted hook applies it to the store. The same store takes the answers of
REST calls. Nothing orders the two channels, nor two calls.

What is hard here: transactions of one task interleaving between any two statements;
failure between the two writes of a transaction; timestamps taken when a transaction
STARTS; events that are lost, late or reordered; answers taken into a store that has
moved on; connections that drop between read and join; releases that overlap;
advisory locks that belong to a session and not to a run; views that start the same load
twice and judge by one shared flag; forms and validators that judge a text each in their
own way; key listeners of two dialogs that hear the same key. `PROJECT.json` lists each
hazard at its line.

## 2. Modules

    TaskData ── TaskLifecycle ◄── refinement ── TaskService ── TaskClients
       │             │                                            │
    TaskDataProofs ─ TaskLifecycleProofs ────────────── TaskServiceProofs

    TaskTypes, Startup ──── OperationsProofs    FieldValidator ──┐
    PartitionMaintenance ────────┘              ApiErrors ───────┴─ AdvanceForm
    KeysetPage ──┬──────────── ListingProofs       AdvanceForm ── AdvanceFormProofs
    TaskStore ───┼─────────────────┘            UserDirectory ── AppShell ── AppShellProofs
    HistoryPanel ┴─ MCPages                     Select ── Overlays ───────┘
    HistoryPanel, RealtimeLink ── SyncProofs

Each `MC…` module extends its specification and gives the constants a small instance.

**`TaskData`**: rows, audit entries and the registry, without timestamps. `Merge` is the
object spread of `changeStatus`; `MovedRow`, `ClosedRow`, `NewRow` are what the DAO's
statements leave. Custom field values are model values: what is told apart is which
fields are held and whether a value is acceptable.

**`TaskLifecycle`**: the abstract specification of a task: `Create`, `Advance`, `Reverse`,
`Close`, each one atomic change of row and trail. Its invariants are what an auditor of the
service would ask for: `AuditTrail` (unbroken single-step chain that describes the row),
`FieldsReplay` (the row's fields are the replay of the snapshots), `RequiredFieldsHeld` and
`ClosedAtFinal`.

**`TaskService`**: the same operations as the code runs them. `tx[c]` is the transaction
open on pooled connection `c`, and one action stands for each statement: `Begin`,
`InsertRow` (create), `LockRow` (`SELECT … FOR UPDATE`), `WriteRow` (checks and `UPDATE`),
`AppendHistory`, `Commit`; `Reject` for every thrown check, `LockTimeout`, and `Abort` for a
failed statement, a lost connection or a dying instance at any point. Every instance's
connections are in `Conn`, so interleaving of requests and of instances is the same thing.
READ COMMITTED is modelled by keeping writes in `tx` until `Commit`. `Publish` happens
after the commit, in any order, at most once: the removal of an event from `pending` also
stands for its loss. `updatedAt` and `createdAt` carry the transaction's start.
`ClosedForever` is stated here, where a change can be waiting for the lock of the row, or have
begun, when another transaction closes the task.

**`TaskClients`**: `TaskService` with clients that act on a version they have read
(`basis`), to say what `expectedStatus` does and does not guarantee.

**`TaskStore`**: `useTaskStore` under its two views. A call is made (`Call`), served by the
server (`Serve`) and answered (`TakeAnswer`, `TakeError`) in three steps, and the store
reads its own state at the third, as the code does after its `await`. `TakeEvent` is
`applyTaskEvent`, applied once by each mounted hook. The server is reduced to its contract
(stamp, keyset page, refusals, rooms), for one type of two statuses. The drawer opens from a
row of the list, by a deep link (`Init`) or through the browser's history (`OpenDrawer`,
`FollowLink`), and `Reconnected` is what the mounted hooks read after a reconnect. A
behaviour runs under one `setting`, chosen at the start: which calls and filters there are,
the bounds, and the environment: `reliable` (no failure, no loss, no overtaking), `exclusive`
(one call at a time, no event meanwhile, none outlives the list it was sent to) and
`overlaps`: transactions of one task may begin before another commits, and a stamp, which
is the beginning of its transaction, then says nothing of the order of the commits. `version`
is that order; the code does not have it, the properties tell by it which copy is the later.
Properties named `Calm…` claim something only where calls and events do not cross; section 5
lists what fails where they do.

**`HistoryPanel`**: the drawer and its timeline. `trail[t]` is a task's history at the server in
the order of the commits, `began[t]` when the transaction of each entry began. A page is
ordered, and its cursor cut, by `began` (`Pages`, `Sooner`), of the entries committed when it is
read, or of the first of them where a replica lags (`Visible`: `getById` reads the primary,
`getHistoryPage` the replica). An entry may so be committed late, behind a cursor already
handed out. `Follow` is the effect that
reads the first page again when status or closure of the copy change; `Merged` replaces
the timeline by a first page and appends any other. The setting says whether answers keep
the order of their calls, whether the button of the next page is disabled as long as a page
is in flight, whether tasks move back, and whether calls fail.

**`TaskTypes`**: instances boot with a release's definitions, check them (`Boot` is
`onModuleInit`), serve and stop, while tasks persist; several serve at a time. `beside[t]`
remembers which instances were serving beside the one that created `t`: those are the ones
the check at boot cannot have told. Strings are reduced to what the checks ask of them (`named`).
`MCDeployment` puts it and `Startup` side by side in one run; a behaviour is one or the other.

**`Startup`**: what comes before `Boot`. On a host a process has the environment of its shell; an
instance outside production adds the variables of `.env` that are missing (`Environment`),
the migration job run by hand does not (`Migrate`). Compose reads shell and file, writes
`DB_URL` itself and hands the result to the containers of job and service (`Interpolated`,
`given`): `npm start` runs both in containers (`ComposeUp`), `npm run dev` only the job
(`ComposeMigrate`). `LoadAppConfig` yields one configuration or none (each field is a set of
at most one value), and an instance starts if some job has prepared the database it finds.

**`RealtimeLink`**: connections, rooms at the gateway, packets on their way up, changes on
their way down, and reads over HTTP, which may fail (`FailRead`: a toast, and nobody reads
again). `missed[c][r]` remembers that a view lacks a change.
socket.io itself (buffering while disconnected, order of packets, ping timeout) is
external, and modelled as the code uses it.

**`PartitionMaintenance`**: the runs of several replicas over one advisory lock, with
session semantics: the lock is reentrant within a session and survives the return of
its connection to the pool.

**`KeysetPage`**: one walk over the pages of a listing while rows are written. `After` is
the `(created_at, id)` comparison, `CursorOf` the lossless round trip of the cursor's
microseconds. `MCPages` puts the walk and the timeline side by side in one run; a
behaviour is one or the other.

**`FieldValidator`**: `validate` as operators: raw keys that are trimmed (of two that trim to one
the later wins), unknown keys, missing and invalid fields. A text is a sequence of visible
characters, blanks and control characters, which is all that `sanitizeString` and lengths tell
apart. Of patterns there is one of each kind: none, one that admits visible characters only
(`^\d+\.\d+\.\d+$` in `development.definition.ts:39`, the only one registered), and one that
counts characters, on which the text as typed and the text as sanitized differ.

**`ApiErrors`**: what becomes of an exception: `ToResponse` is the exception filter, `ToApiError`
the client's interceptor, `ErrorText` the choice of the text.

**`AdvanceForm`**: one task moved forward through the form, or by a script that submits payloads
of its own and corrects what a refusal names. The validator judges, the answer travels
through `ApiErrors` and may be lost or replaced by a gateway's, before the change was made or
after (`Unsettled`); meanwhile other clients move the task, and form or script hears of it.
`Refuse` has the checks of `changeStatus` in the code's order.

**`UserDirectory`**: walks over the pages of `GET /users`, as many at a time as views start, against a
server that keeps to its listing (`honest`) or hands out any cursor. The flags and the list
are shared by all walks, as in the store.

**`AppShell`**: extends it by the routes. `Mount` renders the views of an address, and `RunEffects`
runs their effects, which begin the loads; between the two the page may be painted. The gate
unmounts all views whenever the types load again, while their requests live on. `StepLoad` is an attempt or the pause before the next; releases answer
during a deploy, and the browser revalidates its copy by ETag.

**`Select`** and **`Overlays`**: a dropdown; and around it the drawer, the modal host, the toasts and
the bus. `focus` is a control of a layer; `Tab` runs the listeners of every open dialog in
their order, then the browser's default. A layout that unmounts takes its subscriptions
with it (`TornDown`) and leaves its timers running.

Operators marked *Fault* are not part of any specification. Each is a plausible wrong
version of the definition after it; with it in place, TLC finds the property it belongs
to violated (`PROJECT.json`, `mutants`). They show that a property can fail.

## 3. What the runs check

| Run | States | Question | Properties |
|---|---|---|---|
| `lifecycle` | 3.5 k | Is the promise itself consistent? | `AuditTrail`, `FieldsReplay`, `RequiredFieldsHeld` |
| `service` | 1.1 M | Do two interleaved transactions on one task, any of which fails anywhere, keep it? | `LockedRowIsCurrent`, `EventsMatchTrail`, `ImplementsLifecycle`, `ClosedForever` |
| `service_timeline` | violation | Is the served timeline the order of the transitions? | `TimelineInOrder` |
| `clients` | 372 k | What is left of optimistic concurrency if a status recurs? Does every transaction end, and is the proofs' invariant one, with two tasks? | `StaleSubmitOnlyAfterReturn`, `TransactionsEnd`, `ServiceInv` |
| `store` | 1.92 M | Two calls in flight, all of which may fail, events lost and reordered, stamps out of order: what always holds? Without crossing: do list and drawer settle to the server's? | `StoreInv`, `CopiesAreGenuine`, `RowsNeverGoBackOnEvent`; `CalmListExact`, `CalmDrawerCurrent` |
| `types` | 18.7 k | Can releases that add, drop and lengthen types follow each other, and overlap? Do instance and migration job agree on the database, by hand and by compose? | `TasksServable`; `OneDatabase` |
| `pages` | 4.46 M | Does a walk see each row once, ties at page boundaries included? Is a timeline put together from pages whole, and does it keep up? | `ServedInOrder`, `NoneSkipped`; `OrderlyTimelineWhole`, `CalmTimelineFollows` |
| `partitions` | 3 k | Overlapping runs that fail half way or lose their connection | `PartitionInv`, `HorizonCovered`, `LockFreed` |
| `link` | 279 k | Drops, reconnects, mounts and unmounts at the gateway's cap | `LinkInv`, `GapIsRead`, `SubscriptionsReturn` |
| `forms` | 239 k | Do form, validator and error path agree on what is wrong with a submission? | `StoredFieldsClean`, `OneRoundTrip`, `QuietTextFormAccepted`, `RefusalActionable`, `TextTellsCause` |
| `shell` | 111 k | Do loads end and links land, whatever walks, retries, deploys and navigation do to each other? | `DirectorySound`, `UnknownIsUnknown`; `LoadsEnd`, `OldLinksLand` |
| `overlays` | 156 k | Drawer, modals, dropdown and toasts under keyboard, mouse and remounts | `ActiveOptionExists`, `HostsServe`, `TrapHolds` |

Five of these are conjunctions of parts stated one by one in their modules: `ServiceInv` (types,
`Consistent`, `LocksHaveOwners`, `StampsAgree`), `StoreInv` (types, `UnpagedRowsOnce`, `LoadingEnds`),
`PartitionInv` (types, `OneCreator`), `LinkInv` (types, `ConnectionsCapped`,
`SubscriptionsRestored`) and `TasksServable` (`KnownUnlessOverlapped`, `ForwardStepsDefined`). So are
`CalmListExact`, `LoadsEnd` and `HostsServe`. Each part has a fault that breaks it.
What the lifecycle's invariants say of the service's committed data follows from
`ImplementsLifecycle` and is not checked a second time.

**Bounds.** The task type of the service runs has three statuses with one field required at
each step: the shortest type with a status that is neither first nor last, so that
forward, backward, overwriting a field and closing all happen. `MaxClock = 5`
transactions are enough for create, two advances, and a close or a reverse racing another
change, with an aborted one to spare. Two connections
are enough for every race on a row: the lock makes a third one wait like the second.
`TaskStore` needs two calls in flight for a race, and two committed changes for an order
of events; its calm setting of the list has three tasks and pages of one row, so that a page
boundary falls between any two. The settings with overlapping transactions have one task, or
two on a list, since stamps are compared within a task only. `RealtimeLink` has two browsers and a cap of two, so that a
reconnecting browser competes with its own old connection. `KeysetPage` covers every
small table in both directions, with up to two writes during the walk. Three
tasks are enough for `TaskTypes`: one per type of the releases; and two instances, an older and
a newer one. `Startup` has a shell for each way of passing a login (in the URL, beside it, half
of it, not at all), files that add to, repeat or contradict it, and a second database whose
tables another project has made, so that an instance can start on the wrong one. `HistoryPanel`
has trails of up to twice the page, and a drawer opened twice, on two tasks; a transaction may
begin before any number of those that commit before it. `AdvanceForm` has texts with every class of character at either end
and within, payloads of up to two keys, a status with a number among its fields and one with
a pattern that counts.
`UserDirectory` has a listing exactly as long as the cap, which is where the guard must not
bite, and two walks at a time; `AppShell` navigates twice and deploys once. `Overlays` has two
toasts, so that one comes while the timer of another runs, and dialogs of three controls:
a first, a middle and a last one.
Deadlock is not checked where a bounded counter or a client that stops ends the run.

**Fairness.** `TaskService`: weak fairness of each connection's `Progress`: the driver sends
the next statement and the database answers or times out (`lock_timeout`,
`statement_timeout` of `TS/infrastructure/database/typeorm.config.ts`). No client has to send
anything, and no event has to leave. `PartitionMaintenance`: a started run goes on, and the
server notices broken connections (TCP keepalive). `RealtimeLink`: the socket keeps
reconnecting and sending what it holds (socket.io's default); drops are bounded, so a
connection that drops forever is not excluded by fairness but by the bound.
`AppShell`: requests have a timeout (`BaseHttpService`), pauses are timers, and React runs the effects
of what it has mounted (`RunEffects`); the user never has to do anything. `Overlays`: a timer that is set
fires.
`HorizonCovered` rests on the assumption, in the guard of `NextMonth`, that one run
finishes its plan in any `MonthsAhead` months.

## 4. What is proved

Every theorem holds for every value of the constants that satisfies the named assumptions
of its module: any number of connections, tasks, users, replicas, clients, rooms, rows.

| Assumption | What it says, and why the code justifies it |
|---|---|
| `RegistryAssumption`, `NoRowAssumption`, `ServiceAssumption` | the registry gives every type a final status and required fields, none at status 1; the requests are requests, and the values that stand for nothing are nothing else |
| `ReleasesAssumption` | the statuses of a definition are an array |
| `MaintenanceAssumption` | a session belongs to one replica; the plan names a number of months ahead; the calendar has a first month |
| `KeysetAssumption` | ids are comparable and finitely many, a page holds at least one row |
| `SettingsAssumption` | a setting names calls and filters the views have, and bounds |
| `LinkAssumption` | finitely many clients; the rooms that liveness speaks of are rooms, and the cap then lets every client in |
| `DirectoryAssumption` | the users are a list, not empty and not longer than the walk's cap |
| `SelectAssumption` | a list of options is an array |
| `HistoryAssumption` | a page holds at least one entry; a setting answers yes or no to each of its questions |
| `FormAssumption` | what the boot checks of the registry enforce: descriptors with their bounds, no key twice in a type; the inputs yield texts and payloads are lists of entries, as JSON gives them; each descriptor has an acceptable value (without one no client could ever advance the task) |

- **`TaskLifecycleProofs`**: `Spec => []TypeOK`, `[]AuditTrail`, `[]FieldsReplay`,
  `[]RequiredFieldsHeld` and `[]ClosedAtFinal`. They follow from one inductive
  invariant, `LifecycleInv`, the conjunction of them: none is inductive alone.
  `RequiredFieldsHeld` needs the type invariant and `Merge` keeping its domains;
  `AuditTrail` needs the last entry to describe the row, since the next entry's `from` is read
  off the row. The lemmas about `Merge`, `NewRow`,
  `MovedRow`, `ClosedRow` and entries are in `TaskDataProofs`.
- **`TaskServiceProofs`**: `Spec => []ServiceInv`, hence `[]TypeOK` and `[]LockedRowIsCurrent`.
  `ServiceInv` says what a
  transaction knows at each phase: past its begin it holds the lock of its row, the row
  it read is still the committed one, what it will write is what the checks allowed on that
  row, and its audit entry is the entry of that change. Its other parts say that every lock has
  a running transaction that works on its row (`LocksHaveOwners`) and that a row and the
  entry describing it carry one time (`StampsAgree`). `LockedRowIsCurrent` alone is not
  inductive: it takes mutual exclusion by the lock to see that no other commit
  touches the row.
  - `ServiceImplementsLifecycle`: `Spec => Lifecycle!Spec` under the mapping `trail <- history`.
    `Commit` maps to the abstract step of its request, by `ServiceInv`; every other action leaves
    the tables unchanged and maps to a stutter. `ServiceAuditTrail`, `ServiceFieldsReplay` and
    `ServiceRequiredFields` carry the lifecycle's invariants over to the service.
  - `ServiceClosedForever`: a commit that would write a closed row would do so on what its
    transaction has read, which was open; by `ServiceInv` that is still the committed row
    (`CommitFindsOpen`).
  - `ServiceEventsMatchTrail` adds `HolderInTrail` (the last entry names the holder) to
    `ServiceInv`: the previous holder an event is addressed to is read off the row, the
    property reads it off the trail.
  - `ClientsStaleSubmit`: a client's change keeps the version it is based on (`BasisInv`: trails
    only grow at the end), `AuditTrail` makes the entries after that version a walk by single
    steps, and such a walk that ends where it began has gone up as often as down
    (`StepsBalance`).
- **`OperationsProofs`**, `PartitionMaintenance`: `[]PartitionInv` and `[]HorizonCovered` from `PartitionIInv`: a run works on
  a session of its replica, the lock counts exactly those who hold it (`LockIsOurs`: it is
  reentrant within a session), what a run under way has passed is created (`PlanKept`), and the
  calendar is within the latest complete plan (`CalendarInv`). Without `PlanKept` a finished run
  would not be known to cover its months.
- **`OperationsProofs`**, `TaskTypes`: `[]TasksServable` for any releases and any number of instances
  that overlap. `NoGap` is the argument behind the boot check: statuses that sort to 1..n leave
  none out. `KnownStep` follows each step: a boot finds the types of all tasks, a creation names
  the instances beside it, and an instance that stops is forgotten. Without the overlap
  clause `KnownTypes` is refuted (section 5).
- **`OperationsProofs`**, `Startup`: `[]OneDatabase`. `ConnectionInv` says that on a host the variables
  of the shell alone decide database and login, if they decide them at all (`SameWriteUrl`), and
  that a container has what compose last gave, and is replaced with it.
- **`AppShellProofs`**: `[]DirectorySound`, `[]UnknownIsUnknown`. `DirectoryIInv`
  says where every walk stands: behind an honest server a walk at cursor `c` has found exactly
  the users before it and met each cursor once, so that neither guard can fail. `MountedInv`:
  a view whose effects have run and that asks for a user has the list, a walk under way, or an
  error to show; until then its fetch is among the effects due.
- **`AppShellProofs`**, `Overlays`: `[]ActiveOptionExists` from `SelectIInv`: between a change of the
  options and the effect that clamps the highlight, all that holds is that the highlight is an
  index; every other step keeps it below the length. `HostsIInv` proves the part of
  `HostsServe` that is about every state, and that no toast is shown without its timer, which is
  what fairness then needs. `TrapHolds` is an action property, from where the focus may be and
  the order of the page alone: from the last control of the topmost dialog the trap leads on;
  from any other, a control of the same dialog lies ahead with nothing of another layer in between,
  and the browser stops there.
- **`SyncProofs`**, `RealtimeLink`: `[]LinkInv` and `[]GapIsRead` from `LinkIInv`. The rooms of a connection follow its
  views late, by the packets still in `outbox`; the invariant says of each room that the LAST
  packet about it, or its absence, agrees with the views. `ViewsOf`: changes are on
  their way to, and missed by, mounted views only, and a gap on a live connection is being read,
  or its read has failed.
- **`SyncProofs`**, `HistoryPanel`: `[]OrderlyTimelineWhole` and `[]CalmTimelineFollows` from
  `HistoryIInv`. What the drawer will show is decided by the calls in flight, so the invariant is
  about their queue: a page that appends was asked for from where the timeline ends, is of
  its task, and has no other page before it (`Cursor`: the disabled button); the LAST page in
  flight is of the task the drawer shows (`OfShown`); answers in order never tell less than
  earlier ones (`InStep`); what a page leaves out of the trail was not committed when the page was
  read, or lies beyond its cursor; and a read of the shown task is followed by a page that reaches
  whatever the copy reflects (`Follows`). `Counted` is why comparing statuses notices every move
  as long as no task moves back: a trail then never shows a status twice. Each part is
  claimed under the setting that it needs (`Facts`).
- **`AdvanceFormProofs`**: the five properties of `AdvanceForm` from `FormIInv`, over lemmas about
  the validator for any text and payload: sanitizing yields a text no longer than it was, trimmed,
  and not empty if anything was visible (`SanitizeIs`); what is judged valid is stored clean
  (`EvaluatedClean`); a payload corrected by the report of what is wrong with it, key for key, is
  accepted unless two raw keys trim to one (`CorrectedAccepted`, the content of
  `OneRoundTrip`). The invariant carries these from the moment of typing over the call to the row or
  the error: `ChangeOk` says of a change under way whose fields it is of and what it is
  known to pass, `Refused` that its answer fits its cause and names what the report names.
  `RulesFit`, `AccidentsFit` and `LossesFit` follow each failure through `ApiErrors` to its text, and
  `StepUnsettled` is the change that was made though its caller is told of a failure.
  `QuietText` is where patterns matter: one that admits visible characters only says the same of a
  text and of what sanitizing leaves of it.
- **`ListingProofs`**, `KeysetPage`: `[]ServedInOrder` and `[]NoneSkipped` from `WalkIInv`: the
  cursor is the key of the last row served, and every row that was listed all along has
  been served or still lies beyond the cursor (`Reached`). A page is a prefix of what lies beyond,
  in order; the row it ends with is the least one not passed.
- **`ListingProofs`**, `TaskStore`: `[]StoreInv` and `[]CopiesAreGenuine` from `StoreIInv`: every copy
  that is in the store, in an answer or in an event still on its way is one
  the server had (`Held`: not of a later commit than its row, and equal to it at the same one),
  whatever their stamps, and so the merging of any answer or event in any order keeps the store genuine. `StoreEventsGoForward` is
  the action property `RowsNeverGoBackOnEvent`: the event is applied once by each mounted hook, and
  each application replaces a row by a copy at least as new or leaves it.
  - `StoreDrawerCurrent`: `[]CalmDrawerCurrent` from `DrawerIInv`, under `Calm`. There is one call at
    most; and while the drawer is open, either a read of its task is in flight or the task is
    `Tracked`: every row of it is the drawer's copy, and that copy is stamped no earlier than the
    server's latest or the event of the latest is still on its way (where transactions do not
    overlap, a copy stamped so is the latest: `FreshByStamp`). That rows and drawer agree is what the staleness
    guard turns on, since it compares an event with whichever copy it finds first; the second
    hook then applies the event to what already holds it. A refusal of a change is a loss of
    tracking only until the read it begins (`handleTaskRequestFailure`) is answered.
  - `StoreListExact`: `[]CalmListExact` from `ListIInv`, under `Calm` with no call of the drawer.
    `Exact` says of two cursors that nothing due between them is missing, or that its event is
    on its way AND the open copy is another, so that the guard will not drop it when it
    arrives. `Announced` says that whatever changed a task with an event pending is itself
    announced, or took the task from the user: it needs events to arrive in order. A page is exact between
    its cursor and the next (`PageCovers`), pages join where one ends and the next begins (`PagesJoin`),
    and a commit in between is covered by its own event.

Least-counterexample arguments over the well-ordered naturals (`WellOrdering`, `StepsBalance`,
`RisingExists`) stand in for
induction, since the library's induction theorems take an operator as a parameter,
which the provers cannot instantiate. Nor can they reason about `SelectSeq` or sorting: the
specifications say what those yield instead (`Without`, `Ascending`, `InOrder`: the enumeration of a
set in an order).

Every invariant and action property of the passing runs is stated by a theorem. Only
model-checked: liveness (`TransactionsEnd`, `LockFreed`, `SubscriptionsReturn`, `LoadsEnd`,
`OldLinksLand`, and of `HostsServe` that toasts leave), since the prover has no rules for fairness and
`ENABLED`.

## 5. What the checks found

`service_timeline`: `TaskService.getHistoryPage` "serves its transitions oldest-first", but
orders by `created_at`, which is the start of the transaction. A transaction that starts
first, waits for the row lock and commits second is served before the one it followed.

### Known departures

While modelling, further statements of comments, docs and names were written down as
properties and refuted: `tlc` on the configuration named finds the behaviour. Where the table names a
setting, it is the configuration of the run with `Settings` replaced by that setting (of the MC
module) and the property as its only one; where it says "property only", the configuration of the run
with that one property; the others have a file of their own.

| Configuration | Property | What happens |
|---|---|---|
| `MCTaskClients` (`ClientSpec`, property only) | `UpdatedAtFollowsCommits` | same cause: of two changes the later commit may carry the earlier `updated_at`, and the store's staleness guard (`useTaskStore.ts:87`) drops it |
| `MCTaskClients` (`ClientSpec`, property only) | `StaleSubmitRejected` | a stale submit passes after the task went forward and back |
| `MCTaskStoreStale` | `StaleIsOlder` | the event of the change that commits second carries the earlier stamp, and a client that has the first one drops it (see below) |
| `MCTaskStore`, `RacingSettings` | `ListIsOfView` | the answer for the user or filter left behind arrives last and stays |
| `MCTaskStore`, `OneByOneSettings` | `SettledListComplete` | the drawer fetches a task just reassigned to this list; the event that would add it then looks stale |
| `MCTaskStore`, `FetchingSettings` | `RowsBelong` | `fetchTask` replaces a row that no longer belongs on the list |
| `MCTaskStore`, `PagingSettings` | `NoDuplicateRows` | a task prepended by an event comes again with a further page |
| `MCTaskStore`, `OrderedSettings` | `ResponseNeverGoesBack` | a mutation's answer overwrites a newer copy an event brought |
| `MCTaskStore`, `SwappingSettings` | `MutationTouchesOpenTask` | the answer of a change arrives in the drawer of another task |
| `MCTaskStore`, `OrderedSettings` | `SubmittingWhileInFlight` | another call's answer ends the shared `isLoading` |
| `MCTaskStore`, `OneByOneSettings` | `StaleRefusalRefetches` | only `TASK_STATE_CONFLICT` leads to a refetch |
| `MCPages`, `LateSettings` | `TimelineWhole` | a page that answers late is put behind the timeline of the task opened since |
| `MCPages`, `FlagSettings` | `TimelineWhole` | another call clears `isLoading`, the button is enabled again, the same page is appended twice |
| `MCPages`, `LossySettings` | `TimelineWhole` | the first page fails and the timeline of the task shown before stays |
| `MCPages`, `BackSettings` | `TimelineFollows` | a task moved on and back between two reads looks unchanged, and the timeline is not read again |
| `MCPages`, `ReplicaSettings` | `TimelineFollows` | the history read after a move comes from a replica that lacks it |
| `MCPages` (property only) | `NothingLeftOut` | an entry is committed after a later-stamped one was served, and its place lies before the cursor: "load more" passes it over |
| `MCTaskTypesRolling` | `KnownTypes` | the old release creates a task of a type the new one, already serving, dropped |
| `MCTaskTypesShrinking` | `KnownStatuses` | a release that shortens a type boots over tasks at the dropped status |
| `MCTaskTypesUnordered` | `FinalStatusIsHighest` | statuses listed out of order pass the sorted check |
| `MCDeployment` (property only) | `KnownConnection` | `npm run dev` migrates through compose, whose `DB_URL` is its own: a host instance serves on a database or login no job has run on |
| `MCStartupBlank` | `TimeoutsHold` | a timeout that is set but blank is read as 0, no timeout |
| `MCRealtimeLinkGap` | `NothingMissed` | a change between the refetch and the rejoin after a reconnect is never seen |
| `MCAdvanceForm`, `Payloads <- TwinPayloads` | `OneRoundTripAlways` | of two raw keys that trim to one the later wins: what a refusal named is corrected and refused again |
| `MCAdvanceForm` (property only) | `QuietPatternsAccepted` | a pattern that counts is content with the text as typed, and not with what sanitizing leaves (no registered type has one) |
| `MCAdvanceForm` (property only) | `QuietFormAccepted` | a number field the form is content with is refused (no registered type has one) |
| `MCAppShell` (property only) | `NeverCalledUnknown` | the first render of an address finds no users, no load and no error (`useCurrentUserStore.ts:19-23`), and says so of a known user until the effect runs (`MyTasksView.tsx:174-180`) |
| `MCAppShell` (property only) | `KnownKeepsList` | of two walks one fails, and its error hides the directory the other has loaded |
| `MCOverlays` (property only) | `TrapAlwaysHolds` | Tab leaves a dialog whose last control is disabled, or that has the focus itself |
| `MCOverlays` (property only) | `EscapeClosesOne` | Escape on the confirmation closes the drawer below it too |
| `MCOverlays` (property only) | `AnswerClosesOwn` | the answer to a creation closes the confirmation opened since |
| `MCOverlays` (property only) | `DisabledKeepsValue` | an open panel still takes a click while its dropdown is disabled |

`StaleIsOlder` has the cause of `service_timeline`. The client's staleness guard takes `updated_at`
for "the server's commit timestamp" (`useTaskStore.ts:87-90`); it is the start of the transaction
(`now()`, `task.entity.ts:48`). With the drawer open and everything in order, the browser
stays at the older copy until it reads the task again. `CalmListExact` and
`CalmDrawerCurrent` claim no more than the guard can give: where transactions overlap, a copy
whose stamp is as late as that of the latest commit.

This is why `store` and `pages` have settings: each property is claimed in the widest
environment in which it holds. One comment is merely outdated: that of the router
(`FE/core/router/index.tsx:11-13`) puts the gate inside `AppLayout`, the code (lines 31-33)
puts it around it.

## 6. Plan

Done, in this order: `TaskData`, `TaskLifecycle`, `TaskService` and the refinement;
`TaskClients`; `TaskStore`; `TaskTypes`; `PartitionMaintenance`; `RealtimeLink`; `KeysetPage`;
the proofs of the write path; `FieldValidator`, `ApiErrors` and `AdvanceForm`; `UserDirectory`
and `AppShell`; `HistoryPanel`; `Select` and `Overlays`; `Startup`; `LocksHaveOwners` and
`StampsAgree` as parts of the proved `ServiceInv`.

Left to model: `ClientSync`, `RealtimeLink`'s rooms and reads composed with `TaskStore`, which
replaces its assumption that a view is in its rooms, and lets `Reconnected` follow an actual
gap; the replica's lag for the listings of
tasks and users.

Proved since: `EventsMatchTrail`; the lifecycle's invariants for `TaskService` through the
refinement; `StaleSubmitOnlyAfterReturn`; partitions, start-up, directory and routes, socket
link, keyset pages and the client's task store; the drawer's timeline; form, validator and
error path; the dropdown's highlight, the hosts on the bus and the focus trap; the calm list
and drawer of the client's task store. No safety property of a passing run is left to prove.

## 7. Abstractions a reader should know

- Ids, names, field values and users are model values. `FreshIdLeft` and `Nameable` in
  `TaskService` are bounds: an id is free before it is used, and a client can only name a
  task it was given.
- `TaskService` has no replica: the checks of a mutation all read the primary under the lock.
- `TaskStore` joins the rooms in the same step as the view changes, and its close dialog is
  part of `SubmitClose`. Two effects of one render make their calls in one step (`CallBoth`).
- `TaskStore` compares stamps within a task. Where transactions overlap, `Stamps` lets a change
  have begun at any time after its task's creation; ties count as stale, as in the code.
- In `TaskStore` and in the reads of `RealtimeLink` a listing is answered from the primary: the
  replica's lag, which the code has there too, is modelled for the history only
  (`HistoryPanel`). There a replica that lacks the task itself answers 404, which is one of the
  failing calls.
- In `RealtimeLink` a client refused at the cap does not try again, as socket.io does not
  after a disconnect by the server.
- `PartitionMaintenance` counts months; a partition's name and time zone arithmetic are left out.
  Each `CREATE TABLE IF NOT EXISTS` is a step (and a commit) of its own.
- In `Startup` one field of each kind (URL, login, number with a lower bound, list of origins)
  stands for all of its kind; the database compose writes into `DB_URL` is one (`InNetwork`), and an
  instance starts on any database whose tables some job has made (`url.host`), with whatever login.
- In `AdvanceForm` an unreadable answer, a throttled request and a gateway's page are outcomes of the
  call; what makes them happen is not modelled. The assignee a form sends is one of the
  directory; a script's may be unknown (42201).
- In `AppShell` the ETag is the body it is a digest of.
- In `Overlays` the drawer is one flag and its task none; a dialog has three controls. There is one
  locale, as in `FE/core/i18n/index.ts`: `ToastHost` would subscribe again if its translator changed.
  `TrapHolds` is about a dialog whose first and last controls are enabled.

## 8. Not modelled

Logging, metrics and health checks observe: nothing else reads what they keep. The throttle's counters,
CORS, security headers and compression decide whether a request arrives and how its answer
is encoded; a refused request is an outcome in `ApiErrors`. Tables, badges, skeletons and
layout keep no state. `reset` of the stores is called by tests only. Seeds, migrations other
than the tables and first partitions, images, health checks and CI are not part of the running
program; of compose, `Startup` has the environments and the order of job and service.
