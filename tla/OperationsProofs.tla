---------------------------- MODULE OperationsProofs ----------------------------
(***************************************************************************)
(* Proofs about what runs the system: the registry of TaskTypes, for any   *)
(* releases, tasks and instances, however these overlap; Startup, for any  *)
(* environments and files; and PartitionMaintenance, for any number of     *)
(* replicas, of pooled sessions, of months planned ahead and of months     *)
(* that pass.                                                              *)
(*                                                                         *)
(* OneCreator rests on the sessions: a run works on a session of its own   *)
(* replica's pool, so no two runs share one, and the lock belongs to the   *)
(* session of whoever creates.  HorizonCovered rests on the plan: what a   *)
(* creating run has crossed off its plan is a partition by now.            *)
(***************************************************************************)
EXTENDS TaskTypes, Startup, PartitionMaintenance, WellFoundedInduction, TLAPS

(* The types any release defines, and the rows that may be of them. *)
Types == UNION {{defs[i].type : i \in DOMAIN defs} : defs \in Releases}

Row == [type : Types, status : Nat \ {0}]

(* Tasks have a type and a status; an instance serves with a list that      *)
(* passed the checks of its boot.                                           *)
RegistryInv ==
    /\ rows \in [Task -> Row \cup {NoRow}]
    /\ DOMAIN serving = Instance
    /\ beside \in [Task -> SUBSET Instance]
    /\ \A i \in Instance : serving[i] # Down =>
          serving[i] \in Releases /\ SelfConsistent(serving[i])

(* An instance on the host has what the shell alone makes of DB_URL, if     *)
(* anything; one in a container what the containers were given.             *)
ConnectionInv ==
    /\ DOMAIN config = Process
    /\ \A i \in Process : config[i] # NoConfig =>
          \A url \in JobUrl(i) : config[i].writeUrl = url

----------------------------------------------------------------------------
(* Definition returns the entry of the list that has the type. *)
LEMMA DefinitionFound ==
  ASSUME NEW defs, NEW ty, Registered(defs, ty)
  PROVE  \E k \in DOMAIN defs : defs[k].type = ty /\ Definition(defs, ty) = defs[k]
BY DEF Registered, Definition

(* Statuses without a gap: whatever lies between 1 and the last entry's     *)
(* number is the number of some entry.                                      *)
LEMMA NoGap ==
  ASSUME NEW defs \in Releases, SelfConsistent(defs),
         NEW ty, Registered(defs, ty),
         NEW s \in Nat \ {0}, s <= FinalStatusOf(defs, ty)
  PROVE  StatusDefined(defs, ty, s)
<1>1. PICK k \in DOMAIN defs : Definition(defs, ty) = defs[k]
  BY DefinitionFound
<1> DEFINE st == defs[k].statuses
<1>2. st \in Seq({st[j] : j \in DOMAIN st})
  BY ReleasesAssumption
<1>3. /\ Len(st) > 0
      /\ {[j \in DOMAIN st |-> st[j].status][i] : i \in DOMAIN st} = 1..Len(st)
  BY DEF SelfConsistent, ContiguousFromOne, Numbers
<1> HIDE DEF st
<1>4. Len(st) \in Nat /\ DOMAIN st = 1..Len(st)
  BY <1>2
<1>5. {st[i].status : i \in DOMAIN st} = 1..Len(st)
  BY <1>3
<1>6. st[Len(st)].status \in 1..Len(st)
  BY <1>3, <1>4, <1>5
<1>7. s <= st[Len(st)].status
  BY <1>1 DEF FinalStatusOf, st
<1>8. s \in 1..Len(st)
  BY <1>4, <1>6, <1>7
<1>9. \E i \in DOMAIN st : st[i].status = s
  BY <1>5, <1>8
<1> QED BY <1>1, <1>9 DEF StatusDefined, st

(* Adding a file to the shell's environment takes nothing of it away. *)
LEMMA ShellWins ==
  ASSUME NEW v \in DOMAIN shell
  PROVE  v \in DOMAIN Environment /\ Environment[v] = shell[v]
BY DEF Environment, WithDefaults

(* Whatever else the file says, DB_URL composes to what the shell alone     *)
(* composes it to, if the shell alone composes it to anything.              *)
LEMMA SameWriteUrl ==
  ASSUME WriteUrl(shell) # {}
  PROVE  /\ WriteUrl(Environment) = WriteUrl(shell)
         /\ \A u, w \in WriteUrl(shell) : u = w
<1> DEFINE url == shell["DB_URL"]
<1> DEFINE env == Environment
<1>1. HasUrl(shell, "DB_URL") /\ Composed(shell, url) # {}
  BY DEF WriteUrl
<1>2. HasUrl(env, "DB_URL") /\ env["DB_URL"] = url
  BY <1>1, ShellWins DEF HasUrl
<1>3. Bare(url) => Login(env) = Login(shell)
  <2> SUFFICES ASSUME Bare(url) PROVE Login(env) = Login(shell)
    OBVIOUS
  <2>1. Whole(WithDefaults(Login(shell), url))
    BY <1>1 DEF Composed
  <2>2. /\ WithDefaults(Login(shell), url).user = TextField(shell, "POSTGRES_USER")
        /\ WithDefaults(Login(shell), url).password = TextField(shell, "POSTGRES_PASSWORD")
    BY DEF WithDefaults, Login
  <2>3. /\ TextField(shell, "POSTGRES_USER") # Blank
        /\ TextField(shell, "POSTGRES_PASSWORD") # Blank
    BY <2>1, <2>2 DEF Whole
  <2>4. "POSTGRES_USER" \in DOMAIN shell /\ "POSTGRES_PASSWORD" \in DOMAIN shell
    BY <2>3 DEF TextField
  <2> QED BY <2>4, ShellWins DEF Login, TextField
<1>4. Composed(env, url) = Composed(shell, url)
  BY <1>3 DEF Composed
<1>5. WriteUrl(env) = WriteUrl(shell)
  BY <1>1, <1>2, <1>4 DEF WriteUrl
<1>6. \A u, w \in WriteUrl(shell) : u = w
  BY DEF WriteUrl, Composed
<1> QED BY <1>5, <1>6

----------------------------------------------------------------------------
(* What an instance does to the tasks, and to itself: a task it finds keeps *)
(* its type, and one it creates is beside every other that serves.          *)
LEMMA ServeKeepsRows ==
  ASSUME RegistryInv, NEW i \in Instance, Serve(i)
  PROVE  /\ serving' = serving
         /\ rows' \in [Task -> Row \cup {NoRow}]
         /\ beside' \in [Task -> SUBSET Instance]
         /\ \A t \in Task : rows'[t] # NoRow =>
               \/ rows[t] # NoRow /\ rows'[t].type = rows[t].type /\ beside'[t] = beside[t]
               \/ /\ Registered(serving[i], rows'[t].type)
                  /\ beside'[t] = {j \in Instance \ {i} : serving[j] # Down}
<1> DEFINE Goal ==
      /\ serving' = serving
      /\ rows' \in [Task -> Row \cup {NoRow}]
      /\ beside' \in [Task -> SUBSET Instance]
      /\ \A t \in Task : rows'[t] # NoRow =>
            \/ rows[t] # NoRow /\ rows'[t].type = rows[t].type /\ beside'[t] = beside[t]
            \/ /\ Registered(serving[i], rows'[t].type)
               /\ beside'[t] = {j \in Instance \ {i} : serving[j] # Down}
<1>1. PICK t \in Task :
        \/ \E j \in DOMAIN serving[i] : Create(i, t, serving[i][j].type)
        \/ /\ rows[t] # NoRow
           /\ Registered(serving[i], rows[t].type)
           /\ Forward(i, t) \/ Backward(i, t)
  BY DEF Serve
<1>2. ASSUME NEW j \in DOMAIN serving[i], Create(i, t, serving[i][j].type)
      PROVE  Goal
  <2> DEFINE ty == serving[i][j].type
             others == {k \in Instance \ {i} : serving[k] # Down}
  <2>1. ty \in Types
    BY DEF RegistryInv, Types, Serve
  <2>2. [type |-> ty, status |-> 1] \in Row
    BY <2>1 DEF Row
  <2>3. /\ serving' = serving /\ Registered(serving[i], ty)
        /\ rows' = [rows EXCEPT ![t] = [type |-> ty, status |-> 1]]
        /\ beside' = [beside EXCEPT ![t] = others]
    BY <1>2 DEF Create
  <2>4. others \in SUBSET Instance
    OBVIOUS
  <2> HIDE DEF ty, others
  <2>5. /\ rows' \in [Task -> Row \cup {NoRow}]
        /\ beside' \in [Task -> SUBSET Instance]
        /\ rows'[t].type = ty /\ beside'[t] = others
        /\ \A u \in Task \ {t} : rows'[u] = rows[u] /\ beside'[u] = beside[u]
    BY <2>2, <2>3, <2>4 DEF RegistryInv
  <2>6. ASSUME NEW u \in Task, rows'[u] # NoRow
        PROVE  \/ rows[u] # NoRow /\ rows'[u].type = rows[u].type /\ beside'[u] = beside[u]
               \/ Registered(serving[i], rows'[u].type) /\ beside'[u] = others
    BY <2>3, <2>5, <2>6
  <2> QED BY <2>3, <2>5, <2>6 DEF others
<1>3. ASSUME rows[t] # NoRow, Forward(i, t) \/ Backward(i, t)
      PROVE  Goal
  <2>1. rows[t] \in Row
    BY <1>3 DEF RegistryInv
  <2>2. PICK s \in Nat \ {0} :
          rows' = [rows EXCEPT ![t].status = s] /\ UNCHANGED <<serving, beside>>
    <3>1. CASE Forward(i, t)
      <4>1. rows[t].status + 1 \in Nat \ {0}
        BY <2>1 DEF Row
      <4>2. /\ rows' = [rows EXCEPT ![t].status = rows[t].status + 1]
            /\ UNCHANGED <<serving, beside>>
        BY <3>1 DEF Forward
      <4> QED BY <4>1, <4>2
    <3>2. CASE Backward(i, t)
      <4>1. rows[t].status - 1 \in Nat \ {0}
        BY <2>1, <3>2 DEF Row, Backward
      <4>2. /\ rows' = [rows EXCEPT ![t].status = rows[t].status - 1]
            /\ UNCHANGED <<serving, beside>>
        BY <3>2 DEF Backward
      <4> QED BY <4>1, <4>2
    <3> QED BY <1>3, <3>1, <3>2
  <2>3. [rows[t] EXCEPT !.status = s] \in Row
    BY <2>1 DEF Row
  <2>4. [rows[t] EXCEPT !.status = s].type = rows[t].type
    BY <2>1 DEF Row
  <2>5. /\ rows' \in [Task -> Row \cup {NoRow}]
        /\ rows'[t] = [rows[t] EXCEPT !.status = s]
        /\ \A u \in Task \ {t} : rows'[u] = rows[u]
    BY <2>2, <2>3 DEF RegistryInv
  <2> QED BY <1>3, <2>2, <2>4, <2>5 DEF RegistryInv
<1> QED BY <1>1, <1>2, <1>3

(* The registry's invariant at the start, and over every step. *)
LEMMA RegistryInit == Init => RegistryInv
BY DEF Init, RegistryInv

LEMMA RegistryStep == RegistryInv /\ [Next]_vars => RegistryInv'
<1> SUFFICES ASSUME RegistryInv, [Next]_vars PROVE RegistryInv'
  OBVIOUS
<1>1. CASE UNCHANGED vars
  BY <1>1 DEF RegistryInv, vars
<1>2. ASSUME NEW i \in Instance, NEW defs \in Releases, Boot(i, defs)
      PROVE  RegistryInv'
  BY <1>2 DEF Boot, RegistryInv
<1>3. ASSUME NEW i \in Instance, Stop(i)
      PROVE  RegistryInv'
  BY <1>3 DEF Stop, RegistryInv
<1>4. ASSUME NEW i \in Instance, Serve(i)
      PROVE  RegistryInv'
  BY <1>4, ServeKeepsRows DEF RegistryInv
<1> QED BY <1>1, <1>2, <1>3, <1>4 DEF Next

(* Only a task created beside a serving instance can be of a type it does   *)
(* not know.                                                                *)
LEMMA KnownStep ==
  RegistryInv /\ KnownUnlessOverlapped /\ [Next]_vars => KnownUnlessOverlapped'
<1> SUFFICES ASSUME RegistryInv, KnownUnlessOverlapped, [Next]_vars,
                    NEW k \in Instance, NEW t \in Task,
                    serving'[k] # Down, rows'[t] # NoRow, k \notin beside'[t]
             PROVE  Registered(serving'[k], rows'[t].type)
  BY DEF KnownUnlessOverlapped
<1>1. CASE UNCHANGED vars
  BY <1>1 DEF KnownUnlessOverlapped, vars
<1>2. ASSUME NEW i \in Instance, NEW defs \in Releases, Boot(i, defs)
      PROVE  Registered(serving'[k], rows'[t].type)
  BY <1>2 DEF Boot, RegistryInv, PersistedTypesRegistered, KnownUnlessOverlapped
<1>3. ASSUME NEW i \in Instance, Stop(i)
      PROVE  Registered(serving'[k], rows'[t].type)
  <2>1. i # k /\ serving'[k] = serving[k] /\ rows' = rows
    BY <1>3 DEF Stop, RegistryInv
  <2>2. k \notin beside[t]
    BY <1>3, <2>1 DEF Stop
  <2> QED BY <2>1, <2>2 DEF KnownUnlessOverlapped
<1>4. ASSUME NEW i \in Instance, Serve(i)
      PROVE  Registered(serving'[k], rows'[t].type)
  <2>1. /\ serving' = serving
        /\ \/ rows[t] # NoRow /\ rows'[t].type = rows[t].type /\ beside'[t] = beside[t]
           \/ /\ Registered(serving[i], rows'[t].type)
              /\ beside'[t] = {j \in Instance \ {i} : serving[j] # Down}
    BY <1>4, ServeKeepsRows
  <2>2. CASE rows[t] # NoRow /\ rows'[t].type = rows[t].type /\ beside'[t] = beside[t]
    BY <2>1, <2>2 DEF KnownUnlessOverlapped
  <2>3. CASE Registered(serving[i], rows'[t].type)
             /\ beside'[t] = {j \in Instance \ {i} : serving[j] # Down}
    <3>1. k = i
      BY <2>1, <2>3
    <3> QED BY <2>1, <2>3, <3>1
  <2> QED BY <2>1, <2>2, <2>3
<1> QED BY <1>1, <1>2, <1>3, <1>4 DEF Next

(* For any number of instances and any releases, however they overlap: a    *)
(* task is of a type an instance does not know only if another release      *)
(* created it beside that instance, and the next step of a task leads to a  *)
(* status the serving release defines, so that statusDefinitionOf never     *)
(* throws.                                                                  *)
THEOREM RegistryTasksServable == Spec => []TasksServable
<1>1. RegistryInv => ForwardStepsDefined
  <2> SUFFICES ASSUME RegistryInv, NEW i \in Instance, NEW t \in Task,
                      serving[i] # Down, rows[t] # NoRow,
                      Registered(serving[i], rows[t].type),
                      rows[t].status + 1 <= FinalStatusOf(serving[i], rows[t].type)
               PROVE  StatusDefined(serving[i], rows[t].type, rows[t].status + 1)
    BY DEF ForwardStepsDefined
  <2>1. rows[t].status + 1 \in Nat \ {0}
    BY DEF RegistryInv, Row
  <2> QED BY <2>1, NoGap DEF RegistryInv
<1>2. Init => KnownUnlessOverlapped
  BY DEF Init, KnownUnlessOverlapped
<1> QED BY <1>1, <1>2, RegistryInit, RegistryStep, KnownStep, PTL DEF Spec, TasksServable

----------------------------------------------------------------------------
(* An environment makes at most one connection of DB_URL. *)
LEMMA OneWriteUrl ==
  ASSUME NEW env
  PROVE  \A u, w \in WriteUrl(env) : u = w
BY DEF WriteUrl, Composed

(* An instance that starts has the connection its environment makes.        *)
LEMMA StartConfig ==
  ASSUME NEW i \in Process, NEW env, Start(i, env), DOMAIN config = Process
  PROVE  /\ config'[i].writeUrl \in WriteUrl(env)
         /\ DOMAIN config' = Process
         /\ \A j \in Process \ {i} : config'[j] = config[j]
         /\ UNCHANGED <<shell, given>>
<1>1. PICK c \in LoadAppConfig(env) : config' = [config EXCEPT ![i] = c]
  BY DEF Start
<1>2. c.writeUrl \in WriteUrl(env)
  BY DEF LoadAppConfig
<1> QED BY <1>1, <1>2 DEF Start

(* Each step keeps the invariant of the connections. *)
LEMMA ConnectionStep == ConnectionInv /\ [StartupNext]_startupVars => ConnectionInv'
<1> SUFFICES ASSUME ConnectionInv, [StartupNext]_startupVars PROVE ConnectionInv'
  OBVIOUS
<1>1. CASE UNCHANGED <<shell, given, inside, config>>
  BY <1>1 DEF ConnectionInv, JobUrl, WriteUrl, Composed, HasUrl, Login, TextField
<1>2. CASE ComposeUp
  <2>1. UNCHANGED <<shell, inside>>
    BY <1>2 DEF ComposeUp
  <2>2. \A i \in Process : config'[i] # NoConfig => i \notin inside /\ config'[i] = config[i]
    BY <1>2 DEF ComposeUp
  <2>3. WriteUrl(shell)' = WriteUrl(shell)
    BY <2>1 DEF WriteUrl, Composed, HasUrl, Login, TextField
  <2>4. DOMAIN config' = Process
    BY <1>2 DEF ComposeUp
  <2> QED BY <2>1, <2>2, <2>3, <2>4 DEF ConnectionInv, JobUrl
<1>3. ASSUME NEW i \in Process, StartOnHost(i)
      PROVE  ConnectionInv'
  <2>1. Start(i, Environment) /\ inside' = inside \ {i}
    BY <1>3 DEF StartOnHost
  <2>2. /\ config'[i].writeUrl \in WriteUrl(Environment)
        /\ DOMAIN config' = Process
        /\ \A j \in Process \ {i} : config'[j] = config[j]
        /\ UNCHANGED <<shell, given>>
    BY <2>1, StartConfig DEF ConnectionInv
  <2>3. WriteUrl(shell)' = WriteUrl(shell) /\ WriteUrl(given)' = WriteUrl(given)
    BY <2>2 DEF WriteUrl, Composed, HasUrl, Login, TextField
  <2>4. \A url \in WriteUrl(shell) : config'[i].writeUrl = url
    BY <2>2, SameWriteUrl
  <2> QED BY <2>1, <2>2, <2>3, <2>4 DEF ConnectionInv, JobUrl
<1>4. ASSUME NEW i \in Process, StartInContainer(i)
      PROVE  ConnectionInv'
  <2>1. Start(i, given) /\ inside' = inside \cup {i}
    BY <1>4 DEF StartInContainer
  <2>2. /\ config'[i].writeUrl \in WriteUrl(given)
        /\ DOMAIN config' = Process
        /\ \A j \in Process \ {i} : config'[j] = config[j]
        /\ UNCHANGED <<shell, given>>
    BY <2>1, StartConfig DEF ConnectionInv
  <2>3. WriteUrl(shell)' = WriteUrl(shell) /\ WriteUrl(given)' = WriteUrl(given)
    BY <2>2 DEF WriteUrl, Composed, HasUrl, Login, TextField
  <2>4. \A url \in WriteUrl(given) : config'[i].writeUrl = url
    BY <2>2, OneWriteUrl
  <2> QED BY <2>1, <2>2, <2>3, <2>4 DEF ConnectionInv, JobUrl
<1>5. ASSUME NEW i \in Process, Shutdown(i)
      PROVE  ConnectionInv'
  <2>1. UNCHANGED <<shell, given, inside>>
    BY <1>5 DEF Shutdown
  <2>2. WriteUrl(shell)' = WriteUrl(shell) /\ WriteUrl(given)' = WriteUrl(given)
    BY <2>1 DEF WriteUrl, Composed, HasUrl, Login, TextField
  <2>3. /\ DOMAIN config' = Process
        /\ \A j \in Process : config'[j] # NoConfig => config'[j] = config[j]
    BY <1>5 DEF Shutdown, ConnectionInv
  <2> QED BY <2>1, <2>2, <2>3 DEF ConnectionInv, JobUrl
<1> QED BY <1>1, <1>2, <1>3, <1>4, <1>5
        DEF StartupNext, startupVars, Migrate, ComposeMigrate, EditFile

(* Whatever .env adds for an instance and not for the job run by hand, and  *)
(* whatever has been edited since compose gave its containers the file, an  *)
(* instance works on the database, and with the login, of its job.          *)
THEOREM StartupOneDatabase == StartupSpec => []OneDatabase
<1>1. StartupInit => ConnectionInv
  BY DEF StartupInit, ConnectionInv
<1>2. ConnectionInv => OneDatabase
  BY DEF ConnectionInv, OneDatabase
<1> QED BY <1>1, <1>2, ConnectionStep, PTL DEF StartupSpec

----------------------------------------------------------------------------
(* A run works on a session that is its own, and that it gives up. *)
RunsOnOwnSession ==
    \A r \in Replica :
        /\ phase[r] = "idle" <=> session[r] = NoSession
        /\ session[r] # NoSession =>
              /\ OwnedBy[session[r]] = r
              /\ state[session[r]] = "used"

(* The lock is held as often as it is locked, and by the run that uses it. *)
LockIsOurs ==
    /\ holder = NoSession <=> depth = 0
    /\ \A r \in Replica :
          phase[r] \in {"creating", "unlocking"} => holder = session[r]

(* What is crossed off the plan of a creating run exists. *)
PlanKept ==
    \A r \in Replica : phase[r] = "creating" =>
        /\ base[r] \in 1..month
        /\ todo[r] \subseteq Plan(base[r])
        /\ Plan(base[r]) \ todo[r] \subseteq partitions

(* The calendar has not run away from the latest complete plan. *)
CalendarInv ==
    /\ covered <= month
    /\ month <= covered + MonthsAhead
    /\ Plan(covered) \subseteq partitions

(* The lock tells who creates only as long as runs share no session, and    *)
(* the calendar moves on only as far as plans were covered: so the parts    *)
(* are kept together.                                                       *)
PartitionIInv == TypeOK /\ RunsOnOwnSession /\ LockIsOurs /\ PlanKept /\ CalendarInv

----------------------------------------------------------------------------
(* A nonempty set of naturals has a least element. *)
LEMMA WellOrdering ==
  ASSUME NEW S \in SUBSET Nat, S # {}
  PROVE  \E m \in S : \A n \in S : m <= n
<1> DEFINE R == OpToRel(<, Nat)
<1>1. IsWellFoundedOn(R, Nat)
  BY NatLessThanWellFounded
<1>2. \A a, b \in Nat : a < b <=> <<a, b>> \in R
  BY DEF OpToRel
<1> HIDE DEF R
<1>3. PICK m \in S : \A y \in S : ~(<<y, m>> \in R)
  BY <1>1, WFMin
<1>4. \A n \in S : m \in Nat /\ n \in Nat /\ ~(n < m)
  BY <1>2, <1>3
<1>5. \A n \in S : m <= n
  BY <1>4
<1> QED BY <1>5

(* The next month a run creates is one of its plan. *)
LEMMA FirstOfPlan ==
  ASSUME NEW S \in SUBSET Nat, S # {}
  PROVE  First(S) \in S
<1>1. \E m \in S : \A n \in S : m <= n
  BY WellOrdering
<1> QED BY <1>1 DEF First

(* The state after the migration satisfies the invariant. *)
LEMMA PartitionInit == MaintenanceInit => PartitionIInv
<1> SUFFICES ASSUME MaintenanceInit PROVE PartitionIInv
  OBVIOUS
<1>1. TypeOK
  BY MaintenanceAssumption DEF MaintenanceInit, TypeOK
<1>2. RunsOnOwnSession /\ LockIsOurs /\ PlanKept
  BY MaintenanceAssumption DEF MaintenanceInit, RunsOnOwnSession, LockIsOurs, PlanKept
<1>3. CalendarInv
  BY MaintenanceAssumption DEF MaintenanceInit, CalendarInv, Plan
<1> QED BY <1>1, <1>2, <1>3 DEF PartitionIInv

(* Two runs never work on one session. *)
LEMMA SessionsApart ==
  ASSUME RunsOnOwnSession,
         NEW r \in Replica, NEW q \in Replica,
         session[r] = session[q], session[r] # NoSession
  PROVE  r = q
BY DEF RunsOnOwnSession

(* The end of a run (Skip, Unlock, Break), its session handed over. *)
LEMMA FinishStep ==
  ASSUME PartitionIInv, NEW r \in Replica, phase[r] # "idle", Finish(r),
         NEW st \in {"pooled", "broken"}, state' = [state EXCEPT ![session[r]] = st],
         UNCHANGED calendar
  PROVE  /\ month' \in 1..MaxMonth /\ covered' \in 1..MaxMonth
         /\ partitions' \in SUBSET (1..(MaxMonth + MonthsAhead))
         /\ phase' \in [Replica -> {"idle", "connected", "creating", "unlocking"}]
         /\ session' \in [Replica -> Session \cup {NoSession}]
         /\ todo' \in [Replica -> SUBSET (1..(MaxMonth + MonthsAhead))]
         /\ base' \in [Replica -> 0..MaxMonth]
         /\ state' \in [Session -> {"pooled", "used", "broken"}]
         /\ RunsOnOwnSession'
         /\ PlanKept'
         /\ CalendarInv'
<1> USE MaintenanceAssumption
<1>1. session[r] \in Session
  BY DEF PartitionIInv, TypeOK, RunsOnOwnSession
<1>2. /\ month' \in 1..MaxMonth /\ covered' \in 1..MaxMonth
      /\ partitions' \in SUBSET (1..(MaxMonth + MonthsAhead))
      /\ phase' \in [Replica -> {"idle", "connected", "creating", "unlocking"}]
      /\ session' \in [Replica -> Session \cup {NoSession}]
      /\ state' \in [Session -> {"pooled", "used", "broken"}]
  BY DEF PartitionIInv, TypeOK, Finish, calendar
<1>3. /\ todo' \in [Replica -> SUBSET (1..(MaxMonth + MonthsAhead))]
      /\ base' \in [Replica -> 0..MaxMonth]
  BY DEF PartitionIInv, TypeOK, Finish, calendar
<1>4. RunsOnOwnSession'
  <2> SUFFICES ASSUME NEW q \in Replica
               PROVE  /\ phase'[q] = "idle" <=> session'[q] = NoSession
                      /\ session'[q] # NoSession =>
                            /\ OwnedBy[session'[q]] = q
                            /\ state'[session'[q]] = "used"
    BY DEF RunsOnOwnSession
  <2>1. CASE q = r
    BY <2>1 DEF Finish, PartitionIInv, TypeOK
  <2>2. CASE q # r
    <3>1. phase'[q] = phase[q] /\ session'[q] = session[q]
      BY <2>2 DEF Finish, PartitionIInv, TypeOK
    <3>2. session[q] # NoSession => session[q] \in Session /\ session[q] # session[r]
      BY <1>1, <2>2, SessionsApart DEF PartitionIInv, TypeOK
    <3>3. session[q] # NoSession => state'[session[q]] = state[session[q]]
      BY <3>2, <1>1 DEF PartitionIInv, TypeOK
    <3> QED BY <3>1, <3>3 DEF PartitionIInv, RunsOnOwnSession
  <2> QED BY <2>1, <2>2
<1>5. PlanKept'
  <2>1. \A q \in Replica : phase'[q] = "creating" =>
           q # r /\ phase[q] = "creating" /\ todo'[q] = todo[q] /\ base'[q] = base[q]
    BY DEF Finish, PartitionIInv, TypeOK
  <2> QED BY <2>1 DEF PartitionIInv, PlanKept, Plan, calendar
<1>6. CalendarInv'
  BY DEF PartitionIInv, CalendarInv, Plan, calendar
<1> QED BY <1>2, <1>3, <1>4, <1>5, <1>6

----------------------------------------------------------------------------
(* Each action keeps the invariant.  A run takes a connection of its own replica's pool. *)
LEMMA ConnectStep ==
  ASSUME PartitionIInv, NEW r \in Replica, Connect(r)
  PROVE  PartitionIInv'
<1> USE MaintenanceAssumption
<1>1. PICK s \in Session :
         /\ OwnedBy[s] = r
         /\ state[s] = "pooled"
         /\ state' = [state EXCEPT ![s] = "used"]
         /\ session' = [session EXCEPT ![r] = s]
  BY DEF Connect
<1>2. phase[r] = "idle" /\ phase' = [phase EXCEPT ![r] = "connected"]
      /\ UNCHANGED <<calendar, todo, base, holder, depth>>
  BY DEF Connect
<1>3. TypeOK'
  BY <1>1, <1>2 DEF PartitionIInv, TypeOK, calendar
<1>4. RunsOnOwnSession'
  BY <1>1, <1>2 DEF PartitionIInv, TypeOK, RunsOnOwnSession
<1>5. LockIsOurs'
  BY <1>1, <1>2 DEF PartitionIInv, TypeOK, LockIsOurs
<1>6. PlanKept' /\ CalendarInv'
  BY <1>1, <1>2 DEF PartitionIInv, TypeOK, PlanKept, CalendarInv, Plan, calendar
<1> QED BY <1>3, <1>4, <1>5, <1>6 DEF PartitionIInv

(* It gets the lock, which no other run uses, and makes its plan. *)
LEMMA LockStep ==
  ASSUME PartitionIInv, NEW r \in Replica, Lock(r)
  PROVE  PartitionIInv'
<1> USE MaintenanceAssumption
<1>1. session[r] \in Session
  BY DEF PartitionIInv, TypeOK, RunsOnOwnSession, Lock
<1>2. TypeOK'
  <2>1. Plan(month) \in SUBSET (1..(MaxMonth + MonthsAhead))
    BY DEF PartitionIInv, TypeOK, Plan
  <2> QED BY <1>1, <2>1 DEF PartitionIInv, TypeOK, Lock, calendar
<1>3. RunsOnOwnSession'
  BY DEF PartitionIInv, TypeOK, RunsOnOwnSession, Lock
<1>4. LockIsOurs'
  <2>1. holder' # NoSession /\ depth' # 0
    BY <1>1 DEF PartitionIInv, TypeOK, LockIsOurs, Lock
  <2>2. ASSUME NEW q \in Replica, q # r, phase'[q] \in {"creating", "unlocking"}
        PROVE  holder' = session'[q]
    <3>1. phase[q] \in {"creating", "unlocking"}
      BY <2>2 DEF PartitionIInv, TypeOK, Lock
    <3>2. holder = session[q] /\ session[q] # NoSession
      BY <3>1 DEF PartitionIInv, LockIsOurs, RunsOnOwnSession
    <3>3. holder = session[r]
      BY <3>2 DEF Lock, Granted
    <3> QED BY <2>2, <3>2, <3>3, SessionsApart DEF PartitionIInv
  <2> QED BY <2>1, <2>2 DEF Lock, LockIsOurs
<1>5. PlanKept'
  BY DEF PartitionIInv, TypeOK, PlanKept, Plan, Lock, calendar
<1>6. CalendarInv'
  BY DEF PartitionIInv, CalendarInv, Plan, Lock, calendar
<1> QED BY <1>2, <1>3, <1>4, <1>5, <1>6 DEF PartitionIInv

(* It gives up, as another session has the lock. *)
LEMMA SkipStep ==
  ASSUME PartitionIInv, NEW r \in Replica, Skip(r)
  PROVE  PartitionIInv'
<1>1. /\ phase[r] # "idle" /\ Finish(r) /\ UNCHANGED <<calendar, holder, depth>>
      /\ state' = [state EXCEPT ![session[r]] = "pooled"]
  BY DEF Skip, GiveBack
<1>2. /\ TypeOK' /\ RunsOnOwnSession' /\ PlanKept' /\ CalendarInv'
  BY <1>1, FinishStep DEF PartitionIInv, TypeOK
<1>3. LockIsOurs'
  BY <1>1 DEF PartitionIInv, TypeOK, LockIsOurs, Finish
<1> QED BY <1>2, <1>3 DEF PartitionIInv

(* It creates a month of its plan. *)
LEMMA CreateNextStep ==
  ASSUME PartitionIInv, NEW r \in Replica, CreateNext(r)
  PROVE  PartitionIInv'
<1> USE MaintenanceAssumption
<1> DEFINE m == First(todo[r])
<1>1. m \in todo[r]
  <2>1. todo[r] \in SUBSET Nat /\ todo[r] # {}
    BY DEF PartitionIInv, TypeOK, CreateNext
  <2> QED BY <2>1, FirstOfPlan
<1>2. /\ partitions' = partitions \cup {m}
      /\ todo' = [todo EXCEPT ![r] = @ \ {m}]
      /\ UNCHANGED <<month, covered, phase, session, base, state, holder, depth>>
  BY DEF CreateNext
<1> HIDE DEF m
<1>3. TypeOK'
  BY <1>1, <1>2 DEF PartitionIInv, TypeOK
<1>4. RunsOnOwnSession' /\ LockIsOurs'
  BY <1>2 DEF PartitionIInv, RunsOnOwnSession, LockIsOurs
<1>5. PlanKept'
  BY <1>1, <1>2 DEF PartitionIInv, TypeOK, PlanKept, Plan
<1>6. CalendarInv'
  BY <1>2 DEF PartitionIInv, CalendarInv, Plan
<1> QED BY <1>3, <1>4, <1>5, <1>6 DEF PartitionIInv

(* It has created them all: its plan is covered. *)
LEMMA CreatedStep ==
  ASSUME PartitionIInv, NEW r \in Replica, Created(r)
  PROVE  PartitionIInv'
<1> USE MaintenanceAssumption
<1>1. base[r] \in 1..month /\ Plan(base[r]) \subseteq partitions
  BY DEF PartitionIInv, PlanKept, Created
<1>2. TypeOK'
  BY <1>1 DEF PartitionIInv, TypeOK, Created
<1>3. RunsOnOwnSession' /\ LockIsOurs'
  BY DEF PartitionIInv, TypeOK, RunsOnOwnSession, LockIsOurs, Created
<1>4. PlanKept'
  BY DEF PartitionIInv, TypeOK, PlanKept, Plan, Created
<1>5. CalendarInv'
  BY <1>1 DEF PartitionIInv, TypeOK, CalendarInv, Plan, Created
<1> QED BY <1>2, <1>3, <1>4, <1>5 DEF PartitionIInv

(* It gives up half way, and will unlock. *)
LEMMA CreateFailsStep ==
  ASSUME PartitionIInv, NEW r \in Replica, CreateFails(r)
  PROVE  PartitionIInv'
<1>1. TypeOK'
  BY DEF PartitionIInv, TypeOK, CreateFails, calendar
<1>2. RunsOnOwnSession' /\ LockIsOurs'
  BY DEF PartitionIInv, TypeOK, RunsOnOwnSession, LockIsOurs, CreateFails
<1>3. PlanKept' /\ CalendarInv'
  BY DEF PartitionIInv, TypeOK, PlanKept, CalendarInv, Plan, CreateFails, calendar
<1> QED BY <1>1, <1>2, <1>3 DEF PartitionIInv

(* It unlocks once for each time it locked. *)
LEMMA UnlockStep ==
  ASSUME PartitionIInv, NEW r \in Replica, Unlock(r)
  PROVE  PartitionIInv'
<1> USE MaintenanceAssumption
<1>1. /\ phase[r] = "unlocking" /\ Finish(r) /\ UNCHANGED calendar
      /\ state' = [state EXCEPT ![session[r]] = "pooled"]
  BY DEF Unlock, GiveBack
<1>2. holder = session[r] /\ session[r] \in Session
  BY <1>1 DEF PartitionIInv, LockIsOurs, RunsOnOwnSession, TypeOK
<1>3. /\ depth \in Nat \ {0} /\ depth' = depth - 1
      /\ holder' = IF depth = 1 THEN NoSession ELSE holder
  BY <1>2 DEF Unlock, PartitionIInv, TypeOK, LockIsOurs
<1>4. TypeOK' /\ RunsOnOwnSession' /\ PlanKept' /\ CalendarInv'
  <2>1. holder' \in Session \cup {NoSession} /\ depth' \in Nat
    BY <1>2, <1>3
  <2> QED BY <1>1, <2>1, FinishStep DEF TypeOK
<1>5. LockIsOurs'
  <2>1. \A q \in Replica : phase'[q] \in {"creating", "unlocking"} =>
           q # r /\ phase[q] \in {"creating", "unlocking"}
    BY <1>1 DEF Finish, PartitionIInv, TypeOK
  <2>2. \A q \in Replica : phase[q] \in {"creating", "unlocking"} => q = r
    BY <1>2, SessionsApart DEF PartitionIInv, LockIsOurs
  <2>3. holder' = NoSession <=> depth' = 0
    BY <1>2, <1>3
  <2> QED BY <2>1, <2>2, <2>3 DEF LockIsOurs
<1> QED BY <1>4, <1>5 DEF PartitionIInv

(* Its connection breaks. *)
LEMMA BreakStep ==
  ASSUME PartitionIInv, NEW r \in Replica, Break(r)
  PROVE  PartitionIInv'
<1>1. /\ phase[r] # "idle" /\ Finish(r) /\ UNCHANGED <<calendar, holder, depth>>
      /\ state' = [state EXCEPT ![session[r]] = "broken"]
  BY DEF Break
<1>2. /\ TypeOK' /\ RunsOnOwnSession' /\ PlanKept' /\ CalendarInv'
  BY <1>1, FinishStep DEF PartitionIInv, TypeOK
<1>3. LockIsOurs'
  BY <1>1 DEF PartitionIInv, TypeOK, LockIsOurs, Finish
<1> QED BY <1>2, <1>3 DEF PartitionIInv

(* A session nobody works on ends, and the lock with it. *)
LEMMA ReapStep ==
  ASSUME PartitionIInv, NEW s \in Session, Reap(s)
  PROVE  PartitionIInv'
<1> USE MaintenanceAssumption
<1>1. TypeOK'
  BY DEF PartitionIInv, TypeOK, Reap, GiveBack, calendar
<1>2. \A r \in Replica : session[r] # s
  BY DEF PartitionIInv, RunsOnOwnSession, Reap
<1>3. RunsOnOwnSession'
  BY <1>2 DEF PartitionIInv, TypeOK, RunsOnOwnSession, Reap, GiveBack
<1>4. LockIsOurs'
  BY <1>2 DEF PartitionIInv, TypeOK, LockIsOurs, Reap
<1>5. PlanKept' /\ CalendarInv'
  BY DEF PartitionIInv, PlanKept, CalendarInv, Plan, Reap, calendar
<1> QED BY <1>1, <1>3, <1>4, <1>5 DEF PartitionIInv

(* A month passes, at most MonthsAhead after a plan was covered. *)
LEMMA NextMonthStep ==
  ASSUME PartitionIInv, NextMonth
  PROVE  PartitionIInv'
<1> USE MaintenanceAssumption
<1>1. TypeOK'
  BY DEF PartitionIInv, TypeOK, NextMonth
<1>2. RunsOnOwnSession' /\ LockIsOurs'
  BY DEF PartitionIInv, RunsOnOwnSession, LockIsOurs, NextMonth
<1>3. PlanKept' /\ CalendarInv'
  BY DEF PartitionIInv, TypeOK, PlanKept, CalendarInv, Plan, NextMonth
<1> QED BY <1>1, <1>2, <1>3 DEF PartitionIInv

(* Every step of the job, the calendar or the server keeps the invariant. *)
LEMMA PartitionStep == PartitionIInv /\ [MaintenanceNext]_maintenanceVars => PartitionIInv'
<1> SUFFICES ASSUME PartitionIInv, [MaintenanceNext]_maintenanceVars PROVE PartitionIInv'
  OBVIOUS
<1>1. CASE \E r \in Replica : Connect(r) \/ CreateFails(r) \/ Break(r)
  BY <1>1, ConnectStep, CreateFailsStep, BreakStep
<1>2. CASE \E r \in Replica : Step(r)
  BY <1>2, LockStep, SkipStep, CreateNextStep, CreatedStep, UnlockStep DEF Step
<1>3. CASE \E s \in Session : Reap(s)
  BY <1>3, ReapStep
<1>4. CASE NextMonth
  BY <1>4, NextMonthStep
<1>5. CASE UNCHANGED maintenanceVars
  BY <1>5 DEF maintenanceVars, PartitionIInv, TypeOK, RunsOnOwnSession, LockIsOurs, PlanKept,
              CalendarInv, Plan
<1> QED BY <1>1, <1>2, <1>3, <1>4, <1>5 DEF MaintenanceNext

(* The inductive invariant holds in every state the job can reach. *)
THEOREM PartitionInvariant == MaintenanceSpec => []PartitionIInv
BY PartitionInit, PartitionStep, PTL DEF MaintenanceSpec

(* "Exactly one of them performs the DDL": whatever replicas run the cron,  *)
(* at most one run creates partitions, and it holds the advisory lock.      *)
THEOREM PartitionOneCreator == MaintenanceSpec => []PartitionInv
<1>1. PartitionIInv => PartitionInv
  <2> SUFFICES ASSUME PartitionIInv,
                      NEW r \in Replica, phase[r] = "creating"
               PROVE  /\ holder = session[r]
                      /\ \A q \in Replica \ {r} : phase[q] # "creating"
    BY DEF PartitionInv, PartitionIInv, OneCreator
  <2>1. holder = session[r] /\ session[r] # NoSession
    BY DEF PartitionIInv, LockIsOurs, RunsOnOwnSession
  <2>2. \A q \in Replica : phase[q] = "creating" => q = r
    BY <2>1, SessionsApart DEF PartitionIInv, LockIsOurs
  <2> QED BY <2>1, <2>2
<1> QED BY <1>1, PartitionInvariant, PTL

(* An audit entry written now has a partition, and so has every month the   *)
(* latest complete plan named, whatever runs failed half way.               *)
THEOREM PartitionHorizon == MaintenanceSpec => []HorizonCovered
<1>1. PartitionIInv => HorizonCovered
  BY MaintenanceAssumption
     DEF PartitionIInv, TypeOK, CalendarInv, HorizonCovered, Plan
<1> QED BY <1>1, PartitionInvariant, PTL
=============================================================================
