------------------------ MODULE PartitionMaintenance ------------------------
(***************************************************************************)
(* The job that keeps task_status_history's monthly partitions ahead of    *)
(* the calendar (PartitionMaintenanceService), on every replica.           *)
(*                                                                         *)
(* A run takes a connection of its replica's pool, tries a session-level   *)
(* advisory lock, creates the missing partitions one statement at a time,  *)
(* unlocks, and gives the connection back.  PostgreSQL ties the lock to    *)
(* the SESSION: a session that holds it may take it again (and must then   *)
(* unlock twice), and keeps it when its connection returns to the pool     *)
(* still locked.  A connection that breaks leaves its session, and the     *)
(* lock, to the server until that notices.                                 *)
(***************************************************************************)
EXTENDS Integers, FiniteSets

CONSTANTS
    Replica,       \* service instances
    Session,       \* database sessions behind all pooled connections
    OwnedBy,       \* OwnedBy[s]: the replica whose pool holds session s
    NoSession,     \* "none"
    MonthsAhead,   \* FUTURE_MONTHS_AHEAD
    MaxMonth       \* bound: months that pass

ASSUME MaintenanceAssumption ==
    /\ OwnedBy \in [Session -> Replica]
    /\ NoSession \notin Session
    /\ MonthsAhead \in Nat /\ MaxMonth \in Nat \ {0}

VARIABLES
    month,         \* the current calendar month
    partitions,    \* months that have a partition
    phase,         \* phase[r]: where the run of replica r stands
    session,       \* session[r]: the session its run works on
    todo,          \* todo[r]: months of its plan still to be created
    base,          \* base[r]: the month its plan starts with
    state,         \* state[s]: "pooled", "used" or "broken"
    holder,        \* the session that holds the advisory lock
    depth,         \* how often that session has locked it
    covered        \* the month of the latest run that finished its plan

maintenanceVars == <<month, partitions, phase, session, todo, base, state, holder, depth, covered>>

calendar == <<month, partitions, covered>>

(* Fault: the plan is one month short. *)
PlanShort(m) == m..(m + MonthsAhead - 1)

(* Fault: and this one a month too long. *)
PlanLong(m) == m..(m + MonthsAhead + 1)

(* buildMonthlyPartitionPlan: this month and MonthsAhead further ones. *)
Plan(m) == m..(m + MonthsAhead)

First(S) == CHOOSE m \in S : \A n \in S : m <= n

(* The migration that creates the table provisions the first months. *)
MaintenanceInit ==
    /\ month = 1
    /\ partitions = 1..(1 + MonthsAhead)
    /\ covered = 1
    /\ phase = [r \in Replica |-> "idle"]
    /\ session = [r \in Replica |-> NoSession]
    /\ todo = [r \in Replica |-> {}]
    /\ base = [r \in Replica |-> 0]
    /\ state = [s \in Session |-> "pooled"]
    /\ holder = NoSession
    /\ depth = 0

----------------------------------------------------------------------------
(* The cron fires, or somebody calls provisionPartitions. *)
Connect(r) ==
    /\ phase[r] = "idle"
    /\ \E s \in Session :
          /\ OwnedBy[s] = r
          /\ state[s] = "pooled"
          /\ state' = [state EXCEPT ![s] = "used"]
          /\ session' = [session EXCEPT ![r] = s]
    /\ phase' = [phase EXCEPT ![r] = "connected"]
    /\ UNCHANGED <<calendar, todo, base, holder, depth>>

Finish(r) ==
    /\ phase' = [phase EXCEPT ![r] = "idle"]
    /\ session' = [session EXCEPT ![r] = NoSession]
    /\ todo' = [todo EXCEPT ![r] = {}]
    /\ base' = [base EXCEPT ![r] = 0]

GiveBack(s) == state' = [state EXCEPT ![s] = "pooled"]

(* Fault: whoever asks gets the lock. *)
GrantedToAll(s) == TRUE

(* pg_try_advisory_lock *)
Granted(s) == holder \in {NoSession, s}

Lock(r) ==
    /\ phase[r] = "connected"
    /\ Granted(session[r])
    /\ holder' = session[r]
    /\ depth' = IF holder = session[r] THEN depth + 1 ELSE 1
    /\ phase' = [phase EXCEPT ![r] = "creating"]
    /\ todo' = [todo EXCEPT ![r] = Plan(month)]
    /\ base' = [base EXCEPT ![r] = month]
    /\ UNCHANGED <<calendar, session, state>>

(* Another replica holds the lock: this run does nothing. *)
Skip(r) ==
    /\ phase[r] = "connected"
    /\ ~Granted(session[r])
    /\ Finish(r)
    /\ GiveBack(session[r])
    /\ UNCHANGED <<calendar, holder, depth>>

(* CREATE TABLE IF NOT EXISTS ... PARTITION OF, for the plan's next month. *)
CreateNext(r) ==
    /\ phase[r] = "creating"
    /\ todo[r] # {}
    /\ partitions' = partitions \cup {First(todo[r])}
    /\ todo' = [todo EXCEPT ![r] = @ \ {First(todo[r])}]
    /\ UNCHANGED <<month, covered, phase, session, base, state, holder, depth>>

Created(r) ==
    /\ phase[r] = "creating"
    /\ todo[r] = {}
    /\ covered' = IF base[r] > covered THEN base[r] ELSE covered
    /\ phase' = [phase EXCEPT ![r] = "unlocking"]
    /\ UNCHANGED <<month, partitions, session, todo, base, state, holder, depth>>

(* Fault: the error skips the unlock. *)
CreateFailsUnlockless(r) ==
    /\ phase[r] = "creating"
    /\ Finish(r)
    /\ GiveBack(session[r])
    /\ UNCHANGED <<calendar, holder, depth>>

(* A statement fails, or times out behind a lock on the table: the rest of  *)
(* the plan is left, the finally block still unlocks.                       *)
CreateFails(r) ==
    /\ phase[r] = "creating"
    /\ phase' = [phase EXCEPT ![r] = "unlocking"]
    /\ todo' = [todo EXCEPT ![r] = {}]
    /\ UNCHANGED <<calendar, session, base, state, holder, depth>>

(* pg_advisory_unlock, then the connection goes back to the pool. *)
Unlock(r) ==
    /\ phase[r] = "unlocking"
    /\ IF holder = session[r]
       THEN /\ depth' = depth - 1
            /\ holder' = IF depth = 1 THEN NoSession ELSE holder
       ELSE UNCHANGED <<holder, depth>>
    /\ Finish(r)
    /\ GiveBack(session[r])
    /\ UNCHANGED calendar

(* The connection breaks or the replica dies: the run is over, its session  *)
(* lives on at the server.                                                  *)
Break(r) ==
    /\ phase[r] # "idle"
    /\ Finish(r)
    /\ state' = [state EXCEPT ![session[r]] = "broken"]
    /\ UNCHANGED <<calendar, holder, depth>>

(* The server ends the session; the pool opens another in its place. *)
Reap(s) ==
    /\ state[s] = "broken"
    /\ GiveBack(s)
    /\ holder' = IF holder = s THEN NoSession ELSE holder
    /\ depth' = IF holder = s THEN 0 ELSE depth
    /\ UNCHANGED <<calendar, phase, session, todo, base>>

(* Time passes.  Assumed: a run finishes its plan at least once in any      *)
(* MonthsAhead months.                                                      *)
NextMonth ==
    /\ month < MaxMonth
    /\ month < covered + MonthsAhead
    /\ month' = month + 1
    /\ UNCHANGED <<partitions, phase, session, todo, base, state, holder, depth, covered>>

Step(r) == Lock(r) \/ Skip(r) \/ CreateNext(r) \/ Created(r) \/ Unlock(r)

MaintenanceNext ==
    \/ \E r \in Replica : Connect(r) \/ Step(r) \/ CreateFails(r) \/ Break(r)
    \/ \E s \in Session : Reap(s)
    \/ NextMonth

MaintenanceSpec == MaintenanceInit /\ [][MaintenanceNext]_maintenanceVars

(* A run that started goes on, and the server notices broken connections. *)
FairMaintenance ==
    /\ MaintenanceSpec
    /\ \A r \in Replica : WF_maintenanceVars(Step(r))
    /\ \A s \in Session : WF_maintenanceVars(Reap(s))

----------------------------------------------------------------------------
(* Every variable has its type. *)
TypeOK ==
    /\ month \in 1..MaxMonth
    /\ partitions \in SUBSET (1..(MaxMonth + MonthsAhead))
    /\ phase \in [Replica -> {"idle", "connected", "creating", "unlocking"}]
    /\ session \in [Replica -> Session \cup {NoSession}]
    /\ todo \in [Replica -> SUBSET (1..(MaxMonth + MonthsAhead))]
    /\ base \in [Replica -> 0..MaxMonth]
    /\ state \in [Session -> {"pooled", "used", "broken"}]
    /\ holder \in Session \cup {NoSession}
    /\ depth \in Nat
    /\ covered \in 1..MaxMonth

(* "When several replicas run this same cron at once, exactly one of them   *)
(* performs the DDL": never do two runs create partitions at a time, and    *)
(* the one that does holds the lock.                                        *)
OneCreator ==
    \A r \in Replica : phase[r] = "creating" =>
        /\ holder = session[r]
        /\ \A q \in Replica \ {r} : phase[q] # "creating"

(* The runs stay within what the plan can name, one at a time. *)
PartitionInv == TypeOK /\ OneCreator

(* An audit entry written now has a partition to go to ("an insert that     *)
(* lands outside every created range must fail loudly"), whatever runs      *)
(* failed half way, and so has every month the last full run planned.       *)
HorizonCovered ==
    /\ month \in partitions
    /\ Plan(covered) \subseteq partitions

(* The lock never stays behind: no failing run locks out all later ones. *)
LockFreed == holder # NoSession ~> holder = NoSession
=============================================================================
