------------------------------- MODULE Startup -------------------------------
(***************************************************************************)
(* How an instance and the migration job come to a configuration.  On a    *)
(* host a process has the environment of its shell; the service adds what  *)
(* a .env file defines and the shell does not, the job run by hand does    *)
(* not.  Docker compose fills in the same file, writes DB_URL itself, and  *)
(* gives its containers, the job among them, the result; they have no      *)
(* file.  loadAppConfig reads the environment once and refuses to start    *)
(* on any invalid value.                                                   *)
(*                                                                         *)
(* An environment is a function on the variables that are set.  A URL is   *)
(* [host, user, password], each perhaps blank, host standing for server    *)
(* and database; numbers are the texts in DOMAIN Coerced; CORS_ORIGINS is  *)
(* the set of its trimmed entries.                                         *)
(***************************************************************************)
EXTENDS Integers, TLC

CONSTANTS
    Process,       \* processes of the service
    Shells,        \* the environments a deployment may give its processes
    Files,         \* what .env may define; the empty function: no file
    InNetwork,     \* the URL compose writes: its own database, no login
    Earlier,       \* connections of jobs that ran before
    NoConfig       \* "does not serve"; "compose has not run"

VARIABLES
    shell,         \* the deployment's environment
    file,          \* .env as it is now
    given,         \* what compose last gave its service containers, or NoConfig
    inside,        \* the instances that were last started in a container
    migrated,      \* the connections migration jobs have run on
    config         \* config[i]: what loadAppConfig returned to process i

startupVars == <<shell, file, given, inside, migrated, config>>

----------------------------------------------------------------------------
(* What a field yields is a set of at most one value: empty if it refuses. *)

Blank == ""

(* f, and what it leaves out as in g. *)
WithDefaults(f, g) ==
    [v \in DOMAIN f \cup DOMAIN g |-> IF v \in DOMAIN f THEN f[v] ELSE g[v]]

(* z.coerce.number(): the number a text reads as, if any. *)
Coerced ==
    (Blank :> {0}) @@ ("word" :> {}) @@ ("-1" :> {-1}) @@ ("0" :> {0}) @@ ("10" :> {10})
    @@ ("2000" :> {2000})

(* z.coerce.number().int() with a bound and a default. *)
NumberField(env, var, least, default) ==
    IF var \in DOMAIN env THEN {n \in Coerced[env[var]] : n >= least} ELSE {default}

TextField(env, var) == IF var \in DOMAIN env THEN env[var] ELSE Blank

Login(env) == [user |-> TextField(env, "POSTGRES_USER"),
               password |-> TextField(env, "POSTGRES_PASSWORD")]

Bare(login) == login.user = Blank /\ login.password = Blank

Whole(login) == login.user # Blank /\ login.password # Blank

(* Fault: POSTGRES_USER and POSTGRES_PASSWORD win over the URL's own. *)
ComposedFromFields(env, url) ==
    {u \in {IF Whole(Login(env)) THEN WithDefaults(Login(env), url) ELSE url} : Whole(u)}

(* composeDatabaseUrl: a login is only added, and only to a URL without    *)
(* any; half a login is refused.                                           *)
Composed(env, url) ==
    {u \in {IF Bare(url) THEN WithDefaults(Login(env), url) ELSE url} : Whole(u)}

HasUrl(env, var) == var \in DOMAIN env /\ env[var].host # Blank

WriteUrl(env) == IF HasUrl(env, "DB_URL") THEN Composed(env, env["DB_URL"]) ELSE {}

ReadUrl(env) ==
    IF HasUrl(env, "DB_READ_URL") THEN Composed(env, env["DB_READ_URL"]) ELSE WriteUrl(env)

CorsOrigins(env) ==
    {origins \in {env[v] : v \in DOMAIN env \cap {"CORS_ORIGINS"}} :
        origins \cap {Blank, "*"} = {}}

LoadAppConfig(env) ==
    [writeUrl      : WriteUrl(env),
     readUrl       : ReadUrl(env),
     poolSize      : NumberField(env, "DB_POOL_SIZE", 1, 10),
     lockTimeoutMs : NumberField(env, "DB_LOCK_TIMEOUT_MS", 0, 2000),
     corsOrigins   : CorsOrigins(env)]

(* Fault: the file overrides what the shell has set. *)
EnvironmentOfFile ==
    IF TextField(shell, "NODE_ENV") = "production" THEN shell ELSE WithDefaults(file, shell)

(* loadEnvFile: what the shell sets wins, a blank value included. *)
Environment ==
    IF TextField(shell, "NODE_ENV") = "production" THEN shell ELSE WithDefaults(shell, file)

(* ${var:-default}: a blank counts as unset. *)
OrElse(env, var, blank, default) ==
    IF var \in DOMAIN env /\ env[var] # blank THEN env[var] ELSE default

(* What docker-compose.yml passes to migrate and backend: the shell wins    *)
(* over .env, whatever NODE_ENV says; DB_URL is neither's.                  *)
Interpolated ==
    LET env == WithDefaults(shell, file)
    IN  ("DB_URL" :> InNetwork)
        @@ [v \in {"POSTGRES_USER", "POSTGRES_PASSWORD"} |-> TextField(env, v)]
        @@ [v \in {"DB_READ_URL"} \cap DOMAIN env |-> env[v]]
        @@ ("DB_POOL_SIZE" :> OrElse(env, "DB_POOL_SIZE", Blank, "10"))
        @@ ("DB_LOCK_TIMEOUT_MS" :> OrElse(env, "DB_LOCK_TIMEOUT_MS", Blank, "2000"))
        @@ ("CORS_ORIGINS" :> OrElse(env, "CORS_ORIGINS", {Blank}, {"app"}))

----------------------------------------------------------------------------
(* npm run migration:run, by hand or by an orchestrator: the job reads no   *)
(* file.                                                                    *)
Migrate ==
    /\ \E url \in WriteUrl(shell) : migrated' = migrated \cup {url}
    /\ UNCHANGED <<shell, file, given, inside, config>>

(* Compose fills the file in, unless a login is missing, and runs the job.  *)
ComposeJob ==
    /\ Whole(Login(Interpolated))
    /\ \E url \in WriteUrl(Interpolated) : migrated' = migrated \cup {url}

(* npm run dev: the job in a container, the service on the host. *)
ComposeMigrate ==
    /\ ComposeJob
    /\ UNCHANGED <<shell, file, given, inside, config>>

(* Fault: service containers are kept though their environment has changed. *)
ComposeUpKeeping ==
    /\ ComposeJob
    /\ given' = Interpolated
    /\ UNCHANGED <<shell, file, inside, config>>

(* npm start: the job, and new service containers after it. *)
ComposeUp ==
    /\ ComposeJob
    /\ given' = Interpolated
    /\ config' = [i \in Process |-> IF i \in inside THEN NoConfig ELSE config[i]]
    /\ UNCHANGED <<shell, file, inside>>

EditFile ==
    /\ file' \in Files
    /\ UNCHANGED <<shell, given, inside, migrated, config>>

(* bootstrap: an instance whose configuration is refused, or whose first    *)
(* query finds no tables, exits.                                            *)
Start(i, env) ==
    /\ config[i] = NoConfig
    /\ \E c \in LoadAppConfig(env) :
          /\ \E url \in migrated : url.host = c.writeUrl.host
          /\ config' = [config EXCEPT ![i] = c]
    /\ UNCHANGED <<shell, file, given, migrated>>

StartOnHost(i) == Start(i, Environment) /\ inside' = inside \ {i}

(* The image holds no .env: a container has what compose gave it. *)
StartInContainer(i) ==
    /\ given # NoConfig
    /\ Start(i, given)
    /\ inside' = inside \cup {i}

Shutdown(i) ==
    /\ config[i] # NoConfig
    /\ config' = [config EXCEPT ![i] = NoConfig]
    /\ UNCHANGED <<shell, file, given, inside, migrated>>

StartupInit ==
    /\ shell \in Shells
    /\ file \in Files
    /\ given = NoConfig
    /\ inside = {}
    /\ migrated = Earlier
    /\ config = [i \in Process |-> NoConfig]

StartupNext ==
    \/ Migrate \/ ComposeMigrate \/ ComposeUp \/ EditFile
    \/ \E i \in Process : StartOnHost(i) \/ StartInContainer(i) \/ Shutdown(i)

StartupSpec == StartupInit /\ [][StartupNext]_startupVars

----------------------------------------------------------------------------
(* The connection of the migration job that goes with an instance, if that  *)
(* job can run: for a container the job of the same "compose up", for a     *)
(* process on a host the one run by hand in the same shell.                 *)
JobUrl(i) == IF i \in inside THEN WriteUrl(given) ELSE WriteUrl(shell)

(* "... the full app config and the migration-only config can never         *)
(* disagree on how DB_URL is built": an instance works on the database, and *)
(* with the login, of the job that goes with it, whatever .env adds to the  *)
(* instance and not to the job, and however often it is edited.             *)
OneDatabase ==
    \A i \in Process : config[i] # NoConfig =>
        \A url \in JobUrl(i) : config[i].writeUrl = url

(* An instance works on a connection that some job has run on, the job that *)
(* npm run dev leaves to compose included.                                  *)
KnownConnection == \A i \in Process : config[i] # NoConfig => config[i].writeUrl \in migrated

(* "Invalid or missing values fail fast": no instance serves without the    *)
(* lock timeout unless the deployment says 0.  A blank value reads as 0.    *)
TimeoutsHold ==
    \A i \in Process : config[i] # NoConfig => config[i].lockTimeoutMs > 0
==============================================================================
