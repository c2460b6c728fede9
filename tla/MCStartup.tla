------------------------------ MODULE MCStartup ------------------------------
(***************************************************************************)
(* Deployments by an orchestrator, by compose and on a developer's host.   *)
(* A host may have what its shell leaves out in .env, or something else    *)
(* than its shell.  Each may run the job and the service in any way.       *)
(***************************************************************************)
EXTENDS Startup

Url(user, password) == [host |-> "db", user |-> user, password |-> password]

Elsewhere == [host |-> "other", user |-> Blank, password |-> Blank]

NoUrl == [host |-> Blank, user |-> Blank, password |-> Blank]

Common == ("CORS_ORIGINS" :> {"app"})

(* What a deployment passes, a login in the URL or beside it; and what is  *)
(* left of it on a host that relies on .env for the rest.                  *)
Production ==
    Common @@ ("NODE_ENV" :> "production") @@ ("DB_URL" :> Url("app", "pw"))
           @@ ("DB_POOL_SIZE" :> "10")

Container ==
    Common @@ ("DB_URL" :> Url(Blank, Blank)) @@ ("DB_READ_URL" :> NoUrl)
           @@ ("POSTGRES_USER" :> "app") @@ ("POSTGRES_PASSWORD" :> "pw")

HostWithLogin == "DB_URL" :> Url("app", "pw")

HostBare == "DB_URL" :> Url(Blank, Blank)

HostHalf == ("DB_URL" :> Url("app", Blank)) @@ ("POSTGRES_PASSWORD" :> "pw")

Blanks == Common @@ ("DB_URL" :> Url("app", "pw")) @@ ("DB_LOCK_TIMEOUT_MS" :> Blank)

NoFile == [v \in {} |-> Blank]

(* .env.example filled in for this database, and another project's. *)
Filled ==
    Common @@ ("DB_URL" :> Url(Blank, Blank)) @@ ("POSTGRES_USER" :> "app")
           @@ ("POSTGRES_PASSWORD" :> "pw") @@ ("DB_LOCK_TIMEOUT_MS" :> "10")

Other ==
    ("CORS_ORIGINS" :> {"app", "*"}) @@ ("DB_URL" :> Elsewhere)
        @@ ("POSTGRES_USER" :> "other") @@ ("POSTGRES_PASSWORD" :> "other")

Repaired == Common @@ ("POSTGRES_USER" :> "other") @@ ("POSTGRES_PASSWORD" :> "other")

AllShells == {Production, Container, HostWithLogin, HostBare, HostHalf}

AllFiles == {NoFile, Filled, Other, Repaired}

Network == Url(Blank, Blank)

(* The other project's database has its tables. *)
OtherProject == {[Elsewhere EXCEPT !.user = "other", !.password = "other"]}

NoJobs == {}

BlankShells == {Blanks}

NoFiles == {NoFile}
==============================================================================
