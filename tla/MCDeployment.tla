---------------------------- MODULE MCDeployment ----------------------------
(***************************************************************************)
(* What a deployment changes, in two scenes: releases whose definitions    *)
(* differ over tasks that stay, and configurations that jobs and instances *)
(* read from one environment.  A behaviour is one or the other; scene says *)
(* which, and the other stands still.                                      *)
(***************************************************************************)
EXTENDS MCTaskTypes, MCStartup

VARIABLE scene     \* "releases" or "start-up"

AnyConfiguration == shell = Production /\ file = NoFile

MCInit ==
    /\ Init /\ StartupInit
    /\ scene \in {"releases", "start-up"}
    /\ scene = "releases" => AnyConfiguration

MCNext ==
    /\ UNCHANGED scene
    /\ \/ scene = "releases" /\ Next /\ UNCHANGED startupVars
       \/ scene = "start-up" /\ StartupNext /\ UNCHANGED vars

MCSpec == MCInit /\ [][MCNext]_<<vars, startupVars, scene>>
=============================================================================
