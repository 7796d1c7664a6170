----------------------------- MODULE Operations -----------------------------
(***************************************************************************)
(* Deployment, Migration and CostGuard for TLC in one run.  They share no  *)
(* state: a behaviour belongs to the component its first state names, and  *)
(* the others rest.                                                        *)
(***************************************************************************)
EXTENDS Naturals

CONSTANTS Runs, Migrators, MaxCommands, Project, Other, Untagged, Count

VARIABLES
    component,
    step, commit, todo, waited, exec, abandoned, jobs, registry, schema, secret,
    wanted, honoured,
    tables, own, command, plan, at, state, disturbed, started,
    servers, listing, next, run, accepted, halted

D == INSTANCE Deployment
M == INSTANCE Migration
G == INSTANCE CostGuard

deployment == <<step, commit, todo, waited, exec, abandoned, jobs, registry,
                schema, secret, wanted, honoured>>
migration == <<tables, own, command, plan, at, state, disturbed, started>>
costGuard == <<servers, listing, next, run, accepted, halted>>

vars == <<component, deployment, migration, costGuard>>

ASSUME OperationsAssumption ==
    D!DeploymentAssumption /\ M!MigrationAssumption /\ G!CostGuardAssumption

Init ==
    /\ component \in {"Deployment", "Migration", "CostGuard"}
    /\ D!Init /\ M!Init /\ G!Init
    /\ component # "CostGuard" =>
           servers = [i \in 1 .. Count |-> [tag |-> Untagged, state |-> "Stopped"]]

DeploymentStep ==
    component = "Deployment" /\ D!Next /\ UNCHANGED <<component, migration, costGuard>>

MigrationStep ==
    component = "Migration" /\ M!Next /\ UNCHANGED <<component, deployment, costGuard>>

CostGuardStep ==
    component = "CostGuard" /\ G!Next /\ UNCHANGED <<component, deployment, migration>>

Next == DeploymentStep \/ MigrationStep \/ CostGuardStep

Spec == Init /\ [][Next]_vars /\ D!Fairness

-----------------------------------------------------------------------------
(* A green run means deployed (cd.yml, the deploy job).                    *)
GreenMeansDeployed == D!GreenMeansDeployed

(* A cycle meets an older schema only before its commit's migration.       *)
SchemaLagsOnlyWhileDeploying == D!SchemaLagsOnlyWhileDeploying

(* Two migrations run at once only where a run of one was lost.            *)
OnlyAbandonedMigrationsOverlap == D!OnlyAbandonedMigrationsOverlap

(* A run that has begun ends.                                              *)
PipelinesEnd == D!PipelinesEnd

(* The version row of alembic tells the schema, at every commit.           *)
VersionTellsTheSchema == M!VersionTellsTheSchema

(* A statement of a migration fails only beside a rival.                   *)
OnlyRivalsMakeItFail == M!OnlyRivalsMakeItFail

(* The cost guard stops what is the project's and nothing else, and has    *)
(* seen all of it down when it says done.                                  *)
StopsExactlyTheProject == G!StopsExactlyTheProject
=============================================================================
