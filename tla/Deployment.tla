----------------------------- MODULE Deployment -----------------------------
(***************************************************************************)
(* The runs of .github/workflows/cd.yml: two Terraform applies around the  *)
(* build, the migration and the smoke test, each waited for by             *)
(* .github/scripts/wait-for-job.sh, while the schedule of the deployed job *)
(* goes on and an operator uses the kill switch.  A run deploys a commit:  *)
(* a new one, which bears the number of the run that brought it and needs  *)
(* the schema of that revision, or again one that was there before.  Time  *)
(* passes in units of five minutes, and only where somebody waits or is    *)
(* timed out.  GitHub, Terraform and Container Apps are external.          *)
(***************************************************************************)
EXTENDS Naturals, FiniteSets

CONSTANT Runs        \* the runs of the workflow, in the order they are queued

DeploymentAssumption == Runs \subseteq Nat \ {0}

VARIABLES
    step,       \* step[r]: where run r is
    commit,     \* commit[r]: the commit it deploys, 0 before it is queued
    todo,       \* todo[r]: the changes its current apply still has to make
    waited,     \* waited[r]: how long its wait-for-job.sh has polled
    exec,       \* exec[r][k]: the execution its step k started
    abandoned,  \* the runs that were lost, or lost the answer to a start,
                \* while a migration of theirs was running
    jobs,       \* jobs[j]: the commit whose image the job runs, 0 if absent
    registry,   \* the commits whose image was pushed
    schema,     \* the revision of the database, 0 when it is empty
    secret,     \* the kill switch in Key Vault
    wanted,     \* the position the operator last gave it
    honoured    \* the last scheduled cycle to start found the switch as wanted

vars == <<step, commit, todo, waited, exec, abandoned, jobs, registry, schema,
          secret, wanted, honoured>>

-----------------------------------------------------------------------------
Minutes(n) == n \div 5
Jobs == {"cycle", "migrate"}
Keys == {"migrate", "smoke"}

ReplicaTimeout == Minutes(10)
Retries(k) == IF k = "smoke" THEN 1 ELSE 0
Longest(k) == ReplicaTimeout * (1 + Retries(k))

\* A mutant: a wait shorter than a migration may take.
WaitFiveMinutes == Minutes(5)

WaitTimeout == Minutes(15)

Waiting == {"wait_migrate", "wait_smoke"}
Steps == {"platform", "build", "jobs", "migrate", "smoke"} \cup Waiting
NotBegun == {"unpushed", "pending", "superseded"}

JobOf(k) == IF k = "smoke" THEN "cycle" ELSE "migrate"

Ended(e, outcome) == [status |-> outcome, image |-> e.image, age |-> 0]

NoExecution == [status |-> "none", image |-> 0, age |-> 0]

InProgress(r) == step[r] \in Steps

Init ==
    /\ step = [r \in Runs |-> "unpushed"]
    /\ commit = [r \in Runs |-> 0]
    /\ todo = [r \in Runs |-> {}]
    /\ waited = [r \in Runs |-> 0]
    /\ exec = [r \in Runs |-> [k \in Keys |-> NoExecution]]
    /\ abandoned = {}
    /\ jobs = [j \in Jobs |-> 0]
    /\ registry = {}
    /\ schema = 0
    /\ secret = FALSE
    /\ wanted = FALSE
    /\ honoured = TRUE

-----------------------------------------------------------------------------
(* The concurrency group keeps one run waiting, the newest.                *)
Queue(r) ==
    /\ step[r] = "unpushed"
    /\ \A o \in Runs : o < r => step[o] # "unpushed"
    /\ step' = [o \in Runs |->
           IF o = r THEN "pending"
           ELSE IF step[o] = "pending" THEN "superseded" ELSE step[o]]
    /\ UNCHANGED <<todo, waited, exec, abandoned, jobs, registry, schema, secret,
                   wanted, honoured>>

Push(r) == Queue(r) /\ commit' = [commit EXCEPT ![r] = r]

(* workflow_dispatch, or a run that is run again: any commit so far.       *)
Dispatch(r) ==
    /\ Queue(r)
    /\ \E o \in Runs : commit[o] # 0 /\ commit' = [commit EXCEPT ![r] = commit[o]]

(* What an apply plans from the state it reads: the switch is declared     *)
(* with the value false, a job exists or not, with the image of the apply. *)
Plan(enabled, image) ==
    {c \in {"secret"} : secret}
    \cup {j \in Jobs : jobs[j] # (IF enabled THEN image ELSE 0)}

(* A reviewer approves the run, and no other is in progress.               *)
Begin(r) ==
    /\ step[r] = "pending"
    /\ \A o \in Runs : ~InProgress(o)
    /\ step' = [step EXCEPT ![r] = "platform"]
    /\ todo' = [todo EXCEPT ![r] = Plan(FALSE, 0)]
    /\ UNCHANGED <<commit, waited, exec, abandoned, jobs, registry, schema, secret,
                   wanted, honoured>>

(* One change of a running apply.  Destroying a job may end its executions.*)
ApplyChange(r) ==
    /\ step[r] \in {"platform", "jobs"}
    /\ \E c \in todo[r] :
          /\ todo' = [todo EXCEPT ![r] = @ \ {c}]
          /\ IF c = "secret"
             THEN secret' = FALSE /\ UNCHANGED <<jobs, exec>>
             ELSE /\ step[r] = "jobs" => "secret" \notin todo[r]
                  /\ jobs' = [jobs EXCEPT ![c] =
                         IF step[r] = "jobs" THEN commit[r] ELSE 0]
                  /\ \/ UNCHANGED exec
                     \/ /\ step[r] = "platform"
                        /\ exec' = [o \in Runs |-> [k \in DOMAIN exec[o] |->
                               IF JobOf(k) = c /\ exec[o][k].status = "running"
                               THEN Ended(exec[o][k], "failed") ELSE exec[o][k]]]
                  /\ UNCHANGED secret
    /\ UNCHANGED <<step, commit, waited, abandoned, registry, schema, wanted,
                   honoured>>

PlatformApplied(r) ==
    /\ step[r] = "platform"
    /\ todo[r] = {}
    /\ step' = [step EXCEPT ![r] = "build"]
    /\ UNCHANGED <<commit, todo, waited, exec, abandoned, jobs, registry, schema,
                   secret, wanted, honoured>>

(* Build and push, then the second apply plans. *)
BuildAndPush(r) ==
    /\ step[r] = "build"
    /\ registry' = registry \cup {commit[r]}
    /\ step' = [step EXCEPT ![r] = "jobs"]
    /\ todo' = [todo EXCEPT ![r] = Plan(TRUE, commit[r])]
    /\ UNCHANGED <<commit, waited, exec, abandoned, jobs, schema, secret, wanted,
                   honoured>>

\* A mutant: no migration before the smoke test.
JobsAppliedUnmigrated(r) ==
    /\ step[r] = "jobs"
    /\ todo[r] = {}
    /\ step' = [step EXCEPT ![r] = "smoke"]
    /\ UNCHANGED <<commit, todo, waited, exec, abandoned, jobs, registry, schema,
                   secret, wanted, honoured>>

JobsApplied(r) ==
    /\ step[r] = "jobs"
    /\ todo[r] = {}
    /\ step' = [step EXCEPT ![r] = "migrate"]
    /\ UNCHANGED <<commit, todo, waited, exec, abandoned, jobs, registry, schema,
                   secret, wanted, honoured>>

(* az containerapp job start: the execution runs the image of the job, and *)
(* the answer that names it may be lost, which fails the step.             *)
StartExecution(r, k) ==
    /\ step[r] = k
    /\ jobs[JobOf(k)] # 0
    /\ exec' = [exec EXCEPT ![r][k] =
           [status |-> "running", image |-> jobs[JobOf(k)], age |-> 0]]
    /\ waited' = [waited EXCEPT ![r] = 0]
    /\ \/ /\ step' = [step EXCEPT ![r] =
                 IF k = "migrate" THEN "wait_migrate" ELSE "wait_smoke"]
          /\ UNCHANGED abandoned
       \/ /\ step' = [step EXCEPT ![r] = "failed"]
          /\ abandoned' = abandoned \cup {o \in {r} : k = "migrate"}
    /\ UNCHANGED <<commit, todo, jobs, registry, schema, secret, wanted, honoured>>

(* The execution ends: a migration brings the schema to the head of its    *)
(* image, and fails where it meets a revision its image does not know; a   *)
(* cycle needs the schema of its image.                                    *)
ExecutionEnds(r, k) ==
    /\ exec[r][k].status = "running"
    /\ \E outcome \in {"succeeded", "failed"} :
          /\ exec' = [exec EXCEPT ![r][k] = Ended(@, outcome)]
          /\ k = "smoke" /\ outcome = "succeeded" => schema >= exec[r][k].image
          /\ k = "migrate" /\ outcome = "succeeded" => schema <= exec[r][k].image
          /\ schema' = IF k = "migrate" /\ outcome = "succeeded"
                       THEN exec[r][k].image ELSE schema
    /\ UNCHANGED <<step, commit, todo, waited, abandoned, jobs, registry, secret,
                   wanted, honoured>>

(* The step a pipeline waits in, as the key of its execution.              *)
Awaited(r) == IF step[r] = "wait_migrate" THEN "migrate" ELSE "smoke"

After(r) == IF step[r] = "wait_migrate" THEN "smoke" ELSE "ok"

\* A mutant: a queued execution is taken for a successful one.
PollAccepted(r) ==
    /\ step[r] \in Waiting
    /\ step' = [step EXCEPT ![r] =
           IF exec[r][Awaited(r)].status = "failed" THEN "failed" ELSE After(r)]
    /\ waited' = [waited EXCEPT ![r] = 0]
    /\ UNCHANGED <<commit, todo, exec, abandoned, jobs, registry, schema,
                   secret, wanted, honoured>>

(* A poll sees the execution ended; a poll that az cannot answer reads     *)
(* Unknown and changes nothing.                                            *)
Poll(r) ==
    /\ step[r] \in Waiting
    /\ exec[r][Awaited(r)].status # "running"
    /\ step' = [step EXCEPT ![r] =
           IF exec[r][Awaited(r)].status = "failed" THEN "failed" ELSE After(r)]
    /\ waited' = [waited EXCEPT ![r] = 0]
    /\ UNCHANGED <<commit, todo, exec, abandoned, jobs, registry, schema,
                   secret, wanted, honoured>>

\* A mutant: the loop has no deadline, it ends with the execution.
GiveUpNever(r) == step[r] \in Waiting /\ FALSE /\ UNCHANGED vars

(* The deadline of wait-for-job.sh. *)
GiveUp(r) ==
    /\ step[r] \in Waiting
    /\ waited[r] >= WaitTimeout
    /\ step' = [step EXCEPT ![r] = "failed"]
    /\ waited' = [waited EXCEPT ![r] = 0]
    /\ UNCHANGED <<commit, todo, exec, abandoned, jobs, registry, schema,
                   secret, wanted, honoured>>

(* Any step may fail before it is through: a login, a build, an apply that *)
(* has made some of its changes, a wait whose runner is lost or whose run  *)
(* is cancelled.                                                           *)
StepFails(r) ==
    /\ step[r] \in Steps
    /\ step' = [step EXCEPT ![r] = "failed"]
    /\ todo' = [todo EXCEPT ![r] = {}]
    /\ abandoned' = abandoned \cup
           {o \in {r} : exec[r]["migrate"].status = "running"}
    /\ waited' = [waited EXCEPT ![r] = 0]
    /\ UNCHANGED <<commit, exec, jobs, registry, schema, secret, wanted,
                   honoured>>

(* The runbook's repair when a failed deployment left the environment      *)
(* without its jobs: an apply with a tag that is in the registry, and the  *)
(* switch as declared.                                                     *)
Repair ==
    /\ \A r \in Runs : ~InProgress(r)
    /\ \E r \in Runs : step[r] = "failed"
    /\ \E j \in Jobs : jobs[j] = 0
    /\ \E image \in registry : jobs' = [j \in Jobs |-> image]
    /\ secret' = FALSE
    /\ UNCHANGED <<step, commit, todo, waited, exec, abandoned, registry, schema,
                   wanted, honoured>>

-----------------------------------------------------------------------------
(* The schedule starts a cycle of the deployed image. *)
CronFires ==
    /\ jobs["cycle"] # 0
    /\ honoured' = (secret = wanted)
    /\ UNCHANGED <<step, commit, todo, waited, exec, abandoned, jobs, registry,
                   schema, secret, wanted>>

(* az keyvault secret set, once the environment is there. *)
SetKillSwitch ==
    /\ registry # {}
    /\ wanted' = ~wanted
    /\ secret' = wanted'
    /\ UNCHANGED <<step, commit, todo, waited, exec, abandoned, jobs, registry,
                   schema, honoured>>

(* Five minutes pass for those who wait: an execution at its timeout ends  *)
(* first, a wait at its deadline gives up.                                 *)
Tick ==
    /\ \E r \in Runs :
           step[r] \in Waiting \/ \E k \in Keys : exec[r][k].status = "running"
    /\ \A r \in Runs : step[r] \in Waiting => waited[r] < WaitTimeout
    /\ \A r \in Runs, k \in Keys :
           exec[r][k].status = "running" => exec[r][k].age < Longest(k)
    /\ waited' = [r \in Runs |->
           IF step[r] \in Waiting THEN waited[r] + 1 ELSE waited[r]]
    /\ exec' = [r \in Runs |-> [k \in DOMAIN exec[r] |->
           IF exec[r][k].status = "running"
           THEN [exec[r][k] EXCEPT !.age = @ + 1] ELSE exec[r][k]]]
    /\ UNCHANGED <<step, commit, todo, abandoned, jobs, registry, schema, secret,
                   wanted, honoured>>

Next ==
    \/ \E r \in Runs :
          \/ Push(r) \/ Dispatch(r) \/ Begin(r) \/ ApplyChange(r) \/ PlatformApplied(r)
          \/ BuildAndPush(r) \/ JobsApplied(r)
          \/ \E k \in Keys :
                StartExecution(r, k) \/ ExecutionEnds(r, k)
          \/ Poll(r) \/ GiveUp(r) \/ StepFails(r)
    \/ Repair \/ CronFires \/ SetKillSwitch \/ Tick

(* The runner of the one run in progress goes on with every step, unless   *)
(* it is lost, a wait that was given up included; no poll need ever be     *)
(* answered.  Time passes, and Container Apps ends executions.             *)
Fairness ==
    /\ WF_vars(\E r \in Runs :
                  \/ ApplyChange(r) \/ PlatformApplied(r) \/ BuildAndPush(r)
                  \/ JobsApplied(r) \/ GiveUp(r)
                  \/ \E k \in Keys : StartExecution(r, k))
    /\ WF_vars(\E r \in Runs, k \in Keys : ExecutionEnds(r, k))
    /\ WF_vars(Tick)

Spec == Init /\ [][Next]_vars /\ Fairness

-----------------------------------------------------------------------------
(* A green run means deployed: until the next run begins, both jobs run    *)
(* the image of its commit, the image is in the registry, the database has *)
(* its schema or a later one, and a cycle of this very image has           *)
(* succeeded.                                                              *)
GreenMeansDeployed ==
    \A r \in Runs :
        step[r] = "ok" /\ (\A o \in Runs : o > r => step[o] \in NotBegun) =>
            /\ jobs = [j \in Jobs |-> commit[r]]
            /\ commit[r] \in registry
            /\ schema >= commit[r]
            /\ exec[r]["smoke"].status = "succeeded"
            /\ exec[r]["smoke"].image = commit[r]

(* Why migrations are not run at the start of the application: the group   *)
(* lets one run deploy at a time, and the wait for a migration outlasts    *)
(* its timeout.  Two migrations run at once only when the run of one was   *)
(* lost or cancelled, or lost the answer to its start.                     *)
OnlyAbandonedMigrationsOverlap ==
    Cardinality({r \in Runs \ abandoned : exec[r]["migrate"].status = "running"}) <= 1

(* A run that has begun ends, although az may never answer a poll: again   *)
(* and again no run is in progress.                                        *)
PipelinesEnd == []<>(\A r \in Runs : ~InProgress(r))

(* The schedule is live before the migration has run: a cycle may meet an  *)
(* older schema, but only until a run that deploys its commit is past the  *)
(* migration, or when such a run has failed.                               *)
SchemaLagsOnlyWhileDeploying ==
    schema < jobs["cycle"] =>
        \E r \in Runs : /\ commit[r] = jobs["cycle"]
                        /\ step[r] \in {"jobs", "migrate", "wait_migrate", "failed"}

(* What the runbook says of the kill switch: the next scheduled cycle      *)
(* honours it.                                                             *)
SwitchIsHonoured == honoured
=============================================================================
