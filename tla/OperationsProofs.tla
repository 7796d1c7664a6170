-------------------------- MODULE OperationsProofs ---------------------------
(***************************************************************************)
(* The cost guard for any number of servers, the deployment for any runs   *)
(* of the workflow, whatever fails, is lost or is set beside them, and the *)
(* migration for any number of processes that run it at once.              *)
(***************************************************************************)
EXTENDS Operations, SequenceTheorems, FiniteSetTheorems, TLAPS

(* What the loop of the runbook knows of the servers: their tags are those *)
(* it listed, and what was stopped then, or is the project's and lies      *)
(* behind it, was down at some moment since.                               *)
CostGuardInv ==
    /\ servers \in [G!Servers -> [tag : {Project, Other, Untagged},
                                  state : G!States]]
    /\ next \in Nat \ {0}
    /\ run = "connecting" => next = 1
    /\ accepted \subseteq G!ProjectServers
    /\ run \in {"looping", "done"} =>
         /\ listing \in [G!Servers -> [tag : {Project, Other, Untagged},
                                       state : G!States]]
         /\ \A i \in G!Servers :
              /\ listing[i].tag = servers[i].tag
              /\ listing[i].state = "Stopped" => i \in halted
              /\ i < next /\ servers[i].tag = Project => i \in halted
    /\ run = "done" => next > Count

-----------------------------------------------------------------------------
(* A listing of Count servers has that length.                             *)
LEMMA ListingLength ==
    ASSUME NEW S, NEW l \in [G!Servers -> S]
    PROVE  Len(l) = Count
  <1>1. Count \in Nat
    BY OperationsAssumption DEF G!CostGuardAssumption
  <1>2. l \in Seq(S) /\ DOMAIN l = 1 .. Count
    BY <1>1, SeqDef DEF G!Servers
  <1> QED BY <1>1, <1>2, LenProperties

LEMMA CostGuardStepKeeps ==
    ASSUME CostGuardInv, G!Next PROVE CostGuardInv'
  <1> USE DEF CostGuardInv, G!ProjectServers
  <1>c. Count \in Nat
    BY OperationsAssumption DEF G!CostGuardAssumption
  <1>l. run \in {"looping", "done"} => Len(listing) = Count
    BY ListingLength
  <1>1. CASE G!ListServers
    <2>1. CASE run' = "failed" /\ UNCHANGED <<servers, next, accepted>>
      BY <2>1
    <2>2. CASE /\ run' = (IF Count = 0 THEN "done" ELSE "looping")
               /\ listing' = servers
               /\ UNCHANGED <<servers, next, accepted>>
      <3>1. next = 1
        BY <1>1 DEF G!ListServers
      <3>2. halted' = {i \in G!Servers : servers[i].state \in G!Down}
        BY <1>1, <2>2 DEF G!ListServers
      <3> QED BY <2>2, <3>1, <3>2, <1>c DEF G!Servers, G!Down
    <2> QED BY <1>1, <2>1, <2>2 DEF G!ListServers
  <1>2. CASE G!Skip
    <2>1. /\ run = "looping" /\ next \in G!Servers
          /\ listing[next].tag # Project \/ listing[next].state = "Stopped"
          /\ next' = next + 1 /\ UNCHANGED <<servers, listing, run, accepted, halted>>
      BY <1>2, <1>l, <1>c DEF G!Skip, G!Foreign, G!AlreadyStopped, G!Servers
    <2> QED BY <2>1 DEF G!Servers
  <1>3. CASE G!Stop
    <2>1. /\ run = "looping" /\ next \in G!Servers
          /\ listing[next].tag = Project
          /\ UNCHANGED listing
      BY <1>3, <1>l, <1>c DEF G!Stop, G!Foreign, G!Servers
    <2>2. CASE run' = "failed" /\ UNCHANGED <<servers, accepted, halted, next>>
      BY <2>1, <2>2
    <2>3. CASE /\ servers[next].state \in {"Ready", "Starting"}
               /\ servers' = [servers EXCEPT ![next].state = "Stopping"]
               /\ accepted' = accepted \cup {next}
               /\ halted' = halted \cup {next}
               /\ next' = next + 1
               /\ UNCHANGED run
      <3>1. /\ servers' \in [G!Servers -> [tag : {Project, Other, Untagged},
                                           state : G!States]]
            /\ \A i \in G!Servers : servers'[i].tag = servers[i].tag
        BY <2>1, <2>3 DEF G!States
      <3>2. accepted' \subseteq {i \in G!Servers : servers'[i].tag = Project}
        BY <2>1, <2>3, <3>1
      <3>3. \A i \in G!Servers :
              /\ listing[i].tag = servers'[i].tag
              /\ listing[i].state = "Stopped" => i \in halted'
              /\ i < next' /\ servers'[i].tag = Project => i \in halted'
        BY <2>1, <2>3, <3>1 DEF G!Servers
      <3> QED BY <2>1, <2>3, <3>1, <3>2, <3>3
    <2> QED BY <1>3, <2>2, <2>3 DEF G!Stop
  <1>4. CASE G!Done
    BY <1>4, <1>l DEF G!Done
  <1>5. CASE G!ServerMoves
    <2> PICK i \in G!Servers, to \in G!States :
           /\ servers' = [servers EXCEPT ![i].state = to]
           /\ halted' = halted \cup {j \in {i} : to \in G!Down}
           /\ UNCHANGED <<listing, next, run, accepted>>
      BY <1>5 DEF G!ServerMoves
    <2>1. /\ servers' \in [G!Servers -> [tag : {Project, Other, Untagged},
                                         state : G!States]]
          /\ \A j \in G!Servers : servers'[j].tag = servers[j].tag
      OBVIOUS
    <2>2. accepted' \subseteq {j \in G!Servers : servers'[j].tag = Project}
      BY <2>1
    <2>3. halted \subseteq halted'
      OBVIOUS
    <2> QED BY <2>1, <2>2, <2>3
  <1> QED BY <1>1, <1>2, <1>3, <1>4, <1>5 DEF G!Next

(* The cost guard never has a server stopped that is not the project's,    *)
(* and when it says done each of the project's has been down since it      *)
(* listed them.                                                            *)
THEOREM StopsExactlyTheProjectAlways == Spec => []StopsExactlyTheProject
  <1>1. Init => CostGuardInv
    BY DEF Init, G!Init, CostGuardInv
  <1>2. CostGuardInv /\ [Next]_vars => CostGuardInv'
    <2> SUFFICES ASSUME CostGuardInv, [Next]_vars PROVE CostGuardInv'
      OBVIOUS
    <2>1. CASE UNCHANGED costGuard
      BY <2>1 DEF costGuard, CostGuardInv, G!ProjectServers
    <2>2. CASE CostGuardStep
      BY <2>2, CostGuardStepKeeps DEF CostGuardStep
    <2> QED BY <2>1, <2>2 DEF Next, DeploymentStep, MigrationStep, vars
  <1>3. CostGuardInv => StopsExactlyTheProject
    BY OperationsAssumption
    DEF CostGuardInv, StopsExactlyTheProject, G!StopsExactlyTheProject,
        G!ProjectServers, G!Servers, G!CostGuardAssumption
  <1> QED BY <1>1, <1>2, <1>3, PTL DEF Spec

-----------------------------------------------------------------------------
ExecutionRecord == [status : {"none", "running", "succeeded", "failed"},
                    image : Runs \cup {0}, age : Nat]

DeploymentType ==
    /\ step \in [Runs -> D!Steps \cup D!NotBegun \cup {"ok", "failed"}]
    /\ commit \in [Runs -> Runs \cup {0}]
    /\ todo \in [Runs -> SUBSET ({"secret"} \cup D!Jobs)]
    /\ waited \in [Runs -> Nat]
    /\ exec \in [Runs -> [{"migrate", "smoke"} -> ExecutionRecord]]
    /\ jobs \in [D!Jobs -> Runs \cup {0}]
    /\ registry \subseteq Runs
    /\ schema \in Runs \cup {0}

(* Runs are queued in their order and begin in it: newer ones than the     *)
(* pending or the deploying one have not begun.  A queued one has a commit.*)
Turns ==
    /\ \A r \in Runs : step[r] # "unpushed" => commit[r] # 0
    /\ \A r, o \in Runs : o > r =>
        /\ step[r] = "unpushed" => step[o] = "unpushed"
        /\ step[r] = "pending" => step[o] = "unpushed"
        /\ D!InProgress(r) => step[o] \in D!NotBegun

Newest(r) == \A o \in Runs : o > r => step[o] \in D!NotBegun

Built == {"jobs", "migrate", "wait_migrate", "smoke", "wait_smoke", "ok", "failed"}

(* A job runs an image of the registry; once its apply is through, and     *)
(* until another run begins, the image of the commit of the run.           *)
Images ==
    /\ \A i \in registry : \E r \in Runs : commit[r] = i /\ step[r] \in Built
    /\ \A r \in Runs : step[r] \in Built \ {"failed"} => commit[r] \in registry
    /\ \A j \in D!Jobs : jobs[j] # 0 => jobs[j] \in registry
    /\ \A r \in Runs : step[r] = "jobs" =>
         \A j \in D!Jobs : jobs[j] = commit[r] \/ j \in todo[r]
    /\ \A r \in Runs :
         \/ step[r] \in {"migrate", "wait_migrate", "smoke", "wait_smoke"}
         \/ step[r] = "ok" /\ Newest(r)
         => \A j \in D!Jobs : jobs[j] = commit[r]

(* A migration whose run was not abandoned runs only while the run waits   *)
(* for it: it is as old as the wait, and timed out before that gives up.   *)
Waits ==
    \A r \in Runs :
        /\ exec[r]["migrate"].status = "running" /\ r \notin abandoned =>
             /\ step[r] = "wait_migrate"
             /\ exec[r]["migrate"].age = waited[r]
             /\ waited[r] <= 2
        /\ step[r] = "wait_migrate" =>
             exec[r]["migrate"].status # "none" /\ exec[r]["migrate"].image = commit[r]
        /\ step[r] \in {"wait_smoke", "ok"} =>
             exec[r]["smoke"].status # "none" /\ exec[r]["smoke"].image = commit[r]
        /\ step[r] = "ok" => exec[r]["smoke"].status = "succeeded"

(* The schema is at least that of a run past its migration.                *)
Schemas ==
    \A r \in Runs :
        \/ step[r] = "wait_migrate" /\ exec[r]["migrate"].status = "succeeded"
        \/ step[r] \in {"smoke", "wait_smoke", "ok"}
        => schema >= commit[r]

DeploymentInv == DeploymentType /\ Turns /\ Images /\ Waits /\ Schemas

-----------------------------------------------------------------------------
(* Deploying is one at a time: of two runs in progress one would be        *)
(* newer, and so not begun.                                                *)
LEMMA OneInProgress ==
    ASSUME Turns, NEW r \in Runs, NEW o \in Runs,
           D!InProgress(r), step[o] \notin D!NotBegun
    PROVE  o <= r /\ (D!InProgress(o) => o = r)
  <1>1. r \in Nat /\ o \in Nat
    BY OperationsAssumption DEF D!DeploymentAssumption
  <1>2. o <= r
    BY <1>1 DEF Turns
  <1>3. ASSUME D!InProgress(o) PROVE r <= o
    <2>1. step[r] \notin D!NotBegun
      BY DEF D!InProgress, D!Steps, D!Waiting, D!NotBegun
    <2> QED BY <1>1, <1>3, <2>1 DEF Turns
  <1> QED BY <1>1, <1>2, <1>3

LEMMA InitDeployment == Init => DeploymentInv
  <1> SUFFICES ASSUME D!Init PROVE DeploymentInv
    BY DEF Init
  <1>1. [k \in {"migrate", "smoke"} |-> D!NoExecution]
          \in [{"migrate", "smoke"} -> ExecutionRecord]
    BY DEF D!NoExecution, ExecutionRecord
  <1>2. DeploymentType
    BY <1>1 DEF D!Init, DeploymentType, D!NotBegun, D!Keys
  <1>3. Turns
    BY DEF D!Init, Turns, D!InProgress, D!Steps, D!Waiting
  <1>4. Images
    BY DEF D!Init, Images, Built
  <1>5. Waits
    BY DEF D!Init, Waits, D!NoExecution, D!Keys
  <1>6. Schemas
    BY DEF D!Init, Schemas
  <1> QED BY <1>2, <1>3, <1>4, <1>5, <1>6 DEF DeploymentInv

-----------------------------------------------------------------------------
(* The steps of a pipeline that has begun, as one relation: it goes on, or *)
(* ends, and no other run takes a step.                                    *)
Advances(r, to) ==
    D!InProgress(r) /\ step' = [step EXCEPT ![r] = to]

LEMMA StepsOfPipelines ==
    ASSUME DeploymentType, NEW r \in Runs
    PROVE  /\ D!ApplyChange(r) => D!InProgress(r) /\ step' = step
           /\ D!PlatformApplied(r) => Advances(r, "build")
           /\ D!BuildAndPush(r) => Advances(r, "jobs")
           /\ D!JobsApplied(r) => Advances(r, "migrate")
           /\ D!StartExecution(r, "migrate") =>
                Advances(r, "wait_migrate") \/ Advances(r, "failed")
           /\ D!StartExecution(r, "smoke") =>
                Advances(r, "wait_smoke") \/ Advances(r, "failed")
           /\ D!Poll(r) => \E to \in {"failed", "smoke", "ok"} : Advances(r, to)
           /\ D!GiveUp(r) => Advances(r, "failed")
           /\ D!StepFails(r) => Advances(r, "failed")
  BY DEF Advances, D!InProgress, D!Steps, D!Waiting, D!ApplyChange,
     D!PlatformApplied, D!BuildAndPush, D!JobsApplied, D!StartExecution,
     D!Poll, D!After, D!GiveUp, D!StepFails

(* A commit is given once, to a run that is queued.                        *)
LEMMA CommitsStay ==
    ASSUME DeploymentType, D!Next
    PROVE  \/ /\ commit' = commit
              /\ \A o \in Runs : step'[o] # "unpushed" => step[o] # "unpushed"
           \/ \E r \in Runs : /\ D!Queue(r)
                             /\ commit' \in [Runs -> Runs \cup {0}]
                             /\ commit'[r] # 0
                             /\ \A o \in Runs : o # r => commit'[o] = commit[o]
  <1> DEFINE Stay == /\ commit' = commit
                     /\ \A o \in Runs : step'[o] # "unpushed" => step[o] # "unpushed"
  <1>0. 0 \notin Runs
    BY OperationsAssumption DEF D!DeploymentAssumption
  <1>1. ASSUME NEW r \in Runs, D!Push(r) \/ D!Dispatch(r)
        PROVE  /\ D!Queue(r)
               /\ commit' \in [Runs -> Runs \cup {0}]
               /\ commit'[r] # 0
               /\ \A o \in Runs : o # r => commit'[o] = commit[o]
    BY <1>1, <1>0 DEF D!Push, D!Dispatch, DeploymentType
  <1>2. ASSUME NEW r \in Runs, D!Begin(r) PROVE Stay
    BY <1>2 DEF D!Begin, DeploymentType
  <1>a. ASSUME NEW r \in Runs, NEW to, Advances(r, to), commit' = commit PROVE Stay
    BY <1>a DEF Advances, DeploymentType, D!InProgress, D!Steps, D!Waiting
  <1>3. ASSUME NEW r \in Runs,
               \/ D!PlatformApplied(r) \/ D!BuildAndPush(r) \/ D!JobsApplied(r)
               \/ D!Poll(r) \/ D!GiveUp(r) \/ D!StepFails(r)
               \/ \E k \in D!Keys : D!StartExecution(r, k)
        PROVE  Stay
    <2>1. commit' = commit
      BY <1>3 DEF D!PlatformApplied, D!BuildAndPush, D!JobsApplied, D!Poll,
         D!GiveUp, D!StepFails, D!StartExecution
    <2>2. \E to : Advances(r, to)
      BY <1>3, StepsOfPipelines DEF D!Keys
    <2> HIDE DEF Stay
    <2> QED BY <2>1, <2>2, <1>a
  <1>4. ASSUME NEW r \in Runs,
               D!ApplyChange(r) \/ \E k \in D!Keys : D!ExecutionEnds(r, k)
        PROVE  Stay
    BY <1>4 DEF D!ApplyChange, D!ExecutionEnds
  <1>5. ASSUME D!Repair \/ D!CronFires \/ D!SetKillSwitch \/ D!Tick PROVE Stay
    BY <1>5 DEF D!Repair, D!CronFires, D!SetKillSwitch, D!Tick
  <1>6. Stay \/ \E r \in Runs : D!Push(r) \/ D!Dispatch(r)
    <2> HIDE DEF Stay
    <2> QED BY <1>2, <1>3, <1>4, <1>5 DEF D!Next
  <1> QED BY <1>1, <1>6

LEMMA TurnsStep ==
    ASSUME DeploymentType, Turns, D!Next PROVE Turns'
  <1> DEFINE Given == \A r \in Runs : step[r] # "unpushed" => commit[r] # 0
             Ordered == \A r, o \in Runs : o > r =>
                          /\ step[r] = "unpushed" => step[o] = "unpushed"
                          /\ step[r] = "pending" => step[o] = "unpushed"
                          /\ D!InProgress(r) => step[o] \in D!NotBegun
  <1> USE DEF D!InProgress, D!Steps, D!Waiting, D!NotBegun
  <1>n. Runs \subseteq Nat
    BY OperationsAssumption DEF D!DeploymentAssumption
  <1>g. Given /\ Ordered
    BY DEF Turns
  <1>1. ASSUME NEW r \in Runs, D!Queue(r)
        PROVE  /\ Ordered'
               /\ \A o \in Runs : step'[o] # "unpushed" => o = r \/ step[o] # "unpushed"
    BY <1>1, <1>n, <1>g DEF D!Queue, DeploymentType
  <1>2. ASSUME NEW r \in Runs, D!Begin(r) PROVE Ordered'
    BY <1>2, <1>n, <1>g DEF D!Begin, DeploymentType
  <1>3. ASSUME NEW r \in Runs, NEW to \in D!Steps \cup {"ok", "failed"},
               Advances(r, to)
        PROVE  Ordered'
    BY <1>3, <1>n, <1>g DEF Advances, DeploymentType
  <1>4. ASSUME step' = step PROVE Ordered'
    BY <1>4, <1>g
  <1>5. ASSUME D!Repair \/ D!CronFires \/ D!SetKillSwitch \/ D!Tick
        PROVE  Ordered'
    BY <1>4, <1>5 DEF D!Repair, D!CronFires, D!SetKillSwitch, D!Tick
  <1>6. ASSUME NEW r \in Runs, NEW k \in D!Keys, D!ExecutionEnds(r, k)
        PROVE  step' = step
    BY <1>6 DEF D!ExecutionEnds
  <1>7. {"build", "jobs", "migrate", "smoke", "wait_migrate", "wait_smoke"}
           \subseteq D!Steps
    OBVIOUS
  <1>8. ASSUME NEW r \in Runs, D!Push(r) \/ D!Dispatch(r) PROVE D!Queue(r)
    BY <1>8 DEF D!Push, D!Dispatch
  <1>9. Given'
    BY <1>1, <1>g, CommitsStay
  <1> HIDE DEF D!InProgress, D!NotBegun, D!Steps, D!Waiting, Ordered, Given
  <1>10. Ordered'
    BY <1>1, <1>2, <1>3, <1>4, <1>5, <1>6, <1>7, <1>8, StepsOfPipelines
    DEF D!Next, D!Keys
  <1> QED BY <1>9, <1>10 DEF Turns, Ordered, Given

-----------------------------------------------------------------------------
(* What a step does to the executions: it starts one, ends one, ages those *)
(* that run, or fails some that do.                                        *)

LEMMA EndedRecord ==
    ASSUME NEW e \in ExecutionRecord, NEW s \in {"succeeded", "failed"}
    PROVE  D!Ended(e, s) \in ExecutionRecord
  BY DEF ExecutionRecord, D!Ended

Fails(e, f) == e.status = "running" /\ f = D!Ended(e, "failed")

LEMMA ApplyFailsSome ==
    ASSUME DeploymentType, NEW r \in Runs, D!ApplyChange(r)
    PROVE  /\ exec' \in [Runs -> [D!Keys -> ExecutionRecord]]
           /\ \A o \in Runs, k \in D!Keys :
                \/ exec'[o][k] = exec[o][k]
                \/ step[r] = "platform" /\ Fails(exec[o][k], exec'[o][k])
  <1> USE DEF DeploymentType, D!Keys
  <1>1. PICK c \in todo[r] :
          \/ UNCHANGED exec
          \/ /\ step[r] = "platform"
             /\ exec' = [o \in Runs |-> [k \in DOMAIN exec[o] |->
                   IF D!JobOf(k) = c /\ exec[o][k].status = "running"
                   THEN D!Ended(exec[o][k], "failed")
                   ELSE exec[o][k]]]
    BY DEF D!ApplyChange
  <1>2. \A o \in Runs, k \in D!Keys :
          D!Ended(exec[o][k], "failed") \in ExecutionRecord
    <2> TAKE o \in Runs, k \in D!Keys
    <2>1. exec[o][k] \in ExecutionRecord
      OBVIOUS
    <2> QED BY <2>1, EndedRecord, Zenon
  <1>3. \A o \in Runs : DOMAIN exec[o] = D!Keys
    OBVIOUS
  <1>4. CASE UNCHANGED exec
    BY <1>4
  <1>5. CASE exec' # exec
    <2>1. /\ step[r] = "platform"
          /\ exec' = [o \in Runs |-> [k \in DOMAIN exec[o] |->
                   IF D!JobOf(k) = c /\ exec[o][k].status = "running"
                   THEN D!Ended(exec[o][k], "failed")
                   ELSE exec[o][k]]]
      BY <1>1, <1>5
    <2> HIDE DEF ExecutionRecord, D!Keys
    <2>2. exec \in [Runs -> [D!Keys -> ExecutionRecord]]
      BY DEF D!Keys
    <2>3. \A o \in Runs : exec'[o] = [k \in D!Keys |->
             IF D!JobOf(k) = c /\ exec[o][k].status = "running"
             THEN D!Ended(exec[o][k], "failed") ELSE exec[o][k]]
      BY ONLY <1>3, <2>1
    <2>4. exec' \in [Runs -> [D!Keys -> ExecutionRecord]]
      <3>1. exec' = [o \in Runs |-> exec'[o]]
        BY ONLY <2>1
      <3>2. \A o \in Runs : exec'[o] \in [D!Keys -> ExecutionRecord]
        <4> TAKE o \in Runs
        <4>1. \A k \in D!Keys : exec[o][k] \in ExecutionRecord
                 /\ D!Ended(exec[o][k], "failed") \in ExecutionRecord
          BY <1>2, <2>2
        <4>2. exec'[o] = [k \in D!Keys |-> exec'[o][k]]
              /\ \A k \in D!Keys : \/ exec'[o][k] = exec[o][k]
                                 \/ exec'[o][k] = D!Ended(exec[o][k], "failed")
          BY ONLY <2>3
        <4>3. \A k \in D!Keys : exec'[o][k] \in ExecutionRecord
          BY ONLY <4>1, <4>2
        <4> QED BY ONLY <4>2, <4>3
      <3> QED BY ONLY <3>1, <3>2
    <2> QED BY <2>1, <2>3, <2>4 DEF Fails
  <1> QED BY <1>4, <1>5

LEMMA TickAges ==
    ASSUME DeploymentType, D!Tick
    PROVE  /\ exec' \in [Runs -> [D!Keys -> ExecutionRecord]]
           /\ \A o \in Runs, k \in D!Keys :
                /\ exec'[o][k].status = exec[o][k].status
                /\ exec'[o][k].image = exec[o][k].image
                /\ exec[o][k].status = "running" =>
                     /\ exec'[o][k].age = exec[o][k].age + 1
                     /\ k = "migrate" => exec[o][k].age < 2
           /\ waited' \in [Runs -> Nat]
           /\ \A o \in Runs : step[o] \in D!Waiting =>
                waited'[o] = waited[o] + 1
  <1> USE DEF DeploymentType, D!Keys
  <1>1. \A o \in Runs : DOMAIN exec[o] = D!Keys
    OBVIOUS
  <1>2. exec' = [o \in Runs |-> [k \in DOMAIN exec[o] |->
                   IF exec[o][k].status = "running"
                   THEN [exec[o][k] EXCEPT !.age = @ + 1] ELSE exec[o][k]]]
    BY DEF D!Tick
  <1>3. \A o \in Runs, k \in D!Keys :
          /\ [exec[o][k] EXCEPT !.age = @ + 1] \in ExecutionRecord
          /\ [exec[o][k] EXCEPT !.age = @ + 1].age = exec[o][k].age + 1
          /\ [exec[o][k] EXCEPT !.age = @ + 1].status = exec[o][k].status
          /\ [exec[o][k] EXCEPT !.age = @ + 1].image = exec[o][k].image
    BY DEF ExecutionRecord
  <1>4. D!Longest("migrate") = 2
    BY DEF D!Longest, D!ReplicaTimeout, D!Retries, D!Minutes
  <1>5. \A o \in Runs : exec[o]["migrate"].status = "running" =>
          exec[o]["migrate"].age < 2
    BY <1>4 DEF D!Tick
  <1>6. exec' \in [Runs -> [D!Keys -> ExecutionRecord]]
    BY <1>1, <1>2, <1>3
  <1>7. \A o \in Runs, k \in D!Keys :
          /\ exec'[o][k].status = exec[o][k].status
          /\ exec'[o][k].image = exec[o][k].image
          /\ exec[o][k].status = "running" => exec'[o][k].age = exec[o][k].age + 1
    BY <1>1, <1>2, <1>3
  <1>8. /\ waited' \in [Runs -> Nat]
        /\ \A o \in Runs : step[o] \in D!Waiting =>
                waited'[o] = waited[o] + 1
    BY DEF D!Tick
  <1> QED BY <1>5, <1>6, <1>7, <1>8

LEMMA StartOf ==
    ASSUME DeploymentType, NEW r \in Runs, NEW k \in D!Keys,
           D!StartExecution(r, k)
    PROVE  /\ exec' \in [Runs -> [D!Keys -> ExecutionRecord]]
           /\ exec'[r][k].status = "running" /\ exec'[r][k].age = 0
           /\ exec'[r][k].image = jobs[D!JobOf(k)]
           /\ \A o \in Runs, l \in D!Keys :
                o # r \/ l # k => exec'[o][l] = exec[o][l]
  <1> USE DEF DeploymentType, D!Keys
  <1>1. jobs[D!JobOf(k)] \in Runs \cup {0}
    BY DEF D!JobOf, D!Jobs
  <1>2. [status |-> "running", image |-> jobs[D!JobOf(k)], age |-> 0]
          \in ExecutionRecord
    BY <1>1 DEF ExecutionRecord
  <1>3. exec' = [exec EXCEPT ![r][k] =
           [status |-> "running", image |-> jobs[D!JobOf(k)], age |-> 0]]
    BY DEF D!StartExecution
  <1> HIDE DEF ExecutionRecord
  <1> QED BY <1>2, <1>3

LEMMA EndOf ==
    ASSUME DeploymentType, NEW r \in Runs, NEW k \in D!Keys,
           D!ExecutionEnds(r, k)
    PROVE  /\ exec' \in [Runs -> [D!Keys -> ExecutionRecord]]
           /\ exec[r][k].status = "running"
           /\ exec'[r][k].status \in {"succeeded", "failed"}
           /\ exec'[r][k].image = exec[r][k].image
           /\ \A o \in Runs, l \in D!Keys :
                o # r \/ l # k => exec'[o][l] = exec[o][l]
           /\ schema' = IF k = "migrate" /\ exec'[r][k].status = "succeeded"
                        THEN exec[r][k].image ELSE schema
           /\ k = "migrate" /\ exec'[r][k].status = "succeeded" =>
                schema <= exec[r][k].image
  <1> USE DEF DeploymentType, D!Keys
  <1>1. PICK outcome \in {"succeeded", "failed"} :
          /\ exec' = [exec EXCEPT ![r][k] = D!Ended(@, outcome)]
          /\ k = "migrate" /\ outcome = "succeeded" => schema <= exec[r][k].image
          /\ schema' = IF k = "migrate" /\ outcome = "succeeded"
                       THEN exec[r][k].image ELSE schema
    BY DEF D!ExecutionEnds
  <1>2. D!Ended(exec[r][k], outcome) \in ExecutionRecord
    <2>1. exec[r][k] \in ExecutionRecord
      OBVIOUS
    <2> QED BY <2>1, EndedRecord, Zenon
  <1>3. exec'[r][k] = D!Ended(exec[r][k], outcome)
    BY <1>1
  <1>4. exec'[r][k].status = outcome /\ exec'[r][k].image = exec[r][k].image
    BY <1>3 DEF D!Ended
  <1>5. exec' \in [Runs -> [D!Keys -> ExecutionRecord]]
    BY <1>1, <1>2
  <1>6. \A o \in Runs, l \in D!Keys :
                o # r \/ l # k => exec'[o][l] = exec[o][l]
    BY <1>1
  <1>7. exec[r][k].status = "running"
    BY DEF D!ExecutionEnds
  <1> QED BY <1>1, <1>4, <1>5, <1>6, <1>7

LEMMA DeploymentTypeStep ==
    ASSUME DeploymentType, Turns, D!Next PROVE DeploymentType'
  <1> USE DEF DeploymentType
  <1>c. commit' \in [Runs -> Runs \cup {0}]
    BY CommitsStay
  <1>1. ASSUME NEW r \in Runs, D!Push(r) \/ D!Dispatch(r) PROVE DeploymentType'
    <2>1. D!Queue(r)
      BY <1>1 DEF D!Push, D!Dispatch
    <2> QED BY <1>c, <2>1 DEF D!Queue, D!NotBegun
  <1>2. ASSUME NEW r \in Runs, D!Begin(r) PROVE DeploymentType'
    <2>1. D!Plan(FALSE, 0) \in SUBSET ({"secret"} \cup D!Jobs)
      BY DEF D!Plan
    <2> QED BY <1>2, <2>1 DEF D!Begin, D!Steps
  <1>3. ASSUME NEW r \in Runs, D!ApplyChange(r) PROVE DeploymentType'
    <2>1. exec' \in [Runs -> [D!Keys -> ExecutionRecord]]
      BY <1>3, ApplyFailsSome
    <2>2. PICK c \in todo[r] :
            /\ todo' = [todo EXCEPT ![r] = @ \ {c}]
            /\ \/ UNCHANGED jobs
               \/ jobs' = [jobs EXCEPT ![c] = IF step[r] = "jobs" THEN commit[r] ELSE 0]
      BY <1>3 DEF D!ApplyChange
    <2>3. c \in {"secret"} \cup D!Jobs /\ todo' \in [Runs -> SUBSET ({"secret"} \cup D!Jobs)]
      BY <2>2
    <2>4. jobs' \in [D!Jobs -> Runs \cup {0}]
      BY <2>2
    <2> QED BY <1>3, <2>1, <2>3, <2>4 DEF D!ApplyChange, D!Keys
  <1>4. ASSUME NEW r \in Runs,
               D!PlatformApplied(r) \/ D!JobsApplied(r) \/ D!GiveUp(r)
        PROVE  DeploymentType'
    <2>1. waited' \in [Runs -> Nat]
      BY <1>4 DEF D!PlatformApplied, D!JobsApplied, D!GiveUp
    <2> QED
      BY <1>4, <2>1 DEF D!PlatformApplied, D!JobsApplied, D!GiveUp, D!Steps
  <1>5. ASSUME NEW r \in Runs, D!BuildAndPush(r) PROVE DeploymentType'
    <2>1. D!Plan(TRUE, commit[r]) \in SUBSET ({"secret"} \cup D!Jobs)
      BY DEF D!Plan
    <2>2. commit[r] # 0
      BY <1>5 DEF Turns, D!BuildAndPush
    <2> QED BY <1>5, <2>1, <2>2 DEF D!BuildAndPush, D!Steps
  <1>6. ASSUME NEW r \in Runs, NEW k \in D!Keys, D!StartExecution(r, k)
        PROVE  DeploymentType'
    <2>1. exec' \in [Runs -> [D!Keys -> ExecutionRecord]]
      BY <1>6, StartOf
    <2> QED BY <1>6, <2>1 DEF D!StartExecution, D!Steps, D!Waiting, D!Keys
  <1>7. ASSUME NEW r \in Runs, NEW k \in D!Keys, D!ExecutionEnds(r, k)
        PROVE  DeploymentType'
    <2>1. /\ exec' \in [Runs -> [D!Keys -> ExecutionRecord]]
          /\ schema' = schema \/ schema' = exec[r][k].image
      BY <1>7, EndOf
    <2>2. exec[r][k].image \in Runs \cup {0}
      BY DEF D!Keys, ExecutionRecord
    <2> QED BY <1>7, <2>1, <2>2 DEF D!ExecutionEnds, D!Keys
  <1>8. ASSUME NEW r \in Runs, D!Poll(r) PROVE DeploymentType'
    BY <1>8 DEF D!Poll, D!After, D!Steps
  <1>9. ASSUME NEW r \in Runs, D!StepFails(r) PROVE DeploymentType'
    BY <1>9 DEF D!StepFails
  <1>10. CASE D!Repair \/ D!CronFires \/ D!SetKillSwitch
    BY <1>10 DEF D!Repair, D!CronFires, D!SetKillSwitch
  <1>11. CASE D!Tick
    <2>1. exec' \in [Runs -> [D!Keys -> ExecutionRecord]]
          /\ waited' \in [Runs -> Nat]
      BY <1>11, TickAges
    <2> QED BY <1>11, <2>1 DEF D!Tick, D!Keys
  <1> HIDE DEF DeploymentType
  <1> QED
    BY <1>1, <1>2, <1>3, <1>4, <1>5, <1>6, <1>7, <1>8, <1>9, <1>10, <1>11
    DEF D!Next, D!Keys

-----------------------------------------------------------------------------
(* While a run deploys no other does, and none that was deployed           *)
(* before it is the newest one begun.                                      *)
Deployed(r) == step[r] = "ok" /\ Newest(r)

LEMMA Alone ==
    ASSUME Turns, NEW r \in Runs, NEW o \in Runs, D!InProgress(r), o # r
    PROVE  ~D!InProgress(o) /\ ~Deployed(o)
  <1>1. r \in Nat /\ o \in Nat
    BY OperationsAssumption DEF D!DeploymentAssumption
  <1>2. ~D!InProgress(o)
    BY <1>1, OneInProgress DEF D!InProgress, D!Steps, D!Waiting, D!NotBegun
  <1>3. ASSUME Deployed(o) PROVE FALSE
    <2>1. o <= r
      BY <1>3, OneInProgress DEF Deployed, D!NotBegun
    <2>2. step[r] \in D!NotBegun
      BY <1>1, <1>3, <2>1 DEF Deployed, Newest
    <2> QED BY <2>2 DEF D!InProgress, D!Steps, D!Waiting, D!NotBegun
  <1> QED BY <1>2, <1>3

(* What a step leaves as it was, and what it cannot undo: a run that       *)
(* has begun has begun, and what is newest was newest.                     *)
LEMMA BegunStays ==
    ASSUME DeploymentType, D!Next
    PROVE  /\ \A o \in Runs :
                /\ step[o] \notin D!NotBegun => step'[o] \notin D!NotBegun
                /\ step[o] # "unpushed" => commit'[o] = commit[o]
           /\ \A o \in Runs : step'[o] = "ok" /\ Newest(o)' => Newest(o)
  <1> USE DEF D!NotBegun
  <1>1. \A o \in Runs :
                step[o] \notin D!NotBegun => step'[o] \notin D!NotBegun
    <2>1. ASSUME NEW r \in Runs, D!Push(r) \/ D!Dispatch(r) \/ D!Begin(r)
          PROVE  \A o \in Runs :
                   step[o] \notin D!NotBegun => step'[o] \notin D!NotBegun
      BY <2>1 DEF D!Push, D!Dispatch, D!Queue, D!Begin, DeploymentType
    <2>2. ASSUME NEW r \in Runs, NEW to \in D!Steps \cup {"ok", "failed"},
                 Advances(r, to)
          PROVE  \A o \in Runs :
                   step[o] \notin D!NotBegun => step'[o] \notin D!NotBegun
      BY <2>2 DEF Advances, DeploymentType, D!Steps, D!Waiting
    <2>3. CASE step' = step
      BY <2>3
    <2>4. CASE D!Repair \/ D!CronFires \/ D!SetKillSwitch \/ D!Tick
      BY <2>3, <2>4 DEF D!Repair, D!CronFires, D!SetKillSwitch, D!Tick
    <2>5. ASSUME NEW r \in Runs, NEW k \in D!Keys,
                 D!ExecutionEnds(r, k)
          PROVE  step' = step
      BY <2>5 DEF D!ExecutionEnds
    <2>6. {"build", "jobs", "migrate", "smoke", "wait_migrate", "wait_smoke"}
             \subseteq D!Steps
      BY DEF D!Steps, D!Waiting
    <2> HIDE DEF D!NotBegun
    <2> QED BY <2>1, <2>2, <2>3, <2>4, <2>5, <2>6, StepsOfPipelines
            DEF D!Next, D!Keys
  <1>2. \A o \in Runs : step[o] # "unpushed" => commit'[o] = commit[o]
    BY CommitsStay DEF D!Queue
  <1> QED BY <1>1, <1>2 DEF Newest

LEMMA ImagesStep ==
    ASSUME DeploymentInv, D!Next PROVE Images'
  <1> USE DEF DeploymentInv
  <1>0. 0 \notin Runs
    BY OperationsAssumption DEF D!DeploymentAssumption
  <1>n. \A o \in Runs : step'[o] = "ok" /\ Newest(o)' => Newest(o)
    BY BegunStays
  <1>c. \A o \in Runs : step[o] # "unpushed" => commit'[o] = commit[o]
    BY BegunStays
  <1>b. "unpushed" \notin Built /\ "pending" \notin Built /\ "superseded" \notin Built
    BY DEF Built
  <1>r. ASSUME registry' = registry,
               \A o \in Runs : step[o] \in Built => step'[o] \in Built
        PROVE  \A i \in registry' : \E r \in Runs : commit'[r] = i /\ step'[r] \in Built
    BY <1>r, <1>b, <1>c DEF Images
  <1>1. ASSUME NEW r \in Runs, D!Queue(r) \/ D!Begin(r) PROVE Images'
    <2>1. \A o \in Runs : \/ step'[o] = step[o]
                          \/ step[o] \notin Built /\ step'[o] \notin Built
      BY <1>1 DEF D!Queue, D!Begin, DeploymentType, Built
    <2>2. /\ UNCHANGED <<jobs, registry>>
          /\ \A o \in Runs : step'[o] = "jobs" => todo'[o] = todo[o]
      BY <1>1 DEF D!Queue, D!Begin, DeploymentType
    <2>3. \A o \in Runs : step'[o] \in Built => commit'[o] = commit[o]
      BY <2>1, <1>b, <1>c
    <2>4. \A i \in registry' : \E o \in Runs : commit'[o] = i /\ step'[o] \in Built
      BY <2>1, <2>2, <1>r
    <2> QED BY <2>1, <2>2, <2>3, <2>4, <1>n DEF Images, Built, DeploymentType
  <1>2. ASSUME NEW r \in Runs, NEW to \in {"build", "migrate", "wait_migrate",
                  "smoke", "wait_smoke", "ok", "failed"},
               Advances(r, to), UNCHANGED <<jobs, registry>>,
               \A o \in Runs : o # r => todo'[o] = todo[o],
               step[r] = "platform" => to \in {"build", "failed"},
               step[r] # "platform" => to # "build",
               step[r] = "build" => to = "failed",
               step[r] = "jobs" => to = "failed" \/ todo[r] = {}
        PROVE  Images'
    <2>1. /\ \A o \in Runs : o # r => step'[o] = step[o]
          /\ step'[r] = to
          /\ step[r] \in {"platform", "build", "jobs", "migrate", "wait_migrate",
                          "smoke", "wait_smoke"}
      BY <1>2 DEF Advances, DeploymentType, D!InProgress, D!Steps, D!Waiting
    <2>2. \A o \in Runs : step'[o] \in Built => commit'[o] = commit[o]
      BY <2>1, <1>b, <1>c
    <2>3. \A i \in registry' : \E o \in Runs : commit'[o] = i /\ step'[o] \in Built
      <3>1. \A o \in Runs : step[o] \in Built => step'[o] \in Built
        BY <1>2, <2>1 DEF Built
      <3> QED BY <3>1, <1>2, <1>r
    <2>4. \A o \in Runs : step'[o] \in Built \ {"failed"} => commit'[o] \in registry'
      BY <1>2, <2>1, <2>2 DEF Images, Built
    <2>5. \A o \in Runs : step'[o] = "jobs" =>
            \A j \in D!Jobs : jobs'[j] = commit'[o] \/ j \in todo'[o]
      BY <1>2, <2>1, <2>2 DEF Images, Built
    <2>6. \A o \in Runs :
            \/ step'[o] \in {"migrate", "wait_migrate", "smoke", "wait_smoke"}
            \/ step'[o] = "ok" /\ Newest(o)'
            => \A j \in D!Jobs : jobs'[j] = commit'[o]
      BY <1>2, <2>1, <2>2, <1>n DEF Images, Built
    <2>7. \A j \in D!Jobs : jobs'[j] # 0 => jobs'[j] \in registry'
      BY <1>2 DEF Images
    <2> QED BY <2>3, <2>4, <2>5, <2>6, <2>7 DEF Images
  <1>3. ASSUME NEW r \in Runs, D!ApplyChange(r) PROVE Images'
    <2>1. PICK c \in todo[r] :
            /\ todo' = [todo EXCEPT ![r] = @ \ {c}]
            /\ IF c = "secret" THEN UNCHANGED jobs
               ELSE jobs' = [jobs EXCEPT ![c] = IF step[r] = "jobs" THEN commit[r] ELSE 0]
            /\ step[r] \in {"platform", "jobs"}
            /\ UNCHANGED <<step, registry, commit>>
      BY <1>3 DEF D!ApplyChange
    <2>2. \A o \in Runs : o # r => ~D!InProgress(o) /\ ~Deployed(o)
      BY <2>1, Alone DEF D!InProgress, D!Steps
    <2>3. \A o \in Runs : o # r =>
            /\ step[o] \notin {"jobs", "migrate", "wait_migrate", "smoke", "wait_smoke"}
            /\ ~(step[o] = "ok" /\ Newest(o))
      BY <2>2 DEF D!InProgress, D!Steps, D!Waiting, Deployed
    <2>4. \A j \in D!Jobs : jobs'[j] = jobs[j]
            \/ (j = c /\ jobs'[j] = IF step[r] = "jobs" THEN commit[r] ELSE 0)
      BY <2>1 DEF DeploymentType
    <2>5. step[r] = "jobs" => \A j \in D!Jobs : jobs'[j] = commit[r] \/ j \in todo'[r]
      BY <2>1 DEF Images, DeploymentType, D!Jobs
    <2>6. \A j \in D!Jobs : jobs'[j] # 0 => jobs'[j] \in registry
      BY <2>1, <2>4 DEF Images, Built
    <2> QED BY <2>1, <2>3, <2>5, <2>6, <1>n DEF Images
  <1>4. ASSUME NEW r \in Runs, D!BuildAndPush(r) PROVE Images'
    <2>1. /\ step[r] = "build" /\ step' = [step EXCEPT ![r] = "jobs"]
          /\ registry' = registry \cup {commit[r]} /\ UNCHANGED <<jobs, commit>>
          /\ todo' = [todo EXCEPT ![r] = D!Plan(TRUE, commit[r])]
      BY <1>4 DEF D!BuildAndPush
    <2>2. /\ \A o \in Runs : o # r => step'[o] = step[o] /\ todo'[o] = todo[o]
          /\ step'[r] = "jobs"
          /\ \A j \in D!Jobs : jobs[j] = commit[r] \/ j \in todo'[r]
      BY <2>1 DEF DeploymentType, D!Plan
    <2>3. \A i \in registry' : \E o \in Runs : commit'[o] = i /\ step'[o] \in Built
      <3>1. \A o \in Runs : step[o] \in Built => step'[o] \in Built
        BY <2>2 DEF Built
      <3> QED BY <3>1, <2>1, <2>2 DEF Images, Built
    <2>4. \A o \in Runs : step'[o] \in Built \ {"failed"} => commit'[o] \in registry'
      BY <2>1, <2>2 DEF Images
    <2>5. \A o \in Runs :
            \/ step'[o] \in {"migrate", "wait_migrate", "smoke", "wait_smoke"}
            \/ step'[o] = "ok" /\ Newest(o)'
            => \A j \in D!Jobs : jobs'[j] = commit'[o]
      BY <2>1, <2>2, <1>n DEF Images
    <2> QED BY <2>1, <2>2, <2>3, <2>4, <2>5 DEF Images
  <1>5. CASE D!Repair
    <2>1. /\ \A r \in Runs : ~D!InProgress(r)
          /\ \E j \in D!Jobs : jobs[j] = 0
          /\ \E image \in registry : jobs' = [j \in D!Jobs |-> image]
          /\ UNCHANGED <<step, todo, registry, commit>>
      BY <1>5 DEF D!Repair
    <2>2. \A o \in Runs : ~(step[o] = "ok" /\ Newest(o))
      BY <2>1 DEF Images, Turns
    <2>3. \A o \in Runs : step[o] \notin
            {"jobs", "migrate", "wait_migrate", "smoke", "wait_smoke"}
      BY <2>1 DEF D!InProgress, D!Steps, D!Waiting
    <2> QED BY <2>1, <2>2, <2>3, <1>n DEF Images
  <1>6. ASSUME UNCHANGED <<step, todo, jobs, registry, commit>> PROVE Images'
    BY <1>6 DEF Images, Newest
  <1>7. CASE D!CronFires \/ D!SetKillSwitch \/ D!Tick
    BY <1>6, <1>7 DEF D!CronFires, D!SetKillSwitch, D!Tick
  <1>8. ASSUME NEW r \in Runs, NEW k \in D!Keys, D!ExecutionEnds(r, k)
        PROVE  Images'
    BY <1>6, <1>8 DEF D!ExecutionEnds
  <1>9. ASSUME NEW r \in Runs,
               D!PlatformApplied(r) \/ D!JobsApplied(r) \/ D!StartExecution(r, "migrate")
               \/ D!StartExecution(r, "smoke") \/ D!Poll(r) \/ D!GiveUp(r)
               \/ D!StepFails(r)
        PROVE  Images'
    <2>1. UNCHANGED <<jobs, registry>>
          /\ \A o \in Runs : o # r => todo'[o] = todo[o]
      BY <1>9 DEF D!PlatformApplied, D!JobsApplied, D!StartExecution, D!Poll,
         D!GiveUp, D!StepFails, DeploymentType
    <2>2. D!PlatformApplied(r) => step[r] = "platform"
      BY DEF D!PlatformApplied
    <2>3. D!JobsApplied(r) => step[r] = "jobs" /\ todo[r] = {}
      BY DEF D!JobsApplied
    <2>4. /\ D!StartExecution(r, "migrate") => step[r] = "migrate"
          /\ D!StartExecution(r, "smoke") => step[r] = "smoke"
          /\ D!Poll(r) => step[r] \in {"wait_migrate", "wait_smoke"}
      BY DEF D!StartExecution, D!Poll, D!Waiting
    <2>5. CASE D!PlatformApplied(r)
      BY <2>1, <2>2, <2>5, <1>2, StepsOfPipelines
    <2>6. CASE D!JobsApplied(r)
      BY <2>1, <2>3, <2>6, <1>2, StepsOfPipelines
    <2>7. CASE D!StartExecution(r, "migrate") \/ D!StartExecution(r, "smoke")
      BY <2>1, <2>4, <2>7, <1>2, StepsOfPipelines
    <2>8. CASE D!Poll(r)
      BY <2>1, <2>4, <2>8, <1>2, StepsOfPipelines
    <2>9. CASE D!GiveUp(r) \/ D!StepFails(r)
      <3>1. Advances(r, "failed")
        BY <2>9, StepsOfPipelines
      <3> QED BY <2>1, <3>1, <1>2
    <2> QED BY <1>9, <2>5, <2>6, <2>7, <2>8, <2>9
  <1>10. ASSUME NEW r \in Runs, D!Push(r) \/ D!Dispatch(r) PROVE D!Queue(r)
    BY <1>10 DEF D!Push, D!Dispatch
  <1> QED BY <1>1, <1>3, <1>4, <1>5, <1>7, <1>8, <1>9, <1>10 DEF D!Next, D!Keys

-----------------------------------------------------------------------------
(* A pipeline outlasts the migration it waits for.                         *)
LEMMA WaitsStep ==
    ASSUME DeploymentInv, D!Next PROVE Waits'
  <1> USE DEF DeploymentInv
  <1>k. {"migrate", "smoke"} = D!Keys
    BY DEF D!Keys
  <1>e. \A o \in Runs, k \in D!Keys : exec[o][k] \in ExecutionRecord
    BY DEF DeploymentType, D!Keys
  <1>c. \A o \in Runs : step[o] # "unpushed" => commit'[o] = commit[o]
    BY BegunStays
  <1>1. ASSUME NEW r \in Runs, D!Queue(r) \/ D!Begin(r) PROVE Waits'
    <2>1. \A o \in Runs :
            \/ step'[o] = step[o]
            \/ /\ step[o] \notin {"wait_migrate", "wait_smoke", "ok"}
               /\ step'[o] \notin {"wait_migrate", "wait_smoke", "ok"}
      BY <1>1 DEF D!Queue, D!Begin, DeploymentType
    <2>2. UNCHANGED <<exec, waited, abandoned>>
      BY <1>1 DEF D!Queue, D!Begin
    <2> QED BY <2>1, <2>2, <1>c DEF Waits
  <1>2. ASSUME NEW r \in Runs, NEW to \in {"build", "jobs", "migrate", "failed"},
               Advances(r, to), exec' = exec,
               \A o \in Runs : o # r => waited'[o] = waited[o],
               abandoned \subseteq abandoned',
               exec[r]["migrate"].status = "running" => r \in abandoned'
        PROVE  Waits'
    <2>1. step'[r] = to /\ \A o \in Runs : o # r => step'[o] = step[o]
      BY <1>2 DEF Advances, DeploymentType
    <2> QED BY <1>2, <2>1, <1>c DEF Waits
  <1>3. ASSUME NEW r \in Runs, D!ApplyChange(r) PROVE Waits'
    <2>1. \A o \in Runs, k \in D!Keys :
                \/ exec'[o][k] = exec[o][k]
                \/ Fails(exec[o][k], exec'[o][k])
      BY <1>3, ApplyFailsSome
    <2>2. \A o \in Runs, k \in D!Keys :
            /\ exec'[o][k].image = exec[o][k].image
            /\ \/ exec'[o][k] = exec[o][k]
               \/ exec[o][k].status = "running" /\ exec'[o][k].status = "failed"
      <3>1. ASSUME NEW e \in ExecutionRecord, NEW f, Fails(e, f)
            PROVE  e.status = "running" /\ f.status = "failed" /\ f.image = e.image
        BY <3>1 DEF Fails, D!Ended
      <3> QED BY <2>1, <3>1, <1>e
    <2>3. UNCHANGED <<step, waited, abandoned>>
      BY <1>3 DEF D!ApplyChange
    <2> QED BY <2>2, <2>3, <1>c, <1>k DEF Waits
  <1>4. ASSUME NEW r \in Runs, D!StartExecution(r, "migrate") PROVE Waits'
    <2>1. /\ step[r] = "migrate" /\ waited' = [waited EXCEPT ![r] = 0]
          /\ \/ step' = [step EXCEPT ![r] = "wait_migrate"] /\ abandoned' = abandoned
             \/ /\ step' = [step EXCEPT ![r] = "failed"]
                /\ abandoned' = abandoned \cup {r}
      BY <1>4 DEF D!StartExecution
    <2>2. /\ exec'[r]["migrate"].status = "running"
          /\ exec'[r]["migrate"].age = 0
          /\ exec'[r]["migrate"].image = jobs["migrate"]
          /\ \A o \in Runs, l \in D!Keys :
                o # r \/ l # "migrate" => exec'[o][l] = exec[o][l]
      BY <1>4, StartOf DEF D!JobOf, D!Keys
    <2>3. jobs["migrate"] = commit[r] /\ commit'[r] = commit[r]
      BY <2>1, <1>c DEF Images, D!Jobs
    <2>4. \A o \in Runs : o # r => step'[o] = step[o] /\ waited'[o] = waited[o]
      BY <2>1 DEF DeploymentType
    <2>5. /\ waited'[r] = 0
          /\ \/ step'[r] = "wait_migrate"
             \/ step'[r] = "failed" /\ r \in abandoned'
          /\ \A o \in Runs : o # r => (o \in abandoned' <=> o \in abandoned)
      BY <2>1 DEF DeploymentType
    <2> QED BY <2>2, <2>3, <2>4, <2>5, <1>c, <1>k DEF Waits
  <1>5. ASSUME NEW r \in Runs, D!StartExecution(r, "smoke") PROVE Waits'
    <2>1. /\ step[r] = "smoke" /\ waited' = [waited EXCEPT ![r] = 0]
          /\ \/ step' = [step EXCEPT ![r] = "wait_smoke"]
             \/ step' = [step EXCEPT ![r] = "failed"]
          /\ abandoned' = abandoned
      BY <1>5 DEF D!StartExecution
    <2>2. /\ exec'[r]["smoke"].status = "running"
          /\ exec'[r]["smoke"].image = jobs["cycle"]
          /\ \A o \in Runs, l \in D!Keys :
                o # r \/ l # "smoke" => exec'[o][l] = exec[o][l]
      BY <1>5, StartOf DEF D!JobOf, D!Keys
    <2>3. jobs["cycle"] = commit[r] /\ commit'[r] = commit[r]
      BY <2>1, <1>c DEF Images, D!Jobs
    <2>4. \A o \in Runs : o # r => step'[o] = step[o] /\ waited'[o] = waited[o]
      BY <2>1 DEF DeploymentType
    <2>5. /\ step'[r] \in {"wait_smoke", "failed"}
          /\ exec[r]["migrate"].status = "running" => r \in abandoned
      BY <2>1 DEF DeploymentType, Waits
    <2> QED BY <2>1, <2>2, <2>3, <2>4, <2>5, <1>c, <1>k DEF Waits
  <1>6. ASSUME NEW r \in Runs, NEW k \in D!Keys, D!ExecutionEnds(r, k)
        PROVE  Waits'
    <2>1. /\ exec[r][k].status = "running"
          /\ exec'[r][k].status \in {"succeeded", "failed"}
          /\ exec'[r][k].image = exec[r][k].image
          /\ \A o \in Runs, l \in D!Keys :
               o # r \/ l # k => exec'[o][l] = exec[o][l]
      BY <1>6, EndOf
    <2>2. UNCHANGED <<step, waited, abandoned>>
      BY <1>6 DEF D!ExecutionEnds
    <2>3. CASE k = "migrate"
      BY <2>1, <2>2, <2>3, <1>c, <1>k DEF Waits
    <2>4. CASE k = "smoke"
      BY <2>1, <2>2, <2>4, <1>c, <1>k DEF Waits
    <2> QED BY <2>3, <2>4 DEF D!Keys
  <1>7. ASSUME NEW r \in Runs, D!Poll(r) PROVE Waits'
    <2>1. /\ step[r] \in {"wait_migrate", "wait_smoke"}
          /\ exec[r][D!Awaited(r)].status # "running"
          /\ step' = [step EXCEPT ![r] =
               IF exec[r][D!Awaited(r)].status = "failed" THEN "failed"
               ELSE D!After(r)]
          /\ waited' = [waited EXCEPT ![r] = 0]
          /\ UNCHANGED <<exec, abandoned>>
      BY <1>7 DEF D!Poll, D!Waiting
    <2>2. \A o \in Runs : o # r => step'[o] = step[o] /\ waited'[o] = waited[o]
      BY <2>1 DEF DeploymentType
    <2>3. CASE step[r] = "wait_migrate"
      <3>1. step'[r] \in {"failed", "smoke"}
            /\ exec[r]["migrate"].status # "running"
        BY <2>1, <2>3 DEF D!After, D!Awaited, DeploymentType
      <3> QED BY <2>1, <2>2, <3>1, <1>c DEF Waits
    <2>4. CASE step[r] = "wait_smoke"
      <3>1. /\ exec[r]["smoke"].status # "running"
            /\ step'[r] = IF exec[r]["smoke"].status = "failed" THEN "failed" ELSE "ok"
        BY <2>1, <2>4 DEF D!After, D!Awaited, DeploymentType
      <3>2. exec[r]["smoke"].status \in {"none", "running", "succeeded", "failed"}
        BY <1>e DEF ExecutionRecord, D!Keys
      <3> QED BY <2>1, <2>2, <2>4, <3>1, <3>2, <1>c DEF Waits
    <2> QED BY <2>1, <2>3, <2>4
  <1>8. ASSUME NEW r \in Runs, D!GiveUp(r) PROVE Waits'
    <2>1. /\ waited[r] >= 3
          /\ waited' = [waited EXCEPT ![r] = 0]
          /\ UNCHANGED <<exec, abandoned>>
      BY <1>8 DEF D!GiveUp, D!WaitTimeout, D!Minutes
    <2>2. exec[r]["migrate"].status = "running" => r \in abandoned
      BY <2>1 DEF Waits, DeploymentType
    <2>3. \A o \in Runs : o # r => waited'[o] = waited[o]
      BY <2>1 DEF DeploymentType
    <2> QED BY <2>1, <2>2, <2>3, <1>2, <1>8, StepsOfPipelines
  <1>9. ASSUME NEW r \in Runs,
               D!PlatformApplied(r) \/ D!BuildAndPush(r) \/ D!JobsApplied(r)
        PROVE  Waits'
    <2>1. step[r] # "wait_migrate" /\ UNCHANGED <<exec, waited, abandoned>>
      BY <1>9 DEF D!PlatformApplied, D!BuildAndPush, D!JobsApplied
    <2>2. exec[r]["migrate"].status = "running" => r \in abandoned
      BY <2>1 DEF Waits
    <2> QED BY <2>1, <2>2, <1>2, <1>9, StepsOfPipelines
  <1>12. ASSUME NEW r \in Runs, D!StepFails(r) PROVE Waits'
    <2>1. /\ exec' = exec
          /\ waited' = [waited EXCEPT ![r] = 0]
          /\ abandoned \subseteq abandoned'
          /\ exec[r]["migrate"].status = "running" => r \in abandoned'
      BY <1>12 DEF D!StepFails
    <2>2. \A o \in Runs : o # r => waited'[o] = waited[o]
      BY <2>1 DEF DeploymentType
    <2> QED BY <2>1, <2>2, <1>2, <1>12, StepsOfPipelines
  <1>10. CASE D!Tick
    <2>1. \A o \in Runs :
            /\ exec'[o]["migrate"].status = exec[o]["migrate"].status
            /\ exec'[o]["migrate"].image = exec[o]["migrate"].image
            /\ exec[o]["migrate"].status = "running" =>
                 /\ exec'[o]["migrate"].age = exec[o]["migrate"].age + 1
                 /\ exec[o]["migrate"].age < 2
            /\ exec'[o]["smoke"].status = exec[o]["smoke"].status
            /\ exec'[o]["smoke"].image = exec[o]["smoke"].image
            /\ step[o] = "wait_migrate" => waited'[o] = waited[o] + 1
      BY <1>10, TickAges DEF D!Keys, D!Waiting
    <2>2. UNCHANGED <<step, abandoned>>
      BY <1>10 DEF D!Tick
    <2> QED BY <2>1, <2>2, <1>c DEF Waits, DeploymentType
  <1>11. CASE D!Repair \/ D!CronFires \/ D!SetKillSwitch
    BY <1>11 DEF D!Repair, D!CronFires, D!SetKillSwitch, Waits
  <1>13. ASSUME NEW r \in Runs, D!Push(r) \/ D!Dispatch(r) PROVE D!Queue(r)
    BY <1>13 DEF D!Push, D!Dispatch
  <1> QED
    BY <1>1, <1>3, <1>4, <1>5, <1>6, <1>7, <1>8, <1>9, <1>10, <1>11, <1>12, <1>13,
       <1>k
    DEF D!Next

(* No migration takes the schema back.                                     *)
LEMMA SchemaGrows ==
    ASSUME DeploymentType, D!Next
    PROVE  schema' >= schema
  <1>1. schema \in Nat
    BY OperationsAssumption DEF DeploymentType, D!DeploymentAssumption
  <1>2. ASSUME NEW r \in Runs, NEW k \in D!Keys, D!ExecutionEnds(r, k)
        PROVE  schema' >= schema
    <2>1. exec[r][k].image \in Runs \cup {0}
      BY DEF DeploymentType, ExecutionRecord, D!Keys
    <2>2. Runs \subseteq Nat
      BY OperationsAssumption DEF D!DeploymentAssumption
    <2> QED BY <1>1, <1>2, <2>1, <2>2, EndOf
  <1>3. ASSUME NEW r \in Runs,
               \/ D!Push(r) \/ D!Dispatch(r) \/ D!Begin(r) \/ D!ApplyChange(r)
               \/ D!PlatformApplied(r) \/ D!BuildAndPush(r) \/ D!JobsApplied(r)
               \/ D!Poll(r) \/ D!GiveUp(r) \/ D!StepFails(r)
               \/ \E k \in D!Keys : D!StartExecution(r, k)
        PROVE  schema' = schema
    BY <1>3 DEF D!Push, D!Dispatch, D!Queue, D!Begin, D!ApplyChange,
       D!PlatformApplied, D!BuildAndPush, D!JobsApplied, D!Poll, D!GiveUp,
       D!StepFails, D!StartExecution
  <1>4. CASE D!Repair \/ D!CronFires \/ D!SetKillSwitch \/ D!Tick
    BY <1>4, <1>1 DEF D!Repair, D!CronFires, D!SetKillSwitch, D!Tick
  <1> QED BY <1>1, <1>2, <1>3, <1>4 DEF D!Next

LEMMA SchemasStep ==
    ASSUME DeploymentInv, D!Next PROVE Schemas'
  <1> USE DEF DeploymentInv
  <1>c. \A o \in Runs : step[o] # "unpushed" => commit'[o] = commit[o]
    BY BegunStays
  <1>s. Runs \cup {0} \subseteq Nat
    BY OperationsAssumption DEF D!DeploymentAssumption
  <1>t. schema' \in Runs \cup {0}
    BY DeploymentTypeStep DEF DeploymentType
  <1>v. schema \in Runs \cup {0} /\ \A o \in Runs : commit[o] \in Runs \cup {0}
    BY DEF DeploymentType
  <1>w. schema' >= schema
    BY SchemaGrows
  <1>r. /\ schema \in Nat /\ schema' \in Nat /\ schema' >= schema
        /\ \A o \in Runs : commit[o] \in Nat
    <2> HIDE DEF DeploymentInv
    <2> QED BY <1>s, <1>t, <1>v, <1>w, Zenon
  <1> DEFINE Past(o) == \/ step[o] = "wait_migrate" /\ exec[o]["migrate"].status = "succeeded"
                        \/ step[o] \in {"smoke", "wait_smoke", "ok"}
  <1>p. ASSUME NEW o \in Runs, Past(o) PROVE schema' >= commit'[o]
    <2>1. schema >= commit[o] /\ commit'[o] = commit[o]
      BY <1>p, <1>c DEF Schemas
    <2> QED BY <2>1, <1>r
  <1>1. ASSUME NEW r \in Runs, D!Queue(r) \/ D!Begin(r) PROVE Schemas'
    <2>1. \A o \in Runs :
            \/ step'[o] = step[o]
            \/ step'[o] \notin {"wait_migrate", "smoke", "wait_smoke", "ok"}
      BY <1>1 DEF D!Queue, D!Begin, DeploymentType
    <2>2. exec' = exec
      BY <1>1 DEF D!Queue, D!Begin
    <2> QED BY <2>1, <2>2, <1>p DEF Schemas
  <1>2. ASSUME NEW r \in Runs, NEW to, Advances(r, to),
               \A o \in Runs : o # r =>
                 exec'[o]["migrate"] = exec[o]["migrate"],
               to = "wait_migrate" => exec'[r]["migrate"].status = "running",
               to \in {"smoke", "wait_smoke", "ok"} => Past(r)
        PROVE  Schemas'
    <2>1. step'[r] = to /\ \A o \in Runs : o # r => step'[o] = step[o]
      BY <1>2 DEF Advances, DeploymentType
    <2> QED BY <1>2, <2>1, <1>p DEF Schemas
  <1>3. ASSUME NEW r \in Runs, D!ApplyChange(r) PROVE Schemas'
    <2>1. \A o \in Runs :
                \/ exec'[o]["migrate"] = exec[o]["migrate"]
                \/ Fails(exec[o]["migrate"], exec'[o]["migrate"])
      BY <1>3, ApplyFailsSome DEF D!Keys
    <2>2. \A o \in Runs :
            exec'[o]["migrate"].status = "succeeded" =>
              exec[o]["migrate"].status = "succeeded"
      <3>1. \A e \in ExecutionRecord : D!Ended(e, "failed").status = "failed"
        BY DEF D!Ended
      <3>2. \A o \in Runs : exec[o]["migrate"] \in ExecutionRecord
        BY DEF DeploymentType, D!Keys
      <3> QED BY <2>1, <3>1, <3>2 DEF Fails
    <2>3. step' = step
      BY <1>3 DEF D!ApplyChange
    <2> QED BY <2>2, <2>3, <1>p DEF Schemas
  <1>4. ASSUME NEW r \in Runs, D!StartExecution(r, "migrate") PROVE Schemas'
    <2>1. /\ exec'[r]["migrate"].status = "running"
          /\ \A o \in Runs : o # r =>
               exec'[o]["migrate"] = exec[o]["migrate"]
      BY <1>4, StartOf DEF D!Keys
    <2>2. Advances(r, "wait_migrate") \/ Advances(r, "failed")
      BY <1>4, StepsOfPipelines
    <2> QED BY <2>1, <2>2, <1>2
  <1>5. ASSUME NEW r \in Runs, D!StartExecution(r, "smoke") PROVE Schemas'
    <2>1. \A o \in Runs : exec'[o]["migrate"] = exec[o]["migrate"]
      BY <1>5, StartOf DEF D!Keys
    <2>2. /\ Advances(r, "wait_smoke") \/ Advances(r, "failed")
          /\ Past(r)
      BY <1>5, StepsOfPipelines DEF D!StartExecution
    <2> QED BY <2>1, <2>2, <1>2
  <1>6. ASSUME NEW r \in Runs, NEW k \in D!Keys, D!ExecutionEnds(r, k)
        PROVE  Schemas'
    <2>1. /\ exec[r][k].status = "running"
          /\ \A o \in Runs, l \in D!Keys :
               o # r \/ l # k => exec'[o][l] = exec[o][l]
          /\ schema' = IF k = "migrate" /\ exec'[r][k].status = "succeeded"
                       THEN exec[r][k].image ELSE schema
          /\ step' = step
      BY <1>6, EndOf DEF D!ExecutionEnds
    <2>2. ASSUME NEW o \in Runs, Past(o)' PROVE schema' >= commit'[o]
      <3>1. CASE Past(o)
        BY <3>1, <1>p
      <3>2. CASE ~Past(o)
        <4>1. /\ k = "migrate" /\ o = r /\ step[o] = "wait_migrate"
              /\ exec'[r][k].status = "succeeded"
          BY <2>1, <2>2, <3>2 DEF D!Keys
        <4>2. schema' = commit[o] /\ commit'[o] = commit[o]
          BY <2>1, <4>1, <1>c DEF Waits
        <4> QED BY <4>2, <1>r
      <3> QED BY <3>1, <3>2
    <2> QED BY <2>2 DEF Schemas
  <1>7. ASSUME NEW r \in Runs, D!Poll(r) PROVE Schemas'
    <2>1. /\ step[r] \in {"wait_migrate", "wait_smoke"}
          /\ exec[r][D!Awaited(r)].status # "running"
          /\ step' = [step EXCEPT ![r] =
               IF exec[r][D!Awaited(r)].status = "failed" THEN "failed"
               ELSE D!After(r)]
          /\ exec' = exec
      BY <1>7 DEF D!Poll, D!Waiting
    <2>2. exec[r]["migrate"].status \in {"none", "running", "succeeded", "failed"}
      BY DEF DeploymentType, ExecutionRecord, D!Keys
    <2>3. \/ Advances(r, "failed")
          \/ (Advances(r, "smoke") \/ Advances(r, "ok")) /\ Past(r)
      BY <2>1, <2>2
      DEF Advances, D!InProgress, D!Steps, D!Waiting, D!After, D!Awaited, Waits
    <2> QED BY <2>1, <2>3, <1>2
  <1>8. ASSUME NEW r \in Runs,
               D!PlatformApplied(r) \/ D!BuildAndPush(r) \/ D!JobsApplied(r)
               \/ D!GiveUp(r) \/ D!StepFails(r)
        PROVE  Schemas'
    <2>1. exec' = exec
      BY <1>8 DEF D!PlatformApplied, D!BuildAndPush, D!JobsApplied, D!GiveUp,
         D!StepFails
    <2>2. \E to \in {"build", "jobs", "migrate", "failed"} : Advances(r, to)
      BY <1>8, StepsOfPipelines
    <2> QED BY <2>1, <2>2, <1>2
  <1>9. CASE D!Tick
    <2>1. step' = step
          /\ \A o \in Runs :
               exec'[o]["migrate"].status = exec[o]["migrate"].status
      BY <1>9, TickAges DEF D!Tick, D!Keys
    <2> QED BY <2>1, <1>p DEF Schemas
  <1>10. CASE D!Repair \/ D!CronFires \/ D!SetKillSwitch
    <2>1. UNCHANGED <<step, exec>>
      BY <1>10 DEF D!Repair, D!CronFires, D!SetKillSwitch
    <2> QED BY <2>1, <1>p DEF Schemas
  <1>11. ASSUME NEW r \in Runs, D!Push(r) \/ D!Dispatch(r) PROVE D!Queue(r)
    BY <1>11 DEF D!Push, D!Dispatch
  <1> HIDE DEF Past
  <1> QED
    BY <1>1, <1>3, <1>4, <1>5, <1>6, <1>7, <1>8, <1>9, <1>10, <1>11
    DEF D!Next, D!Keys

-----------------------------------------------------------------------------
(* The invariant of the deployment, in every behaviour.                    *)
LEMMA DeploymentInvariant == Spec => []DeploymentInv
  <1>1. DeploymentInv /\ [Next]_vars => DeploymentInv'
    <2> SUFFICES ASSUME DeploymentInv, [Next]_vars PROVE DeploymentInv'
      OBVIOUS
    <2>1. CASE UNCHANGED deployment
      BY <2>1 DEF deployment, DeploymentInv, DeploymentType, Turns, Images, Waits,
         Schemas, Newest, D!InProgress
    <2>2. CASE DeploymentStep
      BY <2>2, DeploymentTypeStep, TurnsStep, ImagesStep, WaitsStep, SchemasStep
      DEF DeploymentStep, DeploymentInv
    <2> QED BY <2>1, <2>2 DEF Next, MigrationStep, CostGuardStep, vars
  <1> QED BY InitDeployment, <1>1, PTL DEF Spec

(* Two migrations run at once only where the run of one was lost, or lost  *)
(* the answer to its start: any other runs only while its run waits, and   *)
(* one run deploys at a time.                                              *)
THEOREM OnlyAbandonedMigrationsOverlapAlways ==
    Spec => []OnlyAbandonedMigrationsOverlap
  <1>1. DeploymentInv => OnlyAbandonedMigrationsOverlap
    <2> SUFFICES ASSUME DeploymentInv PROVE OnlyAbandonedMigrationsOverlap
      OBVIOUS
    <2> DEFINE Migrating ==
          {r \in Runs \ abandoned : exec[r]["migrate"].status = "running"}
    <2>1. \A r \in Migrating : r \in Runs /\ D!InProgress(r)
      BY DEF DeploymentInv, Waits, D!InProgress, D!Steps, D!Waiting
    <2>2. \A r, o \in Migrating : r = o
      BY <2>1, Alone DEF DeploymentInv
    <2>3. Cardinality(Migrating) <= 1
      <3> HIDE DEF Migrating
      <3>1. CASE Migrating = {}
        BY <3>1, FS_EmptySet
      <3>2. ASSUME NEW r \in Migrating PROVE Cardinality(Migrating) <= 1
        <4>1. Migrating = {r}
          BY <2>2
        <4>2. Cardinality(Migrating) = 1
          BY <4>1, FS_Singleton, Zenon
        <4> QED BY <4>2
      <3> QED BY <3>1, <3>2
    <2>4. D!Cardinality(Migrating) = Cardinality(Migrating)
      BY DEF D!Cardinality, Cardinality
    <2> QED BY <2>3, <2>4
            DEF OnlyAbandonedMigrationsOverlap, D!OnlyAbandonedMigrationsOverlap
  <1> QED BY <1>1, DeploymentInvariant, PTL

(* A cycle meets an older schema only until a run of its commit is past    *)
(* the migration, or when such a run has failed.                           *)
THEOREM SchemaLagsOnlyWhileDeployingAlways ==
    Spec => []SchemaLagsOnlyWhileDeploying
  <1>1. DeploymentInv => SchemaLagsOnlyWhileDeploying
    <2> SUFFICES ASSUME DeploymentInv, schema < jobs["cycle"]
                 PROVE  \E r \in Runs :
                          /\ commit[r] = jobs["cycle"]
                          /\ step[r] \in {"jobs", "migrate", "wait_migrate", "failed"}
      BY DEF SchemaLagsOnlyWhileDeploying, D!SchemaLagsOnlyWhileDeploying
    <2>a. Runs \cup {0} \subseteq Nat
      BY OperationsAssumption DEF D!DeploymentAssumption
    <2>b. schema \in Runs \cup {0} /\ jobs \in [D!Jobs -> Runs \cup {0}]
      BY DEF DeploymentInv, DeploymentType
    <2>c. jobs["cycle"] \in Runs \cup {0}
      BY <2>b, Zenon DEF D!Jobs
    <2>1. schema \in Nat /\ jobs["cycle"] \in Nat
      BY <2>a, <2>b, <2>c, Zenon
    <2>2. PICK r \in Runs : commit[r] = jobs["cycle"] /\ step[r] \in Built
      BY <2>1 DEF DeploymentInv, Images, D!Jobs
    <2>3. step[r] \notin {"smoke", "wait_smoke", "ok"}
      BY <2>1, <2>2 DEF DeploymentInv, Schemas
    <2> QED BY <2>2, <2>3 DEF Built
  <1> QED BY <1>1, DeploymentInvariant, PTL

(* A green run means deployed: until the next run begins, the jobs run the *)
(* image of its commit, the schema is not older, and a cycle of this image *)
(* has succeeded.                                                          *)
THEOREM GreenMeansDeployedAlways == Spec => []GreenMeansDeployed
  <1>1. DeploymentInv => GreenMeansDeployed
    <2> SUFFICES ASSUME DeploymentInv, NEW r \in Runs, step[r] = "ok",
                        \A o \in Runs : o > r => step[o] \in D!NotBegun
                 PROVE  /\ jobs = [j \in D!Jobs |-> commit[r]]
                        /\ commit[r] \in registry
                        /\ schema >= commit[r]
                        /\ exec[r]["smoke"].status = "succeeded"
                        /\ exec[r]["smoke"].image = commit[r]
      BY DEF GreenMeansDeployed, D!GreenMeansDeployed
    <2>1. \A j \in D!Jobs : jobs[j] = commit[r]
      BY DEF DeploymentInv, Images, Newest
    <2>2. jobs = [j \in D!Jobs |-> commit[r]]
      BY <2>1 DEF DeploymentInv, DeploymentType
    <2>3. commit[r] \in registry
      BY DEF DeploymentInv, Images, Built
    <2>4. schema >= commit[r]
      BY DEF DeploymentInv, Schemas
    <2> QED BY <2>2, <2>3, <2>4 DEF DeploymentInv, Waits
  <1> QED BY <1>1, DeploymentInvariant, PTL

-----------------------------------------------------------------------------
(* The migration: what each of its statements does to the schema.          *)
Trading == M!TradingTables
Version == M!VersionTable

(* A table of the models, with only some of its indexes yet.               *)
With(t, indexes) == M!Indexed(M!Models[t], indexes)
Holds(t, indexes) == {With(t, indexes)}

(* The trading tables after n statements of upgrade.                       *)
CreatedAt(t) ==
    CASE t = "equity_snapshots" -> 1
      [] t = "orders" -> 4
      [] t = "positions" -> 6
      [] t = "signals" -> 7
      [] OTHER -> 10

IndexesAfter(t, n) ==
    CASE t = "equity_snapshots" ->
            IF n < 2 THEN {} ELSE IF n < 3 THEN {<<"cycle_id">>}
            ELSE {<<"cycle_id">>, <<"symbol", "taken_at">>}
      [] t = "orders" -> IF n < 5 THEN {} ELSE {<<"cycle_id">>}
      [] t = "positions" -> {}
      [] t = "signals" ->
            IF n < 8 THEN {} ELSE IF n < 9 THEN {<<"cycle_id">>}
            ELSE {<<"cycle_id">>, <<"symbol", "as_of">>}
      [] OTHER ->
            IF n < 11 THEN {} ELSE IF n < 12 THEN {<<"client_order_id">>}
            ELSE {<<"order_id">>, <<"client_order_id">>}

TableAt(t, n) == IF n < CreatedAt(t) THEN {} ELSE Holds(t, IndexesAfter(t, n))

-----------------------------------------------------------------------------
(* What the models and the statements are.                                 *)
Shape(c, n, u, r, i) ==
    [columns |-> c, nullable |-> n, unique |-> u, references |-> r, indexes |-> i]

LEMMA DefinitionFields ==
    ASSUME NEW c, NEW n, NEW u, NEW r, NEW i
    PROVE  /\ Shape(c, n, u, r, i).columns = c
           /\ Shape(c, n, u, r, i).unique = u
           /\ Shape(c, n, u, r, i).references = r
           /\ Shape(c, n, u, r, i).indexes = i
  BY DEF Shape

LEMMA IndexedDefinition ==
    ASSUME NEW c, NEW n, NEW u, NEW r, NEW i, NEW j
    PROVE  M!Indexed(Shape(c, n, u, r, i), j) = Shape(c, n, u, r, j)
  BY DEF Shape, M!Indexed

LEMMA TableIsDefinition ==
    ASSUME NEW c, NEW u
    PROVE  M!Table(c, u) = Shape(c, {}, u, {}, {})
  BY DEF Shape, M!Table

(* The definitions of two tables that are not plain ones.                  *)
LEMMA OrdersAndFills ==
    /\ M!Models["orders"] =
         Shape(M!OrderColumns, {"venue_order_id", "rejection_reason"},
                    {"id", "client_order_id"}, {}, {<<"cycle_id">>})
    /\ M!Models["fills"] =
         Shape({"id", "order_id", "client_order_id", "symbol", "side",
                     "quantity", "price", "fee_quote", "filled_at"}, {}, {"id"},
                    {<<"order_id", "orders", "id">>},
                    {<<"order_id">>, <<"client_order_id">>})
  BY DEF M!Models, Shape, M!OrderColumns

LEMMA ModelsAreDefinitions ==
    ASSUME NEW t \in Trading
    PROVE  \E c, n, u, r, i : M!Models[t] = Shape(c, n, u, r, i)
  <1>1. CASE t \in {"equity_snapshots", "signals"}
    <2>1. \E c, u, i : M!Models[t] = M!Indexed(M!Table(c, u), i)
      <3>1. CASE t = "equity_snapshots"
        BY <3>1 DEF M!Models
      <3>2. CASE t = "signals"
        BY <3>2 DEF M!Models
      <3> QED BY <1>1, <3>1, <3>2
    <2> QED BY <2>1, TableIsDefinition, DefinitionFields, IndexedDefinition
  <1>2. CASE t = "positions"
    <2>1. \E c, u : M!Models[t] = M!Table(c, u)
      BY <1>2 DEF M!Models
    <2> QED BY <2>1, TableIsDefinition
  <1>3. CASE t = "orders"
    BY <1>3, OrdersAndFills
  <1>4. CASE t = "fills"
    BY <1>4, OrdersAndFills
  <1> QED BY <1>1, <1>2, <1>3, <1>4 DEF Trading, M!TradingTables

LEMMA ModelFields ==
    /\ \A t \in Trading : /\ M!Models[t].indexes = IndexesAfter(t, 12)
                          /\ t # "fills" => M!Models[t].references = {}
    /\ M!Models["fills"].references = {<<"order_id", "orders", "id">>}
    /\ "id" \in M!Models["orders"].unique
  <1>1. M!Models["equity_snapshots"].indexes = IndexesAfter("equity_snapshots", 12)
        /\ M!Models["equity_snapshots"].references = {}
    BY DEF M!Models, M!Indexed, M!Table, IndexesAfter
  <1>2. M!Models["orders"].indexes = IndexesAfter("orders", 12)
        /\ M!Models["orders"].references = {}
        /\ "id" \in M!Models["orders"].unique
    BY DEF M!Models, M!Indexed, M!Table, IndexesAfter
  <1>3. M!Models["positions"].indexes = IndexesAfter("positions", 12)
        /\ M!Models["positions"].references = {}
    BY DEF M!Models, M!Indexed, M!Table, IndexesAfter
  <1>4. M!Models["signals"].indexes = IndexesAfter("signals", 12)
        /\ M!Models["signals"].references = {}
    BY DEF M!Models, M!Indexed, M!Table, IndexesAfter
  <1>5. M!Models["fills"].indexes = IndexesAfter("fills", 12)
        /\ M!Models["fills"].references = {<<"order_id", "orders", "id">>}
    BY DEF M!Models, M!Indexed, M!Table, IndexesAfter
  <1> QED BY <1>1, <1>2, <1>3, <1>4, <1>5 DEF Trading, M!TradingTables

LEMMA IndexedColumns ==
    /\ {"cycle_id", "symbol", "taken_at"} \subseteq M!Models["equity_snapshots"].columns
    /\ "cycle_id" \in M!Models["orders"].columns
    /\ {"cycle_id", "symbol", "as_of"} \subseteq M!Models["signals"].columns
    /\ {"order_id", "client_order_id"} \subseteq M!Models["fills"].columns
  BY DEF M!Models, M!Indexed, M!Table

LEMMA Withs ==
    ASSUME NEW t \in Trading, NEW x
    PROVE  /\ With(t, x).indexes = x
           /\ \A y : M!Indexed(With(t, x), y) = With(t, y)
           /\ With(t, x).columns = M!Models[t].columns
           /\ With(t, x).unique = M!Models[t].unique
           /\ With(t, x).references = M!Models[t].references
           /\ With(t, IndexesAfter(t, 12)) = M!Models[t]
  <1>1. PICK c, n, u, r, i : M!Models[t] = Shape(c, n, u, r, i)
    BY ModelsAreDefinitions
  <1>2. \A j : With(t, j) = Shape(c, n, u, r, j)
    BY <1>1, DefinitionFields, IndexedDefinition DEF With
  <1>3. i = IndexesAfter(t, 12)
    BY <1>1, DefinitionFields, ModelFields
  <1> QED BY <1>1, <1>2, <1>3, DefinitionFields, IndexedDefinition

LEMMA UpgradeStatements ==
    LET S == M!Upgrade IN
    /\ Len(S) = 13
    /\ S[1] = M!CreateTable("equity_snapshots", With("equity_snapshots", {}))
    /\ S[2] = M!CreateIndex("equity_snapshots", <<"cycle_id">>)
    /\ S[3] = M!CreateIndex("equity_snapshots", <<"symbol", "taken_at">>)
    /\ S[4] = M!CreateTable("orders", With("orders", {}))
    /\ S[5] = M!CreateIndex("orders", <<"cycle_id">>)
    /\ S[6] = M!CreateTable("positions", With("positions", {}))
    /\ S[7] = M!CreateTable("signals", With("signals", {}))
    /\ S[8] = M!CreateIndex("signals", <<"cycle_id">>)
    /\ S[9] = M!CreateIndex("signals", <<"symbol", "as_of">>)
    /\ S[10] = M!CreateTable("fills", With("fills", {}))
    /\ S[11] = M!CreateIndex("fills", <<"client_order_id">>)
    /\ S[12] = M!CreateIndex("fills", <<"order_id">>)
    /\ S[13] = M!Stamp(M!AtHead)
  <1>1. M!CreateEquitySnapshots[1]
        = M!CreateTable("equity_snapshots", With("equity_snapshots", {}))
    <2>0. M!Models["equity_snapshots"] = M!Indexed(M!Table(
              {"id", "cycle_id", "symbol", "mark_price", "cash_quote",
               "position_quantity", "equity_quote", "day_opening_equity",
               "taken_at"}, {"id"}),
              {<<"cycle_id">>, <<"symbol", "taken_at">>})
      BY DEF M!Models
    <2>1. With("equity_snapshots", {}) = M!Table(
              {"id", "cycle_id", "symbol", "mark_price", "cash_quote",
               "position_quantity", "equity_quote", "day_opening_equity",
               "taken_at"}, {"id"})
      BY <2>0, TableIsDefinition, DefinitionFields, IndexedDefinition DEF With
    <2> QED BY <2>1 DEF M!CreateEquitySnapshots
  <1>2. M!CreateOrders[1] = M!CreateTable("orders", With("orders", {}))
    <2>1. Shape(M!OrderColumns, {"venue_order_id", "rejection_reason"},
                {"id", "client_order_id"}, {}, {}) =
            [M!Table(M!OrderColumns, {"id", "client_order_id"})
                EXCEPT !.nullable = {"venue_order_id", "rejection_reason"}]
      BY DEF Shape, M!Table
    <2>2. With("orders", {}) =
            Shape(M!OrderColumns, {"venue_order_id", "rejection_reason"},
                  {"id", "client_order_id"}, {}, {})
      BY OrdersAndFills, IndexedDefinition DEF With
    <2> QED BY <2>1, <2>2 DEF M!CreateOrders
  <1>3. M!CreatePositions[1] = M!CreateTable("positions", With("positions", {}))
    <2>1. PICK c, u : /\ M!Models["positions"] = M!Table(c, u)
                      /\ M!CreatePositions[1] = M!CreateTable("positions", M!Table(c, u))
      BY DEF M!CreatePositions, M!Models
    <2> QED BY <2>1, TableIsDefinition, DefinitionFields, IndexedDefinition DEF With
  <1>4. M!CreateSignals[1] = M!CreateTable("signals", With("signals", {}))
    <2>0. M!Models["signals"] = M!Indexed(M!Table(
              {"id", "cycle_id", "symbol", "strategy", "action", "strength",
               "reason", "context", "as_of", "created_at"}, {"id"}),
              {<<"cycle_id">>, <<"symbol", "as_of">>})
      BY DEF M!Models
    <2>1. With("signals", {}) = M!Table(
              {"id", "cycle_id", "symbol", "strategy", "action", "strength",
               "reason", "context", "as_of", "created_at"}, {"id"})
      BY <2>0, TableIsDefinition, DefinitionFields, IndexedDefinition DEF With
    <2> QED BY <2>1 DEF M!CreateSignals
  <1>5. M!CreateFills[1] = M!CreateTable("fills", With("fills", {}))
    <2> DEFINE columns == {"id", "order_id", "client_order_id", "symbol", "side",
                           "quantity", "price", "fee_quote", "filled_at"}
               references == {<<"order_id", "orders", "id">>}
    <2>1. Shape(columns, {}, {"id"}, references, {}) =
            [M!Table(columns, {"id"}) EXCEPT !.references = references]
      BY DEF Shape, M!Table
    <2>2. With("fills", {}) = Shape(columns, {}, {"id"}, references, {})
      BY OrdersAndFills, IndexedDefinition DEF With
    <2> QED BY <2>1, <2>2 DEF M!CreateFills
  <1>6. LET S == M!Upgrade IN
        /\ Len(S) = 13
        /\ S[1] = M!CreateEquitySnapshots[1]
        /\ S[2] = M!CreateIndex("equity_snapshots", <<"cycle_id">>)
        /\ S[3] = M!CreateIndex("equity_snapshots", <<"symbol", "taken_at">>)
        /\ S[4] = M!CreateOrders[1]
        /\ S[5] = M!CreateIndex("orders", <<"cycle_id">>)
        /\ S[6] = M!CreatePositions[1]
        /\ S[7] = M!CreateSignals[1]
        /\ S[8] = M!CreateIndex("signals", <<"cycle_id">>)
        /\ S[9] = M!CreateIndex("signals", <<"symbol", "as_of">>)
        /\ S[10] = M!CreateFills[1]
        /\ S[11] = M!CreateIndex("fills", <<"client_order_id">>)
        /\ S[12] = M!CreateIndex("fills", <<"order_id">>)
        /\ S[13] = M!Stamp(M!AtHead)
    BY DEF M!Upgrade, M!CreateEquitySnapshots, M!CreateOrders,
           M!CreatePositions, M!CreateSignals, M!CreateFills
  <1> QED BY <1>1, <1>2, <1>3, <1>4, <1>5, <1>6

LEMMA DowngradeStatements ==
    LET S == M!Downgrade IN
    /\ Len(S) = 13
    /\ S[1] = M!DropIndex("fills", <<"order_id">>)
    /\ S[2] = M!DropIndex("fills", <<"client_order_id">>)
    /\ S[3] = M!DropTable("fills")
    /\ S[4] = M!DropIndex("signals", <<"symbol", "as_of">>)
    /\ S[5] = M!DropIndex("signals", <<"cycle_id">>)
    /\ S[6] = M!DropTable("signals")
    /\ S[7] = M!DropTable("positions")
    /\ S[8] = M!DropIndex("orders", <<"cycle_id">>)
    /\ S[9] = M!DropTable("orders")
    /\ S[10] = M!DropIndex("equity_snapshots", <<"symbol", "taken_at">>)
    /\ S[11] = M!DropIndex("equity_snapshots", <<"cycle_id">>)
    /\ S[12] = M!DropTable("equity_snapshots")
    /\ S[13] = M!Stamp(M!AtBase)
  BY DEF M!Downgrade

LEMMA DifferentKeys ==
    /\ <<"cycle_id">> # <<"symbol", "taken_at">>
    /\ <<"cycle_id">> # <<"symbol", "as_of">>
    /\ <<"client_order_id">> # <<"order_id">>
  <1>1. Len(<<"cycle_id">>) = 1 /\ Len(<<"symbol", "taken_at">>) = 2
        /\ Len(<<"symbol", "as_of">>) = 2
    OBVIOUS
  <1>2. <<"client_order_id">>[1] # <<"order_id">>[1]
    OBVIOUS
  <1> QED BY <1>1, <1>2

-----------------------------------------------------------------------------
(* When a statement is possible, and what it leaves.                       *)
LEMMA Seen ==
    ASSUME NEW m, NEW t, NEW d, M!View(m)[t] = {d}
    PROVE  M!Exists(m, t) /\ M!DefinitionOf(m, t) = d
  BY DEF M!Exists, M!DefinitionOf

LEMMA CreatesTable ==
    ASSUME NEW m, NEW t \in Trading, M!View(m)[t] = {},
           t = "fills" => M!View(m)["orders"] = {M!Models["orders"]}
    PROVE  /\ M!CreateTable(t, With(t, {})).table = t
           /\ M!Possible(m, M!CreateTable(t, With(t, {})))
           /\ M!Result(m, M!CreateTable(t, With(t, {}))) = Holds(t, {})
  <1> DEFINE s == M!CreateTable(t, With(t, {}))
  <1>1. s.op = "create_table" /\ s.table = t /\ s.def = With(t, {})
    BY DEF M!CreateTable
  <1>2. ~M!Exists(m, t)
    BY DEF M!Exists
  <1>3. With(t, {}).references = M!Models[t].references
    BY Withs
  <1>4. M!ReferencesResolve(m, With(t, {}))
    <2>1. CASE t = "fills"
      <3>1. With(t, {}).references = {<<"order_id", "orders", "id">>}
        BY <1>3, <2>1, ModelFields
      <3>2. M!Exists(m, "orders") /\ M!DefinitionOf(m, "orders") = M!Models["orders"]
        BY <2>1, Seen
      <3> QED BY <3>1, <3>2, ModelFields DEF M!ReferencesResolve
    <2>2. CASE t # "fills"
      BY <1>3, <2>2, ModelFields DEF M!ReferencesResolve
    <2> QED BY <2>1, <2>2
  <1> HIDE DEF s
  <1>5. M!Possible(m, s)
    BY <1>1, <1>2, <1>4 DEF M!Possible
  <1>6. M!Result(m, s) = {With(t, {})}
    BY <1>1 DEF M!Result
  <1> QED BY <1>1, <1>5, <1>6 DEF s, Holds

LEMMA CreatesIndex ==
    ASSUME NEW m, NEW t \in Trading, NEW x, NEW i, M!View(m)[t] = Holds(t, x),
           i \notin x, \A k \in DOMAIN i : i[k] \in M!Models[t].columns
    PROVE  /\ M!CreateIndex(t, i).table = t
           /\ M!Possible(m, M!CreateIndex(t, i))
           /\ M!Result(m, M!CreateIndex(t, i)) = Holds(t, x \cup {i})
  <1> DEFINE s == M!CreateIndex(t, i)
  <1>1. s.op = "create_index" /\ s.table = t /\ s.index = i
    BY DEF M!CreateIndex
  <1>2. M!Exists(m, t) /\ M!DefinitionOf(m, t) = With(t, x)
    BY Seen DEF Holds
  <1>3. With(t, x).indexes = x /\ With(t, x).columns = M!Models[t].columns
        /\ M!Indexed(With(t, x), x \cup {i}) = With(t, x \cup {i})
    BY Withs
  <1> HIDE DEF s
  <1>4. M!Possible(m, s)
    BY <1>1, <1>2, <1>3 DEF M!Possible
  <1>5. M!Result(m, s) = {With(t, x \cup {i})}
    BY <1>1, <1>2, <1>3 DEF M!Result, M!Indexed
  <1> QED BY <1>1, <1>4, <1>5 DEF s, Holds

LEMMA DropsIndex ==
    ASSUME NEW m, NEW t \in Trading, NEW x, NEW i, M!View(m)[t] = Holds(t, x),
           i \in x
    PROVE  /\ M!DropIndex(t, i).table = t
           /\ M!Possible(m, M!DropIndex(t, i))
           /\ M!Result(m, M!DropIndex(t, i)) = Holds(t, x \ {i})
  <1> DEFINE s == M!DropIndex(t, i)
  <1>1. s.op = "drop_index" /\ s.table = t /\ s.index = i
    BY DEF M!DropIndex
  <1>2. M!Exists(m, t) /\ M!DefinitionOf(m, t) = With(t, x)
    BY Seen DEF Holds
  <1>3. With(t, x).indexes = x
        /\ M!Indexed(With(t, x), x \ {i}) = With(t, x \ {i})
    BY Withs
  <1> HIDE DEF s
  <1>4. M!Possible(m, s)
    BY <1>1, <1>2, <1>3 DEF M!Possible
  <1>5. M!Result(m, s) = {With(t, x \ {i})}
    BY <1>1, <1>2, <1>3 DEF M!Result, M!Indexed
  <1> QED BY <1>1, <1>4, <1>5 DEF s, Holds

(* Only fills refer to another table, to orders.                           *)
LEMMA DropsTable ==
    ASSUME NEW m, NEW t \in Trading, NEW d, M!View(m)[t] = {d},
           t = "orders" => M!View(m)["fills"] = {},
           \A u \in Trading : M!View(m)[u] = {} \/ \E x : M!View(m)[u] = Holds(u, x)
    PROVE  /\ M!DropTable(t).table = t
           /\ M!Possible(m, M!DropTable(t))
           /\ M!Result(m, M!DropTable(t)) = {}
  <1> DEFINE s == M!DropTable(t)
  <1>1. s.op = "drop_table" /\ s.table = t
    BY DEF M!DropTable
  <1>2. M!Exists(m, t)
    BY Seen
  <1>3. ASSUME NEW u \in Trading \ {t}, NEW def \in M!View(m)[u],
               NEW ref \in def.references
        PROVE  ref[2] # t
    <2>1. PICK x : def = With(u, x)
      BY <1>3 DEF Holds
    <2>2. def.references = M!Models[u].references
      BY <2>1, Withs
    <2>3. u = "fills" /\ ref = <<"order_id", "orders", "id">>
      BY <1>3, <2>2, ModelFields
    <2>4. t # "orders"
      BY <1>3, <2>3
    <2> QED BY <2>3, <2>4
  <1>4. ~M!Referenced(m, t)
    BY <1>3 DEF M!Referenced, Trading
  <1> HIDE DEF s
  <1>5. M!Possible(m, s)
    BY <1>1, <1>2, <1>4 DEF M!Possible
  <1>6. M!Result(m, s) = {}
    BY <1>1 DEF M!Result
  <1> QED BY <1>1, <1>5, <1>6 DEF s, Holds

-----------------------------------------------------------------------------
(* Each statement of upgrade adds its part, and each one of downgrade      *)
(* takes away what the last of upgrade has added.                          *)
Does(m, s, from, to) ==
    /\ s.table \in Trading
    /\ M!Possible(m, s)
    /\ M!Result(m, s) = TableAt(s.table, to)
    /\ \A t \in Trading \ {s.table} : TableAt(t, from) = TableAt(t, to)

(* The other tables are not concerned.                                     *)
Only(t, n) == \A u \in Trading \ {t} : TableAt(u, n) = TableAt(u, n - 1)

LEMMA AddsTable ==
    ASSUME NEW m, NEW n, NEW t \in Trading, M!View(m)[t] = {}, Only(t, n),
           t = "fills" => M!View(m)["orders"] = {M!Models["orders"]},
           TableAt(t, n) = Holds(t, {})
    PROVE  Does(m, M!CreateTable(t, With(t, {})), n - 1, n)
  BY CreatesTable DEF Does, Only

LEMMA AddsIndex ==
    ASSUME NEW m, NEW n, NEW t \in Trading, NEW x, NEW i,
           M!View(m)[t] = Holds(t, x), TableAt(t, n) = Holds(t, x \cup {i}),
           Only(t, n),
           i \notin x,
           \A k \in DOMAIN i : i[k] \in M!Models[t].columns
    PROVE  Does(m, M!CreateIndex(t, i), n - 1, n)
  BY CreatesIndex DEF Does, Only

LEMMA UpgradeDoes ==
    ASSUME NEW m, NEW k \in 1 .. 12,
           \A t \in Trading : M!View(m)[t] = TableAt(t, k - 1)
    PROVE  Does(m, M!Upgrade[k], k - 1, k)
  <1> USE DEF Trading, M!TradingTables
  <1>1. CASE k = 1
    <2>1. /\ M!View(m)["equity_snapshots"] = {}
          /\ TableAt("equity_snapshots", k) = Holds("equity_snapshots", {})
          /\ Only("equity_snapshots", k)
      BY <1>1 DEF Only, TableAt, CreatedAt, IndexesAfter
    <2> QED BY <1>1, <2>1, AddsTable, UpgradeStatements
  <1>2. CASE k = 2
    <2>1. /\ M!View(m)["equity_snapshots"] = Holds("equity_snapshots", {})
          /\ TableAt("equity_snapshots", k) =
               Holds("equity_snapshots", {} \cup {<<"cycle_id">>})
          /\ Only("equity_snapshots", k)
      BY <1>2 DEF Only, TableAt, CreatedAt, IndexesAfter
    <2>2. /\ <<"cycle_id">> \notin {}
          /\ \A j \in DOMAIN <<"cycle_id">> :
                 <<"cycle_id">>[j] \in M!Models["equity_snapshots"].columns
      BY IndexedColumns, DifferentKeys
    <2>3. Does(m, M!CreateIndex("equity_snapshots", <<"cycle_id">>), k - 1, k)
      BY <2>1, <2>2, AddsIndex
    <2> QED BY <1>2, <2>3, UpgradeStatements
  <1>3. CASE k = 3
    <2>1. /\ M!View(m)["equity_snapshots"] = Holds("equity_snapshots", {<<"cycle_id">>})
          /\ TableAt("equity_snapshots", k) =
               Holds("equity_snapshots", {<<"cycle_id">>} \cup {<<"symbol", "taken_at">>})
          /\ Only("equity_snapshots", k)
      BY <1>3 DEF Only, TableAt, CreatedAt, IndexesAfter
    <2>2. /\ <<"symbol", "taken_at">> \notin {<<"cycle_id">>}
          /\ \A j \in DOMAIN <<"symbol", "taken_at">> :
                 <<"symbol", "taken_at">>[j] \in M!Models["equity_snapshots"].columns
      BY IndexedColumns, DifferentKeys
    <2>3. Does(m, M!CreateIndex("equity_snapshots", <<"symbol", "taken_at">>), k - 1, k)
      BY <2>1, <2>2, AddsIndex
    <2> QED BY <1>3, <2>3, UpgradeStatements
  <1>4. CASE k = 4
    <2>1. /\ M!View(m)["orders"] = {}
          /\ TableAt("orders", k) = Holds("orders", {})
          /\ Only("orders", k)
      BY <1>4 DEF Only, TableAt, CreatedAt, IndexesAfter
    <2> QED BY <1>4, <2>1, AddsTable, UpgradeStatements
  <1>5. CASE k = 5
    <2>1. /\ M!View(m)["orders"] = Holds("orders", {})
          /\ TableAt("orders", k) =
               Holds("orders", {} \cup {<<"cycle_id">>})
          /\ Only("orders", k)
      BY <1>5 DEF Only, TableAt, CreatedAt, IndexesAfter
    <2>2. /\ <<"cycle_id">> \notin {}
          /\ \A j \in DOMAIN <<"cycle_id">> :
                 <<"cycle_id">>[j] \in M!Models["orders"].columns
      BY IndexedColumns, DifferentKeys
    <2>3. Does(m, M!CreateIndex("orders", <<"cycle_id">>), k - 1, k)
      BY <2>1, <2>2, AddsIndex
    <2> QED BY <1>5, <2>3, UpgradeStatements
  <1>6. CASE k = 6
    <2>1. /\ M!View(m)["positions"] = {}
          /\ TableAt("positions", k) = Holds("positions", {})
          /\ Only("positions", k)
      BY <1>6 DEF Only, TableAt, CreatedAt, IndexesAfter
    <2> QED BY <1>6, <2>1, AddsTable, UpgradeStatements
  <1>7. CASE k = 7
    <2>1. /\ M!View(m)["signals"] = {}
          /\ TableAt("signals", k) = Holds("signals", {})
          /\ Only("signals", k)
      BY <1>7 DEF Only, TableAt, CreatedAt, IndexesAfter
    <2> QED BY <1>7, <2>1, AddsTable, UpgradeStatements
  <1>8. CASE k = 8
    <2>1. /\ M!View(m)["signals"] = Holds("signals", {})
          /\ TableAt("signals", k) =
               Holds("signals", {} \cup {<<"cycle_id">>})
          /\ Only("signals", k)
      BY <1>8 DEF Only, TableAt, CreatedAt, IndexesAfter
    <2>2. /\ <<"cycle_id">> \notin {}
          /\ \A j \in DOMAIN <<"cycle_id">> :
                 <<"cycle_id">>[j] \in M!Models["signals"].columns
      BY IndexedColumns, DifferentKeys
    <2>3. Does(m, M!CreateIndex("signals", <<"cycle_id">>), k - 1, k)
      BY <2>1, <2>2, AddsIndex
    <2> QED BY <1>8, <2>3, UpgradeStatements
  <1>9. CASE k = 9
    <2>1. /\ M!View(m)["signals"] = Holds("signals", {<<"cycle_id">>})
          /\ TableAt("signals", k) =
               Holds("signals", {<<"cycle_id">>} \cup {<<"symbol", "as_of">>})
          /\ Only("signals", k)
      BY <1>9 DEF Only, TableAt, CreatedAt, IndexesAfter
    <2>2. /\ <<"symbol", "as_of">> \notin {<<"cycle_id">>}
          /\ \A j \in DOMAIN <<"symbol", "as_of">> :
                 <<"symbol", "as_of">>[j] \in M!Models["signals"].columns
      BY IndexedColumns, DifferentKeys
    <2>3. Does(m, M!CreateIndex("signals", <<"symbol", "as_of">>), k - 1, k)
      BY <2>1, <2>2, AddsIndex
    <2> QED BY <1>9, <2>3, UpgradeStatements
  <1>10. CASE k = 10
    <2>1. /\ M!View(m)["fills"] = {} /\ TableAt("fills", k) = Holds("fills", {})
          /\ Only("fills", k)
      BY <1>10 DEF Only, TableAt, CreatedAt, IndexesAfter
    <2>2. M!View(m)["orders"] = {M!Models["orders"]}
      <3>1. M!View(m)["orders"] = Holds("orders", IndexesAfter("orders", 12))
        BY <1>10 DEF TableAt, CreatedAt, IndexesAfter
      <3> QED BY <3>1, Withs DEF Holds
    <2> QED BY <1>10, <2>1, <2>2, AddsTable, UpgradeStatements
  <1>11. CASE k = 11
    <2>1. /\ M!View(m)["fills"] = Holds("fills", {})
          /\ TableAt("fills", k) =
               Holds("fills", {} \cup {<<"client_order_id">>})
          /\ Only("fills", k)
      BY <1>11 DEF Only, TableAt, CreatedAt, IndexesAfter
    <2>2. /\ <<"client_order_id">> \notin {}
          /\ \A j \in DOMAIN <<"client_order_id">> :
                 <<"client_order_id">>[j] \in M!Models["fills"].columns
      BY IndexedColumns, DifferentKeys
    <2>3. Does(m, M!CreateIndex("fills", <<"client_order_id">>), k - 1, k)
      BY <2>1, <2>2, AddsIndex
    <2> QED BY <1>11, <2>3, UpgradeStatements
  <1>12. CASE k = 12
    <2>1. /\ M!View(m)["fills"] = Holds("fills", {<<"client_order_id">>})
          /\ TableAt("fills", k) =
               Holds("fills", {<<"client_order_id">>} \cup {<<"order_id">>})
          /\ Only("fills", k)
      BY <1>12 DEF Only, TableAt, CreatedAt, IndexesAfter
    <2>2. /\ <<"order_id">> \notin {<<"client_order_id">>}
          /\ \A j \in DOMAIN <<"order_id">> :
                 <<"order_id">>[j] \in M!Models["fills"].columns
      BY IndexedColumns, DifferentKeys
    <2>3. Does(m, M!CreateIndex("fills", <<"order_id">>), k - 1, k)
      BY <2>1, <2>2, AddsIndex
    <2> QED BY <1>12, <2>3, UpgradeStatements
  <1> QED BY <1>1, <1>2, <1>3, <1>4, <1>5, <1>6, <1>7, <1>8, <1>9, <1>10, <1>11, <1>12

LEMMA RemovesIndex ==
    ASSUME NEW m, NEW n, NEW t \in Trading, NEW x, NEW i,
           M!View(m)[t] = Holds(t, x), TableAt(t, n - 1) = Holds(t, x \ {i}),
           Only(t, n), i \in x
    PROVE  Does(m, M!DropIndex(t, i), n, n - 1)
  BY DropsIndex DEF Does, Only

LEMMA RemovesTable ==
    ASSUME NEW m, NEW n, NEW t \in Trading, NEW x,
           M!View(m)[t] = Holds(t, x), TableAt(t, n - 1) = {}, Only(t, n),
           t = "orders" => M!View(m)["fills"] = {},
           \A u \in Trading : M!View(m)[u] = TableAt(u, n)
    PROVE  Does(m, M!DropTable(t), n, n - 1)
  <1>1. \A u \in Trading : M!View(m)[u] = {} \/ \E y : M!View(m)[u] = Holds(u, y)
    BY DEF TableAt
  <1>2. PICK d : M!View(m)[t] = {d}
    BY DEF Holds
  <1>3. /\ M!DropTable(t).table = t
        /\ M!Possible(m, M!DropTable(t))
        /\ M!Result(m, M!DropTable(t)) = {}
    BY <1>1, <1>2, DropsTable
  <1> QED BY <1>3 DEF Does, Only

LEMMA DowngradeDoes ==
    ASSUME NEW m, NEW k \in 1 .. 12,
           \A t \in Trading : M!View(m)[t] = TableAt(t, 13 - k)
    PROVE  Does(m, M!Downgrade[k], 13 - k, 12 - k)
  <1> USE DEF Trading, M!TradingTables
  <1>1. CASE k = 1
    <2>1. {<<"order_id">>, <<"client_order_id">>} \ {<<"order_id">>}
            = {<<"client_order_id">>}
      BY DifferentKeys
    <2>2. /\ M!View(m)["fills"] = Holds("fills", {<<"order_id">>, <<"client_order_id">>})
          /\ TableAt("fills", 12 - 1) = Holds("fills", {<<"client_order_id">>})
          /\ Only("fills", 12)
      BY <1>1 DEF Only, TableAt, CreatedAt, IndexesAfter
    <2>3. Does(m, M!DropIndex("fills", <<"order_id">>), 12, 12 - 1)
      BY <2>1, <2>2, RemovesIndex
    <2> QED BY <1>1, <2>3, DowngradeStatements
  <1>2. CASE k = 2
    <2>1. {<<"client_order_id">>} \ {<<"client_order_id">>} = {}
      BY DifferentKeys
    <2>2. /\ M!View(m)["fills"] = Holds("fills", {<<"client_order_id">>})
          /\ TableAt("fills", 11 - 1) = Holds("fills", {}) /\ Only("fills", 11)
      BY <1>2 DEF Only, TableAt, CreatedAt, IndexesAfter
    <2>3. Does(m, M!DropIndex("fills", <<"client_order_id">>), 11, 11 - 1)
      BY <2>1, <2>2, RemovesIndex
    <2> QED BY <1>2, <2>3, DowngradeStatements
  <1>3. CASE k = 3
    <2>1. /\ M!View(m)["fills"] = Holds("fills", {})
          /\ TableAt("fills", 10 - 1) = {} /\ Only("fills", 10)
          /\ \A u \in Trading : M!View(m)[u] = TableAt(u, 10)
      BY <1>3 DEF Only, TableAt, CreatedAt, IndexesAfter
    <2>2. Does(m, M!DropTable("fills"), 10, 10 - 1)
      BY <2>1, RemovesTable
    <2> QED BY <1>3, <2>2, DowngradeStatements
  <1>4. CASE k = 4
    <2>1. {<<"cycle_id">>, <<"symbol", "as_of">>} \ {<<"symbol", "as_of">>}
            = {<<"cycle_id">>}
      BY DifferentKeys
    <2>2. /\ M!View(m)["signals"] = Holds("signals", {<<"cycle_id">>, <<"symbol", "as_of">>})
          /\ TableAt("signals", 9 - 1) = Holds("signals", {<<"cycle_id">>})
          /\ Only("signals", 9)
      BY <1>4 DEF Only, TableAt, CreatedAt, IndexesAfter
    <2>3. Does(m, M!DropIndex("signals", <<"symbol", "as_of">>), 9, 9 - 1)
      BY <2>1, <2>2, RemovesIndex
    <2> QED BY <1>4, <2>3, DowngradeStatements
  <1>5. CASE k = 5
    <2>1. {<<"cycle_id">>} \ {<<"cycle_id">>} = {}
      BY DifferentKeys
    <2>2. /\ M!View(m)["signals"] = Holds("signals", {<<"cycle_id">>})
          /\ TableAt("signals", 8 - 1) = Holds("signals", {}) /\ Only("signals", 8)
      BY <1>5 DEF Only, TableAt, CreatedAt, IndexesAfter
    <2>3. Does(m, M!DropIndex("signals", <<"cycle_id">>), 8, 8 - 1)
      BY <2>1, <2>2, RemovesIndex
    <2> QED BY <1>5, <2>3, DowngradeStatements
  <1>6. CASE k = 6
    <2>1. /\ M!View(m)["signals"] = Holds("signals", {})
          /\ TableAt("signals", 7 - 1) = {} /\ Only("signals", 7)
          /\ \A u \in Trading : M!View(m)[u] = TableAt(u, 7)
      BY <1>6 DEF Only, TableAt, CreatedAt, IndexesAfter
    <2>2. Does(m, M!DropTable("signals"), 7, 7 - 1)
      BY <2>1, RemovesTable
    <2> QED BY <1>6, <2>2, DowngradeStatements
  <1>7. CASE k = 7
    <2>1. /\ M!View(m)["positions"] = Holds("positions", {})
          /\ TableAt("positions", 6 - 1) = {} /\ Only("positions", 6)
          /\ \A u \in Trading : M!View(m)[u] = TableAt(u, 6)
      BY <1>7 DEF Only, TableAt, CreatedAt, IndexesAfter
    <2>2. Does(m, M!DropTable("positions"), 6, 6 - 1)
      BY <2>1, RemovesTable
    <2> QED BY <1>7, <2>2, DowngradeStatements
  <1>8. CASE k = 8
    <2>1. {<<"cycle_id">>} \ {<<"cycle_id">>} = {}
      BY DifferentKeys
    <2>2. /\ M!View(m)["orders"] = Holds("orders", {<<"cycle_id">>})
          /\ TableAt("orders", 5 - 1) = Holds("orders", {}) /\ Only("orders", 5)
      BY <1>8 DEF Only, TableAt, CreatedAt, IndexesAfter
    <2>3. Does(m, M!DropIndex("orders", <<"cycle_id">>), 5, 5 - 1)
      BY <2>1, <2>2, RemovesIndex
    <2> QED BY <1>8, <2>3, DowngradeStatements
  <1>9. CASE k = 9
    <2>1. /\ M!View(m)["orders"] = Holds("orders", {})
          /\ TableAt("orders", 4 - 1) = {}
          /\ Only("orders", 4)
          /\ M!View(m)["fills"] = {}
          /\ \A u \in Trading : M!View(m)[u] = TableAt(u, 4)
      BY <1>9 DEF Only, TableAt, CreatedAt, IndexesAfter
    <2>2. Does(m, M!DropTable("orders"), 4, 4 - 1)
      BY <2>1, RemovesTable
    <2> QED BY <1>9, <2>2, DowngradeStatements
  <1>10. CASE k = 10
    <2>1. {<<"cycle_id">>, <<"symbol", "taken_at">>} \ {<<"symbol", "taken_at">>}
            = {<<"cycle_id">>}
      BY DifferentKeys
    <2>2. /\ M!View(m)["equity_snapshots"] =
               Holds("equity_snapshots", {<<"cycle_id">>, <<"symbol", "taken_at">>})
          /\ TableAt("equity_snapshots", 3 - 1) = Holds("equity_snapshots", {<<"cycle_id">>})
          /\ Only("equity_snapshots", 3)
      BY <1>10 DEF Only, TableAt, CreatedAt, IndexesAfter
    <2>3. Does(m, M!DropIndex("equity_snapshots", <<"symbol", "taken_at">>), 3, 3 - 1)
      BY <2>1, <2>2, RemovesIndex
    <2> QED BY <1>10, <2>3, DowngradeStatements
  <1>11. CASE k = 11
    <2>1. {<<"cycle_id">>} \ {<<"cycle_id">>} = {}
      BY DifferentKeys
    <2>2. /\ M!View(m)["equity_snapshots"] = Holds("equity_snapshots", {<<"cycle_id">>})
          /\ TableAt("equity_snapshots", 2 - 1) = Holds("equity_snapshots", {})
          /\ Only("equity_snapshots", 2)
      BY <1>11 DEF Only, TableAt, CreatedAt, IndexesAfter
    <2>3. Does(m, M!DropIndex("equity_snapshots", <<"cycle_id">>), 2, 2 - 1)
      BY <2>1, <2>2, RemovesIndex
    <2> QED BY <1>11, <2>3, DowngradeStatements
  <1>12. CASE k = 12
    <2>1. /\ M!View(m)["equity_snapshots"] = Holds("equity_snapshots", {})
          /\ TableAt("equity_snapshots", 1 - 1) = {} /\ Only("equity_snapshots", 1)
          /\ \A u \in Trading : M!View(m)[u] = TableAt(u, 1)
      BY <1>12 DEF Only, TableAt, CreatedAt, IndexesAfter
    <2>2. Does(m, M!DropTable("equity_snapshots"), 1, 1 - 1)
      BY <2>1, RemovesTable
    <2> QED BY <1>12, <2>2, DowngradeStatements
  <1> QED BY <1>1, <1>2, <1>3, <1>4, <1>5, <1>6, <1>7, <1>8, <1>9, <1>10, <1>11, <1>12

-----------------------------------------------------------------------------
(* The invariant of the migrations.  m is under way once the first         *)
(* statement of its script has run: it holds a table then that every other *)
(* script begins or ends with, so no two are under way.                    *)
Tables == Trading \cup {Version}
Plans == {"nothing", "upgrade", "downgrade"}

Typed ==
    /\ command \in [Migrators -> {"none", "upgrade", "downgrade"}]
    /\ plan \in [Migrators -> Plans]
    /\ at \in [Migrators -> 1 .. 14]
    /\ state \in [Migrators -> {"idle", "connected", "running", "ok", "failed"}]
    /\ disturbed \in [Migrators -> BOOLEAN]

MigrationType ==
    /\ DOMAIN tables = Tables /\ tables = [t \in Tables |-> tables[t]]
    /\ DOMAIN own = Migrators
    /\ \A m \in Migrators : M!Touched(m) \subseteq Tables
    /\ Typed

Planned(m) == state[m] = "running" /\ plan[m] # "nothing"
UnderWay(m) == Planned(m) /\ at[m] > 1

(* A lock for every changed table, and only in an open transaction.        *)
Locks ==
    /\ \A m \in Migrators : state[m] # "running" => M!Touched(m) = {}
    /\ \A m, o \in Migrators : m # o => M!Touched(m) \cap M!Touched(o) = {}

AsPlanned(m) == tables[Version] = {M!AtHead} <=> plan[m] = "downgrade"

(* What m has done before the first statement of its script.               *)
NotUnderWay(m) ==
    /\ state[m] = "running" /\ plan[m] = "nothing" =>
         at[m] = 1 /\ M!Touched(m) = {}
    /\ Planned(m) /\ at[m] = 1 =>
         M!Touched(m) \subseteq {Version} /\ (~disturbed[m] => AsPlanned(m))

(* The statements of upgrade that the schema m sees has had.               *)
Stage(m) == IF plan[m] = "upgrade" THEN at[m] - 1 ELSE 13 - at[m]
InStage(m) == \A t \in Trading : M!View(m)[t] = TableAt(t, Stage(m))

Held(p) == IF p = "upgrade" THEN "equity_snapshots" ELSE "fills"
Stamped(p) == IF p = "upgrade" THEN M!AtHead ELSE M!AtBase

Progress(m) ==
    UnderWay(m) =>
        /\ InStage(m)
        /\ Held(plan[m]) \in M!Touched(m)
        /\ AsPlanned(m)
        /\ at[m] = 14 => M!View(m)[Version] = {Stamped(plan[m])}

MigrationInv ==
    /\ MigrationType
    /\ Locks
    /\ \A m \in Migrators : NotUnderWay(m) /\ Progress(m)
    /\ VersionTellsTheSchema

-----------------------------------------------------------------------------
LEMMA Scripts ==
    /\ M!Script("upgrade") = M!Upgrade /\ M!Script("downgrade") = M!Downgrade
    /\ M!Script("nothing") = <<>>
    /\ Len(M!Script("upgrade")) = 13 /\ Len(M!Script("downgrade")) = 13
    /\ Len(M!Script("nothing")) = 0
    /\ M!Script("upgrade")[13] = M!Stamp(M!AtHead)
    /\ M!Script("downgrade")[13] = M!Stamp(M!AtBase)
  <1>1. /\ M!Script("upgrade") = M!Upgrade /\ M!Script("downgrade") = M!Downgrade
        /\ M!Script("nothing") = <<>>
    BY DEF M!Script
  <1> QED BY <1>1, UpgradeStatements, DowngradeStatements

LEMMA Ends ==
    ASSUME NEW t \in Trading
    PROVE  /\ TableAt(t, 0) = {} /\ TableAt(t, 0 - 1) = {}
           /\ TableAt(t, 12) = {M!Models[t]} /\ TableAt(t, 13) = {M!Models[t]}
  <1>1. CreatedAt(t) \in 1 .. 12
    BY DEF CreatedAt
  <1>2. IndexesAfter(t, 13) = IndexesAfter(t, 12)
    BY DEF IndexesAfter
  <1>3. Holds(t, IndexesAfter(t, 12)) = {M!Models[t]}
    BY Withs DEF Holds
  <1> QED BY <1>1, <1>2, <1>3 DEF TableAt

LEMMA Versions ==
    /\ M!AtHead # M!AtBase
    /\ Version \notin Trading
  BY DEF M!AtHead, M!AtBase, Version, M!VersionTable, Trading, M!TradingTables

LEMMA Views ==
    ASSUME NEW m, NEW t \in DOMAIN tables
    PROVE  M!View(m)[t] = IF t \in M!Touched(m) THEN own[m][t] ELSE tables[t]
  BY DEF M!View

(* What a write changes of the views.                                      *)
LEMMA Writes ==
    ASSUME MigrationType, NEW m \in Migrators, NEW t \in Tables, NEW defs,
           M!Write(m, t, defs), tables' = tables
    PROVE  /\ DOMAIN own' = Migrators
           /\ M!Touched(m)' = M!Touched(m) \cup {t}
           /\ M!View(m)'[t] = defs
           /\ \A u \in Tables \ {t} : M!View(m)'[u] = M!View(m)[u]
           /\ \A o \in Migrators \ {m} : own'[o] = own[o]
  <1>1. DOMAIN own' = Migrators /\ \A o \in Migrators \ {m} : own'[o] = own[o]
    BY DEF M!Write, MigrationType
  <1>2. own'[m] = [u \in M!Touched(m) \cup {t} |-> IF u = t THEN defs ELSE own[m][u]]
    BY DEF M!Write, MigrationType
  <1>3. M!Touched(m)' = M!Touched(m) \cup {t}
    BY <1>2 DEF M!Touched
  <1>4. \A u \in Tables : M!View(m)'[u] =
            IF u \in M!Touched(m)' THEN own'[m][u] ELSE tables'[u]
    BY DEF M!View, MigrationType
  <1>5. \A u \in Tables : M!View(m)[u] =
            IF u \in M!Touched(m) THEN own[m][u] ELSE tables[u]
    BY DEF M!View, MigrationType
  <1> QED BY <1>1, <1>2, <1>3, <1>4, <1>5

(* A migrator beside the step keeps what it had.                           *)
LEMMA Rests ==
    ASSUME MigrationType, NEW m \in Migrators, NotUnderWay(m), Progress(m),
           tables' = tables, own'[m] = own[m], plan'[m] = plan[m],
           at'[m] = at[m], state'[m] = state[m],
           disturbed[m] => disturbed'[m]
    PROVE  /\ NotUnderWay(m)' /\ Progress(m)'
           /\ M!Touched(m)' = M!Touched(m)
  <1>1. M!Touched(m)' = M!Touched(m)
    BY DEF M!Touched
  <1>2. M!View(m)' = M!View(m)
    BY <1>1 DEF M!View
  <1>3. NotUnderWay(m)'
    BY <1>1 DEF NotUnderWay, Planned, AsPlanned
  <1>4. InStage(m) => InStage(m)'
    BY <1>2 DEF InStage, Stage
  <1>5. Progress(m)'
    BY <1>1, <1>2, <1>4 DEF Progress, UnderWay, Planned, AsPlanned
  <1> QED BY <1>1, <1>3, <1>5

(* At most one migration is under way.                                     *)
LEMMA OnlyOneUnderWay ==
    ASSUME MigrationInv, NEW m \in Migrators, NEW o \in Migrators,
           UnderWay(m), UnderWay(o)
    PROVE  m = o
  <1>1. Held(plan[m]) \in M!Touched(m) /\ Held(plan[o]) \in M!Touched(o)
    BY DEF MigrationInv, Progress
  <1>2. plan[m] = plan[o]
    BY DEF MigrationInv, MigrationType, Typed, Progress, AsPlanned, UnderWay, Planned,
       Plans
  <1> QED BY <1>1, <1>2 DEF MigrationInv, Locks

(* Before its first statement, m sees the committed trading tables.        *)
LEMMA SeesTheCommitted ==
    ASSUME MigrationInv, NEW m \in Migrators, Planned(m), at[m] = 1,
           NEW t \in Trading
    PROVE  M!View(m)[t] = tables[t]
  <1>1. t \notin M!Touched(m) /\ t \in DOMAIN tables
    BY Versions DEF MigrationInv, NotUnderWay, MigrationType, Tables
  <1> QED BY <1>1, Views

LEMMA StartsInStage ==
    ASSUME MigrationInv, NEW m \in Migrators, Planned(m), at[m] = 1, AsPlanned(m)
    PROVE  InStage(m)
  <1>1. plan[m] \in {"upgrade", "downgrade"}
    BY DEF MigrationInv, MigrationType, Typed, Planned, Plans
  <1>2. Stage(m) = IF plan[m] = "upgrade" THEN 0 ELSE 12
    BY DEF Stage
  <1>3. ASSUME NEW t \in Trading PROVE tables[t] = TableAt(t, Stage(m))
    <2>1. tables[t] = IF plan[m] = "downgrade" THEN {M!Models[t]} ELSE {}
      BY DEF MigrationInv, VersionTellsTheSchema, M!VersionTellsTheSchema,
         AsPlanned, Trading, Version
    <2> QED BY <1>1, <1>2, <2>1, Ends
  <1> QED BY <1>3, SeesTheCommitted DEF InStage

(* The first statement of a script is only possible on the schema it was   *)
(* planned for.                                                            *)
LEMMA FirstNeeds ==
    ASSUME MigrationInv, NEW m \in Migrators, Planned(m), at[m] = 1,
           M!Possible(m, M!Script(plan[m])[1])
    PROVE  AsPlanned(m)
  <1>1. CASE plan[m] = "upgrade"
    <2> DEFINE s == M!Script(plan[m])[1]
    <2>1. s.op = "create_table" /\ s.table = "equity_snapshots"
      BY <1>1, Scripts, UpgradeStatements DEF M!CreateTable
    <2>2. M!View(m)["equity_snapshots"] = {}
      <3> HIDE DEF s
      <3>1. M!Possible(m, s)
        BY DEF s
      <3> QED BY <2>1, <3>1 DEF M!Possible, M!Exists
    <2>3. tables["equity_snapshots"] = {}
      BY <2>2, SeesTheCommitted DEF Trading, M!TradingTables
    <2> QED BY <1>1, <2>3 DEF MigrationInv, VersionTellsTheSchema,
               M!VersionTellsTheSchema, AsPlanned, Version, M!TradingTables
  <1>2. CASE plan[m] = "downgrade"
    <2> DEFINE s == M!Script(plan[m])[1]
    <2>1. s.op = "drop_index" /\ s.table = "fills"
      BY <1>2, Scripts, DowngradeStatements DEF M!DropIndex
    <2>2. M!View(m)["fills"] # {}
      <3> HIDE DEF s
      <3>1. M!Possible(m, s)
        BY DEF s
      <3> QED BY <2>1, <3>1 DEF M!Possible, M!Exists
    <2>3. tables["fills"] # {}
      BY <2>2, SeesTheCommitted DEF Trading, M!TradingTables
    <2> QED BY <1>2, <2>3 DEF MigrationInv, VersionTellsTheSchema,
               M!VersionTellsTheSchema, AsPlanned, Version, M!TradingTables
  <1> QED BY <1>1, <1>2 DEF MigrationInv, MigrationType, Typed, Planned, Plans

(* What the statement m is about to execute does.                          *)
LEMMA ScriptDoes ==
    ASSUME MigrationInv, NEW m \in Migrators, Planned(m), InStage(m), at[m] <= 12
    PROVE  Does(m, M!Script(plan[m])[at[m]], Stage(m),
                IF plan[m] = "upgrade" THEN at[m] ELSE 12 - at[m])
  <1>1. at[m] \in 1 .. 12 /\ plan[m] \in {"upgrade", "downgrade"}
    BY DEF MigrationInv, MigrationType, Typed, Planned, Plans
  <1>2. CASE plan[m] = "upgrade"
    <2>1. Stage(m) = at[m] - 1 /\ \A t \in Trading : M!View(m)[t] = TableAt(t, at[m] - 1)
      BY <1>2 DEF InStage, Stage
    <2>2. Does(m, M!Upgrade[at[m]], at[m] - 1, at[m])
      BY <1>1, <2>1, UpgradeDoes
    <2> QED BY <1>2, <2>1, <2>2, Scripts
  <1>3. CASE plan[m] = "downgrade"
    <2>1. Stage(m) = 13 - at[m] /\ \A t \in Trading : M!View(m)[t] = TableAt(t, 13 - at[m])
      BY <1>3 DEF InStage, Stage
    <2>2. Does(m, M!Downgrade[at[m]], 13 - at[m], 12 - at[m])
      BY <1>1, <2>1, DowngradeDoes
    <2> QED BY <1>3, <2>1, <2>2, Scripts
  <1> QED BY <1>1, <1>2, <1>3

LEMMA ExecutingIsPlanned ==
    ASSUME MigrationInv, NEW m \in Migrators, M!Executing(m)
    PROVE  /\ Planned(m) /\ at[m] \in 1 .. 13
           /\ plan[m] \in {"upgrade", "downgrade"}
  <1>1. /\ state[m] = "running" /\ at[m] <= Len(M!Script(plan[m]))
        /\ at[m] \in 1 .. 14 /\ plan[m] \in Plans
        /\ plan[m] = "nothing" => at[m] = 1
    BY DEF MigrationInv, MigrationType, Typed, NotUnderWay, M!Executing
  <1>2. plan[m] \in {"upgrade", "downgrade"}
    BY <1>1, Scripts DEF Plans
  <1>3. Len(M!Script(plan[m])) = 13
    BY <1>2, Scripts
  <1> QED BY <1>1, <1>2, <1>3 DEF Planned

(* A statement fails only after another commit.                            *)
LEMMA AloneItSucceeds ==
    ASSUME MigrationInv, NEW m \in Migrators, M!Executing(m), ~disturbed[m]
    PROVE  M!Possible(m, M!Script(plan[m])[at[m]])
  <1>1. /\ Planned(m) /\ at[m] \in 1 .. 13
        /\ plan[m] \in {"upgrade", "downgrade"}
    BY ExecutingIsPlanned
  <1>2. CASE at[m] = 13
    <2> DEFINE s == M!Script(plan[m])[at[m]]
    <2>1. s.op = "stamp" /\ s.table = Version
      BY <1>1, <1>2, Scripts DEF M!Stamp, Version
    <2>2. M!Exists(m, Version)
      BY DEF M!Executing, Version
    <2> HIDE DEF s
    <2>3. M!Possible(m, s)
      BY <2>1, <2>2 DEF M!Possible
    <2> QED BY <2>3 DEF s
  <1>3. CASE at[m] # 13
    <2>1. InStage(m)
      <3>1. CASE at[m] = 1
        BY <1>1, <3>1, StartsInStage DEF MigrationInv, NotUnderWay
      <3>2. CASE at[m] # 1
        BY <1>1, <3>2 DEF MigrationInv, Progress, UnderWay
      <3> QED BY <3>1, <3>2
    <2> QED BY <1>1, <1>3, <2>1, ScriptDoes DEF Does
  <1> QED BY <1>2, <1>3

-----------------------------------------------------------------------------
(* Each action of m keeps the invariant: the others rest.                  *)
Beside(m) ==
    \A o \in Migrators \ {m} :
        /\ own'[o] = own[o] /\ plan'[o] = plan[o] /\ at'[o] = at[o]
        /\ state'[o] = state[o] /\ disturbed'[o] = disturbed[o]

LEMMA StepOf ==
    ASSUME MigrationInv, NEW m \in Migrators, tables' = tables, Beside(m),
           DOMAIN own' = Migrators, Typed', M!Touched(m)' \subseteq Tables,
           state'[m] # "running" => M!Touched(m)' = {},
           \A o \in Migrators \ {m} : M!Touched(m)' \cap M!Touched(o) = {},
           NotUnderWay(m)', Progress(m)'
    PROVE  MigrationInv'
  <1>1. \A o \in Migrators \ {m} :
           NotUnderWay(o)' /\ Progress(o)' /\ M!Touched(o)' = M!Touched(o)
    BY Rests DEF MigrationInv, Beside
  <1>2. MigrationType'
    BY <1>1 DEF MigrationInv, MigrationType
  <1>3. Locks'
    BY <1>1 DEF MigrationInv, Locks, Beside
  <1>4. VersionTellsTheSchema'
    BY DEF MigrationInv, VersionTellsTheSchema, M!VersionTellsTheSchema
  <1> QED BY <1>1, <1>2, <1>3, <1>4 DEF MigrationInv

LEMMA StartKeeps ==
    ASSUME MigrationInv, NEW m \in Migrators, M!Start(m)
    PROVE  MigrationInv'
  <1>1. /\ tables' = tables /\ own' = own /\ at' = at /\ disturbed' = disturbed
        /\ plan' = [plan EXCEPT ![m] = "nothing"]
        /\ \E c \in {"upgrade", "downgrade"}, outcome \in {"connected", "failed"} :
              /\ command' = [command EXCEPT ![m] = c]
              /\ state' = [state EXCEPT ![m] = outcome]
    BY DEF M!Start
  <1>2. Typed' /\ Beside(m) /\ state'[m] # "running"
    BY <1>1 DEF MigrationInv, MigrationType, Typed, Beside, Plans
  <1>3. M!Touched(m)' = M!Touched(m) /\ M!Touched(m) = {}
    BY <1>1 DEF M!Touched, M!Start, MigrationInv, Locks
  <1>4. NotUnderWay(m)' /\ Progress(m)'
    BY <1>2 DEF NotUnderWay, Progress, UnderWay, Planned
  <1> QED BY <1>1, <1>2, <1>3, <1>4, StepOf DEF MigrationInv, MigrationType

LEMMA ReadVersionKeeps ==
    ASSUME MigrationInv, NEW m \in Migrators, M!ReadVersion(m)
    PROVE  MigrationInv'
  <1>1. /\ tables' = tables /\ own' = own /\ command' = command
        /\ state' = [state EXCEPT ![m] = "running"]
        /\ at' = [at EXCEPT ![m] = 1]
        /\ disturbed' = [disturbed EXCEPT ![m] = FALSE]
    BY DEF M!ReadVersion
  <1>2. PICK p \in Plans : /\ plan' = [plan EXCEPT ![m] = p]
                           /\ p # "nothing" => (tables[Version] = {M!AtHead}
                                                <=> p = "downgrade")
    BY DEF M!ReadVersion, Plans, Version
  <1>3. Typed' /\ Beside(m) /\ plan'[m] = p /\ at'[m] = 1
    BY <1>1, <1>2 DEF MigrationInv, MigrationType, Typed, Beside
  <1>4. M!Touched(m)' = M!Touched(m) /\ M!Touched(m) = {}
    BY <1>1 DEF M!Touched, M!ReadVersion, MigrationInv, Locks
  <1>5. NotUnderWay(m)' /\ Progress(m)'
    BY <1>1, <1>2, <1>3, <1>4
    DEF NotUnderWay, Progress, UnderWay, Planned, AsPlanned
  <1> QED BY <1>1, <1>3, <1>4, <1>5, StepOf DEF MigrationInv, MigrationType

LEMMA RollBackKeeps ==
    ASSUME MigrationInv, NEW m \in Migrators, M!RollBack(m)
    PROVE  MigrationInv'
  <1>1. /\ tables' = tables /\ command' = command /\ plan' = plan
        /\ at' = at /\ disturbed' = disturbed
        /\ own' = [own EXCEPT ![m] = <<>>]
        /\ state' = [state EXCEPT ![m] = "failed"]
    BY DEF M!RollBack
  <1>2. Typed' /\ Beside(m) /\ state'[m] # "running" /\ DOMAIN own' = Migrators
        /\ own'[m] = <<>>
    BY <1>1 DEF MigrationInv, MigrationType, Typed, Beside
  <1>3. M!Touched(m)' = {}
    BY <1>2 DEF M!Touched
  <1>4. NotUnderWay(m)' /\ Progress(m)'
    BY <1>2 DEF NotUnderWay, Progress, UnderWay, Planned
  <1> QED BY <1>1, <1>2, <1>3, <1>4, StepOf

LEMMA EnsureVersionTableKeeps ==
    ASSUME MigrationInv, NEW m \in Migrators, M!EnsureVersionTable(m)
    PROVE  MigrationInv'
  <1>1. /\ tables' = tables /\ command' = command /\ plan' = plan /\ at' = at
        /\ state' = state /\ disturbed' = disturbed
        /\ M!Write(m, Version, {M!AtBase})
        /\ Planned(m) /\ M!View(m)[Version] = {} /\ ~M!MustWait(m, Version)
    BY DEF M!EnsureVersionTable, Planned, Version, M!Exists
  <1>2. /\ DOMAIN own' = Migrators
        /\ M!Touched(m)' = M!Touched(m) \cup {Version}
        /\ \A u \in Trading : M!View(m)'[u] = M!View(m)[u]
        /\ \A o \in Migrators \ {m} : own'[o] = own[o]
    BY <1>1, Writes, Versions DEF MigrationInv, Tables
  <1>3. Typed' /\ Beside(m) /\ M!Touched(m)' \subseteq Tables
    BY <1>1, <1>2 DEF MigrationInv, MigrationType, Typed, Beside, Tables
  <1>4. \A o \in Migrators \ {m} : M!Touched(m)' \cap M!Touched(o) = {}
    BY <1>1, <1>2 DEF MigrationInv, Locks, M!MustWait
  <1>5. NotUnderWay(m)'
    BY <1>1, <1>2 DEF MigrationInv, NotUnderWay, Planned, AsPlanned
  <1>6. InStage(m) => InStage(m)'
    BY <1>1, <1>2 DEF InStage, Stage
  <1>7. Progress(m)'
    BY <1>1, <1>2, <1>6 DEF MigrationInv, Progress, UnderWay, Planned, AsPlanned
  <1> QED BY <1>1, <1>2, <1>3, <1>4, <1>5, <1>7, StepOf DEF Planned

LEMMA ExecuteKeeps ==
    ASSUME MigrationInv, NEW m \in Migrators, M!Execute(m)
    PROVE  MigrationInv'
  <1> DEFINE s == M!Script(plan[m])[at[m]]
  <1>1. /\ tables' = tables /\ command' = command /\ plan' = plan
        /\ at' = [at EXCEPT ![m] = @ + 1] /\ state' = state
        /\ disturbed' = disturbed /\ M!Possible(m, s)
        /\ M!Write(m, s.table, M!Result(m, s)) /\ ~M!MustWait(m, s.table)
    BY DEF M!Execute
  <1>2. /\ Planned(m) /\ at[m] \in 1 .. 13
        /\ plan[m] \in {"upgrade", "downgrade"}
    BY ExecutingIsPlanned DEF M!Execute
  <1>3. AsPlanned(m) /\ InStage(m)
    <2>1. CASE at[m] = 1
      BY <1>1, <1>2, <2>1, FirstNeeds, StartsInStage
    <2>2. CASE at[m] # 1
      BY <1>2, <2>2 DEF MigrationInv, Progress, UnderWay
    <2> QED BY <2>1, <2>2
  <1>4. at'[m] = at[m] + 1 /\ Typed'
    BY <1>1, <1>2 DEF MigrationInv, MigrationType, Typed
  <1>5. /\ s.table \in Tables
        /\ at[m] = 13 => s.table = Version
                         /\ M!Result(m, s) = {Stamped(plan[m])}
        /\ at[m] # 13 => Does(m, s, Stage(m), Stage(m)')
    <2>1. CASE at[m] = 13
      <3>1. s = M!Stamp(Stamped(plan[m]))
        BY <1>2, <2>1, Scripts DEF Stamped
      <3>2. s.op = "stamp" /\ s.table = Version /\ s.version = Stamped(plan[m])
        BY <3>1 DEF M!Stamp, Version
      <3> HIDE DEF s
      <3>3. M!Result(m, s) = {Stamped(plan[m])}
        BY <3>2 DEF M!Result
      <3> QED BY <2>1, <3>2, <3>3 DEF Tables
    <2>2. CASE at[m] # 13
      <3>1. Stage(m)' = IF plan[m] = "upgrade" THEN at[m] ELSE 12 - at[m]
        BY <1>1, <1>2, <1>4 DEF Stage
      <3>2. Does(m, s, Stage(m), Stage(m)')
        BY <1>2, <1>3, <2>2, <3>1, ScriptDoes
      <3> QED BY <2>2, <3>2 DEF Does, Tables
    <2> QED BY <2>1, <2>2
  <1>6. at[m] = 1 => s.table = Held(plan[m])
    BY <1>2, Scripts, UpgradeStatements, DowngradeStatements
    DEF Held, M!CreateTable, M!DropIndex
  <1> HIDE DEF s
  <1>7. /\ DOMAIN own' = Migrators
        /\ M!Touched(m)' = M!Touched(m) \cup {s.table}
        /\ M!View(m)'[s.table] = M!Result(m, s)
        /\ \A u \in Tables \ {s.table} : M!View(m)'[u] = M!View(m)[u]
        /\ \A o \in Migrators \ {m} : own'[o] = own[o]
    BY <1>1, <1>5, Writes DEF MigrationInv
  <1>8. Beside(m) /\ M!Touched(m)' \subseteq Tables
    BY <1>1, <1>5, <1>7 DEF MigrationInv, MigrationType, Typed, Beside
  <1>9. \A o \in Migrators \ {m} : M!Touched(m)' \cap M!Touched(o) = {}
    BY <1>1, <1>7 DEF MigrationInv, Locks, M!MustWait
  <1>10. NotUnderWay(m)'
    BY <1>1, <1>2, <1>4 DEF NotUnderWay, Planned
  <1>11. InStage(m)'
    <2>1. ASSUME NEW t \in Trading
          PROVE  M!View(m)'[t] = TableAt(t, Stage(m)')
      <3>1. M!View(m)[t] = TableAt(t, Stage(m))
        BY <1>3 DEF InStage
      <3>2. CASE at[m] # 13
        <4>1. t = s.table => M!Result(m, s) = TableAt(t, Stage(m)')
          BY <1>5, <3>2 DEF Does
        <4>2. t # s.table => TableAt(t, Stage(m)) = TableAt(t, Stage(m)')
          BY <1>5, <3>2 DEF Does
        <4> QED BY <1>7, <3>1, <4>1, <4>2 DEF Tables
      <3>3. CASE at[m] = 13
        <4>1. M!View(m)'[t] = TableAt(t, Stage(m))
          BY <1>5, <1>7, <3>1, <3>3, Versions DEF Tables
        <4>2. \/ Stage(m) = 12 /\ Stage(m)' = 13
              \/ Stage(m) = 0 /\ Stage(m)' = 0 - 1
          BY <1>1, <1>2, <1>4, <3>3 DEF Stage
        <4> QED BY <4>1, <4>2, Ends
      <3> QED BY <3>2, <3>3
    <2> QED BY <2>1 DEF InStage
  <1>12. Held(plan[m]) \in M!Touched(m)'
    <2>1. at[m] # 1 => Held(plan[m]) \in M!Touched(m)
      BY <1>2 DEF MigrationInv, Progress, UnderWay
    <2> QED BY <1>6, <1>7, <2>1
  <1>13. Progress(m)'
    <2>1. at'[m] = 14 => M!View(m)'[Version] = {Stamped(plan[m])}
      BY <1>2, <1>4, <1>5, <1>7
    <2> QED BY <1>1, <1>3, <1>11, <1>12, <2>1 DEF Progress, AsPlanned
  <1> QED BY <1>1, <1>2, <1>4, <1>7, <1>8, <1>9, <1>10, <1>13, StepOf DEF Planned

LEMMA CommitKeeps ==
    ASSUME MigrationInv, NEW m \in Migrators, M!Commit(m)
    PROVE  MigrationInv'
  <1>1. /\ state[m] = "running" /\ at[m] > Len(M!Script(plan[m]))
        /\ tables' = M!View(m) /\ own' = [own EXCEPT ![m] = <<>>]
        /\ state' = [state EXCEPT ![m] = "ok"]
        /\ disturbed' = [o \in Migrators |->
               disturbed[o] \/ (o # m /\ plan[m] # "nothing")]
        /\ command' = command /\ plan' = plan /\ at' = at
    BY DEF M!Commit
  <1>2. DOMAIN own' = Migrators /\ own'[m] = <<>>
        /\ \A o \in Migrators \ {m} : own'[o] = own[o]
    BY <1>1 DEF MigrationInv, MigrationType
  <1>3. M!Touched(m)' = {} /\ state'[m] # "running"
        /\ \A o \in Migrators \ {m} :
              M!Touched(o)' = M!Touched(o) /\ state'[o] = state[o]
    BY <1>1, <1>2 DEF M!Touched, MigrationInv, MigrationType, Typed
  <1>4. Typed'
    BY <1>1 DEF MigrationInv, MigrationType, Typed
  <1>5. NotUnderWay(m)' /\ Progress(m)'
    BY <1>3 DEF NotUnderWay, Progress, UnderWay, Planned
  <1>6. CASE plan[m] = "nothing"
    <2>1. M!Touched(m) = {}
      BY <1>1, <1>6 DEF MigrationInv, NotUnderWay
    <2>2. tables' = [t \in DOMAIN tables |-> tables[t]]
      BY <1>1, <2>1 DEF M!View
    <2>3. tables' = tables
      <3>1. tables = [t \in DOMAIN tables |-> tables[t]]
        BY DEF MigrationInv, MigrationType
      <3> QED BY <2>2, <3>1
    <2>4. Beside(m)
      BY <1>1, <1>2, <1>3, <1>6 DEF Beside, MigrationInv, MigrationType, Typed
    <2> QED BY <1>2, <1>3, <1>4, <1>5, <2>3, <2>4, StepOf
  <1>7. CASE plan[m] # "nothing"
    <2>1. UnderWay(m) /\ at[m] = 14 /\ plan[m] \in {"upgrade", "downgrade"}
      <3>1. plan[m] \in {"upgrade", "downgrade"} /\ at[m] \in 1 .. 14
        BY <1>7 DEF MigrationInv, MigrationType, Typed, Plans
      <3>2. Len(M!Script(plan[m])) = 13
        BY <3>1, Scripts
      <3> QED BY <1>1, <1>7, <3>1, <3>2 DEF UnderWay, Planned
    <2>2. InStage(m) /\ tables'[Version] = {Stamped(plan[m])}
      BY <1>1, <2>1 DEF MigrationInv, Progress
    <2>3. DOMAIN tables' = Tables /\ tables' = [t \in Tables |-> tables'[t]]
      BY <1>1 DEF M!View, MigrationInv, MigrationType
    <2>4. VersionTellsTheSchema'
      <3>1. Stage(m) = IF plan[m] = "upgrade" THEN 13 ELSE 0 - 1
        BY <2>1 DEF Stage
      <3>2. \A t \in Trading : tables'[t] =
               IF plan[m] = "upgrade" THEN {M!Models[t]} ELSE {}
        BY <1>1, <2>1, <2>2, <3>1, Ends DEF InStage
      <3>3. tables'[Version] = {M!AtHead} <=> plan[m] = "upgrade"
        BY <2>2, Versions DEF Stamped
      <3> QED BY <2>1, <3>2, <3>3
          DEF VersionTellsTheSchema, M!VersionTellsTheSchema, Trading, Version
    <2>5. ASSUME NEW o \in Migrators \ {m}
          PROVE  NotUnderWay(o)' /\ Progress(o)'
      <3>1. ~UnderWay(o)
        BY <2>1, OnlyOneUnderWay
      <3>2. ~UnderWay(o)'
        BY <1>1, <1>3, <3>1 DEF UnderWay, Planned
      <3>3. disturbed'[o]
        BY <1>1, <1>7
      <3>4. NotUnderWay(o)'
        BY <1>1, <1>3, <3>3 DEF MigrationInv, NotUnderWay, Planned
      <3> QED BY <3>2, <3>4 DEF Progress
    <2>6. MigrationType' /\ Locks'
      BY <1>2, <1>3, <1>4, <2>3 DEF MigrationInv, MigrationType, Locks
    <2> QED BY <1>5, <2>4, <2>5, <2>6 DEF MigrationInv
  <1> QED BY <1>6, <1>7

-----------------------------------------------------------------------------
LEMMA InitMigration == Init => MigrationInv
  <1> SUFFICES ASSUME Init PROVE MigrationInv
    OBVIOUS
  <1>1. M!Init
    BY DEF Init
  <1>2. \A m \in Migrators : M!Touched(m) = {} /\ state[m] = "idle"
    BY <1>1 DEF M!Init, M!Touched
  <1>3. MigrationType
    BY <1>1, <1>2
    DEF M!Init, MigrationType, Typed, Plans, Tables, Trading, Version
  <1>4. Locks /\ \A m \in Migrators : NotUnderWay(m) /\ Progress(m)
    BY <1>2 DEF Locks, NotUnderWay, Progress, UnderWay, Planned
  <1>5. VersionTellsTheSchema
    BY <1>1 DEF M!Init, VersionTellsTheSchema, M!VersionTellsTheSchema
  <1> QED BY <1>3, <1>4, <1>5 DEF MigrationInv

(* The invariant of the migrations, in every behaviour.                    *)
LEMMA MigrationInvariant == Spec => []MigrationInv
  <1>1. MigrationInv /\ [Next]_vars => MigrationInv'
    <2> SUFFICES ASSUME MigrationInv, [Next]_vars PROVE MigrationInv'
      OBVIOUS
    <2>1. CASE UNCHANGED migration
      <3>1. /\ tables' = tables /\ own' = own /\ command' = command
            /\ plan' = plan /\ at' = at /\ state' = state
            /\ disturbed' = disturbed
        BY <2>1 DEF migration
      <3>2. \A m \in Migrators : NotUnderWay(m)' /\ Progress(m)'
                                /\ M!Touched(m)' = M!Touched(m)
        BY <3>1, Rests DEF MigrationInv
      <3>3. MigrationType' /\ Locks'
        BY <3>1, <3>2 DEF MigrationInv, MigrationType, Typed, Locks
      <3>4. VersionTellsTheSchema'
        BY <3>1 DEF MigrationInv, VersionTellsTheSchema, M!VersionTellsTheSchema
      <3> QED BY <3>2, <3>3, <3>4 DEF MigrationInv
    <2>2. CASE MigrationStep
      <3>1. PICK m \in Migrators :
               \/ M!Start(m) \/ M!ReadVersion(m) \/ M!EnsureVersionTable(m)
               \/ M!Execute(m) \/ M!StatementFails(m) \/ M!Kill(m) \/ M!Commit(m)
        BY <2>2 DEF MigrationStep, M!Next
      <3>2. M!StatementFails(m) \/ M!Kill(m) => M!RollBack(m)
        BY DEF M!StatementFails, M!Kill
      <3> QED BY <3>1, <3>2, StartKeeps, ReadVersionKeeps, RollBackKeeps,
                 EnsureVersionTableKeeps, ExecuteKeeps, CommitKeeps
    <2> QED BY <2>1, <2>2 DEF Next, DeploymentStep, CostGuardStep, vars
  <1> QED BY InitMigration, <1>1, PTL DEF Spec

(* Whatever was killed, failed or ran beside it, after every commit the    *)
(* version row tells the schema: at head each table is the model of it     *)
(* that the bot has, otherwise there is none (upgrade and downgrade of the *)
(* migration, begin_transaction in env.py).                                *)
THEOREM VersionTellsTheSchemaAlways == Spec => []VersionTellsTheSchema
  BY MigrationInvariant, PTL DEF MigrationInv

(* No statement of upgrade or downgrade fails unless another migration     *)
(* committed after this one had read the version.                          *)
THEOREM OnlyRivalsMakeItFailAlways == Spec => []OnlyRivalsMakeItFail
  <1>1. MigrationInv => OnlyRivalsMakeItFail
    BY AloneItSucceeds DEF OnlyRivalsMakeItFail, M!OnlyRivalsMakeItFail
  <1> QED BY <1>1, MigrationInvariant, PTL
=============================================================================
