--------------------------- MODULE ReportingProofs ---------------------------
(***************************************************************************)
(* What a process of the trading job reports, for every environment it may *)
(* be given, wherever it raises and whenever it is killed.                 *)
(***************************************************************************)
EXTENDS Reporting, WellFoundedInduction, TLAPS

Before == {"settings", "telemetry", "database", "build"}
Working == P!InTry \ {"build"}
Past == {"flush", "exit", "ended"}

-----------------------------------------------------------------------------
(* What holds where main is: the settings it has checked, the telemetry it *)
(* has built, the transaction, and the error it handles.                   *)

SettingsInv ==
    /\ env \in P!Settings
    /\ pc \notin {"settings", "ended"} => P!SettingsAreValid
    /\ pc \notin {"settings", "telemetry", "database", "ended"} => env.database
    /\ pc \in Working =>
         (env.backend = "ccxt_sandbox" => P!UrlsLookLikeATestnet)

TransactionInv ==
    /\ pc \in Before \cup Working \cup {"handle"} \cup Past
    /\ pc \in Before => transaction = "none"
    /\ pc \in Working => transaction = "open"
    /\ error \in {"none", "known", "unknown"}
    /\ error # "none" => transaction \in {"rolled_back", "committed"}
    /\ error = "known" => transaction = "rolled_back"
    /\ pc \in Before \cup Working => error = "none"
    /\ pc = "handle" => error # "none"
    /\ pc \in {"flush", "exit"} /\ error = "none" => transaction = "committed"
    /\ transaction = "committed" => pc \in Past \cup {"handle"}

(* Metrics wait in the process only when there is an exporter, and nothing *)
(* leaves it before the flush; the error is among them once it has been    *)
(* handled, and only then.                                                 *)
MetricsInv ==
    /\ exporter = "azure" \/ recorded = {}
    /\ pc \in Before => recorded = {}
    /\ pc = "exit" /\ recorded # {} => flush = "unsupported"
    /\ exported # {} => pc \in {"exit", "ended"}
    /\ pc # "ended" /\ "error" \in recorded =>
         pc \in {"flush", "exit"} /\ error # "none"
    /\ pc = "flush" /\ error # "none" /\ exporter = "azure" =>
         "error" \in recorded
    /\ pc = "commit" /\ exporter = "azure" => "duration" \in recorded
    /\ transaction = "committed" /\ pc \in {"handle", "flush"}
         /\ exporter = "azure" => "duration" \in recorded

(* The whole cycle lies behind a commit: its completion is in the log when *)
(* the level lets it through.                                              *)
CompletedIsLogged == P!Emitted("cycle.completed", "INFO") \subseteq logs

LogsInv ==
    /\ "cycle.failed" \in logs => error = "known"
    /\ "cycle.crashed" \in logs => error = "unknown"
    /\ "cycle.exit" \in logs => transaction = "committed"
    /\ pc = "commit" \/ transaction = "committed" => CompletedIsLogged
    /\ "cycle.completed" \in logs => pc \in {"commit", "handle"} \cup Past
    /\ "cycle.completed" \in logs /\ pc = "handle" => error = "unknown"
    /\ "cycle.completed" \in logs /\ transaction = "rolled_back"
         /\ pc \in {"flush", "exit"} => "cycle.crashed" \in logs

CodeInv ==
    /\ code \in {"running", "ok", "failed", "killed"}
    /\ code = "running" <=> pc # "ended"
    /\ code = "ok" => error = "none" /\ transaction = "committed"

ProcessInv ==
    /\ SettingsInv /\ TransactionInv /\ MetricsInv /\ LogsInv /\ CodeInv
    /\ NothingRecordedIsLost
    /\ ReportsTellTheTransaction
    /\ FalseCompletionIsContradicted
    /\ TelemetryNeverPreventsTheCycle

USE DEF P!InTry, Before, Working, Past

LEMMA InitProcess == Init => ProcessInv
  <1> SUFFICES ASSUME P!Init PROVE ProcessInv
    BY DEF Init
  <1> USE DEF P!Init
  <1>1. SettingsInv
    BY DEF SettingsInv
  <1>2. TransactionInv /\ MetricsInv /\ LogsInv /\ CodeInv
    BY DEF TransactionInv, MetricsInv, LogsInv, CodeInv
  <1>3. /\ NothingRecordedIsLost /\ ReportsTellTheTransaction
        /\ FalseCompletionIsContradicted /\ TelemetryNeverPreventsTheCycle
    BY DEF NothingRecordedIsLost, P!NothingRecordedIsLost,
           ReportsTellTheTransaction, P!ReportsTellTheTransaction,
           FalseCompletionIsContradicted, P!FalseCompletionIsContradicted,
           TelemetryNeverPreventsTheCycle, P!TelemetryNeverPreventsTheCycle
  <1> QED BY <1>1, <1>2, <1>3 DEF ProcessInv

-----------------------------------------------------------------------------
(* The helpers of main's statements.                                       *)

LEMMA EmittedEvents ==
    \A event, level : P!Emitted(event, level) \subseteq {event}
  BY DEF P!Emitted

LEMMA ErrorsAreEmitted ==
    ASSUME SettingsInv
    PROVE  \A event : P!Emitted(event, "ERROR") = {event}
  <1>1. env.logLevel \in DOMAIN P!Severity
    BY ReportingAssumption DEF SettingsInv, P!Settings, P!ProcessAssumption
  <1> QED BY <1>1 DEF P!Emitted, P!Severity

LEMMA SettingsStay ==
    ASSUME SettingsInv, UNCHANGED env,
           pc' # "ended" => pc \notin Before /\ pc # "ended",
           pc' \in Working => pc \in Working
    PROVE  SettingsInv'
  BY DEF SettingsInv, P!SettingsAreValid, P!FieldsInRange, P!EnforceSandbox,
         P!CheckStrategyWindows, P!CheckBackendCredentials, P!UrlsLookLikeATestnet

(* Every statement of main keeps the invariant.                            *)
LEMMA ProcessStepKeeps ==
    ASSUME ProcessInv, P!Next PROVE ProcessInv'
  <1> USE DEF ProcessInv
  <1> DEFINE Promised == /\ NothingRecordedIsLost
                         /\ ReportsTellTheTransaction
                         /\ FalseCompletionIsContradicted
                         /\ TelemetryNeverPreventsTheCycle
  <1> USE DEF NothingRecordedIsLost, P!NothingRecordedIsLost,
              ReportsTellTheTransaction, P!ReportsTellTheTransaction,
              FalseCompletionIsContradicted, P!FalseCompletionIsContradicted,
              TelemetryNeverPreventsTheCycle, P!TelemetryNeverPreventsTheCycle,
              CompletedIsLogged
  <1>l. UNCHANGED env => UNCHANGED P!Emitted("cycle.completed", "INFO")
    BY DEF P!Emitted
  <1>e. \A event, level : P!Emitted(event, level) \subseteq {event}
    BY EmittedEvents
  <1>1. CASE P!LoadSettings
    <2> USE <1>1, <1>e, <1>l DEF P!LoadSettings, P!Uncaught
    <2>1. SettingsInv'
      BY DEF SettingsInv, P!SettingsAreValid, P!FieldsInRange,
             P!EnforceSandbox, P!CheckStrategyWindows, P!CheckBackendCredentials,
             P!UrlsLookLikeATestnet
    <2>2. TransactionInv'
      BY DEF TransactionInv
    <2>3. MetricsInv'
      BY DEF MetricsInv, TransactionInv
    <2>4. LogsInv' /\ CodeInv'
      BY DEF LogsInv, CodeInv, TransactionInv
    <2>5. Promised'
      BY DEF SettingsInv, TransactionInv, MetricsInv, LogsInv, CodeInv,
             P!SettingsAreValid, P!FieldsInRange, P!EnforceSandbox,
             P!CheckStrategyWindows, P!CheckBackendCredentials
    <2> QED BY <2>1, <2>2, <2>3, <2>4, <2>5
  <1>2. CASE P!BuildTelemetry
    <2> USE <1>2, <1>e, <1>l DEF P!BuildTelemetry, P!Emit
    <2>1. SettingsInv'
      BY DEF SettingsInv, P!SettingsAreValid, P!FieldsInRange,
             P!EnforceSandbox, P!CheckStrategyWindows, P!CheckBackendCredentials,
             P!UrlsLookLikeATestnet
    <2>2. TransactionInv'
      BY DEF TransactionInv
    <2>3. MetricsInv'
      BY DEF MetricsInv, TransactionInv
    <2>4. LogsInv' /\ CodeInv'
      BY DEF LogsInv, CodeInv, TransactionInv
    <2>5. Promised'
      BY DEF SettingsInv, TransactionInv, MetricsInv, LogsInv, CodeInv
    <2> QED BY <2>1, <2>2, <2>3, <2>4, <2>5
  <1>3. CASE P!RequireDatabaseUrl
    <2> USE <1>3, <1>e, <1>l DEF P!RequireDatabaseUrl, P!Uncaught
    <2>1. SettingsInv'
      BY DEF SettingsInv, P!SettingsAreValid, P!FieldsInRange,
             P!EnforceSandbox, P!CheckStrategyWindows, P!CheckBackendCredentials,
             P!UrlsLookLikeATestnet
    <2>2. TransactionInv'
      BY DEF TransactionInv
    <2>3. MetricsInv'
      BY DEF MetricsInv, TransactionInv
    <2>4. LogsInv' /\ CodeInv'
      BY DEF LogsInv, CodeInv, TransactionInv
    <2>5. Promised'
      BY DEF SettingsInv, TransactionInv, MetricsInv, LogsInv, CodeInv
    <2> QED BY <2>1, <2>2, <2>3, <2>4, <2>5
  <1>4. CASE P!BuildCycle
    <2> USE <1>4, <1>e, <1>l DEF P!BuildCycle, P!Raise, P!Kinds
    <2>1. SettingsInv'
      BY DEF SettingsInv, P!SettingsAreValid, P!FieldsInRange,
             P!EnforceSandbox, P!CheckStrategyWindows, P!CheckBackendCredentials,
             P!UrlsLookLikeATestnet
    <2>2. TransactionInv'
      BY DEF TransactionInv
    <2>3. MetricsInv'
      BY DEF MetricsInv, TransactionInv
    <2>4. LogsInv' /\ CodeInv'
      BY DEF LogsInv, CodeInv, TransactionInv
    <2>5. Promised'
      BY DEF SettingsInv, TransactionInv, MetricsInv, LogsInv, CodeInv
    <2> QED BY <2>1, <2>2, <2>3, <2>4, <2>5
  <1>5. CASE P!Fetch
    <2> USE <1>5, <1>e, <1>l DEF P!Fetch, P!Raise, P!Kinds
    <2>1. SettingsInv'
      BY SettingsStay DEF TransactionInv
    <2>2. TransactionInv'
      BY DEF TransactionInv
    <2>3. MetricsInv'
      BY DEF MetricsInv, TransactionInv
    <2>4. LogsInv' /\ CodeInv'
      BY DEF LogsInv, CodeInv, TransactionInv
    <2>5. Promised'
      BY DEF SettingsInv, TransactionInv, MetricsInv, LogsInv, CodeInv
    <2> QED BY <2>1, <2>2, <2>3, <2>4, <2>5
  <1>6. CASE P!Decide
    <2> USE <1>6, <1>e, <1>l DEF P!Decide, P!Raise, P!Kinds, P!Emit
    <2>1. SettingsInv'
      BY SettingsStay DEF TransactionInv
    <2>2. TransactionInv'
      BY DEF TransactionInv
    <2>3. MetricsInv'
      BY DEF MetricsInv, TransactionInv
    <2>4. LogsInv' /\ CodeInv'
      BY DEF LogsInv, CodeInv, TransactionInv
    <2>5. Promised'
      BY DEF SettingsInv, TransactionInv, MetricsInv, LogsInv, CodeInv
    <2> QED BY <2>1, <2>2, <2>3, <2>4, <2>5
  <1>7. CASE P!Submit
    <2> USE <1>7, <1>e, <1>l DEF P!Submit, P!Raise, P!Record
    <2>1. SettingsInv'
      BY SettingsStay DEF TransactionInv
    <2>2. TransactionInv'
      BY DEF TransactionInv
    <2>3. MetricsInv'
      BY DEF MetricsInv, TransactionInv
    <2>4. LogsInv' /\ CodeInv'
      BY DEF LogsInv, CodeInv, TransactionInv
    <2>5. Promised'
      BY DEF SettingsInv, TransactionInv, MetricsInv, LogsInv, CodeInv
    <2> QED BY <2>1, <2>2, <2>3, <2>4, <2>5
  <1>8. CASE P!BookExecution
    <2> USE <1>8, <1>e, <1>l DEF P!BookExecution, P!Raise, P!Emit
    <2>1. SettingsInv'
      BY SettingsStay DEF TransactionInv
    <2>2. TransactionInv'
      BY DEF TransactionInv
    <2>3. MetricsInv'
      BY DEF MetricsInv, TransactionInv
    <2>4. LogsInv' /\ CodeInv'
      BY DEF LogsInv, CodeInv, TransactionInv
    <2>5. Promised'
      BY DEF SettingsInv, TransactionInv, MetricsInv, LogsInv, CodeInv
    <2> QED BY <2>1, <2>2, <2>3, <2>4, <2>5
  <1>9. CASE P!Complete
    <2> USE <1>9, <1>e, <1>l DEF P!Complete, P!Record, P!Emit
    <2>1. SettingsInv'
      BY SettingsStay DEF TransactionInv
    <2>2. TransactionInv'
      BY DEF TransactionInv
    <2>3. MetricsInv'
      BY DEF MetricsInv, TransactionInv
    <2>4. LogsInv' /\ CodeInv'
      BY DEF LogsInv, CodeInv, TransactionInv
    <2>5. Promised'
      BY DEF SettingsInv, TransactionInv, MetricsInv, LogsInv, CodeInv
    <2> QED BY <2>1, <2>2, <2>3, <2>4, <2>5
  <1>10. CASE P!Commit
    <2> USE <1>10, <1>e, <1>l DEF P!Commit, P!Raise
    <2>1. SettingsInv'
      BY SettingsStay DEF TransactionInv
    <2>2. TransactionInv'
      BY DEF TransactionInv
    <2>3. MetricsInv'
      BY DEF MetricsInv, TransactionInv
    <2>4. LogsInv' /\ CodeInv'
      BY DEF LogsInv, CodeInv, TransactionInv
    <2>5. Promised'
      BY DEF SettingsInv, TransactionInv, MetricsInv, LogsInv, CodeInv
    <2> QED BY <2>1, <2>2, <2>3, <2>4, <2>5
  <1>11. CASE P!Handle
    <2> USE <1>11, <1>e, <1>l, ErrorsAreEmitted DEF P!Handle, P!Record, P!Emit
    <2>1. SettingsInv'
      BY SettingsStay DEF TransactionInv
    <2>2. TransactionInv'
      BY DEF TransactionInv
    <2>3. MetricsInv'
      BY DEF MetricsInv, TransactionInv
    <2>4. LogsInv' /\ CodeInv'
      BY DEF LogsInv, CodeInv, TransactionInv
    <2>5. Promised'
      BY DEF SettingsInv, TransactionInv, MetricsInv, LogsInv, CodeInv
    <2> QED BY <2>1, <2>2, <2>3, <2>4, <2>5
  <1>12. CASE P!Flush
    <2> USE <1>12, <1>e, <1>l DEF P!Flush, P!Uncaught, P!Emit
    <2>1. SettingsInv'
      BY SettingsStay DEF TransactionInv
    <2>2. TransactionInv'
      BY DEF TransactionInv
    <2>3. MetricsInv'
      BY DEF MetricsInv, TransactionInv
    <2>4. LogsInv' /\ CodeInv'
      BY DEF LogsInv, CodeInv, TransactionInv
    <2>5. Promised'
      BY DEF SettingsInv, TransactionInv, MetricsInv, LogsInv, CodeInv
    <2> QED BY <2>1, <2>2, <2>3, <2>4, <2>5
  <1>13. CASE P!Exit
    <2> USE <1>13, <1>e, <1>l DEF P!Exit, P!Emit
    <2>1. SettingsInv'
      BY SettingsStay DEF TransactionInv
    <2>2. TransactionInv'
      BY DEF TransactionInv
    <2>3. MetricsInv'
      BY DEF MetricsInv, TransactionInv
    <2>4. LogsInv' /\ CodeInv'
      BY DEF LogsInv, CodeInv, TransactionInv
    <2>5. Promised'
      BY DEF SettingsInv, TransactionInv, MetricsInv, LogsInv, CodeInv
    <2> QED BY <2>1, <2>2, <2>3, <2>4, <2>5
  <1>14. CASE P!Kill
    <2> USE <1>14, <1>e, <1>l DEF P!Kill
    <2>1. SettingsInv'
      BY SettingsStay DEF TransactionInv
    <2>2. TransactionInv'
      BY DEF TransactionInv
    <2>3. MetricsInv'
      BY DEF MetricsInv, TransactionInv
    <2>4. LogsInv' /\ CodeInv'
      BY DEF LogsInv, CodeInv, TransactionInv
    <2>5. Promised'
      BY DEF SettingsInv, TransactionInv, MetricsInv, LogsInv, CodeInv
    <2> QED BY <2>1, <2>2, <2>3, <2>4, <2>5
  <1> QED
    BY <1>1, <1>2, <1>3, <1>4, <1>5, <1>6, <1>7, <1>8, <1>9, <1>10, <1>11, <1>12, <1>13, <1>14 DEF P!Next

-----------------------------------------------------------------------------
(* The invariant holds of every behaviour; a step of the alerts leaves the *)
(* process alone.                                                          *)
LEMMA ProcessInvariant == Spec => []ProcessInv
  <1>1. ProcessInv /\ [Next]_vars => ProcessInv'
    <2> SUFFICES ASSUME ProcessInv, [Next]_vars PROVE ProcessInv'
      OBVIOUS
    <2>1. CASE UNCHANGED process
      BY <2>1 DEF ProcessInv, process, SettingsInv, TransactionInv, MetricsInv,
         LogsInv, CodeInv, NothingRecordedIsLost, P!NothingRecordedIsLost,
         ReportsTellTheTransaction, P!ReportsTellTheTransaction,
         FalseCompletionIsContradicted, P!FalseCompletionIsContradicted,
         TelemetryNeverPreventsTheCycle, P!TelemetryNeverPreventsTheCycle,
         CompletedIsLogged, P!Emitted, P!SettingsAreValid, P!FieldsInRange, P!EnforceSandbox,
         P!CheckStrategyWindows, P!CheckBackendCredentials,
         P!UrlsLookLikeATestnet
    <2>2. CASE ProcessStep
      BY <2>2, ProcessStepKeeps DEF ProcessStep
    <2> QED BY <2>1, <2>2 DEF Next, AlertsStep, vars
  <1> QED BY InitProcess, <1>1, PTL DEF Spec

(* Metrics recorded by a process that ends by itself have left it, unless  *)
(* the flush did not work: main flushes in its finally clause, after every *)
(* recording.                                                              *)
THEOREM NothingRecordedIsLostAlways == Spec => []NothingRecordedIsLost
  BY ProcessInvariant, PTL DEF ProcessInv

(* The metrics that left the process, and the events of its handlers and   *)
(* its exit, say of the transaction what became of it.                     *)
THEOREM ReportsTellTheTransactionAlways == Spec => []ReportsTellTheTransaction
  BY ProcessInvariant, PTL DEF ProcessInv

(* Where a completion was logged and then rolled back, the log of a        *)
(* process that ends by itself says cycle.crashed, at any log level.       *)
THEOREM FalseCompletionIsContradictedAlways ==
    Spec => []FalseCompletionIsContradicted
  BY ProcessInvariant, PTL DEF ProcessInv

(* Without a transaction a process fails only for its settings or its      *)
(* database, never for its telemetry.                                      *)
THEOREM TelemetryNeverPreventsTheCycleAlways ==
    Spec => []TelemetryNeverPreventsTheCycle
  BY ProcessInvariant, PTL DEF ProcessInv

-----------------------------------------------------------------------------
(* Where a transaction is committed nothing rolls it back, so what the     *)
(* platform sees of a process is an attempt of JobAttempt.                 *)

LEMMA StageOfSteps ==
    ASSUME ProcessInv, P!Next
    PROVE  \/ UNCHANGED P!Stage
           \/ P!Stage = "running" /\ P!Stage' \in {"booked", "failed"}
           \/ P!Stage = "booked" /\ P!Stage' \in {"succeeded", "failed"}
  <1> USE DEF ProcessInv, TransactionInv, CodeInv, P!Stage
  <1>1. CASE P!LoadSettings \/ P!RequireDatabaseUrl
    BY <1>1 DEF P!LoadSettings, P!RequireDatabaseUrl, P!Uncaught
  <1>2. CASE P!BuildTelemetry \/ P!Complete \/ P!Handle
    BY <1>2 DEF P!BuildTelemetry, P!Complete, P!Handle
  <1>3. CASE P!BuildCycle \/ P!Fetch \/ P!Commit
    BY <1>3 DEF P!BuildCycle, P!Fetch, P!Commit, P!Raise
  <1>4. CASE P!Decide \/ P!Submit \/ P!BookExecution
    BY <1>4 DEF P!Decide, P!Submit, P!BookExecution, P!Raise
  <1>5. CASE P!Flush \/ P!Exit
    BY <1>5 DEF P!Flush, P!Exit, P!Uncaught
  <1>6. CASE P!Kill
    BY <1>6 DEF P!Kill
  <1> QED BY <1>1, <1>2, <1>3, <1>4, <1>5, <1>6 DEF P!Next

(* main implements JobAttempt: it books once, says success exactly of a    *)
(* committed transaction, and never succeeds after a failure.              *)
THEOREM ProcessImplementsAttempt == Spec => ImplementsAttempt
  <1>1. Init => P!Promise!Init
    BY DEF Init, P!Init, P!Promise!Init, P!Stage
  <1>2. ProcessInv /\ [Next]_vars => P!Promise!Next \/ UNCHANGED P!Stage
    <2> SUFFICES ASSUME ProcessInv, [Next]_vars
                 PROVE  P!Promise!Next \/ UNCHANGED P!Stage
      OBVIOUS
    <2>1. CASE UNCHANGED process
      BY <2>1 DEF process, P!Stage
    <2>2. CASE ProcessStep
      BY <2>2, StageOfSteps DEF ProcessStep, P!Promise!Next, P!Promise!Book,
         P!Promise!Succeed, P!Promise!Fail
    <2> QED BY <2>1, <2>2 DEF Next, AlertsStep, vars
  <1> QED
    BY <1>1, <1>2, ProcessInvariant, PTL
    DEF Spec, ImplementsAttempt, P!ImplementsAttempt, P!Promise!Spec

-----------------------------------------------------------------------------
(* The alerts, whatever the executions do.  A tick is five minutes.        *)

LineSet == [event : {"cycle.completed", "cycle.failed"}, age : Nat,
            drawdown : Nat, gap : Nat, ingested : BOOLEAN, reported : BOOLEAN]

Completed(l) == l.event = "cycle.completed"

AlertsType ==
    /\ clock \in 0 .. 2 /\ phase \in 0 .. 2
    /\ due \subseteq {"start"} \cup A!AlertNames
    /\ running \subseteq Nat
    /\ log \subseteq LineSet
    /\ firing \in [A!AlertNames -> BOOLEAN]
    /\ missed \in 0 .. 2 /\ sinceCompleted \in 0 .. 16

(* Ticks since a slow alert was evaluated.                                 *)
SinceEvaluated(a) ==
    (IF clock >= phase THEN clock - phase ELSE clock + 3 - phase)
    + (IF a \in due THEN 3 ELSE 0)

(* No completed line is younger than the silence, so every evaluation      *)
(* after nine ticks of it has found none.                                  *)
SilenceInv ==
    /\ \A l \in log : Completed(l) => l.age >= sinceCompleted
    /\ sinceCompleted > 9 + SinceEvaluated("no_cycle") => firing["no_cycle"]
    /\ "no_cycle" \in due => clock = phase

(* A line is ingested by the second evaluation after it was written, which *)
(* then reports it.                                                        *)
LinesInv ==
    /\ \A l \in log : l.age > MaxDelay => l.ingested
    /\ \A l \in log : l.event = "cycle.failed" =>
         l.reported \/ l.age <= 1 \/ (l.age = 2 /\ "cycle_failed" \in due)
    /\ \A l \in log : Completed(l) /\ l.drawdown > 500 =>
         l.reported \/ l.age <= 1 + SinceEvaluated("drawdown")

(* A prompt execution starts in the first tick of its period and ends by   *)
(* the second, so what the last of them left is as old as the periods      *)
(* since: those missed, and the one in progress.                           *)
Pending == IF "start" \in due \/ (\E age \in running : age <= 1) THEN 1 ELSE 0

Elapsed == 3 * (missed + Pending) + clock

ScheduleInv ==
    /\ "start" \in due => clock = 0 /\ 0 \notin running
    /\ \A age \in running : age <= 1 => age = clock

(* Until two executions in a row were not prompt, there is a completed     *)
(* line no older than that.  It is ingested; or the period it ended is not *)
(* over, and it came after two executions that were not prompt, or the one *)
(* before it is ingested and still young.                                  *)
Young(l, lines) ==
    \E p \in lines : Completed(p) /\ p.ingested /\ p.age <= 7 + l.age

NewestInv ==
    missed < 2 =>
      \E l \in log :
        /\ Completed(l) /\ l.age <= Elapsed
        /\ l.ingested \/ /\ Pending = 0
                         /\ l.age + 1 >= clock
                         /\ l.gap >= 2 \/ Young(l, log)

-----------------------------------------------------------------------------
(* Windows, periods and horizon in ticks.                                  *)
LEMMA Numbers ==
    /\ A!Prompt = 1 /\ A!Cadence = 3 /\ A!Horizon = 16 /\ A!Ceiling = 16
    /\ A!Window("cycle_failed") = 3 /\ A!Window("no_cycle") = 9
    /\ A!Window("drawdown") = 12
    /\ A!Latest("no_cycle") = 12 /\ A!Latest("drawdown") = 15
  BY DEF A!Cadence, A!Horizon, A!Ceiling, A!Window, A!Latest, A!Prompt, A!Minutes

(* A cap is a cap.                                                         *)
LEMMA CappedCounts ==
    \A n \in Nat : A!Capped(n) = IF n > 16 THEN 16 ELSE n
  BY Numbers DEF A!Capped

LEMMA CountedExecutions ==
    \A n \in 0 .. 2 : A!OneMore(n) = IF n = 2 THEN 2 ELSE n + 1
  BY DEF A!OneMore

LEMMA KeptLines == \A lines : A!Keep(lines) \subseteq lines
  BY DEF A!Keep

(* An execution writes lines of the two events.                            *)
LEMMA WrittenLines ==
    \A o \in Outcomes : A!Lines[o] \subseteq {"cycle.completed", "cycle.failed"}
  BY ReportingAssumption DEF A!AlertsAssumption, A!Lines

LEMMA TypeOfAlerts ==
    /\ Init => AlertsType
    /\ AlertsType /\ A!Next => AlertsType'
  <1>1. Init => AlertsType
    <2> SUFFICES ASSUME A!Init PROVE AlertsType
      BY DEF Init
    <2>1. log \subseteq LineSet
      BY DEF A!Init, LineSet
    <2> QED BY <2>1, Numbers DEF A!Init, AlertsType, A!AlertNames
  <1>2. ASSUME AlertsType, A!Next PROVE AlertsType'
    <2>t. AlertsType
      BY <1>2
    <2> USE <2>t DEF AlertsType
    <2>n. A!OneMore(missed) \in 0 .. 2 /\ A!Capped(sinceCompleted + 1) \in 0 .. 16
      BY CappedCounts, CountedExecutions
    <2>1. CASE A!Start
      <3>0. due' = due \ {"start"} /\ running' \subseteq running \cup {0}
        BY <2>1 DEF A!Start
      <3>1. due' \subseteq {"start"} \cup A!AlertNames /\ running' \subseteq Nat
        BY <3>0
      <3>2. missed' \in 0 .. 2
        BY <2>1, <2>n DEF A!Start
      <3> QED BY <2>1, <3>1, <3>2 DEF A!Start
    <2>2. CASE A!Finish
      <3> PICK age \in running, o \in Outcomes, d \in Drawdowns :
             /\ running' = running \ {age}
             /\ log' = A!Keep(log \cup {A!Line(e, d) : e \in A!Lines[o]})
             /\ missed' \in {missed, 0, A!OneMore(missed)}
             /\ sinceCompleted' \in {0, sinceCompleted}
             /\ UNCHANGED <<clock, phase, due, firing>>
        BY <2>2 DEF A!Finish
      <3>1. \A e \in A!Lines[o] : A!Line(e, d) \in LineSet
        BY WrittenLines, ReportingAssumption
        DEF A!Line, LineSet, A!AlertsAssumption
      <3>2. log' \subseteq LineSet
        BY <3>1, KeptLines
      <3> QED BY <3>2, <2>n
    <2>3. CASE A!Ingest
      <3> PICK l \in log :
             log' = A!Keep((log \ {l}) \cup {[l EXCEPT !.ingested = TRUE, !.gap = 0]})
        BY <2>3 DEF A!Ingest
      <3>1. [l EXCEPT !.ingested = TRUE, !.gap = 0] \in LineSet
        BY DEF LineSet
      <3>2. log' \subseteq LineSet
        BY <3>1, KeptLines
      <3> QED BY <3>2, <2>3 DEF A!Ingest
    <2>4. CASE A!Tick
      <3>1. log' \subseteq LineSet
        <4>1. \A l \in log : [l EXCEPT !.age = @ + 1] \in LineSet
          BY DEF LineSet
        <4> QED BY <4>1, <2>4, KeptLines DEF A!Tick
      <3>2. clock' \in 0 .. 2
        BY <2>4, Numbers DEF A!Tick
      <3>3. running' \subseteq Nat
        BY <2>4 DEF A!Tick
      <3> QED BY <3>1, <3>2, <3>3, <2>4, <2>n DEF A!Tick, A!AlertNames
    <2>5. ASSUME NEW a \in A!AlertNames, A!Evaluate(a) PROVE AlertsType'
      <3> PICK edge \in {0, 1} :
             /\ firing' = [firing EXCEPT ![a] = A!Fires(a, A!InWindow(a, edge))]
             /\ log' = A!Keep((log \ A!InWindow(a, edge)) \cup
                   {[l EXCEPT !.reported = @ \/ A!Reported(a, l)] :
                        l \in A!InWindow(a, edge)})
        BY <2>5 DEF A!Evaluate
      <3>1. \A l \in log : [l EXCEPT !.reported = @ \/ A!Reported(a, l)] \in LineSet
        <4> TAKE l \in log
        <4>1. l.reported \/ A!Reported(a, l) \in BOOLEAN
          BY DEF LineSet, A!Reported, A!AlertNames
        <4> QED BY <4>1 DEF LineSet
      <3>2. log' \subseteq LineSet
        BY <3>1, KeptLines DEF A!InWindow
      <3>3. A!Fires(a, A!InWindow(a, edge)) \in BOOLEAN
        BY DEF A!Fires, A!AlertNames
      <3> QED BY <2>5, <3>2, <3>3 DEF A!Evaluate
    <2> HIDE DEF AlertsType
    <2> QED BY <1>2, <2>1, <2>2, <2>3, <2>4, <2>5 DEF A!Next
  <1> QED BY <1>1, <1>2

-----------------------------------------------------------------------------
(* How old the last evaluation of a slow alert is: a tick makes it one     *)
(* tick older, an evaluation makes it as old as its tick.                  *)
LEMMA EvaluationsAge ==
    ASSUME AlertsType, NEW a \in {"no_cycle", "drawdown"}
    PROVE  /\ SinceEvaluated(a) \in 0 .. 5
           /\ A!Tick => SinceEvaluated(a)' = SinceEvaluated(a) + 1
           /\ A!Start \/ A!Finish \/ A!Ingest
                 => SinceEvaluated(a)' = SinceEvaluated(a)
           /\ \A b \in A!AlertNames : A!Evaluate(b) =>
                 /\ b # a => SinceEvaluated(a)' = SinceEvaluated(a)
                 /\ b = a => SinceEvaluated(a)' = SinceEvaluated(a) - 3
  <1> USE DEF SinceEvaluated, AlertsType
  <1>1. SinceEvaluated(a) \in 0 .. 5
    OBVIOUS
  <1>2. ASSUME A!Tick PROVE SinceEvaluated(a)' = SinceEvaluated(a) + 1
    <2>1. /\ due = {} /\ phase' = phase
          /\ clock' = IF clock = 2 THEN 0 ELSE clock + 1
          /\ a \in due' <=> clock' = phase
      BY <1>2, Numbers DEF A!Tick
    <2> QED BY <2>1
  <1>3. ASSUME A!Start \/ A!Finish \/ A!Ingest
        PROVE  SinceEvaluated(a)' = SinceEvaluated(a)
    <2>1. clock' = clock /\ phase' = phase /\ (a \in due' <=> a \in due)
      BY <1>3 DEF A!Start, A!Finish, A!Ingest
    <2> QED BY <2>1
  <1>4. ASSUME NEW b \in A!AlertNames, A!Evaluate(b)
        PROVE  /\ b # a => SinceEvaluated(a)' = SinceEvaluated(a)
               /\ b = a => SinceEvaluated(a)' = SinceEvaluated(a) - 3
    <2>1. clock' = clock /\ phase' = phase /\ b \in due /\ due' = due \ {b}
      BY <1>4 DEF A!Evaluate
    <2> QED BY <2>1
  <1> QED BY <1>1, <1>2, <1>3, <1>4

LEMMA SilenceStep ==
    AlertsType /\ SilenceInv /\ A!Next => SilenceInv'
  <1> SUFFICES ASSUME AlertsType, SilenceInv, A!Next PROVE SilenceInv'
    OBVIOUS
  <1>s. SinceEvaluated("no_cycle") \in 0 .. 5
    BY EvaluationsAge
  <1> DEFINE Since == SinceEvaluated("no_cycle")
  <1>q. ASSUME \A l \in log' : Completed(l) => l.age >= sinceCompleted',
               sinceCompleted' > 9 + Since' => firing'["no_cycle"]
        PROVE  SilenceInv'
    <2>1. "no_cycle" \in due' => clock' = phase'
      <3>1. CASE A!Tick
        BY <3>1 DEF A!Tick
      <3>2. CASE ~A!Tick
        <4>1. due' \subseteq due /\ clock' = clock /\ phase' = phase
          BY <3>2 DEF A!Next, A!Start, A!Finish, A!Ingest, A!Evaluate
        <4> QED BY <4>1 DEF SilenceInv
      <3> QED BY <3>1, <3>2
    <2> QED BY <1>q, <2>1 DEF SilenceInv, Completed
  <1>1. CASE A!Start
    <2>1. Since' = Since
      BY <1>1, EvaluationsAge
    <2> QED BY <1>1, <2>1, <1>q DEF A!Start, SilenceInv
  <1>2. CASE A!Finish
    <2>1. Since' = Since
      BY <1>2, EvaluationsAge
    <2> PICK age \in running, o \in Outcomes, d \in Drawdowns :
           /\ log' = A!Keep(log \cup {A!Line(e, d) : e \in A!Lines[o]})
           /\ sinceCompleted' = IF "cycle.completed" \in A!Lines[o]
                                THEN 0 ELSE sinceCompleted
           /\ UNCHANGED <<clock, phase, due, firing>>
      BY <1>2 DEF A!Finish
    <2>2. \A l \in log' : l \in log \/ (\E e \in A!Lines[o] : l.event = e) 
      BY KeptLines DEF A!Line
    <2>3. log' \subseteq LineSet
      BY TypeOfAlerts DEF AlertsType
    <2>4. \A l \in log' : Completed(l) => l.age >= sinceCompleted'
      BY <2>2, <2>3 DEF SilenceInv, Completed, LineSet
    <2>5. sinceCompleted' > 9 + Since' => firing'["no_cycle"]
      BY <2>1, <1>s DEF SilenceInv
    <2> QED BY <2>4, <2>5, <1>q
  <1>3. CASE A!Ingest
    <2>1. Since' = Since
      BY <1>3, EvaluationsAge
    <2> PICK l \in log :
           log' = A!Keep((log \ {l}) \cup {[l EXCEPT !.ingested = TRUE, !.gap = 0]})
      BY <1>3 DEF A!Ingest
    <2>2. \A n \in log' : n \in log \/ n = [l EXCEPT !.ingested = TRUE, !.gap = 0]
      BY KeptLines
    <2>3. \A n \in log' : Completed(n) => n.age >= sinceCompleted
      BY <2>2 DEF SilenceInv, AlertsType, LineSet, Completed
    <2> QED BY <1>3, <2>1, <2>3, <1>q DEF A!Ingest, SilenceInv
  <1>4. CASE A!Tick
    <2>1. Since' = Since + 1
      BY <1>4, EvaluationsAge
    <2>2. /\ log' \subseteq {[l EXCEPT !.age = @ + 1] : l \in log}
          /\ sinceCompleted' = A!Capped(sinceCompleted + 1)
          /\ firing' = firing
      BY <1>4, KeptLines DEF A!Tick
    <2>3. sinceCompleted' <= sinceCompleted + 1 /\ sinceCompleted' \in Nat
      BY <2>2, CappedCounts DEF AlertsType
    <2>4. \A l \in log : [l EXCEPT !.age = @ + 1].age = l.age + 1
                         /\ (Completed([l EXCEPT !.age = @ + 1]) <=> Completed(l))
      BY DEF AlertsType, LineSet, Completed
    <2>5. \A l \in log : l.age \in Nat
      BY DEF AlertsType, LineSet
    <2>6. \A n \in log' : Completed(n) => n.age >= sinceCompleted'
      <3> TAKE n \in log'
      <3> PICK l \in log : n = [l EXCEPT !.age = @ + 1]
        BY <2>2
      <3> QED BY <2>3, <2>4, <2>5 DEF SilenceInv, AlertsType
    <2>7. sinceCompleted' > 9 + Since' => firing'["no_cycle"]
      BY <2>1, <2>2, <2>3, <1>s DEF SilenceInv, AlertsType
    <2> QED BY <2>6, <2>7, <1>q
  <1>5. ASSUME NEW a \in A!AlertNames, A!Evaluate(a) PROVE SilenceInv'
    <2> PICK edge \in {0, 1} :
           /\ firing' = [firing EXCEPT ![a] = A!Fires(a, A!InWindow(a, edge))]
           /\ log' = A!Keep((log \ A!InWindow(a, edge)) \cup
                 {[l EXCEPT !.reported = @ \/ A!Reported(a, l)] :
                      l \in A!InWindow(a, edge)})
      BY <1>5 DEF A!Evaluate
    <2>1. \A n \in log' : \E l \in log : n.age = l.age /\ n.event = l.event
      <3>1. \A l \in log : LET n == [l EXCEPT !.reported = @ \/ A!Reported(a, l)]
                           IN  n.age = l.age /\ n.event = l.event
        BY DEF AlertsType, LineSet
      <3>2. A!InWindow(a, edge) \subseteq log
        BY DEF A!InWindow
      <3> TAKE n \in log'
      <3>3. n \in log \/ \E l \in A!InWindow(a, edge) :
                            n = [l EXCEPT !.reported = @ \/ A!Reported(a, l)]
        BY KeptLines
      <3> QED BY <3>1, <3>2, <3>3
    <2>2. sinceCompleted' = sinceCompleted
      BY <1>5 DEF A!Evaluate
    <2>3. \A n \in log' : Completed(n) => n.age >= sinceCompleted'
      BY <2>1, <2>2 DEF SilenceInv, Completed
    <2>4. CASE a # "no_cycle"
      <3>1. Since' = Since
        BY <1>5, <2>4, EvaluationsAge
      <3>2. firing'["no_cycle"] = firing["no_cycle"]
        BY <2>4 DEF AlertsType, A!AlertNames
      <3> QED BY <2>2, <2>3, <3>1, <3>2, <1>q DEF SilenceInv
    <2>5. CASE a = "no_cycle"
      <3>1. Since' = Since - 3
        BY <1>5, <2>5, EvaluationsAge
      <3>2. Since' >= 0
        <4>1. "no_cycle" \in due
          BY <1>5, <2>5 DEF A!Evaluate
        <4> QED BY <3>1, <4>1 DEF SinceEvaluated, AlertsType
      <3>3. ASSUME sinceCompleted >= 10, NEW l \in A!InWindow(a, edge)
            PROVE  ~Completed(l)
        BY <3>3, <2>5, Numbers
        DEF A!InWindow, SilenceInv, AlertsType, LineSet
      <3>4. firing'["no_cycle"] =
              ~ \E l \in A!InWindow(a, edge) : l.event = "cycle.completed"
        BY <2>5 DEF A!Fires, AlertsType, A!AlertNames
      <3>5. sinceCompleted' > 9 + Since' => firing'["no_cycle"]
        <4>1. CASE sinceCompleted >= 10
          BY <4>1, <3>3, <3>4 DEF Completed
        <4>2. CASE ~(sinceCompleted >= 10)
          BY <4>2, <3>1, <3>2, <2>2, <1>s DEF AlertsType
        <4> QED BY <4>1, <4>2
      <3> QED BY <2>3, <3>5, <1>q
    <2> QED BY <2>4, <2>5
  <1> QED BY <1>1, <1>2, <1>3, <1>4, <1>5 DEF A!Next

-----------------------------------------------------------------------------
(* What a step makes of the lines: n is what l has become.                 *)

Like(n, l) == n.event = l.event /\ n.drawdown = l.drawdown

Same(n, l) == Like(n, l) /\ n.gap = l.gap

LEMMA LinesOfSteps ==
    ASSUME AlertsType
    PROVE  /\ A!Finish => \A n \in log' : n \in log \/ (n.age = 0 /\ ~n.ingested)
           /\ A!Ingest => \A n \in log' : n \in log \/ \E l \in log :
                Like(n, l) /\ n.age = l.age /\ n.ingested
                /\ n.reported = l.reported
           /\ A!Tick => \A n \in log' : \E l \in log :
                Same(n, l) /\ n.age = l.age + 1 /\ n.reported = l.reported
                /\ n.ingested = l.ingested /\ (l.ingested \/ l.age < MaxDelay)
           /\ \A a \in A!AlertNames : A!Evaluate(a) =>
                \A n \in log' : \E l \in log :
                  /\ Same(n, l) /\ n.age = l.age /\ n.ingested = l.ingested
                  /\ l.reported => n.reported
                  /\ l.ingested /\ l.age < A!Window(a) /\ A!Reported(a, l)
                       => n.reported
  <1> USE DEF AlertsType, LineSet, Same, Like
  <1>1. ASSUME A!Finish, NEW n \in log'
        PROVE  n \in log \/ (n.age = 0 /\ ~n.ingested)
    <2>1. \E o \in Outcomes, d \in Drawdowns :
            log' = A!Keep(log \cup {A!Line(e, d) : e \in A!Lines[o]})
      BY <1>1 DEF A!Finish
    <2> QED BY <1>1, <2>1, KeptLines DEF A!Line
  <1>2. ASSUME A!Ingest, NEW n \in log'
        PROVE  n \in log \/ \E l \in log :
                 Like(n, l) /\ n.age = l.age /\ n.ingested
                 /\ n.reported = l.reported
    <2>1. \E l \in log :
            log' = A!Keep((log \ {l}) \cup {[l EXCEPT !.ingested = TRUE, !.gap = 0]})
      BY <1>2 DEF A!Ingest
    <2>2. n \in log \/ \E l \in log : n = [l EXCEPT !.ingested = TRUE, !.gap = 0]
      BY <1>2, <2>1, KeptLines
    <2> QED BY <2>2
  <1>3. ASSUME A!Tick, NEW n \in log'
        PROVE  \E l \in log :
                Same(n, l) /\ n.age = l.age + 1 /\ n.reported = l.reported
                /\ n.ingested = l.ingested /\ (l.ingested \/ l.age < MaxDelay)
    <2>1. \E l \in log : n = [l EXCEPT !.age = @ + 1]
      BY <1>3, KeptLines DEF A!Tick
    <2> QED BY <1>3, <2>1 DEF A!Tick
  <1>4. ASSUME NEW a \in A!AlertNames, A!Evaluate(a), NEW n \in log'
        PROVE  \E l \in log :
                  /\ Same(n, l) /\ n.age = l.age /\ n.ingested = l.ingested
                  /\ l.reported => n.reported
                  /\ l.ingested /\ l.age < A!Window(a) /\ A!Reported(a, l)
                       => n.reported
    <2> PICK edge \in {0, 1} :
           log' = A!Keep((log \ A!InWindow(a, edge)) \cup
                 {[l EXCEPT !.reported = @ \/ A!Reported(a, l)] :
                      l \in A!InWindow(a, edge)})
      BY <1>4 DEF A!Evaluate
    <2>1. \/ n \in log /\ n \notin A!InWindow(a, edge)
          \/ \E l \in A!InWindow(a, edge) :
                n = [l EXCEPT !.reported = @ \/ A!Reported(a, l)]
      BY <1>4, KeptLines
    <2>2. CASE n \in log /\ n \notin A!InWindow(a, edge)
      <3>1. A!Window(a) \in Nat
        BY Numbers DEF A!AlertNames
      <3>2. ~(n.ingested /\ n.age < A!Window(a))
        BY <2>2, <3>1 DEF A!InWindow
      <3> QED BY <2>2, <3>2
    <2>3. ASSUME NEW l \in A!InWindow(a, edge),
                 n = [l EXCEPT !.reported = @ \/ A!Reported(a, l)]
          PROVE  /\ l \in log
                 /\ Same(n, l) /\ n.age = l.age /\ n.ingested = l.ingested
                 /\ n.reported = (l.reported \/ A!Reported(a, l))
      BY <2>3 DEF A!InWindow
    <2> QED BY <2>1, <2>2, <2>3
  <1> QED BY <1>1, <1>2, <1>3, <1>4

(* With lines ingested within a tick, LinesInv is kept.                    *)
LEMMA LinesStep ==
    ASSUME MaxDelay <= 1, AlertsType, LinesInv, A!Next
    PROVE  LinesInv'
  <1> DEFINE Since == SinceEvaluated("drawdown")
             Seen(l, fast, since) ==
               /\ l.age > MaxDelay => l.ingested
               /\ l.event = "cycle.failed" =>
                    l.reported \/ l.age <= 1 \/ (l.age = 2 /\ fast)
               /\ Completed(l) /\ l.drawdown > 500 =>
                    l.reported \/ l.age <= 1 + since
  <1>d. MaxDelay \in Nat
    BY ReportingAssumption DEF A!AlertsAssumption
  <1>s. Since \in 0 .. 5
    BY EvaluationsAge
  <1>l. \A l \in log : Seen(l, "cycle_failed" \in due, Since)
    BY DEF LinesInv
  <1>t. \A l \in log : l \in LineSet
    BY DEF AlertsType
  <1>q. ASSUME \A n \in log' : Seen(n, "cycle_failed" \in due', Since')
        PROVE  LinesInv'
    BY <1>q DEF LinesInv, Completed
  <1>1. CASE A!Start
    <2>1. Since' = Since /\ ("cycle_failed" \in due' <=> "cycle_failed" \in due)
          /\ log' = log
      BY <1>1, EvaluationsAge DEF A!Start
    <2> QED BY <2>1, <1>l, <1>q
  <1>2. CASE A!Finish
    <2>1. Since' = Since /\ due' = due
      BY <1>2, EvaluationsAge DEF A!Finish
    <2>2. \A n \in log' : n \in log \/ n.age = 0
      BY <1>2, LinesOfSteps
    <2>3. ASSUME NEW n \in log', n.age = 0
          PROVE  Seen(n, "cycle_failed" \in due', Since')
      BY <2>1, <2>3, <1>d, <1>s DEF Completed
    <2> HIDE DEF Seen
    <2> QED BY <2>1, <2>2, <2>3, <1>l, <1>q
  <1>3. CASE A!Ingest
    <2>1. Since' = Since /\ due' = due
      BY <1>3, EvaluationsAge DEF A!Ingest
    <2>2. ASSUME NEW n \in log' PROVE Seen(n, "cycle_failed" \in due', Since')
      <3>1. n \in log \/ \E l \in log :
              Like(n, l) /\ n.age = l.age /\ n.ingested /\ n.reported = l.reported
        BY <1>3, LinesOfSteps
      <3> QED BY <2>1, <3>1, <1>l DEF Like, Completed
    <2> QED BY <2>2, <1>q
  <1>4. CASE A!Tick
    <2>1. Since' = Since + 1
      BY <1>4, EvaluationsAge
    <2>2. "cycle_failed" \in due' /\ due = {}
      BY <1>4 DEF A!Tick
    <2>3. ASSUME NEW n \in log' PROVE Seen(n, "cycle_failed" \in due', Since')
      <3> PICK l \in log :
             Same(n, l) /\ n.age = l.age + 1 /\ n.reported = l.reported
             /\ n.ingested = l.ingested /\ (l.ingested \/ l.age < MaxDelay)
        BY <1>4, LinesOfSteps
      <3>1. Seen(l, FALSE, Since) /\ l.age \in Nat
        BY <2>2, <1>l, <1>t DEF LineSet
      <3> QED BY <2>1, <2>2, <3>1, <1>d, <1>s DEF Same, Like, Completed
    <2> QED BY <2>3, <1>q
  <1>5. ASSUME NEW a \in A!AlertNames, A!Evaluate(a) PROVE LinesInv'
    <2>1. /\ a # "drawdown" => Since' = Since
          /\ a = "drawdown" => Since' = Since - 3
      BY <1>5, EvaluationsAge
    <2>2. due' = due \ {a} /\ (a = "drawdown" => Since' >= 0)
      <3>1. a \in due /\ due' = due \ {a}
        BY <1>5 DEF A!Evaluate
      <3> QED BY <2>1, <3>1 DEF SinceEvaluated, AlertsType
    <2>3. ASSUME NEW n \in log' PROVE Seen(n, "cycle_failed" \in due', Since')
      <3> PICK l \in log :
             /\ Same(n, l) /\ n.age = l.age /\ n.ingested = l.ingested
             /\ l.reported => n.reported
             /\ l.ingested /\ l.age < A!Window(a) /\ A!Reported(a, l)
                  => n.reported
        BY <1>5, LinesOfSteps
      <3>1. Seen(l, "cycle_failed" \in due, Since) /\ l.age \in Nat
        BY <1>l, <1>t DEF LineSet
      <3>2. n.age > MaxDelay => n.ingested
        BY <3>1
      <3>3. ASSUME n.event = "cycle.failed"
            PROVE  n.reported \/ n.age <= 1
                   \/ (n.age = 2 /\ "cycle_failed" \in due')
        <4>1. CASE a = "cycle_failed"
          BY <3>1, <3>3, <4>1, <1>d, Numbers DEF Same, Like, A!Reported
        <4>2. CASE a # "cycle_failed"
          BY <2>2, <3>1, <3>3, <4>2 DEF Same, Like
        <4> QED BY <4>1, <4>2
      <3>4. ASSUME Completed(n), n.drawdown > 500
            PROVE  n.reported \/ n.age <= 1 + Since'
        <4>1. CASE a = "drawdown"
          <5>1. A!Reported(a, l)
            BY <3>4, <4>1 DEF Same, Like, Completed, A!Reported, A!AlertDrawdown
          <5>2. l.reported \/ l.age <= 6
            BY <3>1, <3>4, <1>s DEF Same, Like, Completed
          <5> QED BY <2>1, <2>2, <3>1, <4>1, <5>1, <5>2, <1>d, <1>s, Numbers
        <4>2. CASE a # "drawdown"
          BY <2>1, <3>1, <3>4, <4>2 DEF Same, Like, Completed
        <4> QED BY <4>1, <4>2
      <3> QED BY <3>2, <3>3, <3>4
    <2> QED BY <2>3, <1>q
  <1> QED BY <1>1, <1>2, <1>3, <1>4, <1>5 DEF A!Next

-----------------------------------------------------------------------------
(* What is forgotten: never the newest ingested line of a completed cycle, *)
(* nor such a line while it waits for its ingestion.                       *)

LEMMA NewestIsKept ==
    ASSUME NEW lines \in SUBSET LineSet, NEW p \in lines,
           Completed(p), p.ingested, p.age <= 16
    PROVE  \E q \in A!Keep(lines) : Completed(q) /\ q.ingested /\ q.age <= p.age
  <1> DEFINE Candidates == {l \in lines : Completed(l) /\ l.ingested}
             Ages == {l.age : l \in Candidates}
  <1>1. Ages \subseteq Nat /\ Ages # {}
    BY DEF LineSet
  <1>2. PICK m \in Ages : \A a \in Ages : ~(<<a, m>> \in OpToRel(<, Nat))
    <2> HIDE DEF Ages
    <2> QED BY <1>1, NatLessThanWellFounded, WFMin, Zenon
  <1>3. \A a \in Ages : a >= m
    <2> HIDE DEF Ages
    <2> SUFFICES ASSUME NEW a \in Ages, a < m PROVE FALSE
      BY <1>1
    <2>1. <<a, m>> \in Nat \X Nat /\ <<a, m>>[1] < <<a, m>>[2]
      BY <1>1
    <2>2. <<a, m>> \in OpToRel(<, Nat)
      BY <2>1 DEF OpToRel
    <2> QED BY <1>2, <2>2, Zenon
  <1>4. PICK q \in lines : Completed(q) /\ q.ingested /\ q.age = m
    OBVIOUS
  <1>5. m <= p.age /\ p.age \in Nat
    BY <1>3 DEF LineSet
  <1>6. ~A!Forgotten(q, lines)
    BY <1>1, <1>3, <1>4, <1>5, Numbers DEF A!Forgotten, Completed, LineSet
  <1> QED BY <1>4, <1>5, <1>6 DEF A!Keep

LEMMA WaitingIsKept ==
    ASSUME NEW lines \in SUBSET LineSet, NEW l \in lines,
           Completed(l), l.age <= 16,
           ~l.ingested \/ \A n \in lines : Completed(n) => n.age >= l.age
    PROVE  l \in A!Keep(lines)
  BY Numbers DEF A!Keep, A!Forgotten, Completed, LineSet

-----------------------------------------------------------------------------
(* The schedule, and what counts as prompt.                                *)
LEMMA ScheduleStep ==
    ASSUME AlertsType, ScheduleInv, A!Next
    PROVE  ScheduleInv'
  <1>t. clock \in 0 .. 2 /\ running \subseteq Nat
    BY DEF AlertsType
  <1>1. CASE A!Start
    <2>1. /\ clock = 0 /\ clock' = 0 /\ "start" \notin due'
          /\ running' \subseteq running \cup {0}
      BY <1>1 DEF A!Start, ScheduleInv
    <2> QED BY <2>1 DEF ScheduleInv
  <1>2. CASE A!Finish
    <2>1. running' \subseteq running /\ clock' = clock /\ due' = due
      BY <1>2 DEF A!Finish
    <2> QED BY <2>1 DEF ScheduleInv
  <1>3. CASE A!Ingest
    BY <1>3 DEF A!Ingest, ScheduleInv
  <1>4. CASE A!Tick
    <2>1. /\ clock' = IF clock = 2 THEN 0 ELSE clock + 1
          /\ "start" \in due' <=> clock' = 0
          /\ running' = {age + 1 : age \in running}
      BY <1>4, <1>t, Numbers DEF A!Tick
    <2>2. \A age \in running' : age >= 1 /\ (age <= 1 => age = clock')
      BY <2>1, <1>t DEF ScheduleInv
    <2> QED BY <2>1, <2>2 DEF ScheduleInv
  <1>5. ASSUME NEW a \in A!AlertNames, A!Evaluate(a) PROVE ScheduleInv'
    <2>1. "start" \in due' <=> "start" \in due
      BY <1>5 DEF A!Evaluate, A!AlertNames
    <2> QED BY <2>1, <1>5 DEF A!Evaluate, ScheduleInv
  <1> QED BY <1>1, <1>2, <1>3, <1>4, <1>5 DEF A!Next

(* How a step changes Pending and missed: what an execution in progress    *)
(* stops being, a missed one becomes.                                      *)
LEMMA PendingSteps ==
    ASSUME AlertsType, ScheduleInv
    PROVE  /\ Pending \in {0, 1} /\ (Pending = 1 => clock <= 1)
           /\ A!Start => \/ Pending' = 1 /\ Pending = 1 /\ missed' = missed
                         \/ missed' = A!OneMore(missed) /\ Pending = 1 /\ Pending' = 0
           /\ A!Tick /\ missed' < 2
                => /\ Elapsed' = Elapsed + 1
                   /\ Pending = 0 /\ clock # 2 => Pending' = 0
           /\ A!Ingest \/ (\E a \in A!AlertNames : A!Evaluate(a))
                => Pending' = Pending
  <1>t. clock \in 0 .. 2 /\ running \subseteq Nat /\ missed \in 0 .. 2
    BY DEF AlertsType
  <1>1. Pending \in {0, 1} /\ (Pending = 1 => clock <= 1)
    BY <1>t DEF Pending, ScheduleInv
  <1>2. ASSUME A!Start
        PROVE  \/ Pending' = 1 /\ Pending = 1 /\ missed' = missed
               \/ missed' = A!OneMore(missed) /\ Pending = 1 /\ Pending' = 0
    <2>1. "start" \in due /\ "start" \notin due' /\ clock = 0
          /\ \A age \in running : ~(age <= 1)
      BY <1>2, <1>t DEF A!Start, ScheduleInv
    <2>2. \/ running' = running \cup {0} /\ missed' = missed
          \/ running' = running /\ missed' = A!OneMore(missed)
      BY <1>2 DEF A!Start
    <2> QED BY <2>1, <2>2 DEF Pending
  <1>3. ASSUME A!Tick
        PROVE  missed' < 2 => /\ Elapsed' = Elapsed + 1
                              /\ Pending = 0 /\ clock # 2 => Pending' = 0
    <2>1. /\ clock' = IF clock = 2 THEN 0 ELSE clock + 1
          /\ due = {} /\ ("start" \in due' <=> clock' = 0)
          /\ running' = {age + 1 : age \in running}
          /\ missed' = IF 1 \in running THEN A!OneMore(missed) ELSE missed
      BY <1>3, <1>t, Numbers DEF A!Tick
    <2>2. (\E age \in running' : age <= 1) <=> 0 \in running
      <3>1. ASSUME 0 \in running PROVE 1 \in running'
        <4>1. 0 + 1 \in running'
          BY <2>1, <3>1
        <4> QED BY <4>1
      <3>2. ASSUME NEW age \in running', age <= 1 PROVE 0 \in running
        <4>1. PICK b \in running : age = b + 1
          BY <2>1, <3>2
        <4>2. b = 0
          BY <3>2, <4>1, <1>t
        <4> QED BY <4>2
      <3> QED BY <3>1, <3>2
    <2>3. \A age \in running : age <= 1 <=> (age = 0 \/ age = 1)
      BY <1>t
    <2>4. /\ 0 \in running => clock = 0
          /\ 1 \in running => clock = 1
      BY <1>t DEF ScheduleInv
    <2>5. A!OneMore(missed) = IF missed = 2 THEN 2 ELSE missed + 1
      BY <1>t, CountedExecutions
    <2>6. /\ Pending = IF 0 \in running \/ 1 \in running THEN 1 ELSE 0
          /\ Pending' = IF clock' = 0 \/ 0 \in running THEN 1 ELSE 0
      BY <2>1, <2>2, <2>3 DEF Pending
    <2>7. CASE 1 \in running
      BY <2>1, <2>4, <2>5, <2>6, <2>7, <1>t DEF Elapsed
    <2>8. CASE 1 \notin running
      BY <2>1, <2>4, <2>6, <2>8, <1>t DEF Elapsed
    <2> QED BY <2>7, <2>8
  <1>4. ASSUME A!Ingest \/ (\E a \in A!AlertNames : A!Evaluate(a))
        PROVE  Pending' = Pending
    <2>1. running' = running /\ ("start" \in due' <=> "start" \in due)
      BY <1>4 DEF A!Ingest, A!Evaluate, A!AlertNames
    <2> QED BY <2>1 DEF Pending
  <1> QED BY <1>1, <1>2, <1>3, <1>4

-----------------------------------------------------------------------------
(* What NewestInv says of a line survives what Keep makes of the lines.    *)
LEMMA NewestFrom ==
    ASSUME NEW lines \in SUBSET LineSet, log' = A!Keep(lines), NEW l \in lines,
           Elapsed' \in 0 .. 8, Completed(l), l.age <= Elapsed',
           \/ l.ingested
           \/ /\ Pending' = 0
              /\ l.age + 1 >= clock'
              /\ l.gap >= 2 \/ Young(l, lines)
    PROVE  NewestInv'
  <1>l. l.age \in Nat /\ \A n \in lines : n.age \in Nat
    BY DEF LineSet
  <1>s. ASSUME NEW q \in log', q.age <= l.age PROVE q.age <= Elapsed'
    <2>1. q.age \in Nat
      BY <1>l, KeptLines
    <2> QED BY <1>s, <1>l, <2>1
  <1>1. CASE l.ingested
    <2>1. PICK q \in log' : Completed(q) /\ q.ingested /\ q.age <= l.age
      BY <1>1, <1>l, NewestIsKept
    <2>2. q.age <= Elapsed'
      BY <2>1, <1>s
    <2> QED BY <2>1, <2>2 DEF NewestInv, Completed
  <1>2. CASE ~l.ingested
    <2>1. l \in log'
      BY <1>2, <1>l, WaitingIsKept
    <2>2. Young(l, lines) => Young(l, log')
      <3> SUFFICES ASSUME NEW p \in lines, Completed(p), p.ingested,
                          p.age <= 7 + l.age
                   PROVE  Young(l, log')
        BY DEF Young
      <3>1. p.age <= 16
        BY <1>l
      <3>2. PICK q \in log' : Completed(q) /\ q.ingested /\ q.age <= p.age
        BY <3>1, NewestIsKept
      <3>3. q.age \in Nat
        BY <1>l, KeptLines
      <3> QED BY <3>2, <3>3, <1>l DEF Young
    <2> QED BY <1>2, <2>1, <2>2 DEF NewestInv, Completed, Young
  <1> QED BY <1>1, <1>2

LEMMA NewestStep ==
    ASSUME MaxDelay <= 1, AlertsType, LinesInv, ScheduleInv, NewestInv, A!Next
    PROVE  NewestInv'
  <1> SUFFICES ASSUME missed' < 2 PROVE NewestInv'
    BY DEF NewestInv
  <1>t. /\ clock \in 0 .. 2 /\ missed \in 0 .. 2 /\ running \subseteq Nat
        /\ log \subseteq LineSet /\ MaxDelay \in Nat
    BY ReportingAssumption DEF AlertsType, A!AlertsAssumption
  <1>p. Pending \in {0, 1} /\ (Pending = 1 => clock <= 1)
    BY PendingSteps
  <1>b. Elapsed' \in 0 .. 8
    <2>1. AlertsType'
      BY TypeOfAlerts
    <2>2. Pending' \in {0, 1}
      BY DEF Pending
    <2>3. missed' \in 0 .. 1 /\ clock' \in 0 .. 2
      BY <2>1 DEF AlertsType
    <2>4. \A m \in 0 .. 1, p \in {0, 1}, c \in 0 .. 2 : 3 * (m + p) + c \in 0 .. 8
      OBVIOUS
    <2> QED BY <2>2, <2>3, <2>4, Zenon DEF Elapsed
  <1>a. \A l \in log : /\ l.age \in Nat /\ l.gap \in Nat
                       /\ l.ingested \in BOOLEAN
                       /\ ~l.ingested => l.age <= 1
    BY <1>t DEF LineSet, LinesInv
  <1>e. ASSUME missed < 2
        PROVE  \E l \in log :
                 /\ Completed(l) /\ l.age <= Elapsed
                 /\ l.ingested \/ /\ Pending = 0
                                  /\ l.age + 1 >= clock
                                  /\ l.gap >= 2 \/ Young(l, log)
    BY <1>e DEF NewestInv
  <1>1. CASE A!Start
    <2>1. /\ Pending = 1 /\ log' = log /\ clock' = clock
          /\ \/ Pending' = 1 /\ missed' = missed
             \/ Pending' = 0 /\ missed' = A!OneMore(missed)
      BY <1>1, PendingSteps DEF A!Start
    <2>2. missed < 2 /\ Elapsed' = Elapsed
      BY <2>1, <1>t, CountedExecutions DEF Elapsed
    <2>3. PICK l \in log : Completed(l) /\ l.age <= Elapsed /\ l.ingested
      BY <2>1, <2>2, <1>e
    <2> QED BY <2>1, <2>2, <2>3 DEF NewestInv, Completed
  <1>2. CASE A!Finish
    <2> PICK age \in running, o \in Outcomes, d \in Drawdowns :
           /\ running' = running \ {age}
           /\ log' = A!Keep(log \cup {A!Line(e, d) : e \in A!Lines[o]})
           /\ missed' = IF age > 1 THEN missed
                        ELSE IF "cycle.completed" \in A!Lines[o]
                        THEN 0 ELSE A!OneMore(missed)
           /\ UNCHANGED <<clock, due>>
      BY <1>2, Numbers DEF A!Finish
    <2> DEFINE lines == log \cup {A!Line(e, d) : e \in A!Lines[o]}
    <2>1. \A e \in A!Lines[o] :
            LET n == A!Line(e, d)
            IN  n \in LineSet /\ n.age = 0 /\ n.event = e
                /\ (e = "cycle.completed" => n.gap = missed)
      BY WrittenLines, ReportingAssumption, <1>t
      DEF A!Line, LineSet, A!AlertsAssumption
    <2>2. lines \subseteq LineSet /\ log \subseteq lines
      BY <2>1, <1>t
    <2>k. log' = A!Keep(lines)
      OBVIOUS
    <2>3. CASE age > 1
      <3>1. Pending' = Pending
        BY <2>3, <1>t DEF Pending
      <3>2. missed < 2 /\ Elapsed' = Elapsed /\ clock' = clock
        BY <2>3, <3>1 DEF Elapsed
      <3>3. PICK l \in log :
                 /\ Completed(l) /\ l.age <= Elapsed
                 /\ l.ingested \/ /\ Pending = 0
                                  /\ l.age + 1 >= clock
                                  /\ l.gap >= 2 \/ Young(l, log)
        BY <3>2, <1>e
      <3>4. Young(l, log) => Young(l, lines)
        BY <2>2 DEF Young
      <3> HIDE DEF lines
      <3> QED BY <2>2, <2>k, <3>1, <3>2, <3>3, <3>4, <1>b, NewestFrom
    <2>4. CASE ~(age > 1)
      <3>1. age = clock /\ clock <= 1 /\ Pending = 1 /\ Pending' = 0
        BY <2>4, <1>t DEF ScheduleInv, Pending
      <3>2. ASSUME missed < 2
            PROVE  \E l \in lines : /\ Completed(l) /\ l.ingested
                                    /\ l.age <= Elapsed
        BY <3>1, <3>2, <1>e, <2>2
      <3>3. CASE "cycle.completed" \notin A!Lines[o]
        <4>1. missed < 2 /\ Elapsed' = Elapsed
          BY <2>4, <3>1, <3>3, <1>t, CountedExecutions DEF Elapsed
        <4>2. PICK l \in lines : Completed(l) /\ l.ingested /\ l.age <= Elapsed
          BY <3>2, <4>1
        <4> HIDE DEF lines
        <4> QED BY <2>2, <2>k, <4>1, <4>2, <1>b, NewestFrom
      <3>4. CASE "cycle.completed" \in A!Lines[o]
        <4> DEFINE l == A!Line("cycle.completed", d)
        <4>1. l \in lines /\ Completed(l) /\ l.age = 0 /\ l.gap = missed
          BY <2>1, <3>4 DEF Completed
        <4>2. l.gap >= 2 \/ Young(l, lines)
          <5> SUFFICES ASSUME missed < 2 PROVE Young(l, lines)
            BY <4>1, <1>t
          <5>1. PICK p \in lines : Completed(p) /\ p.ingested /\ p.age <= Elapsed
            BY <3>2
          <5>2. Elapsed <= 7 /\ Elapsed \in Nat
            BY <3>1, <1>t DEF Elapsed
          <5>3. p.age \in Nat
            BY <2>2 DEF LineSet
          <5> HIDE DEF lines, l
          <5> QED BY <4>1, <5>1, <5>2, <5>3 DEF Young
        <4> HIDE DEF lines, l
        <4>3. l.age <= Elapsed' /\ l.age + 1 >= clock'
          BY <4>1, <3>1, <1>b, <1>t
        <4> QED BY <2>2, <2>k, <3>1, <4>1, <4>2, <4>3, <1>b, NewestFrom
      <3> QED BY <3>3, <3>4
    <2> QED BY <2>3, <2>4
  <1>3. CASE A!Ingest
    <2> PICK m \in log :
           ~m.ingested
           /\ log' = A!Keep((log \ {m}) \cup {[m EXCEPT !.ingested = TRUE, !.gap = 0]})
      BY <1>3 DEF A!Ingest
    <2> DEFINE i == [m EXCEPT !.ingested = TRUE, !.gap = 0]
               lines == (log \ {m}) \cup {i}
    <2>1. i \in LineSet /\ i.ingested /\ i.age = m.age /\ i.event = m.event
      BY <1>t DEF LineSet
    <2>2. lines \subseteq LineSet
      BY <2>1, <1>t
    <2>3. missed < 2 /\ Elapsed' = Elapsed /\ Pending' = Pending /\ clock' = clock
      BY <1>3, PendingSteps DEF A!Ingest, Elapsed
    <2>4. PICK l \in log :
               /\ Completed(l) /\ l.age <= Elapsed
               /\ l.ingested \/ /\ Pending = 0
                                /\ l.age + 1 >= clock
                                /\ l.gap >= 2 \/ Young(l, log)
      BY <2>3, <1>e
    <2>k. log' = A!Keep(lines)
      OBVIOUS
    <2>5. CASE l = m
      <3>1. i \in lines /\ Completed(i) /\ i.age <= Elapsed
        BY <2>1, <2>4, <2>5 DEF Completed
      <3> HIDE DEF lines, i
      <3> QED BY <2>1, <2>2, <2>3, <2>k, <3>1, <1>b, NewestFrom
    <2>6. CASE l # m
      <3>1. l \in lines
        BY <2>6
      <3>2. Young(l, log) => Young(l, lines)
        BY DEF Young
      <3> HIDE DEF lines
      <3> QED BY <2>2, <2>3, <2>4, <2>k, <3>1, <3>2, <1>b, NewestFrom
    <2> QED BY <2>5, <2>6
  <1>4. CASE A!Tick
    <2> DEFINE Older(l) == [l EXCEPT !.age = @ + 1]
               lines == {Older(l) : l \in log}
    <2>1. /\ log' = A!Keep(lines)
          /\ missed < 2 /\ Elapsed' = Elapsed + 1 /\ Elapsed \in Nat
          /\ Pending = 0 /\ clock # 2 => Pending' = 0
          /\ clock' = IF clock = 2 THEN 0 ELSE clock + 1
          /\ \A l \in log : l.ingested \/ l.age < 1
      <3>1. \A l \in log : l.ingested \/ l.age < 1
        BY <1>4, <1>t, <1>a DEF A!Tick
      <3>2. missed < 2
        BY <1>4, <1>t, CountedExecutions DEF A!Tick
      <3>3. Elapsed \in Nat
        BY <1>p, <1>t DEF Elapsed
      <3>4. clock' = IF clock = 2 THEN 0 ELSE clock + 1
        BY <1>4, <1>t, Numbers DEF A!Tick
      <3> QED BY <1>4, <3>1, <3>2, <3>3, <3>4, PendingSteps DEF A!Tick
    <2>2. \A l \in log :
            /\ Older(l) \in LineSet /\ Older(l).age = l.age + 1
            /\ Same(Older(l), l) /\ Older(l).ingested = l.ingested
      BY <1>t DEF LineSet, Same, Like
    <2> HIDE DEF Older
    <2>3. lines \subseteq LineSet
      BY <2>2
    <2>4. PICK l \in log :
               /\ Completed(l) /\ l.age <= Elapsed
               /\ l.ingested \/ /\ Pending = 0
                                /\ l.age + 1 >= clock
                                /\ l.gap >= 2 \/ Young(l, log)
      BY <2>1, <1>e
    <2>5. /\ Older(l) \in lines /\ Completed(Older(l))
          /\ Older(l).age <= Elapsed'
      BY <2>1, <2>2, <2>4, <1>a DEF Same, Like, Completed
    <2>6. Young(l, log) => Young(Older(l), lines)
      <3> SUFFICES ASSUME NEW p \in log, Completed(p), p.ingested,
                          p.age <= 7 + l.age
                   PROVE  Young(Older(l), lines)
        BY DEF Young
      <3>1. /\ Older(p) \in lines /\ Completed(Older(p)) /\ Older(p).ingested
            /\ Older(p).age <= 7 + Older(l).age
        BY <2>2, <1>a DEF Same, Like, Completed
      <3> QED BY <3>1 DEF Young
    <2>7. Older(l).ingested \/ /\ Pending' = 0
                               /\ Older(l).age + 1 >= clock'
                               /\ Older(l).gap >= 2 \/ Young(Older(l), lines)
      BY <2>1, <2>2, <2>4, <2>6, <1>a, <1>t DEF Same, Like
    <2> HIDE DEF lines
    <2> QED BY <2>1, <2>3, <2>5, <2>7, <1>b, NewestFrom
  <1>5. ASSUME NEW a \in A!AlertNames, A!Evaluate(a) PROVE NewestInv'
    <2> PICK edge \in {0, 1} :
           log' = A!Keep((log \ A!InWindow(a, edge)) \cup
                 {[l EXCEPT !.reported = @ \/ A!Reported(a, l)] :
                      l \in A!InWindow(a, edge)})
      BY <1>5 DEF A!Evaluate
    <2> DEFINE W == A!InWindow(a, edge)
               Looked(l) == [l EXCEPT !.reported = @ \/ A!Reported(a, l)]
               lines == (log \ W) \cup {Looked(l) : l \in W}
               Become(l) == IF l \in W THEN Looked(l) ELSE l
    <2>1. W \subseteq log
      BY DEF A!InWindow
    <2>2. \A l \in log :
            /\ Looked(l) \in LineSet /\ Same(Looked(l), l)
            /\ Looked(l).age = l.age /\ Looked(l).ingested = l.ingested
      <3> TAKE l \in log
      <3>1. l.reported \/ A!Reported(a, l) \in BOOLEAN
        BY <1>t DEF LineSet, A!Reported, A!AlertNames
      <3> QED BY <3>1, <1>t DEF LineSet, Same, Like
    <2>k. log' = A!Keep(lines)
      OBVIOUS
    <2> HIDE DEF W, Looked
    <2>3. /\ lines = {Become(l) : l \in log}
          /\ \A l \in log :
               /\ Become(l) \in LineSet /\ Same(Become(l), l)
               /\ Become(l).age = l.age /\ Become(l).ingested = l.ingested
      BY <2>1, <2>2, <1>t DEF Same, Like
    <2> HIDE DEF lines, Become
    <2>4. lines \subseteq LineSet
      BY <2>3
    <2>5. missed < 2 /\ Elapsed' = Elapsed /\ Pending' = Pending /\ clock' = clock
      BY <1>5, PendingSteps DEF A!Evaluate, Elapsed
    <2>6. PICK l \in log :
               /\ Completed(l) /\ l.age <= Elapsed
               /\ l.ingested \/ /\ Pending = 0
                                /\ l.age + 1 >= clock
                                /\ l.gap >= 2 \/ Young(l, log)
      BY <2>5, <1>e
    <2>7. /\ Become(l) \in lines /\ Completed(Become(l))
          /\ Become(l).age <= Elapsed'
      BY <2>3, <2>5, <2>6 DEF Same, Like, Completed
    <2>8. Young(l, log) => Young(Become(l), lines)
      <3> SUFFICES ASSUME NEW p \in log, Completed(p), p.ingested,
                          p.age <= 7 + l.age
                   PROVE  Young(Become(l), lines)
        BY DEF Young
      <3>1. /\ Become(p) \in lines /\ Completed(Become(p)) /\ Become(p).ingested
            /\ Become(p).age <= 7 + Become(l).age
        BY <2>3, <1>a DEF Same, Like, Completed
      <3> QED BY <3>1 DEF Young
    <2>9. Become(l).ingested \/ /\ Pending' = 0
                                /\ Become(l).age + 1 >= clock'
                                /\ Become(l).gap >= 2 \/ Young(Become(l), lines)
      BY <2>3, <2>5, <2>6, <2>8 DEF Same, Like
    <2> QED BY <2>k, <2>4, <2>7, <2>9, <1>b, NewestFrom
  <1> QED BY <1>1, <1>2, <1>3, <1>4, <1>5 DEF A!Next

-----------------------------------------------------------------------------
(* The invariants of the alerts; a step of a process leaves them alone.    *)

LEMMA AlertsRest ==
    ASSUME [Next]_vars
    PROVE  A!Next \/ UNCHANGED alerts
  BY DEF Next, ProcessStep, AlertsStep, vars

LEMMA SilenceInvariant == Spec => [](AlertsType /\ SilenceInv)
  <1>1. Init => AlertsType /\ SilenceInv
    <2> SUFFICES ASSUME Init PROVE SilenceInv
      BY TypeOfAlerts
    <2>1. AlertsType
      BY TypeOfAlerts
    <2>2. sinceCompleted = 0 /\ due = {}
      BY DEF Init, A!Init
    <2>3. SinceEvaluated("no_cycle") \in 0 .. 5
      BY <2>1, EvaluationsAge
    <2> QED BY <2>1, <2>2, <2>3 DEF SilenceInv, AlertsType, LineSet
  <1>2. AlertsType /\ SilenceInv /\ [Next]_vars => (AlertsType /\ SilenceInv)'
    <2> SUFFICES ASSUME AlertsType, SilenceInv, [Next]_vars
                 PROVE  AlertsType' /\ SilenceInv'
      OBVIOUS
    <2>1. CASE A!Next
      BY <2>1, TypeOfAlerts, SilenceStep
    <2>2. CASE UNCHANGED alerts
      BY <2>2 DEF alerts, AlertsType, SilenceInv, SinceEvaluated, Completed
    <2> QED BY <2>1, <2>2, AlertsRest
  <1> QED BY <1>1, <1>2, PTL DEF Spec

LEMMA LinesInvariant ==
    ASSUME MaxDelay <= 1 PROVE Spec => []LinesInv
  <1>1. Init => LinesInv
    <2> SUFFICES ASSUME A!Init PROVE LinesInv
      BY DEF Init
    <2>1. \A l \in log : l.event = "cycle.completed" /\ l.ingested /\ l.drawdown = 0
      BY DEF A!Init
    <2> QED BY <2>1 DEF LinesInv
  <1>2. AlertsType /\ LinesInv /\ [Next]_vars => LinesInv'
    <2> SUFFICES ASSUME AlertsType, LinesInv, [Next]_vars PROVE LinesInv'
      OBVIOUS
    <2>1. CASE A!Next
      BY <2>1, LinesStep
    <2>2. CASE UNCHANGED alerts
      BY <2>2 DEF alerts, LinesInv, SinceEvaluated, Completed
    <2> QED BY <2>1, <2>2, AlertsRest
  <1> QED BY <1>1, <1>2, SilenceInvariant, PTL DEF Spec

LEMMA ScheduleInvariant ==
    ASSUME MaxDelay <= 1
    PROVE  Spec => [](ScheduleInv /\ NewestInv)
  <1>1. Init => ScheduleInv /\ NewestInv
    <2> SUFFICES ASSUME A!Init PROVE ScheduleInv /\ NewestInv
      BY DEF Init
    <2>1. ScheduleInv
      BY DEF A!Init, ScheduleInv
    <2>2. \E l \in log : Completed(l) /\ l.age = 0 /\ l.ingested
      BY DEF A!Init, Completed
    <2>3. Elapsed \in Nat
      BY DEF A!Init, Elapsed, Pending
    <2> QED BY <2>1, <2>2, <2>3 DEF NewestInv
  <1>2. /\ AlertsType /\ LinesInv /\ ScheduleInv /\ NewestInv /\ [Next]_vars
        => (ScheduleInv /\ NewestInv)'
    <2> SUFFICES ASSUME AlertsType, LinesInv, ScheduleInv, NewestInv, [Next]_vars
                 PROVE  ScheduleInv' /\ NewestInv'
      OBVIOUS
    <2>1. CASE A!Next
      BY <2>1, ScheduleStep, NewestStep
    <2>2. CASE UNCHANGED alerts
      BY <2>2 DEF alerts, ScheduleInv, NewestInv, Elapsed, Pending, Completed, Young
    <2> QED BY <2>1, <2>2, AlertsRest
  <1> QED BY <1>1, <1>2, SilenceInvariant, LinesInvariant, PTL DEF Spec

(* An hour without a completed cycle has made the absence alert fire,      *)
(* whatever became of the executions and of the ingestion.                 *)
THEOREM SilenceIsReportedAlways == Spec => []SilenceIsReported
  <1>1. AlertsType /\ SilenceInv => SilenceIsReported
    <2> SUFFICES ASSUME AlertsType, SilenceInv PROVE SilenceIsReported
      OBVIOUS
    <2>1. SinceEvaluated("no_cycle") \in 0 .. 5
      BY EvaluationsAge
    <2>2. sinceCompleted > 12 => firing["no_cycle"]
      <3>1. SinceEvaluated("no_cycle") <= 3
        BY DEF SinceEvaluated, AlertsType, SilenceInv
      <3> QED BY <2>1, <3>1 DEF SilenceInv, AlertsType
    <2> QED BY <2>2, Numbers DEF SilenceIsReported, A!SilenceIsReported
  <1> QED BY <1>1, SilenceInvariant, PTL

(* With lines ingested within five minutes, no failure and no large        *)
(* drawdown ages beyond its alert's windows without being reported.        *)
THEOREM LinesAreReportedAlways ==
    ASSUME MaxDelay <= 1 PROVE Spec => []LinesAreReported
  <1>1. AlertsType /\ LinesInv => LinesAreReported
    <2> SUFFICES ASSUME AlertsType, LinesInv PROVE LinesAreReported
      OBVIOUS
    <2>1. SinceEvaluated("drawdown") \in 0 .. 5
      BY EvaluationsAge
    <2>2. \A l \in log : l.age \in Nat
      BY DEF AlertsType, LineSet
    <2> QED
      BY <2>1, <2>2, Numbers
      DEF LinesInv, LinesAreReported, A!LinesAreReported, A!AlertDrawdown, Completed
  <1> QED BY <1>1, SilenceInvariant, LinesInvariant, PTL

(* With lines ingested within a tick, the absence alert starts to fire     *)
(* only after two executions in a row that were due did not complete       *)
(* promptly, however long the others take.                                 *)
THEOREM TransientsAreIgnoredAlways ==
    ASSUME MaxDelay <= 1 PROVE Spec => TransientsAreIgnored
  <1>1. /\ AlertsType /\ LinesInv /\ ScheduleInv /\ NewestInv
        /\ [Next]_vars
        => [A!StartsToFire("no_cycle") => A!Missed(2)]_(A!vars)
    <2> SUFFICES ASSUME AlertsType, LinesInv, ScheduleInv, NewestInv,
                        [Next]_vars, A!StartsToFire("no_cycle")
                 PROVE  A!Missed(2)
      OBVIOUS
    <2>1. A!Evaluate("no_cycle")
      <3>1. firing' # firing
        BY DEF A!StartsToFire
      <3>2. ~A!Start /\ ~A!Finish /\ ~A!Ingest /\ ~A!Tick
        BY <3>1 DEF A!Start, A!Finish, A!Ingest, A!Tick
      <3>3. PICK a \in A!AlertNames : A!Evaluate(a)
        BY <3>1, <3>2, AlertsRest DEF A!Next, alerts
      <3>4. a = "no_cycle"
        <4>1. firing' = [firing EXCEPT ![a] = firing'[a]]
          BY <3>3 DEF A!Evaluate, AlertsType
        <4> QED BY <4>1 DEF A!StartsToFire, AlertsType, A!AlertNames
      <3> QED BY <3>3, <3>4
    <2>2. PICK edge \in {0, 1} :
            firing' = [firing EXCEPT
              !["no_cycle"] = A!Fires("no_cycle", A!InWindow("no_cycle", edge))]
      BY <2>1 DEF A!Evaluate
    <2>3. \A l \in log : Completed(l) /\ l.ingested => ~(l.age < 9)
      <3>1. firing'["no_cycle"]
        BY DEF A!StartsToFire
      <3>2. A!Fires("no_cycle", A!InWindow("no_cycle", edge))
        BY <2>2, <3>1 DEF AlertsType, A!AlertNames
      <3>3. \A l \in A!InWindow("no_cycle", edge) : ~Completed(l)
        BY <3>2 DEF A!Fires, Completed
      <3>4. \A l \in log : l.age \in Nat
        BY DEF AlertsType, LineSet
      <3> QED BY <3>3, <3>4, Numbers DEF A!InWindow
    <2>4. SUFFICES ASSUME missed < 2 PROVE A!Missed(2)
      BY DEF A!Missed, AlertsType
    <2>5. Elapsed <= 7 /\ Elapsed \in Nat
      <3>1. Pending \in {0, 1} /\ (Pending = 1 => clock <= 1)
        BY PendingSteps
      <3> QED BY <2>4, <3>1 DEF Elapsed, AlertsType
    <2>6. PICK l \in log :
            /\ Completed(l) /\ l.age <= Elapsed
            /\ l.ingested \/ l.gap >= 2 \/ Young(l, log)
      BY <2>4 DEF NewestInv
    <2>7. ~l.ingested /\ l.age \in Nat /\ l.age <= 1
      <3>1. l.age \in Nat /\ MaxDelay \in Nat
        BY ReportingAssumption DEF AlertsType, LineSet, A!AlertsAssumption
      <3>2. ~l.ingested
        BY <2>3, <2>5, <2>6, <3>1
      <3> QED BY <3>1, <3>2 DEF LinesInv
    <2>8. ~Young(l, log)
      BY <2>3, <2>7 DEF AlertsType, LineSet, Young
    <2> QED BY <2>6, <2>7, <2>8 DEF A!Missed
  <1> QED
    BY <1>1, SilenceInvariant, LinesInvariant, ScheduleInvariant, PTL
    DEF Spec, TransientsAreIgnored, A!TransientsAreIgnored
=============================================================================
