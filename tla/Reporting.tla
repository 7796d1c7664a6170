------------------------------ MODULE Reporting ------------------------------
(***************************************************************************)
(* Process and Alerts for TLC in one run: what an execution says of        *)
(* itself, and what the alerts make of what executions say.  They share no *)
(* state: a behaviour belongs to the component its first state names, and  *)
(* the other rests.                                                        *)
(***************************************************************************)
EXTENDS Naturals

CONSTANTS WindowSizes, Limits, LogLevels, Outcomes, MaxDuration, MaxDelay, Drawdowns

VARIABLES
    component,
    env, pc, exporter, recorded, exported, flush, logs, transaction, error, code,
    clock, phase, due, running, log, firing, missed, sinceCompleted

P == INSTANCE Process
A == INSTANCE Alerts

process == <<env, pc, exporter, recorded, exported, flush, logs, transaction,
             error, code>>
alerts == <<clock, phase, due, running, log, firing, missed, sinceCompleted>>

vars == <<component, process, alerts>>

ASSUME ReportingAssumption == P!ProcessAssumption /\ A!AlertsAssumption

Init ==
    /\ component \in {"Process", "Alerts"}
    /\ component = "Alerts" => env = CHOOSE e \in P!Settings : TRUE
    /\ component = "Process" => phase = 0
    /\ P!Init /\ A!Init

ProcessStep == component = "Process" /\ P!Next /\ UNCHANGED <<component, alerts>>

AlertsStep == component = "Alerts" /\ A!Next /\ UNCHANGED <<component, process>>

Next == ProcessStep \/ AlertsStep

Spec == Init /\ [][Next]_vars

-----------------------------------------------------------------------------
(* Metrics recorded by a process that ends are exported (main, flush).     *)
NothingRecordedIsLost == P!NothingRecordedIsLost

(* What metrics and log say of a cycle is what became of its transaction.  *)
ReportsTellTheTransaction == P!ReportsTellTheTransaction

(* A completion logged and then rolled back is contradicted in the log.    *)
FalseCompletionIsContradicted == P!FalseCompletionIsContradicted

(* Nothing about telemetry keeps a cycle from starting.                    *)
TelemetryNeverPreventsTheCycle == P!TelemetryNeverPreventsTheCycle

(* main implements the promise of an attempt, JobAttempt.                  *)
ImplementsAttempt == P!ImplementsAttempt

(* Silence has made the absence alert fire after an hour.                  *)
SilenceIsReported == A!SilenceIsReported

(* Every failure logged and every large drawdown is seen by an evaluation. *)
LinesAreReported == A!LinesAreReported

(* One missed execution among prompt ones does not make the absence alert  *)
(* fire.                                                                   *)
TransientsAreIgnored == A!TransientsAreIgnored
=============================================================================
