------------------------------ MODULE Process -------------------------------
(***************************************************************************)
(* One process of the trading job, from its environment variables to its   *)
(* exit code: main() (__main__.py) with the settings it validates          *)
(* (config.py), what it wires up (bootstrap.py), the metrics it buffers    *)
(* (observability/telemetry.py) and the events it logs                     *)
(* (observability/logging.py).  The cycle appears with its effects on      *)
(* metrics, events and the transaction; its decisions are those of module  *)
(* TradingCycle, whose attempts make the same promise (module JobAttempt). *)
(***************************************************************************)
EXTENDS Naturals

CONSTANTS
    WindowSizes,   \* candidate values of BOT_SMA_FAST, BOT_SMA_SLOW
    Limits,        \* candidate values of BOT_CANDLE_LIMIT
    LogLevels      \* candidate values of BOT_LOG_LEVEL

Severity == [DEBUG |-> 10, INFO |-> 20, WARNING |-> 30, ERROR |-> 40]

ProcessAssumption ==
    /\ WindowSizes \subseteq Nat
    /\ Limits \subseteq Nat
    /\ LogLevels \subseteq DOMAIN Severity

VARIABLES
    env,          \* the environment variables, and the URLs ccxt's client ends
                  \* up with: a test network's, live ones, or both
    pc,           \* the statement main is about to execute
    exporter,     \* the telemetry in use: "unset", "null" or "azure"
    recorded,     \* metrics recorded and still in the process
    exported,     \* metrics that left the process
    flush,        \* what became of flush()
    logs,         \* the events written to stdout
    transaction,  \* the database transaction
    error,        \* the exception being handled: "none", "known", "unknown"
    code          \* "running", "ok", "failed", or "killed" by the platform

vars == <<env, pc, exporter, recorded, exported, flush, logs, transaction,
          error, code>>

-----------------------------------------------------------------------------
Settings == [sandbox : BOOLEAN, smaFast : WindowSizes, smaSlow : WindowSizes,
             candleLimit : Limits, backend : {"simulated", "ccxt_sandbox"},
             credentials : BOOLEAN, urls : SUBSET {"test", "live"},
             database : BOOLEAN,
             connection : {"none", "unusable", "usable"},
             logLevel : LogLevels]

Metrics == {"decision", "equity", "latency", "duration", "error"}

(* The locations of main inside its try block, before the handlers.        *)
InTry == {"build", "fetch", "decide", "submit", "book", "complete", "commit"}

Init ==
    /\ env \in Settings
    /\ pc = "settings"
    /\ exporter = "unset"
    /\ recorded = {}
    /\ exported = {}
    /\ flush = "pending"
    /\ logs = {}
    /\ transaction = "none"
    /\ error = "none"
    /\ code = "running"

-----------------------------------------------------------------------------
(* Settings(): the constraints of the fields, then the validators.         *)

FieldsInRange == env.smaFast >= 2 /\ env.smaSlow >= 3
                 /\ env.candleLimit \in 2 .. 1000

EnforceSandbox == env.sandbox

CheckStrategyWindows ==
    /\ env.smaFast < env.smaSlow
    /\ env.candleLimit > env.smaSlow

CheckBackendCredentials ==
    env.backend = "ccxt_sandbox" => env.credentials

SettingsAreValid ==
    /\ FieldsInRange
    /\ EnforceSandbox
    /\ CheckStrategyWindows
    /\ CheckBackendCredentials

(* What CcxtSandboxExchange checks of its client: one marker of a test     *)
(* network anywhere in the joined URLs is enough.                          *)
UrlsLookLikeATestnet == "test" \in env.urls

(* The filtering bound logger drops events below the configured level.     *)
Emitted(event, level) ==
    IF Severity[level] >= Severity[env.logLevel] THEN {event} ELSE {}

Emit(event, level) == logs' = logs \cup Emitted(event, level)

(* The null exporter forgets what it is told.                              *)
Record(metrics) ==
    recorded' = IF exporter = "azure" THEN recorded \cup metrics ELSE recorded

-----------------------------------------------------------------------------
(* Outside the try block: an exception ends the process with a traceback   *)
(* and the exit code of a failure, and nothing is logged or flushed.       *)
Uncaught ==
    /\ pc' = "ended"
    /\ code' = "failed"

(* Inside: the session's context manager rolls back, a handler takes over. *)
Raise(kind) ==
    /\ pc' = "handle"
    /\ error' = kind
    /\ transaction' = "rolled_back"

Kinds == {"known", "unknown"}    \* TradingBotError, any other Exception

LoadSettings ==
    /\ pc = "settings"
    /\ \/ SettingsAreValid /\ pc' = "telemetry" /\ UNCHANGED code
       \/ ~SettingsAreValid /\ Uncaught
    /\ UNCHANGED <<env, exporter, recorded, exported, flush, logs,
                   transaction, error>>

\* A mutant: the exception of the exporter's constructor is not caught.
BuildTelemetryOrStop ==
    /\ pc = "telemetry"
    /\ \/ /\ env.connection = "none"
          /\ exporter' = "null" /\ pc' = "database" /\ UNCHANGED code
       \/ /\ env.connection = "usable"
          /\ exporter' = "azure" /\ pc' = "database" /\ UNCHANGED code
       \/ env.connection # "none" /\ Uncaught /\ UNCHANGED exporter
    /\ UNCHANGED <<env, recorded, exported, flush, logs, transaction, error>>

BuildTelemetry ==
    /\ pc = "telemetry"
    /\ \/ /\ env.connection = "none"
          /\ exporter' = "null"
          /\ UNCHANGED logs
       \/ /\ env.connection = "usable"
          /\ exporter' = "azure"
          /\ UNCHANGED logs
       \/ /\ env.connection # "none"      \* the exporter cannot be built
          /\ exporter' = "null"
          /\ Emit("telemetry.unavailable", "WARNING")
    /\ pc' = "database"
    /\ UNCHANGED <<env, recorded, exported, flush, transaction, error, code>>

RequireDatabaseUrl ==
    /\ pc = "database"
    /\ \/ env.database /\ pc' = "build" /\ UNCHANGED code
       \/ ~env.database /\ Uncaught
    /\ UNCHANGED <<env, exporter, recorded, exported, flush, logs,
                   transaction, error>>

(* The session opens, and build_cycle selects the venue.  The ccxt gateway *)
(* may not know the exchange, may not import, or may refuse its own URLs.  *)
BuildCycle ==
    /\ pc = "build"
    /\ \/ /\ env.backend = "ccxt_sandbox" => UrlsLookLikeATestnet
          /\ pc' = "fetch"
          /\ transaction' = "open"
          /\ UNCHANGED error
       \/ /\ env.backend = "ccxt_sandbox"
          /\ ~UrlsLookLikeATestnet
          /\ Raise("known")
       \/ /\ env.backend = "ccxt_sandbox"
          /\ \E kind \in Kinds : Raise(kind)
    /\ UNCHANGED <<env, exporter, recorded, exported, flush, logs, code>>

Fetch ==
    /\ pc = "fetch"
    /\ \/ pc' = "decide" /\ UNCHANGED <<transaction, error>>
       \/ \E kind \in Kinds : Raise(kind)
    /\ UNCHANGED <<env, exporter, recorded, exported, flush, logs, code>>

(* The reads may raise before the decision is logged; an order may turn    *)
(* out to be a duplicate after.                                            *)
Decide ==
    /\ pc = "decide"
    /\ \/ \E kind \in Kinds : Raise(kind) /\ UNCHANGED logs
       \/ Emit("cycle.decision", "INFO") /\ Raise("unknown")
       \/ /\ Emit("cycle.decision", "INFO")
          /\ pc' \in {"submit", "complete"}
          /\ UNCHANGED <<transaction, error>>
       \/ /\ logs' = logs
                \cup Emitted("cycle.decision", "INFO")
                \cup Emitted("cycle.duplicate_suppressed", "WARNING")
          /\ pc' = "complete"
          /\ UNCHANGED <<transaction, error>>
    /\ UNCHANGED <<env, exporter, recorded, exported, flush, code>>

(* gateway.submit; the latency is recorded when it returns.                *)
Submit ==
    /\ pc = "submit"
    /\ \/ Raise("unknown") /\ UNCHANGED recorded
       \/ Record({"latency"}) /\ pc' = "book" /\ UNCHANGED <<transaction, error>>
    /\ UNCHANGED <<env, exporter, exported, flush, logs, code>>

(* record_execution, apply_execution, save_position.                       *)
BookExecution ==
    /\ pc = "book"
    /\ \/ Raise("unknown") /\ UNCHANGED logs
       \/ /\ Emit("cycle.executed", "INFO")
          /\ pc' = "complete"
          /\ UNCHANGED <<transaction, error>>
    /\ UNCHANGED <<env, exporter, recorded, exported, flush, code>>

(* The end of _run and of run: the last metrics, and cycle.completed,      *)
(* which is logged before the transaction is committed.                    *)
Complete ==
    /\ pc = "complete"
    /\ Record({"decision", "equity", "duration"})
    /\ Emit("cycle.completed", "INFO")
    /\ pc' = "commit"
    /\ UNCHANGED <<env, exporter, exported, flush, transaction, error, code>>

(* session.commit() and the end of the session's context: an exception     *)
(* leaves the transaction rolled back, or, when the answer to COMMIT is    *)
(* lost or the session fails to close, committed.                          *)
Commit ==
    /\ pc = "commit"
    /\ \/ pc' = "flush" /\ transaction' = "committed" /\ UNCHANGED error
       \/ Raise("unknown")
       \/ pc' = "handle" /\ transaction' = "committed" /\ error' = "unknown"
    /\ UNCHANGED <<env, exporter, recorded, exported, flush, logs, code>>

\* A mutant: the error is counted in the finally clause, after the flush.
HandleAfterFlush ==
    /\ pc = "handle"
    /\ Record({"error"})
    /\ Emit(IF error = "known" THEN "cycle.failed" ELSE "cycle.crashed",
            "ERROR")
    /\ pc' = "exit"
    /\ UNCHANGED <<env, exporter, exported, flush, transaction, error, code>>

\* A mutant: only errors of this package are counted.
HandleUncounted ==
    /\ pc = "handle"
    /\ Record({m \in {"error"} : error = "known"})
    /\ Emit(IF error = "known" THEN "cycle.failed" ELSE "cycle.crashed",
            "ERROR")
    /\ pc' = "flush"
    /\ UNCHANGED <<env, exporter, exported, flush, transaction, error, code>>

\* A mutant: only errors of this package are logged.
HandleUnlogged ==
    /\ pc = "handle"
    /\ Record({"error"})
    /\ IF error = "known" THEN Emit("cycle.failed", "ERROR") ELSE UNCHANGED logs
    /\ pc' = "flush"
    /\ UNCHANGED <<env, exporter, exported, flush, transaction, error, code>>

(* The two except clauses. *)
Handle ==
    /\ pc = "handle"
    /\ Record({"error"})
    /\ Emit(IF error = "known" THEN "cycle.failed" ELSE "cycle.crashed",
            "ERROR")
    /\ pc' = "flush"
    /\ UNCHANGED <<env, exporter, exported, flush, transaction, error, code>>

(* telemetry.flush() in the finally clause, whatever happened before.  An  *)
(* exception it raises replaces the pending return, and dispose is skipped.*)
Flush ==
    /\ pc = "flush"
    /\ \/ /\ exporter = "null"
          /\ flush' = "done"
          /\ pc' = "exit"
          /\ UNCHANGED <<recorded, exported, logs, code>>
       \/ /\ exporter = "azure"
          /\ flush' = "done"
          /\ exported' = exported \cup recorded
          /\ recorded' = {}
          /\ pc' = "exit"
          /\ UNCHANGED <<logs, code>>
       \/ /\ exporter = "azure"
          /\ flush' = "unsupported"
          /\ Emit("telemetry.flush_unsupported", "WARNING")
          /\ pc' = "exit"
          /\ UNCHANGED <<recorded, exported, code>>
       \/ /\ exporter = "azure"
          /\ flush' = "raised"
          /\ Uncaught
          /\ UNCHANGED <<recorded, exported, logs>>
    /\ UNCHANGED <<env, exporter, transaction, error>>

\* A mutant: the error is swallowed.
ExitSwallowing ==
    /\ pc = "exit"
    /\ pc' = "ended"
    /\ Emit("cycle.exit", "INFO")
    /\ code' = "ok"
    /\ UNCHANGED <<env, exporter, recorded, exported, flush, transaction, error>>

(* dispose, cycle.exit, and the value main returns. *)
Exit ==
    /\ pc = "exit"
    /\ pc' = "ended"
    /\ \/ /\ error = "none"
          /\ Emit("cycle.exit", "INFO")
          /\ code' = "ok"
       \/ /\ error # "none"
          /\ code' = "failed"
          /\ UNCHANGED logs
    /\ UNCHANGED <<env, exporter, recorded, exported, flush, transaction, error>>

(* The replica timeout, or the node, ends the process between any two      *)
(* statements; the database rolls an open transaction back.                *)
Kill ==
    /\ pc # "ended"
    /\ pc' = "ended"
    /\ code' = "killed"
    /\ transaction' = IF transaction = "open" THEN "rolled_back" ELSE transaction
    /\ UNCHANGED <<env, exporter, recorded, exported, flush, logs, error>>

Next ==
    \/ LoadSettings \/ BuildTelemetry \/ RequireDatabaseUrl
    \/ BuildCycle \/ Fetch \/ Decide \/ Submit \/ BookExecution \/ Complete
    \/ Commit \/ Handle \/ Flush \/ Exit \/ Kill

Spec == Init /\ [][Next]_vars

-----------------------------------------------------------------------------
(* A metric that was recorded has left the process when it ends by itself, *)
(* on success as after an error, unless the flush itself did not work: the *)
(* finally clause of main stands after every recording.                    *)
NothingRecordedIsLost ==
    code \in {"ok", "failed"} /\ recorded # {}
        => flush \in {"unsupported", "raised"}

(* What a reader of the exported metrics and of the log may conclude:      *)
(* without an error, the transaction was committed; with an error and no   *)
(* duration, or with cycle.failed, it was rolled back; after a cycle.exit  *)
(* it was committed.  Only an error that follows the whole cycle leaves it *)
(* open, and a crash that did commit has logged its cycle.completed.  The  *)
(* order of recording, commit, handlers and flush is what makes this so.   *)
ReportsTellTheTransaction ==
    /\ exported # {} /\ "error" \notin exported => transaction = "committed"
    /\ "error" \in exported /\ "duration" \notin exported
           => transaction = "rolled_back"
    /\ "cycle.failed" \in logs => transaction = "rolled_back"
    /\ "cycle.crashed" \in logs /\ transaction = "committed"
           => Emitted("cycle.completed", "INFO") \subseteq logs
    /\ "cycle.exit" \in logs => transaction = "committed"

(* cycle.completed is logged before the commit.  When the commit then      *)
(* fails, the log of a process that ends by itself says so: a completion   *)
(* that was rolled back is followed by cycle.crashed, at any log level.    *)
FalseCompletionIsContradicted ==
    code \in {"ok", "failed"} /\ "cycle.completed" \in logs
        /\ transaction = "rolled_back" => "cycle.crashed" \in logs

(* A monitoring connection that cannot be built does not keep the process  *)
(* from its cycle: without a transaction it only fails for its settings or *)
(* its database (telemetry.py:154, "Losing telemetry must never stop the   *)
(* bot trading").                                                          *)
TelemetryNeverPreventsTheCycle ==
    code = "failed" /\ transaction = "none" =>
        ~SettingsAreValid \/ ~env.database

(* The promise of module JobAttempt, with a kill as a failure.             *)
Stage ==
    CASE code = "ok" -> "succeeded"
      [] code \in {"failed", "killed"} -> "failed"
      [] transaction = "committed" -> "booked"
      [] OTHER -> "running"

Promise == INSTANCE JobAttempt WITH stage <- Stage

(* main says success exactly of a committed transaction, books at most     *)
(* once, and never succeeds after an error.                                *)
ImplementsAttempt == Promise!Spec
=============================================================================
