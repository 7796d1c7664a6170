SPECIFICATION Spec
CONSTANTS
    WindowSizes = {1, 2, 3}
    Limits = {3, 4}
    LogLevels = {"INFO", "WARNING"}
    Outcomes = {"committed", "commit_failed", "failed", "silent", "killed_late"}
    MaxDuration = 4
    MaxDelay = 1
    Drawdowns = {0, 600}
INVARIANTS NothingRecordedIsLost ReportsTellTheTransaction FalseCompletionIsContradicted TelemetryNeverPreventsTheCycle SilenceIsReported LinesAreReported
PROPERTIES ImplementsAttempt TransientsAreIgnored
CHECK_DEADLOCK FALSE
