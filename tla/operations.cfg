SPECIFICATION Spec
CONSTANTS
    Runs = {1, 2, 3}
    Migrators = {m1, m2}
    MaxCommands = 4
    Project = Project
    Other = Other
    Untagged = Untagged
    Count = 2
INVARIANTS GreenMeansDeployed SchemaLagsOnlyWhileDeploying OnlyAbandonedMigrationsOverlap VersionTellsTheSchema OnlyRivalsMakeItFail StopsExactlyTheProject
PROPERTIES PipelinesEnd
CHECK_DEADLOCK FALSE
