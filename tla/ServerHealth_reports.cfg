CONSTANTS
    Unset = Unset
    Missing = Missing
    h1 = h1
    h2 = h2
    Varied = {"CLICKHOUSE_URL", "BACKUP_ENABLED"}
    Environments <- MCEnvironments
    Checks = {"configuration", "database", "storage"}
    NonCritical = {"storage"}
    Buckets <- MCBuckets
    Runs = {h1, h2}
    MaxChecks = 2
    MaxChanges = 2
SPECIFICATION FairSpec
INVARIANTS
    TypeOK
    LoadedConfigIsHealthy
PROPERTIES
    ProfileIsKept
    ReportIsTrue
    ReportEnds
CHECK_DEADLOCK FALSE
