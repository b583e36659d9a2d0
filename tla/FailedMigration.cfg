SPECIFICATION FairSpec
CONSTANTS
    GracePeriod = 2
    MaxFailures = 0
    MaxMigrations = 2
    DecodeKeeps = {FALSE}
    Disruptions = {}
PROPERTY FailedMigrationEnds
