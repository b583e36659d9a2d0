SPECIFICATION FairSpec
CONSTANTS
    GracePeriod = 1
    MaxFailures = 1
    MaxMigrations = 1
    DecodeKeeps = {TRUE}
    Disruptions = {}
PROPERTY CordonReleased
