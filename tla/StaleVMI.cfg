SPECIFICATION Spec
CONSTANTS
    GracePeriod = 2
    MaxFailures = 0
    MaxMigrations = 2
    DecodeKeeps = {TRUE}
    Disruptions = {"kill"}
PROPERTY EvictsOnlyMarkedVMI
