SPECIFICATION Spec
CONSTANTS
    GracePeriod = 1
    MaxFailures = 1
    MaxMigrations = 1
    DecodeKeeps = {TRUE, FALSE}
INVARIANT TypeOK
PROPERTIES
    NodeStaysCordonedUntilVMIIsBack
    DrainedOrTimedOut
    MarkerOutlivesCordon
    EvictionImplementsContract
CONSTANT Disruptions = {"kill", "callOff", "abandon", "adminDelete"}
