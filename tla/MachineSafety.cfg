SPECIFICATION Spec
CONSTANTS
    RefPairs <- PersistedRefs
    ChecksBootstrap = {"ssh", "none", "unsupported"}
    MaxFailures = 2
    Disruptions = {"holdUp", "addressLost", "restart", "vmLost", "nodeDeleted"}
INVARIANTS
    TypeOK
    NoVMLeaked
    SecretLeaksOnlyByFailure
    ReadyMeansBootstrapped
PROPERTY
    MachineImplementsContract
CHECK_DEADLOCK FALSE
