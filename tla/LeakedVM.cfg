SPECIFICATION Spec
CONSTANTS
    RefPairs <- DefaultedRefs
    ChecksBootstrap = {"ssh"}
    MaxFailures = 0
    Disruptions = {}
INVARIANT NoVMLeaked
CHECK_DEADLOCK FALSE
