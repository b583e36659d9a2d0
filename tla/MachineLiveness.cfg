SPECIFICATION FairSpec
CONSTANTS
    RefPairs <- ExternalRefs
    ChecksBootstrap = {"ssh"}
    MaxFailures = 1
    Disruptions = {"restart", "terminal"}
PROPERTIES
    DeletionCompletes
    StatusConverges
    DownIsReported
CHECK_DEADLOCK FALSE
