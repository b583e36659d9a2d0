SPECIFICATION FairSpec
CONSTANTS
    Keys = {k1, k2}
    NoKey = NoKey
    Kinds = {configMap, role}
    ServiceTypes = {"ClusterIP", "LoadBalancer"}
    MaxFailures = 1
INVARIANTS
    TypeOK
    KeysBehindReference
    ReadyMeansProvisioned
    NoLeakWithoutFailures
PROPERTIES
    KeysNeverChange
    ExtrasGoFirst
    DeletionCompletes
CHECK_DEADLOCK FALSE
