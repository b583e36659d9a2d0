SPECIFICATION Spec
CONSTANTS
    Keys = {k1}
    NoKey = NoKey
    Kinds = {configMap}
    ServiceTypes = {"ClusterIP"}
    MaxFailures = 1
INVARIANT NoLoadBalancerLeaked
CHECK_DEADLOCK FALSE
