SPECIFICATION Spec
CONSTANTS
    Admins = {ann, bob}
    MaxInvocations = 2
    MaxInterrupts = 1
    Namespaces = {tenant1, tenant2, capk}
    TenantNamespace = tenant1
    NoName = NoName
    NoRef = NoRef
    Annotations = {skip}
    Specs <- SmallSpecs
    Word = 8
    MaxErrors = 1
    Words = {pool, disk}
    SSHKeys = {key1, key2}
    MaxLength = 2
INVARIANTS
    TypeOK
    SuccessMeansGranted
    OneCreateSucceeds
    RefusedOnlyInCompany
    AllowedExceptMigrations
    AdmissionAgreesWithClient
    NoForeignSecret
    CapacityNeverMisleads
    DataVolumesUnique
    VolumesStayAttached
    CapkUserInstalled
    TerminalMeansForGood
    BlamesTheBlocker
PROPERTIES
    InvocationsEnd
    PromisedClientWorks
    CapacityConverges
CHECK_DEADLOCK FALSE
