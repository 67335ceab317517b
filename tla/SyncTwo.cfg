CONSTANTS
    Endpoints = {e1, e2}
    NoEndpoint = NoEndpoint
    Tenant = Tenant
    Requests <- StagedAll
    Configs <- OneConfig
    MaxAttempts = 2
    MaxEdits = 1
SPECIFICATION Spec
SYMMETRY AnyEndpoint
INVARIANTS MergedIsComplete LeftOpenIsRecorded
CHECK_DEADLOCK FALSE
