CONSTANTS
    Endpoints = {e1}
    NoEndpoint = NoEndpoint
    Tenant = Tenant
    Requests <- BothPaths
    Configs <- TwoConfigs
    MaxAttempts = 2
    MaxEdits = 1
SPECIFICATION FairSpec
PROPERTY RunEnds
CHECK_DEADLOCK FALSE
