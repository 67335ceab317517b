CONSTANTS
    Endpoints = {e1}
    NoEndpoint = NoEndpoint
    Tenant = Tenant
    Requests <- AllRequests
    Configs <- AllConfigs
    MaxAttempts = 2
    MaxEdits = 2
SPECIFICATION Spec
INVARIANTS TypeOK Isolated WritesAreOurs VerdictMatchesEvidence
PROPERTIES EvidenceGrows ImplementsPublication
CHECK_DEADLOCK FALSE
