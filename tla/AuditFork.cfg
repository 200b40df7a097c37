\* Two auditors of one tenant on PostgreSQL
SPECIFICATION AuditSpec
CONSTANTS
    Auditor = {a1, a2}
    AuditBackends = {"postgres"}
    EventBound = 3
INVARIANT ChainVerifies
CHECK_DEADLOCK FALSE
