SPECIFICATION Spec
CONSTANTS
    c1 = c1  c2 = c2
    sku1 = sku1  sku2 = sku2
    esale = esale  imedia = imedia  ghost = ghost
    NoSKU = NoSKU
    Torn = Torn
    Calls = {c1, c2}
    Scopes = {sku1, sku2}
    Providers = {esale, imedia}
    Targets <- AllTargets
    Requests <- AllRequests
    Baseline <- MCBaseline
INVARIANTS TypeOK SettledSumsTo100 AuditTrail
PROPERTY ImplementsAtomic
CHECK_DEADLOCK FALSE
