SPECIFICATION Spec
CONSTANTS
    esale = esale  imedia = imedia  shoppay = shoppay  sku1 = sku1  card = card
    None = None
    Providers = {esale, imedia, shoppay}
    SKUs = {sku1}
    Products <- OneProduct
    ProductOf <- OneSKUOfCard
    ScopeOrder <- ThreeOrder
    Required = 2
    Rate <- ThreeRate
    Starts <- OnlyThirds
    AdminShares <- OnlyTwo
    FirstClasses = {"ok", "bad"}
    SeenClasses = {"ok", "bad", "events"}
    MaxMoves = 2
INVARIANTS TypeOK OneOpenIncident OnePendingPlan GraceNeverHolds
PROPERTIES AutomaticShift AutoSettles RecoveryEnds
