SPECIFICATION Spec
CONSTANTS
    esale = esale  imedia = imedia  shoppay = shoppay  sku1 = sku1  card = card
    None = None
    Providers = {esale, imedia}
    SKUs = {sku1}
    Products <- OneProduct
    ProductOf <- OneSKUOfCard
    ScopeOrder <- OneOrder
    Required = 2
    Rate <- EvenRate
    Starts <- OnlyEven
    AdminShares <- OnlyEsale
    FirstClasses = {"ok", "bad"}
    SeenClasses = {"ok", "bad", "events"}
    MaxMoves = 1
PROPERTY NormalProductHasNoIncident
