SPECIFICATION PlanSpec
CONSTANTS
    esale = esale  imedia = imedia  shoppay = shoppay
    NoPlan = NoPlan
    Providers = {esale, imedia, shoppay}
    Starts <- MCStarts
    Rates = {61, 97}
INVARIANTS PlanTypeOK Apportioned HardCut HasLiveReceiver MatchedPlanIsHarmless
