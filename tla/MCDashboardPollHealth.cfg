SPECIFICATION Spec
CONSTANTS
    p1 = p1  p2 = p2
    None = None
    Providers = {p1, p2}
    Rate <- Rates2
    Severity <- Rates2
    Baseline <- Two
    Metrics = {"ok", "bad"}
    Manual <- Routings2
    Configured <- Rows
    Polls = {c1, c2}
    Steady = {c1}
    MaxCycles = 1
    Turns = 1
INVARIANTS SkuWideOnlyIfAll
