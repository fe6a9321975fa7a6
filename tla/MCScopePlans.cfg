SPECIFICATION Spec
CONSTANTS
    c1 = c1  c2 = c2  c3 = c3
    p1 = p1  p2 = p2
    None = None
    Calls = {c1, c2, c3}
    MayBe <- Mixed
    Pcts = {p1, p2}
    Edits = {p1, p2}
    MaxIncidents = 1
    Turns = 1
    Losses = 1
SYMMETRY Symmetric
CHECK_DEADLOCK FALSE
INVARIANTS TypeOK OnePendingPlan AppliedOnce KeepsWhatWasApproved
PROPERTIES ImplementsAtomicPlans RejectedStaysHidden
