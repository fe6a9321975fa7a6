SPECIFICATION Spec
CONSTANTS
    c1 = c1  c2 = c2  c3 = c3
    api = api  agent = agent
    sku1 = sku1
    esale = esale  imedia = imedia
    None = None
    Calls = {c1, c2, c3}
    Processes = {api, agent}
    ProcessOf <- Served
    SKUs = {sku1}
    Providers = {esale, imedia}
    Requests <- AllRequests
    MayAsk <- Asked
    Spans <- Later
    Duration = 2
    Horizon = 1
    Losses = 1
    Wrap = 4
INVARIANTS TypeOK DisjointUnlessContested AllOrNothing ReopenEndsWindows
CHECK_DEADLOCK FALSE
