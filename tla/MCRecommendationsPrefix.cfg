SPECIFICATION Spec
CONSTANTS
    s1 = s1  s2 = s2
    c1 = c1  c2 = c2
    None = None
    SKUs = {s1, s2}
    Begins <- OneBeginsTheOther
    Calls = {c1, c2}
    MaxCycles = 2
    MaxRows = 3
    Turns = 1
    Losses = 1
CHECK_DEADLOCK FALSE
PROPERTIES DecisionsKeepToTheirScope
