SPECIFICATION Spec
CONSTANTS
    t1 = t1  t2 = t2  s1 = s1  s2 = s2
    hi = hi  hello = hello  stop = stop
    None = None
    Turns = {t1, t2}
    Sessions = {s1, s2}
    Messages = {hi, hello, stop}
    Similar <- Alike
    Learned <- OfEarlierDays
    HistoryLimit = 2
    Restarts = 1
    Downvotes = 1
SYMMETRY Symmetric
CHECK_DEADLOCK FALSE
INVARIANTS TypeOK CorrectionsReachTurns HistoryOfWholeTurns MarkedIsRepeated
