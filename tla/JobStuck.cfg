CONSTANTS
    q1 = q1
    q2 = q2
    Requests = {q1}
    Cis = {i1}
    Checkers = {c1}
    Pollers = {c1}
    NoRow = NoRow
    Nothing = Nothing
    RowsRetire = TRUE
    Faults = {}
    Button <- StartAndResize
SPECIFICATION FairButtonSpec
CHECK_DEADLOCK FALSE
PROPERTY EveryRowResolves
