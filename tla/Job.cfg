CONSTANTS
    q1 = q1
    q2 = q2
    Requests = {q1, q2}
    Cis = {i1}
    Checkers = {c1, c2}
    Pollers = {c1}
    NoRow = NoRow
    Nothing = Nothing
    RowsRetire = TRUE
    Faults = {"exception", "crash"}
    Button <- StartAndResize
SPECIFICATION FairButtonSpec
CHECK_DEADLOCK FALSE
INVARIANT ButtonTypeOK
INVARIANT LogIsTrue
INVARIANT ButtonTellsTruth
PROPERTY OutcomeStays
PROPERTY ManagedRowResolves
