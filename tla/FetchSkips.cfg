CONSTANTS
    N = 5
    Items <- MCItems
    Limit = 2
    MaxRetries = 1
SPECIFICATION Spec
CHECK_DEADLOCK FALSE
INVARIANT FetchIsComplete
