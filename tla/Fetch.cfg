CONSTANTS
    N = 5
    Items <- MCItems
    Limit = 2
    MaxRetries = 1
SPECIFICATION FairSpec
CHECK_DEADLOCK FALSE
INVARIANT TypeOK
INVARIANT CompleteUnlessShrunk
INVARIANT RepeatsOnlyIfGrown
PROPERTY FetchEnds
