CONSTANTS
    Keys = {k1, k2}
    RowIds = {r1, r2, r3}
    Syncers = {s1}
    NoRow = NoRow
    Unset = Unset
    Threshold = 2
    MissCap = 2
    Orchestrator <- HcConnectorEvsSync
    MayRepeat = {k1}
    Others = FALSE
    RetiredChoiceDefined = TRUE
    Faults = {"fetch", "reconcile"}
SPECIFICATION FairSpec
INVARIANT RowsDoNotAccumulate
PROPERTY GoneIsRetiredBesideOthers
PROPERTY RetiresAfterConsecutiveMisses
