CONSTANTS
    Keys = {k1, k2}
    RowIds = {r1, r2}
    Syncers = {s1}
    NoRow = NoRow
    Unset = Unset
    Threshold = 2
    MissCap = 2
    Orchestrator <- HcConnectorEvsSync
    MayRepeat = {}
    Others = FALSE
    RetiredChoiceDefined = TRUE
    Faults = {"fetch"}
SPECIFICATION FairSpec
PROPERTY GoneIsRetired
