CONSTANTS
    Keys = {k1}
    RowIds = {r1, r2}
    Syncers = {s1, s2}
    NoRow = NoRow
    Unset = Unset
    Threshold = 2
    MissCap = 2
    Orchestrator <- HcConnectorEcsSync
    MayRepeat = {}
    Others = TRUE
    RetiredChoiceDefined = TRUE
    Faults = {"fetch", "reconcile"}
SPECIFICATION FairSpec
INVARIANT RetiredRowHasRetiredCi
PROPERTY GoneIsRetired
PROPERTY LiveIsActive
