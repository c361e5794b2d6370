CONSTANTS
    Keys = {k1, k2}
    RowIds = {r1, r2, r3, r4}
    Syncers = {s1, s2}
    NoRow = NoRow
    Unset = Unset
    Threshold = 2
    MissCap = 2
    Orchestrator <- HcConnectorEcsSync
    MayRepeat = {}
    Others = FALSE
    RetiredChoiceDefined = TRUE
    Faults = {}
SPECIFICATION Spec
INVARIANT OneRowPerKey
SYMMETRY Symmetry
