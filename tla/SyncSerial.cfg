CONSTANTS
    Keys = {k1, k2}
    RowIds = {r1, r2}
    Syncers = {s1}
    NoRow = NoRow
    Unset = Unset
    Threshold = Unset
    MissCap = 3
    Orchestrator <- HcConnectorEcsSync
    MayRepeat = {}
    Others = FALSE
    RetiredChoiceDefined = FALSE
    Faults = {"fetch", "reconcile", "apply", "crash"}
SPECIFICATION Spec
INVARIANT SerialInv
INVARIANT RetiredIsBacked
PROPERTY CompletedRunAgrees
PROPERTY ImplementsContract
SYMMETRY Symmetry
