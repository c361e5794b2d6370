CONSTANTS
    v1 = v1
    v2 = v2
    Volumes = {v1, v2}
    Servers = {s1, s2}
    SizeOf <- MCSizeOf
    Writers = {w1, w2}
    NoDisks = NoDisks
    MaxShared = 2
    Alarms = {"a1"}
    Ids = {"a1", "a2", "i", "n"}
    Absent = Absent
    Shapes <- MCShapes
    MaxChanges = 3
    Users = {u1, u2}
    LastPage = 2
    maxRetries = 1
    Lifetime = 2
    Skew = 1
    Drift = 1
    MaxClock = 2
    NoToken = NoToken
    Vpcs = {vpc1, vpc2}
    Subnets = {sub1, sub2}
    None = None
    AccountId = account
    Region = region
    SchemaListings <- MCListings
    Scripts <- RenderedScripts
SPECIFICATION Spec
CHECK_DEADLOCK FALSE
INVARIANTS
    AdaptersTypeOK
    AcknowledgedIsRecorded
    EventsTellTheState
    MirrorAgrees
    DuplicatesAreRedeliveries
    PagesInOrder
    PayloadIsContained
    SubnetsUnderTheirVpc
    MirrorOfPartsAgrees
    ReferencesExist
    SafeToReRun
PROPERTIES
    DisksSettle
    NotificationArrives
    CachedTokenIsCurrent
    RunEnds
