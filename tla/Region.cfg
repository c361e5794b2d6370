CONSTANTS
    good = good
    bad = bad
    job = job
    admin = admin
    Accounts = {good, bad}
    Regions <- TwoRegions
    AccountOf <- OneEach
    NoCredentials = {bad}
    Threads = {job, admin}
    Program <- JobAndAdmin
    Scheduled = {job}
    MayStock <- VpcsOnly
    NoRegion = NoRegion
    MaxFaults = 1
SPECIFICATION FairSpec
INVARIANT RegionTypeOK
INVARIANT TraceAgrees
PROPERTY ErrorIsClearedByASuccess
PROPERTY EnabledRegionIsSynced
PROPERTY BrokenRegionShowsError
PROPERTY DisabledRegionRests
