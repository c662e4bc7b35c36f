SPECIFICATION MCSpec
CONSTANTS
    Agents = {"a", "b"}
    Principals = {"a", "b"}
    Tasks = {"t", "u"}
    Scopes = {"root"}
    Tokens = {}
    NoToken = ""
    Reservations = {}
    NoClaim = NoClaim
    Nil = Nil
    MaxClaimsPerAgent = 2
    MaxReservations = 1
    MinimumTtl = 1
    MaximumTtl = 2
    DefaultTtl = 1
    CompactFloor = 0
    IdemKeys = {}
    Ttls = {1}
    Goals = {"working"}
    KeepCheckpoints = 1
    ClockSteps = FALSE
    TornBatch = FALSE
    MaxClock = 2
    MaxEpoch = 2
    MaxVersion = 2
    MaxSeq = 3
    MaxCrashes = 1
    Overlap <- AllOverlap
INVARIANTS LiveScopesExclusive ReplayAgrees
PROPERTIES JournalServesLeases TokenCarried VersionNamesContent LeasesEventuallyEnd
