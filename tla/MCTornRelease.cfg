SPECIFICATION Spec
CONSTANTS
    Agents = {"a", "b"}
    Principals = {"a", "b"}
    Tasks = {"t", "u"}
    Scopes = {"root"}
    Tokens = {}
    NoToken = ""
    Reservations = {}
    NoClaim = NoClaim
    Nil = Nil
    MaxClaimsPerAgent = 2
    MaxReservations = 1
    MinimumTtl = 1
    MaximumTtl = 2
    DefaultTtl = 1
    CompactFloor = 0
    IdemKeys = {}
    Ttls = {1}
    Goals = {}
    KeepCheckpoints = 1
    ClockSteps = FALSE
    TornBatch = TRUE
    MaxClock = 2
    MaxEpoch = 2
    MaxVersion = 1
    MaxSeq = 4
    MaxCrashes = 1
    Overlap <- AllOverlap
INVARIANTS ReplayAgrees
