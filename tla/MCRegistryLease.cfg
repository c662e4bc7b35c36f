SPECIFICATION Spec
CONSTANTS
    Agents = {"a", "b"}
    Principals = {"a", "b"}
    Tasks = {"t", "u"}
    Scopes <- MixedClients
    Overlap <- ClaimOverlap
    Segments = {"src", "m", "M", "x", "foo", "bar", ".synapse-symbol"}
    Mark = ".synapse-symbol"
    Unfit = "?"
    Labels = {"w"}
    Form <- SegmentForm
    LabelForm <- LabelFold
    Hosts = {"h"}
    Objects = {"o"}
    Devices = {"d"}
    Generations = {"g"}
    Unknown = Unknown
    MaxPaths = 2
    Trees <- OneTree
    Files <- ClaimedFiles
    Tokens = {}
    NoToken = ""
    Reservations = {}
    NoClaim = NoClaim
    MaxClaimsPerAgent = 1
    MaxReservations = 2
    MinimumTtl = 1
    MaximumTtl = 2
    DefaultTtl = 1
    CompactFloor = 0
    PrincipalsOf <- AnyPrincipal
    Ttls = {0, 2}
    Goals = {"unset"}
    ClockSteps = TRUE
    MaxClock = 2
    MaxEpoch = 3
    MaxVersion = 1
INVARIANTS TypeOK ScopeExclusion IndexCoversClaims EpochsDistinct QuotaRespected
PROPERTIES AnchorContinuity ImplementsLeaseService
