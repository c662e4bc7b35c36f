SPECIFICATION Spec
CONSTANTS
    Agents = {"a", "b"}
    Principals = {"a", "b"}
    Tasks = {"t", "u"}
    Scopes <- Declarations
    Overlap <- ClaimOverlap
    Segments = {"src", "m", "M", "x", "foo", "bar", ".synapse-symbol"}
    Mark = ".synapse-symbol"
    Unfit = "?"
    Labels = {"w"}
    Form <- SegmentForm
    LabelForm <- LabelFold
    Hosts = {"h"}
    Objects = {"o"}
    Devices = {"d"}
    Generations = {"g"}
    Unknown = Unknown
    MaxPaths = 2
    Trees <- OneTree
    Files <- ClaimedFiles
    Tokens = {}
    NoToken = ""
    Reservations = {"r", "q"}
    NoClaim = NoClaim
    MaxClaimsPerAgent = 2
    MaxReservations = 2
    MinimumTtl = 1
    MaximumTtl = 2
    DefaultTtl = 1
    CompactFloor = 0
    PrincipalsOf <- OwnPrincipal
    Ttls = {2}
    Goals = {"unset"}
    ClockSteps = FALSE
    MaxClock = 3
    MaxEpoch = 3
    MaxVersion = 0
INVARIANTS CustodyFreezesClaim CustodyExcludesOthers FilesExclusive
