SPECIFICATION MCSpec
CONSTANTS
    a = a
    b = b
    t = t
    u = u
    Agents = {a, b}
    Principals = {a, b}
    Tasks = {t, u}
    Scopes = {"root"}
    Tokens = {}
    NoToken = ""
    Reservations = {}
    NoClaim = NoClaim
    Nil = Nil
    MaxClaimsPerAgent = 2
    MaxReservations = 1
    MinimumTtl = 1
    MaximumTtl = 2
    DefaultTtl = 1
    CompactFloor = 0
    IdemKeys = {"k"}
    Ttls = {1}
    Goals = {}
    KeepCheckpoints = 1
    ClockSteps = TRUE
    TornBatch = TRUE
    MaxClock = 1
    MaxEpoch = 2
    MaxVersion = 0
    MaxSeq = 3
    MaxCrashes = 1
    Overlap <- AllOverlap
    Posters = {"s"}
    Readers = {"r"}
    Seats = {"o"}
    Audiences = {{"r"}, {"o"}}
    Cold = Cold
    MaxPending = 1
    MaxChats = 2
    MaxLinks = 2
    MaxFalls = 1
SYMMETRY Symmetric
INVARIANTS AcksDurable EpochsNameOneGrant KeyedOnce Typed AckedWasAccepted AwaitingIsDurable CountsAgree
