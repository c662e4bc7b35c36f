SPECIFICATION PresenceSpec
CONSTANTS
    Agents = {"a", "b", "c", "d"}
    Tasks = {"t", "u"}
    NoOne = NoOne
    OfflineTtl = 1
    Recipients = {}
    Durable = TRUE
    Detaches = FALSE
    Steady = NoOne
    MaxClock = 1
INVARIANTS HolderKeepsWindow
