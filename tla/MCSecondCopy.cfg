SPECIFICATION ForwardSpec
CONSTANTS
    Forwards = {f}
    Links = {1, 2}
    None = None
    WarnsStale = TRUE
    MaxCopies = 2
    MaxOriginCrashes = 0
    MaxPeerCrashes = 0
INVARIANTS OneCopy
CHECK_DEADLOCK FALSE
