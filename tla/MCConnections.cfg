SPECIFICATION MCSpec
CONSTANTS
    Names = {"m", "n"}
    Sockets = {"s1", "s2", "s3"}
    Procs = {"p", "q"}
    ProcOf <- Reconnects
    Nil = Nil
    Suspends = FALSE
    Revokes = FALSE
    Agents = {"a", "b"}
    Tasks = {"t", "u"}
    NoOne = NoOne
    OfflineTtl = 2
    Recipients = {"a", "b"}
    Durable = FALSE
    Detaches = FALSE
    Steady = NoOne
    MaxClock = 5
    Cooldown = 0
    Window = 3
    Threshold = 3
    Quarantine = 4
    Unset = Unset
    MaxTime = 12
CHECK_DEADLOCK FALSE
INVARIANTS TypeOK OneBijection FrozenWhileOnline LeaseProtectsName NoGhostWhenSuspended HolderKeepsWindow EvictionsBounded
PROPERTIES OrphansEndFreed OpenSettles SenderLearns
