SPECIFICATION Spec
CONSTANTS
    Names = {"n"}
    Sockets = {"s1", "s3"}
    Procs = {"p", "q"}
    ProcOf <- Reconnects
    Nil = Nil
    Suspends = TRUE
    Revokes = FALSE
CHECK_DEADLOCK FALSE
INVARIANTS OneBijection
