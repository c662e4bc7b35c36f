SPECIFICATION MCSpec
CONSTANTS
    a = a
    b = b
    c = c
    t = t
    u = u
    v = v
    Agents = {a, b, c}
    Tasks = {t, u, v}
    Nil = Nil
    MaxWaits = 4
    Forwards = {f}
    Links = {1, 2}
    None = None
    WarnsStale = FALSE
    MaxCopies = 3
    MaxOriginCrashes = 1
    MaxPeerCrashes = 1
    Ops = {1, 2}
    Senders = {"s"}
    Procs = {"p1", "p2"}
    Nobody = Nobody
    Origin <- Sent
    Recipient <- Addressed
    Deadline <- DueAtOne
    Reports <- Reported
    MayCancel = {2}
    Calls = {}
    MaxOpen = 2
    MaxPerSender = 2
    PageSize = 1
    MaxClock = 1
    MaxCrashes = 1
SYMMETRY Symmetric
INVARIANTS HoldAndWaitRefused Typed ToldTheTruth OneCopy OwnJournalReplays LiveSessionOwnsOpenWork
PROPERTIES VerdictsFinal
CHECK_DEADLOCK FALSE
