SPECIFICATION DeliverySpec
CONSTANTS
    p1 = p1
    p2 = p2
    s1 = s1
    Ops = {1, 2}
    Senders = {s1}
    Procs = {p1, p2}
    Nobody = Nobody
    Origin <- MCOrigin
    Recipient <- MCRecipient
    Deadline <- MCDeadline
    Reports <- MCReports
    MayCancel = {}
    Calls = {}
    MaxOpen = 2
    MaxPerSender = 2
    PageSize = 1
    MaxClock = 1
    MaxCrashes = 0
PROPERTIES LiveWorkKept
CHECK_DEADLOCK FALSE
