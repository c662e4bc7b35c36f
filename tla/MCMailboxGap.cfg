SPECIFICATION MailSpec
CONSTANTS
    Posters = {"s"}
    Readers = {"r"}
    Seats = {"o"}
    Audiences = {{"r"}}
    Cold = Cold
    MaxPending = 1
    MaxChats = 2
    MaxLinks = 2
    MaxFalls = 0
INVARIANTS CaughtUpMissesNothing
