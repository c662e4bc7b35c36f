---------------------------- MODULE MCConnections ----------------------------
(***************************************************************************)
(* Small instances of what a connection meets on the hub, each on its own:   *)
(* name binding on a hub whose binds do not wait (an extended module) and     *)
(* on one where they do, holder presence with a journal and without, takeover   *)
(* damping, and what a sender that stays connected is told of its deliveries     *)
(* and forwarded chats.  The unit is chosen once, the variables of the others     *)
(* stay as they start.                                                       *)
(***************************************************************************)
EXTENDS NameBinding, HolderPresence, TakeoverDamping, TLC

VARIABLES
    unit,
    sAgentSockets, sSocketAgent, sConn, sFrame, sLease, sOffline,
    jWronged,
    rec, history, unsent, quarantined, dNow, up, crashes, dOwner, phase, session,
    dOnline, sweep,
    outbox, told, overdue, chats, attempt, retries, toTell, telling, heard, seat,
    originUp, originCrashes, link, named, answered, copies, peerUp, peerCrashes

\* The first two connections come from one process, a third from another.
Reconnects == [s \in Sockets |-> IF s \in {"s1", "s2"} THEN "p" ELSE "q"]

Suspended == INSTANCE NameBinding WITH
    Suspends <- TRUE, Revokes <- TRUE,
    agentSockets <- sAgentSockets, socketAgent <- sSocketAgent, conn <- sConn,
    frame <- sFrame, lease <- sLease, offline <- sOffline

\* On a hub without a journal nothing waits behind an append (the extended
\* module); on one with a journal frames do, and operators revoke names.
Journalled == INSTANCE HolderPresence WITH
    Tasks <- {"t"}, Durable <- TRUE, Detaches <- TRUE, Steady <- "b", MaxClock <- 4,
    wronged <- jWronged

\* Two requests to a process that is taken over; the first may be reported.
Delivery == INSTANCE DeliveryLedger WITH
    Ops <- {1, 2}, Senders <- {"s"}, Procs <- {"p1", "p2"},
    Origin <- [o \in {1, 2} |-> "s"], Recipient <- [o \in {1, 2} |-> "p1"],
    Deadline <- [o \in {1, 2} |-> 1],
    Reports <- <<{"boundary_delivered", "acknowledged"}, {}>>,
    MayCancel <- {}, Calls <- {}, MaxOpen <- 2, MaxPerSender <- 2, PageSize <- 1,
    MaxClock <- 1, MaxCrashes <- 1,
    Nobody <- Nil, now <- dNow, owner <- dOwner, online <- dOnline

\* A chat to a hub that warns of stale recipients.
Forwarding == INSTANCE MessageForwarding WITH
    Forwards <- {"f"}, Links <- {1}, None <- Nil, WarnsStale <- TRUE,
    MaxCopies <- 2, MaxOriginCrashes <- 1, MaxPeerCrashes <- 0

ASSUME PresenceAssumption /\ Journalled!PresenceAssumption
ASSUME DampingAssumption /\ Delivery!DeliveryAssumption

presence == <<presenceVars, jWronged>>
suspended == <<sAgentSockets, sSocketAgent, sConn, sFrame, sLease, sOffline>>
deliveries == <<rec, history, unsent, quarantined, dNow, up, crashes, dOwner, phase,
                session, dOnline, sweep>>
forwards == <<outbox, told, overdue, chats, attempt, retries, toTell, telling, heard,
              seat, originUp, originCrashes, link, named, answered, copies, peerUp,
              peerCrashes>>
messages == <<deliveries, forwards>>
all == <<unit, vars, suspended, presence, dampingVars, messages>>

MCInit ==
    /\ Init /\ Suspended!Init /\ DampingInit /\ Delivery!DeliveryInit /\ Forwarding!ForwardInit
    /\ \/ unit = "journalled" /\ Journalled!PresenceInit /\ wronged = {}
       \/ unit = "plain" /\ PresenceInit /\ jWronged = {}
       \/ unit \in {"open", "suspended", "takeovers", "deliveries", "forwards"}
          /\ PresenceInit /\ jWronged = {} /\ owner = [t \in Tasks |-> NoOne]

OpenStep ==
    unit = "open" /\ Next /\ UNCHANGED <<unit, suspended, presence, dampingVars, messages>>
SuspendedStep ==
    unit = "suspended" /\ Suspended!Next
    /\ UNCHANGED <<unit, vars, presence, dampingVars, messages>>
PlainStep ==
    unit = "plain" /\ PresenceNext
    /\ UNCHANGED <<unit, jWronged, vars, suspended, dampingVars, messages>>
JournalledStep ==
    unit = "journalled" /\ Journalled!PresenceNext
    /\ UNCHANGED <<unit, wronged, vars, suspended, dampingVars, messages>>
DampingStep ==
    unit = "takeovers" /\ DampingNext
    /\ UNCHANGED <<unit, vars, suspended, presence, messages>>
DeliveryStep ==
    unit = "deliveries" /\ Delivery!DeliveryNext
    /\ UNCHANGED <<unit, vars, suspended, presence, dampingVars, forwards>>
ForwardStep ==
    unit = "forwards" /\ Forwarding!ForwardNext
    /\ UNCHANGED <<unit, vars, suspended, presence, dampingVars, deliveries>>

MCNext ==
    \/ OpenStep \/ SuspendedStep \/ PlainStep \/ JournalledStep \/ DampingStep
    \/ DeliveryStep \/ ForwardStep

MCSpec == MCInit /\ [][MCNext]_all

-----------------------------------------------------------------------------
\* NoGhostOwner with binds suspended between the two maps and operators
\* revoking names: a name never resolves to a socket that lost it.
NoGhostWhenSuspended == Suspended!NoGhostOwner

\* With a journal and revocations, claims of a holder that stays away are
\* released as long as one agent keeps claiming.
OrphansEndFreed ==
    unit = "journalled" /\ Journalled!PresenceFairness => Journalled!OrphansFreed

\* Every admitted delivery request is closed and its sender told, also when
\* the hub crashed in between.
OpenSettles ==
    unit = "deliveries" /\ Delivery!DeliveryFairness => Delivery!OpenSettles

\* A sender that stays connected in the end learns what became of a chat it
\* sent to another hub, even if that hub never answers.
SenderLearns ==
    unit = "forwards" /\ Forwarding!ForwardFairness => Forwarding!SenderLearns
=============================================================================
