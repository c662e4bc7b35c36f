-------------------------- MODULE MessageForwarding --------------------------
(***************************************************************************)
(* A chat addressed to a seat of another hub.  The origin hub keeps it in a  *)
(* durable outbox (core/message_forward_ledger.py), attempts it when it is    *)
(* sent and again in sweeps (core/message_forward_origin.py), and tells the    *)
(* sender what became of it.  The peer hub routes it to its own seats and       *)
(* remembers the answer it gave (core/handlers/message_forward.py).             *)
(* Every attempt opens a connection of its own, which the peer registers under   *)
(* the origin hub's id while it serves it (a second one meets a name conflict);   *)
(* the connection, either hub and the sender's seat may go away at any point.      *)
(* All forwards are chats of one seat to one peer, with a receipt requested;        *)
(* receipts that a forward is still pending are left out.                            *)
(***************************************************************************)
EXTENDS Naturals

CONSTANTS
    Forwards,           \* forward ids
    Links,              \* bound: connections to the peer at a time
    None,               \* no forward, no link, no answer
    WarnsStale,         \* the peer's warn_stale_recipients
    MaxCopies,          \* bound: chats the peer journals for one forward
    MaxOriginCrashes,   \* bound: crashes of the origin hub
    MaxPeerCrashes      \* bound: crashes of the peer hub

VARIABLES
    outbox,             \* message_forward_outbox: state
    told,               \* message_forward_outbox: sender_notified_at is set
    overdue,            \* forwards whose expires_at has passed
    chats,              \* forwards whose chat handler has yet to attempt them
    attempt,            \* the link each owned attempt waits on
    retries,            \* the retry sweep: rows due, row attempted, rows settled
    toTell,             \* outcomes whose receipt is still to be written
    telling,            \* the verdict of the receipt being written
    heard,              \* history: verdicts put on the seat's socket
    seat,               \* the sender's seat is registered
    originUp, originCrashes,
    link,               \* the peer's side of each link, and the answer on it
    named,              \* the link registered under the origin hub's id
    answered,           \* message_forward_inbound
    copies,             \* chats the peer journalled for each forward
    peerUp, peerCrashes

outboxVars == <<outbox, told, overdue>>
taskVars == <<chats, attempt, retries>>
receiptVars == <<toTell, telling, heard, seat>>
originVars == <<originUp, originCrashes>>
peerVars == <<named, answered, copies, peerUp, peerCrashes>>
forwardVars == <<outboxVars, taskVars, receiptVars, originVars, link, peerVars>>

Verdicts == {"accepted", "duplicate", "refused", "expired"}
Answers == {"accepted", "duplicate", "refused"}
Phases == {"sent", "bound", "fanout", "answered", "over"}

ASSUME ForwardAssumption ==
    /\ None \notin Forwards /\ None \notin Links /\ None \notin Verdicts
    /\ WarnsStale \in BOOLEAN
    /\ {MaxCopies, MaxOriginCrashes, MaxPeerCrashes} \subseteq Nat

\* A connection just dialled, with the request on it.
Dialled(f) == [forward |-> f, phase |-> "sent", answer |-> None]

\* A link nobody uses.
Unused == [forward |-> None, phase |-> "over", answer |-> None]

\* No sweep runs.
Resting == [on |-> FALSE, due |-> {}, at |-> None, settled |-> {}]

ForwardInit ==
    /\ outbox = [f \in Forwards |-> "none"] /\ told = [f \in Forwards |-> FALSE]
    /\ overdue = {} /\ chats = {}
    /\ attempt = [f \in Forwards |-> None] /\ retries = Resting
    /\ toTell = {} /\ telling = [f \in Forwards |-> None]
    /\ heard = [f \in Forwards |-> {}] /\ seat = FALSE
    /\ originUp = TRUE /\ originCrashes = 0
    /\ link = [n \in Links |-> Unused] /\ named = None
    /\ answered = {} /\ copies = [f \in Forwards |-> 0]
    /\ peerUp = TRUE /\ peerCrashes = 0

-----------------------------------------------------------------------------
(* Links.                                                                   *)

\* The origin waits on link n.
Awaited(n) == \E f \in Forwards : attempt[f] = n

\* The origin closes its end; what the peer still does there goes on.
HungUp(n) ==
    IF link[n].phase = "over" THEN Unused ELSE [link[n] EXCEPT !.answer = None]

\* The peer is done with link n.
Ended(n) == IF Awaited(n) THEN [link[n] EXCEPT !.phase = "over"] ELSE Unused

\* forward_message: a new connection with the request on it, or none, and the
\* attempt has failed.
Dial(f) ==
    \/ \E n \in Links :
         /\ link[n] = Unused
         /\ link' = [link EXCEPT ![n] = Dialled(f)]
         /\ attempt' = [attempt EXCEPT ![f] = n]
    \/ UNCHANGED <<link, attempt>>

-----------------------------------------------------------------------------
(* The origin hub: chats, attempts and the retry sweep.                      *)

Outcome(f, s) == [forward |-> f, verdict |-> s]

\* forward_chat, up to the broadcast it awaits before the first attempt.
SendChat(f) ==
    /\ originUp /\ seat /\ outbox[f] = "none"
    /\ outbox' = [outbox EXCEPT ![f] = "pending"]
    /\ chats' = chats \cup {f}
    /\ UNCHANGED <<told, overdue, attempt, retries, receiptVars, originVars,
                   link, peerVars>>

\* attempt_forward of the chat handler.  An attempt the sweep owns is left to
\* it; a row that is settled already is reported.
FirstAttempt(f) ==
    /\ f \in chats
    /\ chats' = chats \ {f}
    /\ IF attempt[f] = None /\ outbox[f] = "pending"
       THEN Dial(f) /\ UNCHANGED toTell
       ELSE /\ toTell' = toTell \cup
                  (IF outbox[f] = "pending" THEN {} ELSE {Outcome(f, outbox[f])})
            /\ UNCHANGED <<attempt, link>>
    /\ UNCHANGED <<outboxVars, retries, telling, heard, seat, originVars, peerVars>>

\* run_forward_retries: expire_due, then the rows whose next attempt is due
\* (after a delay, so any that are pending).
SweepBegins ==
    /\ originUp /\ ~retries.on
    /\ \E due \in SUBSET {f \in Forwards : outbox[f] = "pending" /\ f \notin overdue} :
         LET late == {f \in overdue : outbox[f] = "pending"} IN
         /\ due \cup late # {}
         /\ outbox' = [f \in Forwards |-> IF f \in late THEN "expired" ELSE outbox[f]]
         /\ retries' = [on |-> TRUE, due |-> due, at |-> None,
                        settled |-> {Outcome(f, "expired") : f \in late}]
    /\ UNCHANGED <<told, overdue, chats, attempt, receiptVars, originVars, link, peerVars>>

\* The next row of the sweep, unless it settled or is being attempted.
SweepAttempts ==
    /\ retries.on /\ retries.at = None
    /\ \E f \in retries.due :
         IF outbox[f] = "pending" /\ attempt[f] = None
         THEN /\ Dial(f)
              /\ retries' = [retries EXCEPT !.due = @ \ {f},
                                            !.at = IF attempt'[f] = None THEN None ELSE f]
         ELSE /\ retries' = [retries EXCEPT !.due = @ \ {f}]
              /\ UNCHANGED <<attempt, link>>
    /\ UNCHANGED <<outboxVars, chats, receiptVars, originVars, peerVars>>

\* The sweep tells the senders of what it settled, one after the other.
SweepReports ==
    /\ retries.on /\ retries.at = None /\ retries.due = {}
    /\ toTell' = toTell \cup retries.settled
    /\ retries' = Resting
    /\ UNCHANGED <<outboxVars, chats, attempt, telling, heard, seat, originVars,
                   link, peerVars>>

\* Mutant of Returned: a row that is still pending is reported too.
ReturnedAlways(f, s) ==
    /\ toTell' = toTell \cup {Outcome(f, s)}
    /\ retries' = IF retries.at = f THEN [retries EXCEPT !.at = None] ELSE retries

\* What an attempt of row f that leaves it in state s returns to its owner,
\* the sweep or the chat handler.
Returned(f, s) ==
    IF retries.at = f
    THEN /\ retries' = [retries EXCEPT !.at = None, !.settled = @ \cup
                (IF s \in {"pending", "expired"} THEN {} ELSE {Outcome(f, s)})]
         /\ UNCHANGED toTell
    ELSE /\ toTell' = toTell \cup (IF s = "pending" THEN {} ELSE {Outcome(f, s)})
         /\ UNCHANGED retries

\* Mutant of Settled: an answer overwrites an earlier settlement.
SettledAgain(f, verdict) == verdict

\* settle: the first settlement stands.
Settled(f, verdict) == IF outbox[f] = "pending" THEN verdict ELSE outbox[f]

\* The peer's answer settles the row.
AnswerArrives(f) ==
    /\ attempt[f] # None /\ link[attempt[f]].answer # None
    /\ LET s == Settled(f, link[attempt[f]].answer) IN
         /\ outbox' = [outbox EXCEPT ![f] = s]
         /\ Returned(f, s)
    /\ attempt' = [attempt EXCEPT ![f] = None]
    /\ link' = [link EXCEPT ![attempt[f]] = HungUp(attempt[f])]
    /\ UNCHANGED <<told, overdue, chats, telling, heard, seat, originVars, peerVars>>

\* A timeout, a dropped connection, a name conflict: record_failed_attempt.
GiveUp(f) ==
    /\ attempt[f] # None
    /\ Returned(f, outbox[f])
    /\ attempt' = [attempt EXCEPT ![f] = None]
    /\ link' = [link EXCEPT ![attempt[f]] = HungUp(attempt[f])]
    /\ UNCHANGED <<outboxVars, chats, telling, heard, seat, originVars, peerVars>>

\* expires_at passes.
Elapse(f) ==
    /\ outbox[f] = "pending" /\ f \notin overdue
    /\ overdue' = overdue \cup {f}
    /\ UNCHANGED <<outbox, told, taskVars, receiptVars, originVars, link, peerVars>>

-----------------------------------------------------------------------------
(* Receipts.                                                                *)

\* _notify_sender: one receipt of a forward is written at a time, to the seat
\* if it is registered, until one write succeeded.
Notify(e) ==
    /\ e \in toTell
    /\ toTell' = toTell \ {e}
    /\ IF seat /\ telling[e.forward] = None /\ ~told[e.forward]
       THEN /\ telling' = [telling EXCEPT ![e.forward] = e.verdict]
            /\ heard' = [heard EXCEPT ![e.forward] = @ \cup {e.verdict}]
       ELSE UNCHANGED <<telling, heard>>
    /\ UNCHANGED <<outboxVars, taskVars, seat, originVars, link, peerVars>>

\* mark_sender_notified
Notified(f) ==
    /\ telling[f] # None
    /\ telling' = [telling EXCEPT ![f] = None]
    /\ told' = [told EXCEPT ![f] = TRUE]
    /\ UNCHANGED <<outbox, overdue, taskVars, toTell, heard, seat, originVars,
                   link, peerVars>>

\* Mutant of SeatRegisters: a registration tells nothing of earlier forwards.
SeatRegistersSilently ==
    /\ originUp /\ ~seat
    /\ seat' = TRUE
    /\ UNCHANGED <<outboxVars, taskVars, toTell, telling, heard, originVars, link, peerVars>>

\* deliver_pending_forward_receipts
SeatRegisters ==
    /\ originUp /\ ~seat
    /\ seat' = TRUE
    /\ toTell' = toTell \cup {Outcome(f, outbox[f]) :
                    f \in {g \in Forwards : outbox[g] \in Verdicts /\ ~told[g]}}
    /\ UNCHANGED <<outboxVars, taskVars, telling, heard, originVars, link, peerVars>>

\* The seat's connection goes away, and a receipt being written to it fails.
SeatLeaves ==
    /\ seat
    /\ seat' = FALSE
    /\ telling' = [f \in Forwards |-> None]
    /\ UNCHANGED <<outboxVars, taskVars, toTell, heard, originVars, link, peerVars>>

\* The tables survive a crash of the origin hub, tasks and connections do not.
OriginCrash ==
    /\ originUp /\ originCrashes < MaxOriginCrashes
    /\ originUp' = FALSE /\ originCrashes' = originCrashes + 1
    /\ chats' = {} /\ attempt' = [f \in Forwards |-> None] /\ retries' = Resting
    /\ toTell' = {} /\ telling' = [f \in Forwards |-> None] /\ seat' = FALSE
    /\ link' = [n \in Links |-> IF Awaited(n) THEN HungUp(n) ELSE link[n]]
    /\ UNCHANGED <<outboxVars, heard, peerVars>>

OriginRestart ==
    /\ ~originUp /\ originUp' = TRUE
    /\ UNCHANGED <<outboxVars, taskVars, receiptVars, originCrashes, link, peerVars>>

-----------------------------------------------------------------------------
(* The peer hub.                                                            *)

\* What the peer does on link n leaves the origin hub as it is.
AtPeer(n, l) ==
    /\ link' = [link EXCEPT ![n] = l]
    /\ UNCHANGED <<outboxVars, taskVars, receiptVars, originVars, peerUp, peerCrashes>>

\* The answer is written to a connection the origin still listens on.
Answering(n, answer) ==
    [link[n] EXCEPT !.phase = "answered", !.answer = IF Awaited(n) THEN answer ELSE None]

\* The connection or the request is lost before the peer reads it.
Lose(n) ==
    /\ link[n].phase = "sent"
    /\ AtPeer(n, Ended(n))
    /\ UNCHANGED <<named, answered, copies>>

\* Mutant of Arrive: a connection takes the name over.
ArriveTakingOver(n) ==
    /\ peerUp /\ link[n].phase = "sent"
    /\ named' = n
    /\ AtPeer(n, [link[n] EXCEPT !.phase = "bound"])
    /\ UNCHANGED <<answered, copies>>

\* The first frame registers the connection under the origin's id, or is
\* refused when another one is still registered under it.
Arrive(n) ==
    /\ peerUp /\ link[n].phase = "sent"
    /\ IF named = None
       THEN named' = n /\ AtPeer(n, [link[n] EXCEPT !.phase = "bound"])
       ELSE AtPeer(n, Ended(n)) /\ UNCHANGED named
    /\ UNCHANGED <<answered, copies>>

\* handle_multihub_message_forward: the stored answer is replayed.
Repeat(n) ==
    /\ link[n].phase = "bound" /\ link[n].forward \in answered
    /\ AtPeer(n, Answering(n, "duplicate"))
    /\ UNCHANGED <<named, answered, copies>>

\* A missing grant, an exhausted quota: answered and not remembered.
Refuse(n) ==
    /\ link[n].phase = "bound" /\ link[n].forward \notin answered
    /\ AtPeer(n, Answering(n, "refused"))
    /\ UNCHANGED <<named, answered, copies>>

\* deliver_local_chat: the chat is journalled, then written to its recipients.
Route(n) ==
    /\ link[n].phase = "bound" /\ link[n].forward \notin answered
    /\ copies[link[n].forward] < MaxCopies
    /\ copies' = [copies EXCEPT ![link[n].forward] = @ + 1]
    /\ AtPeer(n, [link[n] EXCEPT !.phase = "fanout"])
    /\ UNCHANGED <<named, answered>>

\* The recipients have been written to: the answer is remembered and sent.
Fanned(n) ==
    /\ link[n].phase = "fanout"
    /\ answered' = answered \cup {link[n].forward}
    /\ AtPeer(n, Answering(n, "accepted"))
    /\ UNCHANGED <<named, copies>>

\* A stale or passive recipient: the sender is warned on the link before the
\* answer is remembered.  On a link that is closed the write raises, and the
\* handler ends there.
WarningFails(n) ==
    /\ WarnsStale /\ link[n].phase = "fanout" /\ ~Awaited(n)
    /\ AtPeer(n, Answering(n, None))
    /\ UNCHANGED <<named, answered, copies>>

\* The connection is closed and unregistered, after its handler returned.
Unregister(n) ==
    /\ link[n].phase = "answered" /\ ~Awaited(n)
    /\ named' = None
    /\ AtPeer(n, Ended(n))
    /\ UNCHANGED <<answered, copies>>

\* A crash of the peer keeps its tables; answers already sent may still arrive.
PeerCrash ==
    /\ peerUp /\ peerCrashes < MaxPeerCrashes
    /\ peerUp' = FALSE /\ peerCrashes' = peerCrashes + 1
    /\ named' = None
    /\ link' = [n \in Links |-> Ended(n)]
    /\ UNCHANGED <<outboxVars, taskVars, receiptVars, originVars, answered, copies>>

PeerRestart ==
    /\ ~peerUp /\ peerUp' = TRUE
    /\ UNCHANGED <<outboxVars, taskVars, receiptVars, originVars, link, named,
                   answered, copies, peerCrashes>>

AttemptSteps == \E f \in Forwards :
    SendChat(f) \/ FirstAttempt(f) \/ AnswerArrives(f) \/ GiveUp(f) \/ Elapse(f)

SweepSteps == SweepBegins \/ SweepAttempts \/ SweepReports

ReceiptSteps ==
    \/ \E e \in toTell : Notify(e)
    \/ \E f \in Forwards : Notified(f)
    \/ SeatRegisters \/ SeatLeaves

PeerSteps == \E n \in Links :
    \/ Lose(n) \/ Arrive(n) \/ Repeat(n) \/ Refuse(n) \/ Route(n)
    \/ Fanned(n) \/ WarningFails(n) \/ Unregister(n)

ForwardNext ==
    \/ AttemptSteps \/ SweepSteps \/ ReceiptSteps \/ PeerSteps
    \/ OriginCrash \/ OriginRestart \/ PeerCrash \/ PeerRestart

\* The origin's event loop, its supervisor and its clock go on, attempts time
\* out and writes end; nothing is assumed of the peer, the network or the seat.
ForwardFairness ==
    /\ WF_forwardVars(SweepSteps) /\ WF_forwardVars(OriginRestart)
    /\ WF_forwardVars(\E e \in toTell : Notify(e))
    /\ \A f \in Forwards :
         /\ WF_forwardVars(AnswerArrives(f) \/ GiveUp(f))
         /\ WF_forwardVars(FirstAttempt(f) \/ Elapse(f) \/ Notified(f))

ForwardSpec == ForwardInit /\ [][ForwardNext]_forwardVars

-----------------------------------------------------------------------------
(* Properties.                                                              *)

Link == [forward : Forwards \cup {None}, phase : Phases, answer : Answers \cup {None}]
OutcomeOf == [forward : Forwards, verdict : Verdicts]

\* Both hubs' records have the shape the code gives them.
ForwardTypeOK ==
    /\ outbox \in [Forwards -> Verdicts \cup {"none", "pending"}]
    /\ told \in [Forwards -> BOOLEAN]
    /\ overdue \subseteq Forwards /\ chats \subseteq Forwards
    /\ attempt \in [Forwards -> Links \cup {None}]
    /\ retries \in [on : BOOLEAN, due : SUBSET Forwards, at : Forwards \cup {None},
                    settled : SUBSET OutcomeOf]
    /\ toTell \subseteq OutcomeOf
    /\ telling \in [Forwards -> Verdicts \cup {None}]
    /\ heard \in [Forwards -> SUBSET Verdicts]
    /\ seat \in BOOLEAN /\ originUp \in BOOLEAN /\ peerUp \in BOOLEAN
    /\ originCrashes \in Nat /\ peerCrashes \in Nat
    /\ link \in [Links -> Link] /\ named \in Links \cup {None}
    /\ answered \subseteq Forwards /\ copies \in [Forwards -> Nat]

\* What the sender is told is what became of the forward, and stays so: no
\* race of an answer with an expiry, of two attempts, receipts or restarts
\* reports one forward two ways, and an acceptance means the peer has it.
ToldTheTruth ==
    \A f \in Forwards :
        /\ heard[f] \subseteq {outbox[f]}
        /\ told[f] => heard[f] # {}
        /\ outbox[f] \in {"accepted", "duplicate"} => copies[f] > 0

\* "the peer answers a repeat with duplicate instead of queueing a second
\* copy": one copy of a forward, and one more for a crash of the peer between
\* journalling it and remembering the answer.
OneCopy == \A f \in Forwards : copies[f] <= 1 + peerCrashes

\* A sender that stays connected in the end learns what became of its chat,
\* through crashes of its hub and absences of its own, even if the peer hub
\* never answers.
SenderLearns ==
    <>[]seat => \A f \in Forwards : outbox[f] = "pending" ~> told[f]
=============================================================================
