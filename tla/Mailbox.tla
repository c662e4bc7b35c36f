------------------------------- MODULE Mailbox -------------------------------
(***************************************************************************)
(* Chats on one hub with a journal: the chat handler of a poster             *)
(* (handlers/chat_delivery.py), the receipts it may ask for with their outbox  *)
(* and window (handlers/delivery_feedback.py, persistence_receipts.py,          *)
(* pending_receipts.py), the backlog a reader is replayed when it registers       *)
(* (handlers/messaging.py, outbound_send.py), its acks, and the watermarks and     *)
(* counts the hub keeps of them (mailbox_pending.py).                              *)
(* A chat is its number in the journal.  Handlers are one per connection, run      *)
(* alone between two awaits, and await every write to a socket; a client            *)
(* connects again when the handler of its last connection is through.              *)
(***************************************************************************)
EXTENDS Integers, Sequences, FiniteSets

CONSTANTS
    Posters,        \* names that send chats
    Readers,        \* names with a mailbox client
    Seats,          \* names without one, that stay away
    Audiences,      \* the targets of chats, as the names they address
    Cold,           \* a count that was not computed yet
    MaxPending,     \* DEFAULT_PENDING_RECEIPTS (1024)
    MaxChats,       \* bound: chats journalled
    MaxLinks,       \* bound: connections of a reader
    MaxFalls        \* bound: crashes of the hub

VARIABLES
    log,            \* journal: chats, in the order of their sequence
    verdict,        \* journal: delivery_receipts.state of each chat
    notices,        \* journal: rows of delivery_receipt_outbox, in rowid order
    owed,           \* journal: the rows without delivered_at
    marked,         \* journal: the highest mailbox watermark of each reader
    awaiting,       \* hub: PendingReceipts
    watermark,      \* hub: MailboxPendingTracker._watermarks
    counts,         \* hub: MailboxPendingTracker._counts
    post,           \* hub: how far each poster's chat handler has come
    draining,       \* hub: outbox rows a handler read and has still to send
    present,        \* hub: the posters connected
    socket,         \* hub: how far each reader's connection has come
    backlog,        \* hub: frames a replay has still to write to a reader
    falls,          \* crashes of the hub so far
    links,          \* connections each reader made so far
    since,          \* the cursor a reader's connection registers with
    wire,           \* frames written to a reader and not read yet
    sentAcks,       \* acks a reader sent and the hub did not read yet
    cursor,         \* client: _mailbox_since_seq
    accepted        \* client: chats tracked, by any process of the reader

records == <<log, verdict, notices, owed, marked>>
mailbox == <<awaiting, watermark, counts>>
handlers == <<post, draining, present>>
lines == <<socket, links, backlog, since, wire, sentAcks>>
clients == <<cursor, accepted>>
mailVars == <<records, mailbox, handlers, lines, clients, falls>>

Chats == 1..MaxChats
Handlers == Posters \cup Readers

MailboxAssumption ==
    /\ Posters \cap Readers = {} /\ IsFiniteSet(Readers)
    /\ Audiences \subseteq SUBSET (Readers \cup Seats)
    /\ Cold \notin Int
    /\ MaxPending \in Nat \ {0} /\ MaxChats \in Nat /\ MaxFalls \in Nat

Idle == [at |-> "idle", chat |-> 0, live |-> {}, reached |-> {}, cut |-> {}]

MailInit ==
    /\ log = <<>> /\ verdict = [n \in Chats |-> "none"]
    /\ notices = <<>> /\ owed = {} /\ marked = [r \in Readers |-> 0]
    /\ awaiting = {} /\ watermark = marked /\ counts = [r \in Readers |-> Cold]
    /\ post = [p \in Posters |-> Idle] /\ draining = [h \in Handlers |-> {}]
    /\ present = {} /\ socket = [r \in Readers |-> "off"]
    /\ backlog = [r \in Readers |-> <<>>] /\ falls = 0
    /\ links = marked /\ since = marked /\ wire = backlog /\ sentAcks = backlog
    /\ cursor = marked /\ accepted = [r \in Readers |-> {}]

Lowest(S) == CHOOSE x \in S : \A y \in S : x <= y

-----------------------------------------------------------------------------
(* Watermarks and counts.                                                   *)

\* The chats a reader's mailbox holds above a watermark.
Addressed(r, low) == {n \in DOMAIN log : n > low /\ r \in log[n].to}

\* Mutant of AdvanceTo: the chat at the old watermark is counted out again.
AdvanceToInclusive(r, through) ==
    IF through <= watermark[r]
    THEN UNCHANGED <<marked, watermark, counts>>
    ELSE /\ watermark' = [watermark EXCEPT ![r] = through]
         /\ marked' = [marked EXCEPT ![r] = through]
         /\ counts' = [counts EXCEPT ![r] =
              IF @ = Cold THEN Cold
              ELSE @ - Cardinality(Addressed(r, watermark[r] - 1) \ Addressed(r, through))]

\* MailboxPendingTracker.advance
AdvanceTo(r, through) ==
    IF through <= watermark[r]
    THEN UNCHANGED <<marked, watermark, counts>>
    ELSE /\ watermark' = [watermark EXCEPT ![r] = through]
         /\ marked' = [marked EXCEPT ![r] = through]
         /\ counts' = [counts EXCEPT ![r] =
              IF @ = Cold THEN Cold
              ELSE @ - Cardinality(Addressed(r, watermark[r]) \ Addressed(r, through))]

\* snapshot, for a WHO request: every count that is missing is read from the journal.
Who ==
    /\ \E r \in Readers : counts[r] = Cold
    /\ counts' = [r \in Readers |->
         IF counts[r] = Cold THEN Cardinality(Addressed(r, watermark[r])) ELSE counts[r]]
    /\ UNCHANGED <<records, awaiting, watermark, handlers, lines, clients, falls>>

-----------------------------------------------------------------------------
(* Receipts.                                                                *)

Notice(n, p, phase) == [chat |-> n, sender |-> p, phase |-> phase]

\* Rows enter the outbox with the receipt they announce.
Enqueue(rows) ==
    /\ notices' = notices \o rows
    /\ owed' = owed \cup (Len(notices) + 1)..(Len(notices) + Len(rows))

\* deliver_pending_receipt_notifications begins: h reads what p was not sent.
Drains(h, p) ==
    draining' = [draining EXCEPT ![h] = {i \in owed' : notices'[i].sender = p}]

\* PendingReceipts keeps the order of the verdicts.
FirstRow(n) == Lowest({i \in DOMAIN notices : notices[i].chat = n})
Oldest == CHOOSE n \in awaiting : \A m \in awaiting : FirstRow(n) <= FirstRow(m)

\* Mutant of Evicted: the window grows one entry beyond its bound.
EvictedLate == IF Cardinality(awaiting) <= MaxPending THEN {} ELSE {Oldest}

\* eviction_for
Evicted == IF Cardinality(awaiting) < MaxPending THEN {} ELSE {Oldest}

\* commit_delivery_receipt_verdict: the receipt, the row that announces it and,
\* if the window is full, the expiry of the oldest pending receipt.
Judge(n, p, delivered) ==
    LET gone == IF delivered THEN {} ELSE Evicted
    IN  /\ verdict' = [m \in Chats |->
             CASE m = n -> IF delivered THEN "delivered" ELSE "pending"
               [] m \in gone -> "expired"
               [] OTHER -> verdict[m]]
        /\ awaiting' = IF delivered THEN awaiting ELSE (awaiting \ gone) \cup {n}
        /\ Enqueue(<<Notice(n, p, "immediate")>>
                   \o IF gone = {} THEN <<>> ELSE <<Notice(Oldest, log[Oldest].by, "expired")>>)

-----------------------------------------------------------------------------
(* The chat handler of a poster.                                            *)

Registered == {"registered", "replaying", "live"}

Free(h) == draining[h] = {} /\ (h \in Posters => h \in present /\ post[h].at = "idle")

\* deliver_local_chat until its first await: the recipients online, those of
\* them with no proof of life, the journal row and the counts.  A receipt that
\* says "not delivered" although someone is matched goes out before the chat.
Posts(p, to, asks, stale) ==
    LET n == Len(log) + 1
        matched == {r \in Readers \cap to : socket[r] \in Registered}
        live == matched \ stale
    IN  /\ Free(p) /\ Len(log) < MaxChats /\ stale \subseteq matched
        /\ log' = Append(log, [by |-> p, to |-> to, asks |-> asks])
        /\ counts' = [r \in Readers |->
             IF counts[r] # Cold /\ r \in to THEN counts[r] + 1 ELSE counts[r]]
        /\ post' = [post EXCEPT ![p] = [Idle EXCEPT !.at = "posted", !.chat = n, !.live = live]]
        /\ IF asks /\ matched # {} /\ live = {}
           THEN Judge(n, p, FALSE) /\ Drains(p, p)
           ELSE /\ verdict' = [verdict EXCEPT ![n] = IF asks THEN "requested" ELSE "none"]
                /\ UNCHANGED <<notices, owed, awaiting, draining>>
    /\ UNCHANGED <<marked, watermark, present, lines, clients, falls>>

Written(n, rs) ==
    /\ wire' = [r \in Readers |->
         IF r \in rs /\ socket[r] # "replaying" THEN Append(wire[r], n) ELSE wire[r]]
    /\ backlog' = [r \in Readers |->
         IF r \in rs /\ socket[r] = "replaying" THEN Append(backlog[r], n) ELSE backlog[r]]

\* broadcast, once the relay log is written: every connection gets the frame,
\* but only one that is bound then proves delivery; a replay holds it back.
FansOut(p) ==
    LET rs == {r \in Readers : socket[r] # "off"}
    IN  /\ post[p].at = "posted" /\ draining[p] = {}
        /\ Written(post[p].chat, rs)
        /\ post' = [post EXCEPT ![p].at = "writing", ![p].reached = rs,
                                ![p].live = {r \in @ : socket[r] \in Registered}]
        /\ UNCHANGED <<records, mailbox, draining, present, socket, links, since,
                       sentAcks, clients, falls>>

\* All writes ended; one to a connection that broke may have failed.
Completes(p) ==
    LET n == post[p].chat
        open == post[p].reached \ post[p].cut
    IN  /\ post[p].at = "writing"
        /\ \A r \in open : \A i \in DOMAIN backlog[r] : backlog[r][i] # n
        /\ \E failed \in SUBSET post[p].cut :
             IF verdict[n] = "requested"
             THEN Judge(n, p, post[p].live \cap (post[p].reached \ failed) # {}) /\ Drains(p, p)
             ELSE UNCHANGED <<verdict, notices, owed, awaiting, draining>>
        /\ post' = [post EXCEPT ![p] = Idle]
        /\ UNCHANGED <<log, marked, watermark, counts, present, lines, clients, falls>>

PosterLeaves(p) ==
    /\ p \in present /\ present' = present \ {p}
    /\ UNCHANGED <<records, mailbox, post, draining, lines, clients, falls>>

\* _restore_registration_notices
PosterRegisters(p) ==
    /\ p \notin present /\ post[p].at = "idle" /\ draining[p] = {}
    /\ present' = present \cup {p}
    /\ UNCHANGED <<records, mailbox, post, lines, clients, falls>>
    /\ Drains(p, p)

-----------------------------------------------------------------------------
(* A reader's connection.                                                   *)

\* The connection of r breaks: what is under way on it is lost.  Its client
\* goes on with its cursor, or a new process starts without one.
Breaks(r) ==
    /\ socket' = [socket EXCEPT ![r] = "off"]
    /\ wire' = [wire EXCEPT ![r] = <<>>] /\ sentAcks' = [sentAcks EXCEPT ![r] = <<>>]
    /\ backlog' = [backlog EXCEPT ![r] = <<>>] /\ since' = [since EXCEPT ![r] = 0]
    /\ \E c \in {cursor[r], 0} : cursor' = [cursor EXCEPT ![r] = c]

Cut(r) == [p \in Posters |->
    IF r \in post[p].reached THEN [post[p] EXCEPT !.cut = @ \cup {r}] ELSE post[p]]

ReaderLeaves(r) ==
    /\ socket[r] # "off" /\ Breaks(r) /\ post' = Cut(r)
    /\ UNCHANGED <<records, mailbox, draining, present, links, accepted, falls>>

\* The client connects and sends its registration, with its cursor.
ReaderConnects(r) ==
    /\ socket[r] = "off" /\ draining[r] = {}
    /\ links[r] < MaxLinks /\ links' = [links EXCEPT ![r] = @ + 1]
    /\ socket' = [socket EXCEPT ![r] = "open"]
    /\ since' = [since EXCEPT ![r] = cursor[r]]
    /\ UNCHANGED <<records, mailbox, handlers, backlog, wire, sentAcks, clients, falls>>

\* The name is bound; delivery sessions, notices and presence still follow.
ReaderRegisters(r) ==
    /\ socket[r] = "open" /\ socket' = [socket EXCEPT ![r] = "registered"]
    /\ UNCHANGED <<records, mailbox, handlers, links, backlog, since, wire, sentAcks,
                   clients, falls>>

\* The chats a replay reads, in journal order.
Missed(r) ==
    LET A == Addressed(r, since[r])
    IN  CHOOSE s \in [1..Cardinality(A) -> A] : \A i, j \in DOMAIN s : i < j => s[i] < s[j]

\* handle_heartbeat with mailbox: the cursor advances the watermark, and the
\* backlog after it begins to be written.
Replays(r) ==
    /\ socket[r] = "registered"
    /\ AdvanceTo(r, since[r])
    /\ backlog' = [backlog EXCEPT ![r] = Missed(r)]
    /\ socket' = [socket EXCEPT ![r] = IF Missed(r) = <<>> THEN "live" ELSE "replaying"]
    /\ since' = [since EXCEPT ![r] = 0]
    /\ UNCHANGED <<log, verdict, notices, owed, awaiting, handlers, links, wire, sentAcks,
                   clients, falls>>

\* send_backlog: one frame, then what was held behind it.
WritesBacklog(r) ==
    /\ socket[r] = "replaying"
    /\ wire' = [wire EXCEPT ![r] = Append(@, Head(backlog[r]))]
    /\ backlog' = [backlog EXCEPT ![r] = Tail(@)]
    /\ socket' = [socket EXCEPT ![r] = IF Len(backlog[r]) = 1 THEN "live" ELSE @]
    /\ UNCHANGED <<records, mailbox, handlers, links, since, sentAcks, clients, falls>>

\* _track_mailbox_frame
Accepts(r) ==
    /\ wire[r] # <<>>
    /\ LET n == Head(wire[r])
       IN  /\ cursor' = [cursor EXCEPT ![r] = IF n > @ THEN n ELSE @]
           /\ accepted' = [accepted EXCEPT ![r] = @ \cup {n}]
           /\ sentAcks' = [sentAcks EXCEPT ![r] = Append(@, n)]
    /\ wire' = [wire EXCEPT ![r] = Tail(@)]
    /\ UNCHANGED <<records, mailbox, handlers, socket, links, backlog, since, falls>>

\* Mutant of Settles: whoever acks a pending chat settles it.
SettlesForAnyone(r, n) == n \in awaiting

Settles(r, n) == n \in awaiting /\ r \in log[n].to

\* handle_ack: the watermark follows a chat that addresses the reader, and a
\* pending receipt is settled and sent to its poster.
Acks(r) ==
    /\ socket[r] = "live" /\ draining[r] = {} /\ sentAcks[r] # <<>>
    /\ LET n == Head(sentAcks[r])
       IN  /\ IF r \in log[n].to THEN AdvanceTo(r, n)
              ELSE UNCHANGED <<marked, watermark, counts>>
           /\ IF Settles(r, n)
              THEN /\ verdict' = [verdict EXCEPT ![n] = "deferred"]
                   /\ awaiting' = awaiting \ {n}
                   /\ Enqueue(<<Notice(n, log[n].by, "deferred")>>)
                   /\ Drains(r, log[n].by)
              ELSE UNCHANGED <<verdict, awaiting, notices, owed, draining>>
    /\ sentAcks' = [sentAcks EXCEPT ![r] = Tail(@)]
    /\ UNCHANGED <<log, post, present, socket, links, backlog, since, wire, clients, falls>>

-----------------------------------------------------------------------------
(* The rows a handler drains, one write each.                               *)

\* The row was sent, or its poster is away, and the attempt is marked.
Notifies(h) ==
    /\ draining[h] # {}
    /\ LET i == Lowest(draining[h])
       IN  /\ i \in owed
           /\ owed' = IF notices[i].sender \in present THEN owed \ {i} ELSE owed
           /\ draining' = [draining EXCEPT ![h] = @ \ {i}]
    /\ UNCHANGED <<log, verdict, notices, marked, mailbox, post, present, lines, clients, falls>>

\* Another handler marked the row meanwhile: mark_delivery_notification_attempt
\* raises, and the handler dies with its connection.
NotifiesTwice(h) ==
    /\ draining[h] # {} /\ Lowest(draining[h]) \notin owed
    /\ draining' = [draining EXCEPT ![h] = {}]
    /\ IF h \in Readers
       THEN Breaks(h) /\ post' = Cut(h) /\ UNCHANGED present
       ELSE /\ post' = [post EXCEPT ![h] = Idle] /\ present' = present \ {h}
            /\ UNCHANGED <<socket, since, wire, sentAcks, backlog, cursor>>
    /\ UNCHANGED <<records, mailbox, links, accepted, falls>>

-----------------------------------------------------------------------------
\* The hub's process dies and starts again: the receipts, the watermarks and
\* the chats are read from the journal.
Falls ==
    /\ falls < MaxFalls /\ falls' = falls + 1
    /\ awaiting' = {n \in Chats : verdict[n] = "pending"}
    /\ watermark' = marked /\ counts' = [r \in Readers |-> Cold]
    /\ post' = [p \in Posters |-> Idle] /\ draining' = [h \in Handlers |-> {}]
    /\ present' = {} /\ socket' = [r \in Readers |-> "off"]
    /\ backlog' = [r \in Readers |-> <<>>] /\ wire' = backlog' /\ sentAcks' = backlog'
    /\ since' = [r \in Readers |-> 0]
    /\ UNCHANGED <<records, links, clients>>

PosterSteps == \E p \in Posters :
    \/ \E to \in Audiences, asks \in BOOLEAN, stale \in SUBSET Readers :
         (asks => to # {}) /\ Posts(p, to, asks, stale)
    \/ FansOut(p) \/ Completes(p) \/ PosterLeaves(p) \/ PosterRegisters(p)

ReaderSteps == \E r \in Readers :
    \/ ReaderLeaves(r) \/ ReaderConnects(r) \/ ReaderRegisters(r) \/ Replays(r)
    \/ WritesBacklog(r) \/ Accepts(r) \/ Acks(r)

MailNext ==
    \/ PosterSteps \/ ReaderSteps \/ Who \/ Falls
    \/ \E h \in Handlers : Notifies(h) \/ NotifiesTwice(h)

MailSpec == MailInit /\ [][MailNext]_mailVars

-----------------------------------------------------------------------------
Receipts == {"none", "requested", "delivered", "pending", "deferred", "expired"}
Sockets == {"off", "open"} \cup Registered
Rows == [chat : Chats, sender : Posters, phase : {"immediate", "deferred", "expired"}]
Posted == [at : {"idle", "posted", "writing"}, chat : 0..MaxChats,
           live : SUBSET Readers, reached : SUBSET Readers, cut : SUBSET Readers]

\* The journal, the hub and the clients keep the shape the code gives them.
MailTypeOK ==
    /\ log \in Seq([by : Posters, to : SUBSET (Readers \cup Seats), asks : BOOLEAN])
    /\ Len(log) <= MaxChats
    /\ verdict \in [Chats -> Receipts]
    /\ notices \in Seq(Rows) /\ owed \subseteq DOMAIN notices
    /\ marked \in [Readers -> 0..MaxChats] /\ watermark \in [Readers -> 0..MaxChats]
    /\ counts \in [Readers -> Int \cup {Cold}]
    /\ awaiting \subseteq Chats
    /\ post \in [Posters -> Posted]
    /\ draining \in [Handlers -> SUBSET (DOMAIN notices)] /\ present \subseteq Posters
    /\ socket \in [Readers -> Sockets] /\ links \in [Readers -> Nat]
    /\ {backlog, wire, sentAcks} \subseteq [Readers -> Seq(Chats)]
    /\ since \in [Readers -> 0..MaxChats] /\ cursor \in [Readers -> 0..MaxChats]
    /\ accepted \in [Readers -> SUBSET Chats]
    /\ falls \in Nat

\* What the hub says of a reader is so, whoever acked and however late: a
\* deferred receipt and a mailbox watermark name a chat that a client of the
\* reader accepted, and one it was addressed by.
AckedWasAccepted ==
    /\ \A n \in Chats : verdict[n] = "deferred" =>
         \E r \in log[n].to \cap Readers : n \in accepted[r]
    /\ \A r \in Readers : marked[r] # 0 => marked[r] \in accepted[r]

\* The receipts that await an ack are the pending ones of the journal, before
\* and after a crash, and never more than the window holds: one that leaves
\* the full window is expired in the transaction that lets another one in.
AwaitingIsDurable ==
    /\ awaiting = {n \in Chats : verdict[n] = "pending"}
    /\ Cardinality(awaiting) <= MaxPending

\* The counts and watermarks the hub keeps in memory are those its journal
\* gives, whatever chats, acks, cursors and restarts came since they were read.
CountsAgree == \A r \in Readers :
    /\ watermark[r] = marked[r]
    /\ counts[r] # Cold => counts[r] = Cardinality(Addressed(r, watermark[r]))

\* INV-DG-3 (docs/coordination-spec.md:919-925): a reader whose backlog was
\* written and read has accepted every chat that addresses it, but for those a
\* handler is still writing.  It does not hold: a live frame reaches a
\* connection that waits for its replay and moves the client's cursor past it.
CaughtUpMissesNothing == \A r \in Readers :
    socket[r] = "live" /\ wire[r] = <<>> =>
        \A n \in Addressed(r, 0) :
            n \in accepted[r] \/ \E p \in Posters : post[p].chat = n
=============================================================================
