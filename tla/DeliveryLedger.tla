--------------------------- MODULE DeliveryLedger ---------------------------
(***************************************************************************)
(* Session-bound delivery on one hub: the request table, its event rows and  *)
(* its notification outbox (core/delivery_persistence.py), the handlers that *)
(* admit, report and cancel (core/handlers/delivery_modes.py), the deadline  *)
(* and supersession sweeps, and the replay check a restart must pass         *)
(* (core/delivery_replay.py).                                               *)
(* Requests are addressed to one recipient name and to one process behind it  *)
(* (its incarnation: the digest of an in-memory token), so a process that    *)
(* reconnects keeps its incarnation and a new process has another.           *)
(* Every ledger call is one transaction; the sweeps await a socket write      *)
(* after each, and everything else may run then.  Clients choose mutation     *)
(* identities of their own, stable per stage; refused frames change nothing.  *)
(* Which offers and cancellation notices were written to the recipient is not *)
(* kept: it only decides what is written to it again.                        *)
(***************************************************************************)
EXTENDS Integers, Sequences, FiniteSets

CONSTANTS
    Ops,            \* requests, in the order of their operation keys
    Senders,        \* names that send requests
    Procs,          \* processes that own the recipient's name in turn
    Nobody,         \* no process
    Origin,         \* the sender of a request
    Recipient,      \* the incarnation a request is addressed to
    Deadline,       \* the deadline of a request
    Reports,        \* the stages a recipient may report of a request
    MayCancel,      \* the requests a sender may cancel
    Calls,          \* expiry sweeps called by handlers, beside the loop
    MaxOpen,        \* MAX_OPEN_DELIVERIES_PER_RECIPIENT (128)
    MaxPerSender,   \* MAX_OPEN_DELIVERIES_PER_SENDER_RECIPIENT (16)
    PageSize,       \* rows a sweep reads at once (128)
    MaxClock,       \* bound: the clock stops there
    MaxCrashes      \* bound: crashes of the hub

VARIABLES
    rec,            \* delivery_requests: stage, cancellation, evidence, ordinal
    history,        \* the event rows of each request
    unsent,         \* delivery_notifications not yet written to the sender
    quarantined,    \* delivery_quarantine
    now, up, crashes,
    owner,          \* the process whose socket holds the recipient's name
    phase,          \* how far each process's registration has come
    session,        \* agent_delivery_sessions of the name
    online,         \* the senders connected
    sweep           \* the sweeps in progress

ledger == <<rec, history, unsent, quarantined>>
binding == <<owner, phase, session>>
deliveryVars == <<ledger, now, up, crashes, binding, online, sweep>>

Open == {"queued", "boundary_delivered", "acknowledged"}
Terminal == {"completed", "failed", "rejected", "expired", "cancelled", "superseded"}
Registration == {"off", "bound", "superseding", "live"}

\* Expiry sweeps can overlap (the periodic one, those handlers call), and each
\* process's registration runs one supersession sweep.
Expiry == {"loop"} \union Calls
Sweepers == Expiry \union Procs
Idle == [on |-> FALSE, page |-> {}, cursor |-> 0, sending |-> FALSE]

DeliveryAssumption ==
    /\ Ops \subseteq Nat \ {0} /\ IsFiniteSet(Ops)
    /\ Nobody \notin Procs /\ Procs \intersect Expiry = {}
    /\ Origin \in [Ops -> Senders] /\ Recipient \in [Ops -> Procs]
    /\ Deadline \in [Ops -> Nat]
    /\ Reports \in [Ops -> SUBSET ((Open \union Terminal) \ {"queued", "expired"})]
    /\ MayCancel \subseteq Ops
    /\ {MaxOpen, MaxPerSender, PageSize} \subseteq Nat \ {0}
    /\ {MaxClock, MaxCrashes} \subseteq Nat

Absent == [stage |-> "none", cancel |-> FALSE, boundary |-> FALSE,
           acked |-> FALSE, ordinal |-> 0]

DeliveryInit ==
    /\ rec = [o \in Ops |-> Absent]
    /\ history = [o \in Ops |-> <<>>]
    /\ unsent = [o \in Ops |-> {}]
    /\ quarantined = {}
    /\ now = 0 /\ up = TRUE /\ crashes = 0
    /\ owner = Nobody /\ phase = [p \in Procs |-> "off"] /\ session = Nobody
    /\ online = {}
    /\ sweep = [w \in Sweepers |-> Idle]

-----------------------------------------------------------------------------
(* One event loop: a sweep that is not waiting for a socket write runs on.    *)
Suspended(w) == sweep[w].on => sweep[w].sending

Serving == up /\ \A w \in Sweepers : Suspended(w)

-----------------------------------------------------------------------------
(* The lifecycle and one committed mutation.                                *)

\* Mutant of NextStages: a request that is acknowledged can no longer expire.
NextStagesAckedStays(stage) ==
    CASE stage = "queued" ->
            {"boundary_delivered", "rejected", "expired", "cancelled", "superseded"}
      [] stage = "boundary_delivered" ->
            {"acknowledged", "rejected", "failed", "expired", "cancelled", "superseded"}
      [] stage = "acknowledged" ->
            {"completed", "failed", "rejected", "cancelled", "superseded"}
      [] OTHER -> {}

\* _NEXT_STAGES
NextStages(stage) ==
    CASE stage = "queued" ->
            {"boundary_delivered", "rejected", "expired", "cancelled", "superseded"}
      [] stage = "boundary_delivered" ->
            {"acknowledged", "rejected", "failed", "expired", "cancelled", "superseded"}
      [] stage = "acknowledged" ->
            {"completed", "failed", "rejected", "expired", "cancelled", "superseded"}
      [] OTHER -> {}

IsOpen(o) == rec[o].stage \in Open

\* The mutation index: a mutation identity is committed once per request.
Recorded(o, id) == \E i \in DOMAIN history[o] : history[o][i].id = id

\* Mutant of Advances: only the recorded identity stops a report.
AdvancesUnchecked(o, stage) == rec[o].stage # "none"

\* DeliveryLifecycle.advance
Advances(o, stage) == stage \in NextStages(rec[o].stage)

\* Mutant of AtStage: the evidence columns mirror the current stage only.
AtStageForgets(r, stage) ==
    [r EXCEPT !.stage = stage, !.boundary = stage = "boundary_delivered",
              !.acked = stage = "acknowledged", !.ordinal = @ + 1]

AtStage(r, stage) ==
    [r EXCEPT !.stage = stage, !.boundary = @ \/ stage = "boundary_delivered",
              !.acked = @ \/ stage = "acknowledged", !.ordinal = @ + 1]

CancelRequested(r) == [r EXCEPT !.cancel = TRUE, !.ordinal = @ + 1]

\* One transaction: the event row, the aggregate row and the notification,
\* which is written to its audience afterwards (told) or stays in the outbox.
Commit(o, r, id, source, told) ==
    /\ rec' = [rec EXCEPT ![o] = r]
    /\ history' = [history EXCEPT ![o] = Append(@,
          [was |-> rec[o], now |-> r, id |-> id, source |-> source])]
    /\ unsent' = IF told THEN unsent ELSE [unsent EXCEPT ![o] = @ \union {r.ordinal}]

-----------------------------------------------------------------------------
(* Senders.                                                                 *)

OpenFor(p) == {o \in Ops : IsOpen(o) /\ Recipient[o] = p}

Queued == [Absent EXCEPT !.stage = "queued", !.ordinal = 1]

\* admit_delivery_request: a live session of the named incarnation, room in
\* both queues, then the offer.
Admit(o) ==
    /\ Serving /\ Origin[o] \in online /\ rec[o] = Absent
    /\ now < Deadline[o]
    /\ session = Recipient[o]
    /\ Cardinality(OpenFor(session)) < MaxOpen
    /\ Cardinality({x \in OpenFor(session) : Origin[x] = Origin[o]}) < MaxPerSender
    /\ Commit(o, Queued, "admit", "sender", TRUE)
    /\ UNCHANGED <<quarantined, now, up, crashes, binding, online, sweep>>

\* cancel_delivery records the wish and tells the recipient; it closes nothing.
Cancel(o) ==
    /\ Serving /\ Origin[o] \in online /\ IsOpen(o) /\ ~rec[o].cancel
    /\ Commit(o, CancelRequested(rec[o]), "cancel", "sender", TRUE)
    /\ UNCHANGED <<quarantined, now, up, crashes, binding, online, sweep>>

\* A sender registers and is sent its outbox (deliver_pending_delivery_
\* notifications); a replay that breaks off registers nobody.
SenderJoins(s) ==
    /\ Serving /\ s \notin online
    /\ online' = online \union {s}
    /\ unsent' = [o \in Ops |-> IF Origin[o] = s THEN {} ELSE unsent[o]]
    /\ UNCHANGED <<rec, history, quarantined, now, up, crashes, binding, sweep>>

SenderLeaves(s) ==
    /\ Serving /\ s \in online
    /\ online' = online \ {s}
    /\ UNCHANGED <<ledger, now, up, crashes, binding, sweep>>

-----------------------------------------------------------------------------
(* The recipient's processes.                                               *)

\* resolve_sender: the name is free or taken over.  The maps move to the new
\* socket; the delivery session of the evicted one stays until it is replaced.
Bind(p) ==
    /\ Serving /\ phase[p] = "off"
    /\ owner' = p
    /\ phase' = [q \in Procs |-> IF q = p THEN "bound"
                                 ELSE IF q = owner THEN "off" ELSE phase[q]]
    /\ UNCHANGED <<ledger, now, up, crashes, session, online, sweep>>

\* bind_delivery_session, then supersede_old_delivery_sessions begins.  A
\* process registers once at a time (bound: its earlier sweep has ended).
RegisterSession(p) ==
    /\ Serving /\ phase[p] = "bound" /\ ~sweep[p].on
    /\ session' = p
    /\ phase' = [phase EXCEPT ![p] = "superseding"]
    /\ sweep' = [sweep EXCEPT ![p] = [Idle EXCEPT !.on = TRUE]]
    /\ UNCHANGED <<ledger, now, up, crashes, owner, online>>

\* A registration that advertises no delivery capabilities.
RegisterPlain(p) ==
    /\ Serving /\ phase[p] = "bound"
    /\ phase' = [phase EXCEPT ![p] = "live"]
    /\ UNCHANGED <<ledger, now, up, crashes, owner, session, online, sweep>>

\* drop_client: the session goes with the socket that still holds the name.
RecipientLeaves(p) ==
    /\ Serving /\ phase[p] # "off"
    /\ owner' = Nobody /\ session' = Nobody
    /\ phase' = [phase EXCEPT ![p] = "off"]
    /\ UNCHANGED <<ledger, now, up, crashes, online, sweep>>

\* handle_delivery_stage: the named incarnation reports a stage of its own
\* request, once, before the deadline.
Report(p, o, stage) ==
    /\ Serving /\ phase[p] = "live" /\ session = p /\ Recipient[o] = p
    /\ IsOpen(o) => now < Deadline[o]
    /\ ~Recorded(o, stage) /\ Advances(o, stage)
    /\ \E told \in BOOLEAN :
          /\ told => Origin[o] \in online
          /\ Commit(o, AtStage(rec[o], stage), stage, "recipient", told)
    /\ UNCHANGED <<quarantined, now, up, crashes, binding, online, sweep>>

-----------------------------------------------------------------------------
(* The sweeps.                                                              *)

\* due_for_expiry and open_for_other_incarnations
Due(w) == {o \in Ops \ quarantined : IsOpen(o) /\
             IF w \in Expiry THEN Deadline[o] <= now ELSE Recipient[o] # w}

\* Mutant of Rows: the cursor of one page leaves out the row after it.
RowsSkip(w) == {o \in Due(w) : sweep[w].cursor = 0 \/ o > sweep[w].cursor + 1}

Rows(w) == {o \in Due(w) : o > sweep[w].cursor}

FirstOf(rows) == {o \in rows : Cardinality({x \in rows : x < o}) < PageSize}

\* The loop wakes every five seconds; a handler that meets an overdue request
\* sweeps before it refuses the frame.
Begun(w) == sweep[w].on \/ (Serving /\ w \in Expiry /\ Due(w) # {})

Page(w) == IF sweep[w].page # {} THEN sweep[w].page ELSE FirstOf(Rows(w))

SweepEnds(w) ==
    /\ up /\ sweep[w].on /\ Page(w) = {} /\ ~sweep[w].sending
    /\ sweep' = [sweep EXCEPT ![w] = Idle]
    /\ phase' = [p \in Procs |-> IF p = w /\ phase[p] = "superseding"
                                 THEN "live" ELSE phase[p]]
    /\ UNCHANGED <<ledger, now, up, crashes, owner, session, online>>

Verdict(w) == IF w \in Expiry THEN "expired" ELSE "superseded"

Refuses(w, o) == ~Advances(o, Verdict(w))

\* One row of a page, which may have changed since it was read: the mutation
\* is already recorded, or refused (then quarantined), or committed.
SweepRow(w) ==
    /\ up /\ Begun(w) /\ Page(w) # {} /\ ~sweep[w].sending
    /\ LET o == CHOOSE x \in Page(w) : \A y \in Page(w) : x <= y
           commits == ~Recorded(o, Verdict(w)) /\ ~Refuses(w, o)
       IN /\ sweep' = [sweep EXCEPT ![w] = [on |-> TRUE, page |-> Page(w) \ {o},
                                            cursor |-> o,
                                sending |-> commits /\ Origin[o] \in online]]
          /\ IF commits
             THEN /\ Commit(o, AtStage(rec[o], Verdict(w)), Verdict(w), "hub", FALSE)
                  /\ UNCHANGED quarantined
             ELSE /\ quarantined' = IF Recorded(o, Verdict(w)) THEN quarantined
                                    ELSE quarantined \union {o}
                  /\ UNCHANGED <<rec, history, unsent>>
    /\ UNCHANGED <<now, up, crashes, binding, online>>

\* _notify_record: written and marked, or logged and left pending.
SweepSent(w) ==
    /\ Serving /\ sweep[w].sending
    /\ sweep' = [sweep EXCEPT ![w].sending = FALSE]
    /\ LET o == sweep[w].cursor IN
          \/ /\ Origin[o] \in online
             /\ unsent' = [unsent EXCEPT ![o] = @ \ {rec[o].ordinal}]
          \/ UNCHANGED unsent
    /\ UNCHANGED <<rec, history, quarantined, now, up, crashes, binding, online>>

-----------------------------------------------------------------------------
(* Clock, crash and restart.                                                *)

Tick ==
    /\ now < MaxClock
    /\ now' = now + 1
    /\ UNCHANGED <<ledger, up, crashes, binding, online, sweep>>

Crash ==
    /\ up /\ crashes < MaxCrashes
    /\ up' = FALSE /\ crashes' = crashes + 1
    /\ owner' = Nobody /\ session' = Nobody
    /\ phase' = [p \in Procs |-> "off"]
    /\ online' = {}
    /\ sweep' = [w \in Sweepers |-> Idle]
    /\ UNCHANGED <<ledger, now>>

\* verify_delivery_replay, for one request: a queued first event, then events
\* in order, each legal from the one before, on distinct mutation identities,
\* ending in the aggregate row.
ReplayAccepts(o) ==
    LET h == history[o] IN
    /\ IF h = <<>> THEN rec[o] = Absent ELSE rec[o] = h[Len(h)].now
    /\ \A i \in DOMAIN h :
          /\ h[i].now.ordinal = i
          /\ IF i = 1 THEN h[i].now = Queued
             ELSE /\ h[i].was = h[i - 1].now
                  /\ h[i].was.stage \notin Terminal
                  /\ IF h[i].id = "cancel"
                     THEN h[i].now = CancelRequested(h[i].was)
                     ELSE /\ h[i].now.stage \in NextStages(h[i].was.stage)
                          /\ h[i].now = [stage |-> h[i].now.stage, cancel |-> h[i].was.cancel,
                               boundary |-> h[i].was.boundary \/ h[i].now.stage = "boundary_delivered",
                               acked |-> h[i].was.acked \/ h[i].now.stage = "acknowledged",
                               ordinal |-> i]
                          /\ h[i].now.stage = "expired" => h[i].source = "hub"
                          /\ h[i].source = "hub" => h[i].now.stage \in {"expired", "superseded"}
          /\ \A j \in DOMAIN h : h[i].id = h[j].id => i = j

Restart ==
    /\ ~up /\ \A o \in Ops : ReplayAccepts(o)
    /\ up' = TRUE
    /\ UNCHANGED <<ledger, now, crashes, binding, online, sweep>>

SenderSteps == \E s \in Senders : SenderJoins(s) \/ SenderLeaves(s)

RequestSteps == \/ \E o \in Ops : Admit(o)
                \/ \E o \in MayCancel : Cancel(o)

RecipientSteps == \E p \in Procs :
    \/ Bind(p) \/ RegisterSession(p) \/ RegisterPlain(p) \/ RecipientLeaves(p)
    \/ \E o \in Ops : \E stage \in Reports[o] : Report(p, o, stage)

SweepTurns ==
    \E w \in Sweepers : SweepRow(w) \/ SweepSent(w) \/ SweepEnds(w)

DeliveryNext ==
    \/ SenderSteps \/ RequestSteps \/ RecipientSteps \/ SweepTurns
    \/ Tick \/ Crash \/ Restart

SweepRuns == \E w \in Sweepers : SweepRow(w) \/ SweepEnds(w)

\* The clock and the supervisor that restarts the hub do not stop.  The event
\* loop runs what is not suspended and is fair to its tasks: the expiry loop's
\* turn comes, its socket writes end (a stalled one is aborted), and senders
\* leave and register again now and then.
DeliveryFairness ==
    /\ WF_deliveryVars(Tick) /\ WF_deliveryVars(Restart) /\ WF_deliveryVars(SweepRuns)
    /\ SF_deliveryVars(SweepRow("loop") \/ SweepSent("loop"))
    /\ \A s \in Senders : SF_deliveryVars(SenderJoins(s) \/ SenderLeaves(s))

DeliverySpec == DeliveryInit /\ [][DeliveryNext]_deliveryVars /\ DeliveryFairness

-----------------------------------------------------------------------------
(* Properties.                                                              *)

Row == [stage : Open \union Terminal \union {"none"}, cancel : BOOLEAN,
        boundary : BOOLEAN, acked : BOOLEAN, ordinal : Nat]
Event == [was : Row, now : Row, id : Open \union Terminal \union {"admit", "cancel"},
          source : {"sender", "recipient", "hub"}]

\* Every variable has its type; only the owner's connection is past its bind.
DeliveryTypeOK ==
    /\ rec \in [Ops -> Row]
    /\ history \in [Ops -> Seq(Event)] /\ unsent \in [Ops -> SUBSET Nat]
    /\ quarantined \subseteq Ops
    /\ now \in 0 .. MaxClock /\ up \in BOOLEAN /\ crashes \in 0 .. MaxCrashes
    /\ owner \in Procs \union {Nobody} /\ session \in Procs \union {Nobody}
    /\ phase \in [Procs -> Registration]
    /\ \A p \in Procs : phase[p] # "off" <=> owner = p
    /\ online \subseteq Senders
    /\ sweep \in [Sweepers -> [on : BOOLEAN, page : SUBSET Ops,
                               cursor : Ops \union {0}, sending : BOOLEAN]]

\* The hub can always restart from its own journal: what the handlers and the
\* sweeps commit, in any interleaving, the replay check accepts.
OwnJournalReplays == \A o \in Ops : ReplayAccepts(o)

\* Once a process's registration has superseded older work, every request
\* still open is addressed to it, whatever sweeps, takeovers and admissions
\* ran between its own page reads.
LiveSessionOwnsOpenWork ==
    \A p \in Procs : phase[p] = "live" /\ session = p /\ ~sweep[p].on =>
        \A o \in Ops : IsOpen(o) => Recipient[o] = p

\* A verdict is final, evidence and a cancellation wish are never withdrawn,
\* and no event is ever rewritten, through races, crashes and restarts.
VerdictsFinal ==
    [][\A o \in Ops :
         /\ rec[o].stage \in Terminal => rec'[o] = rec[o]
         /\ rec[o].cancel => rec'[o].cancel
         /\ rec[o].boundary => rec'[o].boundary
         /\ rec[o].acked => rec'[o].acked
         /\ SubSeq(history'[o], 1, Len(history[o])) = history[o]]_deliveryVars

\* Every admitted request is closed in the end, reported, superseded or expired
\* by the loop, and its sender is told, also when the hub crashed in between.
OpenSettles == \A o \in Ops : IsOpen(o) ~> rec[o].stage \in Terminal /\ unsent[o] = {}

\* The hub closes as superseded only work whose process has been replaced: not
\* what was addressed to the session that is registered now.
LiveWorkKept ==
    [][\A o \in Ops : rec'[o].stage = "superseded" /\ history'[o] # history[o]
          => session # Recipient[o]]_deliveryVars

\* The registered delivery session is the one of the socket that holds the
\* name ("the current socket's advertised delivery contract").
SessionOfCurrentSocket == session # Nobody => owner = session
=============================================================================
