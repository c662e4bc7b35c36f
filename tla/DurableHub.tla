----------------------------- MODULE DurableHub -----------------------------
(***************************************************************************)
(* A hub with a journal.  SerializedStateMutationActor                      *)
(* (core/state_transaction.py) applies a lease method to a private deep     *)
(* copy of the registry, appends the resulting claim snapshot in a worker   *)
(* thread, and only then publishes the copy; the live registry stays        *)
(* visible, and state snapshots expire leases in it, while the append is in  *)
(* flight.  A crash loses everything but the database, and the restarted     *)
(* hub replays it (core/journal.py).  Keyed requests are answered at most     *)
(* once through the operations table (core/persistence_operation_commit.py). *)
(* Rows replay ignores (audit denials, progress notes, chat) are left out,   *)
(* and so is protected custody, whose dispatch a hub does not enable.        *)
(***************************************************************************)
EXTENDS SynapseState

CONSTANTS
    IdemKeys,        \* idem_key values of keyed requests
    Nil,             \* no key, no reply, no mutation in flight
    Ttls,            \* the TTLs clients ask for
    Goals,           \* the statuses clients ask for
    KeepCheckpoints, \* RetentionPolicy.max_checkpoints_per_task
    ClockSteps,      \* TRUE: the wall clock may step backwards
    TornBatch,       \* TRUE: an append may fail after an earlier one of its batch
    MaxClock,        \* bound: last instant, and last lease expiry, considered
    MaxEpoch,        \* bound: leases minted
    MaxVersion,      \* bound: field updates within one lease
    MaxSeq,          \* bound: rows ever appended
    MaxCrashes       \* bound: crashes

VARIABLES
    live,            \* hub.state
    now,             \* time.time()
    journal,         \* the claim-family rows of the events table
    lastSeq,         \* its AUTOINCREMENT counter
    operations,      \* the operations table
    pending,         \* the mutation the actor lock is held for
    doomed,          \* sequences a compaction has selected and not yet deleted
    up,              \* the hub process is running
    crashes,         \* crashes so far
    acks             \* history: the successful responses clients were sent

volatile == <<live, pending, up, acks>>
durable == <<journal, lastSeq, operations, doomed>>
vars == <<volatile, durable, now, crashes>>

Kinds == {"claim", "task_update", "checkpoint", "handoff", "release"}

\* An event of the lease family: a claim snapshot, or a bare task id.
Event == [kind : Kinds, task : Tasks, claim : Claim \cup {NoClaim}]
Row == [seq : Nat, event : Event]

\* A request as its canonical digest tells it apart; its message type is op.
Bodies == Scopes \cup Agents \cup Tokens \cup {NoToken, NoStatus} \cup Statuses
Request == [op : Kinds, agent : Agents, task : Tasks, body : Bodies,
            fence : Nat \cup {NoFence}]

\* idempotency_key: namespaced by sender and message type.
OperationKey == [agent : Agents, op : Kinds, idem : IdemKeys]
Operation == [key : OperationKey, request : Request, event : Event]

\* OperationDraft and the private candidate of run / run_atomic.
Mutation == [cand : Registry, todo : SUBSET Event, begun : BOOLEAN,
             key : OperationKey \cup {Nil}, request : Request \cup {Nil},
             reply : Event \cup {Nil}]

Ack == [key : OperationKey \cup {Nil}, request : Request \cup {Nil}, event : Event]

ASSUME NilAssumption ==
    /\ Nil \notin OperationKey /\ Nil \notin Event /\ Nil \notin Mutation
    /\ Nil \notin Request
ASSUME HubInputAssumption ==
    /\ Ttls \subseteq Nat /\ Goals \subseteq Statuses \cup {NoStatus}
    /\ KeepCheckpoints \in Nat \ {0}
    /\ ClockSteps \in BOOLEAN /\ TornBatch \in BOOLEAN

-----------------------------------------------------------------------------
(* replay: the last event of each task in sequence order restores it.        *)

IsLast(rows, r) == \A q \in rows : q.event.task = r.event.task => q.seq <= r.seq

RestoredClaim(rows, t) ==
    LET last == {r \in rows : r.event.task = t /\ IsLast(rows, r)}
    IN  IF last = {} THEN NoClaim ELSE (CHOOSE r \in last : TRUE).event.claim

\* Mutant of RestoredEpoch: counts from the leases still held.
RestoredEpochOfHeld(rows) ==
    LET epochs == {0} \cup {r.event.claim.epoch :
                              r \in {q \in rows : q.event.claim # NoClaim /\ IsLast(rows, q)}}
    IN  CHOOSE m \in epochs : \A e \in epochs : e <= m

\* Mutant of RestoredEpoch: an empty journal restores a counter before zero.
RestoredEpochBeforeZero(rows) ==
    LET epochs == {-1} \cup {r.event.claim.epoch :
                               r \in {q \in rows : q.event.claim # NoClaim}}
    IN  CHOOSE m \in epochs : \A e \in epochs : e <= m

RestoredEpoch(rows) ==
    LET epochs == {0} \cup {r.event.claim.epoch :
                              r \in {q \in rows : q.event.claim # NoClaim}}
    IN  CHOOSE m \in epochs : \A e \in epochs : e <= m

\* Mutant of Replay: leases that lapsed while the hub was down are kept.
ReplayKeepsLapsed(rows, at) ==
    LET claims == [t \in Tasks |-> RestoredClaim(rows, t)]
    IN  [InitRegistry EXCEPT !.claims = claims, !.index = Rebuilt(claims),
                             !.epochSeq = RestoredEpoch(rows)]

Replay(rows, at) ==
    LET claims == [t \in Tasks |-> RestoredClaim(rows, t)]
    IN  Expire([InitRegistry EXCEPT !.claims = claims,
                                    !.index = Rebuilt(claims),
                                    !.epochSeq = RestoredEpoch(rows)], at)

-----------------------------------------------------------------------------
Init ==
    /\ live = InitRegistry /\ now = 0
    /\ journal = {} /\ lastSeq = 0 /\ operations = {} /\ doomed = {}
    /\ pending = Nil /\ up = TRUE /\ crashes = 0 /\ acks = {}

Advance == now < MaxClock /\ now' = now + 1 /\ UNCHANGED <<volatile, durable, crashes>>

StepBack ==
    /\ ClockSteps /\ now > 0 /\ now' \in 0..(now - 1)
    /\ UNCHANGED <<volatile, durable, crashes>>

\* handle_state_request expires the live registry outside the actor lock; a
\* registered frame's heartbeat does the same under it.
Snapshot ==
    /\ up /\ live' = Expire(live, now)
    /\ UNCHANGED <<pending, up, acks, durable, now, crashes>>

-----------------------------------------------------------------------------
(* The mutation actor.                                                      *)

Lookup(key) == {o \in operations : o.key = key}

\* Mutant of Begin: the key is not looked up again under the lock.
BeginBlind(request, key, cand, granted, event) ==
    /\ up /\ pending = Nil
    /\ pending' = IF granted
                  THEN [cand |-> cand, todo |-> {event}, begun |-> FALSE, key |-> key,
                        request |-> IF key = Nil THEN Nil ELSE request, reply |-> event]
                  ELSE [cand |-> cand, todo |-> {}, begun |-> FALSE, key |-> Nil,
                        request |-> Nil, reply |-> Nil]
    /\ UNCHANGED <<live, up, acks, durable, now, crashes>>

\* Take the lock, look the key up again, and mutate a deep copy.  A refused
\* method has no draft: it only publishes the expiry it started with, and its
\* key stays unused.
Begin(request, key, cand, granted, event) ==
    /\ up /\ pending = Nil
    /\ key # Nil => Lookup(key) = {}
    /\ pending' = IF granted
                  THEN [cand |-> cand, todo |-> {event}, begun |-> FALSE, key |-> key,
                        request |-> IF key = Nil THEN Nil ELSE request, reply |-> event]
                  ELSE [cand |-> cand, todo |-> {}, begun |-> FALSE, key |-> Nil,
                        request |-> Nil, reply |-> Nil]
    /\ UNCHANGED <<live, up, acks, durable, now, crashes>>

\* The worker thread commits one transaction: the next event, with the
\* operation of a keyed request.
Commit ==
    /\ pending # Nil /\ lastSeq < MaxSeq
    /\ \E e \in pending.todo :
         /\ journal' = journal \cup {[seq |-> lastSeq + 1, event |-> e]}
         /\ pending' = [pending EXCEPT !.todo = @ \ {e}, !.begun = TRUE]
    /\ lastSeq' = lastSeq + 1
    /\ operations' = IF pending.key = Nil THEN operations
                     ELSE operations \cup {[key |-> pending.key,
                                            request |-> pending.request,
                                            event |-> pending.reply]}
    /\ UNCHANGED <<live, up, acks, doomed, now, crashes>>

\* The append raises: the candidate is dropped and the live registry stands.
CommitFails ==
    /\ pending # Nil
    /\ pending.begun => TornBatch /\ pending.todo # {}
    /\ pending' = Nil
    /\ UNCHANGED <<live, up, acks, durable, now, crashes>>

\* Mutant of Publish: publishes and answers before the append is done.
PublishEarly ==
    /\ pending # Nil
    /\ live' = pending.cand
    /\ pending' = Nil
    /\ pending.reply # Nil
    /\ acks' = acks \cup {[key |-> pending.key, request |-> pending.request,
                           event |-> pending.reply]}
    /\ UNCHANGED <<up, durable, now, crashes>>

\* Mutant of Publish: a cancelled caller's mutation is not published.
PublishAnswered ==
    /\ pending # Nil /\ pending.todo = {}
    /\ pending' = Nil
    /\ \/ live' = live /\ acks' = acks
       \/ /\ live' = pending.cand /\ pending.reply # Nil
          /\ acks' = acks \cup {[key |-> pending.key, request |-> pending.request,
                                 event |-> pending.reply]}
    /\ UNCHANGED <<up, durable, now, crashes>>

\* publish_from, then the response; a caller cancelled meanwhile gets none.
Publish ==
    /\ pending # Nil /\ pending.todo = {}
    /\ live' = pending.cand
    /\ pending' = Nil
    /\ \/ acks' = acks
       \/ /\ pending.reply # Nil
          /\ acks' = acks \cup {[key |-> pending.key, request |-> pending.request,
                                 event |-> pending.reply]}
    /\ UNCHANGED <<up, durable, now, crashes>>

\* maybe_replay_duplicate and the actor's own lookup: a retry of the same
\* request gets the stored response; another request under its key conflicts.
Retry(o, request) ==
    /\ up /\ o \in operations
    /\ request.agent = o.key.agent /\ request.op = o.key.op
    /\ request = o.request
    /\ acks' = acks \cup {[key |-> o.key, request |-> request, event |-> o.event]}
    /\ UNCHANGED <<live, pending, up, durable, now, crashes>>

-----------------------------------------------------------------------------
(* The lease handlers (core/handlers/leasing.py).                           *)

MintBound(ttl) == live.epochSeq < MaxEpoch /\ now + ttl <= MaxClock
UpdateBound(t) == Held(live, t) => live.claims[t].version < MaxVersion
Fences == {NoFence} \cup 1..live.epochSeq

\* A request of agent a, unkeyed or under one of its idempotency keys.
Ask(op, a, t, body, fence) ==
    [op |-> op, agent |-> a, task |-> t, body |-> body, fence |-> fence]
KeysFor(op, a) == {Nil} \cup [agent : {a}, op : {op}, idem : IdemKeys]

\* The event a granted method journals: the snapshot of the claim it left.
SnapshotOf(kind, cand, t) == [kind |-> kind, task |-> t, claim |-> cand.claims[t]]

HandleClaim(a) ==
    \E t \in Tasks, sc \in Scopes, ttl \in Ttls, key \in KeysFor("claim", a) :
        LET h == Expire(live, now)
            cand == ClaimTask(live, now, a, a, t, sc, ttl, FALSE)
        IN  /\ MintBound(ClampTtl(ttl))
            /\ Begin(Ask("claim", a, t, sc, NoFence), key, cand,
                     ClaimOk(h, now, a, a, t, sc, FALSE), SnapshotOf("claim", cand, t))

\* A claim frame carrying renew_epoch.
HandleRenewal(a) ==
    \E t \in Tasks, sc \in Scopes, e \in 1..live.epochSeq, key \in KeysFor("claim", a) :
        LET h == Expire(live, now)
            cand == RenewClaim(live, now, a, t, e, sc)
        IN  /\ Held(live, t) =>
                 now + live.claims[t].expires - live.claims[t].claimedAt <= MaxClock
            /\ Begin(Ask("claim", a, t, sc, e), key, cand,
                     RenewOk(h, a, t, e, sc), SnapshotOf("claim", cand, t))

HandleTaskUpdate(a) ==
    \E t \in Tasks, st \in Goals, e \in Fences, key \in KeysFor("task_update", a) :
        LET h == Expire(live, now)
            cand == UpdateTask(live, now, a, t, st, e, NoFence)
        IN  /\ UpdateBound(t)
            /\ Begin(Ask("task_update", a, t, st, e), key, cand,
                     UpdateOk(h, a, t, st, e, NoFence),
                     SnapshotOf("task_update", cand, t))

HandleCheckpoint(a) ==
    \E t \in Tasks, k \in Tokens \cup {NoToken}, e \in Fences,
       key \in KeysFor("checkpoint", a) :
        LET h == Expire(live, now)
            cand == SaveCheckpoint(live, now, a, t, k, e)
        IN  /\ UpdateBound(t)
            /\ Begin(Ask("checkpoint", a, t, k, e), key, cand, OwnerMay(h, a, t, e),
                     SnapshotOf("checkpoint", cand, t))

HandleRelease(a) ==
    \E t \in Tasks, e \in Fences, key \in KeysFor("release", a) :
        LET h == Expire(live, now)
            cand == Release(live, now, a, t, e)
        IN  Begin(Ask("release", a, t, NoToken, e), key, cand, OwnerMay(h, a, t, e),
                  SnapshotOf("release", cand, t))

HandleHandoff(a) ==
    \E t \in Tasks, to \in Agents, e \in Fences, key \in KeysFor("handoff", a) :
        LET h == Expire(live, now)
            cand == Handoff(live, now, a, t, to, e)
        IN  /\ MintBound(DefaultTtl)
            /\ Begin(Ask("handoff", a, t, to, e), key, cand, HandoffOk(h, a, t, to, e),
                     SnapshotOf("handoff", cand, t))

\* release_abandoned_claims for the holders `gone`: every claim they hold is
\* force-released, and each release is appended in a transaction of its own.
ReleaseAbandoned ==
    \E gone \in SUBSET Agents :
        LET ts == {t \in Tasks : Held(live, t) /\ live.claims[t].owner \in gone}
        IN  /\ up /\ pending = Nil /\ ts # {}
            /\ pending' = [cand |-> [live EXCEPT
                               !.claims = [t \in Tasks |->
                                             IF t \in ts THEN NoClaim ELSE @[t]],
                               !.expired = [t \in Tasks |->
                                              IF t \in ts THEN NoToken ELSE @[t]]],
                           todo |-> [kind : {"release"}, task : ts, claim : {NoClaim}],
                           begun |-> FALSE, key |-> Nil, request |-> Nil, reply |-> Nil]
            /\ UNCHANGED <<live, up, acks, durable, now, crashes>>

-----------------------------------------------------------------------------
(* Compaction, crash and restart.                                           *)

\* Mutant of Superseded: keeps one checkpoint too few.
SupersededOneMore(floor) ==
    LET points == {r \in journal : r.event.kind = "checkpoint" /\ r.seq <= floor}
    IN  {r.seq : r \in {q \in points :
           Cardinality({p \in points : p.event.task = q.event.task /\ p.seq > q.seq})
               >= KeepCheckpoints - 1}}

\* _superseded_checkpoints at or below the operator's floor.
Superseded(floor) ==
    LET points == {r \in journal : r.event.kind = "checkpoint" /\ r.seq <= floor}
    IN  {r.seq : r \in {q \in points :
           Cardinality({p \in points : p.event.task = q.event.task /\ p.seq > q.seq})
               >= KeepCheckpoints}}

\* compact reads the log and deletes in two steps, as another process.
CompactSelect ==
    /\ doomed = {}
    /\ \E floor \in 1..lastSeq : doomed' = Superseded(floor) /\ doomed' # {}
    /\ UNCHANGED <<volatile, journal, lastSeq, operations, now, crashes>>

CompactDelete ==
    /\ doomed # {}
    /\ journal' = {r \in journal : r.seq \notin doomed}
    /\ doomed' = {}
    /\ UNCHANGED <<volatile, lastSeq, operations, now, crashes>>

Crash ==
    /\ up /\ crashes < MaxCrashes
    /\ up' = FALSE /\ live' = InitRegistry /\ pending' = Nil
    /\ crashes' = crashes + 1
    /\ UNCHANGED <<acks, durable, now>>

\* seed_hub_state
Restart ==
    /\ ~up
    /\ up' = TRUE /\ live' = Replay(journal, now)
    /\ UNCHANGED <<pending, acks, durable, now, crashes>>

Next ==
    \/ Advance \/ StepBack \/ Snapshot
    \/ Commit \/ CommitFails \/ Publish
    \/ ReleaseAbandoned \/ CompactSelect \/ CompactDelete \/ Crash \/ Restart
    \/ \E o \in operations, t \in Tasks : Retry(o, [o.request EXCEPT !.task = t])
    \/ \E a \in Agents : \/ HandleClaim(a) \/ HandleRenewal(a) \/ HandleTaskUpdate(a)
                         \/ HandleCheckpoint(a) \/ HandleRelease(a) \/ HandleHandoff(a)

Spec == Init /\ [][Next]_vars

\* The executor finishes what it started, a supervisor restarts the hub, time
\* passes, and connected clients keep sending frames.
Fairness ==
    /\ WF_vars(Advance) /\ WF_vars(Snapshot)
    /\ WF_vars(Commit) /\ WF_vars(Publish) /\ WF_vars(Restart)

-----------------------------------------------------------------------------
(* Properties                                                               *)

\* The state has the shape the code gives it.
TypeOK ==
    /\ live \in Registry /\ now \in Int /\ up \in BOOLEAN /\ crashes \in Nat
    /\ journal \subseteq Row /\ lastSeq \in Nat /\ doomed \subseteq Nat
    /\ operations \subseteq Operation /\ acks \subseteq Ack
    /\ pending \in Mutation \cup {Nil}

\* INV-ME-2 with a journal: neither the append window, nor a snapshot during
\* it, nor a crash and replay leaves two agents on overlapping scopes.
LiveScopesExclusive == ExclusiveScopes(live)

\* The registry the journal has to reproduce: the candidate once its append
\* is complete, the live one before.
Authoritative ==
    IF pending # Nil /\ pending.todo = {} THEN pending.cand ELSE live

\* INV-RR-1: at every instant of a running hub, replay restores exactly the
\* leases, resume tokens and epoch counter the hub has answered for.
ReplayAgrees ==
    up /\ (pending # Nil => (pending.todo = {} \/ ~pending.begun)) =>
        LET mine == Expire(Authoritative, now)
            theirs == Replay(journal, now)
        IN  /\ mine.claims = theirs.claims
            /\ mine.expired = theirs.expired
            /\ mine.epochSeq = theirs.epochSeq

\* The instant the last lease the journal names was granted or extended at.
LastJudged(rows) ==
    LET judged == {r \in rows : /\ r.event.kind \in {"claim", "handoff"}
                                /\ r.event.claim # NoClaim}
        instants == {0} \cup {r.event.claim.claimedAt : r \in judged}
    IN  CHOOSE m \in instants : \A n \in instants : n <= m

\* The leases a hub restarted at that instant would serve.
JournalLeases(rows) ==
    LET at == LastJudged(rows)
    IN  [t \in Tasks |-> LET c == RestoredClaim(rows, t)
                         IN  IF c = NoClaim \/ c.expires <= at THEN NoClaim ELSE LeaseOf(c)]

Service == INSTANCE LeaseService WITH
    Clients <- Agents, Resources <- Tasks, Free <- NoClaim,
    Terms <- MinimumTtl..MaximumTtl,
    lease <- JournalLeases(journal), lastFence <- RestoredEpoch(journal),
    clock <- LastJudged(journal)

\* The journal alone is a lease service.  A mutation is judged against a live
\* registry that expires leases on its own and is lost in a crash, long before
\* its row is appended; yet each append, read as the leases replay restores, is
\* a request the service grants at the instant it was judged, and nothing else
\* the hub, its crashes, restarts or a compaction do changes what it serves.
JournalServesLeases == Service!Spec

\* INV-JA-2: what a client was told is in the journal, whatever crashed or
\* failed around it; compaction takes superseded checkpoints only.
AcksDurable ==
    \A x \in acks : x.event.kind # "checkpoint" =>
        \E r \in journal : r.event = x.event

\* INV-EF-1 across restarts: an epoch a client was granted is never granted
\* again for another task, owner or scope.
EpochsNameOneGrant ==
    \A x, y \in acks :
        /\ x.event.claim # NoClaim /\ y.event.claim # NoClaim
        /\ x.event.claim.epoch = y.event.claim.epoch
        => /\ x.event.task = y.event.task
           /\ x.event.claim.owner = y.event.claim.owner
           /\ x.event.claim.scope = y.event.claim.scope

\* A keyed request is applied once: every answer a client gets under one key,
\* before or after a crash, is the same answer, and one to its own request.
KeyedOnce ==
    \A x, y \in acks : x.key # Nil /\ x.key = y.key =>
        /\ x.event = y.event
        /\ x.event.task = x.request.task /\ x.event.kind = x.request.op

\* INV-LL-2 across restarts: with no further grants (the bounds) every lease
\* ends for good, also one restored by replay or republished by a late append.
AllLeasesEnd == <>[](\A t \in Tasks : ~Held(live, t))
=============================================================================
