# A verification model of the synapse-channel hub

synapse-channel is a coordination bus: agents connect to one WebSocket hub, take
leases on tasks and file scopes, and talk to each other. All authority (who owns
a name, who holds a claim, what a claim's state is) lives in the hub. This
directory models that authority: TLA+ modules translated from
`src/synapse_channel/core`, TLC configurations that check them on small
instances, and TLAPS proofs of what holds on every instance.

## Inventory

| Component | State it keeps | Operations | Talks to | What is hard | What makes it correct |
| --- | --- | --- | --- | --- | --- |
| Lease registry (`state*.py`, `lifecycle.py`, `protected_write_custody.py`) | claims, expiry heap, retained checkpoints, epoch counter, protected custody | claim, renew, update, checkpoint, release, force-release, handoff, expire; install, transfer and settle custody | called by the handlers through the state actor | lazily deleted heap, wall clock, stale writers | scopes exclusive, epochs unique, caps, resume tokens kept, custody frozen |
| State actor and lease handlers (`state_transaction.py`, `handlers/leasing*.py`) | the actor lock, the private candidate | mutate a copy, append, publish, answer | registry, journal, connections | append window, failed appends, cancelled callers, retries | live registry exclusive; nothing answered that is not durable |
| Journal and replay (`journal*.py`, `persistence_*.py`, `compaction.py`) | events table, operations table | append, commit with operation, replay, compact | actor, restart | crash between commit and answer, two-step compaction | replay restores what was answered for |
| Name binding (`hub_clients.py`, `name_ownership.py`, `hub_frame_registration.py`) | `agent_sockets`, `socket_agent`, ownership leases | bind, take over, register, drop, revoke | identity gates, state actor | awaits between the two maps | the maps are one bijection; a leased name stays with its process |
| Takeover damping (`hub_clients.py`) | takeover timestamps, quarantines | classify a takeover | name binding | two processes that evict each other in turn | bounded evictions |
| Claim holder presence (`claim_holder_presence.py`) | departure stamps | stamp, forget, sweep before a claim | connections, state actor | presence captured before the lock | a holder keeps its claims for the window, not forever |
| Scope overlap (`scoping.py`, `path_identity.py`) | none: each claim carries its scope | normalise, match worktrees, compare rows | the registry's scans; the git-aware client that resolves a claim | clients of different versions, case folding, hard links, declarations inside a file | symmetric, and no file two claims share is missed |
| Wait-for graph (`deadlock.py`, `handlers/leasing.py`) | `waits` | register, prune, clear | registry, state actor | claims and handoffs move holders under recorded waits | waits whose holders stayed close no cycle |
| Session-bound delivery (`delivery_persistence.py`, `handlers/delivery_modes.py`, `delivery_replay.py`) | request rows, event rows, notification outbox, quarantine, delivery sessions | admit, report, cancel, expire, supersede, notify, replay | connections, restart | sweeps that wait for a socket write between rows | verdicts final, senders told, the hub's own rows replayable |
| Message forwarding between hubs (`message_forward_*.py`, `handlers/message_forward.py`) | outbox of the origin, answers remembered by the peer | send, attempt, retry, settle, expire, receipt; route, repeat | two hubs and the link between them | lost answers, overlapping attempts, crashes of either side | one copy, one truthful receipt |
| Messaging and mailbox (`handlers/chat_delivery.py`, `handlers/messaging.py`, `mailbox_pending.py`, `outbound_send.py`; the client's cursor) | chat events, watermarks, pending counts, dedupe window | send, fan out, replay a backlog, ack, count | connections, journal, client | live frames before a backlog, broken connections, restarts | an acked chat was accepted, counts are the journal's, no addressed chat lost |
| Receipts and dead letters (`handlers/delivery_feedback.py`, `persistence_receipts.py`, `pending_receipts.py`, `dead_letters.py`) | receipts, notification outbox, pending window, dead-letter ledger | request, judge, settle, expire, notify, escalate | messaging, registration | the window's bound in memory and journal, drains that overlap, acks that race the verdict | the window is the journal's, a receipt is settled by its recipients |
| Shared plan (`ledger.py`) | tasks, dependencies, notes | post, update, note | journal | dependency cycles, bounded notes | acyclic plan |
| Multi-hub observation, federation, operator relay, spend pool | ledgers between hubs | fold, approve, slice | other hubs | equivocation, repeated calls | no authority gained |
| Identity, ACL, frame gates | pins, enrolments, tokens, policies | admit or refuse a frame | in front of registration | rotation while connected | refused frames change nothing |
| Protected write dispatch | reservations, enrolments, evidence | prepare, admit, execute, recover | custody in the registry, the kernel | recovery after partial execution | custody kept until settled |
| Client library, workers, CLI, MCP, A2A, dashboard, tmux drivers, other-language clients | their own | send requests | the hub | retries | out of scope here: they are the models' inputs |
| Encryption, Merkle audit, receipts, metrics | files, encodings | | journal | | out of scope here: encodings and read-only views |

The rows down to receipts are modelled; the journal, message forwarding, messaging
and receipts in part. `PROJECT.json` lists every component with the reason for what
is left out, and every hazard at the line where it bites.

## How the parts interact

A frame passes the gates, binds its socket to a name and, after up to three
awaits, registers the name (`hub._register_frame`). Its handler then asks the
state actor for a mutation. Without a journal the actor applies it to the live
registry synchronously; with one it mutates a deep copy, appends the resulting
claim snapshot in a worker thread and publishes the copy, while other
connections keep reading, and expiring, the live registry. A claim handler
first sweeps the claims of holders that stayed away. A restart replays the
journal.

Delivery requests and chats meet connections in the other direction. A request
is addressed to one process behind a name; each registration of a new process
supersedes what the old one left open, and a loop expires what is overdue, one
transaction and one socket write per row. A chat for another hub goes to an
outbox, is attempted at once and again in sweeps, each time over a connection of
its own, until the peer's answer or the deadline settles it. A local chat is
journalled and fanned out to every connection. A client acks each chat by its
sequence number and, when it registers again, names the highest one it saw; the hub
replays what follows. If the poster asks for a receipt, its verdict is journalled
with the notice that announces it, and an ack may revise it later.

## Modules

| Module | Role |
| --- | --- |
| `SynapseState` | The registry as a value: one guard and one operator per method of class `SynapseState`, and the named parts of a sound registry. No variables. |
| `ClaimRegistry` | The hub without a journal: one action per request, the wall clock, registry properties. |
| `LeaseService` | The abstract specification: exclusive leases with fences and terms, and nothing else. Both hubs implement it. |
| `ScopeOverlap` | When two declared file scopes contend. No variables. |
| `FileClaims` | `ClaimRegistry` over the scopes of `ScopeOverlap`: the exclusion of files. |
| `DurableHub` | The hub with a journal: the same operators applied to a candidate, with append, publish, failure, retry, compaction, crash, restart. |
| `NameBinding` | The two name maps and the ownership leases, cut at every await of a registration. |
| `TakeoverDamping` | Cooldown, oscillation window and quarantine of one name. |
| `HolderPresence` | Departure stamps and the sweep, cut where frames wait for the state actor. |
| `WaitGraph` | The waits, and every step that moves the holders under them. |
| `DeliveryLedger` | Session-bound delivery: rows, outbox, sweeps cut at their socket writes, crash and replay check. |
| `MessageForwarding` | A chat between two hubs: origin, link and peer, with crashes of either hub. |
| `Mailbox` | Chats on one hub: handlers cut at their writes, receipts, backlogs, acks, watermarks, counts, clients that come back or start anew, crashes. |
| `MCClaimRegistry`, `MCDurableHub` | Instances for TLC. |
| `MCDurableReplay` | The durable hub, and a hub without a journal whose tasks carry tokens. |
| `MCDurableKeyed` | The durable hub under keyed requests, and the mailboxes. |
| `MCConnections` | What a connection meets on the hub: two name bindings, two presences, damping, and the liveness of deliveries and forwards, each as a unit of its own. |
| `MCExchanges` | What agents ask of each other: waits, forwards and deliveries, each as a unit of its own. |
| `MCNameBinding`, `MCHolderPresence`, `MCDeliveryLedger` | The instances on which a statement about the code fails. |
| `SynapseStateProofs` | Each registry operator preserves the inductive invariant `Sound`, what it may change of a lease, and which request of `LeaseService` it performs. |
| `ClaimRegistryProofs` | The theorems of `ClaimRegistry`, and that it implements `LeaseService`. |
| `DurableHubProofs` | The theorems of `DurableHub`, and that its journal implements `LeaseService`. |
| `ConnectionsProofs` | The theorems of `NameBinding`, `TakeoverDamping` and `HolderPresence`. |
| `ExchangesProofs` | The theorems of `WaitGraph` and `DeliveryLedger`. |
| `MessageForwardingProofs`, `MailboxProofs` | The theorems of each module. |
| `FileClaimsProofs` | What the scope comparison guarantees, and the exclusion of files. |

`ClaimRegistry` and `DurableHub` both extend `SynapseState`, so the two hubs run
the same method definitions. A unit of `MCConnections`, `MCExchanges`,
`MCDurableReplay` and `MCDurableKeyed` is one
whole specification of its own: the first state chooses the unit, whose steps
leave every other variable alone, so the run checks the disjoint union of the
units and no interaction between them is claimed. Operators commented "Mutant of
..." are used by no specification: each is a plausible slip in one definition, and
the property it is paired with in `PROJECT.json` must fail under it.

### State and code

- `SynapseState`: a registry is a record `claims`, `index` (the heap, as a set:
  popping a duplicate entry is a no-op because its claim is gone), `expired`
  (`expired_checkpoints`), `epochSeq`, `custody` and `retained`. Every method
  starts with the heartbeat that expires what is due, so `ClaimTask`,
  `RenewClaim`, `UpdateTask`, ... are `Expire` followed by the method; a refusal
  is the expiry alone. `force_release` and the custody methods do not expire. A
  scope is the triple of worktree, paths and path identity, opaque here, and
  `claim_scopes_conflict` is the constant `Overlap`, assumed only symmetric.
- `ScopeOverlap`: a path is the sequence of its segments, and NFC and case folding
  act on segments (`Form`). Rows are aligned with displayed paths as a function of
  the path, which is what alignment by position means for paths without duplicates.
  A root key is a device key and a generation that may be missing. `WellFormed` is
  what `claim_task` accepts, with one thing added that the client's
  `semantic_scope_path` ensures and the hub does not ask: a path that names a
  declaration has one marker.
- `FileClaims`: `Overlap` is computed from the scopes. `ResolvedIn` is what the resolver
  of a client of any version says about a working tree: nothing false, but possibly
  less than today's. A file is claimed in the index's spelling or in the file
  system's; two claims without identities are compared literally, as documented.
- `ClaimRegistry`: clients may present any epoch ever minted, any version and
  any scope, and any agent may ask for anything. The clock may step back.
- `DurableHub`: `live` is `hub.state`; `pending` is the mutation holding the
  actor lock, with its candidate and the events still to append; `journal` holds
  the rows of the lease family; `operations` is the table of keyed requests;
  `doomed` is what a compaction has read and not yet deleted; `acks` is history.
  The canonical request digest tells requests apart completely, so a request is
  a record. Keyed and unkeyed requests share `Begin`; a keyed one commits its
  operation with its event in one transaction. Multi-hub wire requests,
  denials, notes and chat write rows that replay of claims ignores; they are
  left out.
- `NameBinding`: `conn` is where each connection's handler is. `granting` awaits
  the lease grant, `evicting` the grant and the close of the evicted socket,
  `heartbeat` the serialized heartbeat. `Suspends` says whether a bind also
  waits for a withheld welcome or a busy actor, which it does on a secured or
  durable hub. Sockets serve once. A refused socket is closed, which changes
  nothing until its teardown, `Drop`.
- `HolderPresence`: a frame waiting for the actor lock is a job that carries the
  presence it captured; jobs run first come first served. `departed` and
  `wronged` are history: when a holder was really last seen, and whom a sweep
  released although it was present or inside its window at the attempt.
- `TakeoverDamping`: each action is one verdict of `_classify_takeover`;
  `evictions` is history. The stamps of a list are in the order of the clock, so the ones a
  cutoff keeps are a suffix. In `NameBinding` the classification is a refusal that
  may happen.
- `WaitGraph`: a claim is its owner, and any set of leases may be due at any
  time. `flight` is the mutation whose append the actor awaits, with the
  candidate it will publish; snapshots and wait requests run meanwhile, which is
  why a published candidate may restore a lease that a snapshot had expired.
  `standing` is history: granted waits whose waiter stayed and whose task has not
  changed hands.
- `DeliveryLedger`: `rec`, `history` and `unsent` are the three tables;
  `session` is the process of `agent_delivery_sessions`, kept apart from `owner`
  because a takeover moves the maps first. A sweep holds the page it read and a
  cursor, and is suspended (`sending`) while `_notify_record` writes. The event
  loop runs a sweep that is not suspended before anything else. `Restart` is
  enabled only when the replay check accepts the rows.
- `MessageForwarding`: the origin's row is `outbox` and `told`, an attempt is the
  link it waits on, the retry sweep is `retries`. A link is the peer's side of one
  connection: the origin may hang up at any point and the peer goes on.
  `named` is the one connection registered under the origin's id, which makes
  overlapping attempts meet a name conflict. `answered` is the peer's
  `message_forward_inbound`, `copies` the chats it journalled. `heard` is history.
- `Mailbox`: a chat is its journal number and addresses a set of names. `verdict`,
  `notices` and `owed` are the receipt table and its outbox, `marked` the journalled
  watermarks; `awaiting`, `watermark` and `counts` are what the hub keeps in memory.
  `post` is how far a poster's handler is, `draining` the outbox rows a handler has
  read and not yet written, `socket` how far a reader's registration is. A chat
  written to a connection that is replaying waits in `backlog` behind the replay.
  `Breaks` loses what is under way in both directions, and the client either keeps
  its cursor or is a new process without one. A row another handler marked first
  ends the handler that comes second, as the exception does in the code.
- `LeaseService`: a lease is a holder, a scope, a fence and an end. A request comes
  with the instant it is judged at, and first ends what is due by then. The refinement
  maps a claim to its owner, scope, epoch and expiry (`SynapseState!LeaseOf`);
  versions, checkpoints, heap, quotas and custody are hidden. The hub without a
  journal is mapped by its registry and its clock. The hub with one is mapped by its
  journal only, as the leases a replay restores at the last instant a lease was granted or
  extended (`DurableHub!JournalLeases`): what the process keeps, its failures,
  compactions and crashes are hidden too.

## Runs

Every run finishes within about three minutes on two workers.

| Run | Question | Bounds and why they suffice |
| --- | --- | --- |
| `registry_lease` | Do claims, renewals, handoffs, expiries and clock steps keep scopes exclusive, leases indexed, epochs distinct, caps kept and anchors continuous, and is every step one of the lease service? | Two agents, two tasks, two overlapping scopes (one of a client without identities, one widened to the whole tree), cap 1, each agent may act under both principals, three epochs, compaction floor 0 so every push may compact. Two leases are enough for each pairwise property; the third epoch lets a task be re-granted. |
| `registry_custody` | Does custody freeze, exclude and stay disjoint? Does one agent at a time hold a file? | Two reservations over two tasks and three scopes: install, transfer, settle, with expiry in between. The scopes are an older client's claim on a file, and two declarations of that file, one of them through a hard link, in a tree that folds case: the whole file contends with both, the declarations do not contend. |
| `durable_replay` | Unit `durable`: do append windows, failed appends, compaction, a crash and a replay preserve exclusivity and agreement? Is what the journal names, read alone, a lease service, although a row is appended long after its request was judged? Do leases end? | Two agents, two tasks, one shared scope, two epochs, three rows, one crash at any point. Three rows allow grant, change and supersession. A compaction then races the publication, the crash and the restart, but not a fourth append. |
| | Unit `plain`: is a resume token carried on, and does a version name one content? Does every lease end? | One task (tokens and versions are per task), two tokens, clock to 2, three epochs for a claim, its expiry or handoff and a takeover in sequence. |
| `durable_keyed` | Unit `leases`: are keyed requests applied once and answered with their own durable answer? Are epochs unique across restarts? | One key per agent and verb, retries also with a changed body, torn sweeps, a clock that steps back, one crash, two epochs. |
| | Unit `mailboxes`: are the pending window, the watermarks and the counts those of the journal, and does a receipt or a watermark name only what a reader accepted? | One poster, one reader and a seat that stays away; two chats, so that with a window of one the second expires the first; two connections of the reader, one crash. The reader's drain and the poster's meet on one row, and the reader also acks the chat of the other seat. |
| `connections` | Unit `open`: are the name maps one bijection, and do leases protect names? | Three connections (two of one process), two names, reconnects and lapses; binds await only the grant or the eviction. |
| | Unit `suspended`: does a name ever resolve to a socket that lost it? | The same with every await and with revocations. |
| | Unit `plain`: does anybody lose claims inside the window? | Volatile hub, two agents, two tasks, window 2, clock to 5: leave, return, leave again and a sweep. |
| | Unit `journalled`: is an absent holder's claim released in the end? | Durable hub with revocations; agent b stays and keeps claiming. |
| | Unit `takeovers`: are evictions bounded? | Window 3, threshold 3, quarantine 4, no cooldown (the worst case), clock to 12: a quarantine, its lapse and another war. |
| | Unit `deliveries`: is every request closed and its sender told? | Two requests to a process that is taken over, one page row, one deadline, one crash. |
| | Unit `forwards`: does a sender that stays learn what became of its chat? | One link to a peer that warns of stale recipients, one crash of the origin. |
| `exchanges` | Unit `waits`: do granted waits close a cycle? | Three agents and three tasks, up to four waits: a cycle of three, and one wait beside it. |
| | Unit `forwards`: is the sender told the truth and the chat copied once? | One forward, two links so that an abandoned attempt overlaps the next, one crash of either hub, at most three copies (the property allows two). Forwards share only the name of the link, so a second one adds name conflicts, which a lost connection already stands for. |
| | Unit `deliveries`: are verdicts final, rows replayable and live sessions free of others' work? | Two requests, one reported to completion and one cancelled, two processes, page size 1 so that every sweep is paged, one crash. |
| `torn_release`, `co_bind`, `return_race`, `late_supersede`, `second_copy`, `mailbox_gap` | The disagreements below. | The smallest instance that shows each. |

Deadlock is checked except where the system may stop: when every connection has
been served, every request is closed and every forward is settled. In the other
modules the clock bound leaves requests that change nothing.

### Fairness

- `ClaimRegistry!Fairness`: time passes, and some connected client keeps sending
  frames (clients ping), each of which runs the expiry. Nothing is assumed of a
  claim's holder. That grants are bounded makes "renewed for ever" finite.
- `DurableHub!Fairness`: also, the executor finishes an append it started, a
  supervisor restarts a crashed hub. A failed append is never required.
- `HolderPresence!PresenceFairness`: the event loop runs queued frames, the executor
  finishes, and the one agent `Steady` returns (strong fairness: its frame waits
  while others hold the lock) and keeps claiming. The sweep has no other
  trigger in the code.
- `DeliveryLedger!DeliveryFairness`: the clock and the supervisor do not stop, the event
  loop runs what is not suspended, the expiry loop's turn comes (strong fairness:
  registrations suspend and resume in between), and senders come and go. The
  loop is a task the hub starts and never ends; a stalled socket write is aborted
  by the transport.
- `MessageForwarding!ForwardFairness`: the origin's own tasks and clock go on and
  attempts end, if only by their timeout. Nothing is assumed of the peer, the
  network or the seat; `SenderLearns` itself supposes a seat that stays connected
  in the end.
- `MCConnections` and `MCDurableReplay` state the liveness properties of their units with these
  formulas as antecedents, so that each unit assumes its own fairness only.
- `NameBinding`, `TakeoverDamping`, `WaitGraph` and `Mailbox` have no liveness
  property: that every requested receipt gets a verdict does not hold (below).

## Disagreements between the code and what it says

1. `co_bind` / `OneBijection`. A fresh bind writes `socket_agent`, then awaits,
   then writes `agent_sockets`. On a hub where that wait exists, a second
   connection finds the name free, binds it as well, and both pass the
   `bound_agent` check after the heartbeat. `hub.py` says "both maps must remain
   one bijection". A name still never resolves to a socket that lost it
   (`NoGhostWhenSuspended`).
2. `return_race` / `HolderKeepsWindow`. The sweep captures the online set, waits
   for the actor, and reads the stamps under it. A holder that returns in
   between is not in the set and has no stamp, so it counts as offline since hub
   start and loses its claims although connected. Without handoffs and revocations
   (the related cases below) this is the only way (`AwayHoldersKeepWindow`).
3. `torn_release` / `ReplayAgrees`. A sweep appends each release in a
   transaction of its own. If a later one fails, the earlier ones are durable
   and the candidate is dropped: the hub enforces leases a restart frees.
4. `late_supersede` / `LiveWorkKept`. The supersession sweep of a registration
   keeps the incarnation it started with and waits for a socket write after each
   row. When the earlier process takes the name back meanwhile and registers
   again, the sweep of its evicted rival resumes and closes its live requests as
   superseded.
5. `second_copy` / `OneCopy`. A peer whose recipient looks stale or passive warns
   the sender on the link after the chat was journalled and before the answer is
   remembered. If the origin has hung up (a timeout), that write raises, nothing
   is remembered, and the retry is journalled and delivered again. Warnings are
   on by default (`DEFAULT_WARN_STALE_RECIPIENTS`), and the protocol promises
   `duplicate` instead of a second copy.

6. `mailbox_gap` / `CaughtUpMissesNothing`. A connection is in the fan-out as soon as
   it is accepted, while its backlog is read at the end of its registration. A live
   chat written in between raises the client's cursor. If the connection breaks
   before the replay, the client registers again with that cursor and the older
   chats are never replayed, although the backlog writer takes care that "a later
   sequence cannot pass a gap".

Changing one constant shows related cases, which have no run of their own:

- `MCCoBind` with `Suspends = FALSE`, `Revokes = TRUE`: `revoke_name` detaches
  only `agent_sockets`, so a bind that is sending its grant survives it and a
  new claimant binds the same name.
- `MCReturnRace` with `Detaches = TRUE`: a holder whose name is revoked is not
  stamped, since its teardown finds no name, and is released at once on a hub
  older than the window.
- `MCReturnRace` with `Recipients` = all agents: the recipient of a handoff that
  disconnects while the handoff is being appended holds nothing yet, is not
  stamped, and is released the same way.
- `MCDurableReplay` with `ClockSteps = TRUE`: expiry is not journalled, so a
  backward step across a restart restores a lapsed lease next to the one that
  replaced it. The documentation asks for a slewed clock.

Six smaller ones have no run. The hub projects the rows of two claims with different
case policies under the folding one, which the comments call conservative; but
folding after NFC is not idempotent on all of Unicode ("ß" followed by a combining
acute folds differently the second time), and the row of the folding side is folded
twice, so one file may pass as two. Two claims of one tree have one policy and are
folded alike, which is why the theorems need no such assumption. The protocol document says that a forward the
peer refuses for a transient reason (an exhausted quota) succeeds on a later
retry; the peer indeed remembers nothing, but the origin settles the row as
`refused` and never retries it (`AnswerArrives`). And after a takeover
`agent_delivery_sessions` keeps the evicted socket's session until the new one
registers (`DeliveryLedger!SessionOfCurrentSocket` fails), so requests are still
admitted for a process that is gone; they are superseded or expire.

The other three concern receipts. Two handlers that
drain one poster's rows at the same time (the acks of two readers, or an ack and the
poster's registration) both read a row, and the second one to mark it raises
"absent or already settled" (`NotifiesTwice`): that handler's connection is dropped
with its later rows unsent, and a chat whose verdict goes out before the fan-out is
not fanned out, although `handle_ack` calls an ack never "a frame whose rejection
should drop the acking socket". An ack of a chat whose fan-out still waits for a slow
socket finds no pending receipt, so the verdict that follows says "not delivered" and
nothing revises it. And a chat whose handler dies between the request and the verdict
(a crash) keeps a receipt that is `requested` for good.

`HandedOff` leaves a moved claim charged to its sender's principal. The cap
proved here, `QuotaRespected`, is per principal; an agent can come to *own* more
claims than the cap by handoffs, which the comment in `handoff` says it cannot.

## Proofs

Checked by TLAPS for every value of the constants that meets the named
assumptions (finite task set, symmetric overlap, agents are principals, positive
cap, ordered TTL bounds; nothing about the clock).

**Registry.** The registry invariants are not inductive one by one:
exclusivity after a handoff needs the guard, distinct epochs need every live
epoch to lie below the counter, a single resume token needs the token consumed
with the grant, and custody's exclusion needs both that the witnessed leases are
frozen and that the retained ids are recorded. `SynapseStateProofs!Sound` is
their conjunction: `SoundLeases` (type, exclusivity, index, epochs, tokens),
`WithinQuota` and `SoundCustody`. One lemma per operator shows that it preserves
`Sound`; `ExpireSound` comes first because every method begins with it, and the
heap is handled once, in the lemmas about `Track`. `ClaimRegistryProofs` lifts
that to `IInv`, one step per action, and derives `TypeCorrect`,
`ScopesExclusive`, `IndexComplete`, `EpochsUnique`, `QuotaHolds`,
`ResumeTokenUnique`, `CustodyFreezes` and `CustodyExcludes`. Because `now` is any
integer that may move either way, exclusivity does not rest on the clock.

The action properties follow from what one step may do to one task: every operator
expires first, and then grants one task a claim with a fresh epoch (`Grants`), edits one
live lease under its epoch (`Edits`) or ends one (`Drops`). The effect lemmas of
`SynapseStateProofs` say which, once per operator; `StepEffect` and `TaskEffect` collect
them for `Next`, and `TokensCarried`, `AnchorsContinue` and `VersionsName` read the
property off. That live epochs lie below the counter, a part of `Sound`, is what tells a
fresh anchor from an old one.

**Hub with a journal.** `HubInv` is inductive whatever the clock and the appends do
(torn batches included). Beside the type it says:

- `JournalInv`: rows are numbered in order; along the rows of a task no generation gets
  younger; every row compaction may delete is superseded by a later one that stays; and
  the restored counter is the youngest generation in the journal;
- `PendingInv`: a mutation in flight carries the claims of its candidate, and its keyed
  request is in the operations table exactly from its append on;
- `AnswersInv`: an operation stands for one journalled answer of its key, and what a
  client was told is journalled too (checkpoint rows, which compaction deletes, apart);
- `CounterInv`: the counter a crash would rebuild from the journal is the live one, or the
  candidate's once its rows are written. This is why compaction must keep the row that
  names the youngest generation, and why a batch that failed mints no epoch again;
- `GrantsInv`: whatever the journal, the operations, the answers, the live registry and
  the candidate name under one epoch is one grant, and no row of a live task names a
  younger generation than its lease.

`HubType`, `AnswersAreDurable`, `KeysAnswerOnce` and `EpochsStayUnique` follow from it.

`MirrorInv` says that the claim the journal restores for a task is the one the live
registry holds, or one already due whose token the registry retained (or nothing,
after a torn batch of releases); for a batch under way the same holds of the candidate
and the rows not yet written; the live, candidate and, while the hub is down, restored
registries are `Sound`.
An append moves the restored task only (`AppendRestores`), compaction none
(`DeleteRestores`), time only drops what the running hub drops too (`AdvanceMirrors`), and
a crash puts the restored registry in the place of the live one (`RestartMirrors`).
`ScopesStayExclusive` and `ReplayRestores` follow. Both assume `~ClockSteps`: with a
wall clock that steps back across a restart, the replay restores a lease that had expired,
next to the one granted over its scope since. `ReplayRestores` also assumes `~TornBatch`,
which `torn_release` shows to be needed.

**Refinement.** Both hubs implement `LeaseService`. What a method performs of it is
proved once, about registries: `MethodsServe` says that every method expires, moves one
task and grants it under the next epoch, extends its lease, ends it or leaves its tenure
(`Judges`, `Alone`), and `ServedLeases` reads that off as the requests of the service. Two
facts beside `Sound` are needed: the index is complete (else a due lease would
survive a sweep the service performs), which is a part of `Sound`, and every live lease
runs for a term the hub grants (`TermsAgreed`), since a renewal repeats the term of the
lease it extends. `RegistryImplementsService` lifts that to the hub without a journal;
custody and the clock are hidden, and force release is the operator's `Revoke`.

`JournalImplementsService` is about a journal alone. Its only visible step is `Commit`
(`NextServes`), and there the difficulty is that the row was judged earlier, against a
candidate that was copied from a live registry which had expired leases on its own.
`JudgedInv` carries the judgement to the append: the reply in flight grants or extends
against the leases a replay of the journal restores at the instant of the
request, which is not before the last judgement, or it leaves the tenure of a lease that
was not due then (`Serves`). It is established from `MirrorInv`, which is why the theorem
assumes `~ClockSteps` and `~TornBatch`: with a clock that steps back, the instant a request
is judged at says nothing about the leases judged later, and a replay restores leases
that had expired. A compaction deletes no row that a restored lease or the last judgement
rests on (`DeleteJudges`); a failure, a crash or a restart loses a judgement nobody could
see. TLC was run on `JudgedInv`, over the instance of `durable_replay`, before it was proved.

**Files.** `SharedFilesConflict` and `SharedObjectsConflict` show that whatever file or
object two scopes of one tree claim, the comparison finds: two prefixes of one path
are comparable (`SharedPathOverlaps`), folding keeps prefixes (`UnderCovers`), two
declarations under one path share its one marker (`SharedPartOverlaps`), and clients of
any version are found to be in one worktree (`OneTreeMatches`). `ConflictSymmetric`
discharges the assumption the registry makes of `Overlap`. With `ScopesExclusive` they
give `FilesNeverShared`. The assumptions are the shape of the constants and that
the scopes are what the hub accepts and clients resolve.

**Waits.** `WaitsAcyclic` proves `HoldAndWaitRefused` for any number of agents
and tasks. `WInv` adds that a standing wait is recorded and that its task is held by
somebody else than the waiter. A wait is granted only when some closed set of agents
holds the holder and not the waiter; a new knot would have to lead out of that
set, and an old knot existed before. Every other step only removes waits whose
holder moved (`FewerWaits`).

**Forwarding.** `FInv` is the type, what receipts may say (`Reports`) and what
links may carry (`Carried`); from it `ForwardsTyped` and `SendersToldTheTruth`
follow. `OneCopyUnwarned` assumes `~WarnsStale`, which `second_copy` shows to be
needed; `CInv` adds that a link past its registration is the named one and the
accounting of copies per forward: a copy that is not remembered yet is being
written on the one named link, or was paid for by a crash of the peer.

**Mailbox.** `WInv` is the shape of the journal and the handlers, the row every
pending receipt has in the outbox (`Announced`), and `AwaitingIsDurable`. The rows
are needed because the window evicts the receipt with the oldest one: without them
there might be no oldest and the full window would only grow. That a full window has one is the
least-number argument of `LowestIsLeast`; `JudgeKeeps` then does a verdict once, for
both actions that give one. `AInv` adds `Told`: acks on their way, cursors, registrations and
watermarks name accepted chats, so whatever the hub reads late is still so. It needs no
order of chats and nothing about who is connected. `CountsAreDurable` proves `CountsAgree`
with `CInv`, which adds `Named`: whatever is on the lines between the hub and its readers
names a chat of the journal. So no watermark is ahead of the journal, a new chat
lies above every watermark and is counted once, and a watermark that moves counts out what
it passes (`AdvanceCounts`, `PostsCounts`). That a backlog can be listed in journal order at all is
`Listed`. `MailTyped` proves the type from `CInv` with what it leaves out (`Drained`, `Met`):
a handler reads rows that are in the outbox, and a reader accepts chats that are in the
journal. All assume `MailboxAssumption` only.

**Name binding.** `NoGhosts` holds on every hub: `GhostInv`, the type
invariant with `NoGhostOwner`, is inductive as it stands.
`BindingBijective`, `HolderNeverLapses` and `LeasesProtect` assume `~Suspends` and `~Revokes`:
`OpenInv` adds that no two sockets are bound to one name, that a name being granted resolves to no socket, that its lease
is known to nobody else, and that a taker's continuation either still owns its
name or was evicted. `co_bind` shows the first assumption is needed.

**Takeovers.** `WarsAreDamped` proves `EvictionsBounded` for any window, threshold of two or
more, cooldown and quarantine. `DampingInv` says that the list of stamps is always that of
the last evictions (`Latest`), that what it left out is out of the window by now, or will be
when the quarantine lapses (`SpentBefore`), and that the threshold-th eviction after another
is more than a window later (`Spread`). The second is where the quarantine has to outlast the
window: entering and leaving it empties the list (`FreshCounts`).

**Presence.** `HoldersKeepWindow` proves `HolderKeepsWindow` for a hub without a journal
(`~Durable`) on which no name is revoked (`~Detaches`), with any window, agents and tasks
and handoffs to anybody. `PresenceInv` says that what a frame captured before the actor is
still so when its mutation runs (`Current`: at most one frame is queued, and only time
passes in front of it), that nothing is in flight, and that stamps are truthful
(`Stamped`): who is connected has none, and a holder that is not left when its stamp says,
or has been away since the hub started. The last needs that claims move to connected
agents only, which the queued frame and the swept ones (`ready`) remember. `return_race`
shows that the first assumption is needed, the related case above the second.

On a hub with a journal frames do wait, and two weaker properties hold. `StampsHold`, for
any hub, proves `StampsNeverStale`: a holder that a sweep releases inside its window
carries no stamp when the sweep reads it. `StampInv` carries through every wait that only
who is away is stamped, with the instant it left, and that a frame counted as due whoever
left early enough (`Counts`): who leaves after it was queued left too late for it.
`AwayHoldersKeepWindow` proves `AwayKeepWindow` where nothing is handed over (`Recipients =
{}`) and no name is revoked: such a holder is back at that instant, so whoever stays
away keeps its claims for the whole window. `AwayInv` adds that whatever waits, is appended
or was swept can give a claim only to its own sender, who is present (`Attended`), which
a handoff breaks. No run states these two; TLC was run on both, with up to four agents,
before they were proved, and finds the handoff above when `AwayKeepWindow` is asked of a
hub with recipients.

**Deliveries.** The theorems assume `DeliveryAssumption` only. `JournalInv` is
`OwnJournalReplays` with what the mutation identities already recorded tell of a row
(`Marked`): a recorded cancellation is on the row and a recorded verdict closed it, so a
handler that read the row before another one wrote cannot commit either a second time, and
every event that is written continues the last one. `JournalReplays` and `VerdictsStay`
follow; the second also rests on no stage following a terminal one (`StagesReached`).
`SessionOwnsOpenWork` needs `SweptInv`: whatever is open and addressed to another process
than the registered one, the sweep of its registration has before it, on its page or behind the
page and the cursor. It survives the waits between rows because what is admitted
meanwhile is addressed to the registered session itself (`StageMoves`), because pages are
read in the order of the rows, lowest first (`FirstOf`), and because a page
never holds a row that is not there.

**Model-checked only.** What is left of the runs' safety properties: a name on a hub whose
binds wait (beyond `NoGhosts`) and `HolderPresence` with a journal (beyond `StampsHold` and
`AwayHoldersKeepWindow`), where the properties fail; and liveness, which is out of the prover's reach. `NoGhostWhenSuspended` is
`NoGhosts` on the instance of a run, and `TokenCarried` and `VersionNamesContent` of
`durable_replay` are those of its hub without a journal, proved as `TokensCarried` and
`VersionsName`.
The `Typed` of a composed run is the conjunction of its components' types, each proved.

## Not modelled

The rows of the inventory below receipts. Inside the modelled parts:

- registry: resource offers, notes and other display fields; strict fencing (a
  restriction of what clients may send);
- scopes: the bound on the length of a path is the segment `Unfit`; the directional test of the edit
  guards (`claim_scope_covers_path`) and how the client resolves links and spellings;
- names: roles and wake capabilities;
- delivery: how a mode is selected, legacy rows without a receiving hub, requests
  forwarded from or to a peer (they enter through the same handlers);
- forwarding: forwarded delivery requests and their follow-ups, the roster, receipts
  that a forward is still pending, peers that leave the configuration, quotas of a
  sender. The peer's refusals are one action, whatever their reason;
- messaging: the dedupe window, durable quotas, channels, private routing, roles
  declared at run time, readers that also post, a client's `mailbox_advance` gate, and
  the caps of a replay (1000 events), a drain (100 rows) and the tracker (512 names);
- receipts: the dead-letter ledger, its escalation and forwarding.

## Plan

1. `Mailbox`: dead letters, the chat dedupe window, readers that post.
2. `Blackboard`: dependency cycles and bounded notes under replay.
3. `RelayApproval`, `SpendPool`, `MultiHubFold`: the other protocols between hubs.
4. Proofs: the safety part of the liveness properties (what a request that is open still
   has to wait for).
