--------------------------- MODULE HolderPresence ---------------------------
(***************************************************************************)
(* What happens to a claim when its holder disconnects                      *)
(* (core/claim_holder_presence.py and its callers in core/hub.py and        *)
(* core/handlers/leasing.py).  A holder's departure is stamped; once it has  *)
(* been offline for the whole window, the next claim attempt releases its     *)
(* claims.  Presence is decided before the attempt waits for the state        *)
(* actor, the release happens after.                                        *)
(*                                                                          *)
(* A claim is its owner: scopes, fences and lease TTLs are the subject of     *)
(* ClaimRegistry.  One frame of an agent is in progress at a time.            *)
(***************************************************************************)
EXTENDS Integers, Sequences

CONSTANTS
    Agents,
    Tasks,
    NoOne,      \* no owner, no mutation in flight
    OfflineTtl, \* lease_offline_ttl
    Recipients, \* the agents claims are handed to
    Durable,    \* TRUE: mutations hold the actor lock across their append
    Detaches,   \* TRUE: operators revoke names (reclaim, key rotation)
    Steady,     \* an agent that stays once it arrived and keeps claiming,
                \* or NoOne
    MaxClock    \* bound: last instant considered; hub start is 0

VARIABLES
    now,        \* the hub's monotonic clock
    online,     \* the names in agent_sockets
    since,      \* _offline_since
    owner,      \* the live claims
    queue,      \* frames waiting for the actor lock, first come first served
    pending,    \* the mutation whose append is in flight
    ready,      \* claim frames past their sweep, not yet queued
    departed,   \* history: when a name was last seen leaving, or Here
    wronged     \* history: holders released inside their window

presenceVars == <<now, online, since, owner, queue, pending, ready, departed, wronged>>

Here == -1      \* history: present
NoStamp == -1   \* no entry in _offline_since

Jobs == [kind : {"arrive", "sweep", "claim", "handoff"}, agent : Agents,
         task : Tasks \cup {NoOne}, to : Agents \cup {NoOne}, online : SUBSET Agents,
         at : Nat, due : SUBSET Agents]
Mutations == [job : Jobs, owner : [Tasks -> Agents \cup {NoOne}]]

\* What the constants are taken to be.
PresenceAssumption ==
    /\ NoOne \notin Agents /\ NoOne \notin Tasks /\ NoOne \notin Mutations
    /\ OfflineTtl \in Nat \ {0} /\ MaxClock \in Nat
    /\ Recipients \subseteq Agents
    /\ Durable \in BOOLEAN /\ Detaches \in BOOLEAN

\* A hub that has just started, with whatever claims its journal restored.
PresenceInit ==
    /\ now = 0 /\ online = {}
    /\ since = [a \in Agents |-> NoStamp]
    /\ owner \in [Tasks -> Agents \cup {NoOne}]
    /\ queue = <<>> /\ pending = NoOne /\ ready = {}
    /\ departed = [a \in Agents |-> 0]
    /\ wronged = {}

Advance ==
    /\ now < MaxClock /\ now' = now + 1
    /\ UNCHANGED <<online, since, owner, queue, pending, ready, departed, wronged>>

\* A free actor lock is taken at once; frames wait only behind an append.
Runnable == queue = <<>> \/ pending # NoOne

\* An agent with a frame in progress.
Busy(a) ==
    \/ \E i \in 1..Len(queue) : queue[i].agent = a
    \/ pending # NoOne /\ pending.job.agent = a
    \/ \E x \in ready : x.agent = a

\* offline_seconds >= window, for the presence `on` captured at instant `at`.
Away(a, on, at) ==
    /\ a \notin on
    /\ at - (IF since[a] = NoStamp THEN 0 ELSE since[a]) >= OfflineTtl

\* Mutant of Abandoned: only stamped holders can be away.
AbandonedStamped(claims, on, at) ==
    {t \in Tasks : claims[t] # NoOne /\ since[claims[t]] # NoStamp /\ Away(claims[t], on, at)}

\* abandoned_claims
Abandoned(claims, on, at) ==
    {t \in Tasks : claims[t] # NoOne /\ Away(claims[t], on, at)}

Job(kind, a, t, to) ==
    [kind |-> kind, agent |-> a, task |-> t, to |-> to, online |-> online, at |-> now,
     due |-> {b \in Agents : departed[b] # Here /\ now - departed[b] >= OfflineTtl}]

Enqueue(job) == queue' = Append(queue, job)

-----------------------------------------------------------------------------
(* Connections.                                                             *)

\* A first frame: its heartbeat goes through the actor.
Arrive(a) ==
    /\ Runnable /\ a \notin online /\ ~Busy(a)
    /\ Enqueue(Job("arrive", a, NoOne, NoOne))
    /\ UNCHANGED <<now, online, since, owner, pending, ready, departed, wronged>>

\* unregister, then _claim_holder_left: only a holder of a live claim is
\* stamped, and an earlier stamp is kept.
Disconnect(a) ==
    /\ Runnable /\ a \in online /\ ~Busy(a) /\ a # Steady
    /\ online' = online \ {a}
    /\ departed' = [departed EXCEPT ![a] = now]
    /\ since' = IF since[a] = NoStamp /\ \E t \in Tasks : owner[t] = a
                THEN [since EXCEPT ![a] = now] ELSE since
    /\ UNCHANGED <<now, owner, queue, pending, ready, wronged>>

\* revoke_name detaches the socket first, so its teardown finds no name and
\* _claim_holder_left is not called.
Detach(a) ==
    /\ Detaches /\ Runnable /\ a \in online /\ ~Busy(a) /\ a # Steady
    /\ online' = online \ {a}
    /\ departed' = [departed EXCEPT ![a] = now]
    /\ UNCHANGED <<now, since, owner, queue, pending, ready, wronged>>

-----------------------------------------------------------------------------
(* Frames.                                                                  *)

\* handle_claim up to the actor: presence and time are captured here, and
\* with nothing abandoned the sweep returns at once.
Attempt(a, t) ==
    /\ Runnable /\ a \in online /\ ~Busy(a)
    /\ IF Abandoned(owner, online, now) = {}
       THEN ready' = ready \cup {[agent |-> a, task |-> t]} /\ UNCHANGED queue
       ELSE Enqueue(Job("sweep", a, t, NoOne)) /\ UNCHANGED ready
    /\ UNCHANGED <<now, online, since, owner, pending, departed, wronged>>

\* handle_claim goes on to the claim once the sweep is announced.
Claim ==
    /\ Runnable
    /\ \E x \in ready : /\ Enqueue(Job("claim", x.agent, x.task, NoOne))
                        /\ ready' = ready \ {x}
    /\ UNCHANGED <<now, online, since, owner, pending, departed, wronged>>

\* handle_handoff: the recipient's presence is checked before the actor.
HandOff(a, t, to) ==
    /\ Runnable /\ a \in online /\ ~Busy(a) /\ to \in online /\ to # a
    /\ owner[t] = a
    /\ Enqueue(Job("handoff", a, t, to))
    /\ UNCHANGED <<now, online, since, owner, pending, ready, departed, wronged>>

-----------------------------------------------------------------------------
(* The state actor.                                                         *)

\* The claims a queued mutation leaves, given the claims it starts from.
Mutate(job) ==
    CASE job.kind = "sweep" ->
           [t \in Tasks |-> IF t \in Abandoned(owner, job.online, job.at)
                            THEN NoOne ELSE owner[t]]
      [] job.kind = "claim" ->
           IF owner[job.task] = NoOne
           THEN [owner EXCEPT ![job.task] = job.agent] ELSE owner
      [] job.kind = "handoff" ->
           IF owner[job.task] = job.agent
           THEN [owner EXCEPT ![job.task] = job.to] ELSE owner
      [] OTHER -> owner

\* The holders a sweep releases although, when its claim attempt was made,
\* they were present or had been offline for less than the window.
WrongedBy(job) ==
    IF job.kind # "sweep" THEN {}
    ELSE {owner[t] : t \in Abandoned(owner, job.online, job.at)} \ job.due

\* A swept frame goes on to its claim.
Resumed(job) ==
    IF job.kind = "sweep" THEN {[agent |-> job.agent, task |-> job.task]} ELSE {}

\* Mutant of RunArrival: a return leaves the old stamp.
RunArrivalKeepsStamp ==
    /\ queue # <<>> /\ pending = NoOne /\ Head(queue).kind = "arrive"
    /\ online' = online \cup {Head(queue).agent}
    /\ departed' = [departed EXCEPT ![Head(queue).agent] = Here]
    /\ queue' = Tail(queue)
    /\ UNCHANGED <<now, since, owner, pending, ready, wronged>>

\* A heartbeat has no append; the continuation makes the agent present and
\* forgets its stamp before the next mutation runs.
RunArrival ==
    /\ queue # <<>> /\ pending = NoOne /\ Head(queue).kind = "arrive"
    /\ online' = online \cup {Head(queue).agent}
    /\ since' = [since EXCEPT ![Head(queue).agent] = NoStamp]
    /\ departed' = [departed EXCEPT ![Head(queue).agent] = Here]
    /\ queue' = Tail(queue)
    /\ UNCHANGED <<now, owner, pending, ready, wronged>>

RunMutation ==
    /\ queue # <<>> /\ pending = NoOne /\ Head(queue).kind # "arrive"
    /\ wronged' = wronged \cup WrongedBy(Head(queue))
    /\ queue' = Tail(queue)
    /\ IF Durable
       THEN /\ pending' = [job |-> Head(queue), owner |-> Mutate(Head(queue))]
            /\ UNCHANGED <<owner, ready>>
       ELSE /\ owner' = Mutate(Head(queue))
            /\ ready' = ready \cup Resumed(Head(queue))
            /\ UNCHANGED pending
    /\ UNCHANGED <<now, online, since, departed>>

\* The append returned: the candidate becomes the live state.
Publish ==
    /\ pending # NoOne
    /\ owner' = pending.owner
    /\ ready' = ready \cup Resumed(pending.job)
    /\ pending' = NoOne
    /\ UNCHANGED <<now, online, since, queue, departed, wronged>>

PresenceNext ==
    \/ Advance \/ Claim \/ RunArrival \/ RunMutation \/ Publish
    \/ \E a \in Agents : Arrive(a) \/ Disconnect(a) \/ Detach(a)
    \/ \E a \in Agents, t \in Tasks : Attempt(a, t)
    \/ \E a \in Agents, to \in Recipients, t \in Tasks : HandOff(a, t, to)

PresenceSpec == PresenceInit /\ [][PresenceNext]_presenceVars

\* The event loop runs what is queued, the executor finishes its appends,
\* time passes, and one connected agent keeps trying to claim.
PresenceFairness ==
    /\ WF_presenceVars(Advance) /\ WF_presenceVars(Claim)
    /\ WF_presenceVars(RunArrival) /\ WF_presenceVars(RunMutation) /\ WF_presenceVars(Publish)
    /\ \A a \in Agents : a = Steady =>
         SF_presenceVars(Arrive(a)) /\ SF_presenceVars(\E t \in Tasks : Attempt(a, t))

-----------------------------------------------------------------------------
(* Properties                                                               *)

\* The presence records have the shape the code gives them.
PresenceTypeOK ==
    /\ now \in Nat /\ online \subseteq Agents
    /\ since \in [Agents -> Nat \cup {NoStamp}]
    /\ owner \in [Tasks -> Agents \cup {NoOne}]
    /\ queue \in Seq(Jobs) /\ pending \in Mutations \cup {NoOne}
    /\ ready \subseteq [agent : Agents, task : Tasks]
    /\ departed \in [Agents -> Nat \cup {Here}] /\ wronged \subseteq Agents

\* INV-CR-5: no interleaving of disconnects, returns, handoffs and claim
\* attempts releases a holder that was present, or had been offline for less
\* than the window, when the attempt was made.
HolderKeepsWindow == wronged = {}

\* What holds with a journal too.  A departure stamp is never stale: a holder
\* that a sweep releases inside its window carries none, since its return
\* forgot it while the sweep waited, or it left while a handoff to it did, or
\* its name was revoked.
StampsNeverStale ==
    [][\A a \in wronged' \ wronged : since[a] = NoStamp]_presenceVars

\* Without handoffs and revocations only the first can be: whoever stays away
\* keeps its claims for the whole window, whatever else waits for the actor.
AwayKeepWindow ==
    [][wronged' \ wronged \subseteq online]_presenceVars

\* INV-CR-5, the other half: a holder that stays away is released in the end,
\* as long as somebody keeps claiming; no orphan lock outlives the window.
OrphansFreed ==
    \A a \in Agents :
        <>[](departed[a] # Here /\ now - departed[a] >= OfflineTtl)
            => <>[](\A t \in Tasks : owner[t] # a)
=============================================================================
