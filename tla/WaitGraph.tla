------------------------------ MODULE WaitGraph ------------------------------
(***************************************************************************)
(* The advisory wait graph (core/deadlock.py, and its callers in            *)
(* core/handlers/leasing.py and core/hub.py).  An agent that is refused a    *)
(* task may wait for it; a wait that would close a cycle of waiting holders   *)
(* is refused.  Waits name tasks, holders are looked up live, and claims,      *)
(* handoffs, releases and expiries go on moving the holders under waits that   *)
(* were registered earlier, most of them through the state actor, whose         *)
(* append other frames do not wait for.                                       *)
(*                                                                          *)
(* A claim is its owner: scopes, fences and lease times are the subject of     *)
(* ClaimRegistry, so any lease may be due at any time.                       *)
(***************************************************************************)
EXTENDS FiniteSets, Naturals

CONSTANTS
    Agents,
    Tasks,
    Nil,        \* no owner; no mutation in flight
    MaxWaits    \* bound: waits recorded at a time

VARIABLES
    holder,     \* the owner of each claim in state.claims
    waits,      \* hub.waits, as pairs of a waiting agent and a task
    flight,     \* the mutation whose append the actor awaits
    standing    \* history: waits granted to agents that stayed, for tasks
                \* whose holder has not changed since

vars == <<holder, waits, flight, standing>>

Holders == [Tasks -> Agents \cup {Nil}]
Flights == [kind : {"claim", "handoff", "release", "sweep"}, agent : Agents,
            task : Tasks, claims : Holders]

ASSUME WaitAssumption == Nil \notin Agents /\ Nil \notin Flights /\ MaxWaits \in Nat

Init ==
    /\ holder \in Holders
    /\ waits = {} /\ flight = Nil /\ standing = {}

-----------------------------------------------------------------------------
(* deadlock.py                                                              *)

\* resolve_wait_edges: from waiting agents to the live holders of their tasks.
ResolveWaitEdges(ws) == {<<w[1], holder[w[2]]>> : w \in {v \in ws : holder[v[2]] # Nil}}

\* prune_waits, for the claims `h`.
PruneWaits(h) == {w \in waits : h[w[2]] # Nil}

\* Mutant of WouldCreateCycle: looks at the holder's own waits only.
WouldCreateShortCycle(waiter, other) ==
    waiter = other \/ <<other, waiter>> \in ResolveWaitEdges(waits)

\* A set of agents none of whose waits leads out of it.
Closed(S) == \A e \in ResolveWaitEdges(waits) : e[1] \in S => e[2] \in S

\* would_create_cycle: the waits lead from `other` to the waiter.
WouldCreateCycle(waiter, other) ==
    \A S \in SUBSET Agents : other \in S /\ Closed(S) => waiter \in S

-----------------------------------------------------------------------------
(* Frames.                                                                  *)

\* The registry becomes `h` and the wait graph `ws`.
Moves(h, ws) ==
    /\ holder' = h
    /\ waits' = ws
    /\ standing' = {w \in standing : h[w[2]] = holder[w[2]]}

\* Any leases may be due, as clocks and lease times are left out.
Without(S) == [t \in Tasks |-> IF t \in S THEN Nil ELSE holder[t]]

\* A state request snapshots the live registry, which drops the leases that
\* are due; it neither waits for the actor nor prunes.
Snapshot(S) == Moves(Without(S), waits) /\ UNCHANGED flight

\* Every frame's heartbeat, serialized: expires what is due, then prunes.
Heartbeat(S) ==
    /\ flight = Nil
    /\ Moves(Without(S), PruneWaits(Without(S)))
    /\ UNCHANGED flight

\* An agent whose own mutation is in flight: its next frame waits for it.
Busy(a) == flight # Nil /\ flight.agent = a

\* handle_wait_request: reads the live holder, and registers at once.
WaitRequest(a, t) ==
    /\ ~Busy(a)
    /\ holder[t] \notin {Nil, a}
    /\ ~WouldCreateCycle(a, holder[t])
    /\ Cardinality(waits \cup {<<a, t>>}) <= MaxWaits
    /\ waits' = waits \cup {<<a, t>>}
    /\ standing' = standing \cup {<<a, t>>}
    /\ UNCHANGED <<holder, flight>>

\* The mutation of a frame of agent `a`, on a copy of the registry.
Start(kind, a, t, h) ==
    /\ flight = Nil
    /\ flight' = [kind |-> kind, agent |-> a, task |-> t, claims |-> h]
    /\ UNCHANGED <<holder, waits, standing>>

\* handle_claim of a task that is free, due or held by the claimant.
Claim(a, t, S) ==
    /\ Without(S)[t] \in {Nil, a}
    /\ Start("claim", a, t, [Without(S) EXCEPT ![t] = a])

\* handle_release
Release(a, t) == holder[t] = a /\ Start("release", a, t, Without({t}))

\* handle_handoff
Handoff(a, t, to) ==
    /\ holder[t] = a /\ to # a
    /\ Start("handoff", a, t, [holder EXCEPT ![t] = to])

\* release_abandoned_claims, before agent `a` claims task `t`.
ReleaseAbandoned(a, t, away) ==
    /\ \E u \in Tasks : holder[u] = away
    /\ Start("sweep", a, t, Without({u \in Tasks : holder[u] = away}))

\* Mutant of ClearSatisfiedWait: all waits of the new holder are cleared.
ClearEveryWait(a, t) == {w \in waits : w[1] # a}

\* _clear_satisfied_wait
ClearSatisfiedWait(a, t) == waits \ {<<a, t>>}

\* What publishing a mutation does to the waits: a claim or handoff clears the
\* new holder's wait, a release prunes, a sweep leaves them.
Published(f) ==
    CASE f.kind = "release" -> PruneWaits(f.claims)
      [] f.kind = "sweep" -> waits
      [] OTHER -> ClearSatisfiedWait(f.claims[f.task], f.task)

\* The append returned: the candidate replaces the registry.
Publish ==
    /\ flight # Nil
    /\ Moves(flight.claims, Published(flight))
    /\ flight' = Nil

\* The append failed: the candidate is dropped.
Fail == flight # Nil /\ flight' = Nil /\ UNCHANGED <<holder, waits, standing>>

\* unregister, once the agent's frame is done: _drop_waits.
Disconnect(a) ==
    /\ ~Busy(a)
    /\ waits' = {w \in waits : w[1] # a}
    /\ standing' = {w \in standing : w[1] # a}
    /\ UNCHANGED <<holder, flight>>

Next ==
    \/ Publish \/ Fail
    \/ \E S \in SUBSET Tasks : Snapshot(S) \/ Heartbeat(S)
    \/ \E a \in Agents : Disconnect(a)
    \/ \E a \in Agents, t \in Tasks : WaitRequest(a, t) \/ Release(a, t)
    \/ \E a \in Agents, t \in Tasks, S \in SUBSET Tasks : Claim(a, t, S)
    \/ \E a, other \in Agents, t \in Tasks :
         Handoff(a, t, other) \/ ReleaseAbandoned(a, t, other)

Spec == Init /\ [][Next]_vars

-----------------------------------------------------------------------------
(* Properties                                                               *)

\* The records have the shape the code gives them.
TypeOK ==
    /\ holder \in Holders
    /\ waits \subseteq Agents \X Tasks /\ standing \subseteq Agents \X Tasks
    /\ flight \in Flights \cup {Nil}

\* A set of agents each of which waits for a task another of them holds.
Knot(S, ws) ==
    S # {} /\ \A a \in S : \E b \in S : <<a, b>> \in ResolveWaitEdges(ws)

\* Circular hold-and-wait is refused: the waits that were granted, and whose
\* task has stayed with its holder ever since, never close a cycle, whatever
\* claims, handoffs, expiries and restored candidates did to other waits.
HoldAndWaitRefused == \A S \in SUBSET Agents : ~Knot(S, standing)
=============================================================================
