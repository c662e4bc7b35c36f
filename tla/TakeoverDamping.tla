--------------------------- MODULE TakeoverDamping ---------------------------
(***************************************************************************)
(* Takeover damping of one name (core/hub_clients.py, _classify_takeover).  *)
(* Two processes that share a name, or its lease, evict each other in turn    *)
(* for as long as both keep asking for a takeover.  A cooldown spaces the      *)
(* evictions, and a name that is taken over too often within a window is        *)
(* quarantined.  The hub's clock is monotonic.                              *)
(***************************************************************************)
EXTENDS Integers, Sequences, FiniteSets

CONSTANTS
    Cooldown,   \* takeover_cooldown
    Window,     \* takeover_oscillation_window
    Threshold,  \* takeover_oscillation_threshold
    Quarantine, \* takeover_quarantine
    Unset,      \* no entry in a table
    MaxTime     \* bound: last instant considered

VARIABLES
    clock,
    lastTakeover,       \* _last_takeover of the name, or Unset
    takeoverTimes,      \* _takeover_times of the name, oldest first
    quarantineUntil,    \* _quarantine_until of the name, or Unset
    evictions           \* history: when its owner was evicted

tables == <<lastTakeover, takeoverTimes, quarantineUntil>>
dampingVars == <<clock, tables, evictions>>

\* What the constants are taken to be.
DampingAssumption ==
    /\ {Cooldown, Window, Threshold, Quarantine, MaxTime} \subseteq Nat
    /\ Threshold >= 2 /\ Unset \notin Nat

DampingInit ==
    /\ clock = 0
    /\ lastTakeover = Unset /\ takeoverTimes = <<>> /\ quarantineUntil = Unset
    /\ evictions = <<>>

ClockTicks ==
    /\ clock < MaxTime /\ clock' = clock + 1
    /\ UNCHANGED <<tables, evictions>>

-----------------------------------------------------------------------------
(* _classify_takeover, of a takeover request for the name while it is online. *)

Quarantined == quarantineUntil # Unset /\ clock < quarantineUntil

\* The table once a lapsed quarantine is forgotten.
Fresh == IF quarantineUntil = Unset THEN takeoverTimes ELSE <<>>

CoolingDown == lastTakeover # Unset /\ clock - lastTakeover < Cooldown

\* The list holds stamps in the order of the clock, so the ones a cutoff keeps
\* are those from the first one it does not reach.
KeptFrom(cutoff) ==
    CHOOSE k \in 1..(Len(Fresh) + 1) :
        /\ \A i \in 1..(k - 1) : Fresh[i] < cutoff
        /\ k <= Len(Fresh) => Fresh[k] >= cutoff

Kept(cutoff) == SubSeq(Fresh, KeptFrom(cutoff), Len(Fresh))

\* Mutant of Recent: the window is open at its old end.
RecentHalfOpen == Append(Kept(clock - Window + 1), clock)

\* The takeovers of the window, with this one.
Recent == Append(Kept(clock - Window), clock)

\* "cooldown": a lapsed quarantine is forgotten all the same.
RefuseTooSoon ==
    /\ ~Quarantined /\ CoolingDown
    /\ takeoverTimes' = Fresh /\ quarantineUntil' = Unset
    /\ UNCHANGED <<clock, lastTakeover, evictions>>

\* "quarantine_enter": the owner is pinned.
EnterQuarantine ==
    /\ ~Quarantined /\ ~CoolingDown
    /\ Len(Recent) >= Threshold
    /\ quarantineUntil' = clock + Quarantine
    /\ takeoverTimes' = <<>>
    /\ UNCHANGED <<clock, lastTakeover, evictions>>

\* "accept": the owner is evicted.
AcceptTakeover ==
    /\ ~Quarantined /\ ~CoolingDown
    /\ Len(Recent) < Threshold
    /\ quarantineUntil' = Unset
    /\ takeoverTimes' = Recent
    /\ lastTakeover' = clock
    /\ evictions' = Append(evictions, clock)
    /\ UNCHANGED clock

\* "quarantine_active" changes nothing.
DampingNext == ClockTicks \/ RefuseTooSoon \/ EnterQuarantine \/ AcceptTakeover

DampingSpec == DampingInit /\ [][DampingNext]_dampingVars

-----------------------------------------------------------------------------
(* Properties                                                               *)

\* Eviction wars are damped: no stretch of time as long as the oscillation
\* window sees the owner evicted as often as the threshold, also across a
\* quarantine that lapsed in between, provided it outlasts the window (as the
\* defaults do; the hub does not insist on it).
EvictionsBounded ==
    Quarantine > Window => \A i \in DOMAIN evictions :
        Cardinality({k \in DOMAIN evictions :
            evictions[i] <= evictions[k] /\ evictions[k] <= evictions[i] + Window}) < Threshold
=============================================================================
