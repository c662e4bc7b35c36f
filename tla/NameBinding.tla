----------------------------- MODULE NameBinding -----------------------------
(***************************************************************************)
(* Who owns a name on the bus.  HubClientRegistry (core/hub_clients.py)     *)
(* keeps two maps between names and sockets, NameOwnership                  *)
(* (core/name_ownership.py) the ownership leases; a frame first binds its    *)
(* socket (resolve_sender) and registers the name only after awaiting the    *)
(* lease grant, the close of an evicted socket and the serialized heartbeat  *)
(* (hub._register_frame).  Other connections run during those awaits; the    *)
(* frames of one connection are handled one after the other.                *)
(* Names are ordinary: reserved ones, and frames the credential and          *)
(* identity gates stop, never bind.  A socket the hub closes may still have  *)
(* queued frames handled before it is dropped, so closing one (a refusal, a   *)
(* denied name switch, an eviction) changes nothing until the drop.          *)
(***************************************************************************)
EXTENDS Integers, FiniteSets

CONSTANTS
    Names,      \* agent names
    Sockets,    \* connections; each serves from accept to close, once
    Procs,      \* client processes: the bearers of lease tokens
    ProcOf,     \* the process behind a connection
    Nil,        \* no name, no socket, no lease
    Suspends,   \* TRUE: a bind also waits (withheld welcome, busy state actor)
    Revokes     \* TRUE: operators revoke names (reclaim, key rotation)

VARIABLES
    agentSockets,   \* agent_sockets
    socketAgent,    \* socket_agent
    conn,           \* the phase each connection's handler is in
    frame,          \* the sender of the frame being registered
    lease,          \* the process that holds the name's token (_token_digests)
    offline         \* _offline_since: "no" stamp, stamped, or past offline_ttl

vars == <<agentSockets, socketAgent, conn, frame, lease, offline>>
leases == <<lease, offline>>

Phases == {"absent", "ready", "granting", "evicting", "heartbeat", "gone"}

ASSUME NameAssumption ==
    /\ Nil \notin Names /\ Nil \notin Sockets /\ Nil \notin Procs
    /\ ProcOf \in [Sockets -> Procs]
    /\ Suspends \in BOOLEAN /\ Revokes \in BOOLEAN

Init ==
    /\ agentSockets = [n \in Names |-> Nil]
    /\ socketAgent = [s \in Sockets |-> Nil]
    /\ conn = [s \in Sockets |-> "absent"]
    /\ frame = [s \in Sockets |-> Nil]
    /\ lease = [n \in Names |-> Nil]
    /\ offline = [n \in Names |-> "no"]

\* HubConnection.register
Accept(s) ==
    /\ conn[s] = "absent"
    /\ conn' = [conn EXCEPT ![s] = "ready"]
    /\ UNCHANGED <<agentSockets, socketAgent, frame, leases>>

-----------------------------------------------------------------------------
(* The ownership gate and the lease table.                                  *)

IsLeased(n) == lease[n] # Nil /\ offline[n] # "lapsed"

\* The token reaches its process once the grant frame is sent (a token minted
\* by a takeover counts as known at once, which only admits more).
Presentable(s, n) ==
    lease[n] = ProcOf[s] /\ ~\E q \in Sockets : conn[q] = "granting" /\ frame[q] = n

\* Mutant of PassesGate: guards a leased name only while its holder is online.
PassesGateOnline(s, n, token) ==
    IsLeased(n) /\ agentSockets[n] # Nil => token /\ Presentable(s, n)

PassesGate(s, n, token) == IsLeased(n) => token /\ Presentable(s, n)

\* Mutant of AdmitOwner: the lease is recorded for the connection.
AdmitOwnerSocket(s, n, wantsLease) ==
    /\ offline' = [offline EXCEPT ![n] = "no"]
    /\ lease' = [lease EXCEPT ![n] = IF IsLeased(n) THEN @
                                     ELSE IF wantsLease THEN s ELSE Nil]

\* is_leased drops a lapsed lease, mark_online clears the stamp, and a lease
\* is minted when asked for and absent.
AdmitOwner(s, n, wantsLease) ==
    /\ offline' = [offline EXCEPT ![n] = "no"]
    /\ lease' = [lease EXCEPT ![n] = IF IsLeased(n) THEN @
                                     ELSE IF wantsLease THEN ProcOf[s] ELSE Nil]

\* The lease state a refusal by the gate or the takeover rules leaves behind.
Swept(n) ==
    /\ lease' = [lease EXCEPT ![n] = IF IsLeased(n) THEN @ ELSE Nil]
    /\ offline' = [offline EXCEPT ![n] = IF IsLeased(n) THEN @ ELSE "no"]

-----------------------------------------------------------------------------
(* resolve_sender, up to its first await.                                   *)

\* Where the frame goes once its own awaits are over: it waits for the state
\* actor, or registers its name at once.
Phase(s, phase) == conn' = [conn EXCEPT ![s] = phase]
Owned(n, s) == [agentSockets EXCEPT ![n] = s]

\* A frame of an unbound socket under a free name.
BindFresh(s, n, token, wantsLease) ==
    LET minted == wantsLease /\ ~IsLeased(n)
        waits == minted \/ Suspends
    IN  /\ conn[s] = "ready" /\ socketAgent[s] = Nil
        /\ PassesGate(s, n, token)
        /\ agentSockets[n] = Nil
        /\ socketAgent' = [socketAgent EXCEPT ![s] = n]
        /\ AdmitOwner(s, n, wantsLease)
        /\ Phase(s, IF minted THEN "granting" ELSE IF Suspends THEN "heartbeat" ELSE "ready")
        /\ agentSockets' = IF waits THEN agentSockets ELSE Owned(n, s)
        /\ frame' = [frame EXCEPT ![s] = IF waits THEN n ELSE Nil]

\* Mutant of Takeover: the evicted socket keeps its entry until it closes.
TakeoverLeavesOld(s, n, token, wantsLease) ==
    LET old == agentSockets[n]
    IN  /\ conn[s] = "ready" /\ socketAgent[s] = Nil
        /\ PassesGate(s, n, token)
        /\ old \notin {Nil, s}
        /\ socketAgent' = [socketAgent EXCEPT ![s] = n]
        /\ agentSockets' = Owned(n, s)
        /\ AdmitOwner(s, n, wantsLease)
        /\ Phase(s, "evicting")
        /\ frame' = [frame EXCEPT ![s] = n]

\* An accepted takeover swaps both maps before its first await, which is the
\* grant or the close of the evicted socket.
Takeover(s, n, token, wantsLease) ==
    LET old == agentSockets[n]
    IN  /\ conn[s] = "ready" /\ socketAgent[s] = Nil
        /\ PassesGate(s, n, token)
        /\ old \notin {Nil, s}
        /\ socketAgent' = [socketAgent EXCEPT ![old] = Nil, ![s] = n]
        /\ agentSockets' = Owned(n, s)
        /\ AdmitOwner(s, n, wantsLease)
        /\ Phase(s, "evicting")
        /\ frame' = [frame EXCEPT ![s] = n]

\* Refused: the name is leased to someone else, or online and the takeover
\* was not asked for or is damped (_classify_takeover).
Refuse(s, n) ==
    /\ conn[s] = "ready" /\ socketAgent[s] = Nil
    /\ lease[n] # Nil \/ agentSockets[n] # Nil
    /\ Swept(n)
    /\ UNCHANGED <<agentSockets, socketAgent, conn, frame>>

\* A later frame of a bound socket goes straight to its heartbeat.
Known(s) ==
    /\ conn[s] = "ready" /\ socketAgent[s] # Nil
    /\ Phase(s, IF Suspends THEN "heartbeat" ELSE "ready")
    /\ frame' = [frame EXCEPT ![s] = IF Suspends THEN socketAgent[s] ELSE Nil]
    /\ agentSockets' = IF Suspends THEN agentSockets ELSE Owned(socketAgent[s], s)
    /\ UNCHANGED <<socketAgent, leases>>

-----------------------------------------------------------------------------
(* The rest of the frame.                                                   *)

\* Mutant of Finish: a superseded continuation registers its name anyway.
FinishStale(s) ==
    /\ agentSockets' = Owned(frame[s], s)
    /\ Phase(s, "ready")
    /\ frame' = [frame EXCEPT ![s] = Nil]
    /\ UNCHANGED <<socketAgent, leases>>

\* _heartbeat_registered_sender and set_agent_socket: a socket that lost the
\* name during an await does not register it.
Finish(s) ==
    /\ agentSockets' = IF socketAgent[s] = frame[s] THEN Owned(frame[s], s)
                       ELSE agentSockets
    /\ Phase(s, "ready")
    /\ frame' = [frame EXCEPT ![s] = Nil]
    /\ UNCHANGED <<socketAgent, leases>>

\* The grant frame is sent, or the evicted socket's close has finished.
Resume(s) ==
    /\ conn[s] \in {"granting", "evicting"}
    /\ IF Suspends
       THEN Phase(s, "heartbeat") /\ UNCHANGED <<agentSockets, socketAgent, frame, leases>>
       ELSE Finish(s)

\* The state actor has run the serialized heartbeat.
Register(s) == conn[s] = "heartbeat" /\ Finish(s)

\* Mutant of Drop: any teardown stamps the names its process holds, also that
\* of an evicted socket.
DropStampsAlways(s) ==
    LET n == socketAgent[s]
        held == n # Nil /\ agentSockets[n] = s
    IN  /\ conn[s] = "ready"
        /\ conn' = [conn EXCEPT ![s] = "gone"]
        /\ socketAgent' = [socketAgent EXCEPT ![s] = Nil]
        /\ agentSockets' = IF held THEN [agentSockets EXCEPT ![n] = Nil] ELSE agentSockets
        /\ offline' = [m \in Names |-> IF lease[m] = ProcOf[s] /\ offline[m] = "no"
                                       THEN "stamped" ELSE offline[m]]
        /\ UNCHANGED <<frame, lease>>

\* unregister and drop_client, between two frames: the peer or the hub
\* closed the socket.
Drop(s) ==
    LET n == socketAgent[s]
        held == n # Nil /\ agentSockets[n] = s
    IN  /\ conn[s] = "ready"
        /\ conn' = [conn EXCEPT ![s] = "gone"]
        /\ socketAgent' = [socketAgent EXCEPT ![s] = Nil]
        /\ agentSockets' = IF held THEN [agentSockets EXCEPT ![n] = Nil] ELSE agentSockets
        /\ offline' = IF held /\ lease[n] # Nil /\ offline[n] = "no"
                      THEN [offline EXCEPT ![n] = "stamped"] ELSE offline
        /\ UNCHANGED <<frame, lease>>

\* revoke_name; its caller then closes the returned socket.
Revoke(n) ==
    LET old == agentSockets[n]
    IN  /\ Revokes
        /\ agentSockets' = [agentSockets EXCEPT ![n] = Nil]
        /\ socketAgent' = IF old = Nil THEN socketAgent
                          ELSE [socketAgent EXCEPT ![old] = Nil]
        /\ lease' = [lease EXCEPT ![n] = Nil]
        /\ offline' = [offline EXCEPT ![n] = "no"]
        /\ UNCHANGED <<conn, frame>>

\* offline_ttl passes since the stamp.
Lapse(n) ==
    /\ offline[n] = "stamped"
    /\ offline' = [offline EXCEPT ![n] = "lapsed"]
    /\ UNCHANGED <<agentSockets, socketAgent, conn, frame, lease>>

Next ==
    \/ \E s \in Sockets :
         \/ Accept(s) \/ Known(s) \/ Resume(s) \/ Register(s) \/ Drop(s)
         \/ \E n \in Names : Refuse(s, n)
         \/ \E n \in Names, token, wantsLease \in BOOLEAN :
              BindFresh(s, n, token, wantsLease) \/ Takeover(s, n, token, wantsLease)
    \/ \E n \in Names : Revoke(n) \/ Lapse(n)

Spec == Init /\ [][Next]_vars

-----------------------------------------------------------------------------
(* Properties                                                               *)

\* The maps and the lease table have the shape the code gives them.
TypeOK ==
    /\ agentSockets \in [Names -> Sockets \cup {Nil}]
    /\ socketAgent \in [Sockets -> Names \cup {Nil}]
    /\ conn \in [Sockets -> Phases]
    /\ frame \in [Sockets -> Names \cup {Nil}]
    /\ lease \in [Names -> Procs \cup {Nil}]
    /\ offline \in [Names -> {"no", "stamped", "lapsed"}]

\* Directed traffic never resolves to a socket that lost the name: whatever
\* takeovers, revocations and stale continuations interleave, the socket a
\* name resolves to is connected and bound to that name.
NoGhostOwner ==
    \A n \in Names, s \in Sockets :
        agentSockets[n] = s => socketAgent[s] = n /\ conn[s] # "gone"

\* Both maps remain one bijection: between two of its frames, a socket bound
\* to a name is the socket the name resolves to, so no two sessions that
\* race to bind a name, by takeover or not, both end up with it.
OneBijection ==
    \A s \in Sockets : conn[s] = "ready" /\ socketAgent[s] # Nil =>
        agentSockets[socketAgent[s]] = s

\* While the holder is connected the lease never lapses: no stamp runs on a
\* name that resolves to a socket, also not from an evicted one's teardown.
FrozenWhileOnline ==
    \A n \in Names : agentSockets[n] # Nil => offline[n] = "no"

\* A leased name belongs to the process that holds its token: no other
\* process's connection owns it, in its holder's reconnect gap or otherwise.
LeaseProtectsName ==
    \A n \in Names, s \in Sockets :
        agentSockets[n] = s /\ lease[n] # Nil => lease[n] = ProcOf[s]
=============================================================================
