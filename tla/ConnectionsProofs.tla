------------------------- MODULE ConnectionsProofs --------------------------
(***************************************************************************)
(* What a connection meets on the hub: its name (NameBinding), takeovers   *)
(* of that name (TakeoverDamping) and the claims of a holder that leaves   *)
(* (HolderPresence), for every set of names, connections, processes,       *)
(* agents and tasks.  NoGhostOwner holds on every hub.  The other theorems *)
(* about names need that a bind is not suspended between the two maps      *)
(* (Suspends) and that no name is revoked during one (Revokes); that a     *)
(* holder keeps its window needs a hub without a journal (Durable), on     *)
(* which no name is revoked (Detaches).                                    *)
(***************************************************************************)
EXTENDS NameBinding, HolderPresence, TakeoverDamping, FiniteSetTheorems,
        SequenceTheorems, WellFoundedInduction, TLAPS

-----------------------------------------------------------------------------
(* Names.                                                                  *)

\* The socket of a frame that is past its bind, on a hub that never waits.
Settled(s) == conn[s] \in {"ready", "evicting"}

\* A name whose fresh bind is still sending its grant resolves to no socket,
\* and its lease, unknown to any client yet, keeps everyone else out.
GrantGuards(s) ==
    conn[s] = "granting" =>
        /\ frame[s] \in Names /\ socketAgent[s] = frame[s]
        /\ lease[frame[s]] = ProcOf[s] /\ offline[frame[s]] = "no"
        /\ agentSockets[frame[s]] = Nil

\* Unbound before the first frame and after the drop.
OutsideUnbound(s) == conn[s] \in {"absent", "gone"} => socketAgent[s] = Nil

\* A taker's continuation still owns the name, or has been evicted itself.
TakerOwns(s) == conn[s] = "evicting" => frame[s] \in Names /\ socketAgent[s] \in {frame[s], Nil}

OneSocketPerName ==
    \A s, q \in Sockets : socketAgent[s] # Nil /\ socketAgent[s] = socketAgent[q] => s = q

\* OneBijection, also for the frames whose only await is an eviction.
SettledOwn ==
    \A s \in Sockets : Settled(s) /\ socketAgent[s] # Nil => agentSockets[socketAgent[s]] = s

OpenInv ==
    /\ TypeOK /\ NoGhostOwner /\ OneSocketPerName /\ SettledOwn
    /\ FrozenWhileOnline /\ LeaseProtectsName
    /\ \A s \in Sockets : /\ conn[s] # "heartbeat"
                          /\ GrantGuards(s) /\ OutsideUnbound(s) /\ TakerOwns(s)
-----------------------------------------------------------------------------
(* Every hub.                                                               *)

GhostInv == TypeOK /\ NoGhostOwner

\* A hub with no connections satisfies the invariant.
LEMMA GhostInit == Init => GhostInv
  BY NameAssumption DEF Init, GhostInv, TypeOK, NoGhostOwner, Phases

\* A frame's last step registers the name only for the socket bound to it.
LEMMA FinishKeepsGhost ==
  ASSUME GhostInv, NEW s \in Sockets, conn[s] # "gone", Finish(s)
  PROVE  GhostInv'
  <1>1. TypeOK'
    BY NameAssumption DEF GhostInv, TypeOK, Finish, Phase, Owned, Phases, leases
  <1>2. NoGhostOwner'
    BY NameAssumption DEF GhostInv, TypeOK, NoGhostOwner, Finish, Phase, Owned, Phases, leases
  <1> QED BY <1>1, <1>2 DEF GhostInv

\* A fresh bind leaves every name resolving to a socket bound to it (the synchronous
\* part of resolve_sender).
LEMMA BindKeepsGhost ==
  ASSUME GhostInv, NEW s \in Sockets, NEW n \in Names,
         NEW token \in BOOLEAN, NEW wantsLease \in BOOLEAN,
         BindFresh(s, n, token, wantsLease) \/ Takeover(s, n, token, wantsLease)
  PROVE  GhostInv'
  <1>1. ProcOf[s] \in Procs
    BY NameAssumption
  <1>2. lease' \in [Names -> Procs \cup {Nil}] /\ offline' \in [Names -> {"no", "stamped", "lapsed"}]
    BY <1>1 DEF GhostInv, TypeOK, BindFresh, Takeover, AdmitOwner
  <1>3. CASE BindFresh(s, n, token, wantsLease)
    <2>1. TypeOK'
      BY <1>2, <1>3, NameAssumption DEF GhostInv, TypeOK, BindFresh, Phase, Owned, Phases
    <2>2. NoGhostOwner'
      BY <1>3, NameAssumption DEF GhostInv, TypeOK, NoGhostOwner, BindFresh, Phase, Owned, Phases
    <2> QED BY <2>1, <2>2 DEF GhostInv
  <1>4. CASE Takeover(s, n, token, wantsLease)
    <2>1. TypeOK'
      BY <1>2, <1>4, NameAssumption DEF GhostInv, TypeOK, Takeover, Phase, Owned, Phases
    <2>2. NoGhostOwner'
      BY <1>4, NameAssumption DEF GhostInv, TypeOK, NoGhostOwner, Takeover, Phase, Owned, Phases
    <2> QED BY <2>1, <2>2 DEF GhostInv
  <1> QED BY <1>3, <1>4

\* Every step of every connection and operator preserves it, on any hub.
LEMMA GhostStep == GhostInv /\ [Next]_vars => GhostInv'
  <1> SUFFICES ASSUME GhostInv, [Next]_vars PROVE GhostInv'
    OBVIOUS
  <1>1. ASSUME NEW s \in Sockets, Accept(s) PROVE GhostInv'
    BY <1>1, NameAssumption DEF Accept, GhostInv, TypeOK, NoGhostOwner, Phases, leases
  <1>2. ASSUME NEW s \in Sockets, Known(s) PROVE GhostInv'
    BY <1>2, NameAssumption
       DEF Known, Phase, Owned, GhostInv, TypeOK, NoGhostOwner, Phases, leases
  <1>3. ASSUME NEW s \in Sockets, Resume(s) PROVE GhostInv'
    <2>1. CASE Suspends
      BY <1>3, <2>1, NameAssumption
         DEF Resume, Phase, GhostInv, TypeOK, NoGhostOwner, Phases, leases
    <2>2. CASE ~Suspends
      BY <1>3, <2>2, FinishKeepsGhost DEF Resume
    <2> QED BY <2>1, <2>2
  <1>4. ASSUME NEW s \in Sockets, Register(s) PROVE GhostInv'
    BY <1>4, FinishKeepsGhost DEF Register
  <1>5. ASSUME NEW s \in Sockets, Drop(s) PROVE GhostInv'
    <2>1. TypeOK'
      BY <1>5, NameAssumption DEF Drop, GhostInv, TypeOK, Phases
    <2>2. NoGhostOwner'
      BY <1>5, NameAssumption DEF Drop, GhostInv, TypeOK, NoGhostOwner, Phases
    <2> QED BY <2>1, <2>2 DEF GhostInv
  <1>6. ASSUME NEW s \in Sockets, NEW n \in Names, Refuse(s, n) PROVE GhostInv'
    BY <1>6, NameAssumption DEF Refuse, Swept, GhostInv, TypeOK, NoGhostOwner, Phases
  <1>7. ASSUME NEW s \in Sockets, NEW n \in Names, NEW token \in BOOLEAN,
               NEW wantsLease \in BOOLEAN,
               BindFresh(s, n, token, wantsLease) \/ Takeover(s, n, token, wantsLease)
        PROVE  GhostInv'
    BY <1>7, BindKeepsGhost
  <1>8. ASSUME NEW n \in Names, Revoke(n) PROVE GhostInv'
    <2>1. TypeOK'
      BY <1>8, NameAssumption DEF Revoke, GhostInv, TypeOK, Phases
    <2>2. NoGhostOwner'
      BY <1>8, NameAssumption DEF Revoke, GhostInv, TypeOK, NoGhostOwner, Phases
    <2> QED BY <2>1, <2>2 DEF GhostInv
  <1>9. ASSUME NEW n \in Names, Lapse(n) PROVE GhostInv'
    BY <1>9, NameAssumption DEF Lapse, GhostInv, TypeOK, NoGhostOwner, Phases
  <1>10. CASE UNCHANGED vars
    BY <1>10 DEF vars, GhostInv, TypeOK, NoGhostOwner
  <1> QED
    BY <1>1, <1>2, <1>3, <1>4, <1>5, <1>6, <1>7, <1>8, <1>9, <1>10 DEF Next

\* The maps and the lease table keep their shape on every hub.
THEOREM BindingTypeCorrect == Spec => []TypeOK
  <1>1. GhostInv => TypeOK
    BY DEF GhostInv
  <1> QED
    BY <1>1, GhostInit, GhostStep, PTL DEF Spec

\* On every hub, whatever waits, takeovers and revocations interleave, the
\* socket that directed traffic for a name goes to is connected and bound to
\* that name (resolve_sender, _heartbeat_registered_sender, drop_client and
\* revoke_name).
THEOREM NoGhosts == Spec => []NoGhostOwner
  <1>1. GhostInv => NoGhostOwner
    BY DEF GhostInv
  <1> QED
    BY <1>1, GhostInit, GhostStep, PTL DEF Spec
-----------------------------------------------------------------------------
(* A hub whose binds are never suspended, and that revokes no name.         *)

\* A hub with no connections satisfies the stronger invariant too.
LEMMA OpenInit == Init => OpenInv
  BY NameAssumption
     DEF Init, OpenInv, TypeOK, NoGhostOwner, OneSocketPerName, SettledOwn, Settled,
         FrozenWhileOnline, LeaseProtectsName, GrantGuards, OutsideUnbound, TakerOwns,
         Phases

\* A free name that passes the gate has no other socket bound to it.
LEMMA FreeNameUnbound ==
  ASSUME OpenInv, NEW s \in Sockets, NEW n \in Names, NEW token \in BOOLEAN,
         PassesGate(s, n, token), agentSockets[n] = Nil,
         NEW q \in Sockets
  PROVE  socketAgent[q] # n
  <1> SUFFICES ASSUME socketAgent[q] = n PROVE FALSE
    OBVIOUS
  <1>1. conn[q] \in {"ready", "evicting", "granting"}
    BY NameAssumption DEF OpenInv, TypeOK, OutsideUnbound, Phases
  <1>2. ~Settled(q)
    BY NameAssumption DEF OpenInv, SettledOwn
  <1>3. conn[q] = "granting" /\ frame[q] = n /\ IsLeased(n)
    BY <1>1, <1>2, NameAssumption DEF Settled, OpenInv, GrantGuards, IsLeased, TypeOK
  <1> QED
    BY <1>3 DEF PassesGate, Presentable

\* A fresh bind preserves it: the name it takes was bound to nobody else.
LEMMA OpenBind ==
  ASSUME ~Suspends, OpenInv, NEW s \in Sockets, NEW n \in Names,
         NEW token \in BOOLEAN, NEW wantsLease \in BOOLEAN,
         BindFresh(s, n, token, wantsLease)
  PROVE  OpenInv'
  <1>1. TypeOK' /\ NoGhostOwner'
    BY BindKeepsGhost DEF OpenInv, GhostInv
  <1>2. \A q \in Sockets : socketAgent[q] # n
    BY FreeNameUnbound DEF BindFresh
  <1>3. /\ conn[s] = "ready" /\ socketAgent[s] = Nil /\ agentSockets[n] = Nil
        /\ socketAgent' = [socketAgent EXCEPT ![s] = n]
        /\ offline' = [offline EXCEPT ![n] = "no"]
        /\ lease' = [lease EXCEPT ![n] = IF IsLeased(n) THEN @
                                         ELSE IF wantsLease THEN ProcOf[s] ELSE Nil]
    BY DEF BindFresh, AdmitOwner
  <1>4. IsLeased(n) => lease[n] = ProcOf[s]
    BY DEF BindFresh, PassesGate, Presentable
  <1>5. \A q \in Sockets : conn[q] = "granting" => frame[q] # n
    BY <1>2 DEF OpenInv, GrantGuards
  <1>6. OneSocketPerName'
    BY <1>2, <1>3, NameAssumption DEF OpenInv, TypeOK, OneSocketPerName
  <1>7. CASE wantsLease /\ ~IsLeased(n)
    <2>1. /\ agentSockets' = agentSockets /\ conn' = [conn EXCEPT ![s] = "granting"]
          /\ frame' = [frame EXCEPT ![s] = n] /\ lease' = [lease EXCEPT ![n] = ProcOf[s]]
      BY <1>3, <1>7 DEF BindFresh, Phase
    <2>2. SettledOwn' /\ FrozenWhileOnline' /\ LeaseProtectsName'
      BY <1>3, <2>1, NameAssumption
         DEF OpenInv, TypeOK, SettledOwn, Settled, FrozenWhileOnline, LeaseProtectsName, Phases
    <2>3. \A q \in Sockets : (conn[q] # "heartbeat")' /\ GrantGuards(q)'
                             /\ OutsideUnbound(q)' /\ TakerOwns(q)'
      BY <1>3, <1>5, <2>1, NameAssumption
         DEF OpenInv, TypeOK, GrantGuards, OutsideUnbound, TakerOwns, Phases
    <2> QED BY <1>1, <1>6, <2>2, <2>3 DEF OpenInv
  <1>8. CASE ~(wantsLease /\ ~IsLeased(n))
    <2>1. /\ agentSockets' = [agentSockets EXCEPT ![n] = s]
          /\ conn' = [conn EXCEPT ![s] = "ready"]
          /\ frame' = [frame EXCEPT ![s] = Nil]
          /\ lease' = [lease EXCEPT ![n] = IF IsLeased(n) THEN @ ELSE Nil]
      BY <1>3, <1>8 DEF BindFresh, Phase, Owned
    <2>2. SettledOwn' /\ FrozenWhileOnline' /\ LeaseProtectsName'
      BY <1>2, <1>3, <1>4, <2>1, NameAssumption
         DEF OpenInv, TypeOK, SettledOwn, Settled, FrozenWhileOnline, LeaseProtectsName, Phases
    <2>3. \A q \in Sockets : (conn[q] # "heartbeat")' /\ GrantGuards(q)'
                             /\ OutsideUnbound(q)' /\ TakerOwns(q)'
      BY <1>3, <1>5, <2>1, NameAssumption
         DEF OpenInv, TypeOK, GrantGuards, OutsideUnbound, TakerOwns, Phases
    <2> QED BY <1>1, <1>6, <2>2, <2>3 DEF OpenInv
  <1> QED BY <1>7, <1>8

\* A takeover preserves it: both maps are swapped in one synchronous step.
LEMMA OpenTakeover ==
  ASSUME ~Suspends, OpenInv, NEW s \in Sockets, NEW n \in Names,
         NEW token \in BOOLEAN, NEW wantsLease \in BOOLEAN,
         Takeover(s, n, token, wantsLease)
  PROVE  OpenInv'
  <1> DEFINE old == agentSockets[n]
  <1>1. TypeOK' /\ NoGhostOwner'
    BY BindKeepsGhost DEF OpenInv, GhostInv
  <1>2. /\ conn[s] = "ready" /\ socketAgent[s] = Nil /\ old \in Sockets /\ old # s
        /\ socketAgent' = [socketAgent EXCEPT ![old] = Nil, ![s] = n]
        /\ agentSockets' = [agentSockets EXCEPT ![n] = s]
        /\ conn' = [conn EXCEPT ![s] = "evicting"]
        /\ frame' = [frame EXCEPT ![s] = n]
        /\ offline' = [offline EXCEPT ![n] = "no"]
        /\ lease' = [lease EXCEPT ![n] = IF IsLeased(n) THEN @
                                         ELSE IF wantsLease THEN ProcOf[s] ELSE Nil]
    BY DEF Takeover, AdmitOwner, Phase, Owned, OpenInv, TypeOK
  <1>3. IsLeased(n) => lease[n] = ProcOf[s]
    BY DEF Takeover, PassesGate, Presentable
  <1>4. socketAgent[old] = n
    BY <1>2 DEF OpenInv, NoGhostOwner
  <1>5. \A q \in Sockets : socketAgent[q] = n => q = old
    BY <1>2, <1>4, NameAssumption DEF OpenInv, OneSocketPerName
  <1>6. \A q \in Sockets : conn[q] = "granting" => frame[q] # n /\ q # old
    BY <1>2, <1>4, <1>5, NameAssumption DEF OpenInv, GrantGuards
  <1> HIDE DEF old
  <1>7. OneSocketPerName'
    BY <1>2, <1>5, NameAssumption DEF OpenInv, TypeOK, OneSocketPerName
  <1>8. SettledOwn' /\ FrozenWhileOnline' /\ LeaseProtectsName'
    <2>1. SettledOwn'
      BY <1>2, <1>5, NameAssumption DEF OpenInv, TypeOK, SettledOwn, Settled, Phases
    <2>2. FrozenWhileOnline'
      BY <1>2, NameAssumption DEF OpenInv, TypeOK, FrozenWhileOnline
    <2>3. LeaseProtectsName'
      BY <1>2, <1>3, NameAssumption DEF OpenInv, TypeOK, LeaseProtectsName
    <2> QED BY <2>1, <2>2, <2>3
  <1>9. \A q \in Sockets : (conn[q] # "heartbeat")' /\ GrantGuards(q)'
                           /\ OutsideUnbound(q)' /\ TakerOwns(q)'
    BY <1>2, <1>6, NameAssumption
       DEF OpenInv, TypeOK, GrantGuards, OutsideUnbound, TakerOwns, Phases
  <1> QED BY <1>1, <1>7, <1>8, <1>9 DEF OpenInv
\* A frame whose awaits are over changes nothing it had not already done.
LEMMA OpenFinish ==
  ASSUME ~Suspends, OpenInv, NEW s \in Sockets, conn[s] \in {"granting", "evicting"},
         Finish(s)
  PROVE  OpenInv'
  <1>1. TypeOK' /\ NoGhostOwner'
    BY FinishKeepsGhost DEF OpenInv, GhostInv
  <1>2. /\ conn' = [conn EXCEPT ![s] = "ready"] /\ frame' = [frame EXCEPT ![s] = Nil]
        /\ agentSockets' = IF socketAgent[s] = frame[s]
                           THEN [agentSockets EXCEPT ![frame[s]] = s] ELSE agentSockets
        /\ UNCHANGED <<socketAgent, lease, offline>>
    BY DEF Finish, Phase, Owned, leases
  <1>3. frame[s] \in Names /\ socketAgent[s] \in {frame[s], Nil}
    BY DEF OpenInv, GrantGuards, TakerOwns
  <1>4. \A q \in Sockets : conn[q] = "granting" /\ frame[q] = frame[s] => q = s \/ socketAgent[s] = Nil
    BY <1>3, NameAssumption DEF OpenInv, GrantGuards, OneSocketPerName
  <1>5. socketAgent[s] = frame[s] =>
          /\ offline[frame[s]] = "no"
          /\ lease[frame[s]] \in {Nil, ProcOf[s]}
    <2>1. CASE conn[s] = "granting"
      BY <2>1 DEF OpenInv, GrantGuards
    <2>2. CASE conn[s] = "evicting"
      BY <2>2, <1>3, NameAssumption
         DEF OpenInv, SettledOwn, Settled, FrozenWhileOnline, LeaseProtectsName
    <2> QED BY <2>1, <2>2
  <1>6. OneSocketPerName'
    BY <1>2 DEF OpenInv, OneSocketPerName
  <1>7. SettledOwn'
    BY <1>2, <1>3, NameAssumption
       DEF OpenInv, TypeOK, SettledOwn, Settled, OneSocketPerName, Phases
  <1>8. FrozenWhileOnline' /\ LeaseProtectsName'
    BY <1>2, <1>3, <1>5, NameAssumption DEF OpenInv, TypeOK, FrozenWhileOnline, LeaseProtectsName
  <1>9. \A q \in Sockets : (conn[q] # "heartbeat")' /\ GrantGuards(q)'
                           /\ OutsideUnbound(q)' /\ TakerOwns(q)'
    BY <1>2, <1>3, <1>4, NameAssumption
       DEF OpenInv, TypeOK, GrantGuards, OutsideUnbound, TakerOwns, Phases
  <1> QED BY <1>1, <1>6, <1>7, <1>8, <1>9 DEF OpenInv

\* A teardown preserves it: only the socket that owns a name stamps its lease.
LEMMA OpenDrop ==
  ASSUME OpenInv, NEW s \in Sockets, Drop(s)
  PROVE  OpenInv'
  <1>1. GhostInv'
    BY GhostStep DEF Next, OpenInv, GhostInv
  <1>2. OneSocketPerName'
    BY NameAssumption DEF Drop, OpenInv, TypeOK, OneSocketPerName
  <1>3. SettledOwn'
    BY NameAssumption
       DEF Drop, OpenInv, TypeOK, SettledOwn, Settled, OneSocketPerName, Phases
  <1>4. FrozenWhileOnline' /\ LeaseProtectsName'
    BY NameAssumption DEF Drop, OpenInv, TypeOK, FrozenWhileOnline, LeaseProtectsName
  <1>5. \A q \in Sockets : (conn[q] # "heartbeat")' /\ GrantGuards(q)'
                           /\ OutsideUnbound(q)' /\ TakerOwns(q)'
    <2> TAKE q \in Sockets
    <2>1. conn[q] = "granting" => q # s /\ agentSockets[frame[q]] = Nil
      BY DEF Drop, OpenInv, GrantGuards
    <2> QED
      BY <2>1, NameAssumption
         DEF Drop, OpenInv, TypeOK, GrantGuards, OutsideUnbound, TakerOwns, Phases
  <1> QED BY <1>1, <1>2, <1>3, <1>4, <1>5 DEF OpenInv, GhostInv

\* Every step preserves it on a hub whose binds never wait between the maps and
\* whose operators never revoke.
LEMMA OpenStep ==
  ASSUME ~Suspends, ~Revokes
  PROVE  OpenInv /\ [Next]_vars => OpenInv'
  <1> SUFFICES ASSUME OpenInv, [Next]_vars PROVE OpenInv'
    OBVIOUS
  <1>0. GhostInv'
    BY GhostStep DEF OpenInv, GhostInv
  <1>1. ASSUME NEW s \in Sockets, Accept(s) PROVE OpenInv'
    BY <1>0, <1>1, NameAssumption
       DEF Accept, OpenInv, GhostInv, TypeOK, OneSocketPerName, SettledOwn, Settled,
           FrozenWhileOnline, LeaseProtectsName, GrantGuards, OutsideUnbound, TakerOwns,
           Phases, leases
  <1>2. ASSUME NEW s \in Sockets, Known(s) PROVE OpenInv'
    <2>1. agentSockets[socketAgent[s]] = s /\ socketAgent[s] \in Names
      BY <1>2 DEF Known, OpenInv, SettledOwn, Settled, TypeOK
    <2>2. /\ agentSockets' = agentSockets /\ conn' = conn
          /\ frame' = [frame EXCEPT ![s] = Nil] /\ conn[s] = "ready"
          /\ UNCHANGED <<socketAgent, lease, offline>>
      BY <1>2, <2>1 DEF Known, Phase, Owned, leases, OpenInv, TypeOK
    <2> QED
      BY <1>0, <2>2
         DEF OpenInv, GhostInv, TypeOK, OneSocketPerName, SettledOwn, Settled,
             FrozenWhileOnline, LeaseProtectsName, GrantGuards, OutsideUnbound, TakerOwns
  <1>3. ASSUME NEW s \in Sockets, Resume(s) PROVE OpenInv'
    BY <1>3, OpenFinish DEF Resume
  <1>4. ASSUME NEW s \in Sockets, Register(s) PROVE OpenInv'
    BY <1>4 DEF Register, OpenInv
  <1>5. ASSUME NEW s \in Sockets, Drop(s) PROVE OpenInv'
    BY <1>5, OpenDrop
  <1>6. ASSUME NEW s \in Sockets, NEW n \in Names, Refuse(s, n) PROVE OpenInv'
    <2>1. \A m \in Names : IsLeased(m) \/ agentSockets[m] # Nil =>
             lease'[m] \in {lease[m], Nil} /\ (IsLeased(m) => lease'[m] = lease[m])
             /\ (offline[m] = "no" => offline'[m] = "no")
      BY <1>6 DEF Refuse, Swept, OpenInv, TypeOK
    <2>2. FrozenWhileOnline' /\ LeaseProtectsName'
      BY <1>6, <2>1, NameAssumption DEF Refuse, OpenInv, TypeOK, FrozenWhileOnline, LeaseProtectsName
    <2>3. \A q \in Sockets : GrantGuards(q)'
      <3> TAKE q \in Sockets
      <3>1. conn[q] = "granting" => frame[q] \in Names /\ IsLeased(frame[q])
        BY NameAssumption DEF OpenInv, GrantGuards, IsLeased, TypeOK
      <3> QED
        BY <1>6, <2>1, <3>1 DEF Refuse, OpenInv, GrantGuards
    <2> QED
      BY <1>0, <1>6, <2>2, <2>3
         DEF Refuse, OpenInv, GhostInv, OneSocketPerName, SettledOwn, Settled,
             OutsideUnbound, TakerOwns
  <1>7. ASSUME NEW s \in Sockets, NEW n \in Names, NEW token \in BOOLEAN,
               NEW wantsLease \in BOOLEAN,
               BindFresh(s, n, token, wantsLease) \/ Takeover(s, n, token, wantsLease)
        PROVE  OpenInv'
    BY <1>7, OpenBind, OpenTakeover
  <1>8. ASSUME NEW n \in Names, Revoke(n) PROVE OpenInv'
    BY <1>8 DEF Revoke
  <1>9. ASSUME NEW n \in Names, Lapse(n) PROVE OpenInv'
    BY <1>0, <1>9, NameAssumption
       DEF Lapse, OpenInv, GhostInv, TypeOK, OneSocketPerName, SettledOwn, Settled,
           FrozenWhileOnline, LeaseProtectsName, GrantGuards, OutsideUnbound, TakerOwns
  <1>10. CASE UNCHANGED vars
    BY <1>0, <1>10
       DEF vars, OpenInv, GhostInv, OneSocketPerName, SettledOwn, Settled,
           FrozenWhileOnline, LeaseProtectsName, GrantGuards, OutsideUnbound, TakerOwns
  <1> QED
    BY <1>1, <1>2, <1>3, <1>4, <1>5, <1>6, <1>7, <1>8, <1>9, <1>10 DEF Next

\* On a hub that never suspends a bind between the two maps, takeovers,
\* leases and drops keep them one bijection: no two sessions end up with one
\* name (the race MCCoBind shows is the suspension's doing alone).
THEOREM BindingBijective ==
  ASSUME ~Suspends, ~Revokes
  PROVE  Spec => []OneBijection
  <1>1. OpenInv => OneBijection
    BY DEF OpenInv, SettledOwn, Settled, OneBijection
  <1> QED
    BY <1>1, OpenInit, OpenStep, PTL DEF Spec

\* On such a hub a lease never lapses under its connected holder, whichever
\* evicted socket's teardown comes late (NameOwnership.mark_offline).
THEOREM HolderNeverLapses ==
  ASSUME ~Suspends, ~Revokes
  PROVE  Spec => []FrozenWhileOnline
  <1>1. OpenInv => FrozenWhileOnline
    BY DEF OpenInv
  <1> QED
    BY <1>1, OpenInit, OpenStep, PTL DEF Spec

\* And a leased name is never owned by a process without its token (the gate
\* at the head of resolve_sender).
THEOREM LeasesProtect ==
  ASSUME ~Suspends, ~Revokes
  PROVE  Spec => []LeaseProtectsName
  <1>1. OpenInv => LeaseProtectsName
    BY DEF OpenInv
  <1> QED
    BY <1>1, OpenInit, OpenStep, PTL DEF Spec

-----------------------------------------------------------------------------
(* A hub without a journal: the actor's lock is never held across an await,  *)
(* so nothing but time passes between a frame's entry and its mutation.      *)

\* What a frame captured before the actor is still so when its mutation runs.
Current(j) ==
    /\ j.online = online
    /\ j.due = {b \in Agents : departed[b] # Here /\ j.at - departed[b] >= OfflineTtl}
    /\ j.kind # "arrive" => j.agent \in online /\ j.task \in Tasks
    /\ j.kind = "handoff" => j.to \in online

\* Stamps tell the truth of holders: who is here has none, and a holder that is
\* not left when its stamp says, or has been away since the hub started.
Stamped ==
    /\ \A a \in Agents : a \in online <=> departed[a] = Here
    /\ \A a \in online : since[a] = NoStamp
    /\ \A a \in Agents \ online : (\E t \in Tasks : owner[t] = a) =>
          departed[a] = IF since[a] = NoStamp THEN 0 ELSE since[a]

PresenceInv ==
    /\ PresenceTypeOK /\ Stamped
    /\ pending = NoOne
    /\ queue = <<>> \/ \E j \in Jobs : queue = <<j>> /\ Current(j)
    /\ \A x \in ready : x.agent \in online
    /\ HolderKeepsWindow

\* A frame that enters the actor captures what is so.
LEMMA Captured ==
  ASSUME PresenceInv, NEW kind \in {"arrive", "sweep", "claim", "handoff"}, NEW a \in Agents,
         NEW t \in Tasks \cup {NoOne}, NEW to \in Agents \cup {NoOne},
         kind # "arrive" => a \in online /\ t \in Tasks, kind = "handoff" => to \in online,
         queue = <<>>, Enqueue(Job(kind, a, t, to)),
         UNCHANGED <<now, online, since, owner, pending, departed, wronged>>,
         ready' \subseteq [agent : Agents, task : Tasks],
         \A x \in ready' : x.agent \in online
  PROVE  PresenceInv'
<1>1. PICK j \in Jobs : j = Job(kind, a, t, to)
  BY DEF Job, Jobs, PresenceInv, PresenceTypeOK
<1>2. queue' = <<j>> /\ queue' \in Seq(Jobs)
  BY <1>1 DEF Enqueue
<1>3. Current(j)'
  BY <1>1 DEF Current, Job
<1>4. PresenceTypeOK' /\ Stamped'
  BY <1>2 DEF PresenceInv, PresenceTypeOK, Stamped
<1> QED BY <1>2, <1>3, <1>4 DEF PresenceInv, HolderKeepsWindow

\* Every holder a sweep releases has been away for the whole window.
LEMMA NobodyWronged ==
  ASSUME PresenceInv, NEW j \in Jobs, Current(j)
  PROVE  WrongedBy(j) = {}
<1> SUFFICES ASSUME NEW t \in Abandoned(owner, j.online, j.at) PROVE owner[t] \in j.due
  BY DEF WrongedBy
<1>1. /\ t \in Tasks /\ owner[t] # NoOne /\ owner[t] \in Agents \ online
      /\ j.at - (IF since[owner[t]] = NoStamp THEN 0 ELSE since[owner[t]]) >= OfflineTtl
  BY DEF Abandoned, Away, Current, PresenceInv, PresenceTypeOK
<1>2. /\ departed[owner[t]] # Here
      /\ departed[owner[t]] = IF since[owner[t]] = NoStamp THEN 0 ELSE since[owner[t]]
  BY <1>1 DEF PresenceInv, Stamped
<1> QED BY <1>1, <1>2 DEF Current

\* A mutation that runs at once moves claims to present agents only.
LEMMA MutationKeeps ==
  ASSUME PresenceAssumption, ~Durable, PresenceInv, RunMutation
  PROVE  PresenceInv'
<1>1. PICK j \in Jobs : queue = <<j>> /\ Current(j)
  BY DEF PresenceInv, RunMutation
<1>2. /\ Head(queue) = j /\ queue' = <<>> /\ j.kind # "arrive"
      /\ owner' = Mutate(j) /\ ready' = ready \cup Resumed(j)
      /\ wronged' = wronged \cup WrongedBy(j)
      /\ UNCHANGED <<now, online, since, departed, pending>>
  BY <1>1 DEF RunMutation
<1>3. wronged' = {}
  BY <1>1, <1>2, NobodyWronged DEF PresenceInv, HolderKeepsWindow
<1>4. /\ j.agent \in Agents /\ j.agent \in online /\ j.task \in Tasks /\ j.to \in Agents \cup {NoOne}
      /\ j.kind = "handoff" => j.to \in online
      /\ j.kind \in {"sweep", "claim", "handoff"}
      /\ owner \in [Tasks -> Agents \cup {NoOne}]
  BY <1>1, <1>2 DEF Current, Jobs, PresenceInv, PresenceTypeOK
<1>5. /\ owner' \in [Tasks -> Agents \cup {NoOne}]
      /\ \A t \in Tasks : owner'[t] \in {owner[t], NoOne} \cup online
  <2>1. CASE j.kind = "sweep"
    BY <1>2, <1>4, <2>1 DEF Mutate
  <2>2. CASE j.kind = "claim"
    BY <1>2, <1>4, <2>2 DEF Mutate
  <2>3. CASE j.kind = "handoff"
    BY <1>2, <1>4, <2>3 DEF Mutate
  <2> QED BY <1>4, <2>1, <2>2, <2>3
<1>6. Stamped'
  <2>1. ASSUME NEW a \in Agents \ online, NEW t \in Tasks, owner'[t] = a
        PROVE  owner[t] = a
    BY <1>5, <2>1 DEF PresenceAssumption
  <2> QED BY <1>2, <2>1 DEF PresenceInv, Stamped
<1>7. ready' \subseteq [agent : Agents, task : Tasks] /\ \A x \in ready' : x.agent \in online
  BY <1>2, <1>4 DEF Resumed, PresenceInv, PresenceTypeOK
<1> QED BY <1>2, <1>3, <1>5, <1>6, <1>7 DEF PresenceInv, PresenceTypeOK, HolderKeepsWindow

\* A return clears the stamp as it makes the agent present.
LEMMA ReturnKeeps ==
  ASSUME PresenceInv, RunArrival
  PROVE  PresenceInv'
<1>1. PICK j \in Jobs : queue = <<j>> /\ Current(j)
  BY DEF PresenceInv, RunArrival
<1>2. /\ j.agent \in Agents /\ queue' = <<>>
      /\ online' = online \cup {j.agent}
      /\ since' = [since EXCEPT ![j.agent] = NoStamp]
      /\ departed' = [departed EXCEPT ![j.agent] = Here]
      /\ UNCHANGED <<now, owner, pending, ready, wronged>>
  BY <1>1 DEF RunArrival, Jobs
<1>3. PresenceTypeOK'
  BY <1>2 DEF PresenceInv, PresenceTypeOK
<1>4. Stamped'
  BY <1>2 DEF PresenceInv, PresenceTypeOK, Stamped, Here, NoStamp
<1> QED BY <1>2, <1>3, <1>4 DEF PresenceInv, HolderKeepsWindow

\* A departure with no frame in progress stamps the holder of a claim.
LEMMA DepartureKeeps ==
  ASSUME PresenceAssumption, PresenceInv, NEW a \in Agents, Disconnect(a)
  PROVE  PresenceInv'
<1>1. /\ queue = <<>> /\ queue' = <<>> /\ a \in online
      /\ \A x \in ready : x.agent # a
      /\ online' = online \ {a}
      /\ departed' = [departed EXCEPT ![a] = now]
      /\ UNCHANGED <<now, owner, queue, pending, ready, wronged>>
  BY DEF Disconnect, Runnable, Busy, PresenceInv
<1>2. since' = IF \E t \in Tasks : owner[t] = a THEN [since EXCEPT ![a] = now] ELSE since
  BY <1>1 DEF Disconnect, PresenceInv, Stamped
<1>3. PresenceTypeOK'
  BY <1>1, <1>2 DEF PresenceInv, PresenceTypeOK
<1>4. Stamped'
  BY <1>1, <1>2 DEF PresenceInv, PresenceTypeOK, Stamped, Here, NoStamp
<1> QED BY <1>1, <1>3, <1>4 DEF PresenceInv, HolderKeepsWindow

\* Each step of a hub without a journal, on which no name is revoked.
LEMMA PresenceStep ==
  ASSUME PresenceAssumption, ~Durable, ~Detaches, PresenceInv, [PresenceNext]_presenceVars
  PROVE  PresenceInv'
<1> USE DEF PresenceInv
<1>1. CASE Advance
  <2>1. UNCHANGED <<online, since, owner, queue, pending, ready, departed, wronged>> /\ now' \in Nat
    BY <1>1 DEF Advance, PresenceTypeOK
  <2> QED BY <2>1 DEF PresenceTypeOK, Stamped, Current, HolderKeepsWindow
<1>2. CASE Claim
  <2>1. PICK x \in ready :
            /\ Enqueue(Job("claim", x.agent, x.task, NoOne)) /\ ready' = ready \ {x}
            /\ queue = <<>>
            /\ UNCHANGED <<now, online, since, owner, pending, departed, wronged>>
    BY <1>2 DEF Claim, Runnable
  <2>2. x.agent \in Agents /\ x.task \in Tasks /\ x.agent \in online
    BY DEF PresenceTypeOK
  <2>3. ready' \subseteq [agent : Agents, task : Tasks] /\ \A y \in ready' : y.agent \in online
    BY <2>1 DEF PresenceTypeOK
  <2> QED BY <2>1, <2>2, <2>3, Captured
<1>3. CASE RunArrival
  BY <1>3, ReturnKeeps
<1>4. CASE RunMutation
  BY <1>4, MutationKeeps
<1>5. CASE Publish
  BY <1>5 DEF Publish
<1>6. ASSUME NEW a \in Agents, Arrive(a) PROVE PresenceInv'
  <2>1. /\ Enqueue(Job("arrive", a, NoOne, NoOne)) /\ queue = <<>>
        /\ UNCHANGED <<now, online, since, owner, pending, ready, departed, wronged>>
    BY <1>6 DEF Arrive, Runnable
  <2>2. ready' \subseteq [agent : Agents, task : Tasks] /\ \A y \in ready' : y.agent \in online
    BY <2>1 DEF PresenceTypeOK
  <2> QED BY <2>1, <2>2, Captured
<1>7. ASSUME NEW a \in Agents, Disconnect(a) PROVE PresenceInv'
  BY <1>7, DepartureKeeps
<1>8. ASSUME NEW a \in Agents, Detach(a) PROVE PresenceInv'
  BY <1>8 DEF Detach
<1>9. ASSUME NEW a \in Agents, NEW t \in Tasks, Attempt(a, t) PROVE PresenceInv'
  <2>1. /\ queue = <<>> /\ a \in online
        /\ UNCHANGED <<now, online, since, owner, pending, departed, wronged>>
    BY <1>9 DEF Attempt, Runnable
  <2>2. CASE Abandoned(owner, online, now) = {}
    <3>1. queue' = <<>> /\ ready' = ready \cup {[agent |-> a, task |-> t]}
      BY <1>9, <2>1, <2>2 DEF Attempt
    <3> QED BY <2>1, <3>1 DEF PresenceTypeOK, Stamped, HolderKeepsWindow
  <2>3. CASE Abandoned(owner, online, now) # {}
    <3>1. Enqueue(Job("sweep", a, t, NoOne)) /\ ready' = ready
      BY <1>9, <2>3 DEF Attempt
    <3>2. ready' \subseteq [agent : Agents, task : Tasks] /\ \A y \in ready' : y.agent \in online
      BY <3>1 DEF PresenceTypeOK
    <3> QED BY <2>1, <3>1, <3>2, Captured
  <2> QED BY <2>2, <2>3
<1>10. ASSUME NEW a \in Agents, NEW to \in Agents, NEW t \in Tasks, HandOff(a, t, to)
       PROVE  PresenceInv'
  <2>1. /\ queue = <<>> /\ a \in online /\ to \in online
        /\ Enqueue(Job("handoff", a, t, to))
        /\ UNCHANGED <<now, online, since, owner, pending, ready, departed, wronged>>
    BY <1>10 DEF HandOff, Runnable
  <2>2. ready' \subseteq [agent : Agents, task : Tasks] /\ \A y \in ready' : y.agent \in online
    BY <2>1 DEF PresenceTypeOK
  <2> QED BY <2>1, <2>2, Captured
<1>11. CASE UNCHANGED presenceVars
  BY <1>11 DEF presenceVars, PresenceTypeOK, Stamped, Current, HolderKeepsWindow
<1> QED
  <2>1. Recipients \subseteq Agents
    BY DEF PresenceAssumption
  <2> QED BY <1>1, <1>2, <1>3, <1>4, <1>5, <1>6, <1>7, <1>8, <1>9, <1>10, <1>11, <2>1
          DEF PresenceNext

\* INV-CR-5: on a hub without a journal, where a frame's mutation runs before
\* anybody else's, a holder keeps its claims for the whole window.
THEOREM HoldersKeepWindow ==
  ASSUME ~Durable, ~Detaches
  PROVE  PresenceAssumption /\ PresenceSpec => []HolderKeepsWindow
<1> SUFFICES ASSUME PresenceAssumption PROVE PresenceSpec => []HolderKeepsWindow
  OBVIOUS
<1>1. PresenceInit => PresenceInv
  BY DEF PresenceAssumption, PresenceInit, PresenceInv, PresenceTypeOK, Stamped, HolderKeepsWindow,
         Here, NoStamp
<1>2. PresenceInv => HolderKeepsWindow
  BY DEF PresenceInv
<1>3. PresenceInv /\ [PresenceNext]_presenceVars => PresenceInv'
  BY PresenceStep
<1> QED BY <1>1, <1>2, <1>3, PTL DEF PresenceSpec

-----------------------------------------------------------------------------
(* A hub with a journal: frames wait behind an append, so what a sweep       *)
(* captured may be old when it runs.  Only the stamps are read then.         *)

\* At instant n, job j counts everybody as due who left early enough and is
\* still away by the departures d; who left after it was queued left too late.
Counts(j, n, d) ==
    /\ j.kind # "arrive" => j.task \in Tasks
    /\ j.at <= n
    /\ \A a \in Agents : d[a] # Here /\ j.at - d[a] >= OfflineTtl => a \in j.due

\* Only who is away is stamped, with the instant it left; frames count as due
\* whoever left early enough.
StampInv ==
    /\ PresenceTypeOK
    /\ \A a \in online : since[a] = NoStamp
    /\ \A a \in Agents : since[a] # NoStamp => departed[a] = since[a]
    /\ \A i \in 1..Len(queue) : Counts(queue[i], now, departed)
    /\ pending # NoOne /\ pending.job.kind # "arrive" => pending.job.task \in Tasks

\* A frame that is queued counts who is due now.
LEMMA QueuedCounts ==
  ASSUME PresenceAssumption, StampInv, NEW kind \in {"arrive", "sweep", "claim", "handoff"},
         NEW a \in Agents, NEW t \in Tasks \cup {NoOne}, NEW to \in Agents \cup {NoOne},
         kind # "arrive" => t \in Tasks, Enqueue(Job(kind, a, t, to)),
         UNCHANGED <<now, online, since, owner, pending, departed, wronged>>,
         ready' \subseteq [agent : Agents, task : Tasks]
  PROVE  StampInv'
<1>1. PICK j \in Jobs : j = Job(kind, a, t, to)
  BY DEF Job, Jobs, StampInv, PresenceTypeOK
<1>2. queue' = Append(queue, j) /\ queue \in Seq(Jobs)
  BY <1>1 DEF Enqueue, StampInv, PresenceTypeOK
<1>3. Counts(j, now, departed)
  <2>1. /\ j.kind = kind /\ j.task = t /\ j.at = now /\ now \in Nat
        /\ j.due = {b \in Agents : departed[b] # Here /\ now - departed[b] >= OfflineTtl}
    BY <1>1 DEF Job, StampInv, PresenceTypeOK
  <2> QED BY <2>1 DEF Counts
<1>4. \A i \in 1..Len(queue') : queue'[i] = j \/ (i \in 1..Len(queue) /\ queue'[i] = queue[i])
  BY <1>2
<1>5. \A i \in 1..Len(queue') : Counts(queue'[i], now', departed')
  BY <1>3, <1>4 DEF StampInv
<1>6. queue' \in Seq(Jobs)
  BY <1>2
<1> QED BY <1>5, <1>6 DEF StampInv, PresenceTypeOK

\* What still waits for the actor keeps counting when time passes or somebody
\* comes or goes.
LEMMA WaitingCounts ==
  ASSUME PresenceAssumption, StampInv, now' \in Nat, now <= now',
         departed' \in [Agents -> Nat \cup {Here}],
         \A a \in Agents : departed'[a] \in {departed[a], Here, now},
         queue' = queue \/ (queue # <<>> /\ queue' = Tail(queue))
  PROVE  queue' \in Seq(Jobs) /\ \A i \in 1..Len(queue') : Counts(queue'[i], now', departed')
<1>1. ASSUME NEW i \in 1..Len(queue) PROVE Counts(queue[i], now', departed')
  <2>1. queue[i] \in Jobs /\ Counts(queue[i], now, departed)
    BY DEF StampInv, PresenceTypeOK
  <2>2. queue[i].at \in Nat /\ queue[i].at <= now /\ queue[i].at <= now'
    BY <2>1 DEF Jobs, Counts, StampInv, PresenceTypeOK
  <2>3. OfflineTtl \in Nat \ {0} /\ now \in Nat
    BY DEF PresenceAssumption, StampInv, PresenceTypeOK
  <2>4. ASSUME NEW a \in Agents, departed'[a] # Here, queue[i].at - departed'[a] >= OfflineTtl
        PROVE  a \in queue[i].due
    <3>1. departed'[a] = departed[a]
      BY <2>2, <2>3, <2>4
    <3> QED BY <2>1, <2>4, <3>1 DEF Counts
  <2> QED BY <2>1, <2>2, <2>4 DEF Counts
<1>2. CASE queue' = queue
  BY <1>1, <1>2 DEF StampInv, PresenceTypeOK
<1>3. CASE queue' = Tail(queue) /\ queue # <<>>
  <2>1. queue \in Seq(Jobs)
    BY DEF StampInv, PresenceTypeOK
  <2>2. queue' \in Seq(Jobs) /\ \A i \in 1..Len(queue') : i + 1 \in 1..Len(queue) /\ queue'[i] = queue[i + 1]
    BY <1>3, <2>1
  <2> QED BY <1>1, <2>2
<1> QED BY <1>2, <1>3

\* A mutation that runs leaves claims of agents, and a swept frame its task.
LEMMA MutationTyped ==
  ASSUME StampInv, RunMutation
  PROVE  LET j == Head(queue)
         IN  /\ j \in Jobs /\ Counts(j, now, departed) /\ j.task \in Tasks /\ j.kind # "arrive"
             /\ Mutate(j) \in [Tasks -> Agents \cup {NoOne}]
             /\ Resumed(j) \subseteq [agent : Agents, task : Tasks]
             /\ WrongedBy(j) \subseteq Agents
<1> DEFINE j == Head(queue)
<1>1. j \in Jobs /\ Counts(j, now, departed) /\ j.kind # "arrive"
  <2>1. queue \in Seq(Jobs) /\ queue # <<>> /\ j.kind # "arrive"
    BY DEF RunMutation, StampInv, PresenceTypeOK
  <2>2. 1 \in 1..Len(queue) /\ j = queue[1] /\ j \in Jobs
    BY <2>1
  <2> QED BY <2>1, <2>2 DEF StampInv
<1>2. /\ j.agent \in Agents /\ j.to \in Agents \cup {NoOne} /\ j.task \in Tasks
      /\ owner \in [Tasks -> Agents \cup {NoOne}]
      /\ j.kind \in {"sweep", "claim", "handoff"}
  BY <1>1 DEF Jobs, Counts, StampInv, PresenceTypeOK
<1> HIDE DEF j
<1>3. Mutate(j) \in [Tasks -> Agents \cup {NoOne}]
  <2>1. CASE j.kind = "sweep"
    BY <1>2, <2>1 DEF Mutate
  <2>2. CASE j.kind = "claim"
    BY <1>2, <2>2 DEF Mutate
  <2>3. CASE j.kind = "handoff"
    <3>1. owner[j.task] = j.agent => j.to \in Agents \cup {NoOne}
      BY <1>2
    <3> QED BY <1>2, <2>3, <3>1 DEF Mutate
  <2> QED BY <1>2, <2>1, <2>2, <2>3
<1>4. Resumed(j) \subseteq [agent : Agents, task : Tasks]
  BY <1>2 DEF Resumed
<1>5. WrongedBy(j) \subseteq Agents
  <2>1. \A t \in Abandoned(owner, j.online, j.at) : owner[t] \in Agents
    BY <1>2 DEF Abandoned
  <2> QED BY <2>1 DEF WrongedBy
<1> QED BY <1>1, <1>2, <1>3, <1>4, <1>5 DEF j

\* A departure that is stamped is measured as what it is, so nobody with a
\* stamp is released too early.
LEMMA StampedNotWronged ==
  ASSUME PresenceAssumption, StampInv, NEW j \in Jobs, Counts(j, now, departed),
         NEW a \in WrongedBy(j)
  PROVE  a \in Agents /\ since[a] = NoStamp /\ departed[a] # 0
<1>1. PICK t \in Abandoned(owner, j.online, j.at) : a = owner[t] /\ a \notin j.due
  BY DEF WrongedBy
<1>2. /\ a \in Agents /\ a \notin j.due
      /\ j.at - (IF since[a] = NoStamp THEN 0 ELSE since[a]) >= OfflineTtl
  BY <1>1 DEF Abandoned, Away, StampInv, PresenceTypeOK
<1>3. ~(departed[a] # Here /\ j.at - departed[a] >= OfflineTtl)
  BY <1>2 DEF Counts
<1> QED BY <1>2, <1>3 DEF StampInv, PresenceTypeOK, Here, NoStamp

\* Each step of a hub, with a journal or without.
LEMMA StampStep ==
  ASSUME PresenceAssumption, StampInv, [PresenceNext]_presenceVars
  PROVE  StampInv' /\ \A a \in wronged' \ wronged : since[a] = NoStamp
<1> DEFINE Goal == StampInv' /\ \A a \in wronged' \ wronged : since[a] = NoStamp
<1>t. PresenceTypeOK
  BY DEF StampInv
<1>1. CASE Advance
  <2>1. /\ now' \in Nat /\ now <= now'
        /\ UNCHANGED <<online, since, owner, queue, pending, ready, departed, wronged>>
    BY <1>1, <1>t DEF Advance, PresenceTypeOK
  <2>2. \A i \in 1..Len(queue') : Counts(queue'[i], now', departed')
    BY <1>t, <2>1, WaitingCounts DEF PresenceTypeOK
  <2> QED BY <1>t, <2>1, <2>2 DEF StampInv, PresenceTypeOK
<1>2. CASE Claim
  <2>1. PICK x \in ready :
            /\ Enqueue(Job("claim", x.agent, x.task, NoOne)) /\ ready' = ready \ {x}
            /\ UNCHANGED <<now, online, since, owner, pending, departed, wronged>>
    BY <1>2 DEF Claim
  <2>2. x.agent \in Agents /\ x.task \in Tasks /\ ready' \subseteq [agent : Agents, task : Tasks]
    BY <1>t, <2>1 DEF PresenceTypeOK
  <2> QED BY <2>1, <2>2, QueuedCounts
<1>3. CASE RunArrival
  <2>1. /\ Head(queue) \in Jobs /\ Head(queue).agent \in Agents
        /\ queue # <<>> /\ queue' = Tail(queue)
        /\ online' = online \cup {Head(queue).agent}
        /\ since' = [since EXCEPT ![Head(queue).agent] = NoStamp]
        /\ departed' = [departed EXCEPT ![Head(queue).agent] = Here]
        /\ UNCHANGED <<now, owner, pending, ready, wronged>>
    <3>1. queue \in Seq(Jobs) /\ queue # <<>>
      BY <1>3, <1>t DEF RunArrival, PresenceTypeOK
    <3>2. Head(queue) \in Jobs
      BY <3>1
    <3> QED BY <1>3, <3>1, <3>2 DEF RunArrival, Jobs
  <2> DEFINE b == Head(queue).agent
  <2>2. /\ b \in Agents /\ online' = online \cup {b}
        /\ since' = [since EXCEPT ![b] = NoStamp] /\ departed' = [departed EXCEPT ![b] = Here]
    BY <2>1 DEF b
  <2> HIDE DEF b
  <2>3. queue' \in Seq(Jobs) /\ \A i \in 1..Len(queue') : Counts(queue'[i], now', departed')
    <3>1. /\ departed' \in [Agents -> Nat \cup {Here}]
          /\ \A a \in Agents : departed'[a] \in {departed[a], Here, now}
          /\ now' \in Nat /\ now <= now'
      BY <1>t, <2>1, <2>2 DEF PresenceTypeOK
    <3> QED BY <2>1, <3>1, WaitingCounts
  <2>4. PresenceTypeOK'
    BY <1>t, <2>1, <2>2, <2>3 DEF PresenceTypeOK
  <2>5. /\ \A a \in online' : since'[a] = NoStamp
        /\ \A a \in Agents : since'[a] # NoStamp => departed'[a] = since'[a]
    BY <1>t, <2>2 DEF StampInv, PresenceTypeOK
  <2> QED BY <2>1, <2>3, <2>4, <2>5 DEF StampInv
<1>4. CASE RunMutation
  <2> DEFINE j == Head(queue)
  <2>1. /\ j \in Jobs /\ Counts(j, now, departed) /\ j.task \in Tasks
        /\ Mutate(j) \in [Tasks -> Agents \cup {NoOne}]
        /\ Resumed(j) \subseteq [agent : Agents, task : Tasks]
        /\ WrongedBy(j) \subseteq Agents
    BY <1>4, MutationTyped
  <2>2. /\ queue # <<>> /\ queue' = Tail(queue) /\ wronged' = wronged \cup WrongedBy(j)
        /\ UNCHANGED <<now, online, since, departed>>
        /\ \/ /\ pending' = [job |-> j, owner |-> Mutate(j)] /\ UNCHANGED <<owner, ready>>
           \/ /\ owner' = Mutate(j) /\ ready' = ready \cup Resumed(j) /\ UNCHANGED pending
    BY <1>4 DEF RunMutation
  <2> HIDE DEF j
  <2>3. \A a \in wronged' \ wronged : since[a] = NoStamp
    BY <2>1, <2>2, StampedNotWronged
  <2>4. queue' \in Seq(Jobs) /\ \A i \in 1..Len(queue') : Counts(queue'[i], now', departed')
    BY <1>t, <2>2, WaitingCounts DEF PresenceTypeOK
  <2>5. /\ owner' \in [Tasks -> Agents \cup {NoOne}] /\ pending' \in Mutations \cup {NoOne}
        /\ ready' \subseteq [agent : Agents, task : Tasks] /\ wronged' \subseteq Agents
        /\ pending' # NoOne /\ pending'.job.kind # "arrive" => pending'.job.task \in Tasks
    <3>1. CASE pending' = [job |-> j, owner |-> Mutate(j)] /\ UNCHANGED <<owner, ready>>
      BY <1>t, <2>1, <2>2, <3>1 DEF PresenceTypeOK, Mutations
    <3>2. CASE owner' = Mutate(j) /\ ready' = ready \cup Resumed(j) /\ UNCHANGED pending
      BY <1>t, <2>1, <2>2, <3>2 DEF PresenceTypeOK, StampInv
    <3> QED BY <2>2, <3>1, <3>2
  <2>6. PresenceTypeOK'
    BY <1>t, <2>2, <2>4, <2>5 DEF PresenceTypeOK
  <2> QED BY <2>2, <2>3, <2>4, <2>5, <2>6 DEF StampInv
<1>5. CASE Publish
  <2>1. /\ pending \in Mutations /\ owner' = pending.owner /\ pending' = NoOne
        /\ ready' = ready \cup Resumed(pending.job)
        /\ UNCHANGED <<now, online, since, queue, departed, wronged>>
    BY <1>5, <1>t DEF Publish, PresenceTypeOK
  <2>2. Resumed(pending.job) \subseteq [agent : Agents, task : Tasks]
    <3>1. pending.job.kind = "sweep" => pending.job.task \in Tasks
      BY <1>5 DEF Publish, StampInv
    <3> QED BY <2>1, <3>1 DEF Resumed, Mutations, Jobs
  <2>3. PresenceTypeOK'
    BY <1>t, <2>1, <2>2 DEF PresenceTypeOK, Mutations
  <2> QED BY <2>1, <2>3 DEF StampInv
<1>6. ASSUME NEW a \in Agents, Arrive(a) PROVE Goal
  <2>1. /\ Enqueue(Job("arrive", a, NoOne, NoOne))
        /\ UNCHANGED <<now, online, since, owner, pending, ready, departed, wronged>>
    BY <1>6 DEF Arrive
  <2> QED BY <1>t, <2>1, QueuedCounts DEF PresenceTypeOK
<1>7. ASSUME NEW a \in Agents, Disconnect(a) \/ Detach(a) PROVE Goal
  <2>1. /\ a \in online /\ online' = online \ {a}
        /\ departed' = [departed EXCEPT ![a] = now]
        /\ since' \in {since, [since EXCEPT ![a] = now]}
        /\ UNCHANGED <<now, owner, queue, pending, ready, wronged>>
    BY <1>7 DEF Disconnect, Detach
  <2>2. now \in Nat /\ since[a] = NoStamp
    BY <1>t, <2>1 DEF StampInv, PresenceTypeOK
  <2>3. \A i \in 1..Len(queue') : Counts(queue'[i], now', departed')
    <3>1. /\ departed' \in [Agents -> Nat \cup {Here}]
          /\ \A b \in Agents : departed'[b] \in {departed[b], Here, now}
          /\ now' \in Nat /\ now <= now'
      BY <1>t, <2>1, <2>2 DEF PresenceTypeOK
    <3> QED BY <2>1, <3>1, WaitingCounts
  <2>4. PresenceTypeOK'
    BY <1>t, <2>1, <2>2 DEF PresenceTypeOK
  <2>5. /\ \A b \in online' : since'[b] = NoStamp
        /\ \A b \in Agents : since'[b] # NoStamp => departed'[b] = since'[b]
    BY <1>t, <2>1, <2>2 DEF StampInv, PresenceTypeOK
  <2> QED BY <2>1, <2>3, <2>4, <2>5 DEF StampInv
<1>8. ASSUME NEW a \in Agents, NEW t \in Tasks, Attempt(a, t) PROVE Goal
  <2>1. UNCHANGED <<now, online, since, owner, pending, departed, wronged>>
    BY <1>8 DEF Attempt
  <2>2. CASE Abandoned(owner, online, now) = {}
    <3>1. queue' = queue /\ ready' = ready \cup {[agent |-> a, task |-> t]}
      BY <1>8, <2>2 DEF Attempt
    <3> QED BY <1>t, <2>1, <3>1 DEF StampInv, PresenceTypeOK
  <2>3. CASE Abandoned(owner, online, now) # {}
    <3>1. Enqueue(Job("sweep", a, t, NoOne)) /\ ready' = ready
      BY <1>8, <2>3 DEF Attempt
    <3> QED BY <1>t, <2>1, <3>1, QueuedCounts DEF PresenceTypeOK
  <2> QED BY <2>2, <2>3
<1>9. ASSUME NEW a \in Agents, NEW to \in Agents, NEW t \in Tasks, HandOff(a, t, to)
      PROVE  Goal
  <2>1. /\ Enqueue(Job("handoff", a, t, to))
        /\ UNCHANGED <<now, online, since, owner, pending, ready, departed, wronged>>
    BY <1>9 DEF HandOff
  <2> QED BY <1>t, <2>1, QueuedCounts DEF PresenceTypeOK
<1>10. CASE UNCHANGED presenceVars
  BY <1>10, <1>t DEF presenceVars, StampInv, PresenceTypeOK
<1> QED
  <2>1. Recipients \subseteq Agents
    BY DEF PresenceAssumption
  <2> QED BY <1>1, <1>2, <1>3, <1>4, <1>5, <1>6, <1>7, <1>8, <1>9, <1>10, <2>1
          DEF PresenceNext

\* A fresh hub: nobody is stamped and no frame waits.
LEMMA StampInit == PresenceAssumption /\ PresenceInit => StampInv
  BY DEF PresenceAssumption, PresenceInit, StampInv, PresenceTypeOK, Here, NoStamp

\* The presence records keep their shape, with a journal or without.
THEOREM PresenceTyped == PresenceAssumption /\ PresenceSpec => []PresenceTypeOK
<1> SUFFICES ASSUME PresenceAssumption PROVE PresenceSpec => []PresenceTypeOK
  OBVIOUS
<1>1. StampInv => PresenceTypeOK
  BY DEF StampInv
<1> QED BY <1>1, StampInit, StampStep, PTL DEF PresenceSpec

\* INV-CR-5 with a journal: no stamp is stale when a sweep reads it, whatever
\* waited for the actor; a holder released inside its window carries none.
THEOREM StampsHold == PresenceAssumption /\ PresenceSpec => StampsNeverStale
<1> SUFFICES ASSUME PresenceAssumption PROVE PresenceSpec => StampsNeverStale
  OBVIOUS
<1>1. StampInv /\ [PresenceNext]_presenceVars
        => [\A a \in wronged' \ wronged : since[a] = NoStamp]_presenceVars
  BY StampStep
<1> QED BY <1>1, StampInit, StampStep, PTL DEF PresenceSpec, StampsNeverStale

\* Without handoffs a frame that waits only ever gives a claim to its sender,
\* and whoever sent one that could is present.
Attended(j) ==
    /\ j.kind # "handoff"
    /\ j.kind # "arrive" => j.agent \in online

\* A holder that is away left when its stamp says, or was never here; that
\* stays so because whatever waits can hand a claim to nobody who is away.
AwayInv ==
    /\ StampInv /\ Stamped
    /\ \A j \in Jobs, i \in 1..Len(queue) : j = queue[i] => Attended(j)
    /\ pending # NoOne =>
          /\ pending.job.agent \in online
          /\ \A t \in Tasks : pending.owner[t] \in {owner[t], NoOne, pending.job.agent}
    /\ \A x \in ready : x.agent \in online

\* A frame of an agent that is present waits like the others.
LEMMA AttendedQueue ==
  ASSUME AwayInv, StampInv', NEW kind \in {"arrive", "sweep", "claim"}, NEW a \in Agents,
         NEW t \in Tasks \cup {NoOne}, kind # "arrive" => a \in online,
         Enqueue(Job(kind, a, t, NoOne)),
         UNCHANGED <<now, online, since, owner, pending, departed, wronged>>,
         ready' \subseteq ready
  PROVE  AwayInv'
<1>1. PICK j \in Jobs : j = Job(kind, a, t, NoOne)
  BY DEF Job, Jobs, AwayInv, StampInv, PresenceTypeOK
<1>2. queue' = Append(queue, j) /\ queue \in Seq(Jobs)
  BY <1>1 DEF Enqueue, AwayInv, StampInv, PresenceTypeOK
<1>3. j.kind = kind /\ j.agent = a
  BY <1>1 DEF Job
<1>4. \A i \in 1..Len(queue') : queue'[i] = j \/ (i \in 1..Len(queue) /\ queue'[i] = queue[i])
  BY <1>2
<1>5. \A x \in Jobs, i \in 1..Len(queue') : x = queue'[i] => Attended(x)'
  <2>1. \A x \in Jobs : Attended(x) => Attended(x)'
    BY DEF Attended
  <2>2. Attended(j)
    BY <1>3 DEF Attended
  <2> QED BY <1>4, <2>1, <2>2 DEF AwayInv
<1> QED BY <1>5 DEF AwayInv, Stamped

\* A sweep releases nobody who is away before its window is over.
LEMMA AwayNotWronged ==
  ASSUME PresenceAssumption, AwayInv, NEW j \in Jobs, Counts(j, now, departed)
  PROVE  WrongedBy(j) \subseteq online
<1> SUFFICES ASSUME NEW a \in WrongedBy(j), a \notin online PROVE FALSE
  OBVIOUS
<1>1. a \in Agents /\ since[a] = NoStamp /\ departed[a] # 0
  BY StampedNotWronged DEF AwayInv
<1>2. \E t \in Tasks : owner[t] = a
  BY DEF WrongedBy, Abandoned
<1> QED BY <1>1, <1>2 DEF AwayInv, Stamped

\* A mutation that runs leaves or moves claims to who is present.
LEMMA AwayMutation ==
  ASSUME PresenceAssumption, AwayInv, StampInv', RunMutation
  PROVE  AwayInv' /\ wronged' \ wronged \subseteq online
<1> DEFINE j == Head(queue)
<1>1. /\ j \in Jobs /\ Counts(j, now, departed) /\ j.task \in Tasks /\ j.kind # "arrive"
      /\ queue # <<>> /\ queue \in Seq(Jobs) /\ owner \in [Tasks -> Agents \cup {NoOne}]
  BY MutationTyped DEF AwayInv, StampInv, RunMutation, PresenceTypeOK
<1>2. /\ queue' = Tail(queue) /\ wronged' = wronged \cup WrongedBy(j)
      /\ UNCHANGED <<now, online, since, departed>> /\ pending = NoOne
      /\ \/ /\ pending' = [job |-> j, owner |-> Mutate(j)] /\ UNCHANGED <<owner, ready>>
         \/ /\ owner' = Mutate(j) /\ ready' = ready \cup Resumed(j) /\ UNCHANGED pending
  BY DEF RunMutation
<1>3. Attended(j)
  <2>1. 1 \in 1..Len(queue) /\ j = queue[1]
    BY <1>1
  <2> QED BY <1>1, <2>1 DEF AwayInv
<1>4. \A i \in 1..Len(queue') : i + 1 \in 1..Len(queue) /\ queue'[i] = queue[i + 1]
  BY <1>1, <1>2
<1> HIDE DEF j
<1>5. j.agent \in online /\ j.kind \in {"sweep", "claim"}
  BY <1>1, <1>3 DEF Attended, Jobs
<1>6. \A t \in Tasks : Mutate(j)[t] \in {owner[t], NoOne, j.agent}
  <2>1. CASE j.kind = "sweep"
    BY <2>1 DEF Mutate
  <2>2. CASE j.kind = "claim"
    BY <1>1, <2>2 DEF Mutate
  <2> QED BY <1>5, <2>1, <2>2
<1>7. \A x \in Jobs, i \in 1..Len(queue') : x = queue'[i] => Attended(x)'
  <2>1. \A x \in Jobs : Attended(x) => Attended(x)'
    BY <1>2 DEF Attended
  <2> QED BY <1>4, <2>1 DEF AwayInv
<1>8. wronged' \ wronged \subseteq online
  BY <1>1, <1>2, AwayNotWronged
<1>9. CASE pending' = [job |-> j, owner |-> Mutate(j)] /\ UNCHANGED <<owner, ready>>
  BY <1>2, <1>5, <1>6, <1>7, <1>8, <1>9 DEF AwayInv, Stamped
<1>10. CASE owner' = Mutate(j) /\ ready' = ready \cup Resumed(j) /\ UNCHANGED pending
  <2>1. ASSUME NEW a \in Agents \ online, NEW t \in Tasks, owner'[t] = a PROVE owner[t] = a
    BY <1>5, <1>6, <1>10, <2>1 DEF PresenceAssumption
  <2>2. Stamped'
    BY <1>2, <2>1 DEF AwayInv, Stamped
  <2>3. \A x \in ready' : x.agent \in online
    BY <1>5, <1>10 DEF Resumed, AwayInv
  <2> QED BY <1>2, <1>7, <1>8, <1>10, <2>2, <2>3 DEF AwayInv
<1> QED BY <1>2, <1>9, <1>10

\* Each step of a hub on which claims are not handed to others nor names revoked.
LEMMA AwayStep ==
  ASSUME PresenceAssumption, ~Detaches, Recipients = {}, AwayInv, StampInv',
         [PresenceNext]_presenceVars
  PROVE  AwayInv' /\ wronged' \ wronged \subseteq online
<1> DEFINE Goal == AwayInv' /\ wronged' \ wronged \subseteq online
<1>t. PresenceTypeOK /\ StampInv /\ Stamped
  BY DEF AwayInv, StampInv
<1>a. ASSUME online' = online, queue' = queue
      PROVE  \A x \in Jobs, i \in 1..Len(queue') : x = queue'[i] => Attended(x)'
  BY <1>a DEF AwayInv, Attended
<1>1. CASE Advance
  <2>1. UNCHANGED <<online, since, owner, queue, pending, ready, departed, wronged>>
    BY <1>1 DEF Advance
  <2> QED BY <1>a, <2>1 DEF AwayInv, Stamped
<1>2. CASE Claim
  <2>1. PICK x \in ready :
            /\ Enqueue(Job("claim", x.agent, x.task, NoOne)) /\ ready' = ready \ {x}
            /\ UNCHANGED <<now, online, since, owner, pending, departed, wronged>>
    BY <1>2 DEF Claim
  <2>2. x.agent \in Agents /\ x.task \in Tasks /\ x.agent \in online
    BY <1>t DEF PresenceTypeOK, AwayInv
  <2> QED BY <2>1, <2>2, AttendedQueue
<1>3. CASE RunArrival
  <2> DEFINE b == Head(queue).agent
  <2>1. /\ queue # <<>> /\ queue \in Seq(Jobs) /\ pending = NoOne /\ queue' = Tail(queue)
        /\ online' = online \cup {b} /\ since' = [since EXCEPT ![b] = NoStamp]
        /\ departed' = [departed EXCEPT ![b] = Here]
        /\ UNCHANGED <<now, owner, pending, ready, wronged>>
    BY <1>3, <1>t DEF RunArrival, PresenceTypeOK
  <2>2. \A i \in 1..Len(queue') : i + 1 \in 1..Len(queue) /\ queue'[i] = queue[i + 1]
    BY <2>1
  <2>3. b \in Agents
    <3>1. Head(queue) \in Jobs
      BY <2>1
    <3> QED BY <3>1 DEF Jobs
  <2> HIDE DEF b
  <2>4. \A x \in Jobs, i \in 1..Len(queue') : x = queue'[i] => Attended(x)'
    <3>1. \A x \in Jobs : Attended(x) => Attended(x)'
      BY <2>1 DEF Attended
    <3> QED BY <2>2, <3>1 DEF AwayInv
  <2>5. Stamped'
    BY <1>t, <2>1, <2>3 DEF Stamped, PresenceTypeOK, Here, NoStamp
  <2> QED BY <2>1, <2>4, <2>5 DEF AwayInv
<1>4. CASE RunMutation
  BY <1>4, AwayMutation
<1>5. CASE Publish
  <2>1. /\ pending # NoOne /\ owner' = pending.owner /\ pending' = NoOne
        /\ ready' = ready \cup Resumed(pending.job)
        /\ UNCHANGED <<now, online, since, queue, departed, wronged>>
    BY <1>5 DEF Publish
  <2>2. ASSUME NEW a \in Agents \ online, NEW t \in Tasks, owner'[t] = a PROVE owner[t] = a
    BY <2>1, <2>2 DEF AwayInv, PresenceAssumption
  <2>3. Stamped'
    BY <1>t, <2>1, <2>2 DEF Stamped
  <2>4. \A x \in ready' : x.agent \in online
    BY <2>1 DEF Resumed, AwayInv
  <2> QED BY <1>a, <2>1, <2>3, <2>4 DEF AwayInv
<1>6. ASSUME NEW a \in Agents, Arrive(a) PROVE Goal
  <2>1. /\ Enqueue(Job("arrive", a, NoOne, NoOne))
        /\ UNCHANGED <<now, online, since, owner, pending, ready, departed, wronged>>
    BY <1>6 DEF Arrive
  <2> QED BY <2>1, AttendedQueue
<1>7. ASSUME NEW a \in Agents, Disconnect(a) PROVE Goal
  <2>1. /\ ~Busy(a) /\ a \in online /\ online' = online \ {a}
        /\ departed' = [departed EXCEPT ![a] = now]
        /\ since' = IF since[a] = NoStamp /\ \E t \in Tasks : owner[t] = a
                    THEN [since EXCEPT ![a] = now] ELSE since
        /\ UNCHANGED <<now, owner, queue, pending, ready, wronged>>
    BY <1>7 DEF Disconnect
  <2>2. /\ since[a] = NoStamp /\ now \in Nat
        /\ since' = IF \E t \in Tasks : owner[t] = a THEN [since EXCEPT ![a] = now] ELSE since
    BY <1>t, <2>1 DEF Stamped, PresenceTypeOK
  <2>3. Stamped'
    BY <1>t, <2>1, <2>2 DEF Stamped, PresenceTypeOK, Here, NoStamp
  <2>4. \A x \in Jobs, i \in 1..Len(queue') : x = queue'[i] => Attended(x)'
    <3>1. ASSUME NEW x \in Jobs, NEW i \in 1..Len(queue), x = queue[i] PROVE Attended(x)'
      <4>1. Attended(x) /\ x.agent # a
        BY <2>1, <3>1 DEF AwayInv, Busy
      <4> QED BY <2>1, <4>1 DEF Attended
    <3> QED BY <2>1, <3>1
  <2>5. /\ pending # NoOne => pending.job.agent # a
        /\ \A x \in ready : x.agent # a
    BY <2>1 DEF Busy
  <2> QED BY <2>1, <2>3, <2>4, <2>5 DEF AwayInv
<1>8. ASSUME NEW a \in Agents, NEW t \in Tasks, Attempt(a, t) PROVE Goal
  <2>1. a \in online /\ UNCHANGED <<now, online, since, owner, pending, departed, wronged>>
    BY <1>8 DEF Attempt
  <2>2. CASE Abandoned(owner, online, now) = {}
    <3>1. queue' = queue /\ ready' = ready \cup {[agent |-> a, task |-> t]}
      BY <1>8, <2>2 DEF Attempt
    <3> QED BY <1>a, <2>1, <3>1 DEF AwayInv, Stamped
  <2>3. CASE Abandoned(owner, online, now) # {}
    <3>1. Enqueue(Job("sweep", a, t, NoOne)) /\ ready' = ready
      BY <1>8, <2>3 DEF Attempt
    <3> QED BY <2>1, <3>1, AttendedQueue
  <2> QED BY <2>2, <2>3
<1>9. CASE UNCHANGED presenceVars
  <2>1. UNCHANGED <<now, online, since, owner, queue, pending, ready, departed, wronged>>
    BY <1>9 DEF presenceVars
  <2> QED BY <1>a, <2>1 DEF AwayInv, Stamped
<1>10. ASSUME NEW a \in Agents, Detach(a) PROVE Goal
  BY <1>10 DEF Detach
<1> QED BY <1>1, <1>2, <1>3, <1>4, <1>5, <1>6, <1>7, <1>8, <1>9, <1>10 DEF PresenceNext

\* INV-CR-5 with a journal, where claims are not handed over and names not
\* revoked: whatever waits behind an append, only a holder that came back while
\* a sweep waited is released inside its window, which `return_race` shows.
THEOREM AwayHoldersKeepWindow ==
  ASSUME ~Detaches, Recipients = {}
  PROVE  PresenceAssumption /\ PresenceSpec => AwayKeepWindow
<1> SUFFICES ASSUME PresenceAssumption PROVE PresenceSpec => AwayKeepWindow
  OBVIOUS
<1>1. PresenceInit => AwayInv
  BY StampInit DEF PresenceInit, AwayInv, Stamped, Here, NoStamp
<1>2. AwayInv => StampInv
  BY DEF AwayInv
<1>3. AwayInv /\ [PresenceNext]_presenceVars
        => AwayInv' /\ [wronged' \ wronged \subseteq online]_presenceVars
  BY <1>2, StampStep, AwayStep
<1> QED BY <1>1, <1>3, PTL DEF PresenceSpec, AwayKeepWindow

-----------------------------------------------------------------------------
(* Takeovers.                                                              *)

\* The evictions, in the order of the clock.
InOrder ==
    /\ \A i, j \in 1..Len(evictions) : i <= j => evictions[i] <= evictions[j]
    /\ \A i \in 1..Len(evictions) : evictions[i] <= clock

\* A list of stamps is that of the last evictions, and fewer than the threshold.
Latest(times) ==
    /\ times \in Seq(Nat) /\ Len(times) <= Len(evictions) /\ Len(times) < Threshold
    /\ \A j \in 1..Len(times) : times[j] = evictions[Len(evictions) - Len(times) + j]

\* The evictions a list leaves out are out of the window from some instant on.
SpentBefore(times, instant) ==
    \A k \in 1..(Len(evictions) - Len(times)) : evictions[k] + Window < instant

\* Threshold evictions in a row take longer than the window.
Spread ==
    \A k \in 1..Len(evictions) : k + Threshold - 1 <= Len(evictions) =>
        evictions[k] + Window < evictions[k + Threshold - 1]

DampingInv ==
    /\ clock \in Nat /\ quarantineUntil \in Nat \cup {Unset}
    /\ evictions \in Seq(Nat) /\ InOrder /\ Spread
    /\ Latest(takeoverTimes)
    /\ quarantineUntil = Unset => SpentBefore(takeoverTimes, clock)
    /\ quarantineUntil # Unset =>
          takeoverTimes = <<>> /\ SpentBefore(takeoverTimes, quarantineUntil)

\* Past a quarantine the name starts anew, and nothing that counts is forgotten.
LEMMA FreshCounts ==
  ASSUME DampingAssumption, DampingInv, ~Quarantined
  PROVE  Latest(Fresh) /\ SpentBefore(Fresh, clock)
<1>1. CASE quarantineUntil = Unset
  BY <1>1 DEF Fresh, DampingInv
<1>2. CASE quarantineUntil # Unset
  <2>1. Fresh = takeoverTimes /\ quarantineUntil \in Nat /\ quarantineUntil <= clock
    BY <1>2 DEF Fresh, DampingInv, Quarantined
  <2> QED BY <1>2, <2>1 DEF DampingInv, SpentBefore, DampingAssumption
<1> QED BY <1>1, <1>2

\* A set of naturals has a least member.
LEMMA LeastExists ==
  ASSUME NEW S \in SUBSET Nat, S # {}
  PROVE  \E x \in S : \A y \in S : x <= y
<1> DEFINE R == {ss \in Nat \X Nat : ss[1] < ss[2]}
<1>1. IsWellFoundedOn(R, Nat)
  BY NatLessThanWellFounded DEF OpToRel
<1>2. PICK x \in S : \A y \in S : <<y, x>> \notin R
  <2> HIDE DEF R
  <2> QED BY <1>1, WFMin
<1>3. \A y \in S : ~(y < x)
  BY <1>2
<1> QED BY <1>3

\* A cutoff keeps the stamps from the first one it does not reach.
LEMMA KeptIsSuffix ==
  ASSUME NEW cutoff \in Int, Fresh \in Seq(Nat)
  PROVE  /\ KeptFrom(cutoff) \in 1..(Len(Fresh) + 1)
         /\ \A i \in 1..(KeptFrom(cutoff) - 1) : Fresh[i] < cutoff
<1> DEFINE n == Len(Fresh) + 1
           S == {k \in 1..n : k <= Len(Fresh) => Fresh[k] >= cutoff}
<1>1. Len(Fresh) \in Nat /\ \A i \in 1..Len(Fresh) : Fresh[i] \in Nat
  BY LenProperties
<1>2. S \subseteq Nat /\ n \in S
  BY <1>1
<1>3. PICK k \in S : \A y \in S : k <= y
  <2> HIDE DEF S
  <2> QED BY <1>2, LeastExists
<1>4. ASSUME NEW i \in 1..(k - 1) PROVE Fresh[i] < cutoff
  <2>1. i \in 1..Len(Fresh) /\ ~(k <= i) /\ i \in 1..n
    BY <1>1, <1>3
  <2>2. i \notin S
    BY <1>3, <2>1
  <2> QED BY <1>1, <2>1, <2>2
<1>5. \E x \in 1..(Len(Fresh) + 1) :
          /\ \A i \in 1..(x - 1) : Fresh[i] < cutoff
          /\ x <= Len(Fresh) => Fresh[x] >= cutoff
  BY <1>3, <1>4
<1> QED BY <1>5 DEF KeptFrom

\* An eviction leaves those before the window behind and spreads the others.
LEMMA AcceptDamped ==
  ASSUME DampingAssumption, DampingInv, AcceptTakeover
  PROVE  DampingInv'
<1> DEFINE n == Len(evictions)
           L == Len(Fresh)
           k == KeptFrom(clock - Window)
<1>1. Latest(Fresh) /\ SpentBefore(Fresh, clock)
  BY FreshCounts DEF AcceptTakeover
<1>2. /\ clock \in Nat /\ clock - Window \in Int /\ Threshold \in Nat /\ Threshold >= 2
      /\ Window \in Nat
  BY DEF DampingInv, DampingAssumption
<1>3. /\ evictions \in Seq(Nat) /\ n \in Nat /\ \A i \in 1..n : evictions[i] \in Nat
      /\ Fresh \in Seq(Nat) /\ L \in Nat /\ L <= n /\ \A i \in 1..L : Fresh[i] \in Nat
      /\ \A j \in 1..L : Fresh[j] = evictions[n - L + j]
  BY <1>1, LenProperties DEF DampingInv, Latest
<1>4. k \in 1..(L + 1) /\ \A i \in 1..(k - 1) : Fresh[i] < clock - Window
  BY <1>2, <1>3, KeptIsSuffix
<1> DEFINE s == SubSeq(Fresh, k, L)
<1>5. /\ s \in Seq(Nat) /\ Len(s) = L - k + 1
      /\ \A j \in 1..(L - k + 1) : s[j] = Fresh[k + j - 1]
  <2> HIDE DEF n, L, k
  <2>1. L \in Int /\ k \in Int /\ k <= L + 1 /\ \A i \in k..L : Fresh[i] \in Nat
    BY <1>3, <1>4
  <2>2. /\ s \in Seq(Nat)
        /\ Len(s) = IF k <= L THEN L - k + 1 ELSE 0
        /\ \A i \in 1..(L - k + 1) : s[i] = Fresh[k + i - 1]
    BY <2>1, SubSeqProperties
  <2> QED BY <1>3, <2>1, <2>2
<1>6. /\ takeoverTimes' = Append(s, clock) /\ Len(Append(s, clock)) < Threshold
      /\ evictions' = Append(evictions, clock)
      /\ quarantineUntil' = Unset /\ clock' = clock
  BY DEF AcceptTakeover, Recent, Kept
<1> HIDE DEF n, L, k, s
<1>7. /\ takeoverTimes' \in Seq(Nat) /\ Len(takeoverTimes') = L - k + 2
      /\ \A j \in 1..(L - k + 1) : takeoverTimes'[j] = Fresh[k + j - 1]
      /\ takeoverTimes'[L - k + 2] = clock
  <2>1. /\ Append(s, clock) \in Seq(Nat) /\ Len(Append(s, clock)) = Len(s) + 1
        /\ \A j \in 1..Len(s) : Append(s, clock)[j] = s[j]
        /\ Append(s, clock)[Len(s) + 1] = clock
    BY <1>2, <1>5, AppendProperties
  <2>2. Len(s) + 1 = L - k + 2
    BY <1>3, <1>4, <1>5
  <2> QED BY <1>5, <1>6, <2>1, <2>2
<1>8. /\ evictions' \in Seq(Nat) /\ Len(evictions') = n + 1
      /\ \A i \in 1..n : evictions'[i] = evictions[i]
      /\ evictions'[n + 1] = clock
  BY <1>2, <1>3, <1>6, AppendProperties DEF n
<1>9. InOrder'
  <2>1. /\ \A i, j \in 1..n : i <= j => evictions[i] <= evictions[j]
        /\ \A i \in 1..n : evictions[i] <= clock
    BY DEF DampingInv, InOrder, n
  <2> QED BY <1>2, <1>3, <1>6, <1>8, <2>1 DEF InOrder
<1>10. L - k + 2 < Threshold /\ L - k + 2 <= n + 1
  BY <1>3, <1>4, <1>6, <1>7
<1>11. Latest(takeoverTimes)'
  <2>1. ASSUME NEW j \in 1..(L - k + 2)
        PROVE  takeoverTimes'[j] = evictions'[(n + 1) - (L - k + 2) + j]
    <3>1. CASE j = L - k + 2
      <4>1. (n + 1) - (L - k + 2) + j = n + 1
        BY <1>3, <1>4, <3>1
      <4> QED BY <1>7, <1>8, <3>1, <4>1
    <3>2. CASE j # L - k + 2
      <4>1. j \in 1..(L - k + 1) /\ k + j - 1 \in 1..L
        BY <1>3, <1>4, <3>2
      <4>2. (n + 1) - (L - k + 2) + j = n - L + (k + j - 1) /\ n - L + (k + j - 1) \in 1..n
        BY <1>3, <1>4, <4>1
      <4>3. evictions'[n - L + (k + j - 1)] = Fresh[k + j - 1]
        BY <1>3, <1>8, <4>1, <4>2
      <4> QED BY <1>7, <4>1, <4>2, <4>3
    <3> QED BY <3>1, <3>2
  <2> QED BY <1>7, <1>8, <1>10, <2>1 DEF Latest
<1>12. SpentBefore(takeoverTimes, clock)'
  <2> SUFFICES ASSUME NEW p \in 1..((n + 1) - (L - k + 2))
               PROVE  evictions'[p] + Window < clock
    BY <1>6, <1>7, <1>8 DEF SpentBefore
  <2>1. p \in 1..n
    BY <1>3, <1>4
  <2>2. CASE p \in 1..(n - L)
    <3>1. evictions[p] + Window < clock
      BY <1>1, <2>2 DEF SpentBefore, n, L
    <3> QED BY <1>8, <2>1, <3>1
  <2>3. CASE p \notin 1..(n - L)
    <3>1. PICK i \in 1..(k - 1) : p = n - L + i /\ i \in 1..L
      <4>1. p - (n - L) \in 1..(k - 1) /\ p = n - L + (p - (n - L)) /\ p - (n - L) \in 1..L
        BY <1>3, <1>4, <2>1, <2>3
      <4> QED BY <4>1
    <3>2. evictions[p] = Fresh[i] /\ Fresh[i] < clock - Window /\ Fresh[i] \in Nat
      BY <1>3, <1>4, <3>1
    <3> QED BY <1>2, <1>8, <2>1, <3>2
  <2> QED BY <2>2, <2>3
<1>13. Spread'
  <2> SUFFICES ASSUME NEW p \in 1..(n + 1), p + Threshold - 1 <= n + 1
               PROVE  evictions'[p] + Window < evictions'[p + Threshold - 1]
    BY <1>8 DEF Spread
  <2>1. p \in 1..n
    BY <1>2, <1>3
  <2>2. CASE p + Threshold - 1 <= n
    <3>1. p + Threshold - 1 \in 1..n
      BY <1>2, <1>3, <2>2
    <3>2. evictions[p] + Window < evictions[p + Threshold - 1]
      BY <2>1, <2>2 DEF DampingInv, Spread, n
    <3> QED BY <1>8, <2>1, <3>1, <3>2
  <2>3. CASE p + Threshold - 1 = n + 1
    <3>1. p \in 1..((n + 1) - (L - k + 2))
      BY <1>2, <1>3, <1>4, <1>10, <2>3
    <3>2. evictions'[p] + Window < clock
      BY <1>6, <1>7, <1>8, <1>12, <3>1 DEF SpentBefore
    <3> QED BY <1>8, <2>3, <3>2
  <2> QED BY <1>2, <1>3, <2>2, <2>3
<1> QED BY <1>2, <1>6, <1>8, <1>9, <1>11, <1>12, <1>13 DEF DampingInv

\* Each verdict on a takeover, and the clock.
LEMMA DampingStep ==
  ASSUME DampingAssumption, Quarantine > Window, DampingInv, [DampingNext]_dampingVars
  PROVE  DampingInv'
<1>1. CASE ClockTicks
  <2>1. /\ clock' = clock + 1 /\ clock \in Nat
        /\ UNCHANGED <<takeoverTimes, quarantineUntil, evictions>>
    BY <1>1 DEF ClockTicks, tables, DampingInv
  <2>2. /\ Len(evictions) \in Nat /\ \A i \in 1..Len(evictions) : evictions[i] \in Nat
        /\ Window \in Nat /\ Len(takeoverTimes) \in Nat
    BY LenProperties DEF DampingInv, DampingAssumption, Latest
  <2>3. InOrder'
    BY <2>1, <2>2 DEF DampingInv, InOrder
  <2>4. SpentBefore(takeoverTimes, clock) => SpentBefore(takeoverTimes, clock)'
    BY <2>1, <2>2 DEF SpentBefore
  <2>5. Latest(takeoverTimes)' /\ Spread'
    BY <2>1 DEF DampingInv, Latest, Spread
  <2>6. SpentBefore(takeoverTimes, quarantineUntil) => SpentBefore(takeoverTimes, quarantineUntil)'
    BY <2>1 DEF SpentBefore
  <2> QED BY <2>1, <2>3, <2>4, <2>5, <2>6 DEF DampingInv
<1>2. CASE RefuseTooSoon
  <2>1. Latest(Fresh) /\ SpentBefore(Fresh, clock)
    BY <1>2, FreshCounts DEF RefuseTooSoon
  <2> QED BY <1>2, <2>1 DEF RefuseTooSoon, DampingInv, InOrder, Spread, Latest, SpentBefore
<1>3. CASE EnterQuarantine
  <2>1. /\ takeoverTimes' = <<>> /\ quarantineUntil' = clock + Quarantine
        /\ quarantineUntil' \in Nat /\ quarantineUntil' # Unset
        /\ UNCHANGED <<clock, evictions>>
    BY <1>3 DEF EnterQuarantine, DampingInv, DampingAssumption
  <2>2. Len(evictions) \in Nat /\ \A i \in 1..Len(evictions) : evictions[i] \in Nat
    BY LenProperties DEF DampingInv
  <2>3. SpentBefore(takeoverTimes, quarantineUntil)'
    BY <2>1, <2>2 DEF DampingInv, InOrder, SpentBefore, DampingAssumption
  <2>4. Latest(takeoverTimes)'
    BY <2>1, <2>2 DEF Latest, DampingAssumption
  <2> QED BY <2>1, <2>3, <2>4 DEF DampingInv, InOrder, Spread
<1>4. CASE AcceptTakeover
  BY <1>4, AcceptDamped
<1>5. CASE UNCHANGED dampingVars
  BY <1>5 DEF dampingVars, tables, DampingInv, InOrder, Spread, Latest, SpentBefore
<1> QED BY <1>1, <1>2, <1>3, <1>4, <1>5 DEF DampingNext

\* The evictions of a stretch as long as the window begin with a first one, and
\* the Threshold-th from there is out of it.
LEMMA SpreadBounds ==
  ASSUME DampingAssumption, DampingInv
  PROVE  EvictionsBounded
<1> SUFFICES ASSUME NEW i \in DOMAIN evictions
    PROVE  Cardinality({k \in DOMAIN evictions :
              evictions[i] <= evictions[k] /\ evictions[k] <= evictions[i] + Window}) < Threshold
  BY DEF EvictionsBounded
<1> DEFINE n == Len(evictions)
           S == {k \in 1..n : evictions[i] <= evictions[k] /\ evictions[k] <= evictions[i] + Window}
<1>1. /\ n \in Nat /\ DOMAIN evictions = 1..n /\ \A k \in 1..n : evictions[k] \in Nat
      /\ Window \in Nat /\ Threshold \in Nat /\ Threshold >= 2
  BY LenProperties DEF DampingInv, DampingAssumption
<1>2. i \in S /\ S \subseteq Nat
  BY <1>1
<1>4. PICK m \in S : \A y \in S : m <= y
  <2> HIDE DEF S
  <2> QED BY <1>2, LeastExists
<1>5. evictions[m] = evictions[i]
  <2>1. m <= i
    BY <1>2, <1>4
  <2> QED BY <1>1, <1>2, <2>1 DEF DampingInv, InOrder
<1>6. S \subseteq m..(m + Threshold - 2)
  <2> SUFFICES ASSUME NEW y \in S, y >= m + Threshold - 1 PROVE FALSE
    BY <1>1, <1>4
  <2>1. m + Threshold - 1 \in 1..n
    BY <1>1
  <2>2. evictions[m] + Window < evictions[m + Threshold - 1]
    BY <2>1 DEF DampingInv, Spread
  <2>3. evictions[m + Threshold - 1] <= evictions[y]
    BY <2>1 DEF DampingInv, InOrder
  <2> QED BY <1>1, <1>5, <2>1, <2>2, <2>3
<1>7. /\ IsFiniteSet(m..(m + Threshold - 2))
      /\ Cardinality(m..(m + Threshold - 2)) = Threshold - 1
  <2>1. m \in Int /\ m + Threshold - 2 \in Int /\ m <= m + Threshold - 2
    BY <1>1
  <2>2. /\ IsFiniteSet(m..(m + Threshold - 2))
        /\ Cardinality(m..(m + Threshold - 2)) = (m + Threshold - 2) - m + 1
    BY <2>1, FS_Interval
  <2> QED BY <1>1, <2>2
<1>8. Cardinality(S) <= Threshold - 1 /\ Cardinality(S) \in Nat
  <2> HIDE DEF S
  <2> QED BY <1>6, <1>7, FS_Subset, FS_CardinalityType
<1>9. S = {k \in DOMAIN evictions :
             evictions[i] <= evictions[k] /\ evictions[k] <= evictions[i] + Window}
  BY <1>1
<1>10. Cardinality(S) < Threshold
  <2> HIDE DEF S
  <2> QED BY <1>1, <1>8
<1> HIDE DEF S
<1> QED BY <1>9, <1>10

\* A war over a name is damped: a stretch of time as long as the window sees
\* fewer evictions than the threshold, whatever the cooldown, and across
\* quarantines that lapsed in between (_classify_takeover).
THEOREM WarsAreDamped == DampingAssumption /\ DampingSpec => []EvictionsBounded
<1> SUFFICES ASSUME DampingAssumption PROVE DampingSpec => []EvictionsBounded
  OBVIOUS
<1>1. CASE Quarantine > Window
  <2>1. DampingInit => DampingInv
    BY DEF DampingInit, DampingInv, DampingAssumption, InOrder, Spread, Latest, SpentBefore
  <2>2. DampingInv /\ [DampingNext]_dampingVars => DampingInv'
    BY <1>1, DampingStep
  <2>3. DampingInv => EvictionsBounded
    BY SpreadBounds
  <2> QED BY <2>1, <2>2, <2>3, PTL DEF DampingSpec
<1>2. CASE ~(Quarantine > Window)
  <2>1. EvictionsBounded
    BY <1>2 DEF EvictionsBounded
  <2> QED BY <2>1, PTL
<1> QED BY <1>1, <1>2
=============================================================================
