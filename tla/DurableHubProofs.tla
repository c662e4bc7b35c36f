-------------------------- MODULE DurableHubProofs --------------------------
(***************************************************************************)
(* What a hub with a journal keeps through append windows, failed appends,   *)
(* crashes, replays and compactions, for every instance of DurableHub.       *)
(* HubInv holds whatever the clock and the appends do.  MirrorInv, that the  *)
(* journal restores the registry, needs a clock that never steps back.       *)
(***************************************************************************)
EXTENDS DurableHub, SynapseStateProofs, WellFoundedInduction

\* Rows are numbered apart and in the order they were appended.
RowsNumbered ==
    /\ \A r \in journal : r.seq \in 1..lastSeq
    /\ \A r, q \in journal : r.seq = q.seq => r = q
    /\ doomed \subseteq 1..lastSeq

\* A claim as a granted request left it: minted, and anchored no later.
Minted(c) == c.epoch \in Nat \ {0} /\ c.ownershipEpoch \in 1..c.epoch

\* An event that carries the claim its request left: a checkpoint always does.
Carries(e) ==
    /\ e.claim # NoClaim => Minted(e.claim)
    /\ e.kind = "checkpoint" => e.claim # NoClaim

\* The later of two rows of one task names the younger generation.
RowsOrdered ==
    /\ \A r \in journal : Carries(r.event)
    /\ \A r, q \in journal :
          /\ r.event.task = q.event.task /\ r.seq < q.seq
          /\ r.event.claim # NoClaim /\ q.event.claim # NoClaim
          => r.event.claim.epoch <= q.event.claim.epoch

\* What a compaction has selected is superseded by a row it leaves.
DoomedSuperseded ==
    \A r \in journal : r.seq \in doomed =>
        /\ r.event.kind = "checkpoint"
        /\ \E q \in journal : /\ q.seq \notin doomed /\ r.seq < q.seq
                              /\ q.event.task = r.event.task /\ q.event.claim # NoClaim

\* The restored counter is the youngest generation the journal names, or zero.
Top(rows, m) ==
    /\ m \in Nat
    /\ \A r \in rows : r.event.claim # NoClaim => r.event.claim.epoch <= m
    /\ m = 0 \/ \E r \in rows : r.event.claim # NoClaim /\ r.event.claim.epoch = m

JournalInv ==
    RowsNumbered /\ RowsOrdered /\ DoomedSuperseded /\ Top(journal, RestoredEpoch(journal))

-----------------------------------------------------------------------------
\* A mutation in flight carries the claims of its candidate, and its request is
\* in the operations table exactly from its append on.
PendingInv ==
    pending # Nil =>
        /\ up /\ WellKept(pending.cand)
        /\ \A e \in pending.todo : Carries(e) /\ e.claim = pending.cand.claims[e.task]
        /\ pending.reply # Nil =>
             /\ Carries(pending.reply)
             /\ pending.reply.claim = pending.cand.claims[pending.reply.task]
             /\ \/ ~pending.begun /\ pending.todo = {pending.reply}
                \/ pending.begun /\ pending.todo = {}
             /\ pending.begun /\ pending.reply.kind # "checkpoint" =>
                  \E r \in journal : r.event = pending.reply
        /\ pending.reply = Nil =>
             /\ pending.key = Nil
             /\ \A e \in pending.todo : e.claim = NoClaim
        /\ pending.key # Nil =>
             /\ pending.request # Nil
             /\ pending.reply.task = pending.request.task
             /\ pending.reply.kind = pending.request.op
             /\ IF pending.begun
                THEN [key |-> pending.key, request |-> pending.request,
                      event |-> pending.reply] \in operations
                ELSE Lookup(pending.key) = {}

\* The operations table names one journalled answer per key; what clients were
\* told is in it, or in the journal.
AnswersInv ==
    /\ \A o \in operations :
         /\ o.event.task = o.request.task /\ o.event.kind = o.request.op
         /\ o.event.kind # "checkpoint" => \E r \in journal : r.event = o.event
    /\ \A o, p \in operations : o.key = p.key => o = p
    /\ \A x \in acks :
         /\ x.event.kind # "checkpoint" => \E r \in journal : r.event = x.event
         /\ x.key # Nil => \E o \in operations : /\ o.key = x.key /\ o.event = x.event
                                                 /\ o.request = x.request

\* The registry the journal stands for is the live one, until an append is done.
Settled == pending = Nil \/ ~pending.begun \/ pending.todo # {}

\* The journal counts exactly the epochs the hub has minted.
CounterInv ==
    /\ WellKept(live) /\ live.epochSeq <= RestoredEpoch(journal)
    /\ ~up => pending = Nil
    /\ up /\ Settled => live.epochSeq = RestoredEpoch(journal)
    /\ pending # Nil =>
         /\ pending.todo = {} => pending.cand.epochSeq = RestoredEpoch(journal)
         /\ \A e \in pending.todo :
              pending.cand.epochSeq =
                IF e.claim # NoClaim /\ e.claim.epoch > RestoredEpoch(journal)
                THEN e.claim.epoch ELSE RestoredEpoch(journal)

\* Rows of a task name no younger generation than its live lease.
RowsBelow(s) ==
    \A r \in journal : Held(s, r.event.task) /\ r.event.claim # NoClaim =>
        r.event.claim.epoch <= s.claims[r.event.task].epoch

Told == {r.event : r \in journal} \cup {o.event : o \in operations} \cup {x.event : x \in acks}

\* Every claim a client, the journal, or a registry of the hub may name.
Known ==
    {k \in {[task |-> e.task, claim |-> e.claim] : e \in Told}
           \cup {[task |-> t, claim |-> live.claims[t]] : t \in Tasks}
           \cup (IF pending = Nil THEN {}
                 ELSE {[task |-> t, claim |-> pending.cand.claims[t]] : t \in Tasks}) :
       k.claim # NoClaim}

SameGrant(k, l) ==
    k.claim.epoch = l.claim.epoch =>
        k.task = l.task /\ k.claim.owner = l.claim.owner /\ k.claim.scope = l.claim.scope

\* An epoch names one grant, and none was minted beyond what replay counts.
GrantsInv ==
    /\ \A k, l \in Known : SameGrant(k, l)
    /\ \A e \in Told : e.claim # NoClaim => e.claim.epoch <= RestoredEpoch(journal)
    /\ up /\ Settled => RowsBelow(live)
    /\ pending # Nil => RowsBelow(pending.cand)

HubInv == TypeOK /\ JournalInv /\ PendingInv /\ AnswersInv /\ CounterInv /\ GrantsInv

-----------------------------------------------------------------------------
\* The journal restores claim j of task t: the lease the registry holds, or one
\* that is due and left its token; or nothing, after a torn batch of releases.
Mirrors(s, t, j, torn) ==
    \/ s.claims[t] = j /\ (j = NoClaim => s.expired[t] = NoToken)
    \/ ~Held(s, t) /\ j # NoClaim /\ j.expires <= now /\ s.expired[t] = j.checkpoint
    \/ torn /\ j = NoClaim

MidBatch == pending # Nil /\ pending.begun /\ pending.todo # {}

MirrorInv ==
    /\ Sound(live)
    /\ up /\ Settled =>
         \A t \in Tasks : Mirrors(live, t, RestoredClaim(journal, t), TornBatch \/ MidBatch)
    /\ pending # Nil =>
         /\ Sound(pending.cand)
         /\ \A t \in Tasks : (\A e \in pending.todo : e.task # t) =>
              Mirrors(pending.cand, t, RestoredClaim(journal, t), TornBatch)
         /\ \A e \in pending.todo : Mirrors(pending.cand, e.task, e.claim, TornBatch)
    /\ ~up => Sound(Replay(journal, now))

-----------------------------------------------------------------------------
(* What replay reads off the rows.                                          *)

\* Among rows numbered up to a bound, some row is the latest.
LEMMA LatestRow ==
  ASSUME NEW S, S # {}, NEW b \in Nat, \A r \in S : r.seq \in 1..b
  PROVE  \E r \in S : \A q \in S : q.seq <= r.seq
<1> DEFINE R == {ss \in Nat \X Nat : ss[1] < ss[2]}
           T == {b - r.seq : r \in S}
<1>1. IsWellFoundedOn(R, Nat)
  BY NatLessThanWellFounded DEF OpToRel
<1>2. T \in SUBSET Nat /\ T # {}
  OBVIOUS
<1>3. PICK x \in T : \A y \in T : <<y, x>> \notin R
  <2> HIDE DEF R, T
  <2> QED BY <1>1, <1>2, WFMin
<1>4. \A y \in T : ~(y < x)
  BY <1>2, <1>3
<1>5. PICK r \in S : x = b - r.seq
  BY DEF T
<1>6. ASSUME NEW q \in S PROVE q.seq <= r.seq
  <2>1. ~(b - q.seq < b - r.seq)
    BY <1>4, <1>5
  <2>2. q.seq \in 1..b /\ r.seq \in 1..b
    OBVIOUS
  <2> QED BY <2>1, <2>2
<1> QED BY <1>6

\* The last row of a task restores it, and only a task without rows is free for
\* want of one (replay_claims).
LEMMA RestoredFacts ==
  ASSUME NEW rows, NEW b \in Nat, \A r \in rows : r.seq \in 1..b,
         \A r, q \in rows : r.seq = q.seq => r = q, NEW t
  PROVE  /\ \A r \in rows : r.event.task = t /\ IsLast(rows, r) =>
              RestoredClaim(rows, t) = r.event.claim
         /\ (\A r \in rows : r.event.task # t) => RestoredClaim(rows, t) = NoClaim
         /\ (\E r \in rows : r.event.task = t) =>
              \E r \in rows : /\ r.event.task = t /\ IsLast(rows, r)
                              /\ RestoredClaim(rows, t) = r.event.claim
<1> DEFINE last == {r \in rows : r.event.task = t /\ IsLast(rows, r)}
<1>1. ASSUME NEW r \in last PROVE RestoredClaim(rows, t) = r.event.claim
  <2>1. ASSUME NEW q \in last PROVE q = r
    <3>1. q.seq <= r.seq /\ r.seq <= q.seq /\ q.seq \in Nat /\ r.seq \in Nat
      BY DEF IsLast
    <3> QED BY <3>1
  <2>2. (CHOOSE q \in last : TRUE) \in last
    OBVIOUS
  <2>3. RestoredClaim(rows, t) = (CHOOSE q \in last : TRUE).event.claim
    BY <1>1 DEF RestoredClaim
  <2> HIDE DEF last
  <2> QED BY <2>1, <2>2, <2>3
<1>2. ASSUME \A r \in rows : r.event.task # t PROVE RestoredClaim(rows, t) = NoClaim
  BY <1>2 DEF RestoredClaim
<1>3. ASSUME NEW q \in rows, q.event.task = t
      PROVE  \E r \in rows : r.event.task = t /\ IsLast(rows, r)
  <2> DEFINE S == {r \in rows : r.event.task = t}
  <2>1. PICK r \in S : \A p \in S : p.seq <= r.seq
    <3>1. S # {} /\ \A p \in S : p.seq \in 1..b
      BY <1>3
    <3> HIDE DEF S
    <3> QED BY <3>1, LatestRow
  <2> QED BY <2>1 DEF IsLast
<1> QED BY <1>1, <1>2, <1>3

\* A youngest generation is the restored counter (replay_hub_state).
LEMMA TopRestored ==
  ASSUME NEW rows, NEW m, Top(rows, m),
         \A r \in rows : r.event.claim # NoClaim => r.event.claim.epoch \in Nat
  PROVE  RestoredEpoch(rows) = m
<1> DEFINE epochs == {0} \cup {r.event.claim.epoch : r \in {q \in rows : q.event.claim # NoClaim}}
<1>1. m \in epochs /\ \A e \in epochs : e <= m /\ e \in Nat
  BY DEF Top
<1>2. \A n \in epochs : (\A e \in epochs : e <= n) => n = m
  BY <1>1
<1>3. RestoredEpoch(rows) = CHOOSE n \in epochs : \A e \in epochs : e <= n
  BY DEF RestoredEpoch
<1> HIDE DEF epochs
<1> QED BY <1>1, <1>2, <1>3

\* The registry replay builds before it expires what is due.
Restored(rows) ==
    [InitRegistry EXCEPT !.claims = [t \in Tasks |-> RestoredClaim(rows, t)],
                         !.index = Rebuilt([t \in Tasks |-> RestoredClaim(rows, t)]),
                         !.epochSeq = RestoredEpoch(rows)]

\* Replay restores a well kept registry from rows that name minted claims, one
\* grant per epoch (seed_hub_state).
LEMMA RestoredKept ==
  ASSUME NEW rows,
         \A t \in Tasks : RestoredClaim(rows, t) \in Claim \cup {NoClaim},
         \A t \in Tasks : RestoredClaim(rows, t) # NoClaim =>
            Minted(RestoredClaim(rows, t)) /\ RestoredClaim(rows, t).epoch <= RestoredEpoch(rows),
         \A t, u \in Tasks : /\ RestoredClaim(rows, t) # NoClaim
                             /\ RestoredClaim(rows, u) # NoClaim
                             /\ RestoredClaim(rows, t).epoch = RestoredClaim(rows, u).epoch
                             => t = u,
         RestoredEpoch(rows) \in Nat
  PROVE  LET n == Restored(rows)
         IN  /\ WellKept(n)
             /\ n.claims = [t \in Tasks |-> RestoredClaim(rows, t)]
             /\ n.expired = [t \in Tasks |-> NoToken]
             /\ n.epochSeq = RestoredEpoch(rows)
             /\ n.custody = [r \in Reservations |-> {}] /\ n.retained = {}
             /\ \A at : Replay(rows, at) = Expire(n, at)
<1> DEFINE claims == [t \in Tasks |-> RestoredClaim(rows, t)]
           m == RestoredEpoch(rows)
           n == [InitRegistry EXCEPT !.claims = claims, !.index = Rebuilt(claims),
                                     !.epochSeq = m]
<1>1. n = Restored(rows)
  BY DEF Restored
<1>2. \A at : Replay(rows, at) = Expire(n, at)
  BY DEF Replay
<1>3. /\ claims \in [Tasks -> Claim \cup {NoClaim}]
      /\ \A t \in Tasks : claims[t] = RestoredClaim(rows, t)
  OBVIOUS
<1> HIDE DEF m
<1>4. /\ n.claims = claims /\ n.expired = [t \in Tasks |-> NoToken]
      /\ n.epochSeq = m /\ n.index = Rebuilt(claims)
      /\ n.custody = [r \in Reservations |-> {}] /\ n.retained = {}
  BY DEF InitRegistry
<1>5. InitRegistry \in Registry
  BY InitSound DEF Sound, SoundLeases
<1> HIDE DEF claims
<1>6. Rebuilt(claims) \subseteq Lease
  BY <1>3 DEF Rebuilt, Lease, Claim
<1>m. m \in Nat
  BY DEF m
<1>7. n \in Registry
  BY <1>3, <1>5, <1>6, <1>m DEF Registry
<1> HIDE DEF n
<1>8. \A t \in Tasks : Held(n, t) <=> RestoredClaim(rows, t) # NoClaim
  BY <1>3, <1>4 DEF Held
<1>9. IndexCovers(n)
  BY <1>4 DEF IndexCovers, Rebuilt, Held
<1>10. MintedEpochs(n)
  <2> SUFFICES ASSUME NEW t \in Tasks, Held(n, t)
               PROVE  /\ n.claims[t].epoch \in 1..n.epochSeq
                      /\ n.claims[t].ownershipEpoch \in 1..n.claims[t].epoch
    BY DEF MintedEpochs
  <2>1. /\ Minted(RestoredClaim(rows, t)) /\ RestoredClaim(rows, t).epoch <= n.epochSeq
        /\ n.claims[t] = RestoredClaim(rows, t) /\ n.epochSeq \in Nat
    BY <1>3, <1>4, <1>8 DEF m
  <2> QED BY <2>1 DEF Minted
<1>11. DistinctEpochs(n) /\ OneResumeToken(n)
  BY <1>3, <1>4, <1>8 DEF DistinctEpochs, OneResumeToken
<1> QED BY <1>1, <1>2, <1>4, <1>7, <1>9, <1>10, <1>11 DEF WellKept, m, claims

-----------------------------------------------------------------------------
(* What the lease handlers put before the actor.                            *)

\* What a granted request of a kind does to its task: a claim or a handoff mints
\* or extends a lease from this instant on, the others leave its tenure or drop it.
Performs(h, n, t, kind) ==
    IF kind \in {"claim", "handoff"} THEN Mints(h, n, t, now) \/ Extends(h, n, t, now)
                                     ELSE Keeps(h, n, t) \/ Drops(h, n, t)

\* A mutation has begun: a refused one only carries the expiry it started with,
\* a granted one changes one task and answers with the claim it left there.
Began ==
    /\ up /\ pending = Nil /\ UNCHANGED <<live, up, acks, durable, now, crashes>>
    /\ pending' \in Mutation /\ ~pending'.begun
    /\ WellKept(pending'.cand) /\ (Sound(live) => Sound(pending'.cand))
    /\ \/ /\ pending'.cand = Expire(live, now)
          /\ pending'.todo = {} /\ pending'.key = Nil /\ pending'.reply = Nil
       \/ \E t \in Tasks :
            /\ Changes(Expire(live, now), pending'.cand, t)
            /\ Performs(Expire(live, now), pending'.cand, t, pending'.reply.kind)
            /\ pending'.reply # Nil /\ pending'.todo = {pending'.reply}
            /\ pending'.reply.task = t
            /\ pending'.reply.claim = pending'.cand.claims[t]
            /\ pending'.reply.kind = "checkpoint" => Held(pending'.cand, t)
            /\ pending'.key # Nil =>
                 /\ Lookup(pending'.key) = {} /\ pending'.request # Nil
                 /\ pending'.reply.task = pending'.request.task
                 /\ pending'.reply.kind = pending'.request.op

\* What run and run_atomic record of a request (Begin).
LEMMA BeginFacts ==
  ASSUME NEW t \in Tasks, NEW kind \in Kinds, NEW request \in Request,
         NEW key \in OperationKey \cup {Nil}, NEW cand, NEW granted \in BOOLEAN,
         Begin(request, key, cand, granted, SnapshotOf(kind, cand, t)),
         WellKept(cand), Sound(live) => Sound(cand),
         request.task = t, request.op = kind,
         IF granted THEN Performs(Expire(live, now), cand, t, kind)
                    ELSE cand = Expire(live, now),
         granted /\ kind = "checkpoint" => Held(cand, t)
  PROVE  Began
<1> DEFINE event == SnapshotOf(kind, cand, t)
<1>1. /\ event \in Event /\ event.task = t /\ event.claim = cand.claims[t]
      /\ event.kind = kind /\ cand \in Registry
  BY DEF SnapshotOf, Event, WellKept, Registry
<1>2. event # Nil
  BY <1>1, NilAssumption
<1>3. request # Nil
  BY NilAssumption
<1>4. /\ up /\ pending = Nil /\ UNCHANGED <<live, up, acks, durable, now, crashes>>
      /\ key # Nil => Lookup(key) = {}
      /\ pending' = IF granted
                    THEN [cand |-> cand, todo |-> {event}, begun |-> FALSE, key |-> key,
                          request |-> IF key = Nil THEN Nil ELSE request, reply |-> event]
                    ELSE [cand |-> cand, todo |-> {}, begun |-> FALSE, key |-> Nil,
                          request |-> Nil, reply |-> Nil]
  BY DEF Begin
<1> HIDE DEF event
<1>5. CASE granted
  <2> DEFINE q == IF key = Nil THEN Nil ELSE request
  <2>1. q \in Request \cup {Nil} /\ (key # Nil => q = request)
    OBVIOUS
  <2>2. pending' = [cand |-> cand, todo |-> {event}, begun |-> FALSE, key |-> key,
                    request |-> q, reply |-> event]
    BY <1>4, <1>5
  <2> HIDE DEF q
  <2>3. /\ pending' \in Mutation /\ pending'.cand = cand /\ pending'.todo = {event}
        /\ ~pending'.begun /\ pending'.key = key /\ pending'.request = q
        /\ pending'.reply = event
    BY <1>1, <2>1, <2>2 DEF Mutation
  <2>4. /\ Performs(Expire(live, now), pending'.cand, t, pending'.reply.kind)
        /\ pending'.reply # Nil /\ pending'.todo = {pending'.reply}
        /\ pending'.reply.task = t /\ pending'.reply.claim = pending'.cand.claims[t]
        /\ pending'.reply.kind = "checkpoint" => Held(pending'.cand, t)
    BY <1>1, <1>2, <1>5, <2>3
  <2>5. pending'.key # Nil =>
          /\ Lookup(pending'.key) = {} /\ pending'.request # Nil
          /\ pending'.reply.task = pending'.request.task
          /\ pending'.reply.kind = pending'.request.op
    BY <1>1, <1>3, <1>4, <2>1, <2>3
  <2>6. WellKept(pending'.cand) /\ (Sound(live) => Sound(pending'.cand))
    BY <2>3
  <2>7. Changes(Expire(live, now), pending'.cand, t)
    BY <2>4 DEF Performs, Mints, Extends, Keeps, Changes
  <2> QED BY <1>4, <2>3, <2>4, <2>5, <2>6, <2>7 DEF Began
<1>6. CASE ~granted
  <2>1. pending' = [cand |-> cand, todo |-> {}, begun |-> FALSE, key |-> Nil,
                    request |-> Nil, reply |-> Nil]
    BY <1>4, <1>6
  <2>2. /\ pending' \in Mutation /\ pending'.cand = cand /\ pending'.todo = {}
        /\ ~pending'.begun /\ pending'.key = Nil /\ pending'.reply = Nil
    BY <1>1, <2>1 DEF Mutation
  <2> QED BY <1>4, <1>6, <2>2 DEF Began
<1> QED BY <1>5, <1>6

\* A request of the protocol (Ask), and the keys it may carry.
LEMMA AskType ==
  ASSUME NEW op \in Kinds, NEW a \in Agents, NEW t \in Tasks, NEW body \in Bodies,
         NEW fence \in Nat \cup {NoFence}
  PROVE  /\ Ask(op, a, t, body, fence) \in Request
         /\ Ask(op, a, t, body, fence).task = t /\ Ask(op, a, t, body, fence).op = op
         /\ KeysFor(op, a) \subseteq OperationKey \cup {Nil}
  BY DEF Ask, Request, KeysFor, OperationKey

\* Every lease handler begins a mutation of this kind (core/handlers/leasing.py).
LEMMA HandlersBegin ==
  ASSUME WellKept(live), now \in Int, NEW a \in Agents,
         \/ HandleClaim(a) \/ HandleRenewal(a) \/ HandleTaskUpdate(a)
         \/ HandleCheckpoint(a) \/ HandleRelease(a) \/ HandleHandoff(a)
  PROVE  Began
<1> DEFINE h == Expire(live, now)
<1>0. /\ Fences \subseteq Nat \cup {NoFence} /\ a \in Principals
      /\ 1..live.epochSeq \subseteq Nat \cup {NoFence} /\ NoFence \in Nat \cup {NoFence}
  BY PrincipalAssumption DEF Fences, WellKept, Registry
<1>1. CASE HandleClaim(a)
  <2>1. PICK t \in Tasks, sc \in Scopes, ttl \in Ttls, key \in KeysFor("claim", a) :
          LET cand == ClaimTask(live, now, a, a, t, sc, ttl, FALSE)
          IN  Begin(Ask("claim", a, t, sc, NoFence), key, cand,
                    ClaimOk(h, now, a, a, t, sc, FALSE), SnapshotOf("claim", cand, t))
    BY <1>1 DEF HandleClaim
  <2> DEFINE cand == ClaimTask(live, now, a, a, t, sc, ttl, FALSE)
             request == Ask("claim", a, t, sc, NoFence)
  <2>2. ttl \in Nat /\ sc \in Bodies /\ "claim" \in Kinds
    BY HubInputAssumption DEF Bodies, Kinds
  <2>3. /\ WellKept(cand)
        /\ IF ClaimOk(h, now, a, a, t, sc, FALSE) THEN Mints(h, cand, t, now) ELSE cand = h
    BY <1>0, <2>2, ClaimTaskEffect
  <2>4. Sound(live) => Sound(cand)
    BY <1>0, <2>2, ClaimTaskSound
  <2>5. /\ request \in Request /\ request.task = t /\ request.op = "claim"
        /\ key \in OperationKey \cup {Nil}
    <3> DEFINE f == NoFence
    <3>1. f \in Nat \cup {NoFence} /\ request = Ask("claim", a, t, sc, f)
      OBVIOUS
    <3> HIDE DEF f, request
    <3> QED BY <2>2, <3>1, AskType
  <2>6. ClaimOk(h, now, a, a, t, sc, FALSE) \in BOOLEAN
    BY DEF ClaimOk
  <2> HIDE DEF cand, h, request
  <2> QED BY <2>1, <2>2, <2>3, <2>4, <2>5, <2>6, BeginFacts DEF Performs, Keeps, Edits, cand, h, request
<1>2. CASE HandleRenewal(a)
  <2>1. PICK t \in Tasks, sc \in Scopes, e \in 1..live.epochSeq, key \in KeysFor("claim", a) :
          LET cand == RenewClaim(live, now, a, t, e, sc)
          IN  Begin(Ask("claim", a, t, sc, e), key, cand,
                    RenewOk(h, a, t, e, sc), SnapshotOf("claim", cand, t))
    BY <1>2 DEF HandleRenewal
  <2> DEFINE cand == RenewClaim(live, now, a, t, e, sc)
             request == Ask("claim", a, t, sc, e)
  <2>2. sc \in Bodies /\ "claim" \in Kinds
    BY DEF Bodies, Kinds
  <2>3. /\ WellKept(cand)
        /\ IF RenewOk(h, a, t, e, sc) THEN Extends(h, cand, t, now) ELSE cand = h
    BY <1>0, <2>2, RenewClaimEffect
  <2>4. Sound(live) => Sound(cand)
    BY <1>0, <2>2, RenewClaimSound
  <2>5. /\ request \in Request /\ request.task = t /\ request.op = "claim"
        /\ key \in OperationKey \cup {Nil}
    BY <1>0, <2>2, AskType
  <2>6. RenewOk(h, a, t, e, sc) \in BOOLEAN
    BY DEF RenewOk
  <2> HIDE DEF cand, h, request
  <2> QED BY <2>1, <2>2, <2>3, <2>4, <2>5, <2>6, BeginFacts DEF Performs, Keeps, Edits, cand, h, request
<1>3. CASE HandleTaskUpdate(a)
  <2>1. PICK t \in Tasks, st \in Goals, e \in Fences, key \in KeysFor("task_update", a) :
          LET cand == UpdateTask(live, now, a, t, st, e, NoFence)
          IN  Begin(Ask("task_update", a, t, st, e), key, cand,
                    UpdateOk(h, a, t, st, e, NoFence), SnapshotOf("task_update", cand, t))
    BY <1>3 DEF HandleTaskUpdate
  <2> DEFINE cand == UpdateTask(live, now, a, t, st, e, NoFence)
             request == Ask("task_update", a, t, st, e)
  <2>2. st \in Statuses \cup {NoStatus} /\ st \in Bodies /\ "task_update" \in Kinds
    BY HubInputAssumption DEF Bodies, Kinds
  <2>3. /\ WellKept(cand)
        /\ IF UpdateOk(h, a, t, st, e, NoFence) THEN Keeps(h, cand, t) ELSE cand = h
    BY <1>0, <2>2, UpdateTaskEffect
  <2>4. Sound(live) => Sound(cand)
    BY <1>0, <2>2, UpdateTaskSound
  <2>5. /\ request \in Request /\ request.task = t /\ request.op = "task_update"
        /\ key \in OperationKey \cup {Nil}
    BY <1>0, <2>2, AskType
  <2>6. UpdateOk(h, a, t, st, e, NoFence) \in BOOLEAN
    BY DEF UpdateOk
  <2> HIDE DEF cand, h, request
  <2> QED BY <2>1, <2>2, <2>3, <2>4, <2>5, <2>6, BeginFacts DEF Performs, Keeps, Edits, cand, h, request
<1>4. CASE HandleCheckpoint(a)
  <2>1. PICK t \in Tasks, tok \in Tokens \cup {NoToken}, e \in Fences, key \in KeysFor("checkpoint", a) :
          LET cand == SaveCheckpoint(live, now, a, t, tok, e)
          IN  Begin(Ask("checkpoint", a, t, tok, e), key, cand,
                    OwnerMay(h, a, t, e), SnapshotOf("checkpoint", cand, t))
    BY <1>4 DEF HandleCheckpoint
  <2> DEFINE cand == SaveCheckpoint(live, now, a, t, tok, e)
             request == Ask("checkpoint", a, t, tok, e)
  <2>2. tok \in Bodies /\ "checkpoint" \in Kinds
    BY DEF Bodies, Kinds
  <2>3. /\ WellKept(cand)
        /\ IF OwnerMay(h, a, t, e) THEN Keeps(h, cand, t) ELSE cand = h
    BY <1>0, <2>2, SaveCheckpointEffect
  <2>4. Sound(live) => Sound(cand)
    BY <1>0, <2>2, SaveCheckpointSound
  <2>5. /\ request \in Request /\ request.task = t /\ request.op = "checkpoint"
        /\ key \in OperationKey \cup {Nil}
    BY <1>0, <2>2, AskType
  <2>6. OwnerMay(h, a, t, e) \in BOOLEAN
    BY DEF OwnerMay
  <2> HIDE DEF cand, h, request
  <2> QED BY <2>1, <2>2, <2>3, <2>4, <2>5, <2>6, BeginFacts DEF Performs, Keeps, Edits, cand, h, request
<1>5. CASE HandleRelease(a)
  <2>1. PICK t \in Tasks, e \in Fences, key \in KeysFor("release", a) :
          LET cand == Release(live, now, a, t, e)
          IN  Begin(Ask("release", a, t, NoToken, e), key, cand,
                    OwnerMay(h, a, t, e), SnapshotOf("release", cand, t))
    BY <1>5 DEF HandleRelease
  <2> DEFINE cand == Release(live, now, a, t, e)
             request == Ask("release", a, t, NoToken, e)
  <2>2. NoToken \in Bodies /\ "release" \in Kinds
    BY DEF Bodies, Kinds
  <2>3. /\ WellKept(cand)
        /\ IF OwnerMay(h, a, t, e) THEN Drops(h, cand, t) ELSE cand = h
    BY <1>0, <2>2, ReleaseEffect
  <2>4. Sound(live) => Sound(cand)
    BY <1>0, <2>2, ReleaseSound
  <2>5. /\ request \in Request /\ request.task = t /\ request.op = "release"
        /\ key \in OperationKey \cup {Nil}
    BY <1>0, <2>2, AskType
  <2>6. OwnerMay(h, a, t, e) \in BOOLEAN
    BY DEF OwnerMay
  <2> HIDE DEF cand, h, request
  <2> QED BY <2>1, <2>2, <2>3, <2>4, <2>5, <2>6, BeginFacts DEF Performs, Keeps, Edits, cand, h, request
<1>6. CASE HandleHandoff(a)
  <2>1. PICK t \in Tasks, to \in Agents, e \in Fences, key \in KeysFor("handoff", a) :
          LET cand == Handoff(live, now, a, t, to, e)
          IN  Begin(Ask("handoff", a, t, to, e), key, cand,
                    HandoffOk(h, a, t, to, e), SnapshotOf("handoff", cand, t))
    BY <1>6 DEF HandleHandoff
  <2> DEFINE cand == Handoff(live, now, a, t, to, e)
             request == Ask("handoff", a, t, to, e)
  <2>2. to \in Bodies /\ "handoff" \in Kinds
    BY DEF Bodies, Kinds
  <2>3. /\ WellKept(cand)
        /\ IF HandoffOk(h, a, t, to, e) THEN Mints(h, cand, t, now) ELSE cand = h
    BY <1>0, <2>2, HandoffEffect
  <2>4. Sound(live) => Sound(cand)
    BY <1>0, <2>2, HandoffSound
  <2>5. /\ request \in Request /\ request.task = t /\ request.op = "handoff"
        /\ key \in OperationKey \cup {Nil}
    BY <1>0, <2>2, AskType
  <2>6. HandoffOk(h, a, t, to, e) \in BOOLEAN
    BY DEF HandoffOk
  <2> HIDE DEF cand, h, request
  <2> QED BY <2>1, <2>2, <2>3, <2>4, <2>5, <2>6, BeginFacts DEF Performs, Keeps, Edits, cand, h, request
<1> QED BY <1>1, <1>2, <1>3, <1>4, <1>5, <1>6

\* A registry with fewer of the leases of a sound one is sound, with the same
\* custody or with none.
LEMMA FewerLeasesSound ==
  ASSUME NEW s, Sound(s), NEW n, WellKept(n),
         \A t \in Tasks : Held(n, t) => n.claims[t] = s.claims[t],
         \/ n.custody = s.custody /\ n.retained = s.retained
         \/ n.custody = [r \in Reservations |-> {}]
  PROVE  Sound(n)
<1>1. n \in Registry /\ \A t \in Tasks : Held(n, t) => Held(s, t) /\ n.claims[t] = s.claims[t]
  BY DEF WellKept, Held
<1>2. SoundLeases(n)
  BY <1>1 DEF WellKept, SoundLeases, Sound, ExclusiveScopes
<1>3. ASSUME n.custody = s.custody, n.retained = s.retained PROVE SoundCustody(n)
  <2>1. Witnesses(n) = Witnesses(s)
    BY <1>3 DEF Witnesses
  <2>2. FrozenClaims(n)
    <3> SUFFICES ASSUME NEW w \in Witnesses(n), Held(n, w.task) PROVE Capture(n, w.task) = w
      BY DEF FrozenClaims
    <3>1. w.task \in Tasks
      BY <1>1 DEF Witnesses, Registry, Witness
    <3> QED BY <1>1, <2>1, <3>1 DEF Sound, SoundCustody, FrozenClaims, Capture
  <2>3. CustodyExclusive(n)
    BY <1>1, <2>1 DEF Sound, SoundCustody, CustodyExclusive
  <2>4. DisjointCustody(n) /\ RetainedCustody(n)
    BY <1>3 DEF Sound, SoundCustody, DisjointCustody, RetainedCustody
  <2> QED BY <2>2, <2>3, <2>4 DEF SoundCustody
<1>4. ASSUME n.custody = [r \in Reservations |-> {}] PROVE SoundCustody(n)
  <2>1. Witnesses(n) = {}
    BY <1>4 DEF Witnesses
  <2> QED BY <1>4, <2>1 DEF SoundCustody, FrozenClaims, CustodyExclusive, DisjointCustody,
                            RetainedCustody
<1>5. WithinQuota(n)
  <2> SUFFICES ASSUME NEW p \in Principals
               PROVE  Cardinality(ChargedTo(n, p)) <= MaxClaimsPerAgent
    BY DEF WithinQuota
  <2>1. ChargedTo(n, p) \subseteq ChargedTo(s, p) /\ ChargedTo(s, p) \subseteq Tasks
    BY <1>1 DEF ChargedTo
  <2> QED BY <2>1, FewerCharged DEF Sound, WithinQuota
<1> QED BY <1>2, <1>3, <1>4, <1>5 DEF Sound

\* The sweep of abandoned claims has begun: a release event, without a claim,
\* for each task the candidate no longer holds.
Abandoning ==
    /\ up /\ pending = Nil /\ UNCHANGED <<live, up, acks, durable, now, crashes>>
    /\ pending' \in Mutation /\ ~pending'.begun /\ pending'.todo # {}
    /\ pending'.key = Nil /\ pending'.reply = Nil
    /\ WellKept(pending'.cand) /\ (Sound(live) => Sound(pending'.cand))
    /\ pending'.cand.epochSeq = live.epochSeq
    /\ \A e \in pending'.todo : /\ e.claim = NoClaim /\ e.kind = "release"
                                /\ ~Held(pending'.cand, e.task)
                                /\ pending'.cand.expired[e.task] = NoToken
    /\ \A t \in Tasks : (\A e \in pending'.todo : e.task # t) =>
          /\ pending'.cand.claims[t] = live.claims[t]
          /\ pending'.cand.expired[t] = live.expired[t]
    /\ \A t \in Tasks : Held(pending'.cand, t) => pending'.cand.claims[t] = live.claims[t]

\* What release_abandoned_claims puts before the actor.
LEMMA AbandonBegins ==
  ASSUME WellKept(live), ReleaseAbandoned
  PROVE  Abandoning
<1>1. PICK gone \in SUBSET Agents :
        LET ts == {t \in Tasks : Held(live, t) /\ live.claims[t].owner \in gone}
        IN  /\ up /\ pending = Nil /\ ts # {}
            /\ pending' = [cand |-> [live EXCEPT
                               !.claims = [t \in Tasks |->
                                             IF t \in ts THEN NoClaim ELSE @[t]],
                               !.expired = [t \in Tasks |->
                                              IF t \in ts THEN NoToken ELSE @[t]]],
                           todo |-> [kind : {"release"}, task : ts, claim : {NoClaim}],
                           begun |-> FALSE, key |-> Nil, request |-> Nil, reply |-> Nil]
            /\ UNCHANGED <<live, up, acks, durable, now, crashes>>
  BY DEF ReleaseAbandoned
<1> DEFINE ts == {t \in Tasks : Held(live, t) /\ live.claims[t].owner \in gone}
           claims == [t \in Tasks |-> IF t \in ts THEN NoClaim ELSE live.claims[t]]
           expired == [t \in Tasks |-> IF t \in ts THEN NoToken ELSE live.expired[t]]
           cand == [live EXCEPT !.claims = claims, !.expired = expired]
           todo == [kind : {"release"}, task : ts, claim : {NoClaim}]
<1>2. /\ up /\ pending = Nil /\ ts # {} /\ UNCHANGED <<live, up, acks, durable, now, crashes>>
      /\ pending' = [cand |-> cand, todo |-> todo, begun |-> FALSE, key |-> Nil,
                     request |-> Nil, reply |-> Nil]
  BY <1>1
<1>3. ts \subseteq Tasks /\ live \in Registry
  BY DEF WellKept
<1> HIDE DEF ts
<1>4. /\ claims \in [Tasks -> Claim \cup {NoClaim}]
      /\ expired \in [Tasks -> Tokens \cup {NoToken}]
      /\ \A t \in ts : claims[t] = NoClaim /\ expired[t] = NoToken
      /\ \A t \in Tasks \ ts : claims[t] = live.claims[t] /\ expired[t] = live.expired[t]
  BY <1>3 DEF Registry
<1> HIDE DEF claims, expired
<1>5. /\ cand \in Registry /\ cand.claims = claims /\ cand.expired = expired
      /\ cand.index = live.index /\ cand.epochSeq = live.epochSeq
      /\ cand.custody = live.custody /\ cand.retained = live.retained
  BY <1>3, <1>4 DEF Registry
<1>6. todo \subseteq Event /\ todo # {}
  <2>1. PICK t \in ts : TRUE
    BY <1>2
  <2>2. [kind |-> "release", task |-> t, claim |-> NoClaim] \in todo
    BY <2>1
  <2>3. todo \subseteq Event
    BY <1>3 DEF Event, Kinds
  <2> QED BY <2>2, <2>3
<1>7. /\ \A e \in todo : e.task \in ts /\ e.claim = NoClaim /\ e.kind = "release"
      /\ \A t \in ts : \E e \in todo : e.task = t
  <2>1. ASSUME NEW t \in ts PROVE \E e \in todo : e.task = t
    <3>1. [kind |-> "release", task |-> t, claim |-> NoClaim] \in todo
      OBVIOUS
    <3> QED BY <3>1
  <2> QED BY <2>1
<1> HIDE DEF cand, todo
<1>8. \A t \in Tasks : Held(cand, t) => t \notin ts /\ Held(live, t)
  BY <1>4, <1>5 DEF Held
<1>9. WellKept(cand)
  BY <1>4, <1>5, <1>8 DEF WellKept, IndexCovers, MintedEpochs, DistinctEpochs, OneResumeToken
<1>10. \A t \in Tasks : Held(cand, t) => cand.claims[t] = live.claims[t]
  BY <1>4, <1>5, <1>8
<1>11. Sound(live) => Sound(cand)
  BY <1>5, <1>9, <1>10, FewerLeasesSound
<1>12. /\ pending' \in Mutation /\ pending'.cand = cand /\ pending'.todo = todo
       /\ ~pending'.begun /\ pending'.key = Nil /\ pending'.reply = Nil
  BY <1>2, <1>5, <1>6 DEF Mutation
<1>13. /\ \A e \in todo : ~Held(cand, e.task) /\ cand.expired[e.task] = NoToken
       /\ \A t \in Tasks : (\A e \in todo : e.task # t) =>
             cand.claims[t] = live.claims[t] /\ cand.expired[t] = live.expired[t]
  BY <1>3, <1>4, <1>5, <1>7 DEF Held
<1> QED BY <1>2, <1>5, <1>6, <1>7, <1>9, <1>10, <1>11, <1>12, <1>13 DEF Abandoning

-----------------------------------------------------------------------------
(* HubInv is inductive: one lemma per action.                               *)

\* A state that leaves the database alone keeps what is said of its rows.
LEMMA SameJournal ==
  ASSUME JournalInv, journal' = journal, lastSeq' = lastSeq, doomed' = doomed
  PROVE  JournalInv'
  BY DEF JournalInv, RowsNumbered, RowsOrdered, DoomedSuperseded

\* A new hub satisfies the invariant.
LEMMA InitHubInv == Init => HubInv
<1> SUFFICES ASSUME Init PROVE HubInv
  OBVIOUS
<1>1. WellKept(InitRegistry) /\ InitRegistry.epochSeq = 0
      /\ \A t \in Tasks : InitRegistry.claims[t] = NoClaim
  BY InitSound, SoundIsKept DEF InitRegistry
<1>2. RestoredEpoch(journal) = 0
  BY TopRestored DEF Init, Top
<1>3. TypeOK
  BY <1>1 DEF Init, TypeOK, WellKept
<1>4. JournalInv
  BY <1>2 DEF Init, JournalInv, RowsNumbered, RowsOrdered, DoomedSuperseded, Top
<1>5. PendingInv /\ AnswersInv /\ CounterInv
  BY <1>1, <1>2 DEF Init, PendingInv, AnswersInv, CounterInv, Settled
<1>6. GrantsInv
  BY <1>1 DEF Init, GrantsInv, Known, Told, RowsBelow
<1> QED BY <1>3, <1>4, <1>5, <1>6 DEF HubInv

\* The clock is no part of it.
LEMMA ClockKeeps ==
  ASSUME HubInv, now' \in Int, UNCHANGED <<volatile, durable, crashes>>
  PROVE  HubInv'
<1> USE DEF HubInv, volatile, durable
<1>1. TypeOK'
  BY DEF TypeOK
<1>2. JournalInv'
  BY SameJournal
<1>3. PendingInv' /\ AnswersInv' /\ CounterInv'
  BY DEF PendingInv, AnswersInv, CounterInv, Settled, Lookup
<1>4. GrantsInv'
  BY DEF GrantsInv, Known, Told, RowsBelow, Settled
<1> QED BY <1>1, <1>2, <1>3, <1>4

\* Known claims, as the sources they come from.
LEMMA KnownMeans ==
  ASSUME NEW k
  PROVE  k \in Known <=>
           /\ k.claim # NoClaim
           /\ \/ \E e \in Told : k = [task |-> e.task, claim |-> e.claim]
              \/ \E t \in Tasks : k = [task |-> t, claim |-> live.claims[t]]
              \/ /\ pending # Nil
                 /\ \E t \in Tasks : k = [task |-> t, claim |-> pending.cand.claims[t]]
  BY DEF Known

\* Nothing is known that a restored counter or the candidate does not count.
LEMMA KnownCounted ==
  ASSUME HubInv, pending = Nil, NEW k \in Known
  PROVE  k.claim.epoch <= RestoredEpoch(journal)
<1>1. CASE \E e \in Told : k = [task |-> e.task, claim |-> e.claim]
  BY <1>1, KnownMeans DEF HubInv, GrantsInv
<1>2. CASE \E t \in Tasks : k = [task |-> t, claim |-> live.claims[t]]
  <2>1. PICK t \in Tasks : k = [task |-> t, claim |-> live.claims[t]]
    BY <1>2
  <2>2. Held(live, t)
    BY <2>1, KnownMeans DEF Held
  <2>3. /\ live.claims[t].epoch \in 1..live.epochSeq /\ live.epochSeq \in Nat
        /\ live.epochSeq <= RestoredEpoch(journal) /\ RestoredEpoch(journal) \in Nat
    BY <2>2 DEF HubInv, CounterInv, WellKept, MintedEpochs, Registry, JournalInv, Top
  <2> QED BY <2>1, <2>3
<1> QED BY <1>1, <1>2, KnownMeans

\* A snapshot drops leases from the live registry, at any time.
LEMMA SnapshotKeeps == ASSUME HubInv, Snapshot PROVE HubInv'
<1> USE DEF HubInv, durable
<1>0. WellKept(live) /\ now \in Int /\ UNCHANGED <<pending, up, acks, durable, now, crashes>>
  BY DEF CounterInv, TypeOK, Snapshot
<1>1. /\ WellKept(live') /\ live'.epochSeq = live.epochSeq
      /\ \A t \in Tasks : Held(live', t) => live'.claims[t] = live.claims[t]
      /\ \A t \in Tasks : Held(live', t) => Held(live, t)
  BY <1>0, ExpireEffect DEF Snapshot
<1>2. TypeOK'
  BY <1>0, <1>1 DEF TypeOK, WellKept
<1>3. JournalInv' /\ PendingInv' /\ AnswersInv'
  BY <1>0, SameJournal DEF PendingInv, AnswersInv, Lookup
<1>4. CounterInv'
  BY <1>0, <1>1 DEF CounterInv, Settled
<1>5. Known' \subseteq Known
  <2> SUFFICES ASSUME NEW k \in Known' PROVE k \in Known
    OBVIOUS
  <2>1. \A t \in Tasks : live'.claims[t] # NoClaim => live'.claims[t] = live.claims[t]
    BY <1>1 DEF Held
  <2> QED BY <1>0, <2>1 DEF Known, Told
<1>6. GrantsInv'
  <2>1. up' /\ Settled' => RowsBelow(live')
    BY <1>0, <1>1 DEF GrantsInv, Settled, RowsBelow, TypeOK, Row, Event
  <2>2. \A k, l \in Known' : SameGrant(k, l)
    BY <1>5 DEF GrantsInv
  <2> QED BY <1>0, <2>1, <2>2 DEF GrantsInv, Told, RowsBelow
<1> QED BY <1>2, <1>3, <1>4, <1>6

\* A mutation begins: nothing is journalled yet, and a candidate names at most
\* one claim nobody knows, under an epoch nobody knows.
LEMMA BeganKeeps == ASSUME HubInv, Began PROVE HubInv'
<1> USE DEF HubInv, durable
<1> DEFINE h == Expire(live, now)
           cand == pending'.cand
           m == RestoredEpoch(journal)
<1>0. /\ up /\ pending = Nil /\ UNCHANGED <<live, up, acks, durable, now, crashes>>
      /\ pending' \in Mutation /\ ~pending'.begun /\ WellKept(cand)
      /\ WellKept(live) /\ now \in Int /\ pending' # Nil
  BY NilAssumption DEF Began, CounterInv, TypeOK
<1>1. /\ live.epochSeq = m /\ RowsBelow(live) /\ m \in Nat
      /\ \A r \in journal : r.event.claim # NoClaim => r.event.claim.epoch <= m
  BY <1>0 DEF CounterInv, GrantsInv, Settled, JournalInv, Top
<1>2. /\ WellKept(h) /\ h.epochSeq = m
      /\ \A t \in Tasks : Held(h, t) => Held(live, t) /\ h.claims[t] = live.claims[t]
  BY <1>0, <1>1, ExpireEffect
<1> HIDE DEF h, m
<1>3. TypeOK'
  BY <1>0 DEF TypeOK
<1>4. JournalInv' /\ AnswersInv'
  BY <1>0, SameJournal DEF AnswersInv
<1>5. CASE /\ cand = h
           /\ pending'.todo = {} /\ pending'.key = Nil /\ pending'.reply = Nil
  <2>1. PendingInv'
    BY <1>0, <1>5 DEF PendingInv
  <2>2. CounterInv'
    BY <1>0, <1>1, <1>2, <1>5 DEF CounterInv, Settled, m
  <2>3. Known' \subseteq Known
    <3> SUFFICES ASSUME NEW k \in Known' PROVE k \in Known
      OBVIOUS
    <3>1. \A t \in Tasks : cand.claims[t] # NoClaim => cand.claims[t] = live.claims[t]
      BY <1>2, <1>5 DEF Held
    <3> QED BY <1>0, <3>1 DEF Known, Told
  <2>4. RowsBelow(cand)
    BY <1>1, <1>2, <1>5 DEF RowsBelow, TypeOK, Row, Event
  <2>5. GrantsInv'
    <3>1. \A k, l \in Known' : SameGrant(k, l)
      BY <2>3 DEF GrantsInv
    <3> QED BY <1>0, <1>1, <2>4, <3>1 DEF GrantsInv, Told, RowsBelow
  <2> QED BY <1>3, <1>4, <2>1, <2>2, <2>5
<1>6. ASSUME NEW t \in Tasks,
             Changes(h, cand, t),
             pending'.reply # Nil, pending'.todo = {pending'.reply},
             pending'.reply.task = t, pending'.reply.claim = cand.claims[t],
             pending'.reply.kind = "checkpoint" => Held(cand, t),
             pending'.key # Nil =>
                 /\ Lookup(pending'.key) = {} /\ pending'.request # Nil
                 /\ pending'.reply.task = pending'.request.task
                 /\ pending'.reply.kind = pending'.request.op
      PROVE  HubInv'
  <2> DEFINE c == cand.claims[t]
  <2>1. /\ \A u \in Tasks \ {t} : cand.claims[u] = h.claims[u]
        /\ Held(cand, t) =>
             \/ /\ c.epoch = m + 1 /\ cand.epochSeq = m + 1
             \/ /\ cand.epochSeq = m /\ c.epoch <= m /\ Held(live, t)
                /\ c.epoch = live.claims[t].epoch
                /\ c.owner = live.claims[t].owner /\ c.scope = live.claims[t].scope
        /\ ~Held(cand, t) => cand.epochSeq = m
    <3>1. Held(live, t) => live.claims[t].epoch <= m
      BY <1>0, <1>1 DEF WellKept, MintedEpochs
    <3> QED BY <1>2, <1>6, <3>1 DEF Changes, Grants, Edits, Drops, Apart
  <2>2. Held(cand, t) => Minted(c)
    BY <1>0 DEF WellKept, MintedEpochs, Minted, Registry
  <2>3. PendingInv'
    BY <1>0, <1>6, <2>2 DEF PendingInv, Carries, Held, Lookup
  <2>4. CounterInv'
    <3>1. cand.epochSeq = IF c # NoClaim /\ c.epoch > m THEN c.epoch ELSE m
      BY <1>1, <2>1, <2>2 DEF Held, Minted
    <3> QED BY <1>0, <1>1, <1>6, <3>1 DEF CounterInv, Settled, m
  <2>5. \A k \in Known' : k \in Known \/ (k = [task |-> t, claim |-> c] /\ Held(cand, t))
    <3> SUFFICES ASSUME NEW k \in Known', ~(k = [task |-> t, claim |-> c] /\ Held(cand, t))
                 PROVE  k \in Known
      OBVIOUS
    <3>1. \A u \in Tasks \ {t} : cand.claims[u] # NoClaim => cand.claims[u] = live.claims[u]
      BY <1>2, <2>1 DEF Held
    <3>2. k # [task |-> t, claim |-> c] \/ c = NoClaim
      BY DEF Held
    <3>3. k.claim # NoClaim
      BY DEF Known
    <3>4. CASE \E u \in Tasks : k = [task |-> u, claim |-> cand.claims[u]]
      BY <3>1, <3>2, <3>3, <3>4, KnownMeans
    <3>5. CASE ~\E u \in Tasks : k = [task |-> u, claim |-> cand.claims[u]]
      BY <1>0, <3>3, <3>5 DEF Known, Told
    <3> QED BY <3>4, <3>5
  <2>6. ASSUME Held(cand, t), NEW l \in Known
        PROVE  LET k == [task |-> t, claim |-> c] IN SameGrant(k, l) /\ SameGrant(l, k)
    <3>1. CASE c.epoch = m + 1
      <4>1. l.claim.epoch <= m
        BY <1>0, KnownCounted DEF m
      <4>2. c.epoch # l.claim.epoch
        BY <1>1, <3>1, <4>1
      <4> QED BY <4>2 DEF SameGrant
    <3>2. CASE /\ Held(live, t) /\ c.epoch = live.claims[t].epoch
               /\ c.owner = live.claims[t].owner /\ c.scope = live.claims[t].scope
      <4>1. [task |-> t, claim |-> live.claims[t]] \in Known
        BY <3>2, KnownMeans DEF Held
      <4>2. /\ SameGrant([task |-> t, claim |-> live.claims[t]], l)
            /\ SameGrant(l, [task |-> t, claim |-> live.claims[t]])
        BY <4>1 DEF GrantsInv
      <4> QED BY <3>2, <4>2 DEF SameGrant
    <3> QED BY <2>1, <2>6, <3>1, <3>2
  <2>7. \A k, l \in Known' : SameGrant(k, l)
    <3> SUFFICES ASSUME NEW k \in Known', NEW l \in Known' PROVE SameGrant(k, l)
      OBVIOUS
    <3> QED BY <2>5, <2>6 DEF GrantsInv, SameGrant
  <2>8. RowsBelow(cand)
    <3> SUFFICES ASSUME NEW r \in journal, Held(cand, r.event.task), r.event.claim # NoClaim
                 PROVE  r.event.claim.epoch <= cand.claims[r.event.task].epoch
      BY DEF RowsBelow
    <3>1. r.event.task \in Tasks /\ Minted(r.event.claim)
      BY DEF TypeOK, Row, Event, JournalInv, RowsOrdered, Carries
    <3>2. CASE r.event.task # t
      BY <1>1, <1>2, <2>1, <3>1, <3>2 DEF RowsBelow, Held
    <3>3. CASE r.event.task = t /\ c.epoch = m + 1
      BY <1>1, <3>1, <3>3 DEF Minted
    <3>4. CASE r.event.task = t /\ Held(live, t) /\ c.epoch = live.claims[t].epoch
      BY <1>1, <3>4 DEF RowsBelow
    <3> QED BY <2>1, <3>2, <3>3, <3>4
  <2>9. GrantsInv'
    BY <1>0, <1>1, <2>7, <2>8 DEF GrantsInv, Told, RowsBelow
  <2> QED BY <1>3, <1>4, <2>3, <2>4, <2>9
<1> QED BY <1>5, <1>6 DEF Began, h

\* So does the sweep of abandoned claims.
LEMMA AbandoningKeeps == ASSUME HubInv, Abandoning PROVE HubInv'
<1> USE DEF HubInv, durable
<1> DEFINE cand == pending'.cand
           m == RestoredEpoch(journal)
<1>0. /\ up /\ pending = Nil /\ UNCHANGED <<live, up, acks, durable, now, crashes>>
      /\ pending' \in Mutation /\ ~pending'.begun /\ WellKept(cand)
      /\ pending'.key = Nil /\ pending'.reply = Nil /\ pending' # Nil
      /\ pending'.todo # {} /\ cand.epochSeq = live.epochSeq
  BY NilAssumption DEF Abandoning
<1>1. /\ \A e \in pending'.todo : /\ e.claim = NoClaim /\ e.kind = "release"
                                  /\ ~Held(cand, e.task)
      /\ \A t \in Tasks : Held(cand, t) => cand.claims[t] = live.claims[t]
  BY DEF Abandoning
<1>2. live.epochSeq = m /\ RowsBelow(live) /\ m \in Nat
  BY <1>0 DEF CounterInv, GrantsInv, Settled, JournalInv, Top
<1>3. TypeOK'
  BY <1>0 DEF TypeOK
<1>4. JournalInv' /\ AnswersInv'
  BY <1>0, SameJournal DEF AnswersInv
<1>5. PendingInv'
  <2>1. \A e \in pending'.todo : e.claim = cand.claims[e.task] /\ Carries(e)
    BY <1>1 DEF Held, Carries
  <2> QED BY <1>0, <1>1, <2>1 DEF PendingInv
<1>6. CounterInv'
  BY <1>0, <1>1, <1>2 DEF CounterInv, Settled, m
<1>7. Known' \subseteq Known
  <2> SUFFICES ASSUME NEW k \in Known' PROVE k \in Known
    OBVIOUS
  <2>1. \A t \in Tasks : cand.claims[t] # NoClaim => cand.claims[t] = live.claims[t]
    BY <1>1 DEF Held
  <2> QED BY <1>0, <2>1 DEF Known, Told
<1>8. RowsBelow(cand)
  BY <1>1, <1>2 DEF RowsBelow, TypeOK, Row, Event, Held
<1>9. GrantsInv'
  <2>1. \A k, l \in Known' : SameGrant(k, l)
    BY <1>7 DEF GrantsInv
  <2> QED BY <1>0, <1>2, <1>8, <2>1 DEF GrantsInv, Told, RowsBelow
<1> QED BY <1>3, <1>4, <1>5, <1>6, <1>9

\* The worker thread appends one event: the row numbers itself above the others,
\* its claim is the candidate's, and an answer enters the operations table with it.
LEMMA CommitKeeps == ASSUME HubInv, Commit PROVE HubInv'
<1> USE DEF HubInv
<1>1. PICK e \in pending.todo :
        /\ journal' = journal \cup {[seq |-> lastSeq + 1, event |-> e]}
        /\ pending' = [pending EXCEPT !.todo = @ \ {e}, !.begun = TRUE]
  BY DEF Commit
<1> DEFINE row == [seq |-> lastSeq + 1, event |-> e]
           m == RestoredEpoch(journal)
           n == IF e.claim # NoClaim /\ e.claim.epoch > m THEN e.claim.epoch ELSE m
           cand == pending.cand
<1>2. /\ pending # Nil /\ lastSeq' = lastSeq + 1
      /\ operations' = IF pending.key = Nil THEN operations
                       ELSE operations \cup {[key |-> pending.key, request |-> pending.request,
                                              event |-> pending.reply]}
      /\ UNCHANGED <<live, up, acks, doomed, now, crashes>>
  BY DEF Commit
<1>3. /\ pending \in Mutation /\ e \in Event /\ lastSeq \in Nat /\ journal \subseteq Row
      /\ up /\ WellKept(cand) /\ cand \in Registry
  BY <1>2 DEF TypeOK, Mutation, PendingInv
<1>4. /\ pending' \in Mutation /\ pending' # Nil
      /\ pending'.cand = cand /\ pending'.todo = pending.todo \ {e} /\ pending'.begun
      /\ pending'.key = pending.key /\ pending'.request = pending.request
      /\ pending'.reply = pending.reply
  BY <1>1, <1>3, NilAssumption DEF Mutation
<1>5. /\ Carries(e) /\ e.claim = cand.claims[e.task] /\ e.task \in Tasks
      /\ e.claim # NoClaim => e.claim.epoch \in Nat /\ Held(cand, e.task)
  BY <1>2, <1>3 DEF PendingInv, Carries, Minted, Event, Held
<1>6. /\ pending.reply # Nil => e = pending.reply /\ pending'.todo = {} /\ ~pending.begun
      /\ pending.reply = Nil => e.claim = NoClaim /\ pending.key = Nil
  BY <1>2, <1>4 DEF PendingInv
<1>7. row.seq = lastSeq + 1 /\ row.event = e /\ row \in journal' /\ row \in Row
  BY <1>1, <1>3 DEF Row
<1>8. \A r \in journal' : r \in journal \/ r = row
  BY <1>1
<1>9. journal \subseteq journal'
  BY <1>1
<1>10. Top(journal, m) /\ n \in Nat /\ m \in Nat /\ m <= n
  BY <1>5 DEF JournalInv, Top
<1> HIDE DEF row, m
<1>11. Top(journal', n)
  <2>1. \A r \in journal' : r.event.claim # NoClaim => r.event.claim.epoch <= n
    <3> SUFFICES ASSUME NEW r \in journal', r.event.claim # NoClaim
                 PROVE  r.event.claim.epoch <= n
      OBVIOUS
    <3>1. CASE r = row
      BY <1>5, <1>7, <1>10, <3>1
    <3>2. CASE r \in journal
      <4>1. r.event.claim.epoch \in Nat
        BY <3>2 DEF JournalInv, RowsOrdered, Carries, Minted
      <4> QED BY <1>10, <3>2, <4>1 DEF Top
    <3> QED BY <1>8, <3>1, <3>2
  <2>2. n = 0 \/ \E r \in journal' : r.event.claim # NoClaim /\ r.event.claim.epoch = n
    BY <1>7, <1>9, <1>10 DEF Top
  <2> QED BY <1>10, <2>1, <2>2 DEF Top
<1>12. \A r \in journal' : Carries(r.event)
  BY <1>5, <1>7, <1>8 DEF JournalInv, RowsOrdered
<1>13. RestoredEpoch(journal') = n
  BY <1>11, <1>12, TopRestored DEF Carries, Minted
<1>14. \A r \in journal : r.seq \in 1..lastSeq
  BY DEF JournalInv, RowsNumbered
<1> HIDE DEF n
<1>15. TypeOK'
  <2>1. pending.key # Nil => [key |-> pending.key, request |-> pending.request,
                              event |-> pending.reply] \in Operation
    BY <1>2, <1>3, <1>6 DEF PendingInv, Mutation, Operation
  <2> QED BY <1>2, <1>3, <1>4, <1>7, <1>8, <2>1 DEF TypeOK
<1>16. JournalInv'
  <2>1. RowsNumbered'
    <3>1. \A r \in journal' : r.seq \in 1..(lastSeq + 1)
      BY <1>3, <1>7, <1>8, <1>14
    <3>2. \A r, q \in journal' : r.seq = q.seq => r = q
      BY <1>3, <1>7, <1>8, <1>14 DEF JournalInv, RowsNumbered
    <3>3. doomed' \subseteq 1..(lastSeq + 1)
      BY <1>2, <1>3 DEF JournalInv, RowsNumbered
    <3> QED BY <1>2, <3>1, <3>2, <3>3 DEF RowsNumbered
  <2>2. RowsOrdered'
    <3> SUFFICES ASSUME NEW r \in journal', NEW q \in journal',
                        r.event.task = q.event.task, r.seq < q.seq,
                        r.event.claim # NoClaim, q.event.claim # NoClaim
                 PROVE  r.event.claim.epoch <= q.event.claim.epoch
      BY <1>12 DEF RowsOrdered
    <3>1. CASE r \in journal /\ q \in journal
      BY <3>1 DEF JournalInv, RowsOrdered
    <3>2. CASE r \in journal /\ q = row
      BY <1>2, <1>5, <1>7, <3>2 DEF GrantsInv, RowsBelow
    <3>3. r # row
      BY <1>3, <1>7, <1>8, <1>14
    <3> QED BY <1>8, <3>1, <3>2, <3>3
  <2>3. DoomedSuperseded'
    <3> SUFFICES ASSUME NEW r \in journal', r.seq \in doomed
                 PROVE  /\ r.event.kind = "checkpoint"
                        /\ \E q \in journal' : /\ q.seq \notin doomed /\ r.seq < q.seq
                                               /\ q.event.task = r.event.task
                                               /\ q.event.claim # NoClaim
      BY <1>2 DEF DoomedSuperseded
    <3>1. doomed \subseteq 1..lastSeq
      BY DEF JournalInv, RowsNumbered
    <3>2. r \in journal
      BY <1>3, <1>7, <1>8, <3>1
    <3> QED BY <1>9, <3>2 DEF JournalInv, DoomedSuperseded
  <2> QED BY <1>11, <1>13, <2>1, <2>2, <2>3 DEF JournalInv
<1>17. PendingInv'
  <2>1. \A d \in pending'.todo : Carries(d) /\ d.claim = pending'.cand.claims[d.task]
    BY <1>2, <1>4 DEF PendingInv
  <2>2. pending'.reply # Nil =>
          /\ Carries(pending'.reply)
          /\ pending'.reply.claim = pending'.cand.claims[pending'.reply.task]
          /\ pending'.todo = {} /\ \E r \in journal' : r.event = pending'.reply
    BY <1>4, <1>5, <1>6, <1>7
  <2>3. pending'.reply = Nil => pending'.key = Nil /\ \A d \in pending'.todo : d.claim = NoClaim
    BY <1>2, <1>4 DEF PendingInv
  <2>4. pending'.key # Nil =>
          /\ pending'.request # Nil /\ pending'.reply.task = pending'.request.task
          /\ pending'.reply.kind = pending'.request.op
          /\ [key |-> pending'.key, request |-> pending'.request,
              event |-> pending'.reply] \in operations'
    BY <1>2, <1>4 DEF PendingInv
  <2> QED BY <1>2, <1>3, <1>4, <2>1, <2>2, <2>3, <2>4 DEF PendingInv
<1>18. \A o \in operations' : \/ o \in operations
                              \/ /\ pending.key # Nil /\ o.key = pending.key
                                 /\ o.request = pending.request /\ o.event = pending.reply
                                 /\ o = [key |-> pending.key, request |-> pending.request,
                                         event |-> pending.reply]
  BY <1>2
<1>19. AnswersInv'
  <2>1. \A o \in operations' :
          /\ o.event.task = o.request.task /\ o.event.kind = o.request.op
          /\ o.event.kind # "checkpoint" => \E r \in journal' : r.event = o.event
    <3> SUFFICES ASSUME NEW o \in operations'
                 PROVE  /\ o.event.task = o.request.task /\ o.event.kind = o.request.op
                        /\ o.event.kind # "checkpoint" => \E r \in journal' : r.event = o.event
      OBVIOUS
    <3>1. CASE o \in operations
      BY <1>9, <3>1 DEF AnswersInv
    <3>2. CASE /\ pending.key # Nil /\ o.request = pending.request /\ o.event = pending.reply
      BY <1>2, <1>6, <1>7, <3>2 DEF PendingInv
    <3> QED BY <1>18, <3>1, <3>2
  <2>2. \A o, p \in operations' : o.key = p.key => o = p
    <3>1. pending.key # Nil => \A o \in operations : o.key # pending.key
      BY <1>2, <1>6 DEF PendingInv, Lookup
    <3> QED BY <1>18, <3>1 DEF AnswersInv
  <2>3. operations \subseteq operations'
    BY <1>2
  <2>4. \A x \in acks :
          /\ x.event.kind # "checkpoint" => \E r \in journal' : r.event = x.event
          /\ x.key # Nil => \E o \in operations' : /\ o.key = x.key /\ o.event = x.event
                                                   /\ o.request = x.request
    BY <1>9, <2>3 DEF AnswersInv
  <2> QED BY <1>2, <2>1, <2>2, <2>4 DEF AnswersInv
<1>20. /\ e.claim = NoClaim => n = m
       /\ pending'.todo # {} => e.claim = NoClaim /\ \A d \in pending'.todo : d.claim = NoClaim
       /\ cand.epochSeq = n
  BY <1>2, <1>4, <1>6 DEF PendingInv, CounterInv, n, m
<1>21. Settled /\ (Settled' => pending'.todo # {})
  BY <1>2, <1>4 DEF Settled
<1>22. CounterInv'
  <2>1. WellKept(live) /\ live.epochSeq \in Nat /\ live.epochSeq = m
    BY <1>3, <1>21 DEF CounterInv, WellKept, Registry, m
  <2>2. \A d \in pending'.todo : cand.epochSeq = IF d.claim # NoClaim /\ d.claim.epoch > n
                                                 THEN d.claim.epoch ELSE n
    BY <1>20
  <2> QED BY <1>2, <1>3, <1>4, <1>10, <1>13, <1>20, <1>21, <2>1, <2>2 DEF CounterInv
<1>23. \A d \in Told' : d \in Told \/ d = e
  BY <1>2, <1>6, <1>7, <1>8, <1>18 DEF Told
<1>24. Known' \subseteq Known
  <2> SUFFICES ASSUME NEW k \in Known' PROVE k \in Known
    OBVIOUS
  <2>1. /\ k.claim # NoClaim
        /\ \/ \E d \in Told' : k = [task |-> d.task, claim |-> d.claim]
           \/ \E t \in Tasks : k = [task |-> t, claim |-> live.claims[t]]
           \/ \E t \in Tasks : k = [task |-> t, claim |-> cand.claims[t]]
    BY <1>2, <1>4 DEF Known
  <2> QED BY <1>2, <1>5, <1>23, <2>1, KnownMeans
<1>25. GrantsInv'
  <2>1. \A k, l \in Known' : SameGrant(k, l)
    BY <1>24 DEF GrantsInv
  <2>2. \A d \in Told' : d.claim # NoClaim => d.claim.epoch <= n
    <3> SUFFICES ASSUME NEW d \in Told', d.claim # NoClaim PROVE d.claim.epoch <= n
      OBVIOUS
    <3>1. CASE d = e
      BY <1>5, <1>7, <1>11, <3>1 DEF Top
    <3>2. CASE d \in Told
      <4>1. d.claim.epoch <= m
        BY <3>2 DEF GrantsInv, m
      <4>2. d \in Event
        BY <3>2 DEF Told, TypeOK, Row, Operation, Ack
      <4>3. d.claim.epoch \in Nat
        BY <4>2 DEF Event, Claim
      <4> QED BY <1>10, <4>1, <4>3
    <3> QED BY <1>23, <3>1, <3>2
  <2>3. up' /\ Settled' => RowsBelow(live)'
    <3> SUFFICES ASSUME Settled' PROVE RowsBelow(live)'
      OBVIOUS
    <3>1. RowsBelow(live) /\ e.claim = NoClaim
      BY <1>3, <1>20, <1>21 DEF GrantsInv
    <3> QED BY <1>2, <1>7, <1>8, <3>1 DEF RowsBelow
  <2>4. RowsBelow(pending.cand)'
    <3> SUFFICES ASSUME NEW r \in journal', Held(cand, r.event.task), r.event.claim # NoClaim
                 PROVE  r.event.claim.epoch <= cand.claims[r.event.task].epoch
      BY <1>4 DEF RowsBelow
    <3>1. CASE r = row
      BY <1>5, <1>7, <3>1
    <3>2. CASE r \in journal
      BY <1>2, <3>2 DEF GrantsInv, RowsBelow
    <3> QED BY <1>8, <3>1, <3>2
  <2> QED BY <1>13, <2>1, <2>2, <2>3, <2>4 DEF GrantsInv
<1> QED BY <1>15, <1>16, <1>17, <1>19, <1>22, <1>25

\* A failed append drops the candidate: the live registry stood all along.
LEMMA CommitFailsKeeps == ASSUME HubInv, CommitFails PROVE HubInv'
<1> USE DEF HubInv, durable
<1>0. /\ pending # Nil /\ pending' = Nil /\ up /\ Settled
      /\ UNCHANGED <<live, up, acks, durable, now, crashes>>
  BY DEF CommitFails, PendingInv, Settled
<1>1. TypeOK'
  BY <1>0 DEF TypeOK
<1>2. JournalInv' /\ PendingInv' /\ AnswersInv'
  BY <1>0, SameJournal DEF PendingInv, AnswersInv
<1>3. CounterInv'
  BY <1>0 DEF CounterInv
<1>4. Known' \subseteq Known
  BY <1>0 DEF Known, Told
<1>5. GrantsInv'
  <2>1. \A k, l \in Known' : SameGrant(k, l)
    BY <1>4 DEF GrantsInv
  <2> QED BY <1>0, <2>1 DEF GrantsInv, Told, RowsBelow
<1> QED BY <1>1, <1>2, <1>3, <1>5

\* Publishing makes the candidate the live registry and may answer: what it
\* answers is journalled, and recorded under its key.
LEMMA PublishKeeps == ASSUME HubInv, Publish PROVE HubInv'
<1> USE DEF HubInv, durable
<1> DEFINE ack == [key |-> pending.key, request |-> pending.request, event |-> pending.reply]
           cand == pending.cand
<1>0. /\ pending # Nil /\ pending' = Nil /\ pending.todo = {} /\ live' = cand /\ up
      /\ pending \in Mutation /\ WellKept(cand) /\ cand \in Registry
      /\ UNCHANGED <<up, durable, now, crashes>>
  BY DEF Publish, PendingInv, TypeOK, Mutation
<1>1. acks' = acks \/ (pending.reply # Nil /\ acks' = acks \cup {ack})
  BY DEF Publish
<1>2. /\ ack.key = pending.key /\ ack.request = pending.request /\ ack.event = pending.reply
      /\ pending.reply # Nil => ack \in Ack
  BY <1>0 DEF Mutation, Ack
<1>3. \A x \in acks' : x \in acks \/ (x = ack /\ pending.reply # Nil)
  BY <1>1
<1>4. pending.reply # Nil =>
        /\ pending.begun /\ Carries(ack.event) /\ ack.event \in Event
        /\ ack.event.claim = cand.claims[ack.event.task] /\ ack.event.task \in Tasks
        /\ ack.event.kind # "checkpoint" => \E r \in journal : r.event = ack.event
        /\ pending.key # Nil => ack \in operations
  BY <1>0, <1>2 DEF PendingInv, Mutation, Event
<1> HIDE DEF ack
<1>5. TypeOK'
  BY <1>0, <1>2, <1>3 DEF TypeOK
<1>6. JournalInv' /\ PendingInv'
  BY <1>0, SameJournal DEF PendingInv
<1>7. AnswersInv'
  <2>1. \A x \in acks' :
          /\ x.event.kind # "checkpoint" => \E r \in journal : r.event = x.event
          /\ x.key # Nil => \E o \in operations : /\ o.key = x.key /\ o.event = x.event
                                                  /\ o.request = x.request
    BY <1>2, <1>3, <1>4 DEF AnswersInv
  <2> QED BY <1>0, <2>1 DEF AnswersInv
<1>8. CounterInv'
  <2>1. cand.epochSeq = RestoredEpoch(journal) /\ cand.epochSeq \in Nat
    BY <1>0 DEF CounterInv, Registry
  <2> QED BY <1>0, <2>1 DEF CounterInv
<1>9. \A e \in Told' : e \in Told \/ (e = ack.event /\ pending.reply # Nil)
  BY <1>0, <1>3 DEF Told
<1>10. Known' \subseteq Known
  <2> SUFFICES ASSUME NEW k \in Known' PROVE k \in Known
    OBVIOUS
  <2>1. /\ k.claim # NoClaim
        /\ \/ \E e \in Told' : k = [task |-> e.task, claim |-> e.claim]
           \/ \E t \in Tasks : k = [task |-> t, claim |-> cand.claims[t]]
    BY <1>0 DEF Known
  <2> QED BY <1>0, <1>4, <1>9, <2>1, KnownMeans
<1>11. GrantsInv'
  <2>1. \A k, l \in Known' : SameGrant(k, l)
    BY <1>10 DEF GrantsInv
  <2>2. ASSUME NEW e \in Told', e.claim # NoClaim PROVE e.claim.epoch <= RestoredEpoch(journal)
    <3>1. CASE e \in Told
      BY <2>2, <3>1 DEF GrantsInv
    <3>2. CASE e = ack.event /\ pending.reply # Nil
      <4>1. Held(cand, e.task) /\ e.claim = cand.claims[e.task] /\ e.task \in Tasks
        BY <1>4, <2>2, <3>2 DEF Held
      <4>2. e.claim.epoch \in 1..cand.epochSeq /\ cand.epochSeq = RestoredEpoch(journal)
        BY <1>0, <4>1 DEF WellKept, MintedEpochs, CounterInv
      <4> QED BY <1>0, <4>2 DEF Registry
    <3> QED BY <1>9, <3>1, <3>2
  <2> QED BY <1>0, <2>1, <2>2 DEF GrantsInv, RowsBelow
<1> QED BY <1>5, <1>6, <1>7, <1>8, <1>11

\* A retry gets what the operations table holds.
LEMMA RetryKeeps ==
  ASSUME HubInv, NEW o, NEW request, Retry(o, request) PROVE HubInv'
<1> USE DEF HubInv, durable
<1> DEFINE ack == [key |-> o.key, request |-> request, event |-> o.event]
<1>0. /\ o \in operations /\ request = o.request /\ acks' = acks \cup {ack}
      /\ UNCHANGED <<live, pending, up, durable, now, crashes>>
  BY DEF Retry
<1>1. /\ ack.key = o.key /\ ack.request = o.request /\ ack.event = o.event
      /\ ack \in Ack
  BY <1>0 DEF TypeOK, Operation, Ack
<1>2. \A x \in acks' : x \in acks \/ x = ack
  BY <1>0
<1> HIDE DEF ack
<1>3. TypeOK'
  BY <1>0, <1>1, <1>2 DEF TypeOK
<1>4. JournalInv' /\ PendingInv' /\ CounterInv'
  BY <1>0, SameJournal DEF PendingInv, CounterInv, Settled, Lookup
<1>5. AnswersInv'
  <2>1. \A x \in acks' :
          /\ x.event.kind # "checkpoint" => \E r \in journal : r.event = x.event
          /\ x.key # Nil => \E p \in operations : /\ p.key = x.key /\ p.event = x.event
                                                  /\ p.request = x.request
    BY <1>0, <1>1, <1>2 DEF AnswersInv
  <2> QED BY <1>0, <2>1 DEF AnswersInv
<1>6. Told' \subseteq Told
  BY <1>0, <1>1, <1>2 DEF Told
<1>7. Known' \subseteq Known
  BY <1>0, <1>6 DEF Known
<1>8. GrantsInv'
  <2>1. \A k, l \in Known' : SameGrant(k, l)
    BY <1>7 DEF GrantsInv
  <2> QED BY <1>0, <1>6, <2>1 DEF GrantsInv, RowsBelow, Settled
<1> QED BY <1>3, <1>4, <1>5, <1>8

\* A crash leaves the database, and what clients were told.
LEMMA CrashKeeps == ASSUME HubInv, Crash PROVE HubInv'
<1> USE DEF HubInv, durable
<1>0. /\ ~up' /\ live' = InitRegistry /\ pending' = Nil /\ crashes' = crashes + 1
      /\ up' \in BOOLEAN /\ UNCHANGED <<acks, durable, now>>
  BY DEF Crash
<1>1. /\ WellKept(InitRegistry) /\ InitRegistry.epochSeq = 0 /\ InitRegistry \in Registry
      /\ \A t \in Tasks : InitRegistry.claims[t] = NoClaim
  BY InitSound, SoundIsKept DEF InitRegistry, WellKept
<1>2. TypeOK'
  BY <1>0, <1>1 DEF TypeOK
<1>3. JournalInv' /\ PendingInv' /\ AnswersInv'
  BY <1>0, SameJournal DEF PendingInv, AnswersInv
<1>4. CounterInv'
  BY <1>0, <1>1 DEF CounterInv, JournalInv, Top
<1>5. Known' \subseteq Known
  BY <1>0, <1>1 DEF Known, Told
<1>6. GrantsInv'
  <2>1. \A k, l \in Known' : SameGrant(k, l)
    BY <1>5 DEF GrantsInv
  <2> QED BY <1>0, <2>1 DEF GrantsInv, Told, RowsBelow
<1> QED BY <1>2, <1>3, <1>4, <1>6

\* What replay makes of the journal of a hub: a well kept registry of journalled
\* claims, whose counter is the restored one.
LEMMA ReplayFacts ==
  ASSUME HubInv
  PROVE  LET n == Restored(journal)
         IN  /\ WellKept(n)
             /\ \A t \in Tasks : n.claims[t] = RestoredClaim(journal, t)
             /\ n.expired = [t \in Tasks |-> NoToken]
             /\ n.epochSeq = RestoredEpoch(journal)
             /\ n.custody = [r \in Reservations |-> {}] /\ n.retained = {}
             /\ \A at : Replay(journal, at) = Expire(n, at)
             /\ \A t \in Tasks : RestoredClaim(journal, t) # NoClaim =>
                  \E r \in journal : /\ r.event.task = t /\ IsLast(journal, r)
                                     /\ r.event.claim = RestoredClaim(journal, t)
<1> USE DEF HubInv
<1>1. /\ lastSeq \in Nat /\ \A r \in journal : r.seq \in 1..lastSeq
      /\ \A r, q \in journal : r.seq = q.seq => r = q
  BY DEF TypeOK, JournalInv, RowsNumbered
<1>2. ASSUME NEW t \in Tasks, RestoredClaim(journal, t) # NoClaim
      PROVE  \E r \in journal : /\ r.event.task = t /\ IsLast(journal, r)
                                /\ r.event.claim = RestoredClaim(journal, t)
  <2>1. \E r \in journal : r.event.task = t
    BY <1>1, <1>2, RestoredFacts
  <2> QED BY <1>1, <2>1, RestoredFacts
<1>3. \A t \in Tasks : RestoredClaim(journal, t) # NoClaim =>
        /\ RestoredClaim(journal, t) \in Claim
        /\ Minted(RestoredClaim(journal, t))
        /\ RestoredClaim(journal, t).epoch <= RestoredEpoch(journal)
        /\ [task |-> t, claim |-> RestoredClaim(journal, t)] \in Known
  <2> SUFFICES ASSUME NEW t \in Tasks, RestoredClaim(journal, t) # NoClaim
               PROVE  /\ RestoredClaim(journal, t) \in Claim
                      /\ Minted(RestoredClaim(journal, t))
                      /\ RestoredClaim(journal, t).epoch <= RestoredEpoch(journal)
                      /\ [task |-> t, claim |-> RestoredClaim(journal, t)] \in Known
    OBVIOUS
  <2>1. PICK r \in journal : r.event.task = t /\ r.event.claim = RestoredClaim(journal, t)
    BY <1>2
  <2>2. r.event \in Event /\ Carries(r.event) /\ r.event \in Told
    BY DEF TypeOK, Row, JournalInv, RowsOrdered, Told
  <2>3. [task |-> t, claim |-> RestoredClaim(journal, t)] \in Known
    BY <2>1, <2>2, KnownMeans
  <2> QED BY <2>1, <2>2, <2>3 DEF Event, Carries, JournalInv, Top
<1>4. \A t, u \in Tasks : /\ RestoredClaim(journal, t) # NoClaim
                          /\ RestoredClaim(journal, u) # NoClaim
                          /\ RestoredClaim(journal, t).epoch = RestoredClaim(journal, u).epoch
                          => t = u
  <2> SUFFICES ASSUME NEW t \in Tasks, NEW u \in Tasks,
                      RestoredClaim(journal, t) # NoClaim, RestoredClaim(journal, u) # NoClaim,
                      RestoredClaim(journal, t).epoch = RestoredClaim(journal, u).epoch
               PROVE  t = u
    OBVIOUS
  <2>1. SameGrant([task |-> t, claim |-> RestoredClaim(journal, t)],
                  [task |-> u, claim |-> RestoredClaim(journal, u)])
    BY <1>3 DEF GrantsInv
  <2> QED BY <2>1 DEF SameGrant
<1>5. RestoredEpoch(journal) \in Nat
  BY DEF JournalInv, Top
<1> DEFINE n == Restored(journal)
<1>6. /\ WellKept(n)
      /\ n.claims = [t \in Tasks |-> RestoredClaim(journal, t)]
      /\ n.expired = [t \in Tasks |-> NoToken]
      /\ n.epochSeq = RestoredEpoch(journal)
      /\ n.custody = [r \in Reservations |-> {}] /\ n.retained = {}
      /\ \A at : Replay(journal, at) = Expire(n, at)
  BY <1>3, <1>4, <1>5, RestoredKept
<1> HIDE DEF n
<1>7. \A t \in Tasks : n.claims[t] = RestoredClaim(journal, t)
  BY <1>6
<1> QED BY <1>2, <1>6, <1>7 DEF n

\* A restart replays a registry that continues where the journal stands.
LEMMA RestartKeeps == ASSUME HubInv, Restart PROVE HubInv'
<1> USE DEF HubInv, durable
<1> DEFINE n == Restored(journal)
           m == RestoredEpoch(journal)
<1>0. /\ pending = Nil /\ up' = TRUE /\ live' = Replay(journal, now) /\ now \in Int
      /\ UNCHANGED <<pending, acks, durable, now, crashes>>
  BY DEF Restart, CounterInv, TypeOK
<1>1. /\ WellKept(n) /\ n.epochSeq = m /\ live' = Expire(n, now)
      /\ \A t \in Tasks : n.claims[t] = RestoredClaim(journal, t)
  BY <1>0, ReplayFacts
<1> HIDE DEF n, m
<1>2. /\ WellKept(live') /\ live'.epochSeq = m /\ live' \in Registry /\ m \in Nat
      /\ \A t \in Tasks : Held(live', t) => live'.claims[t] = n.claims[t]
  BY <1>0, <1>1, ExpireEffect DEF WellKept, Registry
<1>3. ASSUME NEW t \in Tasks, Held(live', t)
      PROVE  \E r \in journal : /\ r.event.task = t /\ IsLast(journal, r)
                                /\ r.event.claim = live'.claims[t] /\ r.event.claim # NoClaim
  <2>1. live'.claims[t] = RestoredClaim(journal, t) /\ live'.claims[t] # NoClaim
    BY <1>1, <1>2, <1>3 DEF Held
  <2> QED BY <2>1, ReplayFacts
<1>4. TypeOK'
  BY <1>0, <1>2 DEF TypeOK
<1>5. JournalInv' /\ PendingInv' /\ AnswersInv'
  BY <1>0, SameJournal DEF PendingInv, AnswersInv
<1>6. CounterInv'
  BY <1>0, <1>2 DEF CounterInv, m
<1>7. Known' \subseteq Known
  <2> SUFFICES ASSUME NEW k \in Known' PROVE k \in Known
    OBVIOUS
  <2>1. /\ k.claim # NoClaim
        /\ \/ \E e \in Told : k = [task |-> e.task, claim |-> e.claim]
           \/ \E t \in Tasks : k = [task |-> t, claim |-> live'.claims[t]]
    BY <1>0 DEF Known, Told
  <2>2. ASSUME NEW t \in Tasks, k = [task |-> t, claim |-> live'.claims[t]] PROVE k \in Known
    <3>1. Held(live', t)
      BY <2>1, <2>2 DEF Held
    <3>2. PICK r \in journal : r.event.task = t /\ r.event.claim = live'.claims[t]
      BY <1>3, <3>1
    <3>3. r.event \in Told
      BY DEF Told
    <3> QED BY <2>1, <2>2, <3>2, <3>3, KnownMeans
  <2> QED BY <2>1, <2>2, KnownMeans
<1>8. RowsBelow(live')
  <2> SUFFICES ASSUME NEW r \in journal, Held(live', r.event.task), r.event.claim # NoClaim
               PROVE  r.event.claim.epoch <= live'.claims[r.event.task].epoch
    BY DEF RowsBelow
  <2>0. r.event.task \in Tasks /\ r.event.claim.epoch \in Nat
    BY DEF TypeOK, Row, Event, Claim
  <2>1. PICK q \in journal : /\ q.event.task = r.event.task /\ IsLast(journal, q)
                             /\ q.event.claim = live'.claims[r.event.task]
                             /\ q.event.claim # NoClaim
    BY <1>3, <2>0
  <2>2. r.seq <= q.seq /\ r.seq \in Nat /\ q.seq \in Nat
    BY <2>1 DEF IsLast, TypeOK, Row
  <2>3. CASE r.seq = q.seq
    <3>1. r = q
      BY <2>3 DEF JournalInv, RowsNumbered
    <3> QED BY <2>0, <2>1, <3>1
  <2>4. CASE r.seq < q.seq
    BY <2>1, <2>4 DEF JournalInv, RowsOrdered
  <2> QED BY <2>2, <2>3, <2>4
<1>9. GrantsInv'
  <2>1. \A k, l \in Known' : SameGrant(k, l)
    BY <1>7 DEF GrantsInv
  <2>2. RowsBelow(live)'
    BY <1>0, <1>8 DEF RowsBelow
  <2> QED BY <1>0, <2>1, <2>2 DEF GrantsInv, Told
<1> QED BY <1>4, <1>5, <1>6, <1>9

\* Compaction selects checkpoints a later checkpoint of the task outlives.
LEMMA CompactSelectKeeps == ASSUME HubInv, CompactSelect PROVE HubInv'
<1> USE DEF HubInv, volatile
<1>1. PICK floor \in 1..lastSeq : doomed' = Superseded(floor)
  BY DEF CompactSelect
<1>2. UNCHANGED <<volatile, journal, lastSeq, operations, now, crashes>> /\ lastSeq \in Nat
  BY DEF CompactSelect, TypeOK
<1> DEFINE points == {r \in journal : r.event.kind = "checkpoint" /\ r.seq <= floor}
           Later(q) == {p \in points : p.event.task = q.event.task /\ p.seq > q.seq}
<1>3. /\ \A r \in journal : r.seq \in 1..lastSeq
      /\ \A r, q \in journal : r.seq = q.seq => r = q
  BY DEF JournalInv, RowsNumbered
<1>4. doomed' = {r.seq : r \in {q \in points : Cardinality(Later(q)) >= KeepCheckpoints}}
  BY <1>1 DEF Superseded
<1>5. doomed' \subseteq 1..lastSeq
  BY <1>3, <1>4
<1>6. ASSUME NEW r \in journal, r.seq \in doomed'
      PROVE  r \in points /\ Later(r) # {}
  <2>1. PICK q \in points : q.seq = r.seq /\ Cardinality(Later(q)) >= KeepCheckpoints
    BY <1>4, <1>6
  <2>2. q = r
    BY <1>3, <2>1
  <2>3. ~(Cardinality({}) >= KeepCheckpoints)
    BY FS_EmptySet, HubInputAssumption
  <2> HIDE DEF Later
  <2> QED BY <2>1, <2>2, <2>3
<1>7. ASSUME NEW r \in journal, r.seq \in doomed'
      PROVE  /\ r.event.kind = "checkpoint"
             /\ \E q \in journal : /\ q.seq \notin doomed' /\ r.seq < q.seq
                                   /\ q.event.task = r.event.task /\ q.event.claim # NoClaim
  <2>1. r \in points /\ Later(r) # {} /\ \A p \in Later(r) : p.seq \in 1..lastSeq
    BY <1>3, <1>6, <1>7
  <2>2. PICK p \in Later(r) : \A q \in Later(r) : q.seq <= p.seq
    <3> HIDE DEF Later, points
    <3> QED BY <1>2, <2>1, LatestRow
  <2>3. Later(p) = {}
    <3> SUFFICES ASSUME NEW q \in Later(p) PROVE FALSE
      OBVIOUS
    <3>1. q.seq > p.seq /\ p.seq > r.seq /\ q \in points /\ q.event.task = r.event.task
      BY <2>2
    <3>2. r.seq \in Nat /\ p.seq \in Nat /\ q.seq \in Nat
      BY <1>3, <2>2
    <3>3. q \in Later(r)
      BY <3>1, <3>2
    <3> QED BY <2>2, <3>1, <3>2, <3>3
  <2>4. p \in journal /\ p.seq \notin doomed'
    BY <1>6, <2>2, <2>3
  <2>5. p.event.claim # NoClaim /\ p.event.task = r.event.task /\ r.seq < p.seq
    BY <1>3, <2>2 DEF JournalInv, RowsOrdered, Carries
  <2> QED BY <2>1, <2>4, <2>5
<1>8. TypeOK'
  BY <1>2, <1>5 DEF TypeOK
<1>9. JournalInv'
  BY <1>2, <1>5, <1>7 DEF JournalInv, RowsNumbered, RowsOrdered, DoomedSuperseded
<1>10. PendingInv' /\ AnswersInv' /\ CounterInv'
  BY <1>2 DEF PendingInv, AnswersInv, CounterInv, Settled, Lookup
<1>11. GrantsInv'
  BY <1>2 DEF GrantsInv, Known, Told, RowsBelow, Settled
<1> QED BY <1>8, <1>9, <1>10, <1>11

\* Deleting them takes no youngest generation: a later row names it too.
LEMMA DeleteCounts ==
  ASSUME HubInv, CompactDelete
  PROVE  /\ Top(journal', RestoredEpoch(journal))
         /\ RestoredEpoch(journal') = RestoredEpoch(journal)
<1> USE DEF HubInv
<1> DEFINE m == RestoredEpoch(journal)
<1>1. journal' = {r \in journal : r.seq \notin doomed}
  BY DEF CompactDelete
<1>2. Top(journal, m)
  BY DEF JournalInv
<1> HIDE DEF m
<1>3. Top(journal', m)
  <2>1. ASSUME NEW r \in journal, r.event.claim # NoClaim, r.event.claim.epoch = m
        PROVE  \E q \in journal' : q.event.claim # NoClaim /\ q.event.claim.epoch = m
    <3>1. CASE r.seq \notin doomed
      BY <1>1, <2>1, <3>1
    <3>2. CASE r.seq \in doomed
      <4>1. PICK q \in journal : /\ q.seq \notin doomed /\ r.seq < q.seq
                                 /\ q.event.task = r.event.task /\ q.event.claim # NoClaim
        BY <3>2 DEF JournalInv, DoomedSuperseded
      <4>2. m <= q.event.claim.epoch
        BY <2>1, <4>1 DEF JournalInv, RowsOrdered
      <4>3. q.event.claim.epoch <= m /\ q.event.claim.epoch \in Nat
        BY <1>2, <4>1 DEF Top, JournalInv, RowsOrdered, Carries, Minted
      <4> QED BY <1>1, <1>2, <4>1, <4>2, <4>3 DEF Top
    <3> QED BY <3>1, <3>2
  <2> QED BY <1>1, <1>2, <2>1 DEF Top
<1>4. \A r \in journal' : r \in journal
  BY <1>1
<1>5. RestoredEpoch(journal') = m
  <2>1. \A r \in journal' : r.event.claim # NoClaim => r.event.claim.epoch \in Nat
    BY <1>4 DEF JournalInv, RowsOrdered, Carries, Minted
  <2> QED BY <1>3, <2>1, TopRestored
<1> QED BY <1>3, <1>5 DEF m

\* Nor does it take any answer but a checkpoint's.
LEMMA CompactDeleteKeeps == ASSUME HubInv, CompactDelete PROVE HubInv'
<1> USE DEF HubInv, volatile
<1> DEFINE m == RestoredEpoch(journal)
<1>1. /\ journal' = {r \in journal : r.seq \notin doomed} /\ doomed' = {}
      /\ UNCHANGED <<volatile, lastSeq, operations, now, crashes>>
  BY DEF CompactDelete
<1>2. Top(journal', m) /\ RestoredEpoch(journal') = m
  BY DeleteCounts
<1> HIDE DEF m
<1>3. \A r \in journal' : r \in journal
  BY <1>1
<1>4. \A e : e.kind # "checkpoint" /\ (\E r \in journal : r.event = e) =>
        \E r \in journal' : r.event = e
  BY <1>1 DEF JournalInv, DoomedSuperseded
<1>5. TypeOK'
  BY <1>1 DEF TypeOK
<1>6. JournalInv'
  <2>1. RowsNumbered' /\ RowsOrdered' /\ DoomedSuperseded'
    BY <1>1, <1>3 DEF JournalInv, RowsNumbered, RowsOrdered, DoomedSuperseded
  <2> QED BY <1>2, <2>1 DEF JournalInv
<1>7. PendingInv'
  BY <1>1, <1>4 DEF PendingInv, Lookup
<1>8. AnswersInv'
  BY <1>1, <1>4 DEF AnswersInv
<1>9. CounterInv'
  BY <1>1, <1>2 DEF CounterInv, Settled, m
<1>10. Told' \subseteq Told
  BY <1>1, <1>3 DEF Told
<1>11. GrantsInv'
  <2>1. Known' \subseteq Known
    BY <1>1, <1>10 DEF Known
  <2>2. \A k, l \in Known' : SameGrant(k, l)
    BY <2>1 DEF GrantsInv
  <2>3. (RowsBelow(live) => RowsBelow(live)')
        /\ (RowsBelow(pending.cand) => RowsBelow(pending.cand)')
    BY <1>1, <1>3 DEF RowsBelow
  <2>4. Settled' = Settled /\ UNCHANGED <<up, pending>>
    BY <1>1 DEF Settled
  <2> QED BY <1>2, <1>10, <2>2, <2>3, <2>4 DEF GrantsInv, m
<1> QED BY <1>5, <1>6, <1>7, <1>8, <1>9, <1>11

\* Every step of a hub keeps the invariant.
LEMMA NextHubInv == HubInv /\ [Next]_vars => HubInv'
<1> SUFFICES ASSUME HubInv, [Next]_vars PROVE HubInv'
  OBVIOUS
<1>0. now \in Int /\ WellKept(live)
  BY DEF HubInv, TypeOK, CounterInv
<1>1. CASE Advance
  BY <1>0, <1>1, ClockKeeps DEF Advance
<1>2. CASE StepBack
  BY <1>0, <1>2, ClockKeeps DEF StepBack
<1>3. CASE Snapshot
  BY <1>3, SnapshotKeeps
<1>4. CASE Commit
  BY <1>4, CommitKeeps
<1>5. CASE CommitFails
  BY <1>5, CommitFailsKeeps
<1>6. CASE Publish
  BY <1>6, PublishKeeps
<1>7. CASE ReleaseAbandoned
  BY <1>0, <1>7, AbandonBegins, AbandoningKeeps
<1>8. CASE CompactSelect
  BY <1>8, CompactSelectKeeps
<1>9. CASE CompactDelete
  BY <1>9, CompactDeleteKeeps
<1>10. CASE Crash
  BY <1>10, CrashKeeps
<1>11. CASE Restart
  BY <1>11, RestartKeeps
<1>12. ASSUME NEW o \in operations, NEW t \in Tasks, Retry(o, [o.request EXCEPT !.task = t])
       PROVE  HubInv'
  BY <1>12, RetryKeeps
<1>13. ASSUME NEW a \in Agents,
              \/ HandleClaim(a) \/ HandleRenewal(a) \/ HandleTaskUpdate(a)
              \/ HandleCheckpoint(a) \/ HandleRelease(a) \/ HandleHandoff(a)
       PROVE  HubInv'
  BY <1>0, <1>13, HandlersBegin, BeganKeeps
<1>14. CASE UNCHANGED vars
  BY <1>0, <1>14, ClockKeeps DEF vars
<1> QED BY <1>1, <1>2, <1>3, <1>4, <1>5, <1>6, <1>7, <1>8, <1>9, <1>10, <1>11, <1>12, <1>13,
           <1>14 DEF Next

\* The invariant of a hub with a journal, whatever its clock and its appends do.
LEMMA HubInvAlways == Spec => []HubInv
<1>1. Init => HubInv
  BY InitHubInv
<1>2. HubInv /\ [Next]_vars => HubInv'
  BY NextHubInv
<1> QED BY <1>1, <1>2, PTL DEF Spec

\* Every registry, mutation, row and answer of the hub has the shape the code
\* gives it (SerializedStateMutationActor, EventStore).
THEOREM HubType == Spec => []TypeOK
<1>1. HubInv => TypeOK
  BY DEF HubInv
<1> QED BY <1>1, HubInvAlways, PTL

\* What a client was told stays in the journal through crashes, failed batches
\* and compactions (persistence_operation_commit.py, compact).
THEOREM AnswersAreDurable == Spec => []AcksDurable
<1>1. HubInv => AcksDurable
  BY DEF HubInv, AnswersInv, AcksDurable
<1> QED BY <1>1, HubInvAlways, PTL

\* A keyed request is applied once, and every retry gets its own answer
\* (maybe_replay_duplicate).
THEOREM KeysAnswerOnce == Spec => []KeyedOnce
<1>1. ASSUME HubInv PROVE KeyedOnce
  <2> SUFFICES ASSUME NEW x \in acks, NEW y \in acks, x.key # Nil, x.key = y.key
               PROVE  /\ x.event = y.event
                      /\ x.event.task = x.request.task /\ x.event.kind = x.request.op
    BY DEF KeyedOnce
  <2>1. PICK o \in operations : o.key = x.key /\ o.event = x.event /\ o.request = x.request
    BY <1>1 DEF HubInv, AnswersInv
  <2>2. PICK p \in operations : p.key = y.key /\ p.event = y.event
    BY <1>1 DEF HubInv, AnswersInv
  <2>3. o = p
    BY <1>1, <2>1, <2>2 DEF HubInv, AnswersInv
  <2> QED BY <1>1, <2>1, <2>2, <2>3 DEF HubInv, AnswersInv
<1> QED BY <1>1, HubInvAlways, PTL

\* An epoch a client was granted names one task, owner and scope for good, across
\* crashes, replays, failed appends and compactions (seed_hub_state, claim).
THEOREM EpochsStayUnique == Spec => []EpochsNameOneGrant
<1>1. ASSUME HubInv PROVE EpochsNameOneGrant
  <2> SUFFICES ASSUME NEW x \in acks, NEW y \in acks,
                      x.event.claim # NoClaim, y.event.claim # NoClaim,
                      x.event.claim.epoch = y.event.claim.epoch
               PROVE  /\ x.event.task = y.event.task
                      /\ x.event.claim.owner = y.event.claim.owner
                      /\ x.event.claim.scope = y.event.claim.scope
    BY DEF EpochsNameOneGrant
  <2>1. x.event \in Told /\ y.event \in Told
    BY DEF Told
  <2>2. /\ [task |-> x.event.task, claim |-> x.event.claim] \in Known
        /\ [task |-> y.event.task, claim |-> y.event.claim] \in Known
    BY <2>1, KnownMeans
  <2>3. SameGrant([task |-> x.event.task, claim |-> x.event.claim],
                  [task |-> y.event.task, claim |-> y.event.claim])
    BY <1>1, <2>2 DEF HubInv, GrantsInv
  <2> QED BY <2>3 DEF SameGrant
<1> QED BY <1>1, HubInvAlways, PTL

-----------------------------------------------------------------------------
(* MirrorInv is inductive relative to HubInv, on a clock that never steps    *)
(* back: one lemma per kind of action.                                       *)

\* What the journal restores is a claim of the protocol, or none.
LEMMA RestoredType ==
  ASSUME HubInv
  PROVE  \A t \in Tasks : RestoredClaim(journal, t) \in Claim \cup {NoClaim}
<1> DEFINE n == Restored(journal)
<1>1. n \in Registry /\ \A t \in Tasks : n.claims[t] = RestoredClaim(journal, t)
  BY ReplayFacts DEF WellKept
<1> HIDE DEF n
<1> QED BY <1>1 DEF Registry

\* A heartbeat's expiry leaves the journal as true of the registry as it was.
LEMMA MirrorExpire ==
  ASSUME NEW s, WellKept(s), now \in Int, NEW t \in Tasks, NEW j, NEW torn \in BOOLEAN,
         Mirrors(s, t, j, torn)
  PROVE  Mirrors(Expire(s, now), t, j, torn)
<1> DEFINE h == Expire(s, now)
<1>1. /\ Held(h, t) <=> Held(s, t) /\ ~(s.claims[t].expires <= now)
      /\ Held(h, t) => h.claims[t] = s.claims[t]
      /\ ResumeToken(h, t) = ResumeToken(s, t)
  BY ExpireEffect
<1> HIDE DEF h
<1>2. CASE s.claims[t] = j /\ j = NoClaim /\ s.expired[t] = NoToken
  BY <1>1, <1>2 DEF Mirrors, Held, ResumeToken, h
<1>3. CASE s.claims[t] = j /\ j # NoClaim
  BY <1>1, <1>3 DEF Mirrors, Held, ResumeToken, h
<1>4. CASE ~Held(s, t) /\ j # NoClaim /\ j.expires <= now /\ s.expired[t] = j.checkpoint
  BY <1>1, <1>4 DEF Mirrors, ResumeToken, h
<1>5. CASE torn /\ j = NoClaim
  BY <1>5 DEF Mirrors
<1> QED BY <1>2, <1>3, <1>4, <1>5 DEF Mirrors

\* What backs every restored lease that is not due makes the replay sound.
LEMMA ReplaySound ==
  ASSUME HubInv, NEW s, Sound(s), NEW at \in Int,
         \A t \in Tasks : /\ RestoredClaim(journal, t) # NoClaim
                          /\ ~(RestoredClaim(journal, t).expires <= at)
                          => s.claims[t] = RestoredClaim(journal, t)
  PROVE  Sound(Replay(journal, at))
<1> DEFINE n == Restored(journal)
           h == Expire(n, at)
<1>1. /\ WellKept(n) /\ \A t \in Tasks : n.claims[t] = RestoredClaim(journal, t)
      /\ n.custody = [r \in Reservations |-> {}]
      /\ Replay(journal, at) = h
  BY ReplayFacts
<1> HIDE DEF n
<1>2. /\ WellKept(h) /\ h.custody = n.custody
      /\ \A t \in Tasks : Held(h, t) => /\ Held(n, t) /\ ~(n.claims[t].expires <= at)
                                        /\ h.claims[t] = n.claims[t]
  BY <1>1, ExpireEffect
<1> HIDE DEF h
<1>3. \A t \in Tasks : Held(h, t) => h.claims[t] = s.claims[t]
  BY <1>1, <1>2 DEF Held
<1>4. Sound(h)
  BY <1>1, <1>2, <1>3, FewerLeasesSound
<1> QED BY <1>1, <1>4

\* Appending a row changes what its task is restored to, and nothing else.
LEMMA AppendRestores ==
  ASSUME HubInv, HubInv', NEW e,
         journal' = journal \cup {[seq |-> lastSeq + 1, event |-> e]}, lastSeq' = lastSeq + 1
  PROVE  /\ RestoredClaim(journal', e.task) = e.claim
         /\ \A t \in Tasks : t # e.task => RestoredClaim(journal', t) = RestoredClaim(journal, t)
<1> DEFINE row == [seq |-> lastSeq + 1, event |-> e]
<1>1. /\ lastSeq \in Nat /\ \A r \in journal : r.seq \in 1..lastSeq
      /\ \A r, q \in journal : r.seq = q.seq => r = q
  BY DEF HubInv, TypeOK, JournalInv, RowsNumbered
<1>2. /\ lastSeq + 1 \in Nat /\ \A r \in journal' : r.seq \in 1..(lastSeq + 1)
      /\ \A r, q \in journal' : r.seq = q.seq => r = q
  BY DEF HubInv, TypeOK, JournalInv, RowsNumbered
<1>3. row.seq = lastSeq + 1 /\ row.event = e /\ row \in journal'
  OBVIOUS
<1>4. (\A r \in journal' : r \in journal \/ r = row) /\ journal \subseteq journal'
  OBVIOUS
<1> HIDE DEF row
<1>5. RestoredClaim(journal', e.task) = e.claim
  <2>1. IsLast(journal', row)
    BY <1>1, <1>2, <1>3 DEF IsLast
  <2> QED BY <1>2, <1>3, <2>1, RestoredFacts
<1>6. ASSUME NEW t \in Tasks, t # e.task
      PROVE  RestoredClaim(journal', t) = RestoredClaim(journal, t)
  <2>1. CASE \A r \in journal : r.event.task # t
    <3>1. \A r \in journal' : r.event.task # t
      BY <1>3, <1>4, <1>6, <2>1
    <3> QED BY <1>1, <1>2, <2>1, <3>1, RestoredFacts
  <2>2. CASE \E r \in journal : r.event.task = t
    <3>1. PICK r \in journal : /\ r.event.task = t /\ IsLast(journal, r)
                               /\ RestoredClaim(journal, t) = r.event.claim
      BY <1>1, <2>2, RestoredFacts
    <3>2. r \in journal' /\ IsLast(journal', r)
      BY <1>3, <1>4, <1>6, <3>1 DEF IsLast
    <3> QED BY <1>2, <3>1, <3>2, RestoredFacts
  <2> QED BY <2>1, <2>2
<1> QED BY <1>5, <1>6

\* Compaction changes nothing replay reads: the last row of a task outlives it.
LEMMA DeleteRestores ==
  ASSUME HubInv, HubInv', CompactDelete
  PROVE  \A t \in Tasks : RestoredClaim(journal', t) = RestoredClaim(journal, t)
<1> SUFFICES ASSUME NEW t \in Tasks
             PROVE  RestoredClaim(journal', t) = RestoredClaim(journal, t)
  OBVIOUS
<1>0. journal' = {r \in journal : r.seq \notin doomed}
  BY DEF CompactDelete
<1>1. /\ lastSeq \in Nat /\ \A r \in journal : r.seq \in 1..lastSeq
      /\ \A r, q \in journal : r.seq = q.seq => r = q
  BY DEF HubInv, TypeOK, JournalInv, RowsNumbered
<1>2. /\ \A r \in journal' : r.seq \in 1..lastSeq
      /\ \A r, q \in journal' : r.seq = q.seq => r = q
  BY <1>0, <1>1
<1>3. CASE \A r \in journal : r.event.task # t
  <2>1. \A r \in journal' : r.event.task # t
    BY <1>0, <1>3
  <2> QED BY <1>1, <1>2, <1>3, <2>1, RestoredFacts
<1>4. CASE \E r \in journal : r.event.task = t
  <2>1. PICK r \in journal : /\ r.event.task = t /\ IsLast(journal, r)
                             /\ RestoredClaim(journal, t) = r.event.claim
    BY <1>1, <1>4, RestoredFacts
  <2>2. r.seq \notin doomed
    <3> SUFFICES ASSUME r.seq \in doomed PROVE FALSE
      OBVIOUS
    <3>1. PICK q \in journal : r.seq < q.seq /\ q.event.task = r.event.task
      BY DEF HubInv, JournalInv, DoomedSuperseded
    <3>2. q.seq <= r.seq /\ q.seq \in Nat /\ r.seq \in Nat
      BY <1>1, <2>1, <3>1 DEF IsLast
    <3> QED BY <3>1, <3>2
  <2>3. r \in journal' /\ IsLast(journal', r)
    BY <1>0, <2>1, <2>2 DEF IsLast
  <2> QED BY <1>1, <1>2, <2>1, <2>3, RestoredFacts
<1> QED BY <1>3, <1>4

\* Time only makes more leases due.
LEMMA AdvanceMirrors == ASSUME HubInv, HubInv', MirrorInv, Advance PROVE MirrorInv'
<1> USE DEF volatile, durable
<1>1. /\ now' = now + 1 /\ now \in Int
      /\ UNCHANGED <<live, pending, up, acks, journal, lastSeq, operations, doomed>>
  BY DEF Advance, HubInv, TypeOK
<1>2. ASSUME NEW s, NEW t, NEW j \in Claim \cup {NoClaim}, NEW torn, Mirrors(s, t, j, torn)
      PROVE  Mirrors(s, t, j, torn)'
  <2>1. j # NoClaim /\ j.expires <= now => j.expires <= now'
    BY <1>1 DEF Claim
  <2> QED BY <1>2, <2>1 DEF Mirrors
<1>3. \A t \in Tasks : RestoredClaim(journal, t) \in Claim \cup {NoClaim}
  BY RestoredType
<1>4. ASSUME ~up PROVE Sound(Replay(journal, now'))
  <2> DEFINE n == Restored(journal)
             s == Replay(journal, now)
  <2>1. /\ WellKept(n) /\ s = Expire(n, now)
        /\ \A t \in Tasks : n.claims[t] = RestoredClaim(journal, t)
    BY ReplayFacts
  <2> HIDE DEF n
  <2>2. \A t \in Tasks : /\ Held(s, t) <=> Held(n, t) /\ ~(n.claims[t].expires <= now)
                         /\ Held(s, t) => s.claims[t] = n.claims[t]
    BY <1>1, <2>1, ExpireEffect
  <2>3. ASSUME NEW t \in Tasks, RestoredClaim(journal, t) # NoClaim,
               ~(RestoredClaim(journal, t).expires <= now')
        PROVE  s.claims[t] = RestoredClaim(journal, t)
    <3>1. Held(n, t) /\ n.claims[t] = RestoredClaim(journal, t)
      BY <2>1, <2>3 DEF Held
    <3>2. ~(n.claims[t].expires <= now)
      BY <1>1, <1>3, <2>3, <3>1 DEF Claim
    <3> QED BY <2>2, <3>1, <3>2
  <2>4. Sound(s) /\ now' \in Int
    BY <1>1, <1>4 DEF MirrorInv
  <2> HIDE DEF s
  <2> QED BY <2>3, <2>4, ReplaySound
<1>5. up /\ Settled => \A t \in Tasks :
        Mirrors(live, t, RestoredClaim(journal, t), TornBatch \/ MidBatch)'
  <2> SUFFICES ASSUME up, Settled, NEW t \in Tasks
               PROVE  Mirrors(live, t, RestoredClaim(journal, t), TornBatch \/ MidBatch)'
    OBVIOUS
  <2>1. Mirrors(live, t, RestoredClaim(journal, t), TornBatch \/ MidBatch)
    BY DEF MirrorInv
  <2> QED BY <1>1, <1>2, <1>3, <2>1 DEF Mirrors, MidBatch
<1>6. pending # Nil =>
        /\ \A t \in Tasks : (\A e \in pending.todo : e.task # t) =>
             Mirrors(pending.cand, t, RestoredClaim(journal, t), TornBatch)'
        /\ \A e \in pending.todo : Mirrors(pending.cand, e.task, e.claim, TornBatch)'
  <2> SUFFICES ASSUME pending # Nil
               PROVE  /\ \A t \in Tasks : (\A e \in pending.todo : e.task # t) =>
                           Mirrors(pending.cand, t, RestoredClaim(journal, t), TornBatch)'
                      /\ \A e \in pending.todo : Mirrors(pending.cand, e.task, e.claim, TornBatch)'
    OBVIOUS
  <2>1. ASSUME NEW t \in Tasks, \A e \in pending.todo : e.task # t
        PROVE  Mirrors(pending.cand, t, RestoredClaim(journal, t), TornBatch)'
    <3>1. Mirrors(pending.cand, t, RestoredClaim(journal, t), TornBatch)
      BY <2>1 DEF MirrorInv
    <3> QED BY <1>1, <1>2, <1>3, <3>1 DEF Mirrors
  <2>2. ASSUME NEW e \in pending.todo
        PROVE  Mirrors(pending.cand, e.task, e.claim, TornBatch)'
    <3>1. e.claim \in Claim \cup {NoClaim}
      BY DEF HubInv, TypeOK, Mutation, Event
    <3>2. Mirrors(pending.cand, e.task, e.claim, TornBatch)
      BY DEF MirrorInv
    <3> QED BY <1>1, <1>2, <3>1, <3>2 DEF Mirrors
  <2> QED BY <2>1, <2>2
<1> QED BY <1>1, <1>4, <1>5, <1>6 DEF MirrorInv, Settled

\* A snapshot expires the live leases, which the journal restores as due.
LEMMA SnapshotMirrors == ASSUME HubInv, MirrorInv, Snapshot PROVE MirrorInv'
<1>1. /\ live' = Expire(live, now) /\ up /\ now \in Int /\ WellKept(live)
      /\ UNCHANGED <<pending, up, acks, durable, now, crashes>>
  BY DEF Snapshot, HubInv, TypeOK, CounterInv
<1>2. Sound(live')
  BY <1>1, ExpireSound DEF MirrorInv
<1>3. ASSUME Settled, NEW t \in Tasks
      PROVE  Mirrors(live', t, RestoredClaim(journal, t), TornBatch \/ MidBatch)
  <2>1. Mirrors(live, t, RestoredClaim(journal, t), TornBatch \/ MidBatch)
    BY <1>1, <1>3 DEF MirrorInv
  <2>2. (TornBatch \/ MidBatch) \in BOOLEAN
    BY HubInputAssumption DEF MidBatch
  <2> QED BY <1>1, <2>1, <2>2, MirrorExpire
<1> QED BY <1>1, <1>2, <1>3 DEF MirrorInv, Mirrors, Settled, MidBatch, durable

\* A mutation begins: the candidate differs from what the journal restores in
\* the one task whose event it is to append.
LEMMA BeganMirrors == ASSUME HubInv, MirrorInv, Began PROVE MirrorInv'
<1> DEFINE h == Expire(live, now)
           cand == pending'.cand
<1>1. /\ up /\ pending = Nil /\ UNCHANGED <<live, up, acks, durable, now, crashes>>
      /\ ~pending'.begun /\ pending' # Nil /\ now \in Int /\ WellKept(live)
      /\ Sound(cand) /\ TornBatch \in BOOLEAN
  BY NilAssumption, HubInputAssumption DEF Began, HubInv, TypeOK, CounterInv, MirrorInv
<1>2. \A t \in Tasks : Mirrors(live, t, RestoredClaim(journal, t), TornBatch)
  BY <1>1 DEF MirrorInv, Settled, MidBatch
<1>3. \A t \in Tasks : Mirrors(h, t, RestoredClaim(journal, t), TornBatch)
  BY <1>1, <1>2, MirrorExpire
<1> HIDE DEF h
<1>4. /\ Sound(live')
      /\ \A t \in Tasks : Mirrors(live, t, RestoredClaim(journal, t), TornBatch \/ MidBatch)'
      /\ ~up' => Sound(Replay(journal, now))'
  BY <1>1, <1>2 DEF MirrorInv, Mirrors, MidBatch, durable
<1>5. CASE cand = h /\ pending'.todo = {}
  BY <1>1, <1>3, <1>4, <1>5 DEF MirrorInv, Mirrors, durable
<1>6. ASSUME NEW t \in Tasks, Changes(h, cand, t), pending'.todo = {pending'.reply},
             pending'.reply.task = t, pending'.reply.claim = cand.claims[t]
      PROVE  MirrorInv'
  <2>1. \A u \in Tasks \ {t} : cand.claims[u] = h.claims[u] /\ cand.expired[u] = h.expired[u]
    BY <1>6 DEF Changes, Grants, Edits, Drops, Apart
  <2>2. \A u \in Tasks \ {t} : Mirrors(cand, u, RestoredClaim(journal, u), TornBatch)
    BY <1>3, <2>1 DEF Mirrors, Held
  <2>3. cand.claims[t] = NoClaim => cand.expired[t] = NoToken
    BY <1>6 DEF Changes, Grants, Edits, Drops, Held
  <2>4. Mirrors(cand, t, cand.claims[t], TornBatch)
    BY <2>3 DEF Mirrors
  <2>5. /\ \A u \in Tasks : (\A e \in pending'.todo : e.task # u) =>
             Mirrors(cand, u, RestoredClaim(journal, u), TornBatch)
        /\ \A e \in pending'.todo : Mirrors(cand, e.task, e.claim, TornBatch)
    BY <1>6, <2>2, <2>4
  <2> QED BY <1>1, <1>4, <2>5 DEF MirrorInv, Mirrors, durable
<1> QED BY <1>5, <1>6 DEF Began, h

\* So does the sweep of abandoned claims, in every task it releases.
LEMMA AbandoningMirrors == ASSUME HubInv, MirrorInv, Abandoning PROVE MirrorInv'
<1> DEFINE cand == pending'.cand
<1>1. /\ up /\ pending = Nil /\ UNCHANGED <<live, up, acks, durable, now, crashes>>
      /\ ~pending'.begun /\ pending' # Nil /\ Sound(cand) /\ TornBatch \in BOOLEAN
  BY NilAssumption, HubInputAssumption DEF Abandoning, MirrorInv
<1>2. \A t \in Tasks : Mirrors(live, t, RestoredClaim(journal, t), TornBatch)
  BY <1>1 DEF MirrorInv, Settled, MidBatch
<1>3. ASSUME NEW t \in Tasks, \A e \in pending'.todo : e.task # t
      PROVE  Mirrors(cand, t, RestoredClaim(journal, t), TornBatch)
  <2>1. cand.claims[t] = live.claims[t] /\ cand.expired[t] = live.expired[t]
    BY <1>3 DEF Abandoning
  <2> QED BY <1>2, <2>1 DEF Mirrors, Held
<1>4. \A e \in pending'.todo : Mirrors(cand, e.task, e.claim, TornBatch)
  BY DEF Abandoning, Mirrors, Held
<1> QED BY <1>1, <1>2, <1>3, <1>4 DEF MirrorInv, Mirrors, MidBatch, durable

\* An append restores what the candidate holds; until a batch is complete the
\* live registry still holds what its rows have released.
LEMMA CommitMirrors == ASSUME HubInv, HubInv', MirrorInv, Commit PROVE MirrorInv'
<1>1. PICK e \in pending.todo :
        /\ journal' = journal \cup {[seq |-> lastSeq + 1, event |-> e]}
        /\ pending' = [pending EXCEPT !.todo = @ \ {e}, !.begun = TRUE]
  BY DEF Commit
<1> DEFINE cand == pending.cand
<1>2. /\ pending # Nil /\ lastSeq' = lastSeq + 1 /\ pending \in Mutation /\ up
      /\ UNCHANGED <<live, up, acks, doomed, now, crashes>>
  BY DEF Commit, HubInv, TypeOK, PendingInv
<1>3. /\ pending' # Nil /\ pending'.cand = cand /\ pending'.todo = pending.todo \ {e}
      /\ pending'.begun
  BY <1>1, <1>2, NilAssumption DEF Mutation
<1>4. /\ RestoredClaim(journal', e.task) = e.claim
      /\ \A t \in Tasks : t # e.task => RestoredClaim(journal', t) = RestoredClaim(journal, t)
  BY <1>1, <1>2, AppendRestores
<1>5. Sound(cand) /\ Sound(live)
  BY <1>2 DEF MirrorInv
<1>6. ASSUME NEW t \in Tasks, \A d \in pending'.todo : d.task # t
      PROVE  Mirrors(cand, t, RestoredClaim(journal', t), TornBatch)
  <2>1. CASE t = e.task
    BY <1>2, <1>4, <2>1 DEF MirrorInv
  <2>2. CASE t # e.task
    <3>1. \A d \in pending.todo : d.task # t
      BY <1>3, <1>6, <2>2
    <3> QED BY <1>2, <1>4, <2>2, <3>1 DEF MirrorInv
  <2> QED BY <2>1, <2>2
<1>7. \A d \in pending'.todo : Mirrors(cand, d.task, d.claim, TornBatch)
  BY <1>2, <1>3 DEF MirrorInv
<1>8. ASSUME Settled', NEW t \in Tasks
      PROVE  Mirrors(live, t, RestoredClaim(journal', t), TRUE)
  <2>1. pending'.todo # {} /\ Settled
    BY <1>1, <1>3, <1>8 DEF Settled
  <2>2. e.claim = NoClaim
    BY <1>2, <1>3, <2>1 DEF HubInv, PendingInv
  <2>3. CASE t = e.task
    BY <1>4, <2>2, <2>3 DEF Mirrors
  <2>4. CASE t # e.task
    <3>1. Mirrors(live, t, RestoredClaim(journal, t), TornBatch \/ MidBatch)
      BY <1>2, <2>1 DEF MirrorInv
    <3> QED BY <1>4, <2>4, <3>1 DEF Mirrors
  <2> QED BY <2>3, <2>4
<1>9. Settled' => (TornBatch \/ MidBatch)'
  BY <1>3 DEF Settled, MidBatch
<1>10. up /\ Settled' => \A t \in Tasks :
         Mirrors(live, t, RestoredClaim(journal, t), TornBatch \/ MidBatch)'
  BY <1>2, <1>8, <1>9 DEF Mirrors
<1>11. \A t \in Tasks : (\A d \in pending'.todo : d.task # t) =>
         Mirrors(pending.cand, t, RestoredClaim(journal, t), TornBatch)'
  BY <1>2, <1>3, <1>6 DEF Mirrors
<1>12. \A d \in pending'.todo : Mirrors(pending.cand, d.task, d.claim, TornBatch)'
  BY <1>2, <1>3, <1>7 DEF Mirrors
<1> QED BY <1>2, <1>3, <1>5, <1>10, <1>11, <1>12 DEF MirrorInv

\* A failed append leaves the registry the journal restores, or a torn batch.
LEMMA CommitFailsMirrors == ASSUME HubInv, MirrorInv, CommitFails PROVE MirrorInv'
<1>1. /\ pending # Nil /\ pending' = Nil /\ up /\ Settled /\ (MidBatch => TornBatch)
      /\ UNCHANGED <<live, up, acks, durable, now, crashes>> /\ TornBatch \in BOOLEAN
  BY HubInputAssumption DEF CommitFails, HubInv, PendingInv, Settled, MidBatch
<1>2. \A t \in Tasks : Mirrors(live, t, RestoredClaim(journal, t), TornBatch \/ MidBatch)
  BY <1>1 DEF MirrorInv
<1>3. \A t \in Tasks : Mirrors(live, t, RestoredClaim(journal, t), TornBatch \/ MidBatch)'
  BY <1>1, <1>2 DEF Mirrors, MidBatch, durable
<1> QED BY <1>1, <1>3 DEF MirrorInv

\* A published candidate is what its append made the journal restore.
LEMMA PublishMirrors == ASSUME HubInv, MirrorInv, Publish PROVE MirrorInv'
<1>1. /\ pending # Nil /\ pending' = Nil /\ pending.todo = {} /\ live' = pending.cand /\ up
      /\ UNCHANGED <<up, durable, now, crashes>>
  BY DEF Publish, HubInv, PendingInv
<1>2. /\ Sound(pending.cand)
      /\ \A t \in Tasks : Mirrors(pending.cand, t, RestoredClaim(journal, t), TornBatch)
  BY <1>1 DEF MirrorInv
<1>3. \A t \in Tasks : Mirrors(live, t, RestoredClaim(journal, t), TornBatch \/ MidBatch)'
  BY <1>1, <1>2 DEF Mirrors, durable
<1> QED BY <1>1, <1>2, <1>3 DEF MirrorInv

\* A step that changes nothing but answers, or what is selected, keeps it.
LEMMA SameMirrors ==
  ASSUME MirrorInv, UNCHANGED <<live, pending, up, journal, now>>
  PROVE  MirrorInv'
  BY DEF MirrorInv, Mirrors, Settled, MidBatch

\* So does compaction, which changes no restored claim.
LEMMA DeleteMirrors == ASSUME HubInv, HubInv', MirrorInv, CompactDelete PROVE MirrorInv'
<1>1. UNCHANGED <<live, pending, up, now>>
  BY DEF CompactDelete, volatile
<1>2. /\ \A t \in Tasks : RestoredClaim(journal', t) = RestoredClaim(journal, t)
      /\ RestoredEpoch(journal') = RestoredEpoch(journal)
  BY DeleteRestores, DeleteCounts
<1>3. Replay(journal', now) = Replay(journal, now)
  <2>1. [t \in Tasks |-> RestoredClaim(journal', t)] = [t \in Tasks |-> RestoredClaim(journal, t)]
    BY <1>2
  <2> QED BY <1>2, <2>1 DEF Replay
<1>4. up /\ Settled => \A t \in Tasks :
        Mirrors(live, t, RestoredClaim(journal, t), TornBatch \/ MidBatch)'
  BY <1>1, <1>2 DEF MirrorInv, Mirrors, MidBatch
<1>5. pending # Nil =>
        /\ \A t \in Tasks : (\A e \in pending.todo : e.task # t) =>
             Mirrors(pending.cand, t, RestoredClaim(journal, t), TornBatch)'
        /\ \A e \in pending.todo : Mirrors(pending.cand, e.task, e.claim, TornBatch)'
  BY <1>1, <1>2 DEF MirrorInv, Mirrors
<1> QED BY <1>1, <1>3, <1>4, <1>5 DEF MirrorInv, Settled

\* At a crash every restored lease that is not due was held: by the live
\* registry, or by a candidate whose append was done.
LEMMA CrashMirrors == ASSUME HubInv, MirrorInv, Crash PROVE MirrorInv'
<1>1. /\ up /\ ~up' /\ live' = InitRegistry /\ pending' = Nil /\ now \in Int
      /\ UNCHANGED <<acks, durable, now>>
  BY DEF Crash, HubInv, TypeOK
<1>2. ASSUME NEW s, NEW t \in Tasks, NEW torn, Mirrors(s, t, RestoredClaim(journal, t), torn),
             RestoredClaim(journal, t) # NoClaim, ~(RestoredClaim(journal, t).expires <= now)
      PROVE  s.claims[t] = RestoredClaim(journal, t)
  BY <1>2 DEF Mirrors
<1>3. CASE Settled
  <2>1. Sound(Replay(journal, now))
    BY <1>1, <1>2, <1>3, ReplaySound DEF MirrorInv
  <2> QED BY <1>1, <2>1, InitSound DEF MirrorInv, durable
<1>4. CASE pending # Nil /\ pending.todo = {}
  <2>1. Sound(Replay(journal, now))
    BY <1>1, <1>2, <1>4, ReplaySound DEF MirrorInv
  <2> QED BY <1>1, <2>1, InitSound DEF MirrorInv, durable
<1> QED BY <1>3, <1>4 DEF Settled

\* A restart publishes what the journal restores.
LEMMA RestartMirrors == ASSUME HubInv, MirrorInv, Restart PROVE MirrorInv'
<1> DEFINE n == Restored(journal)
<1>1. /\ ~up /\ pending = Nil /\ up' = TRUE /\ live' = Replay(journal, now) /\ now \in Int
      /\ UNCHANGED <<pending, acks, durable, now, crashes>>
  BY DEF Restart, HubInv, CounterInv, TypeOK
<1>2. /\ WellKept(n) /\ n.expired = [t \in Tasks |-> NoToken] /\ live' = Expire(n, now)
      /\ \A t \in Tasks : n.claims[t] = RestoredClaim(journal, t)
  BY <1>1, ReplayFacts
<1> HIDE DEF n
<1>3. \A t \in Tasks : Mirrors(n, t, RestoredClaim(journal, t), FALSE)
  BY <1>2 DEF Mirrors
<1>4. \A t \in Tasks : Mirrors(live', t, RestoredClaim(journal, t), FALSE)
  BY <1>1, <1>2, <1>3, MirrorExpire
<1>5. \A t \in Tasks : Mirrors(live, t, RestoredClaim(journal, t), TornBatch \/ MidBatch)'
  BY <1>1, <1>4 DEF Mirrors, durable
<1> QED BY <1>1, <1>5 DEF MirrorInv

\* A new hub mirrors an empty journal.
LEMMA InitMirrorInv == Init => MirrorInv
<1> SUFFICES ASSUME Init PROVE MirrorInv
  OBVIOUS
<1>1. \A t \in Tasks : RestoredClaim(journal, t) = NoClaim
  BY DEF Init, RestoredClaim
<1>2. \A t \in Tasks : live.claims[t] = NoClaim /\ live.expired[t] = NoToken
  BY DEF Init, InitRegistry
<1> QED BY <1>1, <1>2, InitSound DEF Init, MirrorInv, Mirrors

\* On a clock that never steps back every step keeps the journal a mirror.
LEMMA NextMirrorInv ==
  ASSUME ~ClockSteps, HubInv, HubInv', MirrorInv, [Next]_vars PROVE MirrorInv'
<1>0. now \in Int /\ WellKept(live)
  BY DEF HubInv, TypeOK, CounterInv
<1>1. CASE Advance
  BY <1>1, AdvanceMirrors
<1>2. CASE StepBack
  BY <1>2 DEF StepBack
<1>3. CASE Snapshot
  BY <1>3, SnapshotMirrors
<1>4. CASE Commit
  BY <1>4, CommitMirrors
<1>5. CASE CommitFails
  BY <1>5, CommitFailsMirrors
<1>6. CASE Publish
  BY <1>6, PublishMirrors
<1>7. CASE ReleaseAbandoned
  BY <1>0, <1>7, AbandonBegins, AbandoningMirrors
<1>8. CASE CompactSelect
  BY <1>8, SameMirrors DEF CompactSelect, volatile
<1>9. CASE CompactDelete
  BY <1>9, DeleteMirrors
<1>10. CASE Crash
  BY <1>10, CrashMirrors
<1>11. CASE Restart
  BY <1>11, RestartMirrors
<1>12. ASSUME NEW o \in operations, NEW t \in Tasks, Retry(o, [o.request EXCEPT !.task = t])
       PROVE  MirrorInv'
  BY <1>12, SameMirrors DEF Retry, durable
<1>13. ASSUME NEW a \in Agents,
              \/ HandleClaim(a) \/ HandleRenewal(a) \/ HandleTaskUpdate(a)
              \/ HandleCheckpoint(a) \/ HandleRelease(a) \/ HandleHandoff(a)
       PROVE  MirrorInv'
  BY <1>0, <1>13, HandlersBegin, BeganMirrors
<1>14. CASE UNCHANGED vars
  BY <1>14, SameMirrors DEF vars, volatile, durable
<1> QED BY <1>1, <1>2, <1>3, <1>4, <1>5, <1>6, <1>7, <1>8, <1>9, <1>10, <1>11, <1>12, <1>13,
           <1>14 DEF Next

\* On a clock that never steps back the journal stays a mirror.
LEMMA MirrorInvAlways == ASSUME ~ClockSteps PROVE Spec => [](HubInv /\ MirrorInv)
<1>1. Init => HubInv /\ MirrorInv
  BY InitHubInv, InitMirrorInv
<1>2. (HubInv /\ MirrorInv) /\ [Next]_vars => (HubInv /\ MirrorInv)'
  BY NextHubInv, NextMirrorInv
<1> QED BY <1>1, <1>2, PTL DEF Spec

\* No append window, failed batch, compaction, crash or replay ever leaves two
\* agents on overlapping scopes, while the clock never steps back (INV-ME-2).
THEOREM ScopesStayExclusive == ~ClockSteps /\ Spec => []LiveScopesExclusive
<1> SUFFICES ASSUME ~ClockSteps PROVE Spec => []LiveScopesExclusive
  OBVIOUS
<1>1. HubInv /\ MirrorInv => LiveScopesExclusive
  BY DEF MirrorInv, Sound, SoundLeases, LiveScopesExclusive
<1> QED BY <1>1, MirrorInvAlways, PTL

\* Mirrored registries agree with their replay once both have expired what is due.
LEMMA MirrorsAgree ==
  ASSUME HubInv, NEW s, WellKept(s), now \in Int,
         \A t \in Tasks : Mirrors(s, t, RestoredClaim(journal, t), FALSE)
  PROVE  /\ Expire(s, now).claims = Replay(journal, now).claims
         /\ Expire(s, now).expired = Replay(journal, now).expired
<1> DEFINE n == Restored(journal)
           mine == Expire(s, now)
           theirs == Expire(n, now)
<1>1. /\ WellKept(n) /\ n.expired = [t \in Tasks |-> NoToken]
      /\ Replay(journal, now) = theirs
      /\ \A t \in Tasks : n.claims[t] = RestoredClaim(journal, t)
  BY ReplayFacts
<1> HIDE DEF n
<1>2. /\ WellKept(mine)
      /\ \A t \in Tasks : Held(mine, t) <=> Held(s, t) /\ ~(s.claims[t].expires <= now)
      /\ \A t \in Tasks : Held(mine, t) => mine.claims[t] = s.claims[t]
      /\ \A t \in Tasks : ResumeToken(mine, t) = ResumeToken(s, t)
  BY ExpireEffect
<1>3. /\ WellKept(theirs)
      /\ \A t \in Tasks : Held(theirs, t) <=> Held(n, t) /\ ~(n.claims[t].expires <= now)
      /\ \A t \in Tasks : Held(theirs, t) => theirs.claims[t] = n.claims[t]
      /\ \A t \in Tasks : ResumeToken(theirs, t) = ResumeToken(n, t)
  BY <1>1, ExpireEffect
<1> HIDE DEF mine, theirs
<1>4. ASSUME NEW t \in Tasks
      PROVE  mine.claims[t] = theirs.claims[t] /\ mine.expired[t] = theirs.expired[t]
  <2>1. /\ n.claims[t] = RestoredClaim(journal, t) /\ n.expired[t] = NoToken
        /\ Mirrors(s, t, n.claims[t], FALSE)
    BY <1>1
  <2>2. Held(mine, t) <=> Held(theirs, t)
    BY <1>2, <1>3, <2>1 DEF Mirrors, Held
  <2>3. mine.claims[t] = theirs.claims[t]
    BY <1>2, <1>3, <2>1, <2>2 DEF Mirrors, Held
  <2>4. ResumeToken(s, t) = ResumeToken(n, t)
    BY <2>1 DEF Mirrors, ResumeToken, Held
  <2>5. CASE Held(mine, t)
    BY <1>2, <1>3, <2>2, <2>3, <2>5 DEF WellKept, OneResumeToken
  <2>6. CASE ~Held(mine, t)
    <3>1. ResumeToken(mine, t) = ResumeToken(theirs, t)
      BY <1>2, <1>3, <2>4
    <3> QED BY <2>2, <2>3, <2>6, <3>1 DEF ResumeToken
  <2> QED BY <2>3, <2>5, <2>6
<1>5. /\ mine.claims \in [Tasks -> Claim \cup {NoClaim}]
      /\ theirs.claims \in [Tasks -> Claim \cup {NoClaim}]
      /\ mine.expired \in [Tasks -> Tokens \cup {NoToken}]
      /\ theirs.expired \in [Tasks -> Tokens \cup {NoToken}]
  BY <1>2, <1>3 DEF WellKept, Registry
<1>6. mine.claims = theirs.claims /\ mine.expired = theirs.expired
  BY <1>4, <1>5
<1> QED BY <1>1, <1>6 DEF mine

\* At every instant replay restores exactly the leases, tokens and counter the
\* hub has answered for, while batches are whole and the clock never steps back
\* (INV-RR-1, seed_hub_state).
THEOREM ReplayRestores == ~ClockSteps /\ ~TornBatch /\ Spec => []ReplayAgrees
<1> SUFFICES ASSUME ~ClockSteps, ~TornBatch PROVE Spec => []ReplayAgrees
  OBVIOUS
<1>1. ASSUME HubInv, MirrorInv PROVE ReplayAgrees
  <2> SUFFICES ASSUME up, pending # Nil => pending.todo = {} \/ ~pending.begun
               PROVE  /\ Expire(Authoritative, now).claims = Replay(journal, now).claims
                      /\ Expire(Authoritative, now).expired = Replay(journal, now).expired
                      /\ Expire(Authoritative, now).epochSeq = Replay(journal, now).epochSeq
    BY DEF ReplayAgrees
  <2> DEFINE s == Authoritative
  <2>1. now \in Int
    BY <1>1 DEF HubInv, TypeOK
  <2>2. /\ WellKept(s) /\ s.epochSeq = RestoredEpoch(journal)
        /\ \A t \in Tasks : Mirrors(s, t, RestoredClaim(journal, t), FALSE)
    <3>1. CASE pending # Nil /\ pending.todo = {}
      <4>1. s = pending.cand
        BY <3>1 DEF Authoritative
      <4>2. WellKept(pending.cand) /\ pending.cand.epochSeq = RestoredEpoch(journal)
        BY <1>1, <3>1 DEF HubInv, PendingInv, CounterInv
      <4>3. \A t \in Tasks : Mirrors(pending.cand, t, RestoredClaim(journal, t), TornBatch)
        BY <1>1, <3>1 DEF MirrorInv
      <4>4. \A t \in Tasks : Mirrors(pending.cand, t, RestoredClaim(journal, t), FALSE)
        BY <4>3 DEF Mirrors
      <4> HIDE DEF s
      <4> QED BY <4>1, <4>2, <4>4
    <3>2. CASE pending = Nil \/ (pending.todo # {} /\ ~pending.begun)
      <4>1. s = live /\ Settled /\ ~MidBatch
        BY <3>2 DEF Authoritative, Settled, MidBatch
      <4>2. WellKept(live) /\ live.epochSeq = RestoredEpoch(journal)
        BY <1>1, <4>1 DEF HubInv, CounterInv
      <4>3. \A t \in Tasks : Mirrors(live, t, RestoredClaim(journal, t), TornBatch \/ MidBatch)
        BY <1>1, <4>1 DEF MirrorInv
      <4>4. \A t \in Tasks : Mirrors(live, t, RestoredClaim(journal, t), FALSE)
        BY <4>1, <4>3 DEF Mirrors
      <4> HIDE DEF s
      <4> QED BY <4>1, <4>2, <4>4
    <3> QED BY <3>1, <3>2
  <2> HIDE DEF s
  <2>3. /\ Expire(s, now).claims = Replay(journal, now).claims
        /\ Expire(s, now).expired = Replay(journal, now).expired
    BY <1>1, <2>1, <2>2, MirrorsAgree
  <2>4. Expire(s, now).epochSeq = RestoredEpoch(journal)
    BY <2>1, <2>2, ExpireEffect
  <2>5. Replay(journal, now).epochSeq = RestoredEpoch(journal)
    BY <1>1, <2>1, ReplayFacts, ExpireEffect
  <2> QED BY <2>3, <2>4, <2>5 DEF s
<1> QED BY <1>1, MirrorInvAlways, PTL

-----------------------------------------------------------------------------
(* The journal as a lease service.  Every step of a hub is hidden from it but *)
(* an append; JudgedInv says what the mutation in flight will append: a        *)
(* request that was judged, against the leases the journal names, at an instant *)
(* no earlier than the last judgement.  It needs MirrorInv, so a clock that      *)
(* never steps back, and whole batches.                                           *)

\* A row that grants or extends a lease.
Judging(e) == e.kind \in {"claim", "handoff"} /\ e.claim # NoClaim

\* The last judgement is the latest instant a lease was granted or extended at.
Judged(rows, m) ==
    /\ m \in Nat
    /\ \A r \in rows : Judging(r.event) => r.event.claim.claimedAt <= m
    /\ m = 0 \/ \E r \in rows : Judging(r.event) /\ r.event.claim.claimedAt = m

\* The row to come leaves the tenure of its lease, or is judged at its instant.
Serves(n, e) ==
    IF e.kind \in {"claim", "handoff"}
    THEN LET b == e.claim.claimedAt
             h == Replay(journal, b)
         IN  /\ b \in LastJudged(journal)..now
             /\ Alone(h, n, e.task) /\ Judges(h, n, e.task, b)
    ELSE /\ n.epochSeq = RestoredEpoch(journal)
         /\ e.claim # NoClaim =>
              LET c == RestoredClaim(journal, e.task)
              IN  /\ c # NoClaim /\ LeaseOf(e.claim) = LeaseOf(c)
                  /\ e.claim.claimedAt = c.claimedAt
                  /\ ~(c.expires <= LastJudged(journal))

JudgedInv ==
    /\ Judged(journal, LastJudged(journal)) /\ LastJudged(journal) <= now
    /\ \A r \in journal : r.event.claim # NoClaim =>
          Term(r.event.claim) \in MinimumTtl..MaximumTtl
    /\ pending # Nil /\ pending.reply # Nil /\ ~pending.begun =>
          Serves(pending.cand, pending.reply)

\* A latest instant is the last judgement.
LEMMA LatestJudgement ==
  ASSUME NEW rows, NEW m, Judged(rows, m),
         \A r \in rows : r.event.claim # NoClaim => r.event.claim.claimedAt \in Int
  PROVE  LastJudged(rows) = m
<1> DEFINE judged == {r \in rows : /\ r.event.kind \in {"claim", "handoff"}
                                   /\ r.event.claim # NoClaim}
           instants == {0} \cup {r.event.claim.claimedAt : r \in judged}
<1>1. m \in instants /\ \A e \in instants : e <= m /\ e \in Int
  BY DEF Judged, Judging
<1>2. \A n \in instants : (\A e \in instants : e <= n) => n = m
  BY <1>1
<1>3. LastJudged(rows) = CHOOSE n \in instants : \A e \in instants : e <= n
  BY DEF LastJudged
<1> HIDE DEF instants
<1> QED BY <1>1, <1>2, <1>3

\* The journal names claims of the protocol.
LEMMA JournalClaims ==
  ASSUME HubInv
  PROVE  \A r \in journal : r.event.claim # NoClaim => r.event.claim \in Claim
  BY DEF HubInv, TypeOK, Row, Event

\* An append that grants or extends a lease is the last judgement, another one
\* leaves it.
LEMMA AppendJudges ==
  ASSUME HubInv', Judged(journal, LastJudged(journal)), NEW e,
         journal' = journal \cup {[seq |-> lastSeq + 1, event |-> e]}
  PROVE  LET b == IF Judging(e) THEN e.claim.claimedAt ELSE LastJudged(journal)
         IN  b \in Int /\ LastJudged(journal) <= b => Judged(journal', b) /\ LastJudged(journal') = b
<1> DEFINE b == IF Judging(e) THEN e.claim.claimedAt ELSE LastJudged(journal)
           row == [seq |-> lastSeq + 1, event |-> e]
           m == LastJudged(journal)
<1> SUFFICES ASSUME b \in Int, m <= b PROVE Judged(journal', b) /\ LastJudged(journal') = b
  OBVIOUS
<1>1. row.event = e /\ row \in journal' /\ journal \subseteq journal'
  OBVIOUS
<1>2. \A r \in journal' : r \in journal \/ r = row
  OBVIOUS
<1>3. \A r \in journal' : r.event.claim # NoClaim => r.event.claim \in Claim
  BY DEF HubInv, TypeOK, Row, Event
<1> HIDE DEF row
<1>4. \A r \in journal' : r.event.claim # NoClaim => r.event.claim.claimedAt \in Int
  BY <1>3 DEF Claim
<1> HIDE DEF m
<1>5. /\ m \in Nat /\ m = LastJudged(journal)
      /\ \A r \in journal : Judging(r.event) => r.event.claim.claimedAt <= m
      /\ m = 0 \/ \E r \in journal : Judging(r.event) /\ r.event.claim.claimedAt = m
  BY DEF Judged, m
<1>6. \A r \in journal' : Judging(r.event) => r.event.claim.claimedAt <= b
  <2> SUFFICES ASSUME NEW r \in journal', Judging(r.event) PROVE r.event.claim.claimedAt <= b
    OBVIOUS
  <2>1. r.event.claim.claimedAt \in Int
    BY <1>4 DEF Judging
  <2>2. CASE r \in journal
    BY <1>5, <2>1, <2>2
  <2>3. CASE r = row
    BY <1>1, <2>1, <2>3
  <2> QED BY <1>2, <2>2, <2>3
<1>7. b = 0 \/ \E r \in journal' : Judging(r.event) /\ r.event.claim.claimedAt = b
  BY <1>1, <1>5
<1>8. Judged(journal', b)
  BY <1>5, <1>6, <1>7 DEF Judged
<1> QED BY <1>4, <1>8, LatestJudgement

\* Compaction takes no judgement: what it selects is a checkpoint.
LEMMA DeleteJudges ==
  ASSUME HubInv, CompactDelete, Judged(journal, LastJudged(journal))
  PROVE  /\ Judged(journal', LastJudged(journal))
         /\ LastJudged(journal') = LastJudged(journal)
<1> DEFINE m == LastJudged(journal)
<1>1. journal' = {r \in journal : r.seq \notin doomed}
  BY DEF CompactDelete
<1>2. \A r \in journal : Judging(r.event) => r \in journal'
  BY <1>1 DEF Judging, HubInv, JournalInv, DoomedSuperseded
<1> HIDE DEF m
<1>3. Judged(journal', m)
  BY <1>1, <1>2 DEF Judged, m
<1>4. \A r \in journal' : r.event.claim # NoClaim => r.event.claim.claimedAt \in Int
  BY <1>1, JournalClaims DEF Claim
<1> QED BY <1>3, <1>4, LatestJudgement DEF m

\* What replay at an instant serves: the journalled leases that are not due by
\* then, for agreed terms.
LEMMA ReplayServes ==
  ASSUME HubInv, JudgedInv, NEW at \in Int
  PROVE  LET h == Replay(journal, at)
         IN  /\ h \in Registry /\ TermsAgreed(h) /\ h.epochSeq = RestoredEpoch(journal)
             /\ \A t \in Tasks :
                  LET c == RestoredClaim(journal, t)
                  IN  h.claims[t] = IF c = NoClaim \/ c.expires <= at THEN NoClaim ELSE c
<1> DEFINE n == Restored(journal)
           h == Expire(n, at)
<1>1. /\ WellKept(n) /\ n.epochSeq = RestoredEpoch(journal)
      /\ \A t \in Tasks : n.claims[t] = RestoredClaim(journal, t)
      /\ \A t \in Tasks : RestoredClaim(journal, t) # NoClaim =>
            \E r \in journal : r.event.claim = RestoredClaim(journal, t)
      /\ Replay(journal, at) = h
  BY ReplayFacts
<1> HIDE DEF n
<1>2. /\ WellKept(h) /\ h.epochSeq = n.epochSeq
      /\ \A t \in Tasks : Held(h, t) <=> Held(n, t) /\ ~(n.claims[t].expires <= at)
      /\ \A t \in Tasks : Held(h, t) => h.claims[t] = n.claims[t]
  BY <1>1, ExpireEffect
<1> HIDE DEF h
<1>3. \A t \in Tasks :
        LET c == RestoredClaim(journal, t)
        IN  h.claims[t] = IF c = NoClaim \/ c.expires <= at THEN NoClaim ELSE c
  BY <1>1, <1>2 DEF Held
<1>4. TermsAgreed(h)
  BY <1>1, <1>2 DEF TermsAgreed, JudgedInv, Held
<1> QED BY <1>1, <1>2, <1>3, <1>4 DEF WellKept

-----------------------------------------------------------------------------
(* JudgedInv is inductive relative to the other two.                          *)

\* A mutation is judged at the instant it begins, against a copy of the registry
\* that serves exactly what the journal restores at that instant.
LEMMA BeganJudges ==
  ASSUME ~TornBatch, HubInv, MirrorInv, JudgedInv, Began PROVE JudgedInv'
<1> DEFINE h == Expire(live, now)
           g == Replay(journal, now)
           n == pending'.cand
           e == pending'.reply
<1>1. /\ pending = Nil /\ journal' = journal /\ now' = now /\ now \in Int /\ up
      /\ WellKept(live) /\ live.epochSeq = RestoredEpoch(journal)
  BY DEF Began, HubInv, TypeOK, CounterInv, Settled, durable
<1>2. \A t \in Tasks : Mirrors(live, t, RestoredClaim(journal, t), FALSE)
  BY <1>1 DEF MirrorInv, Settled, MidBatch, Mirrors
<1>3. h.claims = g.claims /\ WellKept(h) /\ h.epochSeq = g.epochSeq
  BY <1>1, <1>2, MirrorsAgree, ExpireEffect, ReplayServes
<1>4. /\ TermsAgreed(g) /\ g.epochSeq = RestoredEpoch(journal)
      /\ \A t \in Tasks :
           LET c == RestoredClaim(journal, t)
           IN  g.claims[t] = IF c = NoClaim \/ c.expires <= now THEN NoClaim ELSE c
  BY <1>1, ReplayServes
<1> HIDE DEF h
<1>5. TermsAgreed(h) /\ h \in Registry
  BY <1>3, <1>4 DEF TermsAgreed, Held, WellKept
<1>6. LastJudged(journal) \in Nat /\ LastJudged(journal) <= now
  BY DEF JudgedInv, Judged
<1>7. ASSUME NEW t \in Tasks, Performs(h, n, t, e.kind), e.task = t, e.claim = n.claims[t]
      PROVE  Serves(n, e)
  <2>1. CASE e.kind \in {"claim", "handoff"}
    <3>1. Alone(h, n, t) /\ Judges(h, n, t, now)
      BY <1>5, <1>7, <2>1, MethodsServe DEF Performs
    <3>2. Alone(g, n, t) /\ Judges(g, n, t, now)
      BY <1>3, <3>1 DEF Alone, Judges, Held
    <3>3. e.claim.claimedAt = now
      BY <1>7, <3>1 DEF Judges
    <3>4. now \in LastJudged(journal)..now
      BY <1>1, <1>6
    <3> HIDE DEF n, e
    <3> QED BY <1>7, <2>1, <3>2, <3>3, <3>4 DEF Serves, g
  <2>2. CASE e.kind \notin {"claim", "handoff"}
    <3>1. Rests(h, n, t)
      BY <1>5, <1>7, <2>2, MethodsServe DEF Performs
    <3>2. n.epochSeq = RestoredEpoch(journal)
      BY <1>3, <1>4, <3>1 DEF Rests
    <3>3. ASSUME e.claim # NoClaim
          PROVE  LET c == RestoredClaim(journal, t)
                 IN  /\ c # NoClaim /\ LeaseOf(e.claim) = LeaseOf(c)
                     /\ e.claim.claimedAt = c.claimedAt
                     /\ ~(c.expires <= LastJudged(journal))
      <4> DEFINE c == RestoredClaim(journal, t)
      <4>1. /\ Held(h, t) /\ LeaseOf(e.claim) = LeaseOf(h.claims[t])
            /\ e.claim.claimedAt = h.claims[t].claimedAt
        BY <1>7, <3>1, <3>3 DEF Rests, Held
      <4>2. h.claims[t] = c /\ c # NoClaim /\ ~(c.expires <= now)
        BY <1>3, <1>4, <4>1 DEF Held
      <4>3. c \in Claim
        BY <4>2, RestoredType
      <4>4. ~(c.expires <= LastJudged(journal))
        BY <1>1, <1>6, <4>2, <4>3 DEF Claim
      <4> QED BY <4>1, <4>2, <4>4
    <3> HIDE DEF n, e
    <3> QED BY <1>7, <2>2, <3>2, <3>3 DEF Serves
  <2> QED BY <2>1, <2>2
<1>8. pending'.reply # Nil => Serves(n, e)
  BY <1>7 DEF Began, h
<1>9. Serves(n, e) => Serves(pending.cand, pending.reply)'
  BY <1>1 DEF Serves
<1> QED BY <1>1, <1>8, <1>9 DEF JudgedInv

\* A step that leaves the journal and what is to be appended only gives the
\* request more time.
LEMMA SameJudges ==
  ASSUME JudgedInv, journal' = journal, now \in Int, now' \in Int, now <= now',
         pending' = pending \/ pending' = Nil \/ pending'.reply = Nil
  PROVE  JudgedInv'
<1>1. LastJudged(journal) \in Nat /\ LastJudged(journal) <= now'
  BY DEF JudgedInv, Judged
<1>2. ASSUME pending # Nil, pending.reply # Nil, ~pending.begun, pending' = pending
      PROVE  Serves(pending.cand, pending.reply)'
  <2> DEFINE n == pending.cand
             e == pending.reply
  <2>1. Serves(n, e) /\ pending'.cand = n /\ pending'.reply = e
    BY <1>2 DEF JudgedInv
  <2> HIDE DEF n, e
  <2>2. \A b : b \in LastJudged(journal)..now => b \in LastJudged(journal)..now'
    BY <1>1
  <2> QED BY <2>1, <2>2 DEF Serves
<1> QED BY <1>1, <1>2 DEF JudgedInv

\* Compaction changes nothing the request is judged against.
LEMMA DeleteKeepsJudged ==
  ASSUME HubInv, HubInv', JudgedInv, CompactDelete PROVE JudgedInv'
<1>1. UNCHANGED <<pending, now>> /\ journal' \subseteq journal
  BY DEF CompactDelete, volatile
<1>2. /\ \A t \in Tasks : RestoredClaim(journal', t) = RestoredClaim(journal, t)
      /\ RestoredEpoch(journal') = RestoredEpoch(journal)
      /\ Judged(journal', LastJudged(journal)) /\ LastJudged(journal') = LastJudged(journal)
  BY DeleteRestores, DeleteCounts, DeleteJudges DEF JudgedInv
<1>3. \A at : Replay(journal', at) = Replay(journal, at)
  <2>1. [t \in Tasks |-> RestoredClaim(journal', t)] = [t \in Tasks |-> RestoredClaim(journal, t)]
    BY <1>2
  <2> QED BY <1>2, <2>1 DEF Replay
<1>4. ASSUME pending # Nil, pending.reply # Nil, ~pending.begun
      PROVE  Serves(pending.cand, pending.reply)'
  <2> DEFINE n == pending.cand
             e == pending.reply
  <2>1. /\ Serves(n, e) /\ pending'.cand = n /\ pending'.reply = e
        /\ e.task \in Tasks
    BY <1>1, <1>4, NilAssumption DEF JudgedInv, HubInv, TypeOK, Mutation, Event
  <2> HIDE DEF n, e
  <2> QED BY <1>1, <1>2, <1>3, <2>1 DEF Serves
<1>5. /\ Judged(journal, LastJudged(journal))' /\ (LastJudged(journal) <= now)'
      /\ \A r \in journal' : r.event.claim # NoClaim =>
            Term(r.event.claim) \in MinimumTtl..MaximumTtl
  BY <1>1, <1>2 DEF JudgedInv
<1> QED BY <1>1, <1>4, <1>5 DEF JudgedInv

\* What an append adds to the journal: it names the candidate's counter, and of
\* all tasks only its own is restored to anything else.
LEMMA CommitAppends ==
  ASSUME HubInv, HubInv', MirrorInv, JudgedInv, Commit
  PROVE  \E e \in pending.todo :
           LET n == pending.cand
           IN  /\ journal' = journal \cup {[seq |-> lastSeq + 1, event |-> e]}
               /\ e \in Event /\ e.claim = n.claims[e.task]
               /\ n \in Registry /\ ExclusiveScopes(n)
               /\ RestoredEpoch(journal') = n.epochSeq
               /\ RestoredClaim(journal', e.task) = e.claim
               /\ \A t \in Tasks : t # e.task =>
                     RestoredClaim(journal', t) = RestoredClaim(journal, t)
               /\ now' = now /\ pending'.begun
               /\ \/ e.claim = NoClaim /\ n.epochSeq = RestoredEpoch(journal)
                  \/ Serves(n, e)
<1>1. PICK e \in pending.todo :
        /\ journal' = journal \cup {[seq |-> lastSeq + 1, event |-> e]}
        /\ pending' = [pending EXCEPT !.todo = @ \ {e}, !.begun = TRUE]
  BY DEF Commit
<1> DEFINE n == pending.cand
<1>2. /\ pending # Nil /\ pending \in Mutation /\ lastSeq' = lastSeq + 1 /\ now' = now
      /\ e \in Event /\ n \in Registry
  BY DEF Commit, HubInv, TypeOK, Mutation
<1>3. /\ pending' # Nil /\ pending'.cand = n /\ pending'.todo = pending.todo \ {e}
      /\ pending'.begun
  BY <1>1, <1>2, NilAssumption DEF Mutation
<1>4. /\ RestoredClaim(journal', e.task) = e.claim
      /\ \A t \in Tasks : t # e.task => RestoredClaim(journal', t) = RestoredClaim(journal, t)
  BY <1>1, <1>2, AppendRestores
<1>5. e.claim = n.claims[e.task] /\ ExclusiveScopes(n)
  BY <1>2 DEF HubInv, PendingInv, MirrorInv, Sound, SoundLeases
<1>6. CASE pending.reply = Nil
  <2>1. \A d \in pending.todo : d.claim = NoClaim
    BY <1>2, <1>6 DEF HubInv, PendingInv
  <2>2. n.epochSeq = RestoredEpoch(journal)
    BY <1>2, <2>1 DEF HubInv, CounterInv
  <2>3. n.epochSeq = RestoredEpoch(journal')
    <3>1. CASE pending'.todo = {}
      BY <1>3, <3>1 DEF HubInv, CounterInv
    <3>2. CASE pending'.todo # {}
      <4>1. PICK d \in pending'.todo : d.claim = NoClaim
        BY <1>3, <2>1, <3>2
      <4> QED BY <1>3, <4>1 DEF HubInv, CounterInv
    <3> QED BY <3>1, <3>2
  <2> QED BY <1>1, <1>2, <1>3, <1>4, <1>5, <2>1, <2>2, <2>3
<1>7. CASE pending.reply # Nil
  <2>1. e = pending.reply /\ ~pending.begun /\ pending'.todo = {}
    BY <1>2, <1>3, <1>7 DEF HubInv, PendingInv
  <2>2. n.epochSeq = RestoredEpoch(journal')
    BY <1>3, <2>1 DEF HubInv, CounterInv
  <2>3. Serves(n, e)
    BY <1>2, <1>7, <2>1 DEF JudgedInv
  <2> QED BY <1>1, <1>2, <1>3, <1>4, <1>5, <2>2, <2>3
<1> QED BY <1>6, <1>7

\* An append keeps the terms agreed and moves the last judgement to its own.
LEMMA CommitKeepsJudged ==
  ASSUME HubInv, HubInv', MirrorInv, JudgedInv, Commit PROVE JudgedInv'
<1> DEFINE n == pending.cand
<1>1. PICK e \in pending.todo :
        /\ journal' = journal \cup {[seq |-> lastSeq + 1, event |-> e]}
        /\ e \in Event /\ e.claim = n.claims[e.task]
        /\ now' = now /\ pending'.begun
        /\ e.claim = NoClaim \/ Serves(n, e)
  BY CommitAppends
<1> DEFINE b == IF Judging(e) THEN e.claim.claimedAt ELSE LastJudged(journal)
<1>2. LastJudged(journal) \in Nat /\ LastJudged(journal) <= now /\ now \in Int
  BY DEF JudgedInv, Judged, HubInv, TypeOK
<1>3. b \in Int /\ LastJudged(journal) <= b /\ b <= now
  <2>1. Judging(e) => e.claim.claimedAt \in LastJudged(journal)..now
    BY <1>1 DEF Judging, Serves
  <2> QED BY <1>2, <2>1
<1>4. Judged(journal', b) /\ LastJudged(journal') = b
  BY <1>1, <1>3, AppendJudges DEF JudgedInv
<1>5. e.claim # NoClaim => Term(e.claim) \in MinimumTtl..MaximumTtl
  <2> SUFFICES ASSUME e.claim # NoClaim, Serves(n, e)
               PROVE  Term(e.claim) \in MinimumTtl..MaximumTtl
    BY <1>1
  <2>1. CASE e.kind \in {"claim", "handoff"}
    BY <1>1, <2>1 DEF Serves, Judges
  <2>2. CASE e.kind \notin {"claim", "handoff"}
    <3> DEFINE c == RestoredClaim(journal, e.task)
    <3>1. c # NoClaim /\ LeaseOf(e.claim) = LeaseOf(c) /\ e.claim.claimedAt = c.claimedAt
      BY <2>2 DEF Serves
    <3>2. PICK r \in journal : r.event.claim = c
      BY <1>1, <3>1, ReplayFacts DEF Event
    <3>3. e.claim.expires = c.expires
      BY <3>1 DEF LeaseOf
    <3> QED BY <3>1, <3>2, <3>3 DEF JudgedInv, Term
  <2> QED BY <2>1, <2>2
<1>6. \A r \in journal' : r.event.claim # NoClaim => Term(r.event.claim) \in MinimumTtl..MaximumTtl
  <2> DEFINE row == [seq |-> lastSeq + 1, event |-> e]
  <2>1. row.event = e /\ \A r \in journal' : r \in journal \/ r = row
    BY <1>1
  <2> HIDE DEF row
  <2> QED BY <1>5, <2>1 DEF JudgedInv
<1> QED BY <1>1, <1>3, <1>4, <1>6 DEF JudgedInv

\* A new hub has judged nothing.
LEMMA InitJudgedInv == Init => JudgedInv
<1> SUFFICES ASSUME Init PROVE JudgedInv
  OBVIOUS
<1>1. Judged(journal, 0)
  BY DEF Init, Judged
<1>2. LastJudged(journal) = 0
  BY <1>1, LatestJudgement DEF Init
<1> QED BY <1>1, <1>2 DEF Init, JudgedInv

\* With whole batches and a clock that never steps back every step keeps it.
LEMMA NextJudgedInv ==
  ASSUME ~ClockSteps, ~TornBatch, HubInv, HubInv', MirrorInv, JudgedInv, [Next]_vars
  PROVE  JudgedInv'
<1>0. now \in Int /\ now' \in Int /\ WellKept(live) /\ (pending # Nil => up)
  BY DEF HubInv, TypeOK, CounterInv
<1>1. CASE Advance
  BY <1>0, <1>1, SameJudges DEF Advance, volatile, durable
<1>2. CASE StepBack
  BY <1>2 DEF StepBack
<1>3. CASE Snapshot
  BY <1>0, <1>3, SameJudges DEF Snapshot, durable
<1>4. CASE Commit
  BY <1>4, CommitKeepsJudged
<1>5. CASE CommitFails
  BY <1>0, <1>5, SameJudges DEF CommitFails, durable
<1>6. CASE Publish
  BY <1>0, <1>6, SameJudges DEF Publish, durable
<1>7. CASE ReleaseAbandoned
  <2>1. pending'.reply = Nil /\ UNCHANGED <<durable, now>>
    BY <1>0, <1>7, AbandonBegins DEF Abandoning
  <2> QED BY <1>0, <2>1, SameJudges DEF durable
<1>8. CASE CompactSelect
  BY <1>0, <1>8, SameJudges DEF CompactSelect, volatile
<1>9. CASE CompactDelete
  BY <1>9, DeleteKeepsJudged
<1>10. CASE Crash
  BY <1>0, <1>10, SameJudges DEF Crash, durable
<1>11. CASE Restart
  BY <1>0, <1>11, SameJudges DEF Restart, durable
<1>12. ASSUME NEW o \in operations, NEW t \in Tasks, Retry(o, [o.request EXCEPT !.task = t])
       PROVE  JudgedInv'
  BY <1>0, <1>12, SameJudges DEF Retry, durable
<1>13. ASSUME NEW a \in Agents,
              \/ HandleClaim(a) \/ HandleRenewal(a) \/ HandleTaskUpdate(a)
              \/ HandleCheckpoint(a) \/ HandleRelease(a) \/ HandleHandoff(a)
       PROVE  JudgedInv'
  BY <1>0, <1>13, HandlersBegin, BeganJudges
<1>14. CASE UNCHANGED vars
  BY <1>0, <1>14, SameJudges DEF vars, volatile, durable
<1> QED BY <1>1, <1>2, <1>3, <1>4, <1>5, <1>6, <1>7, <1>8, <1>9, <1>10, <1>11, <1>12, <1>13,
           <1>14 DEF Next

-----------------------------------------------------------------------------
(* The refinement: an append is a request the service grants.                 *)

\* With the same restored claims, counter and last judgement the journal shows
\* the service the same.
LEMMA SameService ==
  ASSUME \A t \in Tasks : RestoredClaim(journal', t) = RestoredClaim(journal, t),
         RestoredEpoch(journal') = RestoredEpoch(journal),
         LastJudged(journal') = LastJudged(journal)
  PROVE  UNCHANGED Service!vars
<1>1. JournalLeases(journal') = JournalLeases(journal)
  BY DEF JournalLeases
<1> QED BY <1>1 DEF Service!vars

\* The leases the service serves at the instant of a step are those replay
\* serves then, when that is no earlier than the last judgement.
LEMMA ReplayIsLive ==
  ASSUME HubInv, JudgedInv, LastJudged(journal') \in Int,
         LastJudged(journal) <= LastJudged(journal')
  PROVE  LeasesOf(Replay(journal, LastJudged(journal'))) = Service!Live
<1> DEFINE at == LastJudged(journal)
           b == LastJudged(journal')
           h == Replay(journal, b)
<1>1. /\ h \in Registry
      /\ \A t \in Tasks :
           LET c == RestoredClaim(journal, t)
           IN  h.claims[t] = IF c = NoClaim \/ c.expires <= b THEN NoClaim ELSE c
  BY ReplayServes
<1>2. at \in Nat /\ b \in Int /\ at <= b
  BY DEF JudgedInv, Judged
<1> HIDE DEF h, at, b
<1>3. ASSUME NEW t \in Tasks PROVE LeasesOf(h)[t] = Service!Live[t]
  <2> DEFINE c == RestoredClaim(journal, t)
  <2>1. c \in Claim \cup {NoClaim}
    BY RestoredType
  <2>2. JournalLeases(journal)[t] = IF c = NoClaim \/ c.expires <= at THEN NoClaim ELSE LeaseOf(c)
    BY DEF JournalLeases, at
  <2>3. h.claims[t] = IF c = NoClaim \/ c.expires <= b THEN NoClaim ELSE c
    BY <1>1
  <2> HIDE DEF c
  <2>4. CASE c = NoClaim
    BY <1>1, <2>2, <2>3, <2>4, LeaseIsNotFree DEF Service!Live, Held
  <2>5. CASE c # NoClaim
    <3>1. c.expires \in Int /\ LeaseOf(c).until = c.expires /\ LeaseOf(c) # NoClaim
      BY <2>1, <2>5, NoLeaseAssumption DEF Claim, LeaseOf
    <3>2. CASE c.expires <= b
      BY <1>1, <1>2, <2>2, <2>3, <3>1, <3>2, LeaseIsNotFree DEF Service!Live, Held, b
    <3>3. CASE ~(c.expires <= b)
      BY <1>1, <1>2, <2>2, <2>3, <2>5, <3>1, <3>3, LeaseIsNotFree DEF Service!Live, Held, b
    <3> QED BY <3>2, <3>3
  <2> QED BY <2>4, <2>5
<1> QED BY <1>3 DEF LeasesOf, Service!Live, h, b

\* An append is a request the service grants, at the instant it was judged.
LEMMA CommitServes ==
  ASSUME HubInv, HubInv', MirrorInv, JudgedInv, Commit
  PROVE  Service!Next \/ UNCHANGED Service!vars
<1> DEFINE n == pending.cand
<1>1. PICK e \in pending.todo :
        /\ journal' = journal \cup {[seq |-> lastSeq + 1, event |-> e]}
        /\ e \in Event /\ e.claim = n.claims[e.task]
        /\ n \in Registry /\ ExclusiveScopes(n)
        /\ RestoredEpoch(journal') = n.epochSeq
        /\ RestoredClaim(journal', e.task) = e.claim
        /\ \A t \in Tasks : t # e.task =>
              RestoredClaim(journal', t) = RestoredClaim(journal, t)
        /\ \/ e.claim = NoClaim /\ n.epochSeq = RestoredEpoch(journal)
           \/ Serves(n, e)
  BY CommitAppends
<1> DEFINE t == e.task
           at == LastJudged(journal)
<1> HIDE DEF n
<1>2. t \in Tasks /\ e.claim \in Claim \cup {NoClaim} /\ at \in Nat
  BY <1>1 DEF Event, JudgedInv, Judged
<1>3. ASSUME ~Judging(e) PROVE LastJudged(journal') = at
  <2>1. LET b == IF Judging(e) THEN e.claim.claimedAt ELSE LastJudged(journal)
        IN  b \in Int /\ LastJudged(journal) <= b => LastJudged(journal') = b
    BY <1>1, AppendJudges DEF JudgedInv
  <2> QED BY <1>2, <1>3, <2>1
<1>4. CASE e.claim = NoClaim /\ n.epochSeq = RestoredEpoch(journal)
  <2>1. LastJudged(journal') = at
    BY <1>3, <1>4 DEF Judging
  <2>2. JournalLeases(journal') = [JournalLeases(journal) EXCEPT ![t] = NoClaim]
    BY <1>1, <1>4, <2>1 DEF JournalLeases
  <2>3. Service!Revoke(t)
    BY <1>1, <1>4, <2>2 DEF Service!Revoke
  <2> QED BY <1>2, <2>1, <2>3 DEF Service!Next, Service!Request
<1>5. CASE e.kind \notin {"claim", "handoff"} /\ Serves(n, e) /\ e.claim # NoClaim
  <2> DEFINE c == RestoredClaim(journal, t)
  <2>1. /\ c # NoClaim /\ LeaseOf(e.claim) = LeaseOf(c) /\ ~(c.expires <= at)
        /\ n.epochSeq = RestoredEpoch(journal)
    BY <1>5 DEF Serves
  <2>2. LastJudged(journal') = at
    BY <1>3, <1>5 DEF Judging
  <2>3. e.claim.expires = c.expires
    BY <2>1 DEF LeaseOf
  <2>4. JournalLeases(journal') = JournalLeases(journal)
    BY <1>1, <1>5, <2>1, <2>2, <2>3 DEF JournalLeases
  <2> QED BY <1>1, <2>1, <2>2, <2>4 DEF Service!vars
<1>6. CASE e.kind \in {"claim", "handoff"} /\ Serves(n, e)
  <2> DEFINE b == e.claim.claimedAt
             h == Replay(journal, b)
             l == LeasesOf(h)
             m == LeasesOf(n)
  <2>1. at <= b /\ b \in Int /\ Alone(h, n, t) /\ Judges(h, n, t, b)
    BY <1>2, <1>6 DEF Serves
  <2>2. /\ e.claim # NoClaim /\ e.claim \in Claim
        /\ ~(e.claim.expires <= b)
    <3>1. e.claim # NoClaim /\ e.claim \in Claim
      BY <1>1, <1>2, <2>1 DEF Judges, Held
    <3>2. e.claim.expires - b \in MinimumTtl..MaximumTtl
      BY <1>1, <2>1 DEF Judges, Term
    <3> QED BY <2>1, <3>1, <3>2, BoundAssumption DEF Claim
  <2>3. LastJudged(journal') = b
    BY <1>1, <1>6, <2>1, <2>2, AppendJudges DEF JudgedInv, Judging
  <2>4. /\ h \in Registry /\ TermsAgreed(h) /\ h.epochSeq = RestoredEpoch(journal)
        /\ \A u \in Tasks :
             LET c == RestoredClaim(journal, u)
             IN  h.claims[u] = IF c = NoClaim \/ c.expires <= b THEN NoClaim ELSE c
    BY <2>1, ReplayServes
  <2>5. l = Service!Live
    BY <2>1, <2>3, ReplayIsLive
  <2> HIDE DEF h, b
  <2>6. m = JournalLeases(journal')
    <3>1. ASSUME NEW u \in Tasks PROVE m[u] = JournalLeases(journal')[u]
      <4> DEFINE c == RestoredClaim(journal', u)
      <4>1. JournalLeases(journal')[u] =
              IF c = NoClaim \/ c.expires <= b THEN NoClaim ELSE LeaseOf(c)
        BY <2>3 DEF JournalLeases
      <4>2. n.claims[u] = IF c = NoClaim \/ c.expires <= b THEN NoClaim ELSE c
        <5>1. CASE u = t
          BY <1>1, <2>2, <5>1 DEF b
        <5>2. CASE u # t
          BY <1>1, <2>1, <2>4, <5>2 DEF Alone
        <5> QED BY <5>1, <5>2
      <4> HIDE DEF c
      <4> QED BY <4>1, <4>2 DEF LeasesOf, Held
    <3> QED BY <3>1 DEF LeasesOf, JournalLeases
  <2>7. \/ \E c \in Agents, sc \in Scopes, term \in MinimumTtl..MaximumTtl :
             /\ l[t] = NoClaim \/ l[t].holder = c \/ l[t].scope = sc
             /\ \A q \in Tasks \ {t} : l[q] # NoClaim /\ l[q].holder # c =>
                   <<sc, l[q].scope>> \notin Overlap
             /\ m = [l EXCEPT ![t] = [holder |-> c, scope |-> sc,
                                      fence |-> h.epochSeq + 1, until |-> b + term]]
             /\ n.epochSeq = h.epochSeq + 1
        \/ \E term \in MinimumTtl..MaximumTtl :
             /\ l[t] # NoClaim /\ m = [l EXCEPT ![t].until = b + term]
             /\ n.epochSeq = h.epochSeq
        \/ (m = l \/ m = [l EXCEPT ![t] = NoClaim]) /\ n.epochSeq = h.epochSeq
    BY <1>1, <1>2, <2>1, <2>4, ServedLeases
  <2>8. /\ LastJudged(journal') = b /\ LastJudged(journal') \in Int
        /\ RestoredEpoch(journal') = n.epochSeq /\ RestoredEpoch(journal) = h.epochSeq
        /\ t \in Tasks
    BY <1>1, <1>2, <2>1, <2>3, <2>4
  <2> HIDE DEF l, m, t
  <2>9. ASSUME NEW c \in Agents, NEW sc \in Scopes, NEW term \in MinimumTtl..MaximumTtl,
               l[t] = NoClaim \/ l[t].holder = c \/ l[t].scope = sc,
               \A q \in Tasks \ {t} : l[q] # NoClaim /\ l[q].holder # c =>
                     <<sc, l[q].scope>> \notin Overlap,
               m = [l EXCEPT ![t] = [holder |-> c, scope |-> sc,
                                     fence |-> h.epochSeq + 1, until |-> b + term]],
               n.epochSeq = h.epochSeq + 1
        PROVE  Service!Next
    <3>1. Service!Issue(t, c, sc, term)
      BY <2>5, <2>6, <2>8, <2>9 DEF Service!Issue, Service!Clear
    <3>2. Service!Grant(t, c, sc, term) \/ Service!Pass(t, c, term)
      BY <2>5, <2>9, <3>1 DEF Service!Grant, Service!Pass
    <3>3. Service!Request(t)
      BY <3>2 DEF Service!Request
    <3> QED BY <2>8, <3>3 DEF Service!Next
  <2>10. ASSUME NEW term \in MinimumTtl..MaximumTtl,
                l[t] # NoClaim, m = [l EXCEPT ![t].until = b + term],
                n.epochSeq = h.epochSeq
         PROVE  Service!Next
    <3>1. Service!Extend(t, term)
      BY <2>5, <2>6, <2>8, <2>10 DEF Service!Extend
    <3>2. Service!Request(t)
      BY <3>1 DEF Service!Request
    <3> QED BY <2>8, <3>2 DEF Service!Next
  <2>11. ASSUME m = l, n.epochSeq = h.epochSeq PROVE Service!Next
    BY <2>5, <2>6, <2>8, <2>11 DEF Service!Next, Service!Sweep
  <2>12. ASSUME m = [l EXCEPT ![t] = NoClaim], n.epochSeq = h.epochSeq PROVE Service!Next
    <3>1. Service!GiveUp(t)
      BY <2>5, <2>6, <2>8, <2>12 DEF Service!GiveUp
    <3> QED BY <2>8, <3>1 DEF Service!Next, Service!Request
  <2> QED BY <2>7, <2>9, <2>10, <2>11, <2>12
<1>7. CASE e.claim = NoClaim /\ Serves(n, e)
  <2>1. CASE e.kind \in {"claim", "handoff"}
    BY <1>6, <1>7, <2>1
  <2>2. CASE e.kind \notin {"claim", "handoff"}
    BY <1>4, <1>7, <2>2 DEF Serves
  <2> QED BY <2>1, <2>2
<1> QED BY <1>1, <1>4, <1>5, <1>6, <1>7

\* Everything else a hub does is hidden from the service.
LEMMA NextServes ==
  ASSUME HubInv, HubInv', MirrorInv, JudgedInv, [Next]_vars
  PROVE  Service!Next \/ UNCHANGED Service!vars
<1>1. CASE Commit
  BY <1>1, CommitServes
<1>2. CASE CompactDelete
  BY <1>2, DeleteRestores, DeleteCounts, DeleteJudges, SameService DEF JudgedInv
<1>3. CASE journal' = journal
  BY <1>3, SameService
<1>4. ASSUME NEW a \in Agents,
             \/ HandleClaim(a) \/ HandleRenewal(a) \/ HandleTaskUpdate(a)
             \/ HandleCheckpoint(a) \/ HandleRelease(a) \/ HandleHandoff(a)
      PROVE  journal' = journal
  <2> USE DEF Begin, durable
  <2>1. CASE HandleClaim(a)
    BY <2>1 DEF HandleClaim
  <2>2. CASE HandleRenewal(a)
    BY <2>2 DEF HandleRenewal
  <2>3. CASE HandleTaskUpdate(a)
    BY <2>3 DEF HandleTaskUpdate
  <2>4. CASE HandleCheckpoint(a)
    BY <2>4 DEF HandleCheckpoint
  <2>5. CASE HandleRelease(a)
    BY <2>5 DEF HandleRelease
  <2>6. CASE HandleHandoff(a)
    BY <2>6 DEF HandleHandoff
  <2> QED BY <1>4, <2>1, <2>2, <2>3, <2>4, <2>5, <2>6
<1>5. ASSUME NEW o \in operations, NEW t \in Tasks, Retry(o, [o.request EXCEPT !.task = t])
      PROVE  journal' = journal
  BY <1>5 DEF Retry, durable
<1> QED BY <1>1, <1>2, <1>3, <1>4, <1>5 DEF Next, vars, volatile, durable, Advance, StepBack,
            Snapshot, CommitFails, Publish, ReleaseAbandoned, CompactSelect, Crash, Restart

\* The journal alone implements the lease service, for any agents, tasks, scopes
\* and requests: whatever a snapshot expires during an append, whatever a crash
\* loses, a restart restores or a compaction deletes, each append is a request
\* the service grants at the instant it was judged (run, seed_hub_state).
THEOREM JournalImplementsService == ~ClockSteps /\ ~TornBatch /\ Spec => JournalServesLeases
<1> SUFFICES ASSUME ~ClockSteps, ~TornBatch PROVE Spec => JournalServesLeases
  OBVIOUS
<1> DEFINE JInv == HubInv /\ MirrorInv /\ JudgedInv
<1>1. Init => JInv
  BY InitHubInv, InitMirrorInv, InitJudgedInv
<1>2. JInv /\ [Next]_vars => JInv'
  BY NextHubInv, NextMirrorInv, NextJudgedInv
<1>3. JInv /\ [Next]_vars => [Service!Next]_(Service!vars)
  BY NextHubInv, NextServes
<1>4. Init => Service!Init
  <2> SUFFICES ASSUME Init PROVE Service!Init
    OBVIOUS
  <2>1. Judged(journal, 0) /\ Top(journal, 0)
    BY DEF Init, Judged, Top
  <2>2. LastJudged(journal) = 0 /\ RestoredEpoch(journal) = 0
    BY <2>1, LatestJudgement, TopRestored DEF Init
  <2>3. \A t \in Tasks : RestoredClaim(journal, t) = NoClaim
    BY DEF Init, RestoredClaim
  <2>4. JournalLeases(journal) = [t \in Tasks |-> NoClaim]
    BY <2>3 DEF JournalLeases
  <2> QED BY <2>2, <2>4 DEF Service!Init
<1> HIDE DEF JInv
<1> QED BY <1>1, <1>2, <1>3, <1>4, PTL DEF Spec, JournalServesLeases, Service!Spec
=============================================================================
