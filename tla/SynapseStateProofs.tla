------------------------ MODULE SynapseStateProofs ------------------------
(***************************************************************************)
(* What each method of SynapseState preserves, for every registry and every *)
(* argument.  Sound(s) is the inductive strengthening: the named parts of   *)
(* the registry invariant, each of which some method needs of the registry  *)
(* it starts from.                                                          *)
(***************************************************************************)
EXTENDS SynapseState, FiniteSetTheorems, TLAPS

\* The leases part of the invariant.
SoundLeases(s) ==
    /\ s \in Registry
    /\ ExclusiveScopes(s)
    /\ IndexCovers(s)
    /\ MintedEpochs(s)
    /\ DistinctEpochs(s)
    /\ OneResumeToken(s)

\* The custody part; it needs ExclusiveScopes when custody is taken.
SoundCustody(s) ==
    /\ FrozenClaims(s)
    /\ CustodyExclusive(s)
    /\ DisjointCustody(s)
    /\ RetainedCustody(s)

Sound(s) == SoundLeases(s) /\ SoundCustody(s) /\ WithinQuota(s)

-----------------------------------------------------------------------------
\* The clamped TTL is a positive natural number (_clamp_ttl).
LEMMA ClampType == ASSUME NEW ttl \in Nat PROVE ClampTtl(ttl) \in Nat
  BY BoundAssumption DEF ClampTtl

\* The empty registry of a new hub is sound (__init__).
LEMMA InitSound == Sound(InitRegistry)
<1> DEFINE s == InitRegistry
<1>1. s \in Registry
  BY DEF InitRegistry, Registry
<1>2. \A t \in Tasks : ~Held(s, t)
  BY DEF InitRegistry, Held
<1>3. Witnesses(s) = {}
  BY DEF InitRegistry, Witnesses
<1>4. SoundLeases(s)
  BY <1>1, <1>2 DEF SoundLeases, ExclusiveScopes, IndexCovers, MintedEpochs,
                    DistinctEpochs, OneResumeToken
<1>5. SoundCustody(s)
  BY <1>2, <1>3 DEF SoundCustody, FrozenClaims, CustodyExclusive, DisjointCustody,
                    RetainedCustody, InitRegistry
<1>6. WithinQuota(s)
  <2> SUFFICES ASSUME NEW p \in Principals
               PROVE  Cardinality(ChargedTo(s, p)) <= MaxClaimsPerAgent
    BY DEF WithinQuota
  <2>1. ChargedTo(s, p) = {}
    BY <1>2 DEF ChargedTo
  <2> QED BY <2>1, FS_EmptySet, BoundAssumption
<1> QED BY <1>4, <1>5, <1>6 DEF Sound

-----------------------------------------------------------------------------
\* Expiry only removes claims: a lease that is still there is untouched, and
\* generations and custody are left alone (_expire_claims).
LEMMA ExpireFacts ==
  ASSUME NEW s \in Registry, NEW now \in Int
  PROVE  LET h == Expire(s, now)
         IN  /\ h \in Registry
             /\ \A t \in Tasks : Held(h, t) => /\ Held(s, t)
                                               /\ h.claims[t] = s.claims[t]
                                               /\ h.expired[t] = s.expired[t]
             /\ h.epochSeq = s.epochSeq
             /\ h.custody = s.custody
             /\ h.retained = s.retained
             /\ h.index = s.index \ Due(s, now)
             /\ \A t \in Tasks : Held(h, t) <=> Held(s, t) /\ t \notin Lapsed(s, now)
<1> DEFINE h == Expire(s, now)
           gone == Lapsed(s, now)
<1>1. /\ h.claims = [t \in Tasks |-> IF t \in gone THEN NoClaim ELSE s.claims[t]]
      /\ h.expired = [t \in Tasks |-> IF t \in gone /\ s.claims[t].checkpoint # NoToken
                                      THEN s.claims[t].checkpoint ELSE s.expired[t]]
      /\ h.index = s.index \ Due(s, now)
      /\ h.epochSeq = s.epochSeq /\ h.custody = s.custody /\ h.retained = s.retained
  BY DEF Expire, Registry
<1>2. \A t \in gone : t \in Tasks /\ s.claims[t] \in Claim
  BY DEF Lapsed, Held, Registry
<1>3. h \in Registry
  <2>1. h.claims \in [Tasks -> Claim \cup {NoClaim}]
    BY <1>1 DEF Registry
  <2>2. h.expired \in [Tasks -> Tokens \cup {NoToken}]
    BY <1>1, <1>2 DEF Registry, Claim
  <2>3. h.index \in SUBSET Lease
    BY <1>1 DEF Registry
  <2> QED BY <1>1, <2>1, <2>2, <2>3 DEF Expire, Registry
<1>4. \A t \in Tasks : Held(h, t) <=> Held(s, t) /\ t \notin gone
  BY <1>1 DEF Held
<1>5. \A t \in Tasks : Held(h, t) => h.claims[t] = s.claims[t] /\ h.expired[t] = s.expired[t]
  BY <1>1, <1>4
<1> QED BY <1>1, <1>3, <1>4, <1>5

\* Dropping lapsed claims preserves every part of the invariant: in particular
\* an entry is popped only together with the lease it was the entry of.
LEMMA ExpireSound ==
  ASSUME NEW s, Sound(s), NEW now \in Int PROVE Sound(Expire(s, now))
<1> DEFINE h == Expire(s, now)
<1>0. s \in Registry
  BY DEF Sound, SoundLeases
<1>1. /\ h \in Registry
      /\ \A t \in Tasks : Held(h, t) => /\ Held(s, t)
                                        /\ h.claims[t] = s.claims[t]
                                        /\ h.expired[t] = s.expired[t]
      /\ h.epochSeq = s.epochSeq /\ h.custody = s.custody /\ h.retained = s.retained
      /\ h.index = s.index \ Due(s, now)
      /\ \A t \in Tasks : Held(h, t) <=> Held(s, t) /\ t \notin Lapsed(s, now)
  BY <1>0, ExpireFacts
<1> HIDE DEF h
<1>2. IndexCovers(h)
  <2> SUFFICES ASSUME NEW t \in Tasks, Held(h, t)
               PROVE  [expires |-> h.claims[t].expires, task |-> t,
                       epoch |-> h.claims[t].epoch] \in h.index
    BY DEF IndexCovers
  <2> DEFINE e == [expires |-> s.claims[t].expires, task |-> t,
                   epoch |-> s.claims[t].epoch]
  <2>1. Held(s, t) /\ h.claims[t] = s.claims[t] /\ t \notin Lapsed(s, now)
    BY <1>1
  <2>2. e \in s.index
    BY <2>1 DEF Sound, SoundLeases, IndexCovers
  <2>3. e \notin Due(s, now)
    BY <2>1, <2>2 DEF Due, Lapsed
  <2> QED BY <1>1, <2>1, <2>2, <2>3
<1>3. ExclusiveScopes(h) /\ MintedEpochs(h) /\ DistinctEpochs(h) /\ OneResumeToken(h)
  BY <1>1 DEF Sound, SoundLeases, ExclusiveScopes, MintedEpochs, DistinctEpochs,
              OneResumeToken
<1>4. SoundCustody(h)
  <2>1. Witnesses(h) = Witnesses(s)
    BY <1>1 DEF Witnesses
  <2>2. FrozenClaims(h)
    <3> SUFFICES ASSUME NEW w \in Witnesses(h), Held(h, w.task) PROVE Capture(h, w.task) = w
      BY DEF FrozenClaims
    <3>1. w.task \in Tasks
      BY <1>1 DEF Witnesses, Registry, Witness
    <3> QED BY <1>1, <2>1, <3>1 DEF Sound, SoundCustody, FrozenClaims, Capture
  <2>3. CustodyExclusive(h)
    BY <1>1, <2>1 DEF Sound, SoundCustody, CustodyExclusive
  <2>4. DisjointCustody(h) /\ RetainedCustody(h)
    BY <1>1 DEF Sound, SoundCustody, DisjointCustody, RetainedCustody
  <2> QED BY <2>2, <2>3, <2>4 DEF SoundCustody
<1>5. WithinQuota(h)
  <2> SUFFICES ASSUME NEW p \in Principals
               PROVE  Cardinality(ChargedTo(h, p)) <= MaxClaimsPerAgent
    BY DEF WithinQuota
  <2>1. ChargedTo(h, p) \subseteq ChargedTo(s, p) /\ ChargedTo(s, p) \subseteq Tasks
    BY <1>1 DEF ChargedTo
  <2>2. IsFiniteSet(ChargedTo(s, p))
    BY <2>1, FS_Subset, FiniteAssumption
  <2>3. /\ Cardinality(ChargedTo(h, p)) \in Nat
        /\ Cardinality(ChargedTo(s, p)) \in Nat
        /\ Cardinality(ChargedTo(h, p)) <= Cardinality(ChargedTo(s, p))
    BY <2>1, <2>2, FS_Subset, FS_CardinalityType
  <2> QED BY <2>3, BoundAssumption DEF Sound, WithinQuota
<1> QED BY <1>1, <1>2, <1>3, <1>4, <1>5 DEF Sound, SoundLeases, h

-----------------------------------------------------------------------------
\* Installing a claim touches its own task and the index only, and leaves the
\* index covering it and every other lease (_track_lease, LeaseIndex.track).
LEMMA WithClaimFacts ==
  ASSUME NEW s \in Registry, NEW t \in Tasks, NEW c \in Claim
  PROVE  LET n == WithClaim(s, t, c)
         IN  /\ n \in Registry
             /\ n.claims = [s.claims EXCEPT ![t] = c]
             /\ n.expired = s.expired /\ n.epochSeq = s.epochSeq
             /\ n.custody = s.custody /\ n.retained = s.retained
             /\ (\A u \in Tasks \ {t} : Held(s, u) =>
                   [expires |-> s.claims[u].expires, task |-> u,
                    epoch |-> s.claims[u].epoch] \in s.index) => IndexCovers(n)
<1> DEFINE claims == [s.claims EXCEPT ![t] = c]
           entry == [expires |-> c.expires, task |-> t, epoch |-> c.epoch]
           n == WithClaim(s, t, c)
<1>1. /\ claims \in [Tasks -> Claim \cup {NoClaim}] /\ claims[t] = c
      /\ \A u \in Tasks \ {t} : claims[u] = s.claims[u]
  BY DEF Registry
<1>2. /\ n.claims = claims /\ n.index = Track(s.index, claims, t)
      /\ n.expired = s.expired /\ n.epochSeq = s.epochSeq
      /\ n.custody = s.custody /\ n.retained = s.retained
  BY DEF WithClaim, Registry
<1> HIDE DEF claims
<1>3. n.index = Rebuilt(claims) \/ n.index = s.index \cup {entry}
  BY <1>1, <1>2 DEF Track
<1>4. Rebuilt(claims) \subseteq Lease
  BY <1>1 DEF Rebuilt, Lease, Claim
<1>5. entry \in Lease
  BY DEF Lease, Claim
<1>6. n.index \in SUBSET Lease
  BY <1>3, <1>4, <1>5 DEF Registry
<1>7. n \in Registry
  <2>1. n = [s EXCEPT !.claims = claims, !.index = Track(s.index, claims, t)]
    BY DEF WithClaim, claims
  <2>2. Track(s.index, claims, t) \in SUBSET Lease
    BY <1>2, <1>6
  <2> QED BY <1>1, <2>1, <2>2 DEF Registry
<1>8. ASSUME \A u \in Tasks \ {t} : Held(s, u) =>
               [expires |-> s.claims[u].expires, task |-> u,
                epoch |-> s.claims[u].epoch] \in s.index
      PROVE  IndexCovers(n)
  <2> SUFFICES ASSUME NEW u \in Tasks, Held(n, u)
               PROVE  [expires |-> n.claims[u].expires, task |-> u,
                       epoch |-> n.claims[u].epoch] \in n.index
    BY DEF IndexCovers
  <2>1. CASE n.index = Rebuilt(claims)
    BY <1>2, <2>1 DEF Rebuilt, Held
  <2>2. CASE n.index = s.index \cup {entry}
    BY <1>1, <1>2, <1>8, <2>2 DEF Held
  <2> QED BY <1>3, <2>1, <2>2
<1> QED BY <1>2, <1>7, <1>8 DEF claims

\* Replacing the lease of one task keeps the invariant when the new lease is
\* freshly or still uniquely numbered, contends with no one else's, respects
\* custody and the quotas, and leaves no token behind.  Every granting or
\* updating method is an instance.
LEMMA ReplaceSound ==
  ASSUME NEW s, Sound(s), NEW n \in Registry, NEW t \in Tasks, NEW c \in Claim,
         n.claims = [s.claims EXCEPT ![t] = c],
         IndexCovers(n),
         n.custody = s.custody, n.retained = s.retained,
         \A u \in Tasks \ {t} : n.expired[u] = s.expired[u],
         n.expired[t] = NoToken,
         n.epochSeq >= s.epochSeq,
         c.epoch \in 1..n.epochSeq, c.ownershipEpoch \in 1..c.epoch,
         \A u \in Tasks \ {t} : Held(s, u) => s.claims[u].epoch # c.epoch,
         ~ScopeConflict(s, t, c.owner, c.scope),
         \A w \in Witnesses(s) : /\ w.task # t
                                 /\ WitnessConflicts(w, t, c.scope) => c.owner = w.owner,
         WithinQuota(n)
  PROVE  Sound(n)
<1>0. s \in Registry
  BY DEF Sound, SoundLeases
<1>1. /\ n.claims[t] = c /\ Held(n, t)
      /\ \A u \in Tasks \ {t} : n.claims[u] = s.claims[u] /\ (Held(n, u) <=> Held(s, u))
  BY <1>0, NoClaimAssumption DEF Registry, Held
<1>2. ExclusiveScopes(n)
  <2> SUFFICES ASSUME NEW u \in Tasks, NEW v \in Tasks, Held(n, u), Held(n, v), u # v,
                      <<n.claims[u].scope, n.claims[v].scope>> \in Overlap
               PROVE  n.claims[u].owner = n.claims[v].owner
    BY DEF ExclusiveScopes
  <2>0. n.claims[u].scope \in Scopes /\ n.claims[v].scope \in Scopes
    BY DEF Registry, Claim, Held
  <2>1. CASE u = t
    BY <1>1, <2>1 DEF ScopeConflict
  <2>2. CASE v = t
    BY <1>1, <2>0, <2>2, OverlapAssumption DEF ScopeConflict
  <2>3. CASE u # t /\ v # t
    BY <1>1, <2>3 DEF Sound, SoundLeases, ExclusiveScopes
  <2> QED BY <2>1, <2>2, <2>3
<1>3. MintedEpochs(n)
  <2> SUFFICES ASSUME NEW u \in Tasks, Held(n, u)
               PROVE  /\ n.claims[u].epoch \in 1..n.epochSeq
                      /\ n.claims[u].ownershipEpoch \in 1..n.claims[u].epoch
    BY DEF MintedEpochs
  <2>1. CASE u = t
    BY <1>1, <2>1
  <2>2. CASE u # t
    <3>1. /\ s.claims[u].epoch \in 1..s.epochSeq
          /\ s.claims[u].ownershipEpoch \in 1..s.claims[u].epoch
      BY <1>1, <2>2 DEF Sound, SoundLeases, MintedEpochs
    <3>2. s.epochSeq \in Nat /\ n.epochSeq \in Nat
      BY <1>0 DEF Registry
    <3> QED BY <1>1, <2>2, <3>1, <3>2
  <2> QED BY <2>1, <2>2
<1>4. DistinctEpochs(n)
  BY <1>1 DEF Sound, SoundLeases, DistinctEpochs
<1>5. OneResumeToken(n)
  BY <1>1 DEF Sound, SoundLeases, OneResumeToken
<1>6. SoundCustody(n)
  <2>1. Witnesses(n) = Witnesses(s)
    BY DEF Witnesses
  <2>2. FrozenClaims(n)
    <3> SUFFICES ASSUME NEW w \in Witnesses(n), Held(n, w.task) PROVE Capture(n, w.task) = w
      BY DEF FrozenClaims
    <3>1. w.task \in Tasks
      BY DEF Witnesses, Registry, Witness
    <3> QED BY <1>1, <2>1, <3>1 DEF Sound, SoundCustody, FrozenClaims, Capture
  <2>3. CustodyExclusive(n)
    BY <1>1, <2>1 DEF Sound, SoundCustody, CustodyExclusive
  <2>4. DisjointCustody(n) /\ RetainedCustody(n)
    BY DEF Sound, SoundCustody, DisjointCustody, RetainedCustody
  <2> QED BY <2>2, <2>3, <2>4 DEF SoundCustody
<1> QED BY <1>2, <1>3, <1>4, <1>5, <1>6 DEF Sound, SoundLeases

\* Replacing a lease by one charged to the same principal moves no charge.
LEMMA SameCharge ==
  ASSUME NEW s \in Registry, WithinQuota(s), NEW n, NEW t \in Tasks, Held(s, t),
         NEW c \in Claim, c.principal = s.claims[t].principal,
         n.claims = [s.claims EXCEPT ![t] = c]
  PROVE  WithinQuota(n)
<1> SUFFICES ASSUME NEW p \in Principals
             PROVE  Cardinality(ChargedTo(n, p)) <= MaxClaimsPerAgent
  BY DEF WithinQuota
<1>1. \A u \in Tasks : (Held(n, u) <=> Held(s, u)) /\
                       (Held(n, u) => n.claims[u].principal = s.claims[u].principal)
  BY NoClaimAssumption DEF Registry, Held
<1>2. ChargedTo(n, p) = ChargedTo(s, p)
  BY <1>1 DEF ChargedTo
<1> QED BY <1>2 DEF WithinQuota

\* A registry that charges a principal with fewer leases is within quota.
LEMMA FewerCharged ==
  ASSUME NEW X, NEW Y, X \subseteq Y, Y \subseteq Tasks,
         Cardinality(Y) <= MaxClaimsPerAgent
  PROVE  Cardinality(X) <= MaxClaimsPerAgent
<1>1. IsFiniteSet(Y) /\ IsFiniteSet(X)
  BY FS_Subset, FiniteAssumption
<1>2. /\ Cardinality(X) \in Nat /\ Cardinality(Y) \in Nat
      /\ Cardinality(X) <= Cardinality(Y)
  BY <1>1, FS_Subset, FS_CardinalityType
<1> QED BY <1>2, BoundAssumption

\* Replacing a lease by one with the same number, scope, owner and principal
\* keeps the invariant when no reservation witnesses the task.
LEMMA KeepSound ==
  ASSUME NEW s, Sound(s), NEW n \in Registry, NEW t \in Tasks, NEW c \in Claim,
         Held(s, t), ~TaskHeldByCustody(s, t),
         c.owner = s.claims[t].owner, c.scope = s.claims[t].scope,
         c.epoch = s.claims[t].epoch, c.principal = s.claims[t].principal,
         c.ownershipEpoch = s.claims[t].ownershipEpoch,
         n.claims = [s.claims EXCEPT ![t] = c],
         IndexCovers(n),
         n.custody = s.custody, n.retained = s.retained,
         n.expired = s.expired, n.epochSeq = s.epochSeq
  PROVE  Sound(n)
<1>0. s \in Registry /\ s.epochSeq \in Nat
  BY DEF Sound, SoundLeases, Registry
<1>1. c.epoch \in 1..n.epochSeq /\ c.ownershipEpoch \in 1..c.epoch
  BY DEF Sound, SoundLeases, MintedEpochs
<1>2. \A u \in Tasks \ {t} : Held(s, u) => s.claims[u].epoch # c.epoch
  BY DEF Sound, SoundLeases, DistinctEpochs
<1>3. ~ScopeConflict(s, t, c.owner, c.scope)
  BY DEF Sound, SoundLeases, ExclusiveScopes, ScopeConflict
<1>4. \A w \in Witnesses(s) : /\ w.task # t
                              /\ WitnessConflicts(w, t, c.scope) => c.owner = w.owner
  BY DEF TaskHeldByCustody, Sound, SoundCustody, CustodyExclusive
<1>5. WithinQuota(n)
  BY <1>0, SameCharge DEF Sound
<1>6. n.expired[t] = NoToken /\ \A u \in Tasks \ {t} : n.expired[u] = s.expired[u]
  BY DEF Sound, SoundLeases, OneResumeToken
<1>7. n.epochSeq >= s.epochSeq
  BY <1>0
<1> QED BY <1>1, <1>2, <1>3, <1>4, <1>5, <1>6, <1>7, ReplaceSound

\* A granted claim keeps the invariant (claim, past its guards).
LEMMA GrantedSound ==
  ASSUME NEW s, Sound(s), NEW now \in Int, NEW a \in Agents, NEW p \in Principals,
         NEW t \in Tasks, NEW scope \in Scopes, NEW ttl \in Nat, NEW ru \in BOOLEAN,
         ClaimOk(s, now, a, p, t, scope, ru)
  PROVE  Sound(Granted(s, now, a, p, t, scope, ttl))
<1> DEFINE epoch == s.epochSeq + 1
           c == [owner |-> a, principal |-> p, scope |-> scope,
                 claimedAt |-> now, expires |-> now + ClampTtl(ttl),
                 epoch |-> epoch, ownershipEpoch |-> Anchor(s, t, a, scope, epoch),
                 status |-> "claimed", version |-> 0,
                 checkpoint |-> IF KeepsToken(s, t, a)
                                THEN s.claims[t].checkpoint ELSE s.expired[t]]
           m == [s EXCEPT !.epochSeq = epoch,
                          !.expired[t] = IF KeepsToken(s, t, a) THEN @ ELSE NoToken]
           n == WithClaim(m, t, c)
<1>0. s \in Registry /\ s.epochSeq \in Nat
  BY DEF Sound, SoundLeases, Registry
<1>1. ClampTtl(ttl) \in Nat
  BY ClampType
<1>2. Held(s, t) => /\ s.claims[t] \in Claim
                    /\ s.claims[t].epoch \in 1..s.epochSeq
                    /\ s.claims[t].ownershipEpoch \in 1..s.claims[t].epoch
  BY <1>0 DEF Sound, SoundLeases, MintedEpochs, Registry, Held
<1>3. Anchor(s, t, a, scope, epoch) \in 1..epoch
  BY <1>0, <1>2 DEF Anchor
<1>4. (IF KeepsToken(s, t, a) THEN s.claims[t].checkpoint ELSE s.expired[t])
          \in Tokens \cup {NoToken}
  BY <1>0, <1>2 DEF KeepsToken, Claim, Registry
<1>5. c \in Claim
  BY <1>0, <1>1, <1>3, <1>4 DEF Claim, Statuses
<1>6. /\ m \in Registry /\ m.claims = s.claims /\ m.index = s.index
      /\ m.custody = s.custody /\ m.retained = s.retained /\ m.epochSeq = epoch
      /\ \A u \in Tasks \ {t} : m.expired[u] = s.expired[u]
      /\ m.expired[t] = IF KeepsToken(s, t, a) THEN s.expired[t] ELSE NoToken
  <2> DEFINE tok == IF KeepsToken(s, t, a) THEN s.expired[t] ELSE NoToken
             expired == [s.expired EXCEPT ![t] = tok]
  <2>1. tok \in Tokens \cup {NoToken}
    BY <1>0 DEF Registry
  <2>2. /\ expired \in [Tasks -> Tokens \cup {NoToken}] /\ expired[t] = tok
        /\ \A u \in Tasks \ {t} : expired[u] = s.expired[u]
    BY <1>0, <2>1 DEF Registry
  <2>3. m = [s EXCEPT !.epochSeq = epoch, !.expired = expired]
    BY <1>0 DEF Registry
  <2> HIDE DEF expired, tok, m
  <2>4. /\ m \in Registry /\ m.claims = s.claims /\ m.index = s.index
        /\ m.custody = s.custody /\ m.retained = s.retained /\ m.epochSeq = epoch
        /\ m.expired = expired
    <3>1. epoch \in Nat
      BY <1>0
    <3> HIDE DEF epoch
    <3> QED BY <1>0, <2>2, <2>3, <3>1 DEF Registry
  <2> QED BY <2>2, <2>4 DEF tok
<1>7. m.expired[t] = NoToken
  BY <1>6 DEF KeepsToken, Sound, SoundLeases, OneResumeToken
<1>8. \A u \in Tasks : (Held(m, u) <=> Held(s, u))
  BY <1>6 DEF Held
<1>c. /\ c.owner = a /\ c.principal = p /\ c.scope = scope /\ c.epoch = epoch
      /\ c.ownershipEpoch \in 1..epoch
  BY <1>3
<1> HIDE DEF c, m
<1>9. /\ n \in Registry /\ n.claims = [s.claims EXCEPT ![t] = c]
      /\ n.expired = m.expired /\ n.epochSeq = epoch
      /\ n.custody = s.custody /\ n.retained = s.retained
      /\ IndexCovers(n)
  BY <1>5, <1>6, <1>8, WithClaimFacts DEF Sound, SoundLeases, IndexCovers
<1> HIDE DEF n
<1>10. \A u \in Tasks \ {t} : Held(s, u) => s.claims[u].epoch # c.epoch
  BY <1>0, <1>c DEF Sound, SoundLeases, MintedEpochs
<1>11. ~ScopeConflict(s, t, c.owner, c.scope)
  BY <1>c DEF ClaimOk
<1>12. \A w \in Witnesses(s) : ~WitnessConflicts(w, t, c.scope) /\ w.task # t
  BY <1>c DEF ClaimOk, ScopeHeldByCustody, WitnessConflicts
<1>13. WithinQuota(n)
  <2>1. CASE Held(s, t) /\ s.claims[t].owner = a /\ s.claims[t].principal = p
    BY <1>0, <1>5, <1>9, <1>c, <2>1, SameCharge DEF Sound
  <2>2. CASE Cardinality(ChargedTo(s, p)) < MaxClaimsPerAgent
    <3> SUFFICES ASSUME NEW q \in Principals
                 PROVE  Cardinality(ChargedTo(n, q)) <= MaxClaimsPerAgent
      BY DEF WithinQuota
    <3>1. /\ ChargedTo(s, q) \subseteq Tasks
          /\ q # p => ChargedTo(n, q) \subseteq ChargedTo(s, q)
          /\ q = p => ChargedTo(n, q) \subseteq ChargedTo(s, q) \cup {t}
      BY <1>0, <1>5, <1>9, <1>c DEF ChargedTo, Held, Registry
    <3>2. IsFiniteSet(ChargedTo(s, q)) /\ IsFiniteSet(ChargedTo(s, q) \cup {t})
      BY <3>1, FS_Subset, FiniteAssumption, FS_AddElement
    <3>3. /\ Cardinality(ChargedTo(s, q)) \in Nat
          /\ Cardinality(ChargedTo(s, q) \cup {t}) <= Cardinality(ChargedTo(s, q)) + 1
      BY <3>2, FS_AddElement, FS_CardinalityType
    <3>4. /\ q # p => Cardinality(ChargedTo(n, q)) <= Cardinality(ChargedTo(s, q))
          /\ q = p => Cardinality(ChargedTo(n, q)) <= Cardinality(ChargedTo(s, q) \cup {t})
      BY <3>1, <3>2, FS_Subset
    <3>5. Cardinality(ChargedTo(s, q)) <= MaxClaimsPerAgent
      BY DEF Sound, WithinQuota
    <3>6. Cardinality(ChargedTo(n, q)) \in Nat /\ Cardinality(ChargedTo(s, q) \cup {t}) \in Nat
      BY <3>1, <3>2, FS_Subset, FS_CardinalityType
    <3> QED BY <2>2, <3>3, <3>4, <3>5, <3>6, BoundAssumption
  <2> QED BY <2>1, <2>2 DEF ClaimOk, QuotaAvailable
<1>14. Sound(n)
  <2>1. n.epochSeq >= s.epochSeq /\ c.epoch \in 1..n.epochSeq /\ c.ownershipEpoch \in 1..c.epoch
    BY <1>0, <1>9, <1>c
  <2>2. n.expired[t] = NoToken /\ \A u \in Tasks \ {t} : n.expired[u] = s.expired[u]
    BY <1>6, <1>7, <1>9
  <2> QED BY <1>5, <1>9, <1>10, <1>11, <1>12, <1>13, <2>1, <2>2, ReplaceSound
<1> QED BY <1>14 DEF n, m, c, Granted

\* Extending a lease keeps its number, scope, owner and charge (renew_claim).
LEMMA RenewedSound ==
  ASSUME NEW s, Sound(s), NEW now \in Int, NEW a \in Agents, NEW t \in Tasks,
         NEW epoch, NEW scope, RenewOk(s, a, t, epoch, scope)
  PROVE  Sound(Renewed(s, now, t))
<1> DEFINE o == s.claims[t]
           c == [o EXCEPT !.claimedAt = now, !.expires = now + (o.expires - o.claimedAt)]
           n == WithClaim(s, t, c)
<1>0. s \in Registry /\ Held(s, t) /\ ~TaskHeldByCustody(s, t)
  BY DEF Sound, SoundLeases, RenewOk
<1>1. o \in Claim
  BY <1>0 DEF Registry, Held
<1>2. /\ c \in Claim /\ c.owner = o.owner /\ c.scope = o.scope /\ c.epoch = o.epoch
      /\ c.ownershipEpoch = o.ownershipEpoch /\ c.principal = o.principal
  <2> DEFINE y == now + (o.expires - o.claimedAt)
  <2>1. y \in Int
    BY <1>1 DEF Claim
  <2>2. c = [o EXCEPT !.claimedAt = now, !.expires = y]
    OBVIOUS
  <2> HIDE DEF o, c, y
  <2> QED BY <1>1, <2>1, <2>2 DEF Claim
<1> HIDE DEF c
<1>3. /\ n \in Registry /\ n.claims = [s.claims EXCEPT ![t] = c]
      /\ n.expired = s.expired /\ n.epochSeq = s.epochSeq
      /\ n.custody = s.custody /\ n.retained = s.retained
      /\ IndexCovers(n)
  BY <1>0, <1>2, WithClaimFacts DEF Sound, SoundLeases, IndexCovers
<1> HIDE DEF n
<1>4. Sound(n)
  BY <1>0, <1>2, <1>3, KeepSound
<1> QED BY <1>4 DEF n, c, Renewed

\* A field update of an uncustodied lease keeps the invariant (update_task
\* and save_checkpoint past their guards).
LEMMA EditedSound ==
  ASSUME NEW s, Sound(s), NEW t \in Tasks, Held(s, t), ~TaskHeldByCustody(s, t),
         NEW status \in Statuses, NEW token \in Tokens \cup {NoToken}
  PROVE  Sound(Edited(s, t, status, token))
<1> DEFINE o == s.claims[t]
           c == [o EXCEPT !.status = status, !.checkpoint = token, !.version = @ + 1]
           claims == [s.claims EXCEPT ![t] = c]
           n == [s EXCEPT !.claims = claims]
<1>0. s \in Registry
  BY DEF Sound, SoundLeases
<1>1. o \in Claim
  BY <1>0 DEF Registry, Held
<1>2. /\ c \in Claim /\ c.owner = o.owner /\ c.scope = o.scope /\ c.epoch = o.epoch
      /\ c.ownershipEpoch = o.ownershipEpoch /\ c.principal = o.principal
      /\ c.expires = o.expires
  <2> DEFINE v == o.version + 1
  <2>1. v \in Nat
    BY <1>1 DEF Claim
  <2>2. c = [o EXCEPT !.status = status, !.checkpoint = token, !.version = v]
    OBVIOUS
  <2> HIDE DEF o, c, v
  <2> QED BY <1>1, <2>1, <2>2 DEF Claim
<1> HIDE DEF c
<1>3. claims \in [Tasks -> Claim \cup {NoClaim}] /\ claims[t] = c
      /\ \A u \in Tasks \ {t} : claims[u] = s.claims[u]
  BY <1>0, <1>2 DEF Registry
<1>4. /\ n \in Registry /\ n.claims = claims
      /\ n.expired = s.expired /\ n.epochSeq = s.epochSeq
      /\ n.custody = s.custody /\ n.retained = s.retained /\ n.index = s.index
  BY <1>0, <1>3 DEF Registry
<1> HIDE DEF n
<1>5. IndexCovers(n)
  BY <1>2, <1>3, <1>4 DEF Sound, SoundLeases, IndexCovers, Held
<1>6. Sound(n)
  BY <1>0, <1>2, <1>4, <1>5, KeepSound
<1> QED BY <1>6 DEF n, c, Edited

\* Dropping a lease keeps the invariant (release and force_release past their
\* guards; a retained witness allows its own lease to be gone).
LEMMA DroppedSound ==
  ASSUME NEW s, Sound(s), NEW t \in Tasks
  PROVE  Sound(Dropped(s, t))
<1> DEFINE claims == [s.claims EXCEPT ![t] = NoClaim]
           expired == [s.expired EXCEPT ![t] = NoToken]
           n == [s EXCEPT !.claims = claims, !.expired = expired]
<1>0. s \in Registry
  BY DEF Sound, SoundLeases
<1>1. /\ claims \in [Tasks -> Claim \cup {NoClaim}] /\ claims[t] = NoClaim
      /\ expired \in [Tasks -> Tokens \cup {NoToken}]
      /\ \A u \in Tasks \ {t} : claims[u] = s.claims[u] /\ expired[u] = s.expired[u]
  BY <1>0 DEF Registry
<1> HIDE DEF claims, expired
<1>2. /\ n \in Registry /\ n.claims = claims /\ n.expired = expired
      /\ n.epochSeq = s.epochSeq /\ n.index = s.index
      /\ n.custody = s.custody /\ n.retained = s.retained
  BY <1>0, <1>1 DEF Registry
<1>3. Dropped(s, t) = n
  BY <1>0 DEF Dropped, Registry, claims, expired
<1> HIDE DEF n
<1>4. /\ ~Held(n, t)
      /\ \A u \in Tasks \ {t} : /\ n.claims[u] = s.claims[u] /\ n.expired[u] = s.expired[u]
                                /\ Held(n, u) <=> Held(s, u)
  BY <1>1, <1>2 DEF Held
<1>5. ExclusiveScopes(n) /\ IndexCovers(n) /\ MintedEpochs(n) /\ DistinctEpochs(n)
      /\ OneResumeToken(n)
  BY <1>2, <1>4 DEF Sound, SoundLeases, ExclusiveScopes, IndexCovers, MintedEpochs,
                    DistinctEpochs, OneResumeToken
<1>6. SoundCustody(n)
  <2>1. Witnesses(n) = Witnesses(s)
    BY <1>2 DEF Witnesses
  <2>2. FrozenClaims(n)
    <3> SUFFICES ASSUME NEW w \in Witnesses(n), Held(n, w.task) PROVE Capture(n, w.task) = w
      BY DEF FrozenClaims
    <3>1. w.task \in Tasks
      BY <1>2 DEF Witnesses, Registry, Witness
    <3> QED BY <1>4, <2>1, <3>1 DEF Sound, SoundCustody, FrozenClaims, Capture
  <2>3. CustodyExclusive(n)
    BY <1>4, <2>1 DEF Sound, SoundCustody, CustodyExclusive
  <2>4. DisjointCustody(n) /\ RetainedCustody(n)
    BY <1>2 DEF Sound, SoundCustody, DisjointCustody, RetainedCustody
  <2> QED BY <2>2, <2>3, <2>4 DEF SoundCustody
<1>7. WithinQuota(n)
  <2> SUFFICES ASSUME NEW p \in Principals
               PROVE  Cardinality(ChargedTo(n, p)) <= MaxClaimsPerAgent
    BY DEF WithinQuota
  <2>1. ChargedTo(n, p) \subseteq ChargedTo(s, p) /\ ChargedTo(s, p) \subseteq Tasks
    BY <1>4 DEF ChargedTo
  <2> QED BY <2>1, FewerCharged DEF Sound, WithinQuota
<1> QED BY <1>2, <1>3, <1>5, <1>6, <1>7 DEF Sound, SoundLeases

\* A handoff past its guards keeps the invariant: the moved lease is freshly
\* numbered and stays charged to the sender (handoff).
LEMMA HandedOffSound ==
  ASSUME NEW s, Sound(s), NEW now \in Int, NEW a \in Agents, NEW t \in Tasks,
         NEW to \in Agents, NEW fence, HandoffOk(s, a, t, to, fence)
  PROVE  Sound(HandedOff(s, now, t, to))
<1> DEFINE epoch == s.epochSeq + 1
           o == s.claims[t]
           c == [o EXCEPT !.owner = to, !.claimedAt = now,
                          !.expires = now + DefaultTtl,
                          !.epoch = epoch, !.ownershipEpoch = epoch, !.version = 0]
           m == [s EXCEPT !.epochSeq = epoch]
           n == WithClaim(m, t, c)
<1>0. s \in Registry /\ s.epochSeq \in Nat /\ epoch \in Nat /\ Held(s, t)
  BY DEF Sound, SoundLeases, Registry, HandoffOk, OwnerMay
<1>1. o \in Claim
  BY <1>0 DEF Registry, Held
<1>2. c \in Claim /\ c.owner = to /\ c.scope = o.scope /\ c.epoch = epoch
      /\ c.ownershipEpoch = epoch /\ c.principal = o.principal
  <2> DEFINE y == now + DefaultTtl
  <2>1. y \in Int
    BY BoundAssumption
  <2>2. c = [o EXCEPT !.owner = to, !.claimedAt = now, !.expires = y,
                      !.epoch = epoch, !.ownershipEpoch = epoch, !.version = 0]
    OBVIOUS
  <2> HIDE DEF o, c, y, epoch
  <2> QED BY <1>0, <1>1, <2>1, <2>2 DEF Claim
<1>3. /\ m \in Registry /\ m.claims = s.claims /\ m.index = s.index
      /\ m.custody = s.custody /\ m.retained = s.retained /\ m.epochSeq = epoch
      /\ m.expired = s.expired
  <2> HIDE DEF epoch
  <2> QED BY <1>0 DEF Registry
<1> HIDE DEF c, m
<1>4. \A u \in Tasks : Held(m, u) <=> Held(s, u)
  BY <1>3 DEF Held
<1>5. /\ n \in Registry /\ n.claims = [s.claims EXCEPT ![t] = c]
      /\ n.expired = s.expired /\ n.epochSeq = epoch
      /\ n.custody = s.custody /\ n.retained = s.retained
      /\ IndexCovers(n)
  BY <1>2, <1>3, <1>4, WithClaimFacts DEF Sound, SoundLeases, IndexCovers
<1> HIDE DEF n
<1>6. WithinQuota(n)
  BY <1>0, <1>2, <1>5, SameCharge DEF Sound
<1>7. \A u \in Tasks \ {t} : Held(s, u) => s.claims[u].epoch # c.epoch
  BY <1>0, <1>2 DEF Sound, SoundLeases, MintedEpochs
<1>8. ~ScopeConflict(s, t, c.owner, c.scope)
  BY <1>2 DEF HandoffOk
<1>9. \A w \in Witnesses(s) : ~WitnessConflicts(w, t, c.scope) /\ w.task # t
  BY <1>2 DEF HandoffOk, ScopeHeldByCustody, WitnessConflicts
<1>10. n.epochSeq >= s.epochSeq /\ c.epoch \in 1..n.epochSeq /\ c.ownershipEpoch \in 1..c.epoch
  BY <1>0, <1>2, <1>5
<1>11. n.expired[t] = NoToken
  BY <1>0, <1>5 DEF Sound, SoundLeases, OneResumeToken
<1>12. \A u \in Tasks \ {t} : n.expired[u] = s.expired[u]
  BY <1>5
<1>13. Sound(n)
  BY <1>2, <1>5, <1>6, <1>7, <1>8, <1>9, <1>10, <1>11, <1>12, ReplaceSound
<1> QED BY <1>13 DEF n, m, c, HandedOff

-----------------------------------------------------------------------------
\* A change of custody only leaves the leases part and the quotas alone.
LEMMA SameLeases ==
  ASSUME NEW s, Sound(s), NEW n \in Registry,
         n.claims = s.claims, n.index = s.index, n.expired = s.expired,
         n.epochSeq = s.epochSeq
  PROVE  SoundLeases(n) /\ WithinQuota(n)
<1>1. \A t \in Tasks : Held(n, t) <=> Held(s, t)
  BY DEF Held
<1>2. \A p \in Principals : ChargedTo(n, p) = ChargedTo(s, p)
  BY <1>1 DEF ChargedTo
<1>3. WithinQuota(n)
  BY <1>2 DEF Sound, WithinQuota
<1> QED BY <1>1, <1>3 DEF Sound, SoundLeases, ExclusiveScopes, IndexCovers, MintedEpochs,
                          DistinctEpochs, OneResumeToken

\* A captured witness is well typed, is the live lease it was captured from,
\* and contends only with leases of the same owner.
LEMMA CaptureFacts ==
  ASSUME NEW s, Sound(s), NEW t \in Tasks, Held(s, t)
  PROVE  LET w == Capture(s, t)
         IN  /\ w \in Witness /\ w.task = t /\ w.owner = s.claims[t].owner
             /\ w.scope = s.claims[t].scope
             /\ \A u \in Tasks : Held(s, u) /\ WitnessConflicts(w, u, s.claims[u].scope)
                   => s.claims[u].owner = w.owner
<1> DEFINE w == Capture(s, t)
<1>1. s.claims[t] \in Claim
  BY DEF Sound, SoundLeases, Registry, Held
<1>2. w \in Witness /\ w.task = t /\ w.owner = s.claims[t].owner /\ w.scope = s.claims[t].scope
  BY <1>1 DEF Capture, Witness, Claim
<1>3. ASSUME NEW u \in Tasks, Held(s, u), WitnessConflicts(w, u, s.claims[u].scope)
      PROVE  s.claims[u].owner = w.owner
  BY <1>2, <1>3 DEF WitnessConflicts, Sound, SoundLeases, ExclusiveScopes
<1> QED BY <1>2, <1>3

\* Taking custody of live, uncustodied leases keeps the invariant
\* (install_protected_write_admission).
LEMMA InstallSound ==
  ASSUME NEW s, Sound(s), NEW r \in Reservations, NEW ts \in SUBSET Tasks,
         InstallOk(s, r, ts)
  PROVE  Sound(InstallAdmission(s, r, ts))
<1> DEFINE new == {Capture(s, t) : t \in ts}
           custody == [s.custody EXCEPT ![r] = new]
           n == [s EXCEPT !.retained = s.retained \cup {r}, !.custody = custody]
<1>0. s \in Registry
  BY DEF Sound, SoundLeases
<1>1. \A t \in ts : Held(s, t) /\ ~ScopeHeldByCustody(s, t, s.claims[t].scope)
  BY DEF InstallOk
<1>2. new \in SUBSET Witness
  BY <1>1, CaptureFacts
<1> HIDE DEF new
<1>3. /\ custody \in [Reservations -> SUBSET Witness] /\ custody[r] = new
      /\ \A q \in Reservations \ {r} : custody[q] = s.custody[q]
  BY <1>0, <1>2 DEF Registry
<1> HIDE DEF custody
<1>4. /\ n \in Registry /\ n.claims = s.claims /\ n.index = s.index
      /\ n.expired = s.expired /\ n.epochSeq = s.epochSeq
      /\ n.custody = custody /\ n.retained = s.retained \cup {r}
  BY <1>0, <1>3 DEF Registry
<1>5. InstallAdmission(s, r, ts) = n
  BY DEF InstallAdmission, custody, new
<1> HIDE DEF n
<1>6. SoundLeases(n) /\ WithinQuota(n)
  BY <1>4, SameLeases
<1>7. \A t \in Tasks : Held(n, t) <=> Held(s, t)
  BY <1>4 DEF Held
<1>8. \A w \in Witnesses(n) : w \in new \/ w \in Witnesses(s)
  BY <1>3, <1>4 DEF Witnesses
<1>9. FrozenClaims(n)
  <2> SUFFICES ASSUME NEW w \in Witnesses(n), Held(n, w.task) PROVE Capture(n, w.task) = w
    BY DEF FrozenClaims
  <2>0. w.task \in Tasks
    BY <1>4 DEF Witnesses, Registry, Witness
  <2>1. Capture(n, w.task) = Capture(s, w.task) /\ Held(s, w.task)
    BY <1>4, <1>7, <2>0 DEF Capture
  <2>2. CASE w \in new
    BY <1>1, <2>1, <2>2, CaptureFacts DEF new
  <2>3. CASE w \in Witnesses(s)
    BY <2>1, <2>3 DEF Sound, SoundCustody, FrozenClaims
  <2> QED BY <1>8, <2>2, <2>3
<1>10. CustodyExclusive(n)
  <2> SUFFICES ASSUME NEW w \in Witnesses(n), NEW t \in Tasks, Held(s, t),
                      WitnessConflicts(w, t, s.claims[t].scope)
               PROVE  s.claims[t].owner = w.owner
    BY <1>4, <1>7 DEF CustodyExclusive
  <2>1. CASE w \in new
    BY <1>1, <2>1, CaptureFacts DEF new
  <2>2. CASE w \in Witnesses(s)
    BY <2>2 DEF Sound, SoundCustody, CustodyExclusive
  <2> QED BY <1>8, <2>1, <2>2
<1>11. DisjointCustody(n)
  <2>1. ASSUME NEW x \in new, NEW w \in Witnesses(s)
        PROVE  ~WitnessConflicts(w, x.task, x.scope) /\ ~WitnessConflicts(x, w.task, w.scope)
    <3>1. PICK t \in ts : x = Capture(s, t)
      BY <2>1 DEF new
    <3>2. x.task = t /\ x.scope = s.claims[t].scope /\ Held(s, t) /\ x \in Witness
      BY <1>1, <3>1, CaptureFacts
    <3>3. ~WitnessConflicts(w, x.task, x.scope)
      BY <1>1, <2>1, <3>2 DEF ScopeHeldByCustody
    <3>4. w.scope \in Scopes /\ x.scope \in Scopes
      BY <1>0, <2>1, <3>2 DEF Witnesses, Registry, Witness
    <3> QED BY <3>3, <3>4, OverlapAssumption DEF WitnessConflicts
  <2> SUFFICES ASSUME NEW p \in Reservations, NEW q \in Reservations, p # q,
                      NEW w \in custody[p], NEW x \in custody[q]
               PROVE  ~WitnessConflicts(w, x.task, x.scope)
    BY <1>4 DEF DisjointCustody
  <2>2. CASE p = r
    <3>1. w \in new /\ x \in Witnesses(s)
      BY <1>3, <2>2 DEF Witnesses
    <3> QED BY <2>1, <3>1
  <2>3. CASE q = r
    <3>1. x \in new /\ w \in Witnesses(s)
      BY <1>3, <2>3 DEF Witnesses
    <3> QED BY <2>1, <3>1
  <2>4. CASE p # r /\ q # r
    BY <1>3, <2>4 DEF Sound, SoundCustody, DisjointCustody
  <2> QED BY <2>2, <2>3, <2>4
<1>12. RetainedCustody(n)
  BY <1>3, <1>4 DEF Sound, SoundCustody, RetainedCustody
<1> QED BY <1>5, <1>6, <1>9, <1>10, <1>11, <1>12 DEF Sound, SoundCustody

\* Moving custody to a recovery child keeps the invariant
\* (transfer_protected_write_custody).
LEMMA TransferSound ==
  ASSUME NEW s, Sound(s), NEW r \in Reservations, NEW k \in Reservations,
         NEW ts \in SUBSET Tasks, TransferOk(s, r, k, ts)
  PROVE  Sound(TransferCustody(s, r, k, ts))
<1> DEFINE new == {Capture(s, t) : t \in ts}
           moved == s.custody[r] \cup new
           custody == [[s.custody EXCEPT ![k] = moved] EXCEPT ![r] = {}]
           n == [s EXCEPT !.retained = s.retained \cup {k}, !.custody = custody]
<1>0. s \in Registry /\ s.custody \in [Reservations -> SUBSET Witness]
  BY DEF Sound, SoundLeases, Registry
<1>1. \A t \in ts : Held(s, t)
  BY DEF TransferOk
<1>2. moved \in SUBSET Witness
  BY <1>0, <1>1, CaptureFacts
<1>3. \A q \in Reservations \ {r} : \A w \in s.custody[q] : \A m \in moved :
        ~WitnessConflicts(w, m.task, m.scope)
  BY DEF TransferOk
<1>4. r # k
  BY DEF TransferOk, AdmissibleId, Sound, SoundCustody, RetainedCustody
<1>5. \A w \in moved : w \in new \/ w \in Witnesses(s)
  BY <1>0 DEF Witnesses
<1>m. TransferCustody(s, r, k, ts) = n
  BY <1>0 DEF TransferCustody, Registry
<1> HIDE DEF moved
<1>6. /\ custody \in [Reservations -> SUBSET Witness] /\ custody[k] = moved /\ custody[r] = {}
      /\ \A q \in Reservations \ {r, k} : custody[q] = s.custody[q]
  BY <1>0, <1>2, <1>4
<1> HIDE DEF custody
<1>7. /\ n \in Registry /\ n.claims = s.claims /\ n.index = s.index
      /\ n.expired = s.expired /\ n.epochSeq = s.epochSeq
      /\ n.custody = custody /\ n.retained = s.retained \cup {k}
  BY <1>0, <1>6 DEF Registry
<1> HIDE DEF n
<1>8. SoundLeases(n) /\ WithinQuota(n)
  BY <1>7, SameLeases
<1>9. \A t \in Tasks : Held(n, t) <=> Held(s, t)
  BY <1>7 DEF Held
<1>10. \A w \in Witnesses(n) : w \in new \/ w \in Witnesses(s)
  <2> SUFFICES ASSUME NEW q \in Reservations, NEW w \in custody[q]
               PROVE  w \in new \/ w \in Witnesses(s)
    BY <1>7 DEF Witnesses
  <2>1. CASE q = k
    BY <1>5, <1>6, <2>1
  <2>2. CASE q = r
    BY <1>6, <2>2
  <2>3. CASE q # k /\ q # r
    BY <1>6, <2>3 DEF Witnesses
  <2> QED BY <2>1, <2>2, <2>3
<1> HIDE DEF new
<1>11. FrozenClaims(n)
  <2> SUFFICES ASSUME NEW w \in Witnesses(n), Held(n, w.task) PROVE Capture(n, w.task) = w
    BY DEF FrozenClaims
  <2>0. w.task \in Tasks
    BY <1>7 DEF Witnesses, Registry, Witness
  <2>1. Capture(n, w.task) = Capture(s, w.task) /\ Held(s, w.task)
    BY <1>7, <1>9, <2>0 DEF Capture
  <2>2. CASE w \in new
    BY <1>1, <2>1, <2>2, CaptureFacts DEF new
  <2>3. CASE w \in Witnesses(s)
    BY <2>1, <2>3 DEF Sound, SoundCustody, FrozenClaims
  <2> QED BY <1>10, <2>2, <2>3
<1>12. CustodyExclusive(n)
  <2> SUFFICES ASSUME NEW w \in Witnesses(n), NEW t \in Tasks, Held(s, t),
                      WitnessConflicts(w, t, s.claims[t].scope)
               PROVE  s.claims[t].owner = w.owner
    BY <1>7, <1>9 DEF CustodyExclusive
  <2>1. CASE w \in new
    BY <1>1, <2>1, CaptureFacts DEF new
  <2>2. CASE w \in Witnesses(s)
    BY <2>2 DEF Sound, SoundCustody, CustodyExclusive
  <2> QED BY <1>10, <2>1, <2>2
<1>13. DisjointCustody(n)
  <2>1. ASSUME NEW q \in Reservations \ {r}, NEW w \in s.custody[q], NEW x \in moved
        PROVE  ~WitnessConflicts(w, x.task, x.scope) /\ ~WitnessConflicts(x, w.task, w.scope)
    <3>1. w.scope \in Scopes /\ x.scope \in Scopes
      BY <1>0, <1>2 DEF Witness
    <3> QED BY <1>3, <3>1, OverlapAssumption DEF WitnessConflicts
  <2> SUFFICES ASSUME NEW p \in Reservations, NEW q \in Reservations, p # q,
                      NEW w \in custody[p], NEW x \in custody[q]
               PROVE  ~WitnessConflicts(w, x.task, x.scope)
    BY <1>7 DEF DisjointCustody
  <2>2. p # r /\ q # r
    BY <1>6
  <2>3. CASE p = k
    BY <1>6, <2>1, <2>2, <2>3
  <2>4. CASE q = k
    BY <1>6, <2>1, <2>2, <2>4
  <2>5. CASE p # k /\ q # k
    BY <1>6, <2>2, <2>5 DEF Sound, SoundCustody, DisjointCustody
  <2> QED BY <2>3, <2>4, <2>5
<1>14. RetainedCustody(n)
  BY <1>6, <1>7 DEF Sound, SoundCustody, RetainedCustody
<1> QED BY <1>m, <1>8, <1>11, <1>12, <1>13, <1>14 DEF Sound, SoundCustody

\* Settling a reservation keeps the invariant
\* (apply_protected_write_transition).
LEMMA SettleSound ==
  ASSUME NEW s, Sound(s), NEW r \in Reservations
  PROVE  Sound(SettleCustody(s, r))
<1> DEFINE custody == [s.custody EXCEPT ![r] = {}]
           n == [s EXCEPT !.custody = custody]
<1>0. s \in Registry
  BY DEF Sound, SoundLeases
<1>1. /\ custody \in [Reservations -> SUBSET Witness] /\ custody[r] = {}
      /\ \A q \in Reservations \ {r} : custody[q] = s.custody[q]
  BY <1>0 DEF Registry
<1>2. SettleCustody(s, r) = n
  BY DEF SettleCustody
<1> HIDE DEF custody
<1>3. /\ n \in Registry /\ n.claims = s.claims /\ n.index = s.index
      /\ n.expired = s.expired /\ n.epochSeq = s.epochSeq
      /\ n.custody = custody /\ n.retained = s.retained
  BY <1>0, <1>1 DEF Registry
<1> HIDE DEF n
<1>4. SoundLeases(n) /\ WithinQuota(n)
  BY <1>3, SameLeases
<1>5. Witnesses(n) \subseteq Witnesses(s) /\ \A t \in Tasks : Held(n, t) <=> Held(s, t)
  BY <1>1, <1>3 DEF Witnesses, Held
<1>6. FrozenClaims(n)
  <2> SUFFICES ASSUME NEW w \in Witnesses(n), Held(n, w.task) PROVE Capture(n, w.task) = w
    BY DEF FrozenClaims
  <2>1. w.task \in Tasks
    BY <1>3 DEF Witnesses, Registry, Witness
  <2> QED BY <1>3, <1>5, <2>1 DEF Sound, SoundCustody, FrozenClaims, Capture
<1>7. CustodyExclusive(n)
  BY <1>3, <1>5 DEF Sound, SoundCustody, CustodyExclusive
<1>8. DisjointCustody(n) /\ RetainedCustody(n)
  BY <1>1, <1>3 DEF Sound, SoundCustody, DisjointCustody, RetainedCustody
<1> QED BY <1>2, <1>4, <1>6, <1>7, <1>8 DEF Sound, SoundCustody

-----------------------------------------------------------------------------
(* The methods as called: expire, then the guarded mutation or nothing.     *)

\* claim keeps the invariant, granted or refused.
LEMMA ClaimTaskSound ==
  ASSUME NEW s, Sound(s), NEW now \in Int, NEW a \in Agents, NEW p \in Principals,
         NEW t \in Tasks, NEW scope \in Scopes, NEW ttl \in Nat, NEW ru \in BOOLEAN
  PROVE  Sound(ClaimTask(s, now, a, p, t, scope, ttl, ru))
<1>1. Sound(Expire(s, now))
  BY ExpireSound
<1> QED BY <1>1, GrantedSound DEF ClaimTask

\* renew_claim keeps the invariant, granted or refused.
LEMMA RenewClaimSound ==
  ASSUME NEW s, Sound(s), NEW now \in Int, NEW a \in Agents, NEW t \in Tasks,
         NEW epoch, NEW scope
  PROVE  Sound(RenewClaim(s, now, a, t, epoch, scope))
<1>1. Sound(Expire(s, now))
  BY ExpireSound
<1> QED BY <1>1, RenewedSound DEF RenewClaim

\* update_task keeps the invariant, applied or refused.
LEMMA UpdateTaskSound ==
  ASSUME NEW s, Sound(s), NEW now \in Int, NEW a \in Agents, NEW t \in Tasks,
         NEW status \in Statuses \cup {NoStatus}, NEW epoch, NEW version
  PROVE  Sound(UpdateTask(s, now, a, t, status, epoch, version))
<1> DEFINE h == Expire(s, now)
           st == IF status = NoStatus THEN h.claims[t].status ELSE status
<1>1. Sound(h)
  BY ExpireSound
<1> HIDE DEF h
<1>2. CASE UpdateOk(h, a, t, status, epoch, version)
  <2>1. Held(h, t) /\ ~TaskHeldByCustody(h, t)
    BY <1>2 DEF UpdateOk, OwnerMay
  <2>2. h.claims[t] \in Claim
    BY <1>1, <2>1 DEF Sound, SoundLeases, Registry, Held
  <2>3. st \in Statuses /\ h.claims[t].checkpoint \in Tokens \cup {NoToken}
    BY <2>2 DEF Claim
  <2>4. Sound(Edited(h, t, st, h.claims[t].checkpoint))
    BY <1>1, <2>1, <2>3, EditedSound
  <2> QED BY <1>2, <2>4 DEF UpdateTask, h
<1>3. CASE ~UpdateOk(h, a, t, status, epoch, version)
  BY <1>1, <1>3 DEF UpdateTask, h
<1> QED BY <1>2, <1>3

\* save_checkpoint keeps the invariant, applied or refused.
LEMMA SaveCheckpointSound ==
  ASSUME NEW s, Sound(s), NEW now \in Int, NEW a \in Agents, NEW t \in Tasks,
         NEW token \in Tokens \cup {NoToken}, NEW epoch
  PROVE  Sound(SaveCheckpoint(s, now, a, t, token, epoch))
<1> DEFINE h == Expire(s, now)
<1>1. Sound(h)
  BY ExpireSound
<1> HIDE DEF h
<1>2. CASE OwnerMay(h, a, t, epoch)
  <2>1. Held(h, t) /\ ~TaskHeldByCustody(h, t)
    BY <1>2 DEF OwnerMay
  <2>2. h.claims[t] \in Claim
    BY <1>1, <2>1 DEF Sound, SoundLeases, Registry, Held
  <2>3. h.claims[t].status \in Statuses
    BY <2>2 DEF Claim
  <2>4. Sound(Edited(h, t, h.claims[t].status, token))
    BY <1>1, <2>1, <2>3, EditedSound
  <2> QED BY <1>2, <2>4 DEF SaveCheckpoint, h
<1>3. CASE ~OwnerMay(h, a, t, epoch)
  BY <1>1, <1>3 DEF SaveCheckpoint, h
<1> QED BY <1>2, <1>3

\* release and force_release keep the invariant, applied or refused.
LEMMA ReleaseSound ==
  ASSUME NEW s, Sound(s), NEW now \in Int, NEW a \in Agents, NEW t \in Tasks, NEW epoch
  PROVE  Sound(Release(s, now, a, t, epoch)) /\ Sound(ForceRelease(s, t))
<1>1. Sound(Expire(s, now))
  BY ExpireSound
<1> QED BY <1>1, DroppedSound DEF Release, ForceRelease

\* handoff keeps the invariant, applied or refused.
LEMMA HandoffSound ==
  ASSUME NEW s, Sound(s), NEW now \in Int, NEW a \in Agents, NEW t \in Tasks,
         NEW to \in Agents, NEW epoch
  PROVE  Sound(Handoff(s, now, a, t, to, epoch))
<1>1. Sound(Expire(s, now))
  BY ExpireSound
<1> QED BY <1>1, HandedOffSound DEF Handoff

-----------------------------------------------------------------------------
(* What a granted method does to the registry its heartbeat left, h: it      *)
(* mints a lease, edits one or drops one, and touches nothing else.  Exclusive *)
(* scopes and custody play no part in these, so they hold also of a registry   *)
(* replayed from a journal.                                                    *)

\* What every method needs of the registry it is called on.
WellKept(s) ==
    /\ s \in Registry
    /\ IndexCovers(s)
    /\ MintedEpochs(s)
    /\ DistinctEpochs(s)
    /\ OneResumeToken(s)

\* Nothing but task t changes hands, and custody is left alone.
Apart(h, n, t) ==
    /\ n.custody = h.custody /\ n.retained = h.retained
    /\ \A u \in Tasks \ {t} : n.claims[u] = h.claims[u] /\ n.expired[u] = h.expired[u]

\* claim and handoff: a newly minted lease, which resumes from what the task
\* held or left behind, and keeps an anchor only of the same ownership.
Grants(h, n, t) ==
    /\ Apart(h, n, t) /\ Held(n, t)
    /\ n.epochSeq = h.epochSeq + 1 /\ n.claims[t].epoch = n.epochSeq
    /\ n.claims[t].ownershipEpoch # n.epochSeq =>
         /\ Held(h, t)
         /\ n.claims[t].ownershipEpoch = h.claims[t].ownershipEpoch
         /\ n.claims[t].owner = h.claims[t].owner
         /\ n.claims[t].scope = h.claims[t].scope
    /\ n.expired[t] = NoToken
    /\ n.claims[t].checkpoint = ResumeToken(h, t)

\* renew_claim, update_task and save_checkpoint: the same ownership of the same
\* generation, and content that changed only under a new version.
Edits(h, n, t) ==
    /\ Apart(h, n, t) /\ Held(h, t) /\ Held(n, t)
    /\ n.expired = h.expired /\ n.epochSeq = h.epochSeq
    /\ n.claims[t].owner = h.claims[t].owner
    /\ n.claims[t].scope = h.claims[t].scope
    /\ n.claims[t].epoch = h.claims[t].epoch
    /\ n.claims[t].ownershipEpoch = h.claims[t].ownershipEpoch
    /\ \/ n.claims[t].version = h.claims[t].version + 1
       \/ /\ n.claims[t].version = h.claims[t].version
          /\ n.claims[t].status = h.claims[t].status
          /\ n.claims[t].checkpoint = h.claims[t].checkpoint

\* release: the lease goes, and with it the token of the task.
Drops(h, n, t) ==
    /\ Apart(h, n, t) /\ Held(h, t) /\ ~Held(n, t)
    /\ n.expired[t] = NoToken /\ n.epochSeq = h.epochSeq

Changes(h, n, t) == Grants(h, n, t) \/ Edits(h, n, t) \/ Drops(h, n, t)

\* The term a lease was granted or extended for.
Term(c) == c.expires - c.claimedAt

\* The tenure of a minted lease: an agreed term from the instant of the request,
\* on a task that was free, its holder's own, or handed over with its scope.
Mints(h, n, t, at) ==
    /\ Grants(h, n, t)
    /\ n.claims[t].claimedAt = at /\ Term(n.claims[t]) \in MinimumTtl..MaximumTtl
    /\ Held(h, t) => \/ n.claims[t].owner = h.claims[t].owner
                     \/ n.claims[t].scope = h.claims[t].scope

\* A renewed lease runs from the instant of the request for the term it had.
Extends(h, n, t, at) ==
    Edits(h, n, t) /\ n.claims[t].claimedAt = at /\ Term(n.claims[t]) = Term(h.claims[t])

\* An updated one ends when it did.
Keeps(h, n, t) ==
    /\ Edits(h, n, t)
    /\ n.claims[t].claimedAt = h.claims[t].claimedAt
    /\ n.claims[t].expires = h.claims[t].expires

\* A sound registry is well kept.
LEMMA SoundIsKept == ASSUME NEW s, Sound(s) PROVE WellKept(s)
  BY DEF Sound, SoundLeases, WellKept

\* With a complete index a sweep drops exactly the due leases, and every token
\* stays where the next claimant finds it (_expire_claims).
LEMMA ExpireEffect ==
  ASSUME NEW s, WellKept(s), NEW now \in Int
  PROVE  LET h == Expire(s, now)
         IN  /\ WellKept(h)
             /\ \A t \in Tasks : Held(h, t) <=> Held(s, t) /\ ~(s.claims[t].expires <= now)
             /\ \A t \in Tasks : Held(h, t) => h.claims[t] = s.claims[t]
             /\ \A t \in Tasks : ResumeToken(h, t) = ResumeToken(s, t)
             /\ h.epochSeq = s.epochSeq
             /\ h.custody = s.custody /\ h.retained = s.retained
<1> DEFINE h == Expire(s, now)
<1>0. s \in Registry
  BY DEF WellKept
<1>1. /\ h \in Registry
      /\ \A t \in Tasks : Held(h, t) => /\ Held(s, t)
                                        /\ h.claims[t] = s.claims[t]
                                        /\ h.expired[t] = s.expired[t]
      /\ h.epochSeq = s.epochSeq /\ h.custody = s.custody /\ h.retained = s.retained
      /\ h.index = s.index \ Due(s, now)
      /\ \A t \in Tasks : Held(h, t) <=> Held(s, t) /\ t \notin Lapsed(s, now)
  BY <1>0, ExpireFacts
<1>2. ASSUME NEW t \in Tasks
      PROVE  t \in Lapsed(s, now) <=> Held(s, t) /\ s.claims[t].expires <= now
  <2>1. ASSUME Held(s, t), s.claims[t].expires <= now PROVE t \in Lapsed(s, now)
    <3> DEFINE e == [expires |-> s.claims[t].expires, task |-> t,
                     epoch |-> s.claims[t].epoch]
    <3>1. e \in Due(s, now)
      BY <2>1 DEF WellKept, IndexCovers, Due
    <3> QED BY <2>1, <3>1 DEF Lapsed
  <2> QED BY <2>1 DEF Lapsed
<1>3. \A t \in Tasks : h.expired[t] =
        IF t \in Lapsed(s, now) /\ s.claims[t].checkpoint # NoToken
        THEN s.claims[t].checkpoint ELSE s.expired[t]
  BY <1>0 DEF Expire, Registry
<1> HIDE DEF h
<1>4. ASSUME NEW t \in Tasks PROVE ResumeToken(h, t) = ResumeToken(s, t)
  <2>1. CASE Held(h, t)
    BY <1>1, <2>1 DEF ResumeToken
  <2>2. CASE ~Held(h, t) /\ Held(s, t)
    <3>1. t \in Lapsed(s, now) /\ s.expired[t] = NoToken
      BY <1>1, <2>2 DEF WellKept, OneResumeToken
    <3> QED BY <1>3, <2>2, <3>1 DEF ResumeToken
  <2>3. CASE ~Held(h, t) /\ ~Held(s, t)
    BY <1>2, <1>3, <2>3 DEF ResumeToken
  <2> QED BY <1>1, <2>1, <2>2, <2>3
<1>5. IndexCovers(h)
  <2> SUFFICES ASSUME NEW t \in Tasks, Held(h, t)
               PROVE  [expires |-> h.claims[t].expires, task |-> t,
                       epoch |-> h.claims[t].epoch] \in h.index
    BY DEF IndexCovers
  <2> DEFINE e == [expires |-> s.claims[t].expires, task |-> t,
                   epoch |-> s.claims[t].epoch]
  <2>1. Held(s, t) /\ h.claims[t] = s.claims[t] /\ ~(s.claims[t].expires <= now)
    BY <1>1, <1>2
  <2>2. e \in s.index /\ e \notin Due(s, now)
    BY <2>1 DEF WellKept, IndexCovers, Due
  <2> QED BY <1>1, <2>1, <2>2
<1>6. MintedEpochs(h) /\ DistinctEpochs(h) /\ OneResumeToken(h)
  BY <1>1 DEF WellKept, MintedEpochs, DistinctEpochs, OneResumeToken
<1> QED BY <1>1, <1>2, <1>4, <1>5, <1>6 DEF WellKept, h

\* A mint, an edit or a drop of one lease leaves the registry well kept, once
\* the index covers it.
LEMMA ChangesKept ==
  ASSUME NEW h, WellKept(h), NEW n \in Registry, NEW t \in Tasks,
         IndexCovers(n), Changes(h, n, t)
  PROVE  WellKept(n)
<1>0. /\ h \in Registry /\ h.epochSeq \in Nat /\ n.epochSeq \in Nat
      /\ \A u \in Tasks : Held(h, u) => /\ h.claims[u].epoch \in 1..h.epochSeq
                                        /\ h.claims[u].ownershipEpoch \in 1..h.claims[u].epoch
  BY DEF WellKept, Registry, MintedEpochs
<1>1. \A u \in Tasks \ {t} : /\ n.claims[u] = h.claims[u] /\ n.expired[u] = h.expired[u]
                             /\ Held(n, u) <=> Held(h, u)
  BY DEF Changes, Grants, Edits, Drops, Apart, Held
<1>2. n.epochSeq = h.epochSeq \/ n.epochSeq = h.epochSeq + 1
  BY DEF Changes, Grants, Edits, Drops
<1>3. Held(n, t) => \/ /\ n.claims[t].epoch = h.epochSeq + 1
                       /\ n.epochSeq = h.epochSeq + 1
                       /\ n.claims[t].ownershipEpoch \in 1..n.claims[t].epoch
                    \/ /\ Held(h, t) /\ n.claims[t].epoch = h.claims[t].epoch
                       /\ n.claims[t].ownershipEpoch = h.claims[t].ownershipEpoch
  BY <1>0 DEF Changes, Grants, Edits, Drops
<1>4. MintedEpochs(n)
  <2> SUFFICES ASSUME NEW u \in Tasks, Held(n, u)
               PROVE  /\ n.claims[u].epoch \in 1..n.epochSeq
                      /\ n.claims[u].ownershipEpoch \in 1..n.claims[u].epoch
    BY DEF MintedEpochs
  <2>1. CASE u = t
    BY <1>0, <1>2, <1>3, <2>1
  <2>2. CASE u # t
    BY <1>0, <1>1, <1>2, <2>2
  <2> QED BY <2>1, <2>2
<1>5. DistinctEpochs(n)
  <2> SUFFICES ASSUME NEW u \in Tasks, NEW v \in Tasks, Held(n, u), Held(n, v),
                      n.claims[u].epoch = n.claims[v].epoch
               PROVE  u = v
    BY DEF DistinctEpochs
  <2>1. CASE u = t /\ v # t
    BY <1>0, <1>1, <1>3, <2>1 DEF WellKept, DistinctEpochs
  <2>2. CASE u # t /\ v = t
    BY <1>0, <1>1, <1>3, <2>2 DEF WellKept, DistinctEpochs
  <2>3. CASE u # t /\ v # t
    BY <1>1, <2>3 DEF WellKept, DistinctEpochs
  <2> QED BY <2>1, <2>2, <2>3
<1>6. OneResumeToken(n)
  BY <1>1 DEF WellKept, OneResumeToken, Changes, Grants, Edits, Drops
<1> QED BY <1>4, <1>5, <1>6 DEF WellKept

\* A granted claim mints a lease (claim, past its guards); only its owner may
\* claim a task that is held and not due.
LEMMA GrantedEffect ==
  ASSUME NEW h, WellKept(h), NEW now \in Int, NEW a \in Agents, NEW p \in Principals,
         NEW t \in Tasks, NEW scope \in Scopes, NEW ttl \in Nat,
         Held(h, t) => h.claims[t].owner = a
  PROVE  LET n == Granted(h, now, a, p, t, scope, ttl)
         IN  WellKept(n) /\ Mints(h, n, t, now)
<1> DEFINE epoch == h.epochSeq + 1
           token == IF KeepsToken(h, t, a) THEN h.claims[t].checkpoint ELSE h.expired[t]
           left == IF KeepsToken(h, t, a) THEN h.expired[t] ELSE NoToken
           c == [owner |-> a, principal |-> p, scope |-> scope,
                 claimedAt |-> now, expires |-> now + ClampTtl(ttl),
                 epoch |-> epoch, ownershipEpoch |-> Anchor(h, t, a, scope, epoch),
                 status |-> "claimed", version |-> 0, checkpoint |-> token]
           expired == [h.expired EXCEPT ![t] = left]
           m == [h EXCEPT !.epochSeq = epoch, !.expired = expired]
           n == WithClaim(m, t, c)
<1>0. h \in Registry /\ h.epochSeq \in Nat /\ epoch \in Nat /\ ClampTtl(ttl) \in Nat
  BY ClampType DEF WellKept, Registry
<1>1. Held(h, t) => /\ h.claims[t] \in Claim /\ h.claims[t].ownershipEpoch \in Nat
                    /\ h.expired[t] = NoToken
  BY <1>0 DEF WellKept, OneResumeToken, Registry, Held, Claim
<1>2. Anchor(h, t, a, scope, epoch) \in Nat
  BY <1>0, <1>1 DEF Anchor
<1>3. token \in Tokens \cup {NoToken} /\ token = ResumeToken(h, t) /\ left = NoToken
  BY <1>0, <1>1 DEF KeepsToken, ResumeToken, Claim, Registry
<1>n. Granted(h, now, a, p, t, scope, ttl) = n
  BY <1>0 DEF Granted, Registry
<1> HIDE DEF token, left, epoch
<1>4. c \in Claim
  BY <1>0, <1>2, <1>3 DEF Claim, Statuses
<1>5. /\ expired \in [Tasks -> Tokens \cup {NoToken}] /\ expired[t] = NoToken
      /\ \A u \in Tasks \ {t} : expired[u] = h.expired[u]
  BY <1>0, <1>3 DEF Registry
<1> HIDE DEF expired
<1>6. /\ m \in Registry /\ m.claims = h.claims /\ m.index = h.index
      /\ m.custody = h.custody /\ m.retained = h.retained /\ m.epochSeq = epoch
      /\ m.expired = expired
  BY <1>0, <1>5 DEF Registry
<1>c. /\ c.owner = a /\ c.scope = scope /\ c.epoch = epoch /\ c.checkpoint = token
      /\ c.ownershipEpoch = Anchor(h, t, a, scope, epoch)
      /\ c.claimedAt = now /\ c.expires = now + ClampTtl(ttl)
  OBVIOUS
<1>t. Term(c) \in MinimumTtl..MaximumTtl
  <2>1. ClampTtl(ttl) \in MinimumTtl..MaximumTtl
    BY BoundAssumption DEF ClampTtl
  <2> HIDE DEF c
  <2> QED BY <1>c, <2>1, BoundAssumption DEF Term
<1> HIDE DEF c, m
<1>7. \A u \in Tasks : (Held(m, u) <=> Held(h, u))
  BY <1>6 DEF Held
<1>8. /\ n \in Registry /\ n.claims = [h.claims EXCEPT ![t] = c]
      /\ n.expired = expired /\ n.epochSeq = epoch
      /\ n.custody = h.custody /\ n.retained = h.retained
      /\ IndexCovers(n)
  BY <1>4, <1>6, <1>7, WithClaimFacts DEF WellKept, IndexCovers
<1> HIDE DEF n
<1>9. n.claims[t] = c /\ Held(n, t) /\ \A u \in Tasks \ {t} : n.claims[u] = h.claims[u]
  BY <1>0, <1>4, <1>8, NoClaimAssumption DEF Registry, Held
<1>10. Grants(h, n, t)
  BY <1>3, <1>5, <1>8, <1>9, <1>c DEF Grants, Apart, Anchor, epoch
<1>11. WellKept(n)
  BY <1>8, <1>10, ChangesKept DEF Changes
<1>12. Mints(h, n, t, now)
  BY <1>9, <1>10, <1>c, <1>t DEF Mints
<1> QED BY <1>11, <1>12, <1>n

\* A renewal edits a lease: its term moves, its content does not (renew_claim).
LEMMA RenewedEffect ==
  ASSUME NEW h, WellKept(h), NEW now \in Int, NEW t \in Tasks, Held(h, t)
  PROVE  LET n == Renewed(h, now, t) IN WellKept(n) /\ Extends(h, n, t, now)
<1> DEFINE o == h.claims[t]
           y == now + (o.expires - o.claimedAt)
           c == [o EXCEPT !.claimedAt = now, !.expires = y]
           n == WithClaim(h, t, c)
<1>0. h \in Registry
  BY DEF WellKept
<1>1. o \in Claim
  BY <1>0 DEF Registry, Held
<1>2. y \in Int
  BY <1>1 DEF Claim
<1>n. Renewed(h, now, t) = n
  BY DEF Renewed
<1> HIDE DEF o, y
<1>3. /\ c \in Claim /\ c.owner = o.owner /\ c.scope = o.scope /\ c.epoch = o.epoch
      /\ c.ownershipEpoch = o.ownershipEpoch /\ c.version = o.version
      /\ c.status = o.status /\ c.checkpoint = o.checkpoint
      /\ c.claimedAt = now /\ c.expires = y
  BY <1>1, <1>2 DEF Claim
<1>t. Term(c) = Term(o)
  BY <1>1, <1>3 DEF Term, Claim, y
<1> HIDE DEF c
<1>4. /\ n \in Registry /\ n.claims = [h.claims EXCEPT ![t] = c]
      /\ n.expired = h.expired /\ n.epochSeq = h.epochSeq
      /\ n.custody = h.custody /\ n.retained = h.retained
      /\ IndexCovers(n)
  BY <1>0, <1>3, WithClaimFacts DEF WellKept, IndexCovers
<1> HIDE DEF n
<1>5. n.claims[t] = c /\ Held(n, t) /\ \A u \in Tasks \ {t} : n.claims[u] = h.claims[u]
  BY <1>0, <1>3, <1>4, NoClaimAssumption DEF Registry, Held
<1>6. Edits(h, n, t)
  BY <1>3, <1>4, <1>5 DEF Edits, Apart, o
<1>7. WellKept(n)
  BY <1>4, <1>6, ChangesKept DEF Changes
<1>8. Extends(h, n, t, now)
  BY <1>3, <1>5, <1>6, <1>t DEF Extends, o
<1> QED BY <1>7, <1>8, <1>n

\* An update edits a lease under a new version (update_task, save_checkpoint).
LEMMA EditedEffect ==
  ASSUME NEW h, WellKept(h), NEW t \in Tasks, Held(h, t),
         NEW status \in Statuses, NEW token \in Tokens \cup {NoToken}
  PROVE  LET n == Edited(h, t, status, token) IN WellKept(n) /\ Keeps(h, n, t)
<1> DEFINE o == h.claims[t]
           v == o.version + 1
           c == [o EXCEPT !.status = status, !.checkpoint = token, !.version = v]
           claims == [h.claims EXCEPT ![t] = c]
           n == [h EXCEPT !.claims = claims]
<1>0. h \in Registry
  BY DEF WellKept
<1>1. o \in Claim
  BY <1>0 DEF Registry, Held
<1>2. v \in Nat
  BY <1>1 DEF Claim
<1>n. Edited(h, t, status, token) = n
  BY DEF Edited
<1> HIDE DEF o, v
<1>3. /\ c \in Claim /\ c.owner = o.owner /\ c.scope = o.scope /\ c.epoch = o.epoch
      /\ c.ownershipEpoch = o.ownershipEpoch /\ c.version = v /\ c.expires = o.expires
      /\ c.claimedAt = o.claimedAt
  BY <1>1, <1>2 DEF Claim
<1> HIDE DEF c
<1>4. claims \in [Tasks -> Claim \cup {NoClaim}] /\ claims[t] = c
      /\ \A u \in Tasks \ {t} : claims[u] = h.claims[u]
  BY <1>0, <1>3 DEF Registry
<1> HIDE DEF claims
<1>5. /\ n \in Registry /\ n.claims = claims
      /\ n.expired = h.expired /\ n.epochSeq = h.epochSeq
      /\ n.custody = h.custody /\ n.retained = h.retained /\ n.index = h.index
  BY <1>0, <1>4 DEF Registry
<1> HIDE DEF n
<1>6. Held(n, t) /\ IndexCovers(n)
  BY <1>3, <1>4, <1>5, NoClaimAssumption DEF WellKept, IndexCovers, Held, o
<1>7. Edits(h, n, t)
  BY <1>3, <1>4, <1>5, <1>6 DEF Edits, Apart, o, v
<1>8. WellKept(n)
  BY <1>5, <1>6, <1>7, ChangesKept DEF Changes
<1>9. Keeps(h, n, t)
  BY <1>3, <1>4, <1>5, <1>7 DEF Keeps, o
<1> QED BY <1>8, <1>9, <1>n

\* A release drops a lease and the token of its task (release, force_release).
LEMMA DroppedEffect ==
  ASSUME NEW h, WellKept(h), NEW t \in Tasks, Held(h, t)
  PROVE  LET n == Dropped(h, t) IN WellKept(n) /\ Drops(h, n, t)
<1> DEFINE claims == [h.claims EXCEPT ![t] = NoClaim]
           expired == [h.expired EXCEPT ![t] = NoToken]
           n == [h EXCEPT !.claims = claims, !.expired = expired]
<1>0. h \in Registry
  BY DEF WellKept
<1>1. /\ claims \in [Tasks -> Claim \cup {NoClaim}] /\ claims[t] = NoClaim
      /\ expired \in [Tasks -> Tokens \cup {NoToken}] /\ expired[t] = NoToken
      /\ \A u \in Tasks \ {t} : claims[u] = h.claims[u] /\ expired[u] = h.expired[u]
  BY <1>0 DEF Registry
<1>n. Dropped(h, t) = n
  BY <1>0 DEF Dropped, Registry
<1> HIDE DEF claims, expired
<1>2. /\ n \in Registry /\ n.claims = claims /\ n.expired = expired
      /\ n.epochSeq = h.epochSeq /\ n.index = h.index
      /\ n.custody = h.custody /\ n.retained = h.retained
  BY <1>0, <1>1 DEF Registry
<1> HIDE DEF n
<1>3. Drops(h, n, t)
  BY <1>1, <1>2 DEF Drops, Apart, Held
<1>4. IndexCovers(n)
  BY <1>1, <1>2 DEF WellKept, IndexCovers, Held
<1>5. WellKept(n)
  BY <1>2, <1>3, <1>4, ChangesKept DEF Changes
<1> QED BY <1>3, <1>5, <1>n

\* A handoff mints a lease that keeps the token and drops the anchor (handoff).
LEMMA HandedOffEffect ==
  ASSUME NEW h, WellKept(h), NEW now \in Int, NEW t \in Tasks, NEW to \in Agents, Held(h, t)
  PROVE  LET n == HandedOff(h, now, t, to) IN WellKept(n) /\ Mints(h, n, t, now)
<1> DEFINE epoch == h.epochSeq + 1
           o == h.claims[t]
           y == now + DefaultTtl
           c == [o EXCEPT !.owner = to, !.claimedAt = now, !.expires = y,
                          !.epoch = epoch, !.ownershipEpoch = epoch, !.version = 0]
           m == [h EXCEPT !.epochSeq = epoch]
           n == WithClaim(m, t, c)
<1>0. h \in Registry /\ epoch \in Nat /\ y \in Int /\ epoch = h.epochSeq + 1
  BY BoundAssumption DEF WellKept, Registry
<1>1. o \in Claim /\ o = h.claims[t] /\ h.expired[t] = NoToken
  BY <1>0 DEF Registry, Held, WellKept, OneResumeToken
<1>n. HandedOff(h, now, t, to) = n
  BY DEF HandedOff
<1> HIDE DEF o, y, epoch
<1>2. /\ c \in Claim /\ c.epoch = epoch /\ c.ownershipEpoch = epoch
      /\ c.checkpoint = o.checkpoint /\ c.scope = o.scope
      /\ c.claimedAt = now /\ c.expires = y
  BY <1>0, <1>1 DEF Claim
<1>t. Term(c) \in MinimumTtl..MaximumTtl
  BY <1>2, BoundAssumption DEF Term, y
<1> HIDE DEF c
<1>3. /\ m \in Registry /\ m.claims = h.claims /\ m.index = h.index
      /\ m.custody = h.custody /\ m.retained = h.retained /\ m.epochSeq = epoch
      /\ m.expired = h.expired
  BY <1>0 DEF Registry
<1> HIDE DEF m
<1>4. \A u \in Tasks : Held(m, u) <=> Held(h, u)
  BY <1>3 DEF Held
<1>5. /\ n \in Registry /\ n.claims = [h.claims EXCEPT ![t] = c]
      /\ n.expired = h.expired /\ n.epochSeq = epoch
      /\ n.custody = h.custody /\ n.retained = h.retained
      /\ IndexCovers(n)
  BY <1>2, <1>3, <1>4, WithClaimFacts DEF WellKept, IndexCovers
<1> HIDE DEF n
<1>6. n.claims[t] = c /\ Held(n, t) /\ \A u \in Tasks \ {t} : n.claims[u] = h.claims[u]
  BY <1>0, <1>2, <1>5, NoClaimAssumption DEF Registry, Held
<1>7. Grants(h, n, t)
  BY <1>0, <1>1, <1>2, <1>5, <1>6 DEF Grants, Apart, ResumeToken
<1>8. WellKept(n)
  BY <1>5, <1>7, ChangesKept DEF Changes
<1>9. Mints(h, n, t, now)
  BY <1>1, <1>2, <1>6, <1>7, <1>t DEF Mints
<1> QED BY <1>8, <1>9, <1>n

-----------------------------------------------------------------------------
(* The same for the methods as called: granted past the guard, and nothing    *)
(* but the sweep otherwise.                                                    *)

\* claim: mints a lease for the claimant, or only expires what is due.
LEMMA ClaimTaskEffect ==
  ASSUME NEW s, WellKept(s), NEW now \in Int, NEW a \in Agents, NEW p \in Principals,
         NEW t \in Tasks, NEW scope \in Scopes, NEW ttl \in Nat, NEW ru \in BOOLEAN
  PROVE  LET h == Expire(s, now)
             n == ClaimTask(s, now, a, p, t, scope, ttl, ru)
         IN  /\ WellKept(n)
             /\ IF ClaimOk(h, now, a, p, t, scope, ru) THEN Mints(h, n, t, now) ELSE n = h
<1> DEFINE h == Expire(s, now)
<1>1. /\ WellKept(h)
      /\ \A u \in Tasks : Held(h, u) => ~(s.claims[u].expires <= now) /\ h.claims[u] = s.claims[u]
  BY ExpireEffect
<1> HIDE DEF h
<1>2. CASE ClaimOk(h, now, a, p, t, scope, ru)
  <2>1. ASSUME Held(h, t) PROVE h.claims[t].owner = a
    <3>1. h.claims[t] \in Claim /\ ~(h.claims[t].expires <= now)
      BY <1>1, <2>1 DEF WellKept, Registry, Held
    <3>2. h.claims[t].expires > now
      BY <3>1 DEF Claim
    <3> QED BY <1>2, <2>1, <3>2 DEF ClaimOk
  <2>2. LET n == Granted(h, now, a, p, t, scope, ttl) IN WellKept(n) /\ Mints(h, n, t, now)
    BY <1>1, <2>1, GrantedEffect
  <2> QED BY <1>2, <2>2 DEF ClaimTask, h
<1>3. CASE ~ClaimOk(h, now, a, p, t, scope, ru)
  BY <1>1, <1>3 DEF ClaimTask, h
<1> QED BY <1>2, <1>3 DEF h

\* renew_claim: edits the lease, or only expires what is due.
LEMMA RenewClaimEffect ==
  ASSUME NEW s, WellKept(s), NEW now \in Int, NEW a \in Agents, NEW t \in Tasks,
         NEW epoch, NEW scope
  PROVE  LET h == Expire(s, now)
             n == RenewClaim(s, now, a, t, epoch, scope)
         IN  /\ WellKept(n)
             /\ IF RenewOk(h, a, t, epoch, scope) THEN Extends(h, n, t, now) ELSE n = h
<1> DEFINE h == Expire(s, now)
<1>1. WellKept(h)
  BY ExpireEffect
<1> HIDE DEF h
<1>2. CASE RenewOk(h, a, t, epoch, scope)
  <2>1. Held(h, t)
    BY <1>2 DEF RenewOk
  <2>2. LET n == Renewed(h, now, t) IN WellKept(n) /\ Extends(h, n, t, now)
    BY <1>1, <2>1, RenewedEffect
  <2> QED BY <1>2, <2>2 DEF RenewClaim, h
<1>3. CASE ~RenewOk(h, a, t, epoch, scope)
  BY <1>1, <1>3 DEF RenewClaim, h
<1> QED BY <1>2, <1>3 DEF h

\* update_task: edits the lease, or only expires what is due.
LEMMA UpdateTaskEffect ==
  ASSUME NEW s, WellKept(s), NEW now \in Int, NEW a \in Agents, NEW t \in Tasks,
         NEW status \in Statuses \cup {NoStatus}, NEW epoch, NEW version
  PROVE  LET h == Expire(s, now)
             n == UpdateTask(s, now, a, t, status, epoch, version)
         IN  /\ WellKept(n)
             /\ IF UpdateOk(h, a, t, status, epoch, version) THEN Keeps(h, n, t) ELSE n = h
<1> DEFINE h == Expire(s, now)
           st == IF status = NoStatus THEN h.claims[t].status ELSE status
<1>1. WellKept(h)
  BY ExpireEffect
<1> HIDE DEF h
<1>2. CASE UpdateOk(h, a, t, status, epoch, version)
  <2>1. Held(h, t)
    BY <1>2 DEF UpdateOk, OwnerMay
  <2>2. h.claims[t] \in Claim
    BY <1>1, <2>1 DEF WellKept, Registry, Held
  <2>3. st \in Statuses /\ h.claims[t].checkpoint \in Tokens \cup {NoToken}
    BY <2>2 DEF Claim
  <2>4. LET n == Edited(h, t, st, h.claims[t].checkpoint) IN WellKept(n) /\ Keeps(h, n, t)
    BY <1>1, <2>1, <2>3, EditedEffect
  <2> QED BY <1>2, <2>4 DEF UpdateTask, h
<1>3. CASE ~UpdateOk(h, a, t, status, epoch, version)
  BY <1>1, <1>3 DEF UpdateTask, h
<1> QED BY <1>2, <1>3 DEF h

\* save_checkpoint: edits the lease, or only expires what is due.
LEMMA SaveCheckpointEffect ==
  ASSUME NEW s, WellKept(s), NEW now \in Int, NEW a \in Agents, NEW t \in Tasks,
         NEW token \in Tokens \cup {NoToken}, NEW epoch
  PROVE  LET h == Expire(s, now)
             n == SaveCheckpoint(s, now, a, t, token, epoch)
         IN  /\ WellKept(n)
             /\ IF OwnerMay(h, a, t, epoch) THEN Keeps(h, n, t) ELSE n = h
<1> DEFINE h == Expire(s, now)
<1>1. WellKept(h)
  BY ExpireEffect
<1> HIDE DEF h
<1>2. CASE OwnerMay(h, a, t, epoch)
  <2>1. Held(h, t)
    BY <1>2 DEF OwnerMay
  <2>2. h.claims[t] \in Claim
    BY <1>1, <2>1 DEF WellKept, Registry, Held
  <2>3. h.claims[t].status \in Statuses
    BY <2>2 DEF Claim
  <2>4. LET n == Edited(h, t, h.claims[t].status, token) IN WellKept(n) /\ Keeps(h, n, t)
    BY <1>1, <2>1, <2>3, EditedEffect
  <2> QED BY <1>2, <2>4 DEF SaveCheckpoint, h
<1>3. CASE ~OwnerMay(h, a, t, epoch)
  BY <1>1, <1>3 DEF SaveCheckpoint, h
<1> QED BY <1>2, <1>3 DEF h

\* release: drops the lease, or only expires what is due.
LEMMA ReleaseEffect ==
  ASSUME NEW s, WellKept(s), NEW now \in Int, NEW a \in Agents, NEW t \in Tasks, NEW epoch
  PROVE  LET h == Expire(s, now)
             n == Release(s, now, a, t, epoch)
         IN  /\ WellKept(n)
             /\ IF OwnerMay(h, a, t, epoch) THEN Drops(h, n, t) ELSE n = h
<1> DEFINE h == Expire(s, now)
<1>1. WellKept(h)
  BY ExpireEffect
<1> HIDE DEF h
<1>2. CASE OwnerMay(h, a, t, epoch)
  <2>1. Held(h, t)
    BY <1>2 DEF OwnerMay
  <2>2. LET n == Dropped(h, t) IN WellKept(n) /\ Drops(h, n, t)
    BY <1>1, <2>1, DroppedEffect
  <2> QED BY <1>2, <2>2 DEF Release, h
<1>3. CASE ~OwnerMay(h, a, t, epoch)
  BY <1>1, <1>3 DEF Release, h
<1> QED BY <1>2, <1>3 DEF h

\* handoff: mints a lease for the recipient, or only expires what is due.
LEMMA HandoffEffect ==
  ASSUME NEW s, WellKept(s), NEW now \in Int, NEW a \in Agents, NEW t \in Tasks,
         NEW to \in Agents, NEW epoch
  PROVE  LET h == Expire(s, now)
             n == Handoff(s, now, a, t, to, epoch)
         IN  /\ WellKept(n)
             /\ IF HandoffOk(h, a, t, to, epoch) THEN Mints(h, n, t, now) ELSE n = h
<1> DEFINE h == Expire(s, now)
<1>1. WellKept(h)
  BY ExpireEffect
<1> HIDE DEF h
<1>2. CASE HandoffOk(h, a, t, to, epoch)
  <2>1. Held(h, t)
    BY <1>2 DEF HandoffOk, OwnerMay
  <2>2. LET n == HandedOff(h, now, t, to) IN WellKept(n) /\ Mints(h, n, t, now)
    BY <1>1, <2>1, HandedOffEffect
  <2> QED BY <1>2, <2>2 DEF Handoff, h
<1>3. CASE ~HandoffOk(h, a, t, to, epoch)
  BY <1>1, <1>3 DEF Handoff, h
<1> QED BY <1>2, <1>3 DEF h

-----------------------------------------------------------------------------
(* What a lease service sees of a request: the leases and their fences.       *)

\* Every live lease runs for a term the hub grants.
TermsAgreed(s) == \A t \in Tasks : Held(s, t) => Term(s.claims[t]) \in MinimumTtl..MaximumTtl

\* A lease granted or extended at an instant, for an agreed term.
Judges(h, n, t, at) ==
    /\ Held(n, t)
    /\ n.claims[t].claimedAt = at /\ Term(n.claims[t]) \in MinimumTtl..MaximumTtl
    /\ \/ /\ n.epochSeq = h.epochSeq + 1 /\ n.claims[t].epoch = n.epochSeq
          /\ Held(h, t) => \/ n.claims[t].owner = h.claims[t].owner
                           \/ n.claims[t].scope = h.claims[t].scope
       \/ /\ Held(h, t) /\ n.epochSeq = h.epochSeq
          /\ n.claims[t].owner = h.claims[t].owner
          /\ n.claims[t].scope = h.claims[t].scope
          /\ n.claims[t].epoch = h.claims[t].epoch

\* A lease left as clients know it, or ended.
Rests(h, n, t) ==
    /\ n.epochSeq = h.epochSeq
    /\ Held(n, t) => /\ Held(h, t) /\ LeaseOf(n.claims[t]) = LeaseOf(h.claims[t])
                     /\ n.claims[t].claimedAt = h.claims[t].claimedAt

Alone(h, n, t) == \A u \in Tasks \ {t} : n.claims[u] = h.claims[u]

\* Every granted method is one of the two for the task it names.
LEMMA MethodsServe ==
  ASSUME NEW h \in Registry, TermsAgreed(h), NEW n, NEW t \in Tasks, NEW at
  PROVE  /\ Mints(h, n, t, at) \/ Extends(h, n, t, at) => Alone(h, n, t) /\ Judges(h, n, t, at)
         /\ Keeps(h, n, t) \/ Drops(h, n, t) => Alone(h, n, t) /\ Rests(h, n, t)
<1>1. ASSUME Mints(h, n, t, at) PROVE Alone(h, n, t) /\ Judges(h, n, t, at)
  BY <1>1 DEF Mints, Grants, Apart, Alone, Judges
<1>2. ASSUME Extends(h, n, t, at) PROVE Alone(h, n, t) /\ Judges(h, n, t, at)
  BY <1>2 DEF Extends, Edits, Apart, Alone, Judges, TermsAgreed
<1>3. ASSUME Keeps(h, n, t) PROVE Alone(h, n, t) /\ Rests(h, n, t)
  BY <1>3 DEF Keeps, Edits, Apart, Alone, Rests, LeaseOf
<1>4. ASSUME Drops(h, n, t) PROVE Alone(h, n, t) /\ Rests(h, n, t)
  BY <1>4 DEF Drops, Apart, Alone, Rests
<1> QED BY <1>1, <1>2, <1>3, <1>4

\* A lease is never the absent claim.
LEMMA LeaseIsNotFree ==
  ASSUME NEW s \in Registry, NEW t \in Tasks
  PROVE  /\ Held(s, t) =>
              /\ s.claims[t] \in Claim
              /\ LeasesOf(s)[t] = LeaseOf(s.claims[t])
              /\ LeasesOf(s)[t] # NoClaim
         /\ ~Held(s, t) => LeasesOf(s)[t] = NoClaim
<1>1. ASSUME Held(s, t) PROVE s.claims[t] \in Claim
  BY <1>1 DEF Held, Registry
<1> QED BY <1>1, NoLeaseAssumption DEF LeasesOf, LeaseOf, Claim

\* The leases a request leaves: the task's is granted under the next fence where
\* nobody else's overlaps, extended, left, or ended.
LEMMA ServedLeases ==
  ASSUME NEW h \in Registry, NEW n \in Registry, NEW t \in Tasks, NEW at \in Int,
         TermsAgreed(h), ExclusiveScopes(n), Alone(h, n, t),
         Judges(h, n, t, at) \/ Rests(h, n, t)
  PROVE  LET l == LeasesOf(h)
             m == LeasesOf(n)
         IN  \/ \E c \in Agents, sc \in Scopes, term \in MinimumTtl..MaximumTtl :
                  /\ l[t] = NoClaim \/ l[t].holder = c \/ l[t].scope = sc
                  /\ \A q \in Tasks \ {t} : l[q] # NoClaim /\ l[q].holder # c =>
                        <<sc, l[q].scope>> \notin Overlap
                  /\ m = [l EXCEPT ![t] = [holder |-> c, scope |-> sc,
                                           fence |-> h.epochSeq + 1, until |-> at + term]]
                  /\ n.epochSeq = h.epochSeq + 1
             \/ \E term \in MinimumTtl..MaximumTtl :
                  /\ l[t] # NoClaim /\ m = [l EXCEPT ![t].until = at + term]
                  /\ n.epochSeq = h.epochSeq
             \/ (m = l \/ m = [l EXCEPT ![t] = NoClaim]) /\ n.epochSeq = h.epochSeq
<1> DEFINE l == LeasesOf(h)
           m == LeasesOf(n)
           k == n.claims[t]
<1>1. \A u \in Tasks : Held(h, u) => h.claims[u] \in Claim /\ l[u] = LeaseOf(h.claims[u])
  BY LeaseIsNotFree
<1>2. \A u \in Tasks : l[u] # NoClaim <=> Held(h, u)
  BY LeaseIsNotFree
<1>3. \A u \in Tasks \ {t} : m[u] = l[u] /\ (Held(n, u) <=> Held(h, u))
  BY DEF Alone, LeasesOf, Held
<1>4. m = [l EXCEPT ![t] = m[t]]
  BY <1>3 DEF LeasesOf
<1>5. ASSUME Held(n, t)
      PROVE  k \in Claim /\ m[t] = [holder |-> k.owner, scope |-> k.scope,
                                    fence |-> k.epoch, until |-> k.expires]
  BY <1>5, LeaseIsNotFree DEF LeaseOf
<1>6. ~Held(n, t) => m[t] = NoClaim
  BY LeaseIsNotFree
<1>7. ASSUME Held(n, t)
      PROVE  \A q \in Tasks \ {t} : l[q] # NoClaim /\ l[q].holder # k.owner =>
                <<k.scope, l[q].scope>> \notin Overlap
  <2> SUFFICES ASSUME NEW q \in Tasks \ {t}, l[q] # NoClaim, l[q].holder # k.owner,
                      <<k.scope, l[q].scope>> \in Overlap
               PROVE  FALSE
    OBVIOUS
  <2>1. Held(n, q) /\ n.claims[q] = h.claims[q] /\ l[q] = LeaseOf(h.claims[q])
    BY <1>1, <1>2, <1>3 DEF Alone
  <2> QED BY <1>7, <2>1 DEF ExclusiveScopes, LeaseOf
<1> HIDE DEF l, m, k
<1>8. ASSUME Judges(h, n, t, at), n.epochSeq = h.epochSeq + 1
      PROVE  \E sc \in Scopes, a \in Agents, term \in MinimumTtl..MaximumTtl :
                  /\ l[t] = NoClaim \/ l[t].holder = a \/ l[t].scope = sc
                  /\ \A q \in Tasks \ {t} : l[q] # NoClaim /\ l[q].holder # a =>
                        <<sc, l[q].scope>> \notin Overlap
                  /\ m = [l EXCEPT ![t] = [holder |-> a, scope |-> sc,
                                           fence |-> h.epochSeq + 1, until |-> at + term]]
  <2>1. Held(n, t) /\ k.claimedAt = at /\ Term(k) \in MinimumTtl..MaximumTtl
    BY <1>8 DEF Judges, k
  <2>2. k.epoch = h.epochSeq + 1 /\ (Held(h, t) => \/ k.owner = h.claims[t].owner
                                                   \/ k.scope = h.claims[t].scope)
    <3>1. h.epochSeq \in Nat
      BY DEF Registry
    <3> QED BY <1>8, <3>1 DEF Judges, k
  <2>3. k.owner \in Agents /\ k.scope \in Scopes /\ k.expires = at + Term(k)
    BY <1>5, <2>1 DEF Claim, Term
  <2>4. l[t] = NoClaim \/ l[t].holder = k.owner \/ l[t].scope = k.scope
    <3>1. CASE Held(h, t)
      <4> DEFINE o == h.claims[t]
      <4>1. l[t] = [holder |-> o.owner, scope |-> o.scope, fence |-> o.epoch, until |-> o.expires]
        BY <1>1, <3>1 DEF LeaseOf
      <4>2. k.owner = o.owner \/ k.scope = o.scope
        BY <2>2, <3>1
      <4> HIDE DEF o
      <4> QED BY <4>1, <4>2
    <3> QED BY <1>2, <3>1
  <2>5. m = [l EXCEPT ![t] = [holder |-> k.owner, scope |-> k.scope,
                              fence |-> h.epochSeq + 1, until |-> at + Term(k)]]
    BY <1>4, <1>5, <2>1, <2>2, <2>3
  <2> QED BY <1>7, <2>1, <2>3, <2>4, <2>5
<1>9. ASSUME Judges(h, n, t, at), n.epochSeq # h.epochSeq + 1
      PROVE  /\ n.epochSeq = h.epochSeq /\ l[t] # NoClaim
             /\ \E term \in MinimumTtl..MaximumTtl : m = [l EXCEPT ![t].until = at + term]
  <2>1. /\ Held(n, t) /\ k.claimedAt = at /\ Term(k) \in MinimumTtl..MaximumTtl
        /\ Held(h, t) /\ n.epochSeq = h.epochSeq
        /\ k.owner = h.claims[t].owner /\ k.scope = h.claims[t].scope
        /\ k.epoch = h.claims[t].epoch
    BY <1>9 DEF Judges, k
  <2>2. k.expires = at + Term(k)
    BY <1>5, <2>1 DEF Claim, Term
  <2>3. m[t] = [l[t] EXCEPT !.until = at + Term(k)]
    <3> DEFINE due == at + Term(k)
               o == h.claims[t]
    <3>1. /\ l[t] = [holder |-> o.owner, scope |-> o.scope, fence |-> o.epoch, until |-> o.expires]
          /\ m[t] = [holder |-> o.owner, scope |-> o.scope, fence |-> o.epoch, until |-> due]
      BY <1>1, <1>5, <2>1, <2>2 DEF LeaseOf
    <3> HIDE DEF due, o
    <3>2. m[t] = [l[t] EXCEPT !.until = due]
      BY <3>1
    <3> QED BY <3>2 DEF due
  <2> QED BY <1>2, <1>4, <2>1, <2>3
<1>10. ASSUME Rests(h, n, t)
       PROVE  (m = l \/ m = [l EXCEPT ![t] = NoClaim]) /\ n.epochSeq = h.epochSeq
  <2>1. CASE Held(n, t)
    <3>1. m[t] = l[t]
      BY <1>1, <1>5, <1>10, <2>1 DEF Rests, LeaseOf, k
    <3> QED BY <1>4, <1>10, <3>1 DEF Rests, l, LeasesOf
  <2>2. CASE ~Held(n, t)
    BY <1>4, <1>6, <1>10, <2>2 DEF Rests
  <2> QED BY <2>1, <2>2
<1> QED BY <1>8, <1>9, <1>10 DEF l, m
=============================================================================
