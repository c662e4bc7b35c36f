------------------------ MODULE ClaimRegistryProofs ------------------------
(* The registry invariant of a hub, for every instance of ClaimRegistry.    *)
EXTENDS ClaimRegistry, SynapseStateProofs

\* The inductive invariant: a sound registry and an integer clock.
IInv == Sound(reg) /\ now \in Int

\* A new hub satisfies the invariant.
LEMMA InitIInv == Init => IInv
  BY InitSound DEF Init, IInv

\* Every request, tick and clock step preserves the invariant.
LEMMA NextIInv == IInv /\ [Next]_vars => IInv'
<1> SUFFICES ASSUME IInv, [Next]_vars PROVE IInv'
  OBVIOUS
<1> USE DEF IInv
<1>1. CASE Advance
  BY <1>1 DEF Advance
<1>2. CASE StepBack
  BY <1>2 DEF StepBack
<1>3. CASE Heartbeat
  BY <1>3, ExpireSound DEF Heartbeat
<1>4. CASE DoForceRelease
  <2>1. PICK t \in Tasks : reg' = ForceRelease(reg, t) /\ UNCHANGED now
    BY <1>4 DEF DoForceRelease
  <2>2. Sound(ForceRelease(reg, t))
    BY DroppedSound DEF ForceRelease
  <2> QED BY <2>1, <2>2
<1>5. CASE DoInstall
  BY <1>5, InstallSound DEF DoInstall
<1>6. CASE DoTransfer
  BY <1>6, TransferSound DEF DoTransfer
<1>7. CASE DoSettle
  BY <1>7, SettleSound DEF DoSettle
<1>8. ASSUME NEW a \in Agents, DoClaim(a) PROVE IInv'
  <2>1. PICK p \in PrincipalsOf[a], t \in Tasks, sc \in Scopes, ttl \in Ttls, ru \in BOOLEAN :
          reg' = ClaimTask(reg, now, a, p, t, sc, ttl, ru) /\ UNCHANGED now
    BY <1>8 DEF DoClaim
  <2>2. p \in Principals /\ ttl \in Nat
    BY InputAssumption
  <2>3. Sound(ClaimTask(reg, now, a, p, t, sc, ttl, ru))
    BY <2>2, ClaimTaskSound
  <2> QED BY <2>1, <2>3
<1>9. ASSUME NEW a \in Agents, DoRenew(a) PROVE IInv'
  BY <1>9, RenewClaimSound DEF DoRenew
<1>10. ASSUME NEW a \in Agents, DoUpdate(a) PROVE IInv'
  <2>1. PICK t \in Tasks, st \in Goals, e \in Fences, v \in {NoFence} \cup 0..MaxVersion :
          reg' = UpdateTask(reg, now, a, t, st, e, v) /\ UNCHANGED now
    BY <1>10 DEF DoUpdate
  <2>2. st \in Statuses \cup {NoStatus}
    BY InputAssumption
  <2>3. Sound(UpdateTask(reg, now, a, t, st, e, v))
    BY <2>2, UpdateTaskSound
  <2> QED BY <2>1, <2>3
<1>11. ASSUME NEW a \in Agents, DoCheckpoint(a) PROVE IInv'
  BY <1>11, SaveCheckpointSound DEF DoCheckpoint
<1>12. ASSUME NEW a \in Agents, DoRelease(a) PROVE IInv'
  BY <1>12, ReleaseSound DEF DoRelease
<1>13. ASSUME NEW a \in Agents, DoHandoff(a) PROVE IInv'
  BY <1>13, HandoffSound DEF DoHandoff
<1>14. CASE UNCHANGED vars
  BY <1>14 DEF vars
<1> QED BY <1>1, <1>2, <1>3, <1>4, <1>5, <1>6, <1>7, <1>8, <1>9, <1>10, <1>11,
           <1>12, <1>13, <1>14 DEF Next

\* The invariant holds in every reachable state of a hub.
LEMMA IInvAlways == Spec => []IInv
  BY InitIInv, NextIInv, PTL DEF Spec

\* The registry is well typed in every reachable state.
THEOREM TypeCorrect == Spec => []TypeOK
<1>1. IInv => TypeOK
  BY DEF IInv, Sound, SoundLeases, TypeOK
<1> QED BY <1>1, IInvAlways, PTL

\* INV-ME-2 for any agents, tasks, scopes and symmetric overlap relation, and
\* for any behaviour of the wall clock: two agents never hold leases on
\* overlapping scopes.
THEOREM ScopesExclusive == Spec => []ScopeExclusion
<1>1. IInv => ScopeExclusion
  BY DEF IInv, Sound, SoundLeases, ScopeExclusion
<1> QED BY <1>1, IInvAlways, PTL

\* The heap never loses the entry of a live lease, at any compaction floor.
THEOREM IndexComplete == Spec => []IndexCoversClaims
<1>1. IInv => IndexCoversClaims
  BY DEF IInv, Sound, SoundLeases, IndexCoversClaims
<1> QED BY <1>1, IInvAlways, PTL

\* INV-EF-1: live generations are minted and distinct.
THEOREM EpochsUnique == Spec => []EpochsDistinct
<1>1. IInv => EpochsDistinct
  BY DEF IInv, Sound, SoundLeases, EpochsDistinct
<1> QED BY <1>1, IInvAlways, PTL

\* INV-ME-5: no principal is charged with more leases than the cap, whatever
\* sequence of claims, re-claims and handoffs led there.
THEOREM QuotaHolds == Spec => []QuotaRespected
<1>1. IInv => QuotaRespected
  BY DEF IInv, Sound, QuotaRespected
<1> QED BY <1>1, IInvAlways, PTL

\* INV-CR-3: a task never has both a live lease and a retained token.
THEOREM ResumeTokenUnique == Spec => []SingleResumeToken
<1>1. IInv => SingleResumeToken
  BY DEF IInv, Sound, SoundLeases, SingleResumeToken
<1> QED BY <1>1, IInvAlways, PTL

\* A lease under protected custody is the witnessed one until it is gone: no
\* renewal, update, handoff or re-claim reaches it.
THEOREM CustodyFreezes == Spec => []CustodyFreezesClaim
<1>1. IInv => CustodyFreezesClaim
  BY DEF IInv, Sound, SoundCustody, CustodyFreezesClaim
<1> QED BY <1>1, IInvAlways, PTL

\* Protected custody excludes every other agent from the retained scopes, even
\* after the witnessed leases expire, and two reservations never share one.
THEOREM CustodyExcludes == Spec => []CustodyExcludesOthers
<1>1. IInv => CustodyExcludesOthers
  BY DEF IInv, Sound, SoundCustody, CustodyExcludesOthers
<1> QED BY <1>1, IInvAlways, PTL

-----------------------------------------------------------------------------
(* Action properties: what one request, sweep or operator step may change.   *)

\* Every step leaves the leases alone, sweeps them, changes one lease of the
\* swept registry, or drops one at an operator's command.
LEMMA StepEffect ==
  ASSUME IInv, [Next]_vars
  PROVE  LET h == Expire(reg, now)
         IN  \/ /\ reg'.claims = reg.claims /\ reg'.expired = reg.expired
                /\ reg'.epochSeq = reg.epochSeq
             \/ reg' = h
             \/ \E t \in Tasks : Changes(h, reg', t)
             \/ \E t \in Tasks : Drops(reg, reg', t) /\ reg' = ForceRelease(reg, t)
<1> DEFINE h == Expire(reg, now)
           Goal == \/ /\ reg'.claims = reg.claims /\ reg'.expired = reg.expired
                      /\ reg'.epochSeq = reg.epochSeq
                   \/ reg' = h
                   \/ \E t \in Tasks : Changes(h, reg', t)
                   \/ \E t \in Tasks : Drops(reg, reg', t) /\ reg' = ForceRelease(reg, t)
<1>0. WellKept(reg) /\ now \in Int /\ reg \in Registry
  BY SoundIsKept DEF IInv, WellKept
<1>1. ASSUME Advance \/ StepBack \/ UNCHANGED vars PROVE Goal
  BY <1>1 DEF Advance, StepBack, vars
<1>2. ASSUME DoInstall \/ DoTransfer \/ DoSettle PROVE Goal
  BY <1>0, <1>2 DEF DoInstall, DoTransfer, DoSettle, InstallAdmission, TransferCustody,
                   SettleCustody, Registry
<1>3. CASE Heartbeat
  BY <1>3 DEF Heartbeat
<1>4. CASE DoForceRelease
  <2>1. PICK t \in Tasks : reg' = ForceRelease(reg, t)
    BY <1>4 DEF DoForceRelease
  <2>2. CASE ~ForceReleaseOk(reg, t)
    BY <2>1, <2>2 DEF ForceRelease
  <2>3. CASE ForceReleaseOk(reg, t)
    <3>1. Drops(reg, reg', t)
      BY <1>0, <2>1, <2>3, DroppedEffect DEF ForceRelease, ForceReleaseOk
    <3> QED BY <2>1, <3>1
  <2> QED BY <2>2, <2>3
<1>5. ASSUME NEW a \in Agents, DoClaim(a) PROVE Goal
  <2>1. PICK p \in PrincipalsOf[a], t \in Tasks, sc \in Scopes, ttl \in Ttls, ru \in BOOLEAN :
          reg' = ClaimTask(reg, now, a, p, t, sc, ttl, ru)
    BY <1>5 DEF DoClaim
  <2>2. p \in Principals /\ ttl \in Nat
    BY InputAssumption
  <2>3. Grants(h, reg', t) \/ reg' = h
    BY <1>0, <2>1, <2>2, ClaimTaskEffect DEF Mints
  <2> QED BY <2>3 DEF Changes
<1>6. ASSUME NEW a \in Agents, DoRenew(a) PROVE Goal
  <2>1. PICK t \in Tasks, e \in 1..reg.epochSeq, sc \in Scopes :
          reg' = RenewClaim(reg, now, a, t, e, sc)
    BY <1>6 DEF DoRenew
  <2>2. Edits(h, reg', t) \/ reg' = h
    BY <1>0, <2>1, RenewClaimEffect DEF Extends
  <2> QED BY <2>2 DEF Changes
<1>7. ASSUME NEW a \in Agents, DoUpdate(a) PROVE Goal
  <2>1. PICK t \in Tasks, st \in Goals, e \in Fences, v \in {NoFence} \cup 0..MaxVersion :
          reg' = UpdateTask(reg, now, a, t, st, e, v)
    BY <1>7 DEF DoUpdate
  <2>2. st \in Statuses \cup {NoStatus}
    BY InputAssumption
  <2>3. Edits(h, reg', t) \/ reg' = h
    BY <1>0, <2>1, <2>2, UpdateTaskEffect DEF Keeps
  <2> QED BY <2>3 DEF Changes
<1>8. ASSUME NEW a \in Agents, DoCheckpoint(a) PROVE Goal
  <2>1. PICK t \in Tasks, tok \in Tokens \cup {NoToken}, e \in Fences :
          reg' = SaveCheckpoint(reg, now, a, t, tok, e)
    BY <1>8 DEF DoCheckpoint
  <2>2. Edits(h, reg', t) \/ reg' = h
    BY <1>0, <2>1, SaveCheckpointEffect DEF Keeps
  <2> QED BY <2>2 DEF Changes
<1>9. ASSUME NEW a \in Agents, DoRelease(a) PROVE Goal
  <2>1. PICK t \in Tasks, e \in Fences : reg' = Release(reg, now, a, t, e)
    BY <1>9 DEF DoRelease
  <2>2. Drops(h, reg', t) \/ reg' = h
    BY <1>0, <2>1, ReleaseEffect
  <2> QED BY <2>2 DEF Changes
<1>10. ASSUME NEW a \in Agents, DoHandoff(a) PROVE Goal
  <2>1. PICK t \in Tasks, to \in Agents, e \in Fences :
          reg' = Handoff(reg, now, a, t, to, e)
    BY <1>10 DEF DoHandoff
  <2>2. Grants(h, reg', t) \/ reg' = h
    BY <1>0, <2>1, HandoffEffect DEF Mints
  <2> QED BY <2>2 DEF Changes
<1> QED BY <1>1, <1>2, <1>3, <1>4, <1>5, <1>6, <1>7, <1>8, <1>9, <1>10 DEF Next

\* What a step changes of one task t: nothing, a sweep of its lease, a change
\* of its undue lease, or an operator's release.
LEMMA TaskEffect ==
  ASSUME IInv, [Next]_vars, NEW t \in Tasks
  PROVE  LET h == Expire(reg, now)
         IN  /\ WellKept(reg) /\ WellKept(h) /\ h.epochSeq = reg.epochSeq
             /\ ResumeToken(h, t) = ResumeToken(reg, t)
             /\ Held(h, t) => /\ Held(reg, t) /\ h.claims[t] = reg.claims[t]
                              /\ reg.claims[t].expires > now
             /\ \/ reg'.claims[t] = reg.claims[t] /\ reg'.expired[t] = reg.expired[t]
                \/ reg'.claims[t] = h.claims[t] /\ reg'.expired[t] = h.expired[t]
                \/ Changes(h, reg', t)
                \/ Drops(reg, reg', t) /\ reg' = ForceRelease(reg, t)
<1> DEFINE h == Expire(reg, now)
<1>0. WellKept(reg) /\ now \in Int /\ reg \in Registry
  BY SoundIsKept DEF IInv, WellKept
<1>1. /\ WellKept(h) /\ h.epochSeq = reg.epochSeq
      /\ ResumeToken(h, t) = ResumeToken(reg, t)
      /\ Held(h, t) => /\ Held(reg, t) /\ h.claims[t] = reg.claims[t]
                       /\ ~(reg.claims[t].expires <= now)
  BY <1>0, ExpireEffect
<1>2. Held(h, t) => reg.claims[t].expires > now
  BY <1>0, <1>1 DEF Registry, Held, Claim
<1>3. \/ /\ reg'.claims = reg.claims /\ reg'.expired = reg.expired
         /\ reg'.epochSeq = reg.epochSeq
      \/ reg' = h
      \/ \E u \in Tasks : Changes(h, reg', u)
      \/ \E u \in Tasks : Drops(reg, reg', u) /\ reg' = ForceRelease(reg, u)
  BY StepEffect
<1> HIDE DEF h
<1>4. ASSUME NEW u \in Tasks, Changes(h, reg', u), u # t
      PROVE  reg'.claims[t] = h.claims[t] /\ reg'.expired[t] = h.expired[t]
  BY <1>4 DEF Changes, Grants, Edits, Drops, Apart
<1>5. ASSUME NEW u \in Tasks, Drops(reg, reg', u), u # t
      PROVE  reg'.claims[t] = reg.claims[t] /\ reg'.expired[t] = reg.expired[t]
  BY <1>5 DEF Drops, Apart
<1> QED BY <1>0, <1>1, <1>2, <1>3, <1>4, <1>5 DEF h

\* INV-CR-3 for every instance: only the owner's checkpoint and a release of a
\* live lease change what the next claimant of a task resumes from.
THEOREM TokensCarried == Spec => TokenCarried
<1> DEFINE Carried == \A t \in Tasks : ResumeToken(reg, t)' # ResumeToken(reg, t) =>
              \/ /\ Held(reg, t) /\ ~Held(reg, t)'
                 /\ reg.claims[t].expires > now \/ reg' = ForceRelease(reg, t)
              \/ /\ Held(reg, t) /\ Held(reg, t)'
                 /\ reg'.claims[t].epoch = reg.claims[t].epoch
                 /\ reg'.claims[t].version = reg.claims[t].version + 1
<1>1. IInv /\ [Next]_vars => Carried
  <2> SUFFICES ASSUME IInv, [Next]_vars, NEW t \in Tasks,
                      ResumeToken(reg', t) # ResumeToken(reg, t)
               PROVE  \/ /\ Held(reg, t) /\ ~Held(reg', t)
                         /\ reg.claims[t].expires > now \/ reg' = ForceRelease(reg, t)
                      \/ /\ Held(reg, t) /\ Held(reg', t)
                         /\ reg'.claims[t].epoch = reg.claims[t].epoch
                         /\ reg'.claims[t].version = reg.claims[t].version + 1
    BY DEF ResumeToken, Held
  <2> DEFINE h == Expire(reg, now)
  <2>1. /\ WellKept(reg) /\ WellKept(h) /\ h.epochSeq = reg.epochSeq
        /\ ResumeToken(h, t) = ResumeToken(reg, t)
        /\ Held(h, t) => /\ Held(reg, t) /\ h.claims[t] = reg.claims[t]
                         /\ reg.claims[t].expires > now
        /\ \/ reg'.claims[t] = reg.claims[t] /\ reg'.expired[t] = reg.expired[t]
           \/ reg'.claims[t] = h.claims[t] /\ reg'.expired[t] = h.expired[t]
           \/ Changes(h, reg', t)
           \/ Drops(reg, reg', t) /\ reg' = ForceRelease(reg, t)
    BY TaskEffect
  <2> HIDE DEF h
  <2>2. ~(reg'.claims[t] = reg.claims[t] /\ reg'.expired[t] = reg.expired[t])
    BY DEF ResumeToken, Held
  <2>3. ~(reg'.claims[t] = h.claims[t] /\ reg'.expired[t] = h.expired[t])
    BY <2>1 DEF ResumeToken, Held
  <2>4. ~Grants(h, reg', t)
    BY <2>1 DEF Grants, ResumeToken
  <2>5. ASSUME Edits(h, reg', t)
        PROVE  /\ Held(reg, t) /\ Held(reg', t)
               /\ reg'.claims[t].epoch = reg.claims[t].epoch
               /\ reg'.claims[t].version = reg.claims[t].version + 1
    BY <2>1, <2>5 DEF Edits, ResumeToken
  <2>6. ASSUME Drops(h, reg', t)
        PROVE  Held(reg, t) /\ ~Held(reg', t) /\ reg.claims[t].expires > now
    BY <2>1, <2>6 DEF Drops
  <2>7. ASSUME Drops(reg, reg', t), reg' = ForceRelease(reg, t)
        PROVE  Held(reg, t) /\ ~Held(reg', t) /\ reg' = ForceRelease(reg, t)
    BY <2>7 DEF Drops
  <2> QED BY <2>1, <2>2, <2>3, <2>4, <2>5, <2>6, <2>7 DEF Changes
<1>2. IInv /\ [Next]_vars => [Carried]_vars
  BY <1>1
<1> QED BY <1>2, IInvAlways, PTL DEF Spec, TokenCarried

\* INV-EF-2 for every instance: a lease with an anchor or epoch minted before
\* the step continues the lease held there before, so whoever held an earlier
\* one is fenced out.
THEOREM AnchorsContinue == Spec => AnchorContinuity
<1> DEFINE Continued == \A t \in Tasks : Held(reg, t)' =>
              /\ reg'.claims[t].ownershipEpoch <= reg.epochSeq =>
                   /\ Held(reg, t)
                   /\ reg.claims[t].ownershipEpoch = reg'.claims[t].ownershipEpoch
                   /\ reg.claims[t].owner = reg'.claims[t].owner
                   /\ reg.claims[t].scope = reg'.claims[t].scope
              /\ reg'.claims[t].epoch <= reg.epochSeq =>
                   Held(reg, t) /\ reg.claims[t].epoch = reg'.claims[t].epoch
<1>1. IInv /\ [Next]_vars => Continued
  <2> SUFFICES ASSUME IInv, [Next]_vars, NEW t \in Tasks, Held(reg', t)
               PROVE  /\ reg'.claims[t].ownershipEpoch <= reg.epochSeq =>
                           /\ Held(reg, t)
                           /\ reg.claims[t].ownershipEpoch = reg'.claims[t].ownershipEpoch
                           /\ reg.claims[t].owner = reg'.claims[t].owner
                           /\ reg.claims[t].scope = reg'.claims[t].scope
                      /\ reg'.claims[t].epoch <= reg.epochSeq =>
                           Held(reg, t) /\ reg.claims[t].epoch = reg'.claims[t].epoch
    BY DEF Held
  <2> DEFINE h == Expire(reg, now)
  <2>1. /\ WellKept(reg) /\ WellKept(h) /\ h.epochSeq = reg.epochSeq
        /\ Held(h, t) => Held(reg, t) /\ h.claims[t] = reg.claims[t]
        /\ \/ reg'.claims[t] = reg.claims[t]
           \/ reg'.claims[t] = h.claims[t]
           \/ Changes(h, reg', t)
           \/ Drops(reg, reg', t)
    BY TaskEffect
  <2> HIDE DEF h
  <2>2. CASE reg'.claims[t] = reg.claims[t]
    BY <2>2 DEF Held
  <2>3. CASE reg'.claims[t] = h.claims[t]
    BY <2>1, <2>3 DEF Held
  <2>4. CASE Grants(h, reg', t)
    <3>1. reg.epochSeq \in Nat /\ reg'.claims[t].epoch = reg.epochSeq + 1
      BY <2>1, <2>4 DEF Grants, WellKept, Registry
    <3>2. reg'.claims[t].ownershipEpoch = reg.epochSeq + 1 \/
            /\ Held(h, t)
            /\ h.claims[t].ownershipEpoch = reg'.claims[t].ownershipEpoch
            /\ h.claims[t].owner = reg'.claims[t].owner
            /\ h.claims[t].scope = reg'.claims[t].scope
      BY <2>1, <2>4 DEF Grants
    <3> QED BY <2>1, <3>1, <3>2
  <2>5. CASE Edits(h, reg', t)
    BY <2>1, <2>5 DEF Edits
  <2> QED BY <2>1, <2>2, <2>3, <2>4, <2>5 DEF Changes, Drops
<1>2. IInv /\ [Next]_vars => [Continued]_vars
  BY <1>1
<1> QED BY <1>2, IInvAlways, PTL DEF Spec, AnchorContinuity

\* INV-EF-3 for every instance: within one generation a version names one
\* content, so a writer that matched both overwrites nothing unseen.
THEOREM VersionsName == Spec => VersionNamesContent
<1> DEFINE Named == \A t \in Tasks :
              /\ Held(reg, t) /\ Held(reg, t)'
              /\ reg'.claims[t].epoch = reg.claims[t].epoch
              /\ reg'.claims[t].version = reg.claims[t].version
              => /\ reg'.claims[t].status = reg.claims[t].status
                 /\ reg'.claims[t].checkpoint = reg.claims[t].checkpoint
<1>1. IInv /\ [Next]_vars => Named
  <2> SUFFICES ASSUME IInv, [Next]_vars, NEW t \in Tasks, Held(reg, t), Held(reg', t),
                      reg'.claims[t].epoch = reg.claims[t].epoch,
                      reg'.claims[t].version = reg.claims[t].version
               PROVE  /\ reg'.claims[t].status = reg.claims[t].status
                      /\ reg'.claims[t].checkpoint = reg.claims[t].checkpoint
    BY DEF Held
  <2> DEFINE h == Expire(reg, now)
  <2>1. /\ WellKept(reg) /\ WellKept(h) /\ h.epochSeq = reg.epochSeq
        /\ Held(h, t) => Held(reg, t) /\ h.claims[t] = reg.claims[t]
        /\ \/ reg'.claims[t] = reg.claims[t]
           \/ reg'.claims[t] = h.claims[t]
           \/ Changes(h, reg', t)
           \/ Drops(reg, reg', t)
    BY TaskEffect
  <2> HIDE DEF h
  <2>2. CASE reg'.claims[t] = reg.claims[t]
    BY <2>2
  <2>3. CASE reg'.claims[t] = h.claims[t]
    BY <2>1, <2>3 DEF Held
  <2>4. CASE Grants(h, reg', t)
    <3>1. /\ reg.epochSeq \in Nat /\ reg'.claims[t].epoch = reg.epochSeq + 1
          /\ reg.claims[t].epoch \in 1..reg.epochSeq
      BY <2>1, <2>4 DEF Grants, WellKept, Registry, MintedEpochs
    <3> QED BY <3>1
  <2>5. CASE Edits(h, reg', t)
    <3>1. reg.claims[t].version \in Nat
      BY <2>1 DEF WellKept, Registry, Held, Claim
    <3> QED BY <2>1, <2>5, <3>1 DEF Edits
  <2> QED BY <2>1, <2>2, <2>3, <2>4, <2>5 DEF Changes, Drops
<1>2. IInv /\ [Next]_vars => [Named]_vars
  BY <1>1
<1> QED BY <1>2, IInvAlways, PTL DEF Spec, VersionNamesContent

-----------------------------------------------------------------------------
(* The registry implements the lease service, for every instance: each       *)
(* request of ClaimRegistry is a step of LeaseService or changes nothing it   *)
(* shows.  Beside the registry invariant this needs that every lease runs for  *)
(* an agreed term, since a renewal repeats the term of the lease it extends.    *)

RInv == IInv /\ TermsAgreed(reg)

\* What every request finds once it has expired what is due: exactly the leases
\* the service calls live, still for agreed terms (_expire_claims).
LEMMA Swept ==
  ASSUME RInv, now' = now
  PROVE  LET h == Expire(reg, now)
         IN  /\ h \in Registry /\ TermsAgreed(h) /\ h.epochSeq = reg.epochSeq
             /\ LeasesOf(h) = Service!Live
<1> DEFINE h == Expire(reg, now)
<1>1. reg \in Registry /\ WellKept(reg) /\ now \in Int /\ TermsAgreed(reg)
  BY SoundIsKept DEF RInv, IInv, WellKept
<1>2. /\ h \in Registry /\ h.epochSeq = reg.epochSeq
      /\ \A t \in Tasks : Held(h, t) => h.claims[t] = reg.claims[t]
      /\ \A t \in Tasks : Held(h, t) <=> Held(reg, t) /\ ~(reg.claims[t].expires <= now)
  BY <1>1, ExpireEffect DEF WellKept
<1> HIDE DEF h
<1>3. ASSUME NEW t \in Tasks PROVE LeasesOf(h)[t] = Service!Live[t]
  <2>1. CASE Held(reg, t)
    <3>1. LeasesOf(reg)[t] = LeaseOf(reg.claims[t]) /\ LeasesOf(reg)[t] # NoClaim
      BY <1>1, <2>1, LeaseIsNotFree
    <3>2. LeasesOf(reg)[t].until = reg.claims[t].expires
      BY <3>1 DEF LeaseOf
    <3>3. CASE Held(h, t)
      BY <1>2, <3>1, <3>2, <3>3, LeaseIsNotFree DEF Service!Live
    <3>4. CASE ~Held(h, t)
      BY <1>2, <2>1, <3>1, <3>2, <3>4, LeaseIsNotFree DEF Service!Live
    <3> QED BY <3>3, <3>4
  <2>2. CASE ~Held(reg, t)
    BY <1>1, <1>2, <2>2, LeaseIsNotFree DEF Service!Live
  <2> QED BY <2>1, <2>2
<1>4. TermsAgreed(h)
  BY <1>1, <1>2 DEF TermsAgreed
<1> QED BY <1>2, <1>3, <1>4 DEF LeasesOf, Service!Live, h

\* A refused request is a sweep.
LEMMA RefusalSteps ==
  ASSUME RInv, reg' = Expire(reg, now), now' = now
  PROVE  Service!Next /\ TermsAgreed(reg')
<1>1. LeasesOf(reg') = Service!Live /\ reg'.epochSeq = reg.epochSeq /\ TermsAgreed(reg')
  BY Swept
<1> QED BY <1>1 DEF Service!Next, Service!Sweep, RInv, IInv

\* A request past its guards is served as what it does to the task's lease:
\* granted, passed on, extended, given up, or kept through a change of fields.
LEMMA ServedSteps ==
  ASSUME RInv, Sound(reg'), NEW t \in Tasks, now' = now,
         LET h == Expire(reg, now)
         IN  \/ Mints(h, reg', t, now) \/ Extends(h, reg', t, now)
             \/ Keeps(h, reg', t) \/ Drops(h, reg', t)
  PROVE  Service!Next /\ TermsAgreed(reg')
<1> DEFINE h == Expire(reg, now)
           l == LeasesOf(h)
           m == LeasesOf(reg')
<1>1. /\ h \in Registry /\ TermsAgreed(h) /\ h.epochSeq = reg.epochSeq
      /\ l = Service!Live
  BY Swept
<1>2. reg' \in Registry /\ ExclusiveScopes(reg') /\ now \in Int /\ now' \in Int
  BY DEF RInv, IInv, Sound, SoundLeases
<1>3. Alone(h, reg', t) /\ (Judges(h, reg', t, now) \/ Rests(h, reg', t))
  <2> HIDE DEF h
  <2>1. /\ Mints(h, reg', t, now) \/ Extends(h, reg', t, now)
             => Alone(h, reg', t) /\ Judges(h, reg', t, now)
        /\ Keeps(h, reg', t) \/ Drops(h, reg', t) => Alone(h, reg', t) /\ Rests(h, reg', t)
    BY <1>1, MethodsServe
  <2> QED BY <2>1 DEF h
<1> HIDE DEF h
<1>4. \/ \E c \in Agents, sc \in Scopes, term \in MinimumTtl..MaximumTtl :
           /\ l[t] = NoClaim \/ l[t].holder = c \/ l[t].scope = sc
           /\ \A q \in Tasks \ {t} : l[q] # NoClaim /\ l[q].holder # c =>
                 <<sc, l[q].scope>> \notin Overlap
           /\ m = [l EXCEPT ![t] = [holder |-> c, scope |-> sc,
                                    fence |-> h.epochSeq + 1, until |-> now + term]]
           /\ reg'.epochSeq = h.epochSeq + 1
      \/ \E term \in MinimumTtl..MaximumTtl :
           /\ l[t] # NoClaim /\ m = [l EXCEPT ![t].until = now + term]
           /\ reg'.epochSeq = h.epochSeq
      \/ (m = l \/ m = [l EXCEPT ![t] = NoClaim]) /\ reg'.epochSeq = h.epochSeq
  BY <1>1, <1>2, <1>3, ServedLeases
<1>5. Service!Next
  <2> HIDE DEF l, m
  <2>1. ASSUME NEW c \in Agents, NEW sc \in Scopes, NEW term \in MinimumTtl..MaximumTtl,
               l[t] = NoClaim \/ l[t].holder = c \/ l[t].scope = sc,
               \A q \in Tasks \ {t} : l[q] # NoClaim /\ l[q].holder # c =>
                     <<sc, l[q].scope>> \notin Overlap,
               m = [l EXCEPT ![t] = [holder |-> c, scope |-> sc,
                                     fence |-> h.epochSeq + 1, until |-> now + term]],
               reg'.epochSeq = h.epochSeq + 1
        PROVE  Service!Next
    <3>1. Service!Issue(t, c, sc, term)
      BY <1>1, <2>1 DEF Service!Issue, Service!Clear, m
    <3>2. Service!Grant(t, c, sc, term) \/ Service!Pass(t, c, term)
      BY <1>1, <2>1, <3>1 DEF Service!Grant, Service!Pass
    <3>3. Service!Request(t)
      BY <3>2 DEF Service!Request
    <3> QED BY <1>2, <3>3 DEF Service!Next
  <2>2. ASSUME NEW term \in MinimumTtl..MaximumTtl,
               l[t] # NoClaim, m = [l EXCEPT ![t].until = now + term],
               reg'.epochSeq = h.epochSeq
        PROVE  Service!Next
    <3>1. Service!Extend(t, term)
      BY <1>1, <2>2 DEF Service!Extend, m
    <3>2. Service!Request(t)
      BY <3>1 DEF Service!Request
    <3> QED BY <1>2, <3>2 DEF Service!Next
  <2>3. ASSUME m = l, reg'.epochSeq = h.epochSeq PROVE Service!Next
    BY <1>1, <1>2, <2>3 DEF Service!Next, Service!Sweep, m
  <2>4. ASSUME m = [l EXCEPT ![t] = NoClaim], reg'.epochSeq = h.epochSeq PROVE Service!Next
    <3>1. Service!GiveUp(t)
      BY <1>1, <2>4 DEF Service!GiveUp, m
    <3> QED BY <1>2, <3>1 DEF Service!Next, Service!Request
  <2> QED BY <1>4, <2>1, <2>2, <2>3, <2>4
<1>6. TermsAgreed(reg')
  <2> SUFFICES ASSUME NEW u \in Tasks, Held(reg', u)
               PROVE  Term(reg'.claims[u]) \in MinimumTtl..MaximumTtl
    BY DEF TermsAgreed
  <2>1. CASE u # t
    BY <1>1, <1>3, <2>1 DEF Alone, TermsAgreed, Held
  <2>2. CASE u = t /\ Judges(h, reg', t, now)
    BY <2>2 DEF Judges
  <2>3. CASE u = t /\ Rests(h, reg', t)
    <3>1. /\ Held(h, t) /\ LeaseOf(reg'.claims[t]) = LeaseOf(h.claims[t])
          /\ reg'.claims[t].claimedAt = h.claims[t].claimedAt
      BY <2>3 DEF Rests
    <3>2. reg'.claims[t].expires = h.claims[t].expires
      BY <3>1 DEF LeaseOf
    <3> QED BY <1>1, <2>3, <3>1, <3>2 DEF TermsAgreed, Term
  <2> QED BY <1>3, <2>1, <2>2, <2>3
<1> QED BY <1>5, <1>6

\* force_release: one lease goes, due or not, and nothing else is swept.
LEMMA ForceReleaseSteps ==
  ASSUME RInv, NEW t \in Tasks, reg' = ForceRelease(reg, t), now' = now
  PROVE  (Service!Next \/ UNCHANGED Service!vars) /\ TermsAgreed(reg')
<1>1. WellKept(reg) /\ TermsAgreed(reg) /\ now' \in Int
  BY SoundIsKept DEF RInv, IInv
<1>2. CASE ~ForceReleaseOk(reg, t)
  <2>1. reg' = reg
    BY <1>2 DEF ForceRelease
  <2> QED BY <1>1, <2>1 DEF Service!vars
<1>3. CASE ForceReleaseOk(reg, t)
  <2>1. Drops(reg, reg', t)
    BY <1>1, <1>3, DroppedEffect DEF ForceRelease, ForceReleaseOk
  <2>2. /\ ~Held(reg', t) /\ reg'.epochSeq = reg.epochSeq
        /\ \A u \in Tasks \ {t} : reg'.claims[u] = reg.claims[u] /\ (Held(reg', u) <=> Held(reg, u))
    BY <2>1 DEF Drops, Apart, Held
  <2>3. LeasesOf(reg') = [LeasesOf(reg) EXCEPT ![t] = NoClaim]
    BY <2>2 DEF LeasesOf
  <2>4. Service!Revoke(t)
    BY <2>2, <2>3 DEF Service!Revoke
  <2>5. TermsAgreed(reg')
    BY <1>1, <2>2 DEF TermsAgreed
  <2> QED BY <1>1, <2>4, <2>5 DEF Service!Next, Service!Request
<1> QED BY <1>2, <1>3

\* Custody and clock steps move no lease.
LEMMA HiddenSteps ==
  ASSUME RInv, reg'.claims = reg.claims, reg'.epochSeq = reg.epochSeq, now' \in Int
  PROVE  Service!Next /\ TermsAgreed(reg')
<1>1. \A t \in Tasks : Held(reg', t) <=> Held(reg, t)
  BY DEF Held
<1>2. LeasesOf(reg') = LeasesOf(reg)
  BY <1>1 DEF LeasesOf
<1> QED BY <1>1, <1>2 DEF Service!Next, RInv, TermsAgreed

\* Every step of a hub is a step of the service, or shows it nothing.
LEMMA NextRefines ==
  ASSUME RInv, [Next]_vars
  PROVE  (Service!Next \/ UNCHANGED Service!vars) /\ TermsAgreed(reg')
<1> DEFINE Goal == (Service!Next \/ UNCHANGED Service!vars) /\ TermsAgreed(reg')
           h == Expire(reg, now)
<1>0. /\ now \in Int /\ now' \in Int /\ TermsAgreed(reg) /\ reg \in Registry
      /\ WellKept(reg) /\ Sound(reg')
  BY NextIInv, SoundIsKept DEF RInv, IInv, WellKept
<1>1. ASSUME Advance \/ StepBack \/ UNCHANGED vars PROVE Goal
  BY <1>0, <1>1, HiddenSteps DEF Advance, StepBack, vars
<1>2. CASE Heartbeat
  BY <1>2, RefusalSteps DEF Heartbeat
<1>3. CASE DoForceRelease
  BY <1>3, ForceReleaseSteps DEF DoForceRelease
<1>4. ASSUME DoInstall \/ DoTransfer \/ DoSettle PROVE Goal
  <2>1. reg'.claims = reg.claims /\ reg'.epochSeq = reg.epochSeq
    BY <1>0, <1>4 DEF DoInstall, DoTransfer, DoSettle, InstallAdmission,
                     TransferCustody, SettleCustody, Registry
  <2> QED BY <1>0, <2>1, HiddenSteps
<1>5. ASSUME NEW a \in Agents, DoClaim(a) PROVE Goal
  <2>1. PICK p \in PrincipalsOf[a], t \in Tasks, sc \in Scopes, ttl \in Ttls, ru \in BOOLEAN :
          reg' = ClaimTask(reg, now, a, p, t, sc, ttl, ru) /\ UNCHANGED now
    BY <1>5 DEF DoClaim
  <2>2. p \in Principals /\ ttl \in Nat
    BY InputAssumption
  <2>3. Mints(h, reg', t, now) \/ reg' = h
    BY <1>0, <2>1, <2>2, ClaimTaskEffect
  <2> QED BY <1>0, <2>1, <2>3, ServedSteps, RefusalSteps
<1>6. ASSUME NEW a \in Agents, DoRenew(a) PROVE Goal
  <2>1. PICK t \in Tasks, e \in 1..reg.epochSeq, sc \in Scopes :
          reg' = RenewClaim(reg, now, a, t, e, sc) /\ UNCHANGED now
    BY <1>6 DEF DoRenew
  <2>2. Extends(h, reg', t, now) \/ reg' = h
    BY <1>0, <2>1, RenewClaimEffect
  <2> QED BY <1>0, <2>1, <2>2, ServedSteps, RefusalSteps
<1>7. ASSUME NEW a \in Agents, DoUpdate(a) PROVE Goal
  <2>1. PICK t \in Tasks, st \in Goals, e \in Fences, v \in {NoFence} \cup 0..MaxVersion :
          reg' = UpdateTask(reg, now, a, t, st, e, v) /\ UNCHANGED now
    BY <1>7 DEF DoUpdate
  <2>2. st \in Statuses \cup {NoStatus}
    BY InputAssumption
  <2>3. Keeps(h, reg', t) \/ reg' = h
    BY <1>0, <2>1, <2>2, UpdateTaskEffect
  <2> QED BY <1>0, <2>1, <2>3, ServedSteps, RefusalSteps
<1>8. ASSUME NEW a \in Agents, DoCheckpoint(a) PROVE Goal
  <2>1. PICK t \in Tasks, tok \in Tokens \cup {NoToken}, e \in Fences :
          reg' = SaveCheckpoint(reg, now, a, t, tok, e) /\ UNCHANGED now
    BY <1>8 DEF DoCheckpoint
  <2>2. Keeps(h, reg', t) \/ reg' = h
    BY <1>0, <2>1, SaveCheckpointEffect
  <2> QED BY <1>0, <2>1, <2>2, ServedSteps, RefusalSteps
<1>9. ASSUME NEW a \in Agents, DoRelease(a) PROVE Goal
  <2>1. PICK t \in Tasks, e \in Fences : reg' = Release(reg, now, a, t, e) /\ UNCHANGED now
    BY <1>9 DEF DoRelease
  <2>2. Drops(h, reg', t) \/ reg' = h
    BY <1>0, <2>1, ReleaseEffect
  <2> QED BY <1>0, <2>1, <2>2, ServedSteps, RefusalSteps
<1>10. ASSUME NEW a \in Agents, DoHandoff(a) PROVE Goal
  <2>1. PICK t \in Tasks, to \in Agents, e \in Fences :
          reg' = Handoff(reg, now, a, t, to, e) /\ UNCHANGED now
    BY <1>10 DEF DoHandoff
  <2>2. Mints(h, reg', t, now) \/ reg' = h
    BY <1>0, <2>1, HandoffEffect
  <2> QED BY <1>0, <2>1, <2>2, ServedSteps, RefusalSteps
<1> QED BY <1>1, <1>2, <1>3, <1>4, <1>5, <1>6, <1>7, <1>8, <1>9, <1>10 DEF Next

\* A hub without a journal implements the lease service, whatever its agents,
\* tasks, scopes, quotas and clock do: an undue lease is never taken from its
\* holder, fences only grow, and no lease runs longer than an agreed term.
THEOREM RegistryImplementsService == Spec => ImplementsLeaseService
<1>1. Init => Service!Init
  <2> SUFFICES ASSUME Init PROVE Service!Init
    OBVIOUS
  <2>1. \A t \in Tasks : ~Held(reg, t)
    BY DEF Init, InitRegistry, Held
  <2> QED BY <2>1 DEF Init, InitRegistry, LeasesOf, Service!Init
<1>2. Init => TermsAgreed(reg)
  BY DEF Init, InitRegistry, TermsAgreed, Held
<1>3. IInv /\ TermsAgreed(reg) /\ [Next]_vars => TermsAgreed(reg)'
  BY NextRefines DEF RInv, TermsAgreed
<1>4. IInv /\ TermsAgreed(reg) /\ [Next]_vars => [Service!Next]_(Service!vars)
  BY NextRefines DEF RInv
<1> QED BY <1>1, <1>2, <1>3, <1>4, IInvAlways, PTL DEF Spec, ImplementsLeaseService, Service!Spec
=============================================================================
