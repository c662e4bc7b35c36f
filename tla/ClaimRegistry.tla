---------------------------- MODULE ClaimRegistry ----------------------------
(***************************************************************************)
(* A hub without a journal.  The mutation actor then applies each method    *)
(* of SynapseState to the live registry in one synchronous step             *)
(* (SerializedStateMutationActor.run with persist=None), so the system is   *)
(* one action per request, interleaved with the hub's wall clock.           *)
(* A refused request is the heartbeat its method starts with.               *)
(***************************************************************************)
EXTENDS SynapseState

CONSTANTS
    PrincipalsOf,  \* the quota buckets an agent's connections are admitted under
    Ttls,          \* the TTLs clients ask for
    Goals,         \* the statuses clients ask for (NoStatus: leave it)
    ClockSteps,    \* TRUE: the wall clock may also step backwards
    MaxClock,      \* bound: last instant, and last lease expiry, considered
    MaxEpoch,      \* bound: leases minted
    MaxVersion     \* bound: field updates within one lease

VARIABLES
    reg,           \* hub.state
    now            \* time.time()

vars == <<reg, now>>

ASSUME InputAssumption ==
    /\ PrincipalsOf \in [Agents -> SUBSET Principals]
    /\ Ttls \subseteq Nat
    /\ Goals \subseteq Statuses \cup {NoStatus}

Init == reg = InitRegistry /\ now = 0

Advance == now < MaxClock /\ now' = now + 1 /\ UNCHANGED reg

StepBack == ClockSteps /\ now > 0 /\ now' \in 0..(now - 1) /\ UNCHANGED reg

\* Epochs a client may present: any ever minted, or none at all.
Fences == {NoFence} \cup 1..reg.epochSeq

MintBound(ttl) == reg.epochSeq < MaxEpoch /\ now + ttl <= MaxClock
UpdateBound(t) == Held(reg, t) => reg.claims[t].version < MaxVersion

\* heartbeat of any sender, and snapshot: expire what is due.
Heartbeat == reg' = Expire(reg, now) /\ UNCHANGED now

DoClaim(a) ==
    \E p \in PrincipalsOf[a], t \in Tasks, sc \in Scopes, ttl \in Ttls, ru \in BOOLEAN :
        /\ MintBound(ClampTtl(ttl))
        /\ reg' = ClaimTask(reg, now, a, p, t, sc, ttl, ru)
        /\ UNCHANGED now

DoRenew(a) ==
    \E t \in Tasks, e \in 1..reg.epochSeq, sc \in Scopes :
        /\ Held(reg, t) =>
             now + reg.claims[t].expires - reg.claims[t].claimedAt <= MaxClock
        /\ reg' = RenewClaim(reg, now, a, t, e, sc)
        /\ UNCHANGED now

DoUpdate(a) ==
    \E t \in Tasks, st \in Goals, e \in Fences, v \in {NoFence} \cup 0..MaxVersion :
        /\ UpdateBound(t)
        /\ reg' = UpdateTask(reg, now, a, t, st, e, v)
        /\ UNCHANGED now

DoCheckpoint(a) ==
    \E t \in Tasks, k \in Tokens \cup {NoToken}, e \in Fences :
        /\ UpdateBound(t)
        /\ reg' = SaveCheckpoint(reg, now, a, t, k, e)
        /\ UNCHANGED now

DoRelease(a) ==
    \E t \in Tasks, e \in Fences : reg' = Release(reg, now, a, t, e) /\ UNCHANGED now

DoForceRelease == \E t \in Tasks : reg' = ForceRelease(reg, t) /\ UNCHANGED now

DoHandoff(a) ==
    \E t \in Tasks, to \in Agents, e \in Fences :
        /\ MintBound(DefaultTtl)
        /\ reg' = Handoff(reg, now, a, t, to, e)
        /\ UNCHANGED now

DoInstall ==
    \E r \in Reservations, ts \in SUBSET Tasks :
        /\ InstallOk(reg, r, ts)
        /\ reg' = InstallAdmission(reg, r, ts)
        /\ UNCHANGED now

DoTransfer ==
    \E r, c \in Reservations, ts \in SUBSET Tasks :
        /\ TransferOk(reg, r, c, ts)
        /\ reg' = TransferCustody(reg, r, c, ts)
        /\ UNCHANGED now

DoSettle == \E r \in Reservations : reg' = SettleCustody(reg, r) /\ UNCHANGED now

Next ==
    \/ Advance \/ StepBack \/ Heartbeat \/ DoForceRelease
    \/ DoInstall \/ DoTransfer \/ DoSettle
    \/ \E a \in Agents : \/ DoClaim(a) \/ DoRenew(a) \/ DoUpdate(a)
                         \/ DoCheckpoint(a) \/ DoRelease(a) \/ DoHandoff(a)

Spec == Init /\ [][Next]_vars

\* Connected agents keep sending frames (the client pings), and each frame
\* heartbeats; time passes.  Nothing is assumed of any claim holder.
Fairness == WF_vars(Advance) /\ WF_vars(Heartbeat)

-----------------------------------------------------------------------------
(* Properties                                                               *)

\* The registry has the shape the code gives it, whatever requests it served.
TypeOK == reg \in Registry /\ now \in Int

\* INV-ME-2: no interleaving of claims, renewals, handoffs, expiries and
\* clock steps leaves two agents holding leases on overlapping file scopes.
ScopeExclusion == ExclusiveScopes(reg)

\* Lazy deletion and heap compaction never lose the entry that expires a
\* live lease, so no lease can outlive its deadline unnoticed.
IndexCoversClaims == IndexCovers(reg)

\* INV-EF-1: live leases carry distinct generations, all of them minted, and
\* an ownership anchor never lies after the generation it anchors.
EpochsDistinct == MintedEpochs(reg) /\ DistinctEpochs(reg)

\* INV-ME-5: handoffs, renewals under another principal and re-claims never
\* charge a principal with more live leases than its cap.
QuotaRespected == WithinQuota(reg)

\* INV-CR-3: a live lease has consumed its task's retained resume token, so
\* two competing tokens for one task never exist.
SingleResumeToken == OneResumeToken(reg)

\* A claim under protected custody is frozen: while a witness is retained,
\* its task's lease is exactly the witnessed one, or has expired.
CustodyFreezesClaim == FrozenClaims(reg)

\* No other agent gets a lease overlapping a retained scope, not even after
\* the witnessed lease expired, and no two reservations retain overlapping
\* domains.
CustodyExcludesOthers ==
    CustodyExclusive(reg) /\ DisjointCustody(reg) /\ RetainedCustody(reg)

\* INV-CR-3: only the owner's checkpoint and a release change a task's resume
\* token; expiry, takeover, renewal and handoff all carry it along.
TokenCarried ==
    [][\A t \in Tasks : ResumeToken(reg, t)' # ResumeToken(reg, t) =>
          \/ /\ Held(reg, t) /\ ~Held(reg, t)'
             /\ reg.claims[t].expires > now \/ reg' = ForceRelease(reg, t)
          \/ /\ Held(reg, t) /\ Held(reg, t)'
             /\ reg'.claims[t].epoch = reg.claims[t].epoch
             /\ reg'.claims[t].version = reg.claims[t].version + 1]_vars

\* INV-EF-2: a lease whose anchor or epoch was already minted before the step
\* continues the lease held there before it, with the same owner and scope:
\* expiry, release, handoff and re-scoping all fence the previous holder out.
AnchorContinuity ==
    [][\A t \in Tasks : Held(reg, t)' =>
          /\ reg'.claims[t].ownershipEpoch <= reg.epochSeq =>
               /\ Held(reg, t)
               /\ reg.claims[t].ownershipEpoch = reg'.claims[t].ownershipEpoch
               /\ reg.claims[t].owner = reg'.claims[t].owner
               /\ reg.claims[t].scope = reg'.claims[t].scope
          /\ reg'.claims[t].epoch <= reg.epochSeq =>
               Held(reg, t) /\ reg.claims[t].epoch = reg'.claims[t].epoch]_vars

\* INV-EF-3: within one generation a version names one content; a writer that
\* matched epoch and version overwrites nothing it has not seen.
VersionNamesContent ==
    [][\A t \in Tasks :
          /\ Held(reg, t) /\ Held(reg, t)'
          /\ reg'.claims[t].epoch = reg.claims[t].epoch
          /\ reg'.claims[t].version = reg.claims[t].version
          => /\ reg'.claims[t].status = reg.claims[t].status
             /\ reg'.claims[t].checkpoint = reg.claims[t].checkpoint]_vars

Service == INSTANCE LeaseService WITH
    Clients <- Agents, Resources <- Tasks, Free <- NoClaim,
    Terms <- MinimumTtl..MaximumTtl,
    lease <- LeasesOf(reg), lastFence <- reg.epochSeq, clock <- now

\* The registry implements the lease service.  Whatever heap compactions, clock
\* steps, refused requests and custody come between, an undue lease is never
\* taken from its holder, fences only grow, and no chain of renewals and
\* handoffs stretches a lease beyond an agreed term.
ImplementsLeaseService == Service!Spec

\* INV-LL-2: a holder that stops renewing loses its lease, whoever else is
\* sending frames; renewals and re-claims are finite within the bounds.
LeaseEventuallyEnds == \A t \in Tasks : Held(reg, t) ~> ~Held(reg, t)
=============================================================================
