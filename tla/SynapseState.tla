---------------------------- MODULE SynapseState ----------------------------
(***************************************************************************)
(* The authoritative lease registry of a hub: class SynapseState            *)
(* (core/state.py) with its expiry heap (core/state_leases.py), its scope   *)
(* scan (core/state_scopes.py) and the claim record (core/state_models.py). *)
(*                                                                          *)
(* The registry is a plain value, so every method is an operator from a     *)
(* registry record and its arguments to the registry record the method      *)
(* leaves behind; the modules that EXTEND this one decide which registry     *)
(* (the live one, or a private deep copy) a method is applied to, and when. *)
(* For each method M there is the guard MOk, evaluated on the registry       *)
(* the method's own heartbeat has already expired, and the operator M.       *)
(* Fields nothing here tells apart (note, data_ref, git, last_seen) are      *)
(* left out.                                                                *)
(***************************************************************************)
EXTENDS Integers, FiniteSets

CONSTANTS
    Agents,             \* names that send requests
    Principals,         \* quota buckets; an agent's own name is one of them
    Tasks,              \* task ids
    Scopes,             \* (worktree, paths, path_identity) triples
    Overlap,            \* the pairs of scopes claim_scopes_conflict relates
    Tokens,             \* non-empty checkpoint strings
    NoToken,            \* the empty checkpoint / an absent dictionary entry
    Reservations,       \* protected-write reservation ids
    NoClaim,            \* claims.get(task) is None
    MaxClaimsPerAgent,  \* max_claims_per_agent
    MaxReservations,    \* the enrolled protected reservation budget
    MinimumTtl, MaximumTtl, DefaultTtl,
    CompactFloor        \* LEASE_HEAP_COMPACT_FLOOR

Statuses == {"claimed", "working", "input_required", "done", "failed"}

\* update_task(status=None) and an absent epoch / expected_version.
NoStatus == "unset"
NoFence == -1

\* One live lease (TaskClaim).  The task id is the key of the registry.
Claim == [owner : Agents, principal : Principals, scope : Scopes,
          claimedAt : Int, expires : Int, epoch : Nat, ownershipEpoch : Nat,
          status : Statuses, version : Nat, checkpoint : Tokens \cup {NoToken}]

\* An entry of the expiry heap.
Lease == [expires : Int, task : Tasks, epoch : Nat]

\* The immutable claim witness a protected reservation retains.
Witness == [task : Tasks, owner : Agents, epoch : Nat, version : Nat,
            expires : Int, scope : Scopes]

Registry == [claims   : [Tasks -> Claim \cup {NoClaim}],
             index    : SUBSET Lease,
             expired  : [Tasks -> Tokens \cup {NoToken}],
             epochSeq : Nat,
             custody  : [Reservations -> SUBSET Witness],
             retained : SUBSET Reservations]

ASSUME OverlapAssumption ==
    /\ Overlap \subseteq Scopes \X Scopes
    /\ \A p, q \in Scopes : <<p, q>> \in Overlap => <<q, p>> \in Overlap
ASSUME PrincipalAssumption == Agents \subseteq Principals
ASSUME TokenAssumption == NoToken \notin Tokens
ASSUME NoClaimAssumption == NoClaim \notin Claim
ASSUME NoLeaseAssumption ==
    NoClaim \notin [holder : Agents, scope : Scopes, fence : Nat, until : Int]
ASSUME BoundAssumption ==
    /\ MaxClaimsPerAgent \in Nat \ {0} /\ MaxReservations \in Nat
    /\ MinimumTtl \in Nat \ {0} /\ MaximumTtl \in Nat /\ DefaultTtl \in Nat
    /\ MinimumTtl <= DefaultTtl /\ DefaultTtl <= MaximumTtl
    /\ CompactFloor \in Nat
ASSUME FiniteAssumption == IsFiniteSet(Tasks)

InitRegistry ==
    [claims   |-> [t \in Tasks |-> NoClaim],
     index    |-> {},
     expired  |-> [t \in Tasks |-> NoToken],
     epochSeq |-> 0,
     custody  |-> [r \in Reservations |-> {}],
     retained |-> {}]

Held(s, t) == s.claims[t] # NoClaim

\* _clamp_ttl
ClampTtl(ttl) ==
    IF ttl < MinimumTtl THEN MinimumTtl
    ELSE IF ttl > MaximumTtl THEN MaximumTtl ELSE ttl

-----------------------------------------------------------------------------
(* The expiry index.  The heap is a set: popping an entry that is in the    *)
(* heap twice is popping it once, because the first pop removed its claim.  *)

Rebuilt(claims) ==
    {[expires |-> claims[t].expires, task |-> t, epoch |-> claims[t].epoch] :
        t \in {u \in Tasks : claims[u] # NoClaim}}

\* Mutant of Track: the compaction rebuilds from the claims before the push.
TrackForgetsPush(index, claims, t) ==
    LET lease == [expires |-> claims[t].expires, task |-> t, epoch |-> claims[t].epoch]
        pushed == index \cup {lease}
    IN  IF Cardinality(pushed)
               > 2 * Cardinality({u \in Tasks : claims[u] # NoClaim}) + CompactFloor
        THEN Rebuilt(claims) \ {lease}
        ELSE pushed

Track(index, claims, t) ==
    LET pushed == index \cup {[expires |-> claims[t].expires, task |-> t,
                               epoch |-> claims[t].epoch]}
    IN  IF Cardinality(pushed)
               > 2 * Cardinality({u \in Tasks : claims[u] # NoClaim}) + CompactFloor
        THEN Rebuilt(claims)
        ELSE pushed

\* Install claim c on task t and index its lease.
WithClaim(s, t, c) ==
    LET claims == [s.claims EXCEPT ![t] = c]
    IN  [s EXCEPT !.claims = claims, !.index = Track(s.index, claims, t)]

Due(s, now) == {e \in s.index : e.expires <= now}

\* The claims a sweep at `now` drops: the popped entry must still be the
\* live lease of its task.
Lapsed(s, now) ==
    {t \in Tasks : /\ Held(s, t)
                   /\ s.claims[t].expires <= now
                   /\ \E e \in Due(s, now) : /\ e.task = t
                                             /\ e.epoch = s.claims[t].epoch}

\* Mutant of Expire: an expired lease takes its resume token with it.
ExpireDropsToken(s, now) ==
    LET gone == Lapsed(s, now)
    IN  [s EXCEPT !.index = @ \ Due(s, now),
                  !.claims = [t \in Tasks |-> IF t \in gone THEN NoClaim ELSE @[t]]]

\* _expire_claims; also what heartbeat and snapshot do to the registry.
Expire(s, now) ==
    LET gone == Lapsed(s, now)
    IN  [s EXCEPT
           !.index = @ \ Due(s, now),
           !.claims = [t \in Tasks |-> IF t \in gone THEN NoClaim ELSE @[t]],
           !.expired = [t \in Tasks |->
                          IF t \in gone /\ s.claims[t].checkpoint # NoToken
                          THEN s.claims[t].checkpoint ELSE @[t]]]

-----------------------------------------------------------------------------
(* Guards shared by the methods.                                            *)

\* Mutant of ScopeConflict: exempts what is charged to the claimant instead
\* of what it owns.
ScopeConflictByPrincipal(s, t, a, scope) ==
    \E u \in Tasks \ {t} : /\ Held(s, u)
                           /\ s.claims[u].principal # a
                           /\ <<scope, s.claims[u].scope>> \in Overlap

\* find_scope_conflict: own claims and the task itself never contend.
ScopeConflict(s, t, a, scope) ==
    \E u \in Tasks \ {t} : /\ Held(s, u)
                           /\ s.claims[u].owner # a
                           /\ <<scope, s.claims[u].scope>> \in Overlap

\* _claims_owned_by: the live claims charged to principal p.
ChargedTo(s, p) == {t \in Tasks : Held(s, t) /\ s.claims[t].principal = p}

Witnesses(s) == UNION {s.custody[r] : r \in Reservations}

\* _protected_task_held
TaskHeldByCustody(s, t) == \E w \in Witnesses(s) : w.task = t

\* ProtectedClaimCustody.conflicts
WitnessConflicts(w, t, scope) == w.task = t \/ <<scope, w.scope>> \in Overlap

\* _protected_scope_held: no owner and no lease-expiry exemption.
ScopeHeldByCustody(s, t, scope) ==
    \E w \in Witnesses(s) : WitnessConflicts(w, t, scope)

\* An optional expected value (epoch or version) matches the current one.
Matches(expected, current) == expected = NoFence \/ expected = current

\* The guards every owner mutation shares.
OwnerMay(s, a, t, epoch) ==
    /\ ~TaskHeldByCustody(s, t)
    /\ Held(s, t)
    /\ s.claims[t].owner = a
    /\ Matches(epoch, s.claims[t].epoch)

-----------------------------------------------------------------------------
(* claim                                                                    *)

\* Mutant of QuotaAvailable: a re-claim is free whatever principal it is for.
QuotaAvailableForOwner(s, a, p, t) ==
    \/ Held(s, t) /\ s.claims[t].owner = a
    \/ Cardinality(ChargedTo(s, p)) < MaxClaimsPerAgent

\* _claim_quota_available
QuotaAvailable(s, a, p, t) ==
    \/ Held(s, t) /\ s.claims[t].owner = a /\ s.claims[t].principal = p
    \/ Cardinality(ChargedTo(s, p)) < MaxClaimsPerAgent

\* Mutant of ClaimOk: custody protects the task, not its scope.
ClaimOkTaskCustody(s, now, a, p, t, scope, requireUnclaimed) ==
    /\ ~TaskHeldByCustody(s, t)
    /\ ~ /\ Held(s, t)
         /\ requireUnclaimed \/ s.claims[t].owner # a
         /\ s.claims[t].expires > now
    /\ ~ScopeConflict(s, t, a, scope)
    /\ QuotaAvailable(s, a, p, t)

ClaimOk(s, now, a, p, t, scope, requireUnclaimed) ==
    /\ ~ScopeHeldByCustody(s, t, scope)
    /\ ~ /\ Held(s, t)
         /\ requireUnclaimed \/ s.claims[t].owner # a
         /\ s.claims[t].expires > now
    /\ ~ScopeConflict(s, t, a, scope)
    /\ QuotaAvailable(s, a, p, t)

\* Mutant of Anchor: a re-scoped claim keeps its anchor.
AnchorAnyScope(s, t, a, scope, epoch) ==
    IF Held(s, t) /\ s.claims[t].owner = a THEN s.claims[t].ownershipEpoch ELSE epoch

\* continuation_epoch, then __post_init__: the anchor of an uninterrupted
\* ownership of one exact scope, else the fresh epoch.
Anchor(s, t, a, scope, epoch) ==
    IF Held(s, t) /\ s.claims[t].owner = a /\ s.claims[t].scope = scope
    THEN s.claims[t].ownershipEpoch ELSE epoch

\* _claim_checkpoint: the continuing owner keeps its token, anyone else
\* consumes the token an expired lease left behind.
KeepsToken(s, t, a) == Held(s, t) /\ s.claims[t].owner = a

Granted(s, now, a, p, t, scope, ttl) ==
    LET epoch == s.epochSeq + 1
        c == [owner |-> a, principal |-> p, scope |-> scope,
              claimedAt |-> now, expires |-> now + ClampTtl(ttl),
              epoch |-> epoch, ownershipEpoch |-> Anchor(s, t, a, scope, epoch),
              status |-> "claimed", version |-> 0,
              checkpoint |-> IF KeepsToken(s, t, a)
                             THEN s.claims[t].checkpoint ELSE s.expired[t]]
        minted == [s EXCEPT !.epochSeq = epoch,
                            !.expired[t] = IF KeepsToken(s, t, a)
                                           THEN @ ELSE NoToken]
    IN  WithClaim(minted, t, c)

ClaimTask(s, now, a, p, t, scope, ttl, requireUnclaimed) ==
    LET h == Expire(s, now)
    IN  IF ClaimOk(h, now, a, p, t, scope, requireUnclaimed)
        THEN Granted(h, now, a, p, t, scope, ttl) ELSE h

-----------------------------------------------------------------------------
(* renew_claim: extends the lease of the same ownership, keeps its epoch.   *)
(* The frame repeats its paths, and only they are compared: every frame      *)
(* that repeats the claim's paths is the one with scope = the claim's scope. *)

\* Mutant of RenewOk: a task under custody may be renewed.
RenewOkUnderCustody(s, a, t, epoch, scope) ==
    /\ Held(s, t)
    /\ s.claims[t].owner = a
    /\ epoch \in {s.claims[t].epoch, s.claims[t].ownershipEpoch}
    /\ s.claims[t].scope = scope

RenewOk(s, a, t, epoch, scope) ==
    /\ Held(s, t)
    /\ s.claims[t].owner = a
    /\ epoch \in {s.claims[t].epoch, s.claims[t].ownershipEpoch}
    /\ ~TaskHeldByCustody(s, t)
    /\ s.claims[t].scope = scope

\* Mutant of Renewed: the renewed lease is not indexed.
RenewedUntracked(s, now, t) ==
    LET c == s.claims[t]
    IN  [s EXCEPT !.claims[t] = [c EXCEPT !.claimedAt = now,
                                          !.expires = now + (c.expires - c.claimedAt)]]

\* Mutant of Renewed: the term is added to the old deadline.
RenewedOnTop(s, now, t) ==
    LET c == s.claims[t]
    IN  WithClaim(s, t, [c EXCEPT !.claimedAt = now,
                                  !.expires = @ + (c.expires - c.claimedAt)])

Renewed(s, now, t) ==
    LET c == s.claims[t]
    IN  WithClaim(s, t, [c EXCEPT !.claimedAt = now,
                                  !.expires = now + (c.expires - c.claimedAt)])

RenewClaim(s, now, a, t, epoch, scope) ==
    LET h == Expire(s, now)
    IN  IF RenewOk(h, a, t, epoch, scope) THEN Renewed(h, now, t) ELSE h

-----------------------------------------------------------------------------
(* update_task and save_checkpoint                                          *)

\* lifecycle.can_transition
CanTransition(current, target) ==
    \/ current = target
    \/ current = "claimed" /\ target \in {"working", "done", "failed"}
    \/ current = "working" /\ target \in {"input_required", "done", "failed"}
    \/ current = "input_required" /\ target \in {"working", "done", "failed"}

\* Mutant of Edited: the version is left alone.
EditedUnversioned(s, t, status, token) ==
    [s EXCEPT !.claims[t] = [s.claims[t] EXCEPT !.status = status, !.checkpoint = token]]

\* Both overwrite fields of the live claim and bump its version.
Edited(s, t, status, token) ==
    [s EXCEPT !.claims[t] = [s.claims[t] EXCEPT !.status = status,
                                                !.checkpoint = token,
                                                !.version = @ + 1]]

UpdateOk(s, a, t, status, epoch, version) ==
    /\ OwnerMay(s, a, t, epoch)
    /\ Matches(version, s.claims[t].version)
    /\ status = NoStatus \/ CanTransition(s.claims[t].status, status)

\* Mutant of UpdateTask: an absent status overwrites the current one.
UpdateTaskUnset(s, now, a, t, status, epoch, version) ==
    LET h == Expire(s, now)
    IN  IF UpdateOk(h, a, t, status, epoch, version)
        THEN Edited(h, t, status, h.claims[t].checkpoint) ELSE h

UpdateTask(s, now, a, t, status, epoch, version) ==
    LET h == Expire(s, now)
    IN  IF UpdateOk(h, a, t, status, epoch, version)
        THEN Edited(h, t, IF status = NoStatus THEN h.claims[t].status ELSE status,
                    h.claims[t].checkpoint)
        ELSE h

SaveCheckpoint(s, now, a, t, token, epoch) ==
    LET h == Expire(s, now)
    IN  IF OwnerMay(h, a, t, epoch)
        THEN Edited(h, t, h.claims[t].status, token)
        ELSE h

-----------------------------------------------------------------------------
(* release, force_release and handoff                                       *)

\* The lease goes and so does any retained resume token.
Dropped(s, t) == [s EXCEPT !.claims[t] = NoClaim, !.expired[t] = NoToken]

Release(s, now, a, t, epoch) ==
    LET h == Expire(s, now)
    IN  IF OwnerMay(h, a, t, epoch) THEN Dropped(h, t) ELSE h

ForceReleaseOk(s, t) == Held(s, t) /\ ~TaskHeldByCustody(s, t)

\* No heartbeat and so no expiry: the operator has no presence on this hub.
ForceRelease(s, t) == IF ForceReleaseOk(s, t) THEN Dropped(s, t) ELSE s

HandoffOk(s, a, t, to, epoch) ==
    /\ OwnerMay(s, a, t, epoch)
    /\ to # a
    /\ ~ScopeHeldByCustody(s, t, s.claims[t].scope)
    /\ Cardinality(ChargedTo(s, to)) < MaxClaimsPerAgent
    /\ ~ScopeConflict(s, t, to, s.claims[t].scope)

\* Mutant of HandedOff: the epoch it mints is not recorded.
HandedOffUnminted(s, now, t, to) ==
    LET epoch == s.epochSeq + 1
    IN  WithClaim(s, t, [s.claims[t] EXCEPT !.owner = to, !.claimedAt = now,
                                            !.expires = now + DefaultTtl,
                                            !.epoch = epoch, !.ownershipEpoch = epoch,
                                            !.version = 0])

\* The moved claim keeps its working context and stays charged to the sender.
HandedOff(s, now, t, to) ==
    LET epoch == s.epochSeq + 1
    IN  WithClaim([s EXCEPT !.epochSeq = epoch], t,
                  [s.claims[t] EXCEPT !.owner = to, !.claimedAt = now,
                                      !.expires = now + DefaultTtl,
                                      !.epoch = epoch, !.ownershipEpoch = epoch,
                                      !.version = 0])

Handoff(s, now, a, t, to, epoch) ==
    LET h == Expire(s, now)
    IN  IF HandoffOk(h, a, t, to, epoch) THEN HandedOff(h, now, t, to) ELSE h

-----------------------------------------------------------------------------
(* Protected-write custody.  These methods raise on a refused precondition  *)
(* and neither heartbeat nor expire.                                        *)

\* ProtectedClaimCustody.capture
Capture(s, t) ==
    [task |-> t, owner |-> s.claims[t].owner, epoch |-> s.claims[t].epoch,
     version |-> s.claims[t].version, expires |-> s.claims[t].expires,
     scope |-> s.claims[t].scope]

\* A fresh reservation id within the retained-history budget.
AdmissibleId(s, r) ==
    r \notin s.retained /\ Cardinality(s.retained) < MaxReservations

\* Mutant of InstallOk: only the task itself may not be under custody yet.
InstallOkTaskOnly(s, r, ts) ==
    /\ AdmissibleId(s, r)
    /\ ts # {}
    /\ \A t \in ts : Held(s, t) /\ ~TaskHeldByCustody(s, t)

InstallOk(s, r, ts) ==
    /\ AdmissibleId(s, r)
    /\ ts # {}
    /\ \A t \in ts : Held(s, t) /\ ~ScopeHeldByCustody(s, t, s.claims[t].scope)

\* install_protected_write_admission, for the claims of the tasks ts.
InstallAdmission(s, r, ts) ==
    [s EXCEPT !.retained = @ \cup {r},
              !.custody[r] = {Capture(s, t) : t \in ts}]

TransferOk(s, parent, child, ts) ==
    /\ s.custody[parent] # {}
    /\ AdmissibleId(s, child)
    /\ ts # {} /\ \A t \in ts : Held(s, t)
    /\ LET moved == s.custody[parent] \cup {Capture(s, t) : t \in ts}
       IN  \A r \in Reservations \ {parent} : \A w \in s.custody[r] :
             \A m \in moved : ~WitnessConflicts(w, m.task, m.scope)

\* transfer_protected_write_custody: the child inherits the whole domain.
TransferCustody(s, parent, child, ts) ==
    [s EXCEPT !.retained = @ \cup {child},
              !.custody = [@ EXCEPT ![child] = s.custody[parent]
                                       \cup {Capture(s, t) : t \in ts},
                                    ![parent] = {}]]

\* apply_protected_write_transition into a settled phase; a transition that
\* keeps custody changes nothing here.
SettleCustody(s, r) == [s EXCEPT !.custody[r] = {}]
-----------------------------------------------------------------------------
(* What makes a registry correct; each module that EXTENDS this one states  *)
(* these of the registries it keeps.                                        *)

\* Two agents never hold leases on overlapping file scopes.
ExclusiveScopes(s) ==
    \A t, u \in Tasks :
        /\ Held(s, t) /\ Held(s, u)
        /\ <<s.claims[t].scope, s.claims[u].scope>> \in Overlap
        => t = u \/ s.claims[t].owner = s.claims[u].owner

\* Every live lease has the heap entry that will expire it.
IndexCovers(s) ==
    \A t \in Tasks : Held(s, t) =>
        [expires |-> s.claims[t].expires, task |-> t,
         epoch |-> s.claims[t].epoch] \in s.index

\* Every live generation was minted, and its anchor no later than it.
MintedEpochs(s) ==
    \A t \in Tasks : Held(s, t) =>
        /\ s.claims[t].epoch \in 1..s.epochSeq
        /\ s.claims[t].ownershipEpoch \in 1..s.claims[t].epoch

DistinctEpochs(s) ==
    \A t, u \in Tasks :
        Held(s, t) /\ Held(s, u) /\ s.claims[t].epoch = s.claims[u].epoch => t = u

\* A live lease has consumed the token an earlier lease left behind.
OneResumeToken(s) == \A t \in Tasks : Held(s, t) => s.expired[t] = NoToken

\* The token a claimant of t would resume from.
ResumeToken(s, t) == IF Held(s, t) THEN s.claims[t].checkpoint ELSE s.expired[t]

WithinQuota(s) ==
    \A p \in Principals : Cardinality(ChargedTo(s, p)) <= MaxClaimsPerAgent

\* A witnessed lease is still the witnessed one, or is gone.
FrozenClaims(s) ==
    \A w \in Witnesses(s) : Held(s, w.task) => Capture(s, w.task) = w

\* Whoever holds a lease that contends with a retained witness is its owner.
CustodyExclusive(s) ==
    \A w \in Witnesses(s), t \in Tasks :
        Held(s, t) /\ WitnessConflicts(w, t, s.claims[t].scope)
        => s.claims[t].owner = w.owner

DisjointCustody(s) ==
    \A r, q \in Reservations : \A w \in s.custody[r], x \in s.custody[q] :
        r # q => ~WitnessConflicts(w, x.task, x.scope)

RetainedCustody(s) == \A r \in Reservations : s.custody[r] # {} => r \in s.retained

-----------------------------------------------------------------------------
\* A lease as its clients know it: who holds it, over which scope, under which
\* fence and until when; and the leases a registry serves.
LeaseOf(c) == [holder |-> c.owner, scope |-> c.scope, fence |-> c.epoch, until |-> c.expires]

LeasesOf(s) == [t \in Tasks |-> IF Held(s, t) THEN LeaseOf(s.claims[t]) ELSE NoClaim]
=============================================================================
