---------------------------- MODULE LeaseService ----------------------------
(***************************************************************************)
(* What the lease registry promises its clients, without heaps, quotas,      *)
(* custody, versions or checkpoints: exclusive leases with fences and terms. *)
(* A client is granted a resource that is free, due or its own, over a scope  *)
(* that nobody else's lease overlaps, under the next fence and for an agreed   *)
(* term; until it is due the lease ends only when it is given up, and moves     *)
(* only when it is passed on, under a newer fence.  Every request comes with     *)
(* the instant it is judged at and first ends what is due by then; an operator    *)
(* may end a lease without that.                                              *)
(***************************************************************************)
EXTENDS Integers

CONSTANTS
    Clients, Resources, Scopes, Overlap, Free,
    Terms       \* the durations a lease can be granted for

VARIABLES
    lease,      \* the lease of each resource, or Free
    lastFence,  \* the newest fence granted
    clock       \* the instant of the last judgement

vars == <<lease, lastFence, clock>>

Init ==
    /\ lease = [r \in Resources |-> Free]
    /\ lastFence = 0 /\ clock = 0

\* The leases that are left when those due by the instant of the step have ended.
Live == [r \in Resources |->
           IF lease[r] # Free /\ lease[r].until <= clock' THEN Free ELSE lease[r]]

\* No other client's live lease overlaps scope sc.
Clear(r, c, sc) ==
    \A q \in Resources \ {r} :
        Live[q] # Free /\ Live[q].holder # c => <<sc, Live[q].scope>> \notin Overlap

Issue(r, c, sc, term) ==
    /\ Clear(r, c, sc)
    /\ lastFence' = lastFence + 1
    /\ lease' = [Live EXCEPT ![r] = [holder |-> c, scope |-> sc,
                                     fence |-> lastFence + 1, until |-> clock' + term]]

Grant(r, c, sc, term) ==
    /\ Live[r] = Free \/ Live[r].holder = c
    /\ Issue(r, c, sc, term)

Pass(r, c, term) == Live[r] # Free /\ Issue(r, c, Live[r].scope, term)

Extend(r, term) ==
    /\ Live[r] # Free
    /\ lease' = [Live EXCEPT ![r].until = clock' + term]
    /\ UNCHANGED lastFence

GiveUp(r) == lease' = [Live EXCEPT ![r] = Free] /\ UNCHANGED lastFence

Sweep == lease' = Live /\ UNCHANGED lastFence

Revoke(r) == lease' = [lease EXCEPT ![r] = Free] /\ UNCHANGED lastFence

Request(r) ==
    \/ GiveUp(r) \/ Revoke(r)
    \/ \E term \in Terms :
         \/ Extend(r, term)
         \/ \E c \in Clients : \/ Pass(r, c, term)
                               \/ \E sc \in Scopes : Grant(r, c, sc, term)

\* The clock is a wall clock: a step may come at any time.
Next ==
    /\ clock' \in Int
    /\ \/ UNCHANGED <<lease, lastFence>>
       \/ Sweep
       \/ \E r \in Resources : Request(r)

Spec == Init /\ [][Next]_vars
=============================================================================
