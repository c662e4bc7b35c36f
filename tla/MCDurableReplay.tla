--------------------------- MODULE MCDurableReplay ---------------------------
(***************************************************************************)
(* Two small hubs, each on its own: the durable one (the extended modules),  *)
(* and one without a journal whose tasks carry resume tokens.  The unit is    *)
(* chosen once, the variables of the other one stay as they start.             *)
(***************************************************************************)
EXTENDS MCDurableHub

VARIABLES unit, reg

\* One task that two agents claim, checkpoint, update and hand to each other,
\* on scopes that overlap.
Plain == INSTANCE ClaimRegistry WITH
    Tasks <- {"t"}, Scopes <- {"root", "leaf"},
    Overlap <- {"root", "leaf"} \X {"root", "leaf"}, Tokens <- {"k", "l"},
    PrincipalsOf <- [a \in Agents |-> {a}], MaxClaimsPerAgent <- 1, Ttls <- {1},
    Goals <- Statuses \cup {NoStatus}, MaxClock <- 2, MaxEpoch <- 3, MaxVersion <- 2

ASSUME Plain!InputAssumption

hubs == <<unit, vars, reg>>

MCInit == unit \in {"durable", "plain"} /\ Init /\ Plain!Init

DurableStep == unit = "durable" /\ Next /\ UNCHANGED <<unit, reg>>
PlainStep == unit = "plain" /\ Plain!Next /\ UNCHANGED <<unit, volatile, durable, crashes>>

MCNext == DurableStep \/ PlainStep

MCSpec == MCInit /\ [][MCNext]_hubs

-----------------------------------------------------------------------------
\* Nothing but the owner's own checkpoint or a release changes what the next
\* claimant of a task resumes from.
TokenCarried == Plain!TokenCarried

\* Two writers that name one epoch and one version have seen one content.
VersionNamesContent == Plain!VersionNamesContent

\* A lease nobody renews ends under anybody's frames; on the durable hub for
\* good, also one restored by replay or republished by a late append.
LeasesEventuallyEnd ==
    /\ unit = "plain" /\ Plain!Fairness => Plain!LeaseEventuallyEnds
    /\ unit = "durable" /\ Fairness => AllLeasesEnd
=============================================================================
