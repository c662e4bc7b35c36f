----------------------------- MODULE FileClaims -----------------------------
(***************************************************************************)
(* The registry with file scopes as clients send them: what the exclusion of *)
(* overlapping scopes is worth to the files of one working tree, when the     *)
(* clients that claim them have different versions, name a file by different   *)
(* spellings, and the tree folds case or does not.                             *)
(***************************************************************************)
EXTENDS ClaimRegistry, ScopeOverlap

CONSTANTS
    Trees,  \* the working trees: label, case policy, root object and host
    Files   \* the paths of files and declarations in them

Tree == [label : Labels, policy : Policies, key : RootKey, host : Hosts]

\* What claim_task accepts, and the scan it decides by.
ASSUME FileScopesAssumption ==
    /\ Trees \subseteq Tree /\ Files \subseteq Path
    /\ \A p \in Scopes : WellFormed(p)
    /\ Overlap = {pq \in Scopes \X Scopes : ClaimScopesConflict(pq[1], pq[2])}

\* resolve_claim_scope_identity, by a client of any version: what an identity
\* says of the worktree is true of it, but some of it may be missing.
ResolvedIn(p, tree) ==
    /\ p.worktree = tree.label
    /\ p.identity # Unknown =>
         /\ p.identity.policy = tree.policy
         /\ p.identity.host \in {Unknown, tree.host}
         /\ \/ p.identity.key = Unknown
            \/ /\ p.identity.key.device = tree.key.device
               /\ p.identity.key.generation \in {Unknown, tree.key.generation}

\* Two claims without an identity are compared by their literal displays;
\* otherwise the tree's own case policy is known to one of them.
KnownPolicy(p, q, tree) ==
    IF p.identity = Unknown /\ q.identity = Unknown THEN "literal" ELSE tree.policy

\* A scope's claim on a file, in one spelling: a path of it is the file or a
\* directory above.
ClaimsFile(p, policy, spelling, file) ==
    \/ p.paths = {}
    \/ \E d \in p.paths :
         LET own == IF p.identity = Unknown THEN Under(policy, d) ELSE p.identity.rows[d][spelling]
         IN  Covers(own, Under(policy, file))

\* Two scopes of one tree claim one file of it.
ShareFile(p, q, tree) ==
    \E file \in Files, spelling \in {"git", "fs"} :
        /\ ClaimsFile(p, KnownPolicy(p, q, tree), spelling, file)
        /\ ClaimsFile(q, KnownPolicy(p, q, tree), spelling, file)

\* Two scopes of one tree claim one object, say through two hard links, and
\* one of the declarations claimed in it contains the other.
ShareObject(p, q) ==
    /\ \A s \in {p, q} : s.identity # Unknown /\ Unknown \notin {s.identity.host, s.identity.key}
    /\ \E d \in p.paths, e \in q.paths :
         LET r == p.identity.rows[d]
             s == q.identity.rows[e]
         IN  /\ r.object # Unknown /\ r.object = s.object
             /\ Covers(r.part, s.part) \/ Covers(s.part, r.part)

\* No two agents hold leases that claim one file, or one object with all its
\* declarations, of a working tree, whichever client versions, spellings and
\* case policies were involved: the scan over canonical scopes protects files.
FilesExclusive ==
    \A t, u \in Tasks, tree \in Trees :
        /\ Held(reg, t) /\ Held(reg, u)
        /\ ResolvedIn(reg.claims[t].scope, tree) /\ ResolvedIn(reg.claims[u].scope, tree)
        /\ \/ ShareFile(reg.claims[t].scope, reg.claims[u].scope, tree)
           \/ ShareObject(reg.claims[t].scope, reg.claims[u].scope)
        => t = u \/ reg.claims[t].owner = reg.claims[u].owner
=============================================================================
