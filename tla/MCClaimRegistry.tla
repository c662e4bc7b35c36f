-------------------------- MODULE MCClaimRegistry --------------------------
(* Small instances of FileClaims for TLC.                                   *)
EXTENDS FileClaims, TLC

\* Every agent under its own name, or sharing every bucket.
OwnPrincipal == [a \in Agents |-> {a}]
AnyPrincipal == [a \in Agents |-> Principals]

\* One tree that folds case, on a host that reports inode generations.
FoldedTree == [label |-> "w", policy |-> "folded", host |-> "h",
               key |-> [device |-> "d", generation |-> "g"]]
OneTree == {FoldedTree}

SegmentForm ==
    [policy \in {"literal", "sensitive", "folded"} |->
        [s \in Segments |-> IF policy = "folded" /\ s = "M" THEN "m" ELSE s]]
LabelFold == [policy \in {"sensitive", "folded"} |-> [l \in Labels |-> l]]

\* What a client sends for the given rows, keyed by the paths it displays.
Resolved(key, rows) ==
    [worktree |-> "w", paths |-> DOMAIN rows,
     identity |-> [label |-> "w", policy |-> "folded", rows |-> rows,
                   key |-> key, host |-> "h"]]

File == <<"src", "m">>
Link == <<"x">>
Declaration(path, symbol) == path \o <<Mark, symbol>>

RowOf(path, part) == [git |-> path, fs |-> path, object |-> "o", part |-> part]

\* A client that knows no identities claims the file as it displays it.
Legacy == [worktree |-> "w", paths |-> {<<"src", "M">>}, identity |-> Unknown]

\* A declared path that climbs is widened to the whole tree.
Whole == Resolved(FoldedTree.key,
                  [p \in NormalizePaths({<<"src", "..", "m">>}) |-> RowOf(p, Root)])

\* An older client's claim on the file: its root key has no generation.
WholeFile == Resolved([FoldedTree.key EXCEPT !.generation = Unknown],
                      (<<"src", "M">> :> RowOf(File, Root)))

\* Claims on two declarations of the file, one of them through a hard link.
Foo == Resolved(FoldedTree.key, (Declaration(File, "foo") :> RowOf(Declaration(File, "foo"), <<"foo">>)))
Bar == Resolved(FoldedTree.key, (Declaration(Link, "bar") :> RowOf(Declaration(Link, "bar"), <<"bar">>)))

MixedClients == {Legacy, Whole}
Declarations == {WholeFile, Foo, Bar}
ClaimOverlap == {pq \in Scopes \X Scopes : ClaimScopesConflict(pq[1], pq[2])}
ClaimedFiles == {File, Declaration(File, "foo"), Declaration(Link, "bar")}
=============================================================================
