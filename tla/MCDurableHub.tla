---------------------------- MODULE MCDurableHub ----------------------------
(* Small instances of DurableHub for TLC. *)
EXTENDS DurableHub

\* "root" contains every other scope; the others are disjoint.
AllOverlap == {p \in Scopes \X Scopes : p[1] = p[2] \/ "root" \in {p[1], p[2]}}
=============================================================================
