---------------------------- MODULE MCNameBinding ----------------------------
(* Small instances of NameBinding for TLC. *)
EXTENDS NameBinding

\* The first two connections come from one process, a third from another.
Reconnects == [s \in Sockets |-> IF s \in {"s1", "s2"} THEN "p" ELSE "q"]
=============================================================================
