-------------------------- MODULE MCHolderPresence --------------------------
(* Small instances of HolderPresence for TLC. *)
EXTENDS HolderPresence
=============================================================================
