-------------------------- MODULE MCDeliveryLedger --------------------------
(* Instances of DeliveryLedger for TLC.                                      *)
EXTENDS DeliveryLedger

CONSTANTS p1, p2, s1

MCOrigin == [o \in Ops |-> s1]
MCRecipient == [o \in Ops |-> IF o = 3 THEN p2 ELSE p1]
MCReports == [o \in Ops |-> IF o = 1 THEN {"boundary_delivered", "acknowledged", "completed"}
                            ELSE {}]
MCDeadline == [o \in Ops |-> 1]
=============================================================================
