----------------------------- MODULE MCExchanges -----------------------------
(***************************************************************************)
(* Small instances of what agents ask of each other, each on its own: waits  *)
(* for tasks (WaitGraph), chats to a seat of another hub (MessageForwarding)   *)
(* and session-bound deliveries.  The unit is chosen once, the variables of     *)
(* the others stay as they start.                                              *)
(***************************************************************************)
EXTENDS WaitGraph, MessageForwarding, DeliveryLedger, TLC

CONSTANTS a, b, c, t, u, v

VARIABLE unit

\* Two requests of one sender for the process p1: one of them reported,
\* the other cancelled.
Sent == [o \in Ops |-> "s"]
Addressed == [o \in Ops |-> "p1"]
DueAtOne == [o \in Ops |-> 1]
Reported == [o \in Ops |->
    IF o = 1 THEN {"boundary_delivered", "acknowledged", "completed"} ELSE {}]

ASSUME DeliveryAssumption

\* Agents, and tasks, are interchangeable.
Symmetric == Permutations({a, b, c}) \cup Permutations({t, u, v})

exchanges == <<unit, vars, forwardVars, deliveryVars>>

MCInit ==
    /\ unit \in {"waits", "forwards", "deliveries"}
    /\ Init
    /\ (unit # "waits" => holder = [x \in Tasks |-> Nil])
    /\ ForwardInit /\ DeliveryInit

WaitStep == unit = "waits" /\ Next /\ UNCHANGED <<unit, forwardVars, deliveryVars>>
ForwardStep == unit = "forwards" /\ ForwardNext /\ UNCHANGED <<unit, vars, deliveryVars>>
DeliveryStep ==
    unit = "deliveries" /\ DeliveryNext /\ UNCHANGED <<unit, vars, forwardVars>>

MCNext == WaitStep \/ ForwardStep \/ DeliveryStep

MCSpec == MCInit /\ [][MCNext]_exchanges

-----------------------------------------------------------------------------
\* All records keep the shape the code gives them.
Typed == TypeOK /\ ForwardTypeOK /\ DeliveryTypeOK
=============================================================================
