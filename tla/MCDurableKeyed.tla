---------------------------- MODULE MCDurableKeyed ----------------------------
(***************************************************************************)
(* Small instances of what a hub with a journal owes its clients after a      *)
(* crash, each on its own: the answers to keyed lease requests (DurableHub),   *)
(* and the receipts, watermarks and counts of chats (Mailbox).  The unit is     *)
(* chosen once, the variables of the other one stay as they start.               *)
(***************************************************************************)
EXTENDS MCDurableHub, Mailbox, TLC

CONSTANTS a, b, t, u

VARIABLE unit

ASSUME MailboxAssumption

\* Agents of the durable hub, and tasks, are interchangeable.
Symmetric == Permutations({a, b}) \cup Permutations({t, u})

hubs == <<unit, vars, mailVars>>

MCInit == unit \in {"leases", "mailboxes"} /\ Init /\ MailInit

LeaseStep == unit = "leases" /\ Next /\ UNCHANGED <<unit, mailVars>>
MailStep == unit = "mailboxes" /\ MailNext /\ UNCHANGED <<unit, vars>>

MCNext == LeaseStep \/ MailStep

MCSpec == MCInit /\ [][MCNext]_hubs

-----------------------------------------------------------------------------
\* Both hubs' journals and memories keep the shape the code gives them.
Typed == TypeOK /\ MailTypeOK
=============================================================================
