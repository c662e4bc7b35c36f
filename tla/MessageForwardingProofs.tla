----------------------- MODULE MessageForwardingProofs -----------------------
(***************************************************************************)
(* Both hubs' forwarding records keep their shape, a sender is told the one   *)
(* thing that became of a forward, and a peer that does not write warnings     *)
(* on the forwarding link journals one copy of it, and one more per crash.      *)
(***************************************************************************)
EXTENDS MessageForwarding, TLAPS

\* What the origin reports: outcomes on their way to a sender are those the
\* outbox holds, and rows are attempted only after they were enqueued.
Reports ==
    /\ \A e \in toTell \cup retries.settled : outbox[e.forward] = e.verdict
    /\ \A f \in Forwards :
         /\ heard[f] \subseteq {outbox[f]}
         /\ told[f] \/ telling[f] # None => heard[f] # {}
         /\ f \in chats \/ attempt[f] # None => outbox[f] # "none"

\* What the links carry: the forward they were dialled for, and an acceptance
\* of it only once the peer journalled it.
Carried ==
    /\ \A f \in Forwards : attempt[f] # None => link[attempt[f]].forward = f
    /\ \A n \in Links :
         /\ link[n].phase # "over" \/ link[n].answer # None => link[n].forward \in Forwards
         /\ link[n].phase = "fanout" \/ link[n].answer \in {"accepted", "duplicate"} =>
              copies[link[n].forward] > 0
    /\ \A f \in Forwards :
         f \in answered \/ outbox[f] \in {"accepted", "duplicate"} => copies[f] > 0

\* What the type and truth theorems carry along.
FInv == ForwardTypeOK /\ Reports /\ Carried

\* One link is registered under the origin's id while its handler runs, so one
\* handler at a time routes; a copy that is neither remembered nor being written
\* to its recipients is one a crash left behind.
Named == \A n \in Links : link[n].phase \in {"bound", "fanout", "answered"} <=> named = n

\* The peer journalled forward f and has not remembered it yet.
FanningOut(f) == \E n \in Links : link[n].phase = "fanout" /\ link[n].forward = f

\* What the one-copy theorem carries along.
CInv ==
    /\ FInv /\ Named /\ OneCopy
    /\ \A f \in Forwards :
         f \in answered \/ FanningOut(f) \/ copies[f] <= peerCrashes

-----------------------------------------------------------------------------
(* Links.                                                                   *)

\* Hanging up forgets the answer and lets the peer go on.
LEMMA HungUpLink ==
    ASSUME ForwardTypeOK, NEW n \in Links
    PROVE  /\ HungUp(n) \in Link /\ HungUp(n).answer = None
           /\ HungUp(n).phase = link[n].phase
           /\ link[n].phase # "over" => HungUp(n).forward = link[n].forward
BY SMT DEF ForwardTypeOK, HungUp, Unused, Link, Phases

\* A link the peer is done with keeps what the origin still waits for.
LEMMA EndedLink ==
    ASSUME ForwardTypeOK, NEW n \in Links
    PROVE  /\ Ended(n) \in Link /\ Ended(n).phase = "over"
           /\ Awaited(n) => /\ Ended(n).forward = link[n].forward
                            /\ Ended(n).answer = link[n].answer
           /\ ~Awaited(n) => Ended(n).answer = None
BY SMT DEF ForwardTypeOK, Ended, Unused, Link, Phases

\* A handler that ends answers the forward it served, or nobody.
LEMMA AnsweringLink ==
    ASSUME ForwardTypeOK, NEW n \in Links, NEW x \in Answers \cup {None}
    PROVE  /\ Answering(n, x) \in Link /\ Answering(n, x).phase = "answered"
           /\ Answering(n, x).forward = link[n].forward
           /\ Answering(n, x).answer \in {x, None}
<1>1. link[n] \in Link
  BY DEF ForwardTypeOK
<1>2. CASE Awaited(n)
  BY <1>1, <1>2 DEF Answering, Link, Phases
<1>3. CASE ~Awaited(n)
  BY <1>1, <1>3 DEF Answering, Link, Phases
<1> QED
  BY <1>2, <1>3

\* A connection is bound as it arrives.
LEMMA BoundLink ==
    ASSUME ForwardTypeOK, NEW n \in Links, NEW p \in Phases
    PROVE  LET l == [link[n] EXCEPT !.phase = p] IN
           /\ l \in Link /\ l.forward = link[n].forward /\ l.phase = p
           /\ l.answer = link[n].answer
BY SMT DEF ForwardTypeOK, Link

\* A dialled link, and one nobody uses.
LEMMA FreshLinks ==
    /\ Unused \in Link
    /\ \A f \in Forwards : Dialled(f) \in Link
BY DEF Unused, Dialled, Link, Phases

-----------------------------------------------------------------------------
(* Shapes.                                                                  *)

\* What attempts return are outcomes.
LEMMA ReturnedTyped ==
    ASSUME ForwardTypeOK, NEW f \in Forwards, NEW s \in Verdicts \cup {"pending"},
           Returned(f, s)
    PROVE  /\ retries' \in [on : BOOLEAN, due : SUBSET Forwards,
                             at : Forwards \cup {None}, settled : SUBSET OutcomeOf]
           /\ toTell' \subseteq OutcomeOf
<1>1. s # "pending" => Outcome(f, s) \in OutcomeOf
  BY DEF Outcome, OutcomeOf
<1>2. CASE retries.at = f
  <2> DEFINE more == IF s \in {"pending", "expired"} THEN {} ELSE {Outcome(f, s)}
  <2>1. more \subseteq OutcomeOf
    BY <1>1
  <2>2. retries' = [retries EXCEPT !.at = None, !.settled = @ \cup more]
    BY <1>2 DEF Returned
  <2> HIDE DEF more
  <2> QED
    BY <1>2, <2>1, <2>2 DEF Returned, ForwardTypeOK
<1>3. CASE retries.at # f
  BY <1>1, <1>3 DEF Returned, ForwardTypeOK
<1> QED
  BY <1>2, <1>3

\* A chat, its attempts and their answers keep the shapes.
LEMMA AttemptsTyped ==
    ASSUME FInv, NEW f \in Forwards,
           SendChat(f) \/ FirstAttempt(f) \/ AnswerArrives(f) \/ GiveUp(f) \/ Elapse(f)
    PROVE  ForwardTypeOK'
<1> USE DEF FInv
<1>1. CASE SendChat(f)
  BY <1>1 DEF SendChat, ForwardTypeOK, receiptVars, originVars, peerVars
<1>2. CASE FirstAttempt(f)
  <2>1. toTell' \subseteq OutcomeOf
    BY <1>2 DEF FirstAttempt, ForwardTypeOK, Reports, Outcome, OutcomeOf
  <2>2. attempt' \in [Forwards -> Links \cup {None}] /\ link' \in [Links -> Link]
    BY <1>2, FreshLinks DEF FirstAttempt, Dial, ForwardTypeOK
  <2> QED
    BY <1>2, <2>1, <2>2 DEF FirstAttempt, ForwardTypeOK, outboxVars, originVars, peerVars
<1>3. CASE AnswerArrives(f)
  <2>1. attempt[f] \in Links /\ link[attempt[f]].answer \in Answers
    BY <1>3 DEF AnswerArrives, ForwardTypeOK, Link
  <2>2. Settled(f, link[attempt[f]].answer) \in Verdicts
    BY <1>3, <2>1 DEF AnswerArrives, ForwardTypeOK, Reports, Settled, Verdicts, Answers
  <2>3. link' \in [Links -> Link]
    BY <1>3, <2>1, HungUpLink DEF AnswerArrives, ForwardTypeOK
  <2> QED
    BY <1>3, <2>2, <2>3, ReturnedTyped
    DEF AnswerArrives, ForwardTypeOK, originVars, peerVars
<1>4. CASE GiveUp(f)
  <2>1. attempt[f] \in Links /\ outbox[f] \in Verdicts \cup {"pending"}
    BY <1>4 DEF GiveUp, ForwardTypeOK, Reports
  <2>2. link' \in [Links -> Link]
    BY <1>4, <2>1, HungUpLink DEF GiveUp, ForwardTypeOK
  <2> QED
    BY <1>4, <2>1, <2>2, ReturnedTyped
    DEF GiveUp, ForwardTypeOK, outboxVars, originVars, peerVars
<1>5. CASE Elapse(f)
  BY <1>5 DEF Elapse, ForwardTypeOK, taskVars, receiptVars, originVars, peerVars
<1> QED
  BY <1>1, <1>2, <1>3, <1>4, <1>5

\* The retry sweep keeps the shapes.
LEMMA SweepsTyped ==
    ASSUME FInv, SweepSteps
    PROVE  ForwardTypeOK'
<1> USE DEF FInv
<1>1. CASE SweepBegins
  <2>1. \A f \in Forwards : Outcome(f, "expired") \in OutcomeOf
    BY DEF Outcome, OutcomeOf, Verdicts
  <2>2. PICK due \in SUBSET Forwards :
          /\ retries' = [on |-> TRUE, due |-> due, at |-> None,
                         settled |-> {Outcome(f, "expired") :
                                        f \in {g \in overdue : outbox[g] = "pending"}}]
          /\ outbox' = [f \in Forwards |->
                          IF f \in {g \in overdue : outbox[g] = "pending"}
                          THEN "expired" ELSE outbox[f]]
    BY <1>1 DEF SweepBegins
  <2>3. {Outcome(f, "expired") : f \in {g \in overdue : outbox[g] = "pending"}}
          \subseteq OutcomeOf
    BY <2>1 DEF ForwardTypeOK
  <2>4. outbox' \in [Forwards -> Verdicts \cup {"none", "pending"}]
    BY <2>2 DEF ForwardTypeOK, Verdicts
  <2> QED
    BY <1>1, <2>2, <2>3, <2>4
    DEF SweepBegins, ForwardTypeOK, receiptVars, originVars, peerVars
<1>2. CASE SweepAttempts
  <2>1. attempt' \in [Forwards -> Links \cup {None}] /\ link' \in [Links -> Link]
    BY <1>2, FreshLinks DEF SweepAttempts, Dial, ForwardTypeOK
  <2>2. PICK f \in retries.due :
          \/ retries' = [retries EXCEPT !.due = @ \ {f},
                                        !.at = IF attempt'[f] = None THEN None ELSE f]
          \/ retries' = [retries EXCEPT !.due = @ \ {f}]
    BY <1>2 DEF SweepAttempts
  <2>3. retries' \in [on : BOOLEAN, due : SUBSET Forwards, at : Forwards \cup {None},
                      settled : SUBSET OutcomeOf]
    BY <2>2 DEF ForwardTypeOK
  <2> QED
    BY <1>2, <2>1, <2>3
    DEF SweepAttempts, ForwardTypeOK, outboxVars, receiptVars, originVars, peerVars
<1>3. CASE SweepReports
  BY <1>3 DEF SweepReports, Resting, ForwardTypeOK, outboxVars, originVars, peerVars
<1> QED
  BY <1>1, <1>2, <1>3 DEF SweepSteps

\* Receipts, and the seat's arrivals and departures, keep the shapes.
LEMMA ReceiptsTyped ==
    ASSUME FInv, ReceiptSteps
    PROVE  ForwardTypeOK'
<1> USE DEF FInv
<1>1. ASSUME NEW e \in toTell, Notify(e) PROVE ForwardTypeOK'
  <2>1. e.forward \in Forwards /\ e.verdict \in Verdicts
    BY DEF ForwardTypeOK, OutcomeOf
  <2> QED
    BY <1>1, <2>1 DEF Notify, ForwardTypeOK, outboxVars, taskVars, originVars, peerVars
<1>2. ASSUME NEW f \in Forwards, Notified(f) PROVE ForwardTypeOK'
  BY <1>2 DEF Notified, ForwardTypeOK, taskVars, originVars, peerVars
<1>3. CASE SeatRegisters
  <2>1. toTell' \subseteq OutcomeOf
    BY <1>3 DEF SeatRegisters, ForwardTypeOK, Outcome, OutcomeOf
  <2> QED
    BY <1>3, <2>1 DEF SeatRegisters, ForwardTypeOK, outboxVars, taskVars, originVars, peerVars
<1>4. CASE SeatLeaves
  BY <1>4 DEF SeatLeaves, ForwardTypeOK, outboxVars, taskVars, originVars, peerVars
<1> QED
  BY <1>1, <1>2, <1>3, <1>4 DEF ReceiptSteps

\* Crashes and restarts of either hub keep the shapes.
LEMMA HubsTyped ==
    ASSUME FInv, OriginCrash \/ OriginRestart \/ PeerCrash \/ PeerRestart
    PROVE  ForwardTypeOK'
<1> USE DEF FInv
<1>1. CASE OriginCrash
  <2>1. link' \in [Links -> Link]
    BY <1>1, HungUpLink DEF OriginCrash, ForwardTypeOK
  <2>2. originCrashes' \in Nat
    BY <1>1 DEF OriginCrash, ForwardTypeOK
  <2>3. retries' \in [on : BOOLEAN, due : SUBSET Forwards, at : Forwards \cup {None},
                      settled : SUBSET OutcomeOf]
    BY <1>1 DEF OriginCrash, Resting
  <2>4. /\ originUp' = FALSE /\ seat' = FALSE /\ chats' = {} /\ toTell' = {}
        /\ attempt' = [f \in Forwards |-> None] /\ telling' = [f \in Forwards |-> None]
        /\ UNCHANGED <<outboxVars, heard, peerVars>>
    BY <1>1 DEF OriginCrash
  <2> QED
    BY <2>1, <2>2, <2>3, <2>4 DEF ForwardTypeOK, outboxVars, peerVars
<1>2. CASE OriginRestart
  BY <1>2 DEF OriginRestart, ForwardTypeOK, outboxVars, taskVars, receiptVars, peerVars
<1>3. CASE PeerCrash
  <2>1. link' \in [Links -> Link]
    BY <1>3, EndedLink DEF PeerCrash
  <2>2. peerCrashes' \in Nat
    BY <1>3 DEF PeerCrash, ForwardTypeOK
  <2>3. /\ peerUp' = FALSE /\ named' = None
        /\ UNCHANGED <<outboxVars, taskVars, receiptVars, originVars, answered, copies>>
    BY <1>3 DEF PeerCrash
  <2> QED
    BY <2>1, <2>2, <2>3 DEF ForwardTypeOK, outboxVars, taskVars, receiptVars, originVars
<1>4. CASE PeerRestart
  BY <1>4 DEF PeerRestart, ForwardTypeOK, outboxVars, taskVars, receiptVars, originVars
<1> QED
  BY <1>1, <1>2, <1>3, <1>4

\* What a step of the peer on one link leaves of the shapes.
LEMMA AtPeerTyped ==
    ASSUME ForwardTypeOK, NEW n \in Links, NEW l \in Link, AtPeer(n, l),
           named' \in Links \cup {None}, answered' \subseteq Forwards,
           copies' \in [Forwards -> Nat]
    PROVE  ForwardTypeOK'
BY DEF AtPeer, ForwardTypeOK, outboxVars, taskVars, receiptVars, originVars

\* What the peer does on a link keeps the shapes.
LEMMA PeerTyped ==
    ASSUME FInv, NEW n \in Links,
           \/ Lose(n) \/ Arrive(n) \/ Repeat(n) \/ Refuse(n) \/ Route(n)
           \/ Fanned(n) \/ WarningFails(n) \/ Unregister(n)
    PROVE  ForwardTypeOK'
<1> USE DEF FInv
<1>1. /\ named \in Links \cup {None} /\ answered \subseteq Forwards
      /\ copies \in [Forwards -> Nat] /\ Ended(n) \in Link
  BY EndedLink DEF ForwardTypeOK
<1>2. link[n].phase # "over" => link[n].forward \in Forwards
  BY DEF Carried
<1>3. \A x \in Answers \cup {None} : Answering(n, x) \in Link
  BY AnsweringLink
<1>4. \A p \in Phases : [link[n] EXCEPT !.phase = p] \in Link
  BY BoundLink
<1>5. CASE Lose(n)
  BY <1>1, <1>5, AtPeerTyped DEF Lose
<1>6. CASE Arrive(n)
  BY <1>1, <1>4, <1>6, AtPeerTyped DEF Arrive, Phases
<1>7. CASE Repeat(n)
  BY <1>1, <1>3, <1>7, AtPeerTyped DEF Repeat, Answers
<1>8. CASE Refuse(n)
  BY <1>1, <1>3, <1>8, AtPeerTyped DEF Refuse, Answers
<1>9. CASE Route(n)
  <2>1. copies' \in [Forwards -> Nat]
    BY <1>1, <1>2, <1>9 DEF Route
  <2> QED
    BY <1>1, <1>4, <1>9, <2>1, AtPeerTyped DEF Route, Phases
<1>10. CASE Fanned(n)
  BY <1>1, <1>2, <1>3, <1>10, AtPeerTyped DEF Fanned, Answers
<1>11. CASE WarningFails(n)
  BY <1>1, <1>3, <1>11, AtPeerTyped DEF WarningFails
<1>12. CASE Unregister(n)
  BY <1>1, <1>12, AtPeerTyped DEF Unregister
<1> QED
  BY <1>5, <1>6, <1>7, <1>8, <1>9, <1>10, <1>11, <1>12

\* Every step keeps the shapes.
LEMMA TypeStep == ASSUME FInv, [ForwardNext]_forwardVars PROVE ForwardTypeOK'
<1>1. CASE UNCHANGED forwardVars
  BY <1>1 DEF FInv, ForwardTypeOK, forwardVars, outboxVars, taskVars, receiptVars,
    originVars, peerVars
<1> QED
  BY <1>1, AttemptsTyped, SweepsTyped, ReceiptsTyped, HubsTyped, PeerTyped
  DEF ForwardNext, AttemptSteps, PeerSteps

-----------------------------------------------------------------------------
(* What the origin reports.                                                 *)

\* Settlements stand, so what was reported of them does.
LEMMA ReportsStand ==
    ASSUME FInv,
           \A g \in Forwards : /\ outbox[g] \in Verdicts => outbox'[g] = outbox[g]
                               /\ outbox[g] # "none" => outbox'[g] # "none",
           \A e \in toTell' \cup retries'.settled :
             e \in toTell \cup retries.settled \/ outbox'[e.forward] = e.verdict,
           told' = told, telling' = telling, heard' = heard,
           \A g \in Forwards : g \in chats' \/ attempt'[g] # None =>
             g \in chats \/ attempt[g] # None \/ outbox'[g] # "none"
    PROVE  Reports'
<1>1. ForwardTypeOK /\ Reports
  BY DEF FInv
<1>2. ASSUME NEW e \in toTell' \cup retries'.settled PROVE outbox'[e.forward] = e.verdict
  <2>1. CASE e \in toTell \cup retries.settled
    <3>1. e.forward \in Forwards /\ e.verdict \in Verdicts
      BY <1>1, <2>1 DEF ForwardTypeOK, OutcomeOf
    <3>2. outbox[e.forward] = e.verdict
      BY <1>1, <2>1 DEF Reports
    <3>3. outbox'[e.forward] = outbox[e.forward]
      BY <3>1, <3>2
    <3> QED
      BY <3>2, <3>3
  <2> QED
    BY <2>1
<1>3. ASSUME NEW f \in Forwards PROVE heard'[f] \subseteq {outbox'[f]}
  <2>1. \A x \in heard[f] : x \in Verdicts /\ x = outbox[f]
    BY <1>1 DEF ForwardTypeOK, Reports
  <2>2. \A x \in heard[f] : x = outbox'[f]
    BY <2>1
  <2>3. heard'[f] = heard[f]
    OBVIOUS
  <2> QED
    BY <2>2, <2>3
<1>4. ASSUME NEW f \in Forwards
      PROVE  /\ told'[f] \/ telling'[f] # None => heard'[f] # {}
             /\ f \in chats' \/ attempt'[f] # None => outbox'[f] # "none"
  <2>1. /\ told[f] \/ telling[f] # None => heard[f] # {}
        /\ f \in chats \/ attempt[f] # None => outbox[f] # "none"
    BY <1>1 DEF Reports
  <2>2. outbox[f] # "none" => outbox'[f] # "none"
    OBVIOUS
  <2>3. told'[f] = told[f] /\ telling'[f] = telling[f] /\ heard'[f] = heard[f]
    OBVIOUS
  <2>4. f \in chats' \/ attempt'[f] # None =>
          f \in chats \/ attempt[f] # None \/ outbox'[f] # "none"
    OBVIOUS
  <2> QED
    BY <2>1, <2>2, <2>3, <2>4
<1> QED
  BY <1>2, <1>3, <1>4 DEF Reports

\* An attempt returns what it left the row in, or nothing.
LEMMA ReturnedOne ==
    ASSUME ForwardTypeOK, NEW f \in Forwards, NEW s, Returned(f, s)
    PROVE  \A e \in toTell' \cup retries'.settled :
             e \in toTell \cup retries.settled \/ e = Outcome(f, s)
<1>1. CASE retries.at = f
  <2> DEFINE more == IF s \in {"pending", "expired"} THEN {} ELSE {Outcome(f, s)}
  <2>1. more \subseteq {Outcome(f, s)}
    OBVIOUS
  <2>2. retries' = [retries EXCEPT !.at = None, !.settled = @ \cup more] /\ toTell' = toTell
    BY <1>1 DEF Returned
  <2> HIDE DEF more
  <2>3. retries'.settled = retries.settled \cup more
    BY <2>2 DEF ForwardTypeOK
  <2> QED
    BY <2>1, <2>2, <2>3
<1>2. CASE retries.at # f
  <2>1. \A e \in toTell' : e \in toTell \/ e = Outcome(f, s)
    BY <1>2 DEF Returned
  <2> QED
    BY <1>2, <2>1 DEF Returned
<1> QED
  BY <1>1, <1>2

\* An answer settles a pending row only, and its owner gets what the row became.
LEMMA AttemptsReport ==
    ASSUME FInv, NEW f \in Forwards,
           SendChat(f) \/ FirstAttempt(f) \/ AnswerArrives(f) \/ GiveUp(f) \/ Elapse(f)
    PROVE  Reports'
<1>1. ForwardTypeOK /\ Reports
  BY DEF FInv
<1>2. CASE SendChat(f)
  <2>1. outbox[f] = "none" /\ \A g \in Forwards \ {f} : outbox'[g] = outbox[g]
    BY <1>1, <1>2 DEF SendChat, ForwardTypeOK
  <2>2. outbox'[f] = "pending" /\ chats' = chats \cup {f}
        /\ UNCHANGED <<told, attempt, retries, receiptVars>>
    BY <1>1, <1>2 DEF SendChat, ForwardTypeOK
  <2> QED
    BY <2>1, <2>2, ReportsStand DEF receiptVars, Verdicts
<1>3. CASE FirstAttempt(f)
  <2>1. \A e \in toTell' : e \in toTell \/ outbox[e.forward] = e.verdict
    BY <1>3 DEF FirstAttempt, Outcome
  <2>2. \A g \in Forwards : attempt'[g] # None => attempt[g] # None \/ g = f
    BY <1>1, <1>3 DEF FirstAttempt, Dial, ForwardTypeOK
  <2> QED
    BY <1>3, <2>1, <2>2, ReportsStand DEF FirstAttempt, outboxVars
<1>4. CASE AnswerArrives(f)
  <2> DEFINE s == Settled(f, link[attempt[f]].answer)
  <2>1. link[attempt[f]].answer \in Answers /\ attempt[f] # None
    BY <1>1, <1>4 DEF AnswerArrives, ForwardTypeOK, Link
  <2>2. /\ outbox[f] # "pending" => s = outbox[f]
        /\ s \notin {"none", "pending"}
    BY <1>1, <2>1 DEF Settled, Answers, Reports
  <2>3. Returned(f, s) /\ outbox' = [outbox EXCEPT ![f] = s]
        /\ attempt' = [attempt EXCEPT ![f] = None]
        /\ UNCHANGED <<told, chats, telling, heard>>
    BY <1>4 DEF AnswerArrives
  <2> HIDE DEF s
  <2>4. \A g \in Forwards : /\ outbox[g] \in Verdicts => outbox'[g] = outbox[g]
                            /\ outbox[g] # "none" => outbox'[g] # "none"
    BY <1>1, <2>2, <2>3 DEF ForwardTypeOK, Verdicts
  <2>5. \A e \in toTell' \cup retries'.settled :
          e \in toTell \cup retries.settled \/ e = Outcome(f, s)
    BY <1>1, <2>3, ReturnedOne
  <2>6. outbox'[Outcome(f, s).forward] = Outcome(f, s).verdict
    BY <1>1, <2>3 DEF Outcome, ForwardTypeOK
  <2>7. \A g \in Forwards : attempt'[g] # None => attempt[g] # None
    BY <1>1, <2>3 DEF ForwardTypeOK
  <2> QED
    BY <2>3, <2>4, <2>5, <2>6, <2>7, ReportsStand
<1>5. CASE GiveUp(f)
  <2>1. \A e \in toTell' \cup retries'.settled :
          e \in toTell \cup retries.settled \/ e = Outcome(f, outbox[f])
    BY <1>1, <1>5, ReturnedOne DEF GiveUp
  <2>2. outbox[Outcome(f, outbox[f]).forward] = Outcome(f, outbox[f]).verdict
    BY DEF Outcome
  <2>3. \A g \in Forwards : attempt'[g] # None => attempt[g] # None
    BY <1>1, <1>5 DEF GiveUp, ForwardTypeOK
  <2> QED
    BY <1>5, <2>1, <2>2, <2>3, ReportsStand DEF GiveUp, outboxVars
<1>6. CASE Elapse(f)
  BY <1>6, ReportsStand DEF Elapse, taskVars, receiptVars
<1> QED
  BY <1>2, <1>3, <1>4, <1>5, <1>6

\* The sweep reports the rows it settled, as it settled them.
LEMMA SweepsReport ==
    ASSUME FInv, SweepSteps
    PROVE  Reports'
<1>1. ForwardTypeOK /\ Reports
  BY DEF FInv
<1>2. CASE SweepBegins
  <2> DEFINE late == {f \in overdue : outbox[f] = "pending"}
  <2>1. /\ outbox' = [f \in Forwards |-> IF f \in late THEN "expired" ELSE outbox[f]]
        /\ retries'.settled = {Outcome(f, "expired") : f \in late}
        /\ UNCHANGED <<told, chats, attempt, receiptVars>>
    BY <1>2 DEF SweepBegins
  <2>2. \A e \in retries'.settled : outbox'[e.forward] = e.verdict
    BY <1>1, <2>1 DEF Outcome, ForwardTypeOK
  <2>3. \A g \in Forwards : /\ outbox[g] \in Verdicts => outbox'[g] = outbox[g]
                            /\ outbox[g] # "none" => outbox'[g] # "none"
    BY <2>1 DEF Verdicts
  <2> QED
    BY <2>1, <2>2, <2>3, ReportsStand DEF receiptVars
<1>3. CASE SweepAttempts
  <2>1. retries'.settled = retries.settled
    BY <1>1, <1>3 DEF SweepAttempts, ForwardTypeOK
  <2>2. \A g \in Forwards : attempt'[g] # None => attempt[g] # None \/ outbox[g] = "pending"
    BY <1>1, <1>3 DEF SweepAttempts, Dial, ForwardTypeOK
  <2> QED
    BY <1>3, <2>1, <2>2, ReportsStand DEF SweepAttempts, outboxVars, receiptVars
<1>4. CASE SweepReports
  <2>1. retries'.settled = {} /\ toTell' = toTell \cup retries.settled
    BY <1>4 DEF SweepReports, Resting
  <2> QED
    BY <1>4, <2>1, ReportsStand DEF SweepReports, outboxVars
<1> QED
  BY <1>2, <1>3, <1>4 DEF SweepSteps

\* A receipt carries what the outbox holds.
LEMMA ReceiptsReport ==
    ASSUME FInv, ReceiptSteps
    PROVE  Reports'
<1>1. ForwardTypeOK /\ Reports
  BY DEF FInv
<1>2. ASSUME NEW e \in toTell, Notify(e) PROVE Reports'
  <2>1. e.forward \in Forwards /\ e.verdict = outbox[e.forward]
    BY <1>1 DEF ForwardTypeOK, OutcomeOf, Reports
  <2>2. toTell' \subseteq toTell /\ UNCHANGED <<outboxVars, taskVars>>
    BY <1>2 DEF Notify
  <2>3. \A f \in Forwards : /\ heard'[f] \subseteq {outbox[f]}
                            /\ told[f] \/ telling'[f] # None => heard'[f] # {}
    BY <1>1, <1>2, <2>1 DEF Notify, ForwardTypeOK, Reports
  <2> QED
    BY <1>1, <2>2, <2>3 DEF Reports, outboxVars, taskVars
<1>3. ASSUME NEW f \in Forwards, Notified(f) PROVE Reports'
  <2>1. \A g \in Forwards : told'[g] \/ telling'[g] # None => told[g] \/ telling[g] # None
    BY <1>1, <1>3 DEF Notified, ForwardTypeOK
  <2> QED
    BY <1>1, <1>3, <2>1 DEF Notified, Reports, taskVars
<1>4. CASE SeatRegisters
  <2>1. \A e \in toTell' : e \in toTell \/ outbox[e.forward] = e.verdict
    BY <1>4 DEF SeatRegisters, Outcome
  <2> QED
    BY <1>4, <2>1, ReportsStand DEF SeatRegisters, outboxVars, taskVars
<1>5. CASE SeatLeaves
  BY <1>1, <1>5 DEF SeatLeaves, Reports, outboxVars, taskVars
<1> QED
  BY <1>2, <1>3, <1>4, <1>5 DEF ReceiptSteps

\* The peer, and either hub's crash, report nothing.
LEMMA OthersReport ==
    ASSUME FInv,
           \/ \E n \in Links : \E l : AtPeer(n, l)
           \/ OriginCrash \/ OriginRestart \/ PeerCrash \/ PeerRestart
           \/ UNCHANGED forwardVars
    PROVE  Reports'
<1>1. ForwardTypeOK /\ Reports
  BY DEF FInv
<1>2. CASE UNCHANGED <<outboxVars, taskVars, receiptVars>>
  BY <1>1, <1>2 DEF Reports, outboxVars, taskVars, receiptVars
<1>3. CASE OriginCrash
  <2>1. retries'.settled = {} /\ toTell' = {} /\ chats' = {}
    BY <1>3 DEF OriginCrash, Resting
  <2>2. \A f \in Forwards : attempt'[f] = None /\ telling'[f] = None
    BY <1>3 DEF OriginCrash
  <2> QED
    BY <1>1, <1>3, <2>1, <2>2 DEF OriginCrash, Reports, outboxVars
<1> QED
  BY <1>2, <1>3 DEF AtPeer, OriginRestart, PeerCrash, PeerRestart, forwardVars

-----------------------------------------------------------------------------
(* What the links carry.                                                    *)

\* Answers that claim the peer has the forward.
Accepting == {"accepted", "duplicate"}

\* No link changes, and nothing is copied, answered or accepted.
LEMMA SameLinks ==
    ASSUME FInv, link' = link, copies' = copies, answered' = answered,
           \A g \in Forwards : attempt'[g] # None => attempt'[g] = attempt[g],
           \A g \in Forwards : outbox'[g] \in Accepting => outbox[g] \in Accepting
    PROVE  Carried'
BY DEF FInv, Carried, Accepting

\* One link changes: it carries a forward the origin waits for there, and an
\* acceptance of a forward that was copied.
LEMMA OneLink ==
    ASSUME FInv, NEW n \in Links, NEW l \in Link, link' = [link EXCEPT ![n] = l],
           l.phase # "over" \/ l.answer # None => l.forward \in Forwards,
           l.phase = "fanout" \/ l.answer \in Accepting => copies'[l.forward] > 0,
           \A g \in Forwards : copies[g] > 0 => copies'[g] > 0,
           \A g \in Forwards : attempt'[g] # None =>
             \/ attempt'[g] = n /\ l.forward = g
             \/ attempt'[g] = attempt[g] /\ attempt[g] # n,
           \A g \in Forwards :
             g \in answered' \/ outbox'[g] \in Accepting => copies'[g] > 0
    PROVE  Carried'
<1>1. ForwardTypeOK /\ Carried
  BY DEF FInv
<1>2. \A m \in Links : link'[m] = IF m = n THEN l ELSE link[m]
  BY <1>1 DEF ForwardTypeOK
<1>3. ASSUME NEW f \in Forwards, attempt'[f] # None PROVE link'[attempt'[f]].forward = f
  <2>1. CASE attempt'[f] = n /\ l.forward = f
    BY <1>2, <2>1
  <2>2. CASE attempt'[f] = attempt[f] /\ attempt[f] # n
    <3>1. attempt[f] \in Links /\ link[attempt[f]].forward = f
      BY <1>1, <1>3, <2>2 DEF ForwardTypeOK, Carried
    <3> QED
      BY <1>2, <2>2, <3>1
  <2> QED
    BY <1>3, <2>1, <2>2
<1>4. ASSUME NEW m \in Links
      PROVE  /\ link'[m].phase # "over" \/ link'[m].answer # None => link'[m].forward \in Forwards
             /\ link'[m].phase = "fanout" \/ link'[m].answer \in Accepting =>
                  copies'[link'[m].forward] > 0
  <2>1. CASE m = n
    BY <1>2, <2>1
  <2>2. CASE m # n
    <3>1. link'[m] = link[m]
      BY <1>2, <2>2
    <3>2. /\ link[m].phase # "over" \/ link[m].answer # None => link[m].forward \in Forwards
          /\ link[m].phase = "fanout" \/ link[m].answer \in Accepting =>
               copies[link[m].forward] > 0
      BY <1>1 DEF Carried, Accepting
    <3>3. link[m].phase = "fanout" \/ link[m].answer \in Accepting =>
            link[m].forward \in Forwards
      BY <3>2, ForwardAssumption DEF Accepting, Verdicts
    <3> QED
      BY <3>1, <3>2, <3>3
  <2> QED
    BY <2>1, <2>2
<1> QED
  BY <1>3, <1>4 DEF Carried, Accepting

\* An attempt ends: its row settles as the peer answered, or stays.
LEMMA AttemptEnds ==
    ASSUME FInv, NEW f \in Forwards, attempt[f] # None,
           attempt' = [attempt EXCEPT ![f] = None],
           link' = [link EXCEPT ![attempt[f]] = HungUp(attempt[f])],
           copies' = copies, answered' = answered,
           \A g \in Forwards : outbox'[g] \in Accepting =>
             outbox[g] \in Accepting \/ (g = f /\ link[attempt[f]].answer \in Accepting)
    PROVE  Carried'
<1> DEFINE n == attempt[f]
<1>1. ForwardTypeOK /\ Carried
  BY DEF FInv
<1>2. n \in Links /\ link[n].forward = f
  BY <1>1 DEF ForwardTypeOK, Carried
<1>3. /\ HungUp(n) \in Link /\ HungUp(n).answer = None /\ HungUp(n).phase = link[n].phase
      /\ link[n].phase # "over" => HungUp(n).forward = f
  BY <1>1, <1>2, HungUpLink
<1>4. link[n].phase = "fanout" \/ link[n].answer \in Accepting => copies[f] > 0
  BY <1>1, <1>2 DEF Carried, Accepting
<1>5. \A g \in Forwards : attempt'[g] # None =>
        attempt'[g] = attempt[g] /\ attempt[g] # n
  BY <1>1, <1>2 DEF ForwardTypeOK, Carried
<1>6. \A g \in Forwards : g \in answered' \/ outbox'[g] \in Accepting => copies'[g] > 0
  BY <1>1, <1>4 DEF Carried, Accepting
<1>7. None \notin Accepting
  BY ForwardAssumption DEF Accepting, Verdicts
<1>8. HungUp(n).phase = "fanout" \/ HungUp(n).answer \in Accepting =>
        copies'[HungUp(n).forward] > 0
  BY <1>3, <1>4, <1>7
<1>9. HungUp(n).phase # "over" \/ HungUp(n).answer # None => HungUp(n).forward \in Forwards
  BY <1>3
<1>10. \A g \in Forwards : copies[g] > 0 => copies'[g] > 0
  OBVIOUS
<1>11. \A g \in Forwards : attempt'[g] # None =>
         \/ attempt'[g] = n /\ HungUp(n).forward = g
         \/ attempt'[g] = attempt[g] /\ attempt[g] # n
  BY <1>5
<1>12. n \in Links /\ HungUp(n) \in Link /\ link' = [link EXCEPT ![n] = HungUp(n)]
  BY <1>2, <1>3
<1> HIDE DEF n
<1> QED
  BY <1>6, <1>8, <1>9, <1>10, <1>11, <1>12, OneLink, Zenon

\* An attempt starts on a link of its own.
LEMMA AttemptDials ==
    ASSUME FInv, NEW f \in Forwards, Dial(f), outbox' = outbox,
           copies' = copies, answered' = answered
    PROVE  Carried'
<1>1. ForwardTypeOK /\ Carried
  BY DEF FInv
<1>2. CASE UNCHANGED <<link, attempt>>
  BY <1>2, SameLinks
<1>3. ASSUME NEW n \in Links, link[n] = Unused,
             link' = [link EXCEPT ![n] = Dialled(f)], attempt' = [attempt EXCEPT ![f] = n]
      PROVE  Carried'
  <2>1. /\ Dialled(f) \in Link /\ Dialled(f).forward = f
        /\ Dialled(f).phase = "sent" /\ Dialled(f).answer = None
    BY FreshLinks DEF Dialled
  <2>2. \A g \in Forwards : attempt[g] # n
    BY <1>1, <1>3, ForwardAssumption DEF Carried, Unused
  <2>3. \A g \in Forwards : attempt'[g] # None =>
          \/ attempt'[g] = n /\ Dialled(f).forward = g
          \/ attempt'[g] = attempt[g] /\ attempt[g] # n
    BY <1>1, <1>3, <2>1, <2>2 DEF ForwardTypeOK
  <2>4. None \notin Accepting
    BY ForwardAssumption DEF Accepting, Verdicts
  <2>5. \A g \in Forwards : g \in answered' \/ outbox'[g] \in Accepting => copies'[g] > 0
    BY <1>1 DEF Carried, Accepting
  <2> QED
    BY <1>3, <2>1, <2>3, <2>4, <2>5, OneLink
<1> QED
  BY <1>2, <1>3 DEF Dial

\* Attempts accept only what the peer answered.
LEMMA AttemptsCarry ==
    ASSUME FInv, NEW f \in Forwards,
           SendChat(f) \/ FirstAttempt(f) \/ AnswerArrives(f) \/ GiveUp(f) \/ Elapse(f)
    PROVE  Carried'
<1>1. ForwardTypeOK
  BY DEF FInv
<1>2. CASE SendChat(f)
  <2>1. \A g \in Forwards : outbox'[g] \in Accepting => outbox[g] \in Accepting
    BY <1>1, <1>2 DEF SendChat, ForwardTypeOK, Accepting
  <2> QED
    BY <1>2, <2>1, SameLinks DEF SendChat, peerVars
<1>3. CASE FirstAttempt(f)
  <2>1. CASE Dial(f)
    BY <1>3, <2>1, AttemptDials DEF FirstAttempt, outboxVars, peerVars
  <2>2. CASE UNCHANGED <<attempt, link>>
    BY <1>3, <2>2, SameLinks DEF FirstAttempt, outboxVars, peerVars
  <2> QED
    BY <1>3, <2>1, <2>2 DEF FirstAttempt
<1>4. CASE AnswerArrives(f)
  <2>1. \A g \in Forwards : outbox'[g] \in Accepting =>
          outbox[g] \in Accepting \/ (g = f /\ link[attempt[f]].answer \in Accepting)
    BY <1>1, <1>4 DEF AnswerArrives, Settled, ForwardTypeOK
  <2> QED
    BY <1>4, <2>1, AttemptEnds DEF AnswerArrives, peerVars
<1>5. CASE GiveUp(f)
  BY <1>5, AttemptEnds DEF GiveUp, outboxVars, peerVars
<1>6. CASE Elapse(f)
  BY <1>6, SameLinks DEF Elapse, taskVars, peerVars
<1> QED
  BY <1>2, <1>3, <1>4, <1>5, <1>6

\* The sweep accepts nothing itself.
LEMMA SweepsCarry ==
    ASSUME FInv, SweepSteps
    PROVE  Carried'
<1>1. ForwardTypeOK
  BY DEF FInv
<1>2. CASE SweepBegins
  <2>1. \A g \in Forwards : outbox'[g] \in Accepting => outbox[g] \in Accepting
    BY <1>1, <1>2 DEF SweepBegins, Accepting
  <2> QED
    BY <1>2, <2>1, SameLinks DEF SweepBegins, peerVars
<1>3. CASE SweepAttempts
  <2>1. PICK f \in Forwards : Dial(f) \/ UNCHANGED <<attempt, link>>
    BY <1>1, <1>3 DEF SweepAttempts, ForwardTypeOK
  <2> QED
    BY <1>3, <2>1, AttemptDials, SameLinks DEF SweepAttempts, outboxVars, peerVars
<1>4. CASE SweepReports
  BY <1>4, SameLinks DEF SweepReports, outboxVars, peerVars
<1> QED
  BY <1>2, <1>3, <1>4 DEF SweepSteps

\* Receipts touch no link.
LEMMA ReceiptsCarry ==
    ASSUME FInv, ReceiptSteps
    PROVE  Carried'
BY SameLinks DEF ReceiptSteps, Notify, Notified, SeatRegisters, SeatLeaves, outboxVars,
  taskVars, peerVars

\* A step of the peer on a link keeps the forward there, or frees the link when
\* nobody waits on it.
LEMMA PeerLink ==
    ASSUME FInv, NEW n \in Links, NEW l \in Link, AtPeer(n, l), link[n].phase # "over",
           \/ l.forward = link[n].forward
           \/ ~Awaited(n) /\ l.answer = None /\ l.phase = "over",
           l.phase = "fanout" \/ l.answer \in Accepting => copies'[l.forward] > 0,
           \A g \in Forwards : copies[g] > 0 => copies'[g] > 0,
           \A g \in answered' : g \in answered \/ copies'[g] > 0
    PROVE  Carried'
<1>1. ForwardTypeOK /\ Carried
  BY DEF FInv
<1>2. link' = [link EXCEPT ![n] = l] /\ attempt' = attempt /\ outbox' = outbox
  BY DEF AtPeer, outboxVars, taskVars
<1>3. l.phase # "over" \/ l.answer # None => l.forward \in Forwards
  BY <1>1 DEF Carried
<1>4. ASSUME NEW g \in Forwards, attempt'[g] # None
      PROVE  \/ attempt'[g] = n /\ l.forward = g
             \/ attempt'[g] = attempt[g] /\ attempt[g] # n
  <2>1. CASE attempt[g] = n
    <3>1. Awaited(n) /\ link[n].forward = g
      BY <1>1, <1>2, <1>4, <2>1 DEF Awaited, Carried
    <3> QED
      BY <1>2, <2>1, <3>1
  <2> QED
    BY <1>2, <2>1
<1>5. \A g \in Forwards : g \in answered' \/ outbox'[g] \in Accepting => copies'[g] > 0
  BY <1>1, <1>2 DEF Carried, Accepting
<1> QED
  BY <1>2, <1>3, <1>4, <1>5, OneLink

\* The peer accepts a forward once it is journalled, and remembers it after.
LEMMA PeerCarries ==
    ASSUME FInv, NEW n \in Links,
           \/ Lose(n) \/ Arrive(n) \/ Repeat(n) \/ Refuse(n) \/ Route(n)
           \/ Fanned(n) \/ WarningFails(n) \/ Unregister(n)
    PROVE  Carried'
<1>1. ForwardTypeOK /\ Carried
  BY DEF FInv
<1>2. /\ link[n].phase # "over" => link[n].forward \in Forwards
      /\ link[n].phase = "fanout" \/ link[n].answer \in Accepting =>
           copies[link[n].forward] > 0
  BY <1>1 DEF Carried, Accepting
<1>3. None \notin Accepting /\ "refused" \notin Accepting
  BY ForwardAssumption DEF Accepting, Verdicts
<1>4. \A x \in Answers \cup {None} :
        /\ Answering(n, x) \in Link /\ Answering(n, x).phase = "answered"
        /\ Answering(n, x).forward = link[n].forward /\ Answering(n, x).answer \in {x, None}
  BY <1>1, AnsweringLink
<1>5. \A p \in Phases : LET l == [link[n] EXCEPT !.phase = p] IN
        /\ l \in Link /\ l.forward = link[n].forward /\ l.phase = p
        /\ l.answer = link[n].answer
  BY <1>1, BoundLink
<1>6. /\ Ended(n) \in Link /\ Ended(n).phase = "over"
      /\ \/ Ended(n).forward = link[n].forward /\ Ended(n).answer = link[n].answer
         \/ ~Awaited(n) /\ Ended(n).answer = None
  BY <1>1, EndedLink
<1>7. ASSUME AtPeer(n, Ended(n)), link[n].phase # "over", copies' = copies, answered' = answered
      PROVE  Carried'
  BY <1>2, <1>3, <1>6, <1>7, PeerLink
<1>8. ASSUME NEW x \in {"refused", None}, AtPeer(n, Answering(n, x)), link[n].phase # "over",
             copies' = copies, answered' = answered
      PROVE  Carried'
  <2>1. x \in Answers \cup {None}
    BY DEF Answers
  <2>2. /\ Answering(n, x) \in Link /\ Answering(n, x).phase = "answered"
        /\ Answering(n, x).forward = link[n].forward /\ Answering(n, x).answer \notin Accepting
    BY <1>3, <1>4, <2>1
  <2> QED
    BY <1>8, <2>2, PeerLink
<1>9. ASSUME NEW x \in Accepting, AtPeer(n, Answering(n, x)), link[n].phase # "over",
             copies' = copies, copies[link[n].forward] > 0,
             \A g \in answered' : g \in answered \/ g = link[n].forward
      PROVE  Carried'
  <2>1. x \in Answers \cup {None}
    BY DEF Answers, Accepting
  <2>2. /\ Answering(n, x) \in Link /\ Answering(n, x).phase = "answered"
        /\ Answering(n, x).forward = link[n].forward
    BY <1>4, <2>1
  <2> QED
    BY <1>9, <2>2, PeerLink
<1>10. CASE Lose(n)
  BY <1>7, <1>10 DEF Lose
<1>11. CASE Arrive(n)
  <2>1. CASE named = None
    <3> DEFINE l == [link[n] EXCEPT !.phase = "bound"]
    <3>1. /\ l \in Link /\ l.forward = link[n].forward
          /\ l.phase = "bound" /\ l.answer = link[n].answer
      BY <1>5 DEF Phases
    <3>2. AtPeer(n, l) /\ link[n].phase = "sent" /\ copies' = copies /\ answered' = answered
      BY <1>11, <2>1 DEF Arrive
    <3> HIDE DEF l
    <3> QED
      BY <1>2, <3>1, <3>2, PeerLink
  <2>2. CASE named # None
    BY <1>7, <1>11, <2>2 DEF Arrive
  <2> QED
    BY <2>1, <2>2
<1>12. CASE Repeat(n)
  <2>1. copies[link[n].forward] > 0
    BY <1>1, <1>2, <1>12 DEF Repeat, Carried
  <2> QED
    BY <1>9, <1>12, <2>1 DEF Repeat, Accepting
<1>13. CASE Refuse(n)
  BY <1>8, <1>13 DEF Refuse
<1>14. CASE Route(n)
  <2> DEFINE l == [link[n] EXCEPT !.phase = "fanout"]
  <2>1. l \in Link /\ l.forward = link[n].forward /\ l.phase = "fanout" /\ l.answer = link[n].answer
    BY <1>5 DEF Phases
  <2>2. AtPeer(n, l) /\ link[n].phase = "bound" /\ answered' = answered
        /\ copies' = [copies EXCEPT ![link[n].forward] = @ + 1]
    BY <1>14 DEF Route
  <2>3. link[n].forward \in Forwards
    BY <1>2, <2>2
  <2>4. copies'[link[n].forward] > 0 /\ \A g \in Forwards : copies[g] > 0 => copies'[g] > 0
    BY <1>1, <2>2, <2>3 DEF ForwardTypeOK
  <2> HIDE DEF l
  <2> QED
    BY <2>1, <2>2, <2>4, PeerLink
<1>15. CASE Fanned(n)
  BY <1>2, <1>9, <1>15 DEF Fanned, Accepting
<1>16. CASE WarningFails(n)
  BY <1>8, <1>16 DEF WarningFails
<1>17. CASE Unregister(n)
  BY <1>7, <1>17 DEF Unregister
<1> QED
  BY <1>10, <1>11, <1>12, <1>13, <1>14, <1>15, <1>16, <1>17

\* A crash forgets links, or ends them, and invents no answer.
LEMMA HubsCarry ==
    ASSUME FInv, OriginCrash \/ OriginRestart \/ PeerCrash \/ PeerRestart
    PROVE  Carried'
<1>1. ForwardTypeOK /\ Carried
  BY DEF FInv
<1>2. None \notin Accepting
  BY ForwardAssumption DEF Accepting, Verdicts
<1>3. CASE OriginCrash
  <2>1. /\ \A f \in Forwards : attempt'[f] = None
        /\ \A n \in Links : link'[n] = HungUp(n) \/ link'[n] = link[n]
        /\ UNCHANGED <<outbox, copies, answered>>
    BY <1>3 DEF OriginCrash, outboxVars, peerVars
  <2>2. ASSUME NEW n \in Links
        PROVE  /\ link'[n].phase # "over" \/ link'[n].answer # None =>
                    link'[n].forward \in Forwards
               /\ link'[n].phase = "fanout" \/ link'[n].answer \in Accepting =>
                    copies[link'[n].forward] > 0
    <3>1. /\ HungUp(n).answer = None /\ HungUp(n).phase = link[n].phase
          /\ link[n].phase # "over" => HungUp(n).forward = link[n].forward
      BY <1>1, HungUpLink
    <3>2. /\ link[n].phase # "over" \/ link[n].answer # None => link[n].forward \in Forwards
          /\ link[n].phase = "fanout" \/ link[n].answer \in Accepting =>
               copies[link[n].forward] > 0
      BY <1>1 DEF Carried, Accepting
    <3> QED
      BY <1>2, <2>1, <3>1, <3>2
  <2> QED
    BY <1>1, <2>1, <2>2 DEF Carried, Accepting
<1>4. CASE PeerCrash
  <2>1. /\ \A n \in Links : link'[n] = Ended(n)
        /\ UNCHANGED <<attempt, outbox, copies, answered>>
    BY <1>4 DEF PeerCrash, outboxVars, taskVars
  <2>2. ASSUME NEW f \in Forwards, attempt[f] # None PROVE link'[attempt[f]].forward = f
    <3>1. attempt[f] \in Links /\ Awaited(attempt[f]) /\ link[attempt[f]].forward = f
      BY <1>1, <2>2 DEF ForwardTypeOK, Carried, Awaited
    <3> QED
      BY <1>1, <2>1, <3>1, EndedLink
  <2>3. ASSUME NEW n \in Links
        PROVE  /\ link'[n].phase # "over" \/ link'[n].answer # None =>
                    link'[n].forward \in Forwards
               /\ link'[n].phase = "fanout" \/ link'[n].answer \in Accepting =>
                    copies[link'[n].forward] > 0
    <3>1. /\ link'[n].phase = "over"
          /\ \/ link'[n].forward = link[n].forward /\ link'[n].answer = link[n].answer
             \/ link'[n].answer = None
      BY <1>1, <2>1, EndedLink
    <3>2. /\ link[n].answer # None => link[n].forward \in Forwards
          /\ link[n].answer \in Accepting => copies[link[n].forward] > 0
      BY <1>1 DEF Carried, Accepting
    <3> QED
      BY <1>2, <3>1, <3>2
  <2> QED
    BY <1>1, <2>1, <2>2, <2>3 DEF Carried, Accepting
<1>5. CASE OriginRestart \/ PeerRestart
  BY <1>5, SameLinks DEF OriginRestart, PeerRestart, outboxVars, taskVars, peerVars
<1> QED
  BY <1>3, <1>4, <1>5

\* Every step preserves the invariant.
LEMMA FStep == ASSUME FInv, [ForwardNext]_forwardVars PROVE FInv'
<1>1. ForwardTypeOK'
  BY TypeStep
<1>2. Reports'
  <2>1. ASSUME NEW n \in Links,
               \/ Lose(n) \/ Arrive(n) \/ Repeat(n) \/ Refuse(n) \/ Route(n)
               \/ Fanned(n) \/ WarningFails(n) \/ Unregister(n)
        PROVE  \E l : AtPeer(n, l)
    BY <2>1 DEF Lose, Arrive, Repeat, Refuse, Route, Fanned, WarningFails, Unregister
  <2> QED
    BY <2>1, AttemptsReport, SweepsReport, ReceiptsReport, OthersReport
    DEF ForwardNext, AttemptSteps, PeerSteps
<1>3. Carried'
  <2>1. CASE UNCHANGED forwardVars
    BY <2>1, SameLinks DEF forwardVars, outboxVars, taskVars, peerVars
  <2> QED
    BY <2>1, AttemptsCarry, SweepsCarry, ReceiptsCarry, PeerCarries, HubsCarry
    DEF ForwardNext, AttemptSteps, PeerSteps
<1> QED
  BY <1>1, <1>2, <1>3 DEF FInv

\* Nothing was forwarded yet.
LEMMA FInitially == ASSUME ForwardInit PROVE FInv
<1>1. ForwardTypeOK
  BY DEF ForwardInit, ForwardTypeOK, Unused, Resting, Link, Phases
<1>2. Reports
  BY DEF ForwardInit, Reports, Resting
<1>3. Carried
  BY ForwardAssumption DEF ForwardInit, Carried, Unused, Verdicts
<1> QED
  BY <1>1, <1>2, <1>3 DEF FInv

\* The invariant the theorems below read their properties from.
THEOREM FInvHolds == ForwardSpec => []FInv
<1>1. ForwardInit => FInv
  BY FInitially
<1>2. FInv /\ [ForwardNext]_forwardVars => FInv'
  BY FStep
<1> QED
  BY <1>1, <1>2, PTL DEF ForwardSpec

\* Both hubs' records keep the shape the code gives them.
THEOREM ForwardsTyped == ForwardSpec => []ForwardTypeOK
<1>1. FInv => ForwardTypeOK
  BY DEF FInv
<1> QED
  BY <1>1, FInvHolds, PTL

\* Whatever races, crashes and reconnects: what a sender is told is what became
\* of its forward, and an accepted forward was journalled by the peer.
THEOREM SendersToldTheTruth == ForwardSpec => []ToldTheTruth
<1>1. FInv => ToldTheTruth
  BY DEF FInv, Reports, Carried, ToldTheTruth
<1> QED
  BY <1>1, FInvHolds, PTL

-----------------------------------------------------------------------------
(* One copy.                                                                *)

\* Phases in which the peer has the link registered.
Served == {"bound", "fanout", "answered"}

\* Links that are served stay as they are, and the peer's records do.
LEMMA CopiesStand ==
    ASSUME CInv, FInv',
           UNCHANGED <<named, answered, copies, peerCrashes>>,
           \A n \in Links : \/ /\ link'[n].phase = link[n].phase
                               /\ link[n].phase # "over" => link'[n].forward = link[n].forward
                            \/ link[n].phase \notin Served /\ link'[n].phase \notin Served
    PROVE  CInv'
<1>1. Named'
  BY DEF CInv, Named, Served
<1>2. \A f \in Forwards : FanningOut(f) => FanningOut(f)'
  BY DEF FanningOut, Served
<1>3. OneCopy'
  BY DEF CInv, OneCopy
<1> QED
  BY <1>1, <1>2, <1>3 DEF CInv

\* Only the link registered under the origin's id is served, and a peer that
\* writes no warning on it remembers what it routed before the link goes.
LEMMA PeerCopies ==
    ASSUME ~WarnsStale, CInv, FInv', NEW n \in Links,
           \/ Lose(n) \/ Arrive(n) \/ Repeat(n) \/ Refuse(n) \/ Route(n)
           \/ Fanned(n) \/ WarningFails(n) \/ Unregister(n)
    PROVE  CInv'
<1> DEFINE f == link[n].forward
<1>1. /\ ForwardTypeOK /\ Carried /\ Named /\ OneCopy
      /\ \A g \in Forwards : g \in answered \/ FanningOut(g) \/ copies[g] <= peerCrashes
  BY DEF CInv, FInv
<1>2. \A m \in Links : m # n => link'[m] = link[m]
  BY <1>1 DEF Lose, Arrive, Repeat, Refuse, Route, Fanned, WarningFails, Unregister,
    AtPeer, ForwardTypeOK
<1>3. peerCrashes' = peerCrashes /\ peerCrashes \in Nat
  BY <1>1 DEF Lose, Arrive, Repeat, Refuse, Route, Fanned, WarningFails, Unregister,
    AtPeer, ForwardTypeOK
<1>4. n # None /\ \A m \in Links : link[m].phase \in Served <=> named = m
  BY <1>1, ForwardAssumption DEF Named, Served
<1>5. Ended(n).phase = "over"
  BY <1>1, EndedLink
<1>6. \A x \in Answers \cup {None} : Answering(n, x).phase = "answered"
  BY <1>1, AnsweringLink
<1>7. \A m \in Links : named = m => m = n \/ link[n].phase \notin Served
  BY <1>4
<1>8. CASE Lose(n)
  <2>1. link[n].phase = "sent" /\ link'[n] = Ended(n)
    BY <1>1, <1>8 DEF Lose, AtPeer, ForwardTypeOK
  <2> QED
    BY <1>2, <1>3, <1>5, <1>8, <2>1, CopiesStand DEF Lose, Served
<1>9. CASE Arrive(n)
  <2>1. CASE named = None
    <3>1. /\ link[n].phase = "sent" /\ link'[n].phase = "bound" /\ named' = n
          /\ UNCHANGED <<answered, copies>>
      BY <1>1, <1>9, <2>1 DEF Arrive, AtPeer, ForwardTypeOK, Link
    <3>2. Named'
      BY <1>2, <1>4, <2>1, <3>1, ForwardAssumption DEF Named, Served
    <3>3. \A g \in Forwards : FanningOut(g) => FanningOut(g)'
      BY <1>2, <3>1 DEF FanningOut
    <3> QED
      BY <1>1, <1>3, <3>1, <3>2, <3>3 DEF CInv, OneCopy
  <2>2. CASE named # None
    <3>1. link[n].phase = "sent" /\ link'[n] = Ended(n)
      BY <1>1, <1>9, <2>2 DEF Arrive, AtPeer, ForwardTypeOK
    <3> QED
      BY <1>2, <1>3, <1>5, <1>9, <2>2, <3>1, CopiesStand DEF Arrive, Served
  <2> QED
    BY <2>1, <2>2
<1>10. CASE Repeat(n) \/ Refuse(n)
  <2>1. /\ link[n].phase = "bound" /\ link'[n].phase = "answered"
        /\ UNCHANGED <<named, answered, copies>>
    BY <1>1, <1>6, <1>10 DEF Repeat, Refuse, AtPeer, ForwardTypeOK, Answers
  <2>2. Named'
    BY <1>2, <1>4, <2>1 DEF Named, Served
  <2>3. \A g \in Forwards : FanningOut(g) => FanningOut(g)'
    BY <1>2, <2>1 DEF FanningOut
  <2> QED
    BY <1>1, <1>3, <2>1, <2>2, <2>3 DEF CInv, OneCopy
<1>11. CASE Route(n)
  <2>1. /\ link[n].phase = "bound" /\ f \in Forwards /\ f \notin answered
        /\ link'[n].phase = "fanout" /\ link'[n].forward = f
        /\ copies' = [copies EXCEPT ![f] = @ + 1] /\ UNCHANGED <<named, answered>>
    BY <1>1, <1>11 DEF Route, AtPeer, ForwardTypeOK, Link, Carried
  <2>2. Named'
    BY <1>2, <1>4, <2>1 DEF Named, Served
  <2>3. \A g \in Forwards : ~FanningOut(g)
    BY <1>4, <2>1 DEF FanningOut, Served
  <2>4. copies[f] <= peerCrashes
    BY <1>1, <2>1, <2>3
  <2>5. OneCopy'
    BY <1>1, <1>3, <2>1, <2>4 DEF OneCopy, ForwardTypeOK
  <2>6. FanningOut(f)'
    BY <2>1 DEF FanningOut
  <2>7. \A g \in Forwards : g \in answered' \/ FanningOut(g)' \/ copies'[g] <= peerCrashes'
    BY <1>1, <1>3, <2>1, <2>3, <2>6 DEF ForwardTypeOK
  <2> QED
    BY <2>2, <2>5, <2>7 DEF CInv
<1>12. CASE Fanned(n)
  <2>1. /\ link[n].phase = "fanout" /\ link'[n].phase = "answered"
        /\ answered' = answered \cup {f} /\ UNCHANGED <<named, copies>>
    BY <1>1, <1>6, <1>12 DEF Fanned, AtPeer, ForwardTypeOK, Answers
  <2>2. Named'
    BY <1>2, <1>4, <2>1 DEF Named, Served
  <2>3. \A g \in Forwards : FanningOut(g) => FanningOut(g)' \/ g = f
    BY <1>2 DEF FanningOut
  <2> QED
    BY <1>1, <1>3, <2>1, <2>2, <2>3 DEF CInv, OneCopy
<1>13. CASE WarningFails(n)
  BY <1>13 DEF WarningFails
<1>14. CASE Unregister(n)
  <2>1. /\ link[n].phase = "answered" /\ link'[n].phase = "over"
        /\ named' = None /\ UNCHANGED <<answered, copies>>
    BY <1>1, <1>5, <1>14 DEF Unregister, AtPeer, ForwardTypeOK
  <2>2. Named'
    BY <1>2, <1>4, <2>1, ForwardAssumption DEF Named, Served
  <2>3. \A g \in Forwards : FanningOut(g) => FanningOut(g)'
    BY <1>2, <2>1 DEF FanningOut
  <2> QED
    BY <1>1, <1>3, <2>1, <2>2, <2>3 DEF CInv, OneCopy
<1> QED
  BY <1>8, <1>9, <1>10, <1>11, <1>12, <1>13, <1>14

\* A crash of the peer may leave one more copy behind.
LEMMA CrashCopies ==
    ASSUME CInv, FInv', PeerCrash
    PROVE  CInv'
<1>1. ForwardTypeOK /\ OneCopy
  BY DEF CInv, FInv
<1>2. /\ peerCrashes' = peerCrashes + 1 /\ named' = None /\ copies' = copies
      /\ \A n \in Links : link'[n] = Ended(n)
  BY DEF PeerCrash
<1>3. Named'
  BY <1>1, <1>2, EndedLink, ForwardAssumption DEF Named
<1>4. \A f \in Forwards : copies'[f] <= peerCrashes'
  BY <1>1, <1>2 DEF OneCopy, ForwardTypeOK
<1>5. OneCopy'
  BY <1>1, <1>2 DEF OneCopy, ForwardTypeOK
<1> QED
  BY <1>3, <1>4, <1>5 DEF CInv

\* What the origin does leaves a link the peer serves as the peer sees it.
LEMMA OriginCopies ==
    ASSUME CInv, FInv',
           \/ AttemptSteps \/ SweepSteps \/ ReceiptSteps
           \/ OriginCrash \/ OriginRestart \/ PeerRestart \/ UNCHANGED forwardVars
    PROVE  CInv'
<1>1. ForwardTypeOK
  BY DEF CInv, FInv
<1>2. UNCHANGED <<named, answered, copies, peerCrashes>>
  BY DEF AttemptSteps, SendChat, FirstAttempt, AnswerArrives, GiveUp, Elapse, SweepSteps,
    SweepBegins, SweepAttempts, SweepReports, ReceiptSteps, Notify, Notified, SeatRegisters,
    SeatLeaves, OriginCrash, OriginRestart, PeerRestart, forwardVars, peerVars
<1>3. ASSUME NEW n \in Links
      PROVE  \/ link'[n] = link[n] \/ link'[n] = HungUp(n)
             \/ link[n] = Unused /\ \E f \in Forwards : link'[n] = Dialled(f)
  <2>1. ASSUME NEW f \in Forwards, Dial(f) \/ UNCHANGED <<attempt, link>>
        PROVE  link'[n] = link[n] \/ (link[n] = Unused /\ link'[n] = Dialled(f))
    BY <1>1, <2>1 DEF Dial, ForwardTypeOK
  <2>2. CASE AttemptSteps
    <3>1. PICK f \in Forwards :
            SendChat(f) \/ FirstAttempt(f) \/ AnswerArrives(f) \/ GiveUp(f) \/ Elapse(f)
      BY <2>2 DEF AttemptSteps
    <3>2. CASE FirstAttempt(f)
      BY <2>1, <3>2 DEF FirstAttempt
    <3>3. CASE AnswerArrives(f) \/ GiveUp(f)
      BY <1>1, <3>3 DEF AnswerArrives, GiveUp, ForwardTypeOK
    <3> QED
      BY <3>1, <3>2, <3>3 DEF SendChat, Elapse
  <2>3. CASE SweepAttempts
    <3>1. PICK f \in Forwards : Dial(f) \/ UNCHANGED <<attempt, link>>
      BY <1>1, <2>3 DEF SweepAttempts, ForwardTypeOK
    <3> QED
      BY <2>1, <3>1
  <2>4. CASE OriginCrash
    BY <2>4 DEF OriginCrash
  <2> QED
    BY <2>2, <2>3, <2>4 DEF SweepSteps, SweepBegins, SweepReports, ReceiptSteps, Notify,
      Notified, SeatRegisters, SeatLeaves, OriginRestart, PeerRestart, forwardVars
<1>4. \A n \in Links : /\ HungUp(n).phase = link[n].phase
                       /\ link[n].phase # "over" => HungUp(n).forward = link[n].forward
  BY <1>1, HungUpLink
<1>5. Unused.phase = "over" /\ \A f \in Forwards : Dialled(f).phase = "sent"
  BY DEF Unused, Dialled
<1>6. \A n \in Links : \/ /\ link'[n].phase = link[n].phase
                          /\ link[n].phase # "over" => link'[n].forward = link[n].forward
                       \/ link[n].phase \notin Served /\ link'[n].phase \notin Served
  BY <1>3, <1>4, <1>5 DEF Served
<1> QED
  BY <1>2, <1>6, CopiesStand

\* A peer that writes no warning on the forwarding link journals a forward once,
\* and once more only for a crash of its own.
THEOREM OneCopyUnwarned ==
    ASSUME ~WarnsStale
    PROVE  ForwardSpec => []OneCopy
<1>1. ForwardInit => CInv
  <2> SUFFICES ASSUME ForwardInit PROVE CInv
    OBVIOUS
  <2>1. FInv
    BY FInitially
  <2>2. Named
    BY ForwardAssumption DEF ForwardInit, Named, Unused
  <2>3. OneCopy /\ \A f \in Forwards : copies[f] <= peerCrashes
    BY DEF ForwardInit, OneCopy
  <2> QED
    BY <2>1, <2>2, <2>3 DEF CInv
<1>2. CInv /\ [ForwardNext]_forwardVars => CInv'
  <2> SUFFICES ASSUME CInv, [ForwardNext]_forwardVars PROVE CInv'
    OBVIOUS
  <2>1. FInv'
    BY FStep DEF CInv
  <2> QED
    BY <2>1, PeerCopies, CrashCopies, OriginCopies DEF ForwardNext, PeerSteps
<1>3. CInv => OneCopy
  BY DEF CInv
<1> QED
  BY <1>1, <1>2, <1>3, PTL DEF ForwardSpec

=============================================================================
