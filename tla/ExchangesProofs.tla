-------------------------- MODULE ExchangesProofs ---------------------------
(***************************************************************************)
(* What agents ask of each other: the wait graph (WaitGraph) never closes  *)
(* a cycle of waits that stand, and a session owns the deliveries that are *)
(* open (DeliveryLedger), for any agents, tasks, requests, processes,      *)
(* sweeps and limits.                                                      *)
(***************************************************************************)
EXTENDS WaitGraph, DeliveryLedger, SequenceTheorems, FiniteSetTheorems,
        WellFoundedInduction, TLAPS

-----------------------------------------------------------------------------
(* Waits.  The graph keeps its shape, and the waits that stand never close *)
(* a cycle.                                                                *)

\* What the proof carries: the hub still records every wait that stands, each
\* for a task somebody else holds, and these waits have no knot.  Without the
\* first part a wait could stand that the cycle check cannot see.
WInv ==
    /\ TypeOK
    /\ standing \subseteq waits
    /\ \A w \in standing : holder[w[2]] \notin {Nil, w[1]}
    /\ HoldAndWaitRefused

\* Fewer waits, with the same holders, tie no new knot.
LEMMA FewerWaits ==
    ASSUME HoldAndWaitRefused,
           \A w \in standing' : w \in standing /\ holder'[w[2]] = holder[w[2]]
    PROVE  HoldAndWaitRefused'
<1> SUFFICES ASSUME NEW S \in SUBSET Agents, S # {},
                    \A a \in S : \E b \in S : <<a, b>> \in ResolveWaitEdges(standing)'
             PROVE  FALSE
  BY DEF HoldAndWaitRefused, Knot
<1>1. \A e \in ResolveWaitEdges(standing)' : e \in ResolveWaitEdges(standing)
  BY DEF ResolveWaitEdges
<1>2. \A a \in S : \E b \in S : <<a, b>> \in ResolveWaitEdges(standing)
  BY <1>1
<1> QED
  BY <1>2 DEF HoldAndWaitRefused, Knot

\* A wait the cycle check admits ties no knot: the set of agents reached from
\* the holder is closed and leaves the waiter out, so a knot that meets it
\* would be a knot without the new wait.
LEMMA AdmittedWait ==
    ASSUME NEW a \in Agents, NEW t \in Tasks, WInv, WaitRequest(a, t)
    PROVE  HoldAndWaitRefused'
<1> SUFFICES ASSUME NEW S \in SUBSET Agents, S # {},
                    \A b \in S : \E d \in S : <<b, d>> \in ResolveWaitEdges(standing)'
             PROVE  FALSE
  BY DEF HoldAndWaitRefused, Knot
<1>1. PICK C \in SUBSET Agents : holder[t] \in C /\ Closed(C) /\ a \notin C
  BY DEF WaitRequest, WouldCreateCycle
<1>2. \A b, d : <<b, d>> \in ResolveWaitEdges(standing)' =>
         <<b, d>> \in ResolveWaitEdges(standing) \/ (b = a /\ d = holder[t])
  BY DEF ResolveWaitEdges, WaitRequest
<1>3. \A b, d : <<b, d>> \in ResolveWaitEdges(standing) =>
         <<b, d>> \in ResolveWaitEdges(waits)
  BY DEF ResolveWaitEdges, WInv
<1>4. CASE S \cap C = {}
  <2>1. \A b \in S : \E d \in S : <<b, d>> \in ResolveWaitEdges(standing)
    BY <1>1, <1>2, <1>4
  <2> QED
    BY <2>1 DEF WInv, HoldAndWaitRefused, Knot
<1>5. CASE S \cap C # {}
  <2>1. \A b \in S \cap C : \E d \in S \cap C : <<b, d>> \in ResolveWaitEdges(standing)
    <3> SUFFICES ASSUME NEW b \in S \cap C
                 PROVE  \E d \in S \cap C : <<b, d>> \in ResolveWaitEdges(standing)
      OBVIOUS
    <3>1. PICK d \in S : <<b, d>> \in ResolveWaitEdges(standing)'
      OBVIOUS
    <3>2. <<b, d>> \in ResolveWaitEdges(standing)
      BY <1>1, <1>2, <3>1
    <3>3. d \in C
      BY <1>1, <1>3, <3>2 DEF Closed
    <3> QED
      BY <3>2, <3>3
  <2>2. S \cap C \in SUBSET Agents
    OBVIOUS
  <2> QED
    BY <1>5, <2>1, <2>2 DEF WInv, HoldAndWaitRefused, Knot
<1> QED
  BY <1>4, <1>5

\* Publishing keeps a wait whose task keeps its holder, other than the waiter.
LEMMA PublishedKeeps ==
    ASSUME TypeOK, flight # Nil, NEW w \in waits,
           flight.claims[w[2]] \notin {Nil, w[1]}
    PROVE  w \in Published(flight)
<1>1. flight \in Flights
  BY DEF TypeOK
<1>2. CASE flight.kind = "release"
  BY <1>2 DEF Published, PruneWaits
<1>3. CASE flight.kind = "sweep"
  BY <1>3 DEF Published
<1>4. CASE flight.kind \notin {"release", "sweep"}
  <2>1. w \in ClearSatisfiedWait(flight.claims[flight.task], flight.task)
    BY DEF ClearSatisfiedWait
  <2> QED
    BY <1>4, <2>1 DEF Published
<1> QED
  BY <1>2, <1>3, <1>4

\* Whatever the holders become, the waits that still stand did so before.
LEMMA MovesKeep ==
    ASSUME WInv, NEW h \in Holders, NEW ws \in SUBSET (Agents \X Tasks), Moves(h, ws),
           \A w \in waits : h[w[2]] \notin {Nil, w[1]} => w \in ws,
           flight' \in Flights \cup {Nil}
    PROVE  WInv'
<1>1. TypeOK'
  BY DEF WInv, TypeOK, Moves
<1>2. \A w \in standing' : w \in standing /\ holder'[w[2]] = holder[w[2]]
  BY DEF Moves
<1>3. HoldAndWaitRefused'
  BY <1>2, FewerWaits DEF WInv
<1>4. \A w \in standing' : holder'[w[2]] \notin {Nil, w[1]}
  BY <1>2 DEF WInv
<1>5. standing' \subseteq waits'
  BY <1>2, <1>4 DEF WInv, Moves
<1> QED
  BY <1>1, <1>3, <1>4, <1>5 DEF WInv

\* A mutation that starts changes nothing but the flight.
LEMMA StartKeeps ==
    ASSUME WInv, NEW kind \in {"claim", "handoff", "release", "sweep"},
           NEW a \in Agents, NEW t \in Tasks, NEW h \in Holders, Start(kind, a, t, h)
    PROVE  WInv'
<1>1. flight' \in Flights
  BY DEF Start, Flights
<1>2. holder' = holder /\ waits' = waits /\ standing' = standing
  BY DEF Start
<1>3. TypeOK'
  BY <1>1, <1>2 DEF WInv, TypeOK
<1>4. HoldAndWaitRefused'
  BY <1>2, FewerWaits DEF WInv
<1> QED
  BY <1>2, <1>3, <1>4 DEF WInv

LEMMA StepKeeps == ASSUME WInv, [Next]_vars PROVE WInv'
<1>1. \A S : Without(S) \in Holders
  BY DEF Without, Holders, WInv, TypeOK
<1>2. CASE UNCHANGED vars
  <2>1. HoldAndWaitRefused'
    BY <1>2, FewerWaits DEF vars, WInv
  <2> QED
    BY <1>2, <2>1 DEF vars, WInv, TypeOK
<1>3. CASE Publish
  <2>1. flight \in Flights /\ flight.claims \in Holders
    BY <1>3 DEF Publish, WInv, TypeOK, Flights
  <2>2. Published(flight) \in SUBSET (Agents \X Tasks)
    BY <2>1 DEF Published, PruneWaits, ClearSatisfiedWait, WInv, TypeOK
  <2>3. \A w \in waits : flight.claims[w[2]] \notin {Nil, w[1]} => w \in Published(flight)
    BY <1>3, PublishedKeeps DEF Publish, WInv
  <2> QED
    BY <1>3, <2>1, <2>2, <2>3, MovesKeep DEF Publish
<1>4. CASE Fail
  <2>1. HoldAndWaitRefused'
    BY <1>4, FewerWaits DEF Fail, WInv
  <2> QED
    BY <1>4, <2>1 DEF Fail, WInv, TypeOK
<1>5. ASSUME NEW S \in SUBSET Tasks, Snapshot(S) PROVE WInv'
  BY <1>1, <1>5, MovesKeep DEF Snapshot, WInv, TypeOK
<1>6. ASSUME NEW S \in SUBSET Tasks, Heartbeat(S) PROVE WInv'
  <2>1. PruneWaits(Without(S)) \in SUBSET (Agents \X Tasks)
    BY DEF PruneWaits, WInv, TypeOK
  <2>2. \A w \in waits : Without(S)[w[2]] # Nil => w \in PruneWaits(Without(S))
    BY DEF PruneWaits
  <2> QED
    BY <1>1, <1>6, <2>1, <2>2, MovesKeep DEF Heartbeat, WInv, TypeOK
<1>7. ASSUME NEW a \in Agents, Disconnect(a) PROVE WInv'
  <2>1. \A w \in standing' : w \in standing /\ holder'[w[2]] = holder[w[2]]
    BY <1>7 DEF Disconnect
  <2>2. HoldAndWaitRefused'
    BY <2>1, FewerWaits DEF WInv
  <2>3. standing' \subseteq waits'
    BY <1>7 DEF Disconnect, WInv
  <2>4. TypeOK'
    BY <1>7 DEF Disconnect, WInv, TypeOK
  <2> QED
    BY <2>1, <2>2, <2>3, <2>4 DEF WInv
<1>8. ASSUME NEW a \in Agents, NEW t \in Tasks, WaitRequest(a, t) PROVE WInv'
  <2>1. HoldAndWaitRefused'
    BY <1>8, AdmittedWait
  <2>2. TypeOK'
    BY <1>8 DEF WaitRequest, WInv, TypeOK
  <2>3. standing' \subseteq waits'
    BY <1>8 DEF WaitRequest, WInv
  <2>4. \A w \in standing' : holder'[w[2]] \notin {Nil, w[1]}
    BY <1>8 DEF WaitRequest, WInv
  <2> QED
    BY <2>1, <2>2, <2>3, <2>4 DEF WInv
<1>9. ASSUME NEW a \in Agents, NEW t \in Tasks, Release(a, t) PROVE WInv'
  BY <1>1, <1>9, StartKeeps DEF Release
<1>10. ASSUME NEW a \in Agents, NEW t \in Tasks, NEW S \in SUBSET Tasks, Claim(a, t, S)
       PROVE  WInv'
  <2>1. [Without(S) EXCEPT ![t] = a] \in Holders
    BY <1>1 DEF Holders
  <2> QED
    BY <1>10, <2>1, StartKeeps DEF Claim
<1>11. ASSUME NEW a \in Agents, NEW b \in Agents, NEW t \in Tasks, Handoff(a, t, b)
       PROVE  WInv'
  <2>1. [holder EXCEPT ![t] = b] \in Holders
    BY DEF Holders, WInv, TypeOK
  <2> QED
    BY <1>11, <2>1, StartKeeps DEF Handoff
<1>12. ASSUME NEW a \in Agents, NEW b \in Agents, NEW t \in Tasks, ReleaseAbandoned(a, t, b)
       PROVE  WInv'
  BY <1>1, <1>12, StartKeeps DEF ReleaseAbandoned
<1> QED
  BY <1>2, <1>3, <1>4, <1>5, <1>6, <1>7, <1>8, <1>9, <1>10, <1>11, <1>12 DEF Next

LEMMA InitHolds == Init => WInv
<1> SUFFICES ASSUME Init PROVE WInv
  OBVIOUS
<1>1. ResolveWaitEdges(standing) = {}
  BY DEF Init, ResolveWaitEdges
<1>2. HoldAndWaitRefused
  BY <1>1 DEF HoldAndWaitRefused, Knot
<1> QED
  BY <1>2 DEF Init, WInv, TypeOK

\* Circular hold-and-wait is refused at every step of the hub, for any number
\* of agents, tasks and recorded waits.
THEOREM WaitsAcyclic == Spec => []HoldAndWaitRefused
<1>1. Spec => []WInv
  BY InitHolds, StepKeeps, PTL DEF Spec
<1>2. WInv => HoldAndWaitRefused
  BY DEF WInv
<1> QED
  BY <1>1, <1>2, PTL

\* The wait graph keeps its shape.
THEOREM WaitsTyped == Spec => []TypeOK
<1>1. Spec => []WInv
  BY InitHolds, StepKeeps, PTL DEF Spec
<1>2. WInv => TypeOK
  BY DEF WInv
<1> QED
  BY <1>1, <1>2, PTL

-----------------------------------------------------------------------------
(* One committed mutation.                                                  *)

\* A stage that is reached is none before admission, nor the first one.
LEMMA StagesReached ==
  ASSUME NEW s, NEW n \in NextStages(s)
  PROVE  /\ s \in Open /\ s \notin Terminal
         /\ n \in (Open \union Terminal) \ {"queued"}
<1> QED BY DEF NextStages, Open, Terminal

\* An open request can be expired and superseded.
LEMMA OpenCloses ==
  ASSUME NEW s \in Open
  PROVE  {"expired", "superseded"} \subseteq NextStages(s)
<1> QED BY DEF NextStages, Open

\* Rows are equal when their fields are.
LEMMA SameRow ==
  ASSUME NEW r \in Row, NEW q \in Row, r.stage = q.stage, r.cancel = q.cancel,
         r.boundary = q.boundary, r.acked = q.acked, r.ordinal = q.ordinal
  PROVE  r = q
<1> QED BY DEF Row

\* The row after a stage, field by field.
LEMMA StagedRow ==
  ASSUME NEW r \in Row, NEW s \in Open \union Terminal
  PROVE  /\ AtStage(r, s) \in Row
         /\ AtStage(r, s).stage = s
         /\ AtStage(r, s).cancel = r.cancel
         /\ AtStage(r, s).boundary = (r.boundary \/ s = "boundary_delivered")
         /\ AtStage(r, s).acked = (r.acked \/ s = "acknowledged")
         /\ AtStage(r, s).ordinal = r.ordinal + 1
<1> DEFINE b == r.boundary \/ s = "boundary_delivered"
           k == r.acked \/ s = "acknowledged"
           q == [r EXCEPT !.stage = s, !.boundary = b, !.acked = k]
<1>1. q \in Row
  <2>1. b \in BOOLEAN /\ k \in BOOLEAN
    OBVIOUS
  <2> HIDE DEF b, k
  <2>2. [r EXCEPT !.stage = s, !.boundary = b] \in Row
    BY <2>1 DEF Row
  <2>3. [[r EXCEPT !.stage = s, !.boundary = b] EXCEPT !.acked = k] \in Row
    BY <2>1, <2>2 DEF Row
  <2>4. [[r EXCEPT !.stage = s, !.boundary = b] EXCEPT !.acked = k] = q
    OBVIOUS
  <2> QED BY <2>3, <2>4
<1>2. r.ordinal + 1 \in Nat
  BY DEF Row
<1>3. [q EXCEPT !.ordinal = r.ordinal + 1] = AtStage(r, s)
  BY DEF AtStage
<1>4. AtStage(r, s) \in Row
  <2> HIDE DEF q
  <2>1. [q EXCEPT !.ordinal = r.ordinal + 1] \in Row
    BY <1>1, <1>2 DEF Row
  <2> QED BY <1>3, <2>1
<1>5. /\ AtStage(r, s).stage = s
      /\ AtStage(r, s).cancel = r.cancel
      /\ AtStage(r, s).boundary = (r.boundary \/ s = "boundary_delivered")
      /\ AtStage(r, s).acked = (r.acked \/ s = "acknowledged")
      /\ AtStage(r, s).ordinal = r.ordinal + 1
  BY DEF AtStage, Row
<1> QED BY <1>4, <1>5

\* The row after a cancellation, field by field.
LEMMA CancelledRow ==
  ASSUME NEW r \in Row
  PROVE  /\ CancelRequested(r) \in Row
         /\ CancelRequested(r).stage = r.stage
         /\ CancelRequested(r).cancel
         /\ CancelRequested(r).boundary = r.boundary
         /\ CancelRequested(r).acked = r.acked
         /\ CancelRequested(r).ordinal = r.ordinal + 1
<1>1. [r EXCEPT !.cancel = TRUE] \in Row /\ r.ordinal + 1 \in Nat
  <2> DEFINE b == TRUE
  <2>1. b \in BOOLEAN
    OBVIOUS
  <2> HIDE DEF b
  <2>2. [r EXCEPT !.cancel = b] \in Row /\ r.ordinal + 1 \in Nat
    BY <2>1 DEF Row
  <2> QED BY <2>2 DEF b
<1>2. [[r EXCEPT !.cancel = TRUE] EXCEPT !.ordinal = r.ordinal + 1] = CancelRequested(r)
  BY DEF CancelRequested
<1>3. CancelRequested(r) \in Row
  <2> DEFINE q == [r EXCEPT !.cancel = TRUE]
  <2>1. q \in Row /\ [q EXCEPT !.ordinal = r.ordinal + 1] = CancelRequested(r)
    BY <1>1, <1>2
  <2> HIDE DEF q
  <2> QED BY <1>1, <2>1 DEF Row
<1>4. /\ CancelRequested(r).stage = r.stage
      /\ CancelRequested(r).cancel
      /\ CancelRequested(r).boundary = r.boundary
      /\ CancelRequested(r).acked = r.acked
      /\ CancelRequested(r).ordinal = r.ordinal + 1
  BY DEF CancelRequested, Row
<1> QED BY <1>3, <1>4

\* The row of an admitted request, and of one that never was.
LEMMA FirstRows ==
  /\ Absent \in Row /\ Queued \in Row
  /\ Absent.stage = "none" /\ Absent.ordinal = 0
  /\ Queued.stage = "queued" /\ Queued.ordinal = 1 /\ ~Queued.cancel
<1> QED BY DEF Absent, Queued, Row, Open, Terminal

-----------------------------------------------------------------------------
(* Type correctness.                                                        *)

\* One transaction leaves the tables typed.
LEMMA CommitTyped ==
  ASSUME DeliveryTypeOK, NEW o \in Ops, NEW r \in Row,
         NEW id \in Open \union Terminal \union {"admit", "cancel"},
         NEW source \in {"sender", "recipient", "hub"}, NEW told \in BOOLEAN,
         Commit(o, r, id, source, told)
  PROVE  /\ rec' \in [Ops -> Row]
         /\ history' \in [Ops -> Seq(Event)]
         /\ unsent' \in [Ops -> SUBSET Nat]
<1>1. rec' \in [Ops -> Row] /\ rec[o] \in Row /\ history[o] \in Seq(Event)
  BY DEF DeliveryTypeOK, Commit
<1>2. [was |-> rec[o], now |-> r, id |-> id, source |-> source] \in Event
  BY <1>1 DEF Event
<1>3. history' \in [Ops -> Seq(Event)]
  <2> DEFINE e == [was |-> rec[o], now |-> r, id |-> id, source |-> source]
  <2>1. Append(history[o], e) \in Seq(Event)
    BY <1>1, <1>2, AppendProperties
  <2>2. history' = [history EXCEPT ![o] = Append(history[o], e)]
    BY DEF Commit
  <2> HIDE DEF e
  <2> QED BY <2>1, <2>2 DEF DeliveryTypeOK
<1>4. unsent' \in [Ops -> SUBSET Nat]
  <2>1. r.ordinal \in Nat
    BY DEF Row
  <2> QED BY <2>1 DEF DeliveryTypeOK, Commit
<1> QED BY <1>1, <1>3, <1>4

\* The sweeps that run at most begin a page or end one.
LEMMA PageTyped ==
  ASSUME DeliveryTypeOK, NEW w \in Sweepers
  PROVE  Page(w) \subseteq Ops
<1> QED BY DEF Page, FirstOf, Rows, Due, DeliveryTypeOK

\* A set of naturals has a least member.
LEMMA LeastRow ==
  ASSUME NEW S \in SUBSET Nat, S # {}
  PROVE  /\ (CHOOSE x \in S : \A y \in S : x <= y) \in S
         /\ \A z \in S : (CHOOSE x \in S : \A y \in S : x <= y) <= z
<1> DEFINE R == {ss \in Nat \X Nat : ss[1] < ss[2]}
<1>1. IsWellFoundedOn(R, Nat)
  BY NatLessThanWellFounded DEF OpToRel
<1>2. PICK x \in S : \A y \in S : <<y, x>> \notin R
  <2> HIDE DEF R
  <2> QED BY <1>1, WFMin
<1>3. \A y \in S : ~(y < x)
  BY <1>2
<1>4. \A y \in S : x <= y
  BY <1>3
<1> QED BY <1>4, Zenon

\* What a step does to the ledger: nothing, or one transaction about one request.
Staged(o, s, source) ==
    /\ s \in NextStages(rec[o].stage) /\ ~Recorded(o, s)
    /\ s = "expired" => source = "hub"
    /\ source = "hub" => s \in {"expired", "superseded"}
    /\ \E told \in BOOLEAN : Commit(o, AtStage(rec[o], s), s, source, told)

Admitted(o) ==
    rec[o] = Absent /\ session = Recipient[o] /\ Commit(o, Queued, "admit", "sender", TRUE)

Withdrawn(o) ==
    /\ IsOpen(o) /\ ~rec[o].cancel
    /\ Commit(o, CancelRequested(rec[o]), "cancel", "sender", TRUE)

LedgerStep ==
    \/ UNCHANGED <<rec, history>>
    \/ \E o \in Ops : Admitted(o) \/ Withdrawn(o)
    \/ \E o \in Ops, source \in {"recipient", "hub"} :
         \E s \in NextStages(rec[o].stage) : Staged(o, s, source)

\* The row a sweep takes.
Taken(w) == CHOOSE x \in Page(w) : \A y \in Page(w) : x <= y

LEMMA TakenRow ==
  ASSUME DeliveryAssumption, DeliveryTypeOK, NEW w \in Sweepers, Page(w) # {}
  PROVE  Taken(w) \in Page(w) /\ Taken(w) \in Ops /\ \A y \in Page(w) : Taken(w) <= y
<1>1. Page(w) \subseteq Ops /\ Page(w) \in SUBSET Nat
  BY PageTyped DEF DeliveryAssumption
<1> QED BY <1>1, LeastRow DEF Taken

\* A sweep's turn leaves the ledger alone, or gives its verdict on its row.
LEMMA SweepEffect ==
  ASSUME DeliveryAssumption, DeliveryTypeOK, NEW w \in Sweepers, SweepRow(w)
  PROVE  /\ Taken(w) \in Ops
         /\ \/ ~Recorded(Taken(w), Verdict(w)) /\ Staged(Taken(w), Verdict(w), "hub")
            \/ /\ UNCHANGED <<rec, history, unsent>>
               /\ Recorded(Taken(w), Verdict(w)) \/ Refuses(w, Taken(w))
<1>1. Taken(w) \in Ops
  BY TakenRow DEF SweepRow
<1>2. Verdict(w) \in {"expired", "superseded"}
  BY DEF Verdict
<1>3. CASE ~Recorded(Taken(w), Verdict(w)) /\ ~Refuses(w, Taken(w))
  <2>1. Commit(Taken(w), AtStage(rec[Taken(w)], Verdict(w)), Verdict(w), "hub", FALSE)
    BY <1>3 DEF SweepRow, Taken
  <2>2. Verdict(w) \in NextStages(rec[Taken(w)].stage)
    BY <1>3 DEF Refuses, Advances
  <2>3. \E told \in BOOLEAN :
          Commit(Taken(w), AtStage(rec[Taken(w)], Verdict(w)), Verdict(w), "hub", told)
    BY <2>1
  <2> QED BY <1>1, <1>2, <1>3, <2>2, <2>3 DEF Staged
<1>4. CASE Recorded(Taken(w), Verdict(w)) \/ Refuses(w, Taken(w))
  <2>1. UNCHANGED <<rec, history, unsent>>
    BY <1>4 DEF SweepRow, Taken
  <2> QED BY <1>1, <1>4, <2>1
<1> QED BY <1>3, <1>4

\* A report gives a stage its recipient may report.
LEMMA ReportEffect ==
  ASSUME DeliveryAssumption, NEW p \in Procs, NEW o \in Ops, NEW s \in Reports[o],
         Report(p, o, s)
  PROVE  Staged(o, s, "recipient")
<1>1. s # "expired"
  BY DEF DeliveryAssumption
<1>2. s \in NextStages(rec[o].stage) /\ ~Recorded(o, s)
  BY DEF Report, Advances
<1>3. \E told \in BOOLEAN : Commit(o, AtStage(rec[o], s), s, "recipient", told)
  BY DEF Report
<1> QED BY <1>1, <1>2, <1>3 DEF Staged

\* Every step of the hub is one of these.
LEMMA StepEffect ==
  ASSUME DeliveryAssumption, DeliveryTypeOK, [DeliveryNext]_deliveryVars
  PROVE  LedgerStep
<1>1. CASE SenderSteps
  BY <1>1 DEF SenderSteps, SenderJoins, SenderLeaves, LedgerStep, ledger
<1>2. CASE RequestSteps
  <2>1. ASSUME NEW o \in Ops, Admit(o) PROVE Admitted(o)
    BY <2>1 DEF Admit, Admitted
  <2>2. ASSUME NEW o \in Ops, Cancel(o) PROVE Withdrawn(o)
    BY <2>2 DEF Cancel, Withdrawn
  <2> QED BY <1>2, <2>1, <2>2 DEF RequestSteps, LedgerStep, DeliveryAssumption
<1>3. CASE RecipientSteps
  <2>1. ASSUME NEW p \in Procs, NEW o \in Ops, NEW s \in Reports[o], Report(p, o, s)
        PROVE LedgerStep
    <3>1. Staged(o, s, "recipient") /\ s \in NextStages(rec[o].stage)
      BY <2>1, ReportEffect DEF Staged
    <3> QED BY <3>1 DEF LedgerStep
  <2>2. ASSUME NEW p \in Procs,
               Bind(p) \/ RegisterSession(p) \/ RegisterPlain(p) \/ RecipientLeaves(p)
        PROVE LedgerStep
    BY <2>2 DEF Bind, RegisterSession, RegisterPlain, RecipientLeaves, ledger, LedgerStep
  <2> QED BY <1>3, <2>1, <2>2 DEF RecipientSteps
<1>4. CASE SweepTurns
  <2>1. ASSUME NEW w \in Sweepers, SweepRow(w) PROVE LedgerStep
    <3>1. CASE Staged(Taken(w), Verdict(w), "hub")
      <4>1. Verdict(w) \in NextStages(rec[Taken(w)].stage) /\ Taken(w) \in Ops
        BY <2>1, <3>1, SweepEffect DEF Staged
      <4> QED BY <3>1, <4>1 DEF LedgerStep
    <3>2. CASE UNCHANGED <<rec, history>>
      BY <3>2 DEF LedgerStep
    <3> QED BY <2>1, <3>1, <3>2, SweepEffect
  <2>2. ASSUME NEW w \in Sweepers, SweepSent(w) \/ SweepEnds(w) PROVE LedgerStep
    BY <2>2 DEF SweepSent, SweepEnds, ledger, LedgerStep
  <2> QED BY <1>4, <2>1, <2>2 DEF SweepTurns
<1>5. CASE Tick \/ Crash \/ Restart \/ UNCHANGED deliveryVars
  BY <1>5 DEF Tick, Crash, Restart, deliveryVars, ledger, LedgerStep
<1> QED BY <1>1, <1>2, <1>3, <1>4, <1>5 DEF DeliveryNext

\* The tables stay typed whatever the transaction is.
LEMMA TablesTyped ==
  ASSUME DeliveryTypeOK, LedgerStep
  PROVE  rec' \in [Ops -> Row] /\ history' \in [Ops -> Seq(Event)]
<1>1. CASE UNCHANGED <<rec, history>>
  BY <1>1 DEF DeliveryTypeOK
<1>2. ASSUME NEW o \in Ops, Admitted(o)
      PROVE  rec' \in [Ops -> Row] /\ history' \in [Ops -> Seq(Event)]
  BY <1>2, CommitTyped, FirstRows DEF Admitted
<1>3. ASSUME NEW o \in Ops, Withdrawn(o)
      PROVE  rec' \in [Ops -> Row] /\ history' \in [Ops -> Seq(Event)]
  <2>1. CancelRequested(rec[o]) \in Row
    BY CancelledRow DEF DeliveryTypeOK
  <2> QED BY <1>3, <2>1, CommitTyped DEF Withdrawn
<1>4. ASSUME NEW o \in Ops, NEW source \in {"recipient", "hub"},
             NEW s \in NextStages(rec[o].stage), Staged(o, s, source)
      PROVE  rec' \in [Ops -> Row] /\ history' \in [Ops -> Seq(Event)]
  <2>1. s \in Open \union Terminal
    BY StagesReached
  <2>2. AtStage(rec[o], s) \in Row
    BY <2>1, StagedRow DEF DeliveryTypeOK
  <2> QED BY <1>4, <2>1, <2>2, CommitTyped DEF Staged
<1> QED BY <1>1, <1>2, <1>3, <1>4 DEF LedgerStep

\* So does the outbox.
LEMMA OutboxTyped ==
  ASSUME DeliveryAssumption, DeliveryTypeOK, [DeliveryNext]_deliveryVars
  PROVE  unsent' \in [Ops -> SUBSET Nat]
<1>1. ASSUME NEW o \in Ops, NEW source \in {"recipient", "hub"}, NEW s, Staged(o, s, source)
      PROVE  unsent' \in [Ops -> SUBSET Nat]
  <2>1. s \in Open \union Terminal
    BY <1>1, StagesReached DEF Staged
  <2>2. AtStage(rec[o], s) \in Row
    BY <2>1, StagedRow DEF DeliveryTypeOK
  <2> QED BY <1>1, <2>1, <2>2, CommitTyped DEF Staged
<1>2. CASE SenderSteps
  BY <1>2 DEF SenderSteps, SenderJoins, SenderLeaves, ledger, DeliveryTypeOK
<1>3. CASE RequestSteps
  <2>1. ASSUME NEW o \in Ops, Admit(o) PROVE unsent' \in [Ops -> SUBSET Nat]
    BY <2>1, CommitTyped, FirstRows DEF Admit
  <2>2. ASSUME NEW o \in Ops, Cancel(o) PROVE unsent' \in [Ops -> SUBSET Nat]
    <3>1. CancelRequested(rec[o]) \in Row
      BY CancelledRow DEF DeliveryTypeOK
    <3> QED BY <2>2, <3>1, CommitTyped DEF Cancel
  <2> QED BY <1>3, <2>1, <2>2 DEF RequestSteps, DeliveryAssumption
<1>4. CASE RecipientSteps
  <2>1. ASSUME NEW p \in Procs, NEW o \in Ops, NEW s \in Reports[o], Report(p, o, s)
        PROVE unsent' \in [Ops -> SUBSET Nat]
    BY <2>1, <1>1, ReportEffect
  <2>2. ASSUME NEW p \in Procs,
               Bind(p) \/ RegisterSession(p) \/ RegisterPlain(p) \/ RecipientLeaves(p)
        PROVE unsent' \in [Ops -> SUBSET Nat]
    BY <2>2 DEF Bind, RegisterSession, RegisterPlain, RecipientLeaves, ledger, DeliveryTypeOK
  <2> QED BY <1>4, <2>1, <2>2 DEF RecipientSteps
<1>5. CASE SweepTurns
  <2>1. ASSUME NEW w \in Sweepers, SweepRow(w) PROVE unsent' \in [Ops -> SUBSET Nat]
    BY <2>1, <1>1, SweepEffect DEF DeliveryTypeOK
  <2>2. ASSUME NEW w \in Sweepers, SweepSent(w) PROVE unsent' \in [Ops -> SUBSET Nat]
    BY <2>2 DEF SweepSent, DeliveryTypeOK
  <2>3. ASSUME NEW w \in Sweepers, SweepEnds(w) PROVE unsent' \in [Ops -> SUBSET Nat]
    BY <2>3 DEF SweepEnds, ledger, DeliveryTypeOK
  <2> QED BY <1>5, <2>1, <2>2, <2>3 DEF SweepTurns
<1>6. CASE Tick \/ Crash \/ Restart \/ UNCHANGED deliveryVars
  BY <1>6 DEF Tick, Crash, Restart, deliveryVars, ledger, DeliveryTypeOK
<1> QED BY <1>2, <1>3, <1>4, <1>5, <1>6 DEF DeliveryNext

\* The variables beside the ledger keep their types.
LEMMA BindingTyped ==
  ASSUME DeliveryAssumption, DeliveryTypeOK, [DeliveryNext]_deliveryVars
  PROVE  /\ quarantined' \subseteq Ops
         /\ now' \in 0 .. MaxClock /\ up' \in BOOLEAN /\ crashes' \in 0 .. MaxCrashes
         /\ owner' \in Procs \union {Nobody} /\ session' \in Procs \union {Nobody}
         /\ phase' \in [Procs -> Registration]
         /\ \A p \in Procs : phase'[p] # "off" <=> owner' = p
         /\ online' \subseteq Senders
         /\ sweep' \in [Sweepers -> [on : BOOLEAN, page : SUBSET Ops,
                                     cursor : Ops \union {0}, sending : BOOLEAN]]
<1> DEFINE Turn == [on : BOOLEAN, page : SUBSET Ops, cursor : Ops \union {0}, sending : BOOLEAN]
           Goal == /\ quarantined' \subseteq Ops
                   /\ now' \in 0 .. MaxClock /\ up' \in BOOLEAN /\ crashes' \in 0 .. MaxCrashes
                   /\ owner' \in Procs \union {Nobody} /\ session' \in Procs \union {Nobody}
                   /\ phase' \in [Procs -> Registration]
                   /\ \A p \in Procs : phase'[p] # "off" <=> owner' = p
                   /\ online' \subseteq Senders
                   /\ sweep' \in [Sweepers -> Turn]
<1>0. Idle \in Turn /\ [Idle EXCEPT !.on = TRUE] \in Turn
  BY DEF Idle
<1>1. CASE SenderSteps
  BY <1>1 DEF SenderSteps, SenderJoins, SenderLeaves, ledger, binding, DeliveryTypeOK
<1>2. CASE RequestSteps
  BY <1>2 DEF RequestSteps, Admit, Cancel, binding, DeliveryTypeOK, DeliveryAssumption
<1>3. CASE RecipientSteps
  <2>1. ASSUME NEW p \in Procs, NEW o \in Ops, NEW s \in Reports[o], Report(p, o, s)
        PROVE Goal
    BY <2>1 DEF Report, binding, DeliveryTypeOK
  <2>2. ASSUME NEW p \in Procs, Bind(p) PROVE Goal
    BY <2>2 DEF Bind, ledger, DeliveryTypeOK, Registration, DeliveryAssumption
  <2>3. ASSUME NEW p \in Procs, RegisterSession(p) PROVE Goal
    <3>1. sweep' \in [Sweepers -> Turn]
      BY <2>3, <1>0 DEF RegisterSession, DeliveryTypeOK
    <3> QED BY <2>3, <3>1 DEF RegisterSession, ledger, DeliveryTypeOK, Registration
  <2>4. ASSUME NEW p \in Procs, RegisterPlain(p) PROVE Goal
    BY <2>4 DEF RegisterPlain, ledger, DeliveryTypeOK, Registration
  <2>5. ASSUME NEW p \in Procs, RecipientLeaves(p) PROVE Goal
    BY <2>5 DEF RecipientLeaves, ledger, DeliveryTypeOK, Registration, DeliveryAssumption
  <2> QED BY <1>3, <2>1, <2>2, <2>3, <2>4, <2>5 DEF RecipientSteps
<1>4. CASE SweepTurns
  <2>1. ASSUME NEW w \in Sweepers, SweepRow(w) PROVE Goal
    <3>1. Taken(w) \in Ops /\ Page(w) \ {Taken(w)} \subseteq Ops
      BY <2>1, TakenRow, PageTyped DEF SweepRow
    <3> DEFINE commits == ~Recorded(Taken(w), Verdict(w)) /\ ~Refuses(w, Taken(w))
               sends == commits /\ Origin[Taken(w)] \in online
    <3>2. sends \in BOOLEAN
      OBVIOUS
    <3>3. sweep' = [sweep EXCEPT ![w] = [on |-> TRUE, page |-> Page(w) \ {Taken(w)},
                                         cursor |-> Taken(w), sending |-> sends]]
      BY <2>1 DEF SweepRow, Taken
    <3>4. quarantined' \subseteq Ops
      BY <2>1, <3>1 DEF SweepRow, Taken, DeliveryTypeOK
    <3> HIDE DEF sends
    <3>5. sweep' \in [Sweepers -> Turn]
      BY <3>1, <3>2, <3>3 DEF DeliveryTypeOK
    <3> QED BY <2>1, <3>4, <3>5 DEF SweepRow, binding, DeliveryTypeOK
  <2>2. ASSUME NEW w \in Sweepers, SweepSent(w) PROVE Goal
    <3>1. [sweep[w] EXCEPT !.sending = FALSE] \in Turn
      <4> DEFINE b == FALSE
      <4>1. b \in BOOLEAN /\ sweep[w] \in Turn
        BY DEF DeliveryTypeOK
      <4> HIDE DEF b
      <4>2. [sweep[w] EXCEPT !.sending = b] \in Turn
        BY <4>1
      <4> QED BY <4>2 DEF b
    <3>2. sweep' = [sweep EXCEPT ![w] = [sweep[w] EXCEPT !.sending = FALSE]]
      BY <2>2 DEF SweepSent
    <3>3. sweep' \in [Sweepers -> Turn]
      BY <3>1, <3>2 DEF DeliveryTypeOK
    <3> QED BY <2>2, <3>3 DEF SweepSent, binding, DeliveryTypeOK
  <2>3. ASSUME NEW w \in Sweepers, SweepEnds(w) PROVE Goal
    <3>1. sweep' \in [Sweepers -> Turn]
      BY <2>3, <1>0 DEF SweepEnds, DeliveryTypeOK
    <3>2. /\ phase' \in [Procs -> Registration]
          /\ \A p \in Procs : phase'[p] # "off" <=> phase[p] # "off"
      BY <2>3 DEF SweepEnds, DeliveryTypeOK, Registration
    <3>3. \A p \in Procs : phase'[p] # "off" <=> owner' = p
      BY <2>3, <3>2 DEF SweepEnds, DeliveryTypeOK
    <3>4. /\ quarantined' \subseteq Ops
          /\ now' \in 0 .. MaxClock /\ up' \in BOOLEAN /\ crashes' \in 0 .. MaxCrashes
          /\ owner' \in Procs \union {Nobody} /\ session' \in Procs \union {Nobody}
          /\ online' \subseteq Senders
      BY <2>3 DEF SweepEnds, ledger, DeliveryTypeOK
    <3> QED BY <3>1, <3>2, <3>3, <3>4
  <2> QED BY <1>4, <2>1, <2>2, <2>3 DEF SweepTurns
<1>5. CASE Tick
  BY <1>5 DEF Tick, ledger, binding, DeliveryTypeOK, DeliveryAssumption
<1>6. CASE Crash
  <2>1. sweep' \in [Sweepers -> Turn]
    BY <1>6, <1>0 DEF Crash
  <2>2. phase' \in [Procs -> Registration] /\ \A p \in Procs : phase'[p] = "off"
    BY <1>6 DEF Crash, Registration
  <2>3. owner' = Nobody /\ session' = Nobody /\ Nobody \notin Procs
    BY <1>6 DEF Crash, DeliveryAssumption
  <2>4. /\ quarantined' \subseteq Ops /\ online' \subseteq Senders
        /\ now' \in 0 .. MaxClock /\ crashes' \in 0 .. MaxCrashes
    BY <1>6 DEF Crash, ledger, DeliveryTypeOK, DeliveryAssumption
  <2>5. up' \in BOOLEAN
    BY <1>6 DEF Crash
  <2> QED BY <2>1, <2>2, <2>3, <2>4, <2>5
<1>7. CASE Restart \/ UNCHANGED deliveryVars
  BY <1>7 DEF Restart, deliveryVars, ledger, binding, DeliveryTypeOK
<1> QED BY <1>1, <1>2, <1>3, <1>4, <1>5, <1>6, <1>7 DEF DeliveryNext

LEMMA DeliveryTypeStep ==
  ASSUME DeliveryAssumption, DeliveryTypeOK, [DeliveryNext]_deliveryVars
  PROVE  DeliveryTypeOK'
<1>1. rec' \in [Ops -> Row] /\ history' \in [Ops -> Seq(Event)]
  BY StepEffect, TablesTyped
<1> QED BY <1>1, OutboxTyped, BindingTyped DEF DeliveryTypeOK

LEMMA DeliveryTypeInit == DeliveryAssumption /\ DeliveryInit => DeliveryTypeOK
<1> SUFFICES ASSUME DeliveryAssumption, DeliveryInit PROVE DeliveryTypeOK
  OBVIOUS
<1>1. rec \in [Ops -> Row]
  BY FirstRows DEF DeliveryInit
<1>2. history \in [Ops -> Seq(Event)]
  BY DEF DeliveryInit
<1>3. sweep \in [Sweepers -> [on : BOOLEAN, page : SUBSET Ops,
                              cursor : Ops \union {0}, sending : BOOLEAN]]
  BY DEF DeliveryInit, Idle
<1> QED BY <1>1, <1>2, <1>3 DEF DeliveryInit, DeliveryTypeOK, DeliveryAssumption, Registration

-----------------------------------------------------------------------------
(* The journal of one request.                                              *)

\* A transaction appends one event to one request's rows.
LEMMA OneEvent ==
  ASSUME DeliveryTypeOK, NEW o \in Ops, NEW r, NEW id, NEW source, NEW told,
         Commit(o, r, id, source, told)
  PROVE  /\ \A x \in Ops \ {o} : rec'[x] = rec[x] /\ history'[x] = history[x]
         /\ rec'[o] = r
         /\ history[o] \in Seq(Event) /\ Len(history[o]) \in Nat
         /\ DOMAIN history[o] = 1 .. Len(history[o])
         /\ Len(history'[o]) = Len(history[o]) + 1
         /\ DOMAIN history'[o] = 1 .. (Len(history[o]) + 1)
         /\ \A i \in 1 .. Len(history[o]) : history'[o][i] = history[o][i]
         /\ history'[o][Len(history[o]) + 1]
              = [was |-> rec[o], now |-> r, id |-> id, source |-> source]
<1> DEFINE e == [was |-> rec[o], now |-> r, id |-> id, source |-> source]
<1>1. /\ history'[o] = Append(history[o], e)
      /\ \A x \in Ops \ {o} : rec'[x] = rec[x] /\ history'[x] = history[x]
      /\ rec'[o] = r
  BY DEF Commit, DeliveryTypeOK
<1>2. history[o] \in Seq(Event)
  BY DEF DeliveryTypeOK
<1>3. /\ Len(history[o]) \in Nat /\ DOMAIN history[o] = 1 .. Len(history[o])
  BY <1>2, LenProperties
<1> HIDE DEF e
<1>4. history[o] \in Seq(Event \union {e})
  BY <1>2, SeqMonotonic
<1>5. /\ Len(Append(history[o], e)) = Len(history[o]) + 1
      /\ \A i \in 1 .. Len(history[o]) : Append(history[o], e)[i] = history[o][i]
      /\ Append(history[o], e)[Len(history[o]) + 1] = e
      /\ Append(history[o], e) \in Seq(Event \union {e})
  BY <1>3, <1>4, AppendProperties
<1>6. DOMAIN Append(history[o], e) = 1 .. (Len(history[o]) + 1)
  BY <1>5, LenProperties
<1> QED BY <1>1, <1>2, <1>3, <1>5, <1>6 DEF e

\* What the mutation identities of a request tell of its row.
Marked ==
    \A o \in Ops :
        /\ Recorded(o, "cancel") => rec[o].cancel
        /\ \A s \in Terminal : Recorded(o, s) => rec[o].stage \in Terminal

JournalInv == OwnJournalReplays /\ Marked

\* A request that was never admitted has no events, and an admitted one has.
LEMMA RowsMatch ==
  ASSUME DeliveryTypeOK, OwnJournalReplays, NEW o \in Ops
  PROVE  /\ Len(history[o]) \in Nat
         /\ rec[o].ordinal = Len(history[o])
         /\ Len(history[o]) = 0 <=> rec[o] = Absent
         /\ Len(history[o]) # 0 => history[o][Len(history[o])].now = rec[o]
<1>1. history[o] \in Seq(Event) /\ ReplayAccepts(o)
  BY DEF DeliveryTypeOK, OwnJournalReplays
<1>2. Len(history[o]) \in Nat /\ DOMAIN history[o] = 1 .. Len(history[o])
  BY <1>1, LenProperties
<1>3. CASE history[o] = <<>>
  <2>1. Len(history[o]) = 0
    BY <1>3
  <2> QED BY <1>1, <1>3, <2>1, FirstRows DEF ReplayAccepts
<1>4. CASE history[o] # <<>>
  <2>1. Len(history[o]) # 0
    BY <1>1, <1>4, EmptySeq
  <2>2. Len(history[o]) \in DOMAIN history[o]
    BY <1>2, <2>1
  <2>3. rec[o] = history[o][Len(history[o])].now
    BY <1>1, <1>4 DEF ReplayAccepts
  <2>4. rec[o].ordinal = Len(history[o])
    BY <1>1, <2>2, <2>3 DEF ReplayAccepts
  <2> QED BY <1>2, <2>1, <2>3, <2>4, FirstRows
<1> QED BY <1>3, <1>4

\* An event that may follow the rows of a request.
Follows(o, e) ==
    /\ e.was = rec[o] /\ e.was.stage \notin Terminal
    /\ e.now.ordinal = Len(history[o]) + 1
    /\ ~Recorded(o, e.id)
    /\ IF e.id = "cancel" THEN e.now = CancelRequested(e.was)
       ELSE /\ e.now.stage \in NextStages(e.was.stage)
            /\ e.now = [stage |-> e.now.stage, cancel |-> e.was.cancel,
                        boundary |-> e.was.boundary \/ e.now.stage = "boundary_delivered",
                        acked |-> e.was.acked \/ e.now.stage = "acknowledged",
                        ordinal |-> Len(history[o]) + 1]
            /\ e.now.stage = "expired" => e.source = "hub"
            /\ e.source = "hub" => e.now.stage \in {"expired", "superseded"}

\* An event that follows leaves rows the replay check accepts.
LEMMA ReplayExtends ==
  ASSUME DeliveryTypeOK, OwnJournalReplays, NEW o \in Ops, NEW r, NEW id, NEW source, NEW told,
         Commit(o, r, id, source, told), Len(history[o]) # 0,
         Follows(o, [was |-> rec[o], now |-> r, id |-> id, source |-> source])
  PROVE  ReplayAccepts(o)'
<1> DEFINE n == Len(history[o])
           h == history[o]
           g == history'[o]
           e == [was |-> rec[o], now |-> r, id |-> id, source |-> source]
           Legal(k, i) ==
             /\ k[i].now.ordinal = i
             /\ IF i = 1 THEN k[i].now = Queued
                ELSE /\ k[i].was = k[i - 1].now
                     /\ k[i].was.stage \notin Terminal
                     /\ IF k[i].id = "cancel"
                        THEN k[i].now = CancelRequested(k[i].was)
                        ELSE /\ k[i].now.stage \in NextStages(k[i].was.stage)
                             /\ k[i].now = [stage |-> k[i].now.stage, cancel |-> k[i].was.cancel,
                                  boundary |-> k[i].was.boundary \/ k[i].now.stage = "boundary_delivered",
                                  acked |-> k[i].was.acked \/ k[i].now.stage = "acknowledged",
                                  ordinal |-> i]
                             /\ k[i].now.stage = "expired" => k[i].source = "hub"
                             /\ k[i].source = "hub" => k[i].now.stage \in {"expired", "superseded"}
             /\ \A j \in DOMAIN k : k[i].id = k[j].id => i = j
<1>1. /\ n \in Nat /\ n # 0 /\ DOMAIN h = 1 .. n /\ DOMAIN g = 1 .. (n + 1) /\ Len(g) = n + 1
      /\ \A i \in 1 .. n : g[i] = h[i]
      /\ g[n + 1] = e /\ rec'[o] = r
  BY OneEvent
<1>2. h[n].now = rec[o]
  BY RowsMatch
<1>3. \A j \in 1 .. n : h[j].id # id
  BY <1>1 DEF Follows, Recorded
<1>4. \A i \in 1 .. n : Legal(h, i)
  BY <1>1 DEF OwnJournalReplays, ReplayAccepts
<1>5. e.was = rec[o] /\ e.now = r /\ e.id = id /\ e.source = source
  OBVIOUS
<1> HIDE DEF h, g, n, e
<1>6. ASSUME NEW i \in 1 .. n PROVE Legal(g, i)
  <2>1. g[i] = h[i] /\ (i # 1 => g[i - 1] = h[i - 1])
    BY <1>1
  <2>2. Legal(h, i)
    BY <1>4
  <2>3. \A j \in DOMAIN g : g[i].id = g[j].id => i = j
    BY <1>1, <1>3, <1>5, <2>1, <2>2
  <2> QED BY <2>1, <2>2, <2>3
<1>7. Legal(g, n + 1)
  <2>1. /\ g[n + 1] = e /\ n + 1 # 1 /\ g[n] = h[n] /\ (n + 1) - 1 = n
    BY <1>1
  <2>2. \A j \in DOMAIN g : g[n + 1].id = g[j].id => n + 1 = j
    BY <1>1, <1>3, <1>5
  <2>3. Follows(o, e)
    BY DEF e
  <2>4. e.was = h[n].now
    BY <1>2, <1>5
  <2> QED BY <2>1, <2>2, <2>3, <2>4 DEF Follows, n
<1>8. \A i \in DOMAIN g : Legal(g, i)
  BY <1>1, <1>6, <1>7
<1>9. g # <<>> /\ rec'[o] = g[Len(g)].now
  BY <1>1, <1>5
<1> QED BY <1>8, <1>9 DEF ReplayAccepts, g

\* A report or a verdict follows the rows of an open request.
LEMMA StagedFollows ==
  ASSUME DeliveryTypeOK, OwnJournalReplays, NEW o \in Ops, NEW s, NEW source, Staged(o, s, source)
  PROVE  /\ Len(history[o]) # 0
         /\ Follows(o, [was |-> rec[o], now |-> AtStage(rec[o], s), id |-> s, source |-> source])
<1> DEFINE r == AtStage(rec[o], s)
           e == [was |-> rec[o], now |-> r, id |-> s, source |-> source]
<1>1. /\ rec[o].stage \in Open /\ rec[o].stage \notin Terminal
      /\ s \in (Open \union Terminal) \ {"queued"}
  BY StagesReached DEF Staged
<1>2. Len(history[o]) # 0 /\ rec[o].ordinal = Len(history[o])
  BY <1>1, RowsMatch, FirstRows DEF Open
<1>3. rec[o] \in Row
  BY DEF DeliveryTypeOK
<1>4. /\ r \in Row /\ r.stage = s /\ r.cancel = rec[o].cancel
      /\ r.boundary = (rec[o].boundary \/ s = "boundary_delivered")
      /\ r.acked = (rec[o].acked \/ s = "acknowledged")
      /\ r.ordinal = Len(history[o]) + 1
  BY <1>1, <1>2, <1>3, StagedRow
<1>5. e.was = rec[o] /\ e.now = r /\ e.id = s /\ e.source = source
  OBVIOUS
<1> HIDE DEF r, e
<1>6. r = [stage |-> s, cancel |-> rec[o].cancel,
           boundary |-> rec[o].boundary \/ s = "boundary_delivered",
           acked |-> rec[o].acked \/ s = "acknowledged",
           ordinal |-> Len(history[o]) + 1]
  <2>1. r = [stage |-> r.stage, cancel |-> r.cancel, boundary |-> r.boundary,
             acked |-> r.acked, ordinal |-> r.ordinal]
    BY <1>4 DEF Row
  <2> QED BY <1>4, <2>1
<1>7. s # "cancel" /\ ~Recorded(o, s) /\ s \in NextStages(rec[o].stage)
  BY <1>1 DEF Staged, Open, Terminal
<1>8. (s = "expired" => source = "hub") /\ (source = "hub" => s \in {"expired", "superseded"})
  BY DEF Staged
<1>9. Follows(o, e)
  BY <1>1, <1>4, <1>5, <1>6, <1>7, <1>8 DEF Follows
<1> QED BY <1>2, <1>9 DEF e, r

\* A cancellation follows the rows of an open request, once.
LEMMA WithdrawnFollows ==
  ASSUME DeliveryTypeOK, OwnJournalReplays, Marked, NEW o \in Ops, Withdrawn(o)
  PROVE  /\ Len(history[o]) # 0
         /\ Follows(o, [was |-> rec[o], now |-> CancelRequested(rec[o]),
                        id |-> "cancel", source |-> "sender"])
<1>1. rec[o].stage \in Open /\ rec[o].stage \notin Terminal /\ ~rec[o].cancel
  BY DEF Withdrawn, IsOpen, Open, Terminal
<1>2. Len(history[o]) # 0 /\ rec[o].ordinal = Len(history[o])
  BY <1>1, RowsMatch, FirstRows DEF Open
<1>3. CancelRequested(rec[o]).ordinal = Len(history[o]) + 1
  BY <1>2, CancelledRow DEF DeliveryTypeOK
<1>4. ~Recorded(o, "cancel")
  BY <1>1 DEF Marked
<1> QED BY <1>1, <1>2, <1>3, <1>4 DEF Follows

\* The rows of an admitted request are its queued event.
LEMMA AdmittedReplays ==
  ASSUME DeliveryTypeOK, OwnJournalReplays, NEW o \in Ops, Admitted(o)
  PROVE  ReplayAccepts(o)'
<1>1. PICK told \in BOOLEAN : Commit(o, Queued, "admit", "sender", told)
  BY DEF Admitted
<1>0. Len(history[o]) = 0
  BY RowsMatch DEF Admitted
<1>2. /\ rec'[o] = Queued /\ DOMAIN history'[o] = 1 .. 1 /\ Len(history'[o]) = 1
      /\ history'[o][1].now = Queued
  <2>1. /\ rec'[o] = Queued
        /\ Len(history'[o]) = Len(history[o]) + 1
        /\ DOMAIN history'[o] = 1 .. (Len(history[o]) + 1)
        /\ history'[o][Len(history[o]) + 1]
             = [was |-> rec[o], now |-> Queued, id |-> "admit", source |-> "sender"]
    BY <1>1, OneEvent
  <2> QED BY <1>0, <2>1
<1>3. history'[o] # <<>>
  BY <1>2
<1> QED BY <1>2, <1>3, FirstRows DEF ReplayAccepts

\* Every step leaves rows the replay check accepts.
LEMMA ReplayKept ==
  ASSUME DeliveryTypeOK, OwnJournalReplays, Marked, LedgerStep
  PROVE  OwnJournalReplays'
<1>1. CASE UNCHANGED <<rec, history>>
  BY <1>1 DEF OwnJournalReplays, ReplayAccepts
<1>2. ASSUME NEW o \in Ops, NEW r, NEW id, NEW source, NEW told,
             Commit(o, r, id, source, told), ReplayAccepts(o)'
      PROVE  OwnJournalReplays'
  <2>1. ASSUME NEW x \in Ops \ {o} PROVE ReplayAccepts(x)'
    <3>1. rec'[x] = rec[x] /\ history'[x] = history[x] /\ ReplayAccepts(x)
      BY <1>2, OneEvent DEF OwnJournalReplays
    <3> QED BY <3>1 DEF ReplayAccepts
  <2> QED BY <1>2, <2>1 DEF OwnJournalReplays
<1>3. ASSUME NEW o \in Ops, Admitted(o) PROVE OwnJournalReplays'
  BY <1>2, <1>3, AdmittedReplays DEF Admitted
<1>4. ASSUME NEW o \in Ops, Withdrawn(o) PROVE OwnJournalReplays'
  <2>1. ReplayAccepts(o)'
    BY <1>4, WithdrawnFollows, ReplayExtends DEF Withdrawn
  <2> QED BY <1>2, <1>4, <2>1 DEF Withdrawn
<1>5. ASSUME NEW o \in Ops, NEW source \in {"recipient", "hub"},
             NEW s \in NextStages(rec[o].stage), Staged(o, s, source)
      PROVE  OwnJournalReplays'
  <2>1. ReplayAccepts(o)'
    BY <1>5, StagedFollows, ReplayExtends DEF Staged
  <2> QED BY <1>2, <1>5, <2>1 DEF Staged
<1> QED BY <1>1, <1>3, <1>4, <1>5 DEF LedgerStep

\* What one transaction does to the row of its request: the verdict, the wish
\* and the evidence that are there stay.
Kept(r, q) ==
    /\ r.stage \in Terminal => q = r
    /\ r.cancel => q.cancel
    /\ r.boundary => q.boundary
    /\ r.acked => q.acked

LEMMA RowsKept ==
  ASSUME DeliveryTypeOK, LedgerStep, NEW o \in Ops
  PROVE  /\ Kept(rec[o], rec'[o])
         /\ \/ rec'[o] = rec[o] /\ history'[o] = history[o]
            \/ \E r, id, source, told : Commit(o, r, id, source, told)
<1>1. rec[o] \in Row
  BY DEF DeliveryTypeOK
<1>2. ASSUME NEW x \in Ops, NEW r, NEW id, NEW source, NEW told,
             Commit(x, r, id, source, told), x = o => Kept(rec[o], r)
      PROVE  /\ Kept(rec[o], rec'[o])
             /\ \/ rec'[o] = rec[o] /\ history'[o] = history[o]
                \/ Commit(o, r, id, source, told)
  <2>1. CASE x = o
    BY <1>2, <2>1, OneEvent
  <2>2. CASE x # o
    <3>1. rec'[o] = rec[o] /\ history'[o] = history[o]
      BY <1>2, <2>2, OneEvent
    <3> QED BY <3>1 DEF Kept
  <2> QED BY <2>1, <2>2
<1>3. CASE UNCHANGED <<rec, history>>
  BY <1>3 DEF Kept
<1>4. ASSUME NEW x \in Ops, Admitted(x)
      PROVE  /\ Kept(rec[o], rec'[o])
             /\ \/ rec'[o] = rec[o] /\ history'[o] = history[o]
                \/ \E r, id, source, told : Commit(o, r, id, source, told)
  <2>1. Kept(rec[x], Queued)
    BY <1>4 DEF Admitted, Kept, Absent, Terminal
  <2> QED BY <1>2, <1>4, <2>1 DEF Admitted
<1>5. ASSUME NEW x \in Ops, Withdrawn(x)
      PROVE  /\ Kept(rec[o], rec'[o])
             /\ \/ rec'[o] = rec[o] /\ history'[o] = history[o]
                \/ \E r, id, source, told : Commit(o, r, id, source, told)
  <2>1. rec[x] \in Row /\ rec[x].stage \notin Terminal
    BY <1>5 DEF Withdrawn, IsOpen, Open, Terminal, DeliveryTypeOK
  <2>2. Kept(rec[x], CancelRequested(rec[x]))
    BY <2>1, CancelledRow DEF Kept
  <2> QED BY <1>2, <1>5, <2>2 DEF Withdrawn
<1>6. ASSUME NEW x \in Ops, NEW source \in {"recipient", "hub"},
             NEW s \in NextStages(rec[x].stage), Staged(x, s, source)
      PROVE  /\ Kept(rec[o], rec'[o])
             /\ \/ rec'[o] = rec[o] /\ history'[o] = history[o]
                \/ \E r, id, src, told : Commit(o, r, id, src, told)
  <2>1. rec[x] \in Row /\ rec[x].stage \notin Terminal /\ s \in Open \union Terminal
    BY <1>6, StagesReached DEF DeliveryTypeOK
  <2>2. Kept(rec[x], AtStage(rec[x], s))
    BY <2>1, StagedRow DEF Kept
  <2> QED BY <1>2, <1>6, <2>2 DEF Staged
<1> QED BY <1>3, <1>4, <1>5, <1>6 DEF LedgerStep

\* The identity of the new event is the only one a transaction records.
LEMMA OneIdentity ==
  ASSUME DeliveryTypeOK, NEW o \in Ops, NEW r, NEW id, NEW source, NEW told,
         Commit(o, r, id, source, told), NEW k, Recorded(o, k)', k # id
  PROVE  Recorded(o, k)
<1>1. PICK i \in DOMAIN history'[o] : history'[o][i].id = k
  BY DEF Recorded
<1>2. CASE i \in 1 .. Len(history[o])
  BY <1>1, <1>2, OneEvent DEF Recorded
<1>3. CASE i = Len(history[o]) + 1
  <2>1. history'[o][i] = [was |-> rec[o], now |-> r, id |-> id, source |-> source]
    BY <1>3, OneEvent
  <2> QED BY <1>1, <2>1
<1>4. DOMAIN history'[o] = 1 .. (Len(history[o]) + 1) /\ Len(history[o]) \in Nat
  BY OneEvent
<1> QED BY <1>1, <1>2, <1>3, <1>4

\* Every step keeps what the identities tell.
LEMMA MarkedKept ==
  ASSUME DeliveryTypeOK, Marked, LedgerStep
  PROVE  Marked'
<1>1. ASSUME NEW o \in Ops, NEW k,
             k = "cancel" \/ k \in Terminal, Recorded(o, k)
      PROVE  /\ k = "cancel" => rec'[o].cancel
             /\ k \in Terminal => rec'[o].stage \in Terminal
  BY <1>1, RowsKept DEF Marked, Kept
<1>2. ASSUME NEW x \in Ops, NEW r, NEW id, NEW source, NEW told,
             Commit(x, r, id, source, told),
             id = "cancel" => r.cancel, id \in Terminal => r.stage \in Terminal
      PROVE  Marked'
  <2>1. ASSUME NEW o \in Ops, NEW k, k = "cancel" \/ k \in Terminal, Recorded(o, k)'
        PROVE  /\ k = "cancel" => rec'[o].cancel
               /\ k \in Terminal => rec'[o].stage \in Terminal
    <3>1. CASE o # x
      <4>1. history'[o] = history[o]
        BY <1>2, <3>1, OneEvent
      <4>2. Recorded(o, k)
        BY <2>1, <4>1 DEF Recorded
      <4> QED BY <1>1, <2>1, <4>2
    <3>2. CASE o = x /\ k # id
      <4>1. Recorded(o, k)
        BY <1>2, <2>1, <3>2, OneIdentity
      <4> QED BY <1>1, <2>1, <4>1
    <3>3. CASE o = x /\ k = id
      BY <1>2, <3>3, OneEvent
    <3> QED BY <3>1, <3>2, <3>3
  <2> QED BY <2>1 DEF Marked
<1>3. CASE UNCHANGED <<rec, history>>
  BY <1>3 DEF Marked, Recorded
<1>4. ASSUME NEW x \in Ops, Admitted(x) PROVE Marked'
  BY <1>2, <1>4 DEF Admitted, Terminal
<1>5. ASSUME NEW x \in Ops, Withdrawn(x) PROVE Marked'
  <2>1. CancelRequested(rec[x]).cancel
    BY CancelledRow DEF DeliveryTypeOK
  <2> QED BY <1>2, <1>5, <2>1 DEF Withdrawn, Terminal
<1>6. ASSUME NEW x \in Ops, NEW source \in {"recipient", "hub"},
             NEW s \in NextStages(rec[x].stage), Staged(x, s, source)
      PROVE  Marked'
  <2>1. s \in Open \union Terminal /\ s # "cancel"
    BY StagesReached DEF Open, Terminal
  <2>2. AtStage(rec[x], s).stage = s
    BY <2>1, StagedRow DEF DeliveryTypeOK
  <2> QED BY <1>2, <1>6, <2>1, <2>2 DEF Staged
<1> QED BY <1>3, <1>4, <1>5, <1>6 DEF LedgerStep

\* The events a request has stay its first ones.
LEMMA EventsKept ==
  ASSUME DeliveryTypeOK, LedgerStep, NEW o \in Ops
  PROVE  SubSeq(history'[o], 1, Len(history[o])) = history[o]
<1>1. history[o] \in Seq(Event) /\ history'[o] \in Seq(Event)
  BY TablesTyped DEF DeliveryTypeOK
<1>2. CASE history'[o] = history[o]
  BY <1>1, <1>2, SubSeqFull
<1>3. ASSUME NEW r, NEW id, NEW source, NEW told, Commit(o, r, id, source, told)
      PROVE  SubSeq(history'[o], 1, Len(history[o])) = history[o]
  <2> DEFINE n == Len(history[o])
             p == SubSeq(history'[o], 1, n)
  <2>1. /\ n \in Nat /\ Len(history'[o]) = n + 1
        /\ \A i \in 1 .. n : history'[o][i] = history[o][i]
    BY <1>3, OneEvent
  <2>2. /\ p \in Seq(Event) /\ Len(p) = n
        /\ \A i \in 1 .. n : p[i] = history'[o][i]
    BY <1>1, <2>1, SubSeqProperties
  <2> HIDE DEF p
  <2>3. p = history[o]
    BY <1>1, <2>1, <2>2, SeqEqual
  <2> QED BY <2>3 DEF p
<1> QED BY <1>2, <1>3, RowsKept

-----------------------------------------------------------------------------
(* Theorems about the journal.                                              *)

\* DeliveryAssumption holds in every behaviour; the ledger invariant does too.
LEMMA LedgerAlways ==
  DeliveryAssumption /\ DeliverySpec => [](DeliveryTypeOK /\ JournalInv)
<1> SUFFICES ASSUME DeliveryAssumption PROVE DeliverySpec => [](DeliveryTypeOK /\ JournalInv)
  OBVIOUS
<1>1. DeliveryInit => DeliveryTypeOK /\ JournalInv
  <2> SUFFICES ASSUME DeliveryInit PROVE DeliveryTypeOK /\ JournalInv
    OBVIOUS
  <2>1. OwnJournalReplays
    BY DEF DeliveryInit, OwnJournalReplays, ReplayAccepts
  <2>2. Marked
    BY DEF DeliveryInit, Marked, Recorded
  <2> QED BY <2>1, <2>2, DeliveryTypeInit DEF JournalInv
<1>2. DeliveryTypeOK /\ JournalInv /\ [DeliveryNext]_deliveryVars => (DeliveryTypeOK /\ JournalInv)'
  BY DeliveryTypeStep, StepEffect, ReplayKept, MarkedKept DEF JournalInv
<1> QED BY <1>1, <1>2, PTL DEF DeliverySpec

\* The delivery tables keep their shape, and only the owner's connection is
\* past its bind.
THEOREM DeliveryTyped == DeliveryAssumption /\ DeliverySpec => []DeliveryTypeOK
<1> QED BY LedgerAlways, PTL

\* Whatever handlers and sweeps interleave, a restart finds rows that
\* verify_delivery_replay accepts.
THEOREM JournalReplays == DeliveryAssumption /\ DeliverySpec => []OwnJournalReplays
<1>1. JournalInv => OwnJournalReplays
  BY DEF JournalInv
<1> QED BY <1>1, LedgerAlways, PTL

\* A verdict, an evidence mark, a cancellation wish and an event, once written,
\* stay (advance refuses terminal stages, _mutate appends).
THEOREM VerdictsStay == DeliveryAssumption /\ DeliverySpec => VerdictsFinal
<1> SUFFICES ASSUME DeliveryAssumption PROVE DeliverySpec => VerdictsFinal
  OBVIOUS
<1>1. ASSUME DeliveryTypeOK, [DeliveryNext]_deliveryVars, NEW o \in Ops
      PROVE  /\ rec[o].stage \in Terminal => rec'[o] = rec[o]
             /\ rec[o].cancel => rec'[o].cancel
             /\ rec[o].boundary => rec'[o].boundary
             /\ rec[o].acked => rec'[o].acked
             /\ SubSeq(history'[o], 1, Len(history[o])) = history[o]
  <2>1. LedgerStep
    BY <1>1, StepEffect
  <2>2. Kept(rec[o], rec'[o])
    BY <1>1, <2>1, RowsKept
  <2>3. SubSeq(history'[o], 1, Len(history[o])) = history[o]
    BY <1>1, <2>1, EventsKept
  <2> QED BY <2>2, <2>3 DEF Kept
<1>2. DeliveryTypeOK /\ [DeliveryNext]_deliveryVars =>
        [\A o \in Ops :
           /\ rec[o].stage \in Terminal => rec'[o] = rec[o]
           /\ rec[o].cancel => rec'[o].cancel
           /\ rec[o].boundary => rec'[o].boundary
           /\ rec[o].acked => rec'[o].acked
           /\ SubSeq(history'[o], 1, Len(history[o])) = history[o]]_deliveryVars
  BY <1>1
<1> QED BY <1>2, LedgerAlways, PTL DEF VerdictsFinal, DeliverySpec

-----------------------------------------------------------------------------
(* The supersession sweep.                                                  *)

\* A request that is open although it is addressed to another process.
Foreign(p) == {o \in Ops : IsOpen(o) /\ Recipient[o] # p}

\* What a registered session finds open of others, its sweep has before it: on
\* the page, or past the page and the cursor.
Awaits(p, o) ==
    /\ sweep[p].on
    /\ \/ o \in sweep[p].page
       \/ o > sweep[p].cursor /\ \A y \in sweep[p].page : o > y

SweptInv ==
    /\ \A p \in Procs : session = p => \A o \in Foreign(p) : Awaits(p, o)
    /\ \A o \in quarantined : rec[o].stage \in Terminal
    /\ \A w \in Sweepers : \A o \in sweep[w].page : rec[o].stage # "none"

\* A step opens a request only by admitting it to the registered session, and
\* un-admits none.
LEMMA StageMoves ==
  ASSUME DeliveryTypeOK, LedgerStep, NEW o \in Ops
  PROVE  /\ IsOpen(o)' => IsOpen(o) \/ session = Recipient[o]
         /\ rec[o].stage # "none" => rec'[o].stage # "none"
<1>1. ASSUME NEW x \in Ops, NEW r, NEW id, NEW source, NEW told,
             Commit(x, r, id, source, told), r.stage # "none",
             rec[x].stage \in Open \/ session = Recipient[x]
      PROVE  /\ IsOpen(o)' => IsOpen(o) \/ session = Recipient[o]
             /\ rec[o].stage # "none" => rec'[o].stage # "none"
  <2>1. CASE x = o
    BY <1>1, <2>1, OneEvent DEF IsOpen
  <2>2. CASE x # o
    <3>1. rec'[o] = rec[o]
      BY <1>1, <2>2, OneEvent
    <3> QED BY <3>1 DEF IsOpen
  <2> QED BY <2>1, <2>2
<1>2. CASE UNCHANGED <<rec, history>>
  BY <1>2 DEF IsOpen
<1>3. ASSUME NEW x \in Ops, Admitted(x)
      PROVE  /\ IsOpen(o)' => IsOpen(o) \/ session = Recipient[o]
             /\ rec[o].stage # "none" => rec'[o].stage # "none"
  <2>1. Queued.stage # "none"
    BY FirstRows
  <2> QED BY <1>1, <1>3, <2>1 DEF Admitted
<1>4. ASSUME NEW x \in Ops, Withdrawn(x)
      PROVE  /\ IsOpen(o)' => IsOpen(o) \/ session = Recipient[o]
             /\ rec[o].stage # "none" => rec'[o].stage # "none"
  <2>1. rec[x].stage \in Open /\ CancelRequested(rec[x]).stage # "none"
    BY <1>4, CancelledRow DEF Withdrawn, IsOpen, Open, DeliveryTypeOK
  <2> QED BY <1>1, <1>4, <2>1 DEF Withdrawn
<1>5. ASSUME NEW x \in Ops, NEW source \in {"recipient", "hub"},
             NEW s \in NextStages(rec[x].stage), Staged(x, s, source)
      PROVE  /\ IsOpen(o)' => IsOpen(o) \/ session = Recipient[o]
             /\ rec[o].stage # "none" => rec'[o].stage # "none"
  <2>1. s \in Open \union Terminal /\ rec[x].stage \in Open /\ s # "none"
    BY StagesReached DEF Open, Terminal
  <2>2. AtStage(rec[x], s).stage = s
    BY <2>1, StagedRow DEF DeliveryTypeOK
  <2> QED BY <1>1, <1>5, <2>1, <2>2 DEF Staged
<1> QED BY <1>2, <1>3, <1>4, <1>5 DEF LedgerStep

\* A row beside the first page of a set lies behind all of the page.
LEMMA BesidePage ==
  ASSUME NEW rows \in SUBSET Nat, IsFiniteSet(rows), NEW o \in rows \ FirstOf(rows),
         NEW y \in FirstOf(rows), PageSize \in Nat
  PROVE  o > y
<1> SUFFICES ASSUME o <= y PROVE FALSE
  BY DEF FirstOf
<1> DEFINE below(z) == {x \in rows : x < z}
<1>1. below(o) \subseteq below(y) /\ IsFiniteSet(below(y)) /\ IsFiniteSet(below(o))
  <2>1. o \in Nat /\ y \in Nat /\ \A x \in rows : x \in Nat
    BY DEF FirstOf
  <2>2. \A x \in rows : x < o => x < y
    BY <2>1
  <2>3. below(o) \subseteq below(y)
    BY <2>2
  <2> QED BY <2>3, FS_Subset
<1>2. /\ Cardinality(below(o)) \in Nat /\ Cardinality(below(y)) \in Nat
      /\ Cardinality(below(o)) <= Cardinality(below(y))
  BY <1>1, FS_Subset, FS_CardinalityType
<1>3. Cardinality(below(y)) < PageSize /\ ~(Cardinality(below(o)) < PageSize)
  BY DEF FirstOf
<1> QED BY <1>2, <1>3

\* Rows that are left fill a page.
LEMMA SomePage ==
  ASSUME NEW rows \in SUBSET Nat, rows # {}, PageSize \in Nat \ {0}
  PROVE  FirstOf(rows) # {}
<1>1. PICK m \in rows : \A z \in rows : m <= z
  BY LeastRow
<1>2. {x \in rows : x < m} = {}
  <2>1. m \in Nat /\ \A x \in rows : x \in Nat /\ ~(x < m)
    BY <1>1
  <2> QED BY <2>1
<1>3. Cardinality({x \in rows : x < m}) = 0
  BY <1>2, FS_EmptySet
<1> QED BY <1>1, <1>3 DEF FirstOf

\* The rows of a supersession sweep are those still open of others.
LEMMA SweepRows ==
  ASSUME DeliveryAssumption, DeliveryTypeOK, SweptInv, NEW p \in Procs
  PROVE  /\ p \in Sweepers /\ Rows(p) = {o \in Foreign(p) : o > sweep[p].cursor}
         /\ Rows(p) \in SUBSET Nat /\ IsFiniteSet(Rows(p))
         /\ PageSize \in Nat \ {0}
         /\ Verdict(p) = "superseded"
<1>1. p \in Sweepers /\ p \notin Expiry
  BY DEF Sweepers, DeliveryAssumption
<1>2. \A o \in Ops : IsOpen(o) => o \notin quarantined
  BY DEF SweptInv, IsOpen, Open, Terminal
<1>3. Due(p) = Foreign(p)
  BY <1>1, <1>2 DEF Due, Foreign
<1>4. Rows(p) = {o \in Foreign(p) : o > sweep[p].cursor}
  BY <1>3 DEF Rows
<1>5. Rows(p) \subseteq Ops
  BY <1>4 DEF Foreign
<1>6. Rows(p) \in SUBSET Nat /\ IsFiniteSet(Rows(p))
  BY <1>5, FS_Subset DEF DeliveryAssumption
<1> QED BY <1>1, <1>4, <1>6 DEF Verdict, DeliveryAssumption

\* A row the sweep took is open no more.
LEMMA TakenCloses ==
  ASSUME DeliveryAssumption, DeliveryTypeOK, Marked, NEW w \in Sweepers, SweepRow(w)
  PROVE  rec'[Taken(w)].stage \notin Open
<1> DEFINE o == Taken(w)
<1>1. o \in Ops /\ Verdict(w) \in {"expired", "superseded"}
  BY SweepEffect DEF Verdict
<1>2. CASE Staged(o, Verdict(w), "hub")
  <2>1. Verdict(w) \in Open \union Terminal /\ Verdict(w) \notin Open
    BY <1>1 DEF Open, Terminal
  <2>2. AtStage(rec[o], Verdict(w)).stage = Verdict(w)
    BY <1>1, <2>1, StagedRow DEF DeliveryTypeOK
  <2>3. rec'[o] = AtStage(rec[o], Verdict(w))
    BY <1>1, <1>2, OneEvent DEF Staged
  <2> QED BY <2>1, <2>2, <2>3
<1>3. CASE UNCHANGED <<rec, history, unsent>> /\ Recorded(o, Verdict(w))
  <2>1. rec[o].stage \in Terminal
    BY <1>1, <1>3 DEF Marked, Terminal
  <2> QED BY <1>3, <2>1 DEF Open, Terminal
<1>4. CASE UNCHANGED <<rec, history, unsent>> /\ Refuses(w, o)
  <2>1. rec[o].stage \notin Open
    BY <1>1, <1>4, OpenCloses DEF Refuses, Advances
  <2> QED BY <1>4, <2>1
<1> QED BY <1>2, <1>3, <1>4, SweepEffect

\* Rows on a page were admitted.
LEMMA PageAdmitted ==
  ASSUME DeliveryTypeOK, SweptInv, NEW w \in Sweepers, NEW o \in Page(w)
  PROVE  rec[o].stage # "none"
<1>1. CASE o \in sweep[w].page
  BY <1>1 DEF SweptInv
<1>2. CASE o \in FirstOf(Rows(w))
  BY <1>2 DEF FirstOf, Rows, Due, IsOpen, Open
<1> QED BY <1>1, <1>2 DEF Page

\* Only terminal rows are quarantined, and pages hold admitted ones.
LEMMA MarksKept ==
  ASSUME DeliveryAssumption, DeliveryTypeOK, SweptInv, [DeliveryNext]_deliveryVars
  PROVE  /\ \A o \in quarantined' : rec'[o].stage \in Terminal
         /\ \A w \in Sweepers : \A o \in sweep'[w].page : rec'[o].stage # "none"
<1> DEFINE Goal == /\ \A o \in quarantined' : rec'[o].stage \in Terminal
                   /\ \A w \in Sweepers : \A o \in sweep'[w].page : rec'[o].stage # "none"
<1>1. /\ \A o \in quarantined : o \in Ops /\ rec[o].stage \in Terminal
      /\ \A w \in Sweepers : \A o \in sweep[w].page : o \in Ops /\ rec[o].stage # "none"
  BY DEF SweptInv, DeliveryTypeOK
<1>2. \A o \in Ops : /\ rec[o].stage \in Terminal => rec'[o].stage \in Terminal
                     /\ rec[o].stage # "none" => rec'[o].stage # "none"
  BY StepEffect, RowsKept, StageMoves DEF Kept
<1>3. ASSUME NEW w \in Sweepers, SweepRow(w) PROVE Goal
  <2> DEFINE o == Taken(w)
  <2>1. o \in Ops /\ o \in Page(w) /\ Page(w) \subseteq Ops
    BY <1>3, TakenRow, PageTyped DEF SweepRow
  <2>2. sweep' = [sweep EXCEPT ![w] = [on |-> TRUE, page |-> Page(w) \ {o}, cursor |-> o,
           sending |-> ~Recorded(o, Verdict(w)) /\ ~Refuses(w, o) /\ Origin[o] \in online]]
    BY <1>3 DEF SweepRow, Taken
  <2>3. \A v \in Sweepers : sweep'[v].page \subseteq sweep[v].page \union Page(w)
    BY <2>2 DEF DeliveryTypeOK
  <2>4. \A x \in Page(w) : x \in Ops /\ rec[x].stage # "none"
    BY <1>3, <2>1, PageAdmitted
  <2>5. \A v \in Sweepers : \A x \in sweep'[v].page : rec'[x].stage # "none"
    BY <1>1, <1>2, <2>3, <2>4
  <2>6. quarantined' \subseteq quarantined \union (IF Refuses(w, o) THEN {o} ELSE {})
    BY <1>3 DEF SweepRow, Taken
  <2>7. ASSUME Refuses(w, o) PROVE rec[o].stage \in Terminal
    <3>1. rec[o].stage \notin Open
      BY <2>7, OpenCloses DEF Refuses, Advances, Verdict
    <3> QED BY <2>1, <2>4, <3>1 DEF DeliveryTypeOK, Row
  <2>8. \A x \in quarantined' : x \in Ops /\ rec[x].stage \in Terminal
    BY <1>1, <2>1, <2>6, <2>7
  <2> QED BY <1>2, <2>5, <2>8
<1>4. ASSUME \/ UNCHANGED <<quarantined, sweep>>
             \/ /\ UNCHANGED quarantined
                /\ \A w \in Sweepers : sweep'[w].page \subseteq sweep[w].page
      PROVE  Goal
  BY <1>1, <1>2, <1>4
<1>5. CASE SenderSteps \/ RequestSteps
  BY <1>4, <1>5 DEF SenderSteps, RequestSteps, SenderJoins, SenderLeaves, Admit, Cancel, ledger
<1>6. CASE RecipientSteps
  <2>1. ASSUME NEW p \in Procs, RegisterSession(p) PROVE Goal
    <3>1. \A w \in Sweepers : sweep'[w].page \subseteq sweep[w].page
      BY <2>1 DEF RegisterSession, DeliveryTypeOK, Idle
    <3> QED BY <1>4, <2>1, <3>1 DEF RegisterSession, ledger
  <2>2. ASSUME NEW p \in Procs,
               \/ Bind(p) \/ RegisterPlain(p) \/ RecipientLeaves(p)
               \/ \E o \in Ops : \E s \in Reports[o] : Report(p, o, s)
        PROVE Goal
    BY <1>4, <2>2 DEF Bind, RegisterPlain, RecipientLeaves, Report, ledger
  <2> QED BY <1>6, <2>1, <2>2 DEF RecipientSteps
<1>7. CASE SweepTurns
  <2>1. ASSUME NEW w \in Sweepers, SweepSent(w) PROVE Goal
    <3>1. \A v \in Sweepers : sweep'[v].page \subseteq sweep[v].page
      BY <2>1 DEF SweepSent, DeliveryTypeOK
    <3> QED BY <1>4, <2>1, <3>1 DEF SweepSent
  <2>2. ASSUME NEW w \in Sweepers, SweepEnds(w) PROVE Goal
    <3>1. \A v \in Sweepers : sweep'[v].page \subseteq sweep[v].page
      BY <2>2 DEF SweepEnds, DeliveryTypeOK, Idle
    <3> QED BY <1>4, <2>2, <3>1 DEF SweepEnds, ledger
  <2> QED BY <1>3, <1>7, <2>1, <2>2 DEF SweepTurns
<1>8. CASE Crash
  <2>1. \A v \in Sweepers : sweep'[v].page \subseteq sweep[v].page
    BY <1>8 DEF Crash, DeliveryTypeOK, Idle
  <2> QED BY <1>4, <1>8, <2>1 DEF Crash, ledger
<1>9. CASE Tick \/ Restart \/ UNCHANGED deliveryVars
  BY <1>4, <1>9 DEF Tick, Restart, deliveryVars, ledger
<1> QED BY <1>5, <1>6, <1>7, <1>8, <1>9 DEF DeliveryNext

\* A row the sweep of p took leaves the others before it.
LEMMA RowPasses ==
  ASSUME DeliveryAssumption, DeliveryTypeOK, SweptInv, NEW p \in Procs, session = p, SweepRow(p),
         NEW o \in Foreign(p), o # Taken(p)
  PROVE  Awaits(p, o)'
<1>1. p \in Sweepers /\ sweep[p] \in [on : BOOLEAN, page : SUBSET Ops,
                                      cursor : Ops \union {0}, sending : BOOLEAN]
  BY DEF Sweepers, DeliveryTypeOK
<1>2. /\ Taken(p) \in Page(p) /\ Taken(p) \in Ops /\ Page(p) \subseteq Ops
      /\ \A y \in Page(p) : Taken(p) <= y
  BY <1>1, TakenRow, PageTyped DEF SweepRow
<1>3. /\ sweep'[p].on /\ sweep'[p].page = Page(p) \ {Taken(p)}
      /\ sweep'[p].cursor = Taken(p)
  BY <1>1 DEF SweepRow, Taken, DeliveryTypeOK
<1>4. Ops \subseteq Nat /\ o \in Ops
  BY DEF DeliveryAssumption, Foreign
<1>5. Awaits(p, o)
  BY DEF SweptInv
<1>6. o \in Page(p) \/ \A y \in Page(p) : o > y
  <2>1. CASE sweep[p].page # {}
    BY <1>5, <2>1 DEF Page, Awaits
  <2>2. CASE sweep[p].page = {}
    <3>1. o > sweep[p].cursor
      BY <1>5, <2>2 DEF Awaits
    <3>2. o \in Rows(p) /\ Page(p) = FirstOf(Rows(p))
      BY <2>2, <3>1, SweepRows DEF Page
    <3> QED BY <3>2, SweepRows, BesidePage
  <2> QED BY <2>1, <2>2
<1>7. CASE o \in Page(p)
  BY <1>3, <1>7 DEF Awaits
<1>8. CASE \A y \in Page(p) : o > y
  BY <1>2, <1>3, <1>8 DEF Awaits
<1> QED BY <1>6, <1>7, <1>8

\* A sweep that ends leaves nothing open of others.
LEMMA NoneLeft ==
  ASSUME DeliveryAssumption, DeliveryTypeOK, SweptInv, NEW p \in Procs, session = p, SweepEnds(p)
  PROVE  Foreign(p) = {}
<1>1. sweep[p].page = {} /\ FirstOf(Rows(p)) = {}
  BY DEF SweepEnds, Page
<1>2. Rows(p) = {}
  BY <1>1, SweepRows, SomePage
<1> QED BY <1>1, <1>2, SweepRows DEF SweptInv, Awaits

\* What the registered session finds open of others stays before its sweep.
LEMMA AwaitedKept ==
  ASSUME DeliveryAssumption, DeliveryTypeOK, Marked, SweptInv, [DeliveryNext]_deliveryVars
  PROVE  \A p \in Procs : session' = p => \A o \in Foreign(p)' : Awaits(p, o)'
<1> DEFINE Goal == \A p \in Procs : session' = p => \A o \in Foreign(p)' : Awaits(p, o)'
<1>1. ASSUME NEW p \in Procs, session = p, NEW o \in Foreign(p)'
      PROVE  o \in Foreign(p) /\ o \in Ops
  BY <1>1, StepEffect, StageMoves DEF Foreign
<1>2. ASSUME session' = session,
             \A p \in Procs : /\ sweep'[p].on = sweep[p].on
                              /\ sweep'[p].page = sweep[p].page
                              /\ sweep'[p].cursor = sweep[p].cursor
      PROVE  Goal
  BY <1>1, <1>2 DEF SweptInv, Awaits
<1>3. ASSUME session' = Nobody PROVE Goal
  BY <1>3 DEF DeliveryAssumption
<1>4. CASE SenderSteps \/ RequestSteps
  BY <1>2, <1>4
     DEF SenderSteps, RequestSteps, SenderJoins, SenderLeaves, Admit, Cancel, binding
<1>5. CASE RecipientSteps
  <2>1. ASSUME NEW p \in Procs, RegisterSession(p) PROVE Goal
    <3>1. sweep'[p] = [Idle EXCEPT !.on = TRUE] /\ session' = p
      BY <2>1 DEF RegisterSession, DeliveryTypeOK, Sweepers
    <3>2. sweep'[p].on /\ sweep'[p].page = {} /\ sweep'[p].cursor = 0
      BY <3>1 DEF Idle
    <3>3. ASSUME NEW o \in Foreign(p)' PROVE Awaits(p, o)'
      <4>1. o > 0
        BY DEF Foreign, DeliveryAssumption
      <4> QED BY <3>2, <4>1 DEF Awaits
    <3> QED BY <3>1, <3>3
  <2>2. ASSUME NEW p \in Procs, RecipientLeaves(p) PROVE Goal
    BY <1>3, <2>2 DEF RecipientLeaves
  <2>3. ASSUME NEW p \in Procs,
               \/ Bind(p) \/ RegisterPlain(p)
               \/ \E o \in Ops : \E s \in Reports[o] : Report(p, o, s)
        PROVE Goal
    BY <1>2, <2>3 DEF Bind, RegisterPlain, Report, binding
  <2> QED BY <1>5, <2>1, <2>2, <2>3 DEF RecipientSteps
<1>6. CASE SweepTurns
  <2>1. ASSUME NEW w \in Sweepers, SweepRow(w) PROVE Goal
    <3>1. session' = session /\ \A p \in Procs \ {w} : sweep'[p] = sweep[p]
      BY <2>1 DEF SweepRow, binding, DeliveryTypeOK, Sweepers
    <3>2. ASSUME NEW p \in Procs, session = p, NEW o \in Foreign(p)' PROVE Awaits(p, o)'
      <4>1. o \in Foreign(p)
        BY <1>1, <3>2
      <4>2. CASE p # w
        <5>1. sweep'[p] = sweep[p]
          BY <3>1, <4>2
        <5> QED BY <3>2, <4>1, <5>1 DEF SweptInv, Awaits
      <4>3. CASE p = w
        <5>1. o # Taken(p)
          BY <2>1, <3>2, <4>3, TakenCloses DEF Foreign, IsOpen
        <5> QED BY <2>1, <3>2, <4>1, <4>3, <5>1, RowPasses
      <4> QED BY <4>2, <4>3
    <3> QED BY <3>1, <3>2
  <2>2. ASSUME NEW w \in Sweepers, SweepSent(w) PROVE Goal
    <3>1. \A p \in Procs : /\ sweep'[p].on = sweep[p].on
                           /\ sweep'[p].page = sweep[p].page
                           /\ sweep'[p].cursor = sweep[p].cursor
      BY <2>2 DEF SweepSent, DeliveryTypeOK, Sweepers
    <3> QED BY <1>2, <2>2, <3>1 DEF SweepSent, binding
  <2>3. ASSUME NEW w \in Sweepers, SweepEnds(w) PROVE Goal
    <3>1. session' = session /\ \A p \in Procs \ {w} : sweep'[p] = sweep[p]
      BY <2>3 DEF SweepEnds, DeliveryTypeOK, Sweepers
    <3>2. ASSUME NEW p \in Procs, session = p, NEW o \in Foreign(p)' PROVE Awaits(p, o)'
      <4>1. o \in Foreign(p)
        BY <1>1, <3>2
      <4>2. p # w
        BY <2>3, <3>2, <4>1, NoneLeft
      <4>3. sweep'[p] = sweep[p]
        BY <3>1, <4>2
      <4> QED BY <3>2, <4>1, <4>3 DEF SweptInv, Awaits
    <3> QED BY <3>1, <3>2
  <2> QED BY <1>6, <2>1, <2>2, <2>3 DEF SweepTurns
<1>7. CASE Crash
  BY <1>3, <1>7 DEF Crash
<1>8. CASE Tick \/ Restart \/ UNCHANGED deliveryVars
  BY <1>2, <1>8 DEF Tick, Restart, deliveryVars, binding
<1> QED BY <1>4, <1>5, <1>6, <1>7, <1>8 DEF DeliveryNext

\* A registered session whose sweep has ended is the recipient of every open
\* request, whatever admissions, takeovers and sweeps ran between the pages
\* (admit_delivery_request, open_for_other_incarnations).
THEOREM SessionOwnsOpenWork == DeliveryAssumption /\ DeliverySpec => []LiveSessionOwnsOpenWork
<1> SUFFICES ASSUME DeliveryAssumption PROVE DeliverySpec => []LiveSessionOwnsOpenWork
  OBVIOUS
<1> DEFINE Inv == DeliveryTypeOK /\ JournalInv
<1>1. DeliveryInit => SweptInv
  BY DEF DeliveryInit, SweptInv, Idle, DeliveryAssumption
<1>2. Inv /\ SweptInv /\ [DeliveryNext]_deliveryVars => SweptInv'
  BY AwaitedKept, MarksKept DEF SweptInv, JournalInv
<1>3. SweptInv => LiveSessionOwnsOpenWork
  BY DEF SweptInv, LiveSessionOwnsOpenWork, Awaits, Foreign
<1>4. DeliverySpec => []Inv
  BY LedgerAlways
<1> HIDE DEF Inv
<1> QED BY <1>1, <1>2, <1>3, <1>4, PTL DEF DeliverySpec
=============================================================================
