---------------------------- MODULE MailboxProofs ----------------------------
(***************************************************************************)
(* The receipts that await an ack are the pending ones of the journal and  *)
(* never more than the window holds; what the hub says of a reader -- a    *)
(* deferred receipt, a mailbox watermark -- names a chat the reader        *)
(* accepted; the counts it keeps are those its journal gives; and all of   *)
(* it keeps its shape.                                                     *)
(***************************************************************************)
EXTENDS Mailbox, TLAPS, FiniteSetTheorems, SequenceTheorems, WellFoundedInduction

\* A chat as the journal keeps it.
Entries == [by : Posters, to : SUBSET (Readers \cup Seats), asks : BOOLEAN]

\* The shape of what the receipts rest on; a handler posts a chat of the journal,
\* and a chat that is not journalled has no receipt.
Posting ==
    /\ log \in Seq(Entries) /\ Len(log) <= MaxChats
    /\ verdict \in [Chats -> Receipts] /\ notices \in Seq(Rows)
    /\ post \in [Posters -> Posted]
    /\ \A p \in Posters : post[p].at # "idle" => post[p].chat \in DOMAIN log
    /\ \A n \in Chats : n > Len(log) => verdict[n] = "none"

\* Every receipt that awaits an ack was announced: the oldest row is its place
\* in the window.
Announced == \A n \in awaiting : \E i \in DOMAIN notices : notices[i].chat = n

\* What the window theorem carries along.
WInv == Posting /\ Announced /\ AwaitingIsDurable

\* What a client tells the hub was accepted by it: its acks, the cursor it keeps
\* and the one it registered with.
Told ==
    /\ \A f \in {marked, cursor, since, accepted, sentAcks} : DOMAIN f = Readers
    /\ \A r \in Readers :
         /\ {marked[r], cursor[r], since[r]} \subseteq accepted[r] \cup {0}
         /\ sentAcks[r] \in Seq(accepted[r])
    /\ \A n \in Chats : verdict[n] = "deferred" =>
         \E r \in log[n].to \cap Readers : n \in accepted[r]

\* What the acceptance theorem carries along.
AInv == WInv /\ Told

-----------------------------------------------------------------------------
(* The window.                                                              *)

\* A set of naturals has a least member.
LEMMA LowestIsLeast ==
    ASSUME NEW S \in SUBSET Nat, S # {}
    PROVE  Lowest(S) \in S /\ \A x \in S : Lowest(S) <= x
<1> DEFINE R == {ss \in Nat \X Nat : ss[1] < ss[2]}
<1>1. IsWellFoundedOn(R, Nat)
  BY NatLessThanWellFounded DEF OpToRel
<1>2. PICK x \in S : \A y \in S : <<y, x>> \notin R
  <2> HIDE DEF R
  <2> QED
    BY <1>1, WFMin
<1>3. \A y \in S : ~(y < x)
  BY <1>2
<1>4. \A y \in S : x <= y
  BY <1>3
<1> QED
  BY <1>4, Zenon DEF Lowest

\* A window that holds a receipt has an oldest one.
LEMMA OldestAwaits ==
    ASSUME notices \in Seq(Rows), Announced, awaiting # {}
    PROVE  Oldest \in awaiting
<1>1. DOMAIN notices \subseteq Nat
  BY LenProperties
<1>2. \A n \in awaiting : FirstRow(n) \in Nat
  <2> TAKE n \in awaiting
  <2> DEFINE S == {i \in DOMAIN notices : notices[i].chat = n}
  <2>1. S \in SUBSET Nat /\ S # {}
    BY <1>1 DEF Announced
  <2>2. Lowest(S) \in S
    BY <2>1, LowestIsLeast
  <2> QED
    BY <2>1, <2>2 DEF FirstRow
<1> DEFINE T == {FirstRow(n) : n \in awaiting}
<1>3. T \in SUBSET Nat /\ T # {}
  BY <1>2
<1>4. Lowest(T) \in T /\ \A x \in T : Lowest(T) <= x
  BY <1>3, LowestIsLeast, Zenon
<1>5. \E n \in awaiting : \A m \in awaiting : FirstRow(n) <= FirstRow(m)
  BY <1>4
<1> QED
  BY <1>5, Zenon DEF Oldest

\* The window is finite.
LEMMA AwaitingFinite ==
    ASSUME MailboxAssumption, awaiting \subseteq Chats
    PROVE  IsFiniteSet(awaiting) /\ Cardinality(awaiting) \in Nat
<1>1. IsFiniteSet(Chats)
  BY FS_Interval DEF MailboxAssumption, Chats
<1> QED
  BY <1>1, FS_Subset, FS_CardinalityType

\* Rows that enter the outbox leave the ones before them in their place.
LEMMA RowsEnter ==
    ASSUME notices \in Seq(Rows), NEW rows \in Seq(Rows), Enqueue(rows)
    PROVE  /\ notices' \in Seq(Rows)
           /\ \A i \in DOMAIN notices : i \in DOMAIN notices' /\ notices'[i] = notices[i]
           /\ \A i \in DOMAIN rows : \E j \in DOMAIN notices' : notices'[j] = rows[i]
<1>1. notices' = notices \o rows
  BY DEF Enqueue
<1>2. /\ Len(notices) \in Nat /\ DOMAIN notices = 1..Len(notices)
      /\ Len(rows) \in Nat /\ DOMAIN rows = 1..Len(rows)
  BY LenProperties
<1>3. /\ notices' \in Seq(Rows) /\ Len(notices') = Len(notices) + Len(rows)
      /\ \A i \in 1..(Len(notices) + Len(rows)) :
           notices'[i] = IF i <= Len(notices) THEN notices[i] ELSE rows[i - Len(notices)]
  BY <1>1, ConcatProperties
<1>4. DOMAIN notices' = 1..(Len(notices) + Len(rows))
  BY <1>3, LenProperties
<1>5. \A i \in DOMAIN rows : /\ Len(notices) + i \in DOMAIN notices'
                             /\ notices'[Len(notices) + i] = rows[i]
  BY <1>2, <1>3, <1>4
<1> QED
  BY <1>2, <1>3, <1>4, <1>5

\* A verdict keeps the window: what it opens is announced, and one that leaves
\* the full window is expired with it.
LEMMA JudgeKeeps ==
    ASSUME MailboxAssumption, WInv, NEW n \in Chats, n \notin awaiting,
           NEW p \in Posters, NEW delivered \in BOOLEAN, Judge(n, p, delivered)
    PROVE  /\ verdict' \in [Chats -> Receipts] /\ notices' \in Seq(Rows)
           /\ Announced' /\ AwaitingIsDurable'
           /\ \A m \in Chats \ {n} : verdict'[m] \in {verdict[m], "expired"}
           /\ \A m \in Chats \ {n} : m \notin awaiting => verdict'[m] = verdict[m]
           /\ verdict'[n] \in {"delivered", "pending"}
<1> DEFINE gone == IF delivered THEN {} ELSE Evicted
           tail == IF gone = {} THEN <<>> ELSE <<Notice(Oldest, log[Oldest].by, "expired")>>
           first == <<Notice(n, p, "immediate")>>
<1>1. /\ \A m \in Chats : verdict'[m] =
              CASE m = n -> IF delivered THEN "delivered" ELSE "pending"
                [] m \in gone -> "expired"
                [] OTHER -> verdict[m]
      /\ DOMAIN verdict' = Chats /\ verdict' = [m \in Chats |-> verdict'[m]]
      /\ awaiting' = IF delivered THEN awaiting ELSE (awaiting \ gone) \cup {n}
      /\ Enqueue(first \o tail)
  BY DEF Judge
<1>2. /\ awaiting = {m \in Chats : verdict[m] = "pending"} /\ Cardinality(awaiting) <= MaxPending
      /\ notices \in Seq(Rows) /\ verdict \in [Chats -> Receipts]
  BY DEF WInv, Posting, AwaitingIsDurable
<1>3. /\ MaxPending \in Nat \ {0}
      /\ IsFiniteSet(awaiting) /\ Cardinality(awaiting) \in Nat
  BY <1>2, AwaitingFinite DEF MailboxAssumption
<1>4. gone # {} => gone = {Oldest} /\ Oldest \in awaiting
  <2>1. Cardinality(awaiting) >= MaxPending => awaiting # {}
    BY <1>3, FS_EmptySet
  <2> QED
    BY <1>2, <1>3, <2>1, OldestAwaits DEF Evicted, WInv
<1>5. gone \subseteq awaiting /\ (delivered => gone = {})
  BY <1>4
<1>6. first \o tail \in Seq(Rows) /\ \E i \in DOMAIN (first \o tail) : (first \o tail)[i].chat = n
  <2>1. Notice(n, p, "immediate") \in Rows
    BY DEF Notice, Rows
  <2>2. gone # {} => Notice(Oldest, log[Oldest].by, "expired") \in Rows
    <3> SUFFICES ASSUME gone # {} PROVE Notice(Oldest, log[Oldest].by, "expired") \in Rows
      OBVIOUS
    <3>1. Oldest \in Chats /\ verdict[Oldest] = "pending"
      BY <1>2, <1>4
    <3>2. Len(log) \in Nat /\ log \in Seq(Entries)
      BY LenProperties DEF WInv, Posting
    <3>3. Oldest \in 1..Len(log)
      BY <3>1, <3>2 DEF WInv, Posting, Chats
    <3>4. log[Oldest] \in Entries
      BY <3>2, <3>3, ElementOfSeq
    <3> QED
      BY <3>1, <3>4 DEF Notice, Rows, Entries
  <2>3. first \in Seq(Rows) /\ tail \in Seq(Rows) /\ Len(first) = 1 /\ first[1].chat = n
    BY <2>1, <2>2 DEF Notice
  <2> HIDE DEF first, tail
  <2>4. /\ first \o tail \in Seq(Rows) /\ Len(first \o tail) = Len(first) + Len(tail)
        /\ \A i \in 1..(Len(first) + Len(tail)) :
             (first \o tail)[i] = IF i <= Len(first) THEN first[i] ELSE tail[i - Len(first)]
    BY <2>3, ConcatProperties
  <2>5. Len(tail) \in Nat /\ DOMAIN (first \o tail) = 1..Len(first \o tail)
    BY <2>3, <2>4, LenProperties
  <2>6. 1 \in DOMAIN (first \o tail) /\ (first \o tail)[1] = first[1]
    BY <2>3, <2>4, <2>5
  <2> QED
    BY <2>3, <2>4, <2>6
<1> HIDE DEF gone, first, tail
<1>7. /\ notices' \in Seq(Rows)
      /\ \A i \in DOMAIN notices : i \in DOMAIN notices' /\ notices'[i] = notices[i]
      /\ \E j \in DOMAIN notices' : notices'[j].chat = n
  <2>1. \A i \in DOMAIN (first \o tail) : \E j \in DOMAIN notices' : notices'[j] = (first \o tail)[i]
    BY <1>1, <1>2, <1>6, RowsEnter
  <2>2. \E j \in DOMAIN notices' : notices'[j].chat = n
    BY <1>6, <2>1
  <2> QED
    BY <1>1, <1>2, <1>6, <2>2, RowsEnter
<1>8. Announced'
  <2> SUFFICES ASSUME NEW m \in awaiting'
               PROVE  \E i \in DOMAIN notices' : notices'[i].chat = m
    BY DEF Announced
  <2>1. m \in awaiting \/ m = n
    BY <1>1
  <2> QED
    BY <1>7, <2>1 DEF WInv, Announced
<1>9. awaiting' = {m \in Chats : verdict'[m] = "pending"}
  BY <1>1, <1>2, <1>5
<1>10. Cardinality(awaiting') <= MaxPending
  <2>1. CASE delivered
    BY <1>1, <1>2, <2>1
  <2>2. CASE ~delivered
    <3>1. IsFiniteSet(awaiting \ gone) /\ Cardinality(awaiting \ gone) \in Nat
      BY <1>3, FS_Subset, FS_CardinalityType
    <3>3. CASE gone = {}
      <4>1. Cardinality(awaiting) < MaxPending
        BY <2>2, <3>3 DEF gone, Evicted
      <4>2. awaiting' = awaiting \cup {n}
        BY <1>1, <2>2, <3>3
      <4>3. Cardinality(awaiting \cup {n}) = Cardinality(awaiting) + 1
        BY <1>3, FS_AddElement
      <4> QED
        BY <1>3, <4>1, <4>2, <4>3
    <3>4. CASE gone # {}
      <4>1. Cardinality(awaiting \ gone) = Cardinality(awaiting) - 1
        BY <1>3, <1>4, <3>4, FS_RemoveElement
      <4>2. awaiting' = (awaiting \ gone) \cup {n}
        BY <1>1, <2>2
      <4>3. n \notin awaiting \ gone
        OBVIOUS
      <4> DEFINE rest == awaiting \ gone
      <4> HIDE DEF rest
      <4>4. Cardinality(rest \cup {n}) = Cardinality(rest) + 1
        BY <3>1, <4>3, FS_AddElement DEF rest
      <4> QED
        BY <1>2, <1>3, <3>1, <4>1, <4>2, <4>4 DEF rest
    <3> QED
      BY <3>3, <3>4
  <2> QED
    BY <2>1, <2>2
<1>11. verdict' \in [Chats -> Receipts]
  <2>1. \A m \in Chats : verdict'[m] \in Receipts
    BY <1>1, <1>2 DEF Receipts
  <2> QED
    BY <1>1, <2>1
<1>12. /\ \A m \in Chats \ {n} : verdict'[m] \in {verdict[m], "expired"}
       /\ \A m \in Chats \ {n} : m \notin awaiting => verdict'[m] = verdict[m]
       /\ verdict'[n] \in {"delivered", "pending"}
  BY <1>1, <1>5
<1> QED
  BY <1>7, <1>8, <1>9, <1>10, <1>11, <1>12 DEF AwaitingIsDurable

-----------------------------------------------------------------------------
(* Handlers.                                                                *)

\* A step that leaves chats and receipts alone keeps the window.
LEMMA WindowKept ==
    ASSUME WInv, UNCHANGED <<log, verdict, notices, awaiting>>,
           post' \in [Posters -> Posted],
           \A p \in Posters : post'[p].at # "idle" => post'[p].chat \in DOMAIN log
    PROVE  WInv'
BY DEF WInv, Posting, Announced, AwaitingIsDurable

\* A connection that breaks leaves every handler at its chat.
LEMMA CutPosts ==
    ASSUME WInv, NEW r \in Readers
    PROVE  /\ Cut(r) \in [Posters -> Posted]
           /\ \A p \in Posters : /\ Cut(r)[p].at = post[p].at
                                 /\ Cut(r)[p].chat = post[p].chat
<1> SUFFICES ASSUME NEW p \in Posters
             PROVE  /\ Cut(r)[p] \in Posted
                    /\ Cut(r)[p].at = post[p].at /\ Cut(r)[p].chat = post[p].chat
  BY DEF Cut
<1>1. post[p] \in Posted
  BY DEF WInv, Posting
<1>2. Cut(r)[p] = IF r \in post[p].reached
                  THEN [post[p] EXCEPT !.cut = post[p].cut \cup {r}] ELSE post[p]
  BY DEF Cut
<1> QED
  BY <1>1, <1>2 DEF Posted

\* A handler that is through is at no chat.
LEMMA IdlePosts ==
    ASSUME MailboxAssumption, WInv, NEW p \in Posters
    PROVE  LET next == [post EXCEPT ![p] = Idle] IN
           /\ next \in [Posters -> Posted]
           /\ \A q \in Posters : next[q].at # "idle" => next[q].chat \in DOMAIN log
<1>1. Idle \in Posted /\ Idle.at = "idle"
  BY DEF MailboxAssumption, Idle, Posted
<1> QED
  BY <1>1 DEF WInv, Posting

\* A chat that is journalled keeps the window, judged at once or not.
LEMMA PostsKeepsWindow ==
    ASSUME MailboxAssumption, WInv, NEW p \in Posters, NEW to \in Audiences,
           NEW asks \in BOOLEAN, NEW stale \in SUBSET Readers, Posts(p, to, asks, stale)
    PROVE  WInv'
<1> DEFINE n == Len(log) + 1
           matched == {r \in Readers \cap to : socket[r] \in Registered}
           live == matched \ stale
           e == [by |-> p, to |-> to, asks |-> asks]
           gone == asks /\ matched # {} /\ live = {}
<1>1. /\ Len(log) < MaxChats /\ log' = Append(log, e)
      /\ post' = [post EXCEPT ![p] = [Idle EXCEPT !.at = "posted", !.chat = n, !.live = live]]
      /\ gone => Judge(n, p, FALSE)
      /\ ~gone => /\ verdict' = [verdict EXCEPT ![n] = IF asks THEN "requested" ELSE "none"]
                  /\ UNCHANGED <<notices, awaiting>>
  BY DEF Posts
<1>2. /\ Len(log) \in Nat /\ DOMAIN log = 1..Len(log) /\ log \in Seq(Entries)
      /\ verdict \in [Chats -> Receipts] /\ post \in [Posters -> Posted]
      /\ awaiting = {m \in Chats : verdict[m] = "pending"}
      /\ MaxChats \in Nat
  BY LenProperties DEF WInv, Posting, AwaitingIsDurable, MailboxAssumption
<1>3. e \in Entries
  BY DEF Entries, MailboxAssumption
<1>4. log' \in Seq(Entries) /\ Len(log') = n /\ DOMAIN log' = 1..n
  <2>1. log' \in Seq(Entries) /\ Len(log') = n
    BY <1>1, <1>2, <1>3, AppendProperties
  <2> QED
    BY <2>1, LenProperties
<1>5. n \in Chats /\ verdict[n] = "none" /\ n \notin awaiting
  BY <1>1, <1>2 DEF WInv, Posting, Chats
<1>6. /\ post' \in [Posters -> Posted]
      /\ \A q \in Posters : post'[q].at # "idle" => post'[q].chat \in DOMAIN log'
  <2> DEFINE here == [Idle EXCEPT !.at = "posted", !.chat = n, !.live = live]
  <2>1. here \in Posted /\ here.chat = n
    <3>1. live \in SUBSET Readers
      OBVIOUS
    <3>2. n \in 0..MaxChats
      BY <1>2, <1>5 DEF Chats
    <3> HIDE DEF live, n
    <3> QED
      BY <3>1, <3>2 DEF Posted, Idle
  <2>2. \A q \in Posters : post'[q] = IF q = p THEN here ELSE post[q]
    BY <1>1, <1>2
  <2>3. n \in DOMAIN log' /\ DOMAIN log \subseteq DOMAIN log'
    BY <1>2, <1>4
  <2>4. \A q \in Posters : post[q].at # "idle" => post[q].chat \in DOMAIN log
    BY DEF WInv, Posting
  <2> HIDE DEF here
  <2>5. post' \in [Posters -> Posted]
    BY <1>1, <1>2, <2>1 DEF here
  <2> QED
    BY <2>1, <2>2, <2>3, <2>4, <2>5
<1> HIDE DEF gone
<1>7. /\ verdict' \in [Chats -> Receipts] /\ notices' \in Seq(Rows)
      /\ Announced' /\ AwaitingIsDurable'
      /\ \A m \in Chats \ {n} : m \notin awaiting => verdict'[m] = verdict[m]
  <2>1. CASE gone
    BY <1>1, <1>5, <2>1, JudgeKeeps, Zenon
  <2>2. CASE ~gone
    <3>1. /\ verdict' = [verdict EXCEPT ![n] = IF asks THEN "requested" ELSE "none"]
          /\ UNCHANGED <<notices, awaiting>>
      BY <1>1, <2>2
    <3>2. verdict' \in [Chats -> Receipts]
      BY <1>2, <3>1 DEF Receipts
    <3>3. \A m \in Chats : verdict'[m] = "pending" <=> verdict[m] = "pending"
      BY <1>2, <1>5, <3>1
    <3>4. AwaitingIsDurable'
      BY <3>1, <3>3 DEF AwaitingIsDurable, WInv
    <3> QED
      BY <1>2, <3>1, <3>2, <3>4 DEF WInv, Posting, Announced
  <2> QED
    BY <2>1, <2>2
<1>8. \A m \in Chats : m > Len(log') => verdict'[m] = "none"
  <2> SUFFICES ASSUME NEW m \in Chats, m > Len(log')
               PROVE  verdict'[m] = "none"
    OBVIOUS
  <2>1. m \in Nat /\ m > Len(log) /\ m # n
    BY <1>2, <1>4 DEF Chats
  <2>2. verdict[m] = "none"
    BY <2>1 DEF WInv, Posting
  <2>3. m \notin awaiting
    BY <1>2, <2>2
  <2> QED
    BY <1>7, <2>1, <2>2, <2>3
<1>9. Len(log') <= MaxChats
  BY <1>1, <1>2, <1>4
<1> QED
  BY <1>4, <1>6, <1>7, <1>8, <1>9 DEF WInv, Posting

\* A chat whose writes ended keeps the window.
LEMMA CompletesKeepsWindow ==
    ASSUME MailboxAssumption, WInv, NEW p \in Posters, Completes(p)
    PROVE  WInv'
<1> DEFINE n == post[p].chat
<1>1. /\ post[p].at = "writing" /\ post' = [post EXCEPT ![p] = Idle] /\ log' = log
      /\ verdict[n] = "requested" => \E d \in BOOLEAN : Judge(n, p, d)
      /\ verdict[n] # "requested" => UNCHANGED <<verdict, notices, awaiting>>
  BY DEF Completes
<1>2. /\ Len(log) \in Nat /\ DOMAIN log = 1..Len(log)
      /\ Len(log) <= MaxChats /\ MaxChats \in Nat
  BY LenProperties DEF WInv, Posting, MailboxAssumption
<1>3. n \in Chats /\ n <= Len(log)
  BY <1>1, <1>2 DEF WInv, Posting, Chats
<1>4. /\ post' \in [Posters -> Posted]
      /\ \A q \in Posters : post'[q].at # "idle" => post'[q].chat \in DOMAIN log
  BY <1>1, IdlePosts
<1>5. CASE verdict[n] = "requested"
  <2>1. PICK d \in BOOLEAN : Judge(n, p, d)
    BY <1>1, <1>5
  <2>2. awaiting = {m \in Chats : verdict[m] = "pending"}
    BY DEF WInv, AwaitingIsDurable
  <2>3. n \notin awaiting
    BY <1>5, <2>2
  <2> HIDE DEF n
  <2>4. /\ verdict' \in [Chats -> Receipts] /\ notices' \in Seq(Rows)
        /\ Announced' /\ AwaitingIsDurable'
        /\ \A m \in Chats \ {n} : m \notin awaiting => verdict'[m] = verdict[m]
    BY <1>3, <2>1, <2>3, JudgeKeeps, Zenon
  <2>5. \A m \in Chats : m > Len(log) => verdict'[m] = "none"
    <3> SUFFICES ASSUME NEW m \in Chats, m > Len(log)
                 PROVE  verdict'[m] = "none"
      OBVIOUS
    <3>1. verdict[m] = "none" /\ m # n
      BY <1>2, <1>3 DEF WInv, Posting, Chats
    <3> QED
      BY <2>2, <2>4, <3>1
  <2> QED
    BY <1>1, <1>4, <2>4, <2>5 DEF WInv, Posting
<1>6. CASE verdict[n] # "requested"
  BY <1>1, <1>4, <1>6, WindowKept
<1> QED
  BY <1>5, <1>6

\* A frame that goes out leaves its handler at its chat.
LEMMA FansOutKeepsWindow ==
    ASSUME WInv, NEW p \in Posters, FansOut(p)
    PROVE  WInv'
<1> DEFINE rs == {r \in Readers : socket[r] # "off"}
           live == {r \in post[p].live : socket[r] \in Registered}
           here == [post[p] EXCEPT !.at = "writing", !.reached = rs, !.live = live]
<1>1. /\ post[p].at = "posted" /\ UNCHANGED <<log, verdict, notices, awaiting>>
      /\ post' = [post EXCEPT ![p] = here]
  BY DEF FansOut, records, mailbox
<1>2. post \in [Posters -> Posted] /\ post[p] \in Posted
  BY DEF WInv, Posting
<1>3. rs \in SUBSET Readers /\ live \in SUBSET Readers
  BY <1>2 DEF Posted
<1>4. here \in Posted /\ here.chat = post[p].chat
  <2> HIDE DEF rs, live
  <2> QED
    BY <1>2, <1>3 DEF Posted
<1> HIDE DEF here
<1>5. post' \in [Posters -> Posted]
  BY <1>1, <1>2, <1>4
<1>6. \A q \in Posters : post'[q].at # "idle" => post'[q].chat \in DOMAIN log
  <2>1. \A q \in Posters : post[q].at # "idle" => post[q].chat \in DOMAIN log
    BY DEF WInv, Posting
  <2> QED
    BY <1>1, <1>2, <1>4, <2>1
<1> QED
  BY <1>1, <1>5, <1>6, WindowKept

\* An ack that settles a receipt takes it out of the window.
LEMMA AcksKeepsWindow ==
    ASSUME MailboxAssumption, WInv, NEW r \in Readers, Acks(r)
    PROVE  WInv'
<1> DEFINE n == Head(sentAcks[r])
<1>1. /\ UNCHANGED <<log, post>>
      /\ ~Settles(r, n) => UNCHANGED <<verdict, notices, awaiting>>
      /\ Settles(r, n) => /\ verdict' = [verdict EXCEPT ![n] = "deferred"]
                          /\ awaiting' = awaiting \ {n}
                          /\ Enqueue(<<Notice(n, log[n].by, "deferred")>>)
  BY DEF Acks
<1>2. /\ post \in [Posters -> Posted] /\ notices \in Seq(Rows)
      /\ \A p \in Posters : post[p].at # "idle" => post[p].chat \in DOMAIN log
      /\ awaiting = {m \in Chats : verdict[m] = "pending"} /\ Cardinality(awaiting) <= MaxPending
      /\ log \in Seq(Entries) /\ Len(log) <= MaxChats /\ verdict \in [Chats -> Receipts]
      /\ \A m \in Chats : m > Len(log) => verdict[m] = "none"
  BY DEF WInv, Posting, AwaitingIsDurable
<1>3. CASE ~Settles(r, n)
  BY <1>1, <1>2, <1>3, WindowKept
<1>4. CASE Settles(r, n)
  <2>1. n \in Chats /\ verdict[n] = "pending" /\ n \in awaiting
    BY <1>2, <1>4 DEF Settles
  <2>2. Len(log) \in Nat /\ n \in 1..Len(log)
    BY <1>2, <2>1, LenProperties DEF Chats
  <2>3. log[n] \in Entries
    BY <1>2, <2>2, ElementOfSeq
  <2>4. <<Notice(n, log[n].by, "deferred")>> \in Seq(Rows)
    BY <2>1, <2>3 DEF Notice, Rows, Entries
  <2>5. /\ notices' \in Seq(Rows)
        /\ \A i \in DOMAIN notices : i \in DOMAIN notices' /\ notices'[i] = notices[i]
    BY <1>1, <1>2, <1>4, <2>4, RowsEnter
  <2> HIDE DEF n
  <2>6. /\ verdict' = [verdict EXCEPT ![n] = "deferred"]
        /\ awaiting' = awaiting \ {n}
    BY <1>1, <1>4 DEF n
  <2>7. /\ verdict' \in [Chats -> Receipts]
        /\ \A m \in Chats : m > Len(log) => verdict'[m] = "none"
        /\ awaiting' = {m \in Chats : verdict'[m] = "pending"}
    BY <1>2, <2>1, <2>2, <2>6 DEF Receipts
  <2>8. Cardinality(awaiting') <= MaxPending
    <3>1. IsFiniteSet(awaiting) /\ Cardinality(awaiting) \in Nat /\ MaxPending \in Nat
      BY <1>2, AwaitingFinite DEF MailboxAssumption
    <3>2. Cardinality(awaiting \ {n}) = Cardinality(awaiting) - 1
      BY <2>1, <3>1, FS_RemoveElement
    <3> QED
      BY <1>2, <2>6, <3>1, <3>2
  <2>9. Announced'
    BY <2>5, <2>6 DEF WInv, Announced
  <2> QED
    BY <1>1, <1>2, <2>5, <2>7, <2>8, <2>9 DEF WInv, Posting, AwaitingIsDurable
<1> QED
  BY <1>3, <1>4

\* A crash puts the pending receipts of the journal back into the window.
LEMMA FallsKeepsWindow ==
    ASSUME MailboxAssumption, WInv, Falls
    PROVE  WInv'
<1>1. UNCHANGED <<log, verdict, notices, awaiting>>
  BY DEF Falls, records, WInv, AwaitingIsDurable
<1>2. Idle \in Posted /\ Idle.at = "idle" /\ post' = [p \in Posters |-> Idle]
  BY DEF MailboxAssumption, Idle, Posted, Falls
<1> QED
  BY <1>1, <1>2, WindowKept

\* A handler that meets a row another one marked dies with its connection.
LEMMA NotifiesTwiceKeepsWindow ==
    ASSUME MailboxAssumption, WInv, NEW h \in Handlers, NotifiesTwice(h)
    PROVE  WInv'
<1>1. UNCHANGED <<log, verdict, notices, awaiting>>
  BY DEF NotifiesTwice, records, mailbox
<1>2. CASE h \in Readers
  BY <1>1, <1>2, CutPosts, WindowKept DEF NotifiesTwice, WInv, Posting
<1>3. CASE h \in Posters /\ h \notin Readers
  BY <1>1, <1>3, IdlePosts, WindowKept DEF NotifiesTwice
<1> QED
  BY <1>2, <1>3 DEF Handlers

\* Every step of a poster's handler keeps the window.
LEMMA PosterKeepsWindow ==
    ASSUME MailboxAssumption, WInv, PosterSteps
    PROVE  WInv'
<1>1. PICK p \in Posters :
        \/ \E to \in Audiences, asks \in BOOLEAN, stale \in SUBSET Readers :
             (asks => to # {}) /\ Posts(p, to, asks, stale)
        \/ FansOut(p) \/ Completes(p) \/ PosterLeaves(p) \/ PosterRegisters(p)
  BY DEF PosterSteps
<1>2. CASE \E to \in Audiences, asks \in BOOLEAN, stale \in SUBSET Readers :
             (asks => to # {}) /\ Posts(p, to, asks, stale)
  BY <1>2, PostsKeepsWindow
<1>3. CASE FansOut(p)
  BY <1>3, FansOutKeepsWindow
<1>4. CASE Completes(p)
  BY <1>4, CompletesKeepsWindow
<1>5. CASE PosterLeaves(p)
  BY <1>5, WindowKept DEF PosterLeaves, records, mailbox, WInv, Posting
<1>6. CASE PosterRegisters(p)
  BY <1>6, WindowKept DEF PosterRegisters, records, mailbox, WInv, Posting
<1> QED
  BY <1>1, <1>2, <1>3, <1>4, <1>5, <1>6

\* Every step of a reader's connection keeps the window.
LEMMA ReaderKeepsWindow ==
    ASSUME MailboxAssumption, WInv, ReaderSteps
    PROVE  WInv'
<1>1. PICK r \in Readers :
        \/ ReaderLeaves(r) \/ ReaderConnects(r) \/ ReaderRegisters(r) \/ Replays(r)
        \/ WritesBacklog(r) \/ Accepts(r) \/ Acks(r)
  BY DEF ReaderSteps
<1>2. CASE ReaderLeaves(r)
  BY <1>2, CutPosts, WindowKept DEF ReaderLeaves, records, mailbox, WInv, Posting
<1>3. CASE ReaderConnects(r) \/ ReaderRegisters(r) \/ WritesBacklog(r) \/ Accepts(r)
  BY <1>3, WindowKept DEF ReaderConnects, ReaderRegisters, WritesBacklog, Accepts,
     records, mailbox, handlers, WInv, Posting
<1>4. CASE Replays(r)
  BY <1>4, WindowKept DEF Replays, handlers, WInv, Posting
<1>5. CASE Acks(r)
  BY <1>5, AcksKeepsWindow
<1> QED
  BY <1>1, <1>2, <1>3, <1>4, <1>5

\* The window holds at the start.
LEMMA WindowInit ==
    ASSUME MailboxAssumption, MailInit
    PROVE  WInv
<1>1. Idle \in Posted /\ Idle.at = "idle"
  BY DEF MailboxAssumption, Idle, Posted
<1>2. awaiting = {n \in Chats : verdict[n] = "pending"} /\ awaiting = {}
  BY DEF MailInit
<1>3. Cardinality(awaiting) <= MaxPending
  <2>1. Cardinality(awaiting) = 0
    BY <1>2, FS_EmptySet, Zenon
  <2> QED
    BY <2>1 DEF MailboxAssumption
<1>4. Posting
  BY <1>1, EmptySeq DEF MailInit, Posting, MailboxAssumption, Receipts
<1> QED
  BY <1>2, <1>3, <1>4 DEF WInv, Announced, AwaitingIsDurable

\* Every step keeps the window.
LEMMA WindowStep ==
    ASSUME MailboxAssumption, WInv, [MailNext]_mailVars
    PROVE  WInv'
<1>1. CASE PosterSteps
  BY <1>1, PosterKeepsWindow
<1>2. CASE ReaderSteps
  BY <1>2, ReaderKeepsWindow
<1>3. CASE Who
  BY <1>3, WindowKept DEF Who, records, handlers, WInv, Posting
<1>4. CASE Falls
  BY <1>4, FallsKeepsWindow
<1>5. ASSUME NEW h \in Handlers, Notifies(h)
      PROVE  WInv'
  BY <1>5, WindowKept DEF Notifies, mailbox, WInv, Posting
<1>6. ASSUME NEW h \in Handlers, NotifiesTwice(h)
      PROVE  WInv'
  BY <1>6, NotifiesTwiceKeepsWindow
<1>7. CASE UNCHANGED mailVars
  BY <1>7, WindowKept DEF mailVars, records, mailbox, handlers, WInv, Posting
<1> QED
  BY <1>1, <1>2, <1>3, <1>4, <1>5, <1>6, <1>7 DEF MailNext

\* The receipts that await an ack are the pending ones of the journal, before and
\* after any crash, and never more than the window holds, however many chats ask
\* for one: each that leaves the full window is expired as another one enters.
THEOREM AwaitingDurable ==
    ASSUME MailboxAssumption
    PROVE  MailSpec => []AwaitingIsDurable
<1>1. MailInit => WInv
  BY WindowInit
<1>2. WInv /\ [MailNext]_mailVars => WInv'
  BY WindowStep
<1>3. WInv => AwaitingIsDurable
  BY DEF WInv
<1> QED
  BY <1>1, <1>2, <1>3, PTL DEF MailSpec

-----------------------------------------------------------------------------
(* What readers accepted.                                                   *)

\* What the hub reads of a reader's client, and what it made of it.
told == <<marked, cursor, since, accepted, sentAcks>>

\* A step that defers no receipt and leaves what clients told alone.
LEMMA ToldKept ==
    ASSUME Told, UNCHANGED told,
           \A n \in Chats : verdict'[n] = "deferred" =>
             verdict[n] = "deferred" /\ log'[n] = log[n]
    PROVE  Told'
BY DEF Told, told

\* A watermark follows what its reader accepted.
LEMMA AdvanceTold ==
    ASSUME Told, NEW r \in Readers, NEW n \in accepted[r] \cup {0}, AdvanceTo(r, n)
    PROVE  /\ DOMAIN marked' = Readers
           /\ \A q \in Readers : marked'[q] \in accepted[q] \cup {0}
BY DEF Told, AdvanceTo

\* A connection that breaks takes its acks with it; its client keeps its cursor,
\* or a new process has none.
LEMMA BreaksTold ==
    ASSUME Told, NEW r \in Readers, Breaks(r), UNCHANGED <<log, verdict, marked, accepted>>
    PROVE  Told'
<1>1. PICK c \in {cursor[r], 0} : cursor' = [cursor EXCEPT ![r] = c]
  BY DEF Breaks
<1>2. /\ sentAcks' = [sentAcks EXCEPT ![r] = <<>>] /\ since' = [since EXCEPT ![r] = 0]
      /\ <<>> \in Seq(accepted[r])
  BY EmptySeq DEF Breaks
<1> QED
  BY <1>1, <1>2 DEF Told

\* A verdict of a poster's handler defers no receipt.
LEMMA JudgeDefersNone ==
    ASSUME MailboxAssumption, WInv, NEW n \in Chats, n \notin awaiting,
           NEW p \in Posters, NEW delivered \in BOOLEAN, Judge(n, p, delivered)
    PROVE  \A m \in Chats : verdict'[m] = "deferred" => verdict[m] = "deferred" /\ m # n
<1>1. /\ \A m \in Chats \ {n} : verdict'[m] \in {verdict[m], "expired"}
      /\ verdict'[n] \in {"delivered", "pending"}
  BY JudgeKeeps
<1> QED
  BY <1>1

\* A chat that is journalled defers no receipt.
LEMMA PostsTold ==
    ASSUME MailboxAssumption, AInv, NEW p \in Posters, NEW to \in Audiences,
           NEW asks \in BOOLEAN, NEW stale \in SUBSET Readers, Posts(p, to, asks, stale)
    PROVE  Told'
<1> DEFINE n == Len(log) + 1
           e == [by |-> p, to |-> to, asks |-> asks]
<1>1. /\ Len(log) < MaxChats /\ log' = Append(log, e) /\ UNCHANGED told
      /\ \/ Judge(n, p, FALSE)
         \/ verdict' = [verdict EXCEPT ![n] = IF asks THEN "requested" ELSE "none"]
  BY DEF Posts, told, lines, clients
<1>2. /\ WInv /\ Told /\ log \in Seq(Entries) /\ verdict \in [Chats -> Receipts]
      /\ Len(log) \in Nat /\ MaxChats \in Nat /\ e \in Entries
      /\ awaiting = {m \in Chats : verdict[m] = "pending"}
      /\ \A m \in Chats : m > Len(log) => verdict[m] = "none"
  BY LenProperties DEF AInv, WInv, Posting, AwaitingIsDurable, MailboxAssumption, Entries
<1>3. n \in Chats /\ n \notin awaiting
  BY <1>1, <1>2 DEF Chats
<1>4. \A m \in Chats : verdict'[m] = "deferred" => verdict[m] = "deferred" /\ m # n
  <2>1. CASE Judge(n, p, FALSE)
    BY <1>2, <1>3, <2>1, JudgeDefersNone, Zenon
  <2>2. CASE verdict' = [verdict EXCEPT ![n] = IF asks THEN "requested" ELSE "none"]
    BY <1>2, <2>2
  <2> QED
    BY <1>1, <2>1, <2>2
<1>5. \A m \in 1..Len(log) : log'[m] = log[m]
  BY <1>1, <1>2, AppendProperties
<1>6. \A m \in Chats : verdict[m] = "deferred" => m \in 1..Len(log)
  BY <1>2 DEF Chats
<1> QED
  BY <1>1, <1>2, <1>4, <1>5, <1>6, ToldKept

\* A chat whose writes ended defers no receipt.
LEMMA CompletesTold ==
    ASSUME MailboxAssumption, AInv, NEW p \in Posters, Completes(p)
    PROVE  Told'
<1> DEFINE n == post[p].chat
<1>1. /\ post[p].at = "writing" /\ log' = log /\ UNCHANGED told
      /\ verdict[n] = "requested" => \E d \in BOOLEAN : Judge(n, p, d)
      /\ verdict[n] # "requested" => UNCHANGED verdict
  BY DEF Completes, told, lines, clients
<1>2. /\ WInv /\ Told /\ awaiting = {m \in Chats : verdict[m] = "pending"}
      /\ n \in DOMAIN log /\ DOMAIN log = 1..Len(log) /\ Len(log) <= MaxChats
      /\ Len(log) \in Nat /\ MaxChats \in Nat
  BY <1>1, LenProperties DEF AInv, WInv, Posting, AwaitingIsDurable, MailboxAssumption
<1>3. n \in Chats
  BY <1>2 DEF Chats
<1>4. \A m \in Chats : verdict'[m] = "deferred" => verdict[m] = "deferred"
  <2>1. CASE verdict[n] = "requested"
    <3>1. n \notin awaiting
      BY <1>2, <2>1
    <3>2. PICK d \in BOOLEAN : Judge(n, p, d)
      BY <1>1, <2>1
    <3> QED
      BY <1>2, <1>3, <3>1, <3>2, JudgeDefersNone, Zenon
  <2>2. CASE verdict[n] # "requested"
    BY <1>1, <2>2
  <2> QED
    BY <2>1, <2>2
<1> QED
  BY <1>1, <1>2, <1>4, ToldKept

\* A chat a client reads is accepted, before its ack is sent.
LEMMA AcceptsTold ==
    ASSUME AInv, NEW r \in Readers, Accepts(r)
    PROVE  Told'
<1> DEFINE n == Head(wire[r])
           grown == accepted[r] \cup {n}
<1>1. /\ cursor' = [cursor EXCEPT ![r] = IF n > @ THEN n ELSE @]
      /\ accepted' = [accepted EXCEPT ![r] = grown]
      /\ sentAcks' = [sentAcks EXCEPT ![r] = Append(@, n)]
      /\ UNCHANGED <<log, verdict, marked, since>>
  BY DEF Accepts, records
<1>2. /\ \A f \in {marked, cursor, since, accepted, sentAcks} : DOMAIN f = Readers
      /\ \A q \in Readers : /\ {marked[q], cursor[q], since[q]} \subseteq accepted[q] \cup {0}
                            /\ sentAcks[q] \in Seq(accepted[q])
      /\ \A m \in Chats : verdict[m] = "deferred" =>
           \E q \in log[m].to \cap Readers : m \in accepted[q]
  BY DEF AInv, Told
<1>3. Append(sentAcks[r], n) \in Seq(grown)
  <2>1. sentAcks[r] \in Seq(grown)
    BY <1>2, SeqMonotonic
  <2> QED
    BY <2>1, AppendProperties
<1> HIDE DEF n
<1>4. /\ \A q \in Readers : accepted[q] \subseteq accepted'[q]
      /\ accepted'[r] = grown /\ \A q \in Readers \ {r} : accepted'[q] = accepted[q]
  BY <1>1, <1>2
<1>5. /\ sentAcks'[r] = Append(sentAcks[r], n)
      /\ \A q \in Readers \ {r} : sentAcks'[q] = sentAcks[q]
      /\ cursor'[r] \in {n, cursor[r]}
      /\ \A q \in Readers \ {r} : cursor'[q] = cursor[q]
  BY <1>1, <1>2
<1>6. \A f \in {marked, cursor, since, accepted, sentAcks}' : DOMAIN f = Readers
  BY <1>1, <1>2
<1>7. ASSUME NEW q \in Readers
      PROVE  /\ {marked[q], cursor[q], since[q]}' \subseteq accepted'[q] \cup {0}
             /\ sentAcks'[q] \in Seq(accepted'[q])
  <2>1. CASE q = r
    <3>1. sentAcks'[q] \in Seq(accepted'[q])
      BY <1>3, <1>4, <1>5, <2>1
    <3>2. cursor'[q] \in accepted'[q] \cup {0}
      BY <1>2, <1>4, <1>5, <2>1
    <3> QED
      BY <1>1, <1>2, <1>4, <3>1, <3>2
  <2>2. CASE q # r
    BY <1>1, <1>2, <1>4, <1>5, <2>2
  <2> QED
    BY <2>1, <2>2
<1>8. \A m \in Chats : verdict'[m] = "deferred" =>
        \E q \in log'[m].to \cap Readers : m \in accepted'[q]
  BY <1>1, <1>2, <1>4
<1> QED
  BY <1>6, <1>7, <1>8 DEF Told

\* An ack that is read names a chat its reader accepted: the watermark moves to
\* it, and the receipt it settles is deferred by one the chat addresses.
LEMMA AcksTold ==
    ASSUME AInv, NEW r \in Readers, Acks(r)
    PROVE  Told'
<1> DEFINE n == Head(sentAcks[r])
<1>1. /\ sentAcks[r] # <<>> /\ sentAcks' = [sentAcks EXCEPT ![r] = Tail(@)]
      /\ UNCHANGED <<log, since, cursor, accepted>>
      /\ \/ AdvanceTo(r, n) \/ UNCHANGED marked
      /\ \/ Settles(r, n) /\ verdict' = [verdict EXCEPT ![n] = "deferred"]
         \/ UNCHANGED verdict
  BY DEF Acks, clients
<1>2. /\ Told /\ sentAcks[r] \in Seq(accepted[r]) /\ verdict \in [Chats -> Receipts]
      /\ DOMAIN sentAcks = Readers
  BY DEF AInv, WInv, Posting, Told
<1>3. n \in accepted[r] /\ Tail(sentAcks[r]) \in Seq(accepted[r])
  BY <1>1, <1>2, HeadTailProperties
<1> HIDE DEF n
<1>4. /\ DOMAIN marked' = Readers
      /\ \A q \in Readers : marked'[q] \in accepted[q] \cup {0}
  <2>1. CASE AdvanceTo(r, n)
    BY <1>2, <1>3, <2>1, AdvanceTold
  <2>2. CASE UNCHANGED marked
    BY <1>2, <2>2 DEF Told
  <2> QED
    BY <1>1, <2>1, <2>2
<1>5. /\ DOMAIN sentAcks' = Readers
      /\ \A q \in Readers : sentAcks'[q] \in Seq(accepted[q])
  BY <1>1, <1>2, <1>3 DEF Told
<1>6. \A m \in Chats : verdict'[m] = "deferred" =>
        \E q \in log[m].to \cap Readers : m \in accepted[q]
  BY <1>1, <1>2, <1>3 DEF Told, Settles
<1> QED
  BY <1>1, <1>2, <1>4, <1>5, <1>6 DEF Told

\* Every step of a reader's connection keeps what its client told.
LEMMA ReaderTold ==
    ASSUME AInv, ReaderSteps
    PROVE  Told'
<1>1. PICK r \in Readers :
        \/ ReaderLeaves(r) \/ ReaderConnects(r) \/ ReaderRegisters(r) \/ Replays(r)
        \/ WritesBacklog(r) \/ Accepts(r) \/ Acks(r)
  BY DEF ReaderSteps
<1>2. Told
  BY DEF AInv
<1>3. CASE ReaderLeaves(r)
  BY <1>2, <1>3, BreaksTold DEF ReaderLeaves, records
<1>4. CASE ReaderConnects(r)
  BY <1>2, <1>4 DEF ReaderConnects, records, clients, Told
<1>5. CASE ReaderRegisters(r) \/ WritesBacklog(r)
  BY <1>2, <1>5, ToldKept DEF ReaderRegisters, WritesBacklog, records, clients, told
<1>6. CASE Replays(r)
  <2>1. /\ AdvanceTo(r, since[r]) /\ since' = [since EXCEPT ![r] = 0]
        /\ UNCHANGED <<log, verdict, sentAcks, cursor, accepted>>
    BY <1>6 DEF Replays, clients
  <2>2. since[r] \in accepted[r] \cup {0}
    BY <1>2 DEF Told
  <2>3. /\ DOMAIN marked' = Readers
        /\ \A q \in Readers : marked'[q] \in accepted[q] \cup {0}
    BY <1>2, <2>1, <2>2, AdvanceTold
  <2>4. DOMAIN since' = Readers /\ \A q \in Readers : since'[q] \in {since[q], 0}
    BY <1>2, <2>1 DEF Told
  <2>5. \A f \in {marked, cursor, since, accepted, sentAcks}' : DOMAIN f = Readers
    BY <1>2, <2>1, <2>3, <2>4 DEF Told
  <2>6. \A q \in Readers : /\ {marked[q], cursor[q], since[q]}' \subseteq accepted[q] \cup {0}
                           /\ sentAcks'[q] \in Seq(accepted[q])
    BY <1>2, <2>1, <2>3, <2>4 DEF Told
  <2> QED
    BY <1>2, <2>1, <2>5, <2>6 DEF Told
<1>7. CASE Accepts(r)
  BY <1>7, AcceptsTold
<1>8. CASE Acks(r)
  BY <1>8, AcksTold
<1> QED
  BY <1>1, <1>3, <1>4, <1>5, <1>6, <1>7, <1>8

\* A crash takes the acks on their way; readers connect again with what they have.
LEMMA FallsTold ==
    ASSUME Told, Falls
    PROVE  Told'
<1>1. /\ sentAcks' = [r \in Readers |-> <<>>] /\ since' = [r \in Readers |-> 0]
      /\ UNCHANGED <<log, verdict, marked, cursor, accepted>>
  BY DEF Falls, records, clients
<1>2. \A r \in Readers : <<>> \in Seq(accepted[r])
  BY EmptySeq
<1> QED
  BY <1>1, <1>2 DEF Told

\* Every step keeps what clients told.
LEMMA ToldStep ==
    ASSUME MailboxAssumption, AInv, [MailNext]_mailVars
    PROVE  Told'
<1>1. Told
  BY DEF AInv
<1>2. CASE PosterSteps
  <2>1. PICK p \in Posters :
          \/ \E to \in Audiences, asks \in BOOLEAN, stale \in SUBSET Readers :
               (asks => to # {}) /\ Posts(p, to, asks, stale)
          \/ FansOut(p) \/ Completes(p) \/ PosterLeaves(p) \/ PosterRegisters(p)
    BY <1>2 DEF PosterSteps
  <2>2. CASE \E to \in Audiences, asks \in BOOLEAN, stale \in SUBSET Readers :
               (asks => to # {}) /\ Posts(p, to, asks, stale)
    BY <2>2, PostsTold
  <2>3. CASE Completes(p)
    BY <2>3, CompletesTold
  <2>4. CASE FansOut(p) \/ PosterLeaves(p) \/ PosterRegisters(p)
    BY <1>1, <2>4, ToldKept DEF FansOut, PosterLeaves, PosterRegisters, records, lines,
       clients, told
  <2> QED
    BY <2>1, <2>2, <2>3, <2>4
<1>3. CASE ReaderSteps
  BY <1>3, ReaderTold
<1>4. CASE Who
  BY <1>1, <1>4, ToldKept DEF Who, records, lines, clients, told
<1>5. CASE Falls
  BY <1>1, <1>5, FallsTold
<1>6. ASSUME NEW h \in Handlers, Notifies(h)
      PROVE  Told'
  BY <1>1, <1>6, ToldKept DEF Notifies, lines, clients, told
<1>7. ASSUME NEW h \in Handlers, NotifiesTwice(h)
      PROVE  Told'
  <2>1. CASE h \in Readers
    BY <1>1, <1>7, <2>1, BreaksTold DEF NotifiesTwice, records
  <2>2. CASE h \notin Readers
    BY <1>1, <1>7, <2>2, ToldKept DEF NotifiesTwice, records, told
  <2> QED
    BY <2>1, <2>2
<1>8. CASE UNCHANGED mailVars
  BY <1>1, <1>8, ToldKept DEF mailVars, records, lines, clients, told
<1> QED
  BY <1>2, <1>3, <1>4, <1>5, <1>6, <1>7, <1>8 DEF MailNext

\* A deferred receipt and a mailbox watermark name a chat that a client of the
\* reader accepted, whoever acked, however late, and whatever crashed since.
THEOREM AckedAccepted ==
    ASSUME MailboxAssumption
    PROVE  MailSpec => []AckedWasAccepted
<1>1. MailInit => AInv
  <2> SUFFICES ASSUME MailInit PROVE AInv
    OBVIOUS
  <2>1. Told
    BY EmptySeq DEF MailInit, Told
  <2> QED
    BY <2>1, WindowInit DEF AInv
<1>2. AInv /\ [MailNext]_mailVars => AInv'
  BY WindowStep, ToldStep DEF AInv
<1>3. AInv => AckedWasAccepted
  BY DEF AInv, Told, AckedWasAccepted
<1> QED
  BY <1>1, <1>2, <1>3, PTL DEF MailSpec

-----------------------------------------------------------------------------
(* The counts.                                                             *)

\* What goes over the lines between the hub and its readers, and what came of
\* it, names chats of the journal; a replay has frames left to write.
Named ==
    /\ {backlog, wire, sentAcks} \subseteq [Readers -> Seq(DOMAIN log)]
    /\ {since, cursor, marked} \subseteq [Readers -> {0} \cup DOMAIN log]
    /\ socket \in [Readers -> Sockets]
    /\ \A r \in Readers : socket[r] = "replaying" => backlog[r] # <<>>

\* The tracker's own tables.
Counted ==
    /\ watermark = marked /\ counts \in [Readers -> Int \cup {Cold}]
    /\ CountsAgree

\* What the theorem about counts carries along.
CInv == WInv /\ Named /\ Counted

\* A set of naturals can be listed in its order.
LEMMA Listed ==
    ASSUME NEW A \in SUBSET Nat, IsFiniteSet(A)
    PROVE  \E s \in [1..Cardinality(A) -> A] :
             \A i, j \in 1..Cardinality(A) : i < j => s[i] < s[j]
<1> DEFINE Listing(B) == {s \in [1..Cardinality(B) -> B] :
                            \A i, j \in 1..Cardinality(B) : i < j => s[i] < s[j]}
           Bad == {k \in Nat : \E B \in SUBSET A : Cardinality(B) = k /\ Listing(B) = {}}
<1> SUFFICES ASSUME Bad # {} PROVE FALSE
  <2>1. Cardinality(A) \in Nat
    BY FS_CardinalityType
  <2>2. Cardinality(A) \notin Bad
    OBVIOUS
  <2>3. Listing(A) # {}
    BY <2>1, <2>2
  <2> QED
    BY <2>3
<1>1. Lowest(Bad) \in Bad /\ \A x \in Bad : Lowest(Bad) <= x
  <2>1. Bad \in SUBSET Nat
    OBVIOUS
  <2> HIDE DEF Bad
  <2> QED
    BY <2>1, LowestIsLeast
<1>2. PICK B \in SUBSET A : Cardinality(B) = Lowest(Bad) /\ Listing(B) = {}
  BY <1>1
<1>3. IsFiniteSet(B) /\ Cardinality(B) \in Nat /\ B \in SUBSET Nat
  BY FS_Subset, FS_CardinalityType
<1>4. B # {}
  <2> SUFFICES ASSUME B = {} PROVE FALSE
    OBVIOUS
  <2>1. Cardinality(B) = 0
    BY FS_EmptySet
  <2>2. [i \in 1..0 |-> 0] \in Listing(B)
    BY <2>1
  <2> QED
    BY <1>2, <2>2
<1> DEFINE m == Lowest(B)
           U == B \ {m}
<1>5. m \in B /\ \A x \in B : m <= x
  BY <1>3, <1>4, LowestIsLeast
<1>6. Cardinality(U) = Cardinality(B) - 1 /\ Cardinality(U) \in Nat
  BY <1>3, <1>5, FS_RemoveElement, FS_CardinalityType
<1>7. PICK s \in Listing(U) : TRUE
  <2>1. Cardinality(U) \notin Bad
    <3> HIDE DEF Bad, U
    <3> QED
      BY <1>1, <1>2, <1>3, <1>6
  <2>2. U \in SUBSET A
    OBVIOUS
  <2> HIDE DEF U
  <2> QED
    BY <1>6, <2>1, <2>2
<1> DEFINE K == Cardinality(B)
           t == [i \in 1..K |-> IF i = 1 THEN m ELSE s[i - 1]]
<1>8. \A i \in 1..(K - 1) : s[i] \in B /\ m < s[i]
  <2>1. s \in [1..(K - 1) -> U]
    BY <1>6, <1>7
  <2>2. ASSUME NEW x \in U PROVE x \in B /\ m < x
    <3> HIDE DEF m
    <3>1. x \in B /\ x # m /\ x \in Nat /\ m \in Nat /\ m <= x
      BY <1>3, <1>5
    <3> QED
      BY <3>1
  <2> HIDE DEF K, m, U
  <2> QED
    BY <2>1, <2>2
<1>9. \A i, j \in 1..(K - 1) : i < j => s[i] < s[j]
  BY <1>6, <1>7
<1> HIDE DEF m, U
<1>10. K \in Nat /\ m \in B
  BY <1>3, <1>5
<1>11. t \in Listing(B)
  <2> HIDE DEF K
  <2>1. t \in [1..K -> B]
    BY <1>8, <1>10
  <2>2. ASSUME NEW i \in 1..K, NEW j \in 1..K, i < j PROVE t[i] < t[j]
    <3>1. j - 1 \in 1..(K - 1) /\ t[j] = s[j - 1]
      BY <1>10, <2>2
    <3>2. CASE i = 1
      BY <1>8, <3>1, <3>2
    <3>3. CASE i # 1
      <4>1. i - 1 \in 1..(K - 1) /\ i - 1 < j - 1 /\ t[i] = s[i - 1]
        BY <1>10, <2>2, <3>3
      <4> QED
        BY <1>9, <3>1, <4>1
    <3> QED
      BY <3>2, <3>3
  <2> HIDE DEF t
  <2> QED
    BY <2>1, <2>2 DEF K
<1> QED
  BY <1>2, <1>11

\* What a replay reads is in the journal.
LEMMA MissedNamed ==
    ASSUME WInv, NEW r \in Readers
    PROVE  Missed(r) \in Seq(DOMAIN log)
<1> DEFINE A == Addressed(r, since[r])
<1>1. DOMAIN log = 1..Len(log) /\ Len(log) \in Nat
  BY LenProperties DEF WInv, Posting
<1>2. A \subseteq DOMAIN log
  BY DEF Addressed
<1>3. IsFiniteSet(A) /\ A \in SUBSET Nat
  <2>1. IsFiniteSet(DOMAIN log)
    BY <1>1, FS_Interval
  <2> HIDE DEF A
  <2> QED
    BY <1>1, <1>2, <2>1, FS_Subset
<1>4. Cardinality(A) \in Nat
  BY <1>3, FS_CardinalityType
<1> HIDE DEF A
<1>5. (CHOOSE s \in [1..Cardinality(A) -> A] : \A i, j \in DOMAIN s : i < j => s[i] < s[j])
        \in [1..Cardinality(A) -> A]
  <2>1. PICK s \in [1..Cardinality(A) -> A] :
          \A i, j \in 1..Cardinality(A) : i < j => s[i] < s[j]
    BY <1>3, Listed
  <2>2. DOMAIN s = 1..Cardinality(A)
    OBVIOUS
  <2> QED
    BY <2>1, <2>2
<1>6. Missed(r) \in [1..Cardinality(A) -> DOMAIN log]
  BY <1>2, <1>5 DEF Missed, A
<1> QED
  BY <1>4, <1>6

\* The chats above a watermark are finitely many, and fewer above a higher one.
LEMMA AddressedFinite ==
    ASSUME WInv, NEW r \in Readers, NEW low \in Int
    PROVE  /\ IsFiniteSet(Addressed(r, low)) /\ Cardinality(Addressed(r, low)) \in Nat
           /\ Addressed(r, low) \subseteq DOMAIN log
           /\ DOMAIN log = 1..Len(log) /\ Len(log) \in Nat
<1>1. DOMAIN log = 1..Len(log) /\ Len(log) \in Nat
  BY LenProperties DEF WInv, Posting
<1>2. Addressed(r, low) \subseteq DOMAIN log
  BY DEF Addressed
<1>3. IsFiniteSet(DOMAIN log)
  BY <1>1, FS_Interval
<1> QED
  BY <1>1, <1>2, <1>3, FS_Subset, FS_CardinalityType

\* A watermark that moves counts out what it passes.
LEMMA AdvanceCounts ==
    ASSUME MailboxAssumption, WInv, Named, Counted, NEW r \in Readers,
           NEW through \in {0} \cup DOMAIN log, log' = log, AdvanceTo(r, through)
    PROVE  marked' \in [Readers -> {0} \cup DOMAIN log] /\ Counted'
<1> DEFINE w == watermark[r]
           A == Addressed(r, w)
           B == Addressed(r, through)
<1>1. /\ DOMAIN log = 1..Len(log) /\ Len(log) \in Nat
      /\ marked \in [Readers -> {0} \cup DOMAIN log] /\ watermark = marked
      /\ counts \in [Readers -> Int \cup {Cold}] /\ Cold \notin Int
      /\ \A q \in Readers : counts[q] # Cold => counts[q] = Cardinality(Addressed(q, watermark[q]))
  BY LenProperties DEF WInv, Posting, Named, Counted, CountsAgree, MailboxAssumption
<1>2. w \in Nat /\ through \in Nat
  BY <1>1
<1>3. CASE through <= w
  <2>1. UNCHANGED <<marked, watermark, counts>>
    BY <1>3 DEF AdvanceTo
  <2> QED
    BY <1>1, <2>1 DEF Counted, CountsAgree, Addressed
<1>4. CASE ~(through <= w)
  <2>1. /\ watermark' = [watermark EXCEPT ![r] = through]
        /\ marked' = [marked EXCEPT ![r] = through]
        /\ counts' = [counts EXCEPT ![r] = IF counts[r] = Cold THEN Cold
                                           ELSE counts[r] - Cardinality(A \ B)]
    BY <1>4 DEF AdvanceTo
  <2>2. A \cap B = B
    BY <1>1, <1>2, <1>4 DEF Addressed
  <2>3. IsFiniteSet(A) /\ Cardinality(A) \in Nat /\ Cardinality(B) \in Nat
    <3>1. \A low \in Int : /\ IsFiniteSet(Addressed(r, low))
                          /\ Cardinality(Addressed(r, low)) \in Nat
      BY AddressedFinite
    <3>2. w \in Int /\ through \in Int
      BY <1>2
    <3> HIDE DEF w
    <3> QED
      BY <3>1, <3>2
  <2>4. Cardinality(A \ B) = Cardinality(A) - Cardinality(B)
    <3> HIDE DEF A, B
    <3> QED
      BY <2>2, <2>3, FS_Difference
  <2>5. counts[r] # Cold => counts'[r] = Cardinality(B) /\ counts[r] = Cardinality(A)
    <3>1. counts[r] # Cold => counts[r] = Cardinality(A)
      BY <1>1
    <3> HIDE DEF A, B
    <3> QED
      BY <1>1, <2>1, <2>3, <2>4, <3>1
  <2>6. counts[r] = Cold => counts'[r] = Cold
    BY <1>1, <2>1
  <2>7. /\ \A q \in Readers \ {r} : counts'[q] = counts[q] /\ watermark'[q] = watermark[q]
        /\ watermark'[r] = through /\ watermark' = marked'
        /\ marked' \in [Readers -> {0} \cup DOMAIN log]
    BY <1>1, <2>1
  <2>8. counts' \in [Readers -> Int \cup {Cold}]
    <3>1. counts'[r] \in Int \cup {Cold}
      BY <1>1, <2>3, <2>5, <2>6
    <3>2. DOMAIN counts' = Readers
      BY <1>1, <2>1
    <3>3. counts' = [q \in Readers |-> counts'[q]]
      BY <2>1, <3>2
    <3> QED
      BY <1>1, <2>7, <3>1, <3>2, <3>3
  <2>9. ASSUME NEW q \in Readers, counts'[q] # Cold
        PROVE  counts'[q] = Cardinality(Addressed(q, watermark'[q]))
    BY <1>1, <2>5, <2>6, <2>7, <2>9
  <2>10. \A q \in Readers : Addressed(q, watermark[q])' = Addressed(q, watermark'[q])
    BY DEF Addressed
  <2> QED
    BY <2>7, <2>8, <2>9, <2>10 DEF Counted, CountsAgree
<1> QED
  BY <1>3, <1>4

\* A new chat counts for the readers it addresses.
LEMMA PostsCounts ==
    ASSUME MailboxAssumption, WInv, Named, Counted, NEW p \in Posters, NEW to \in Audiences,
           NEW asks \in BOOLEAN, NEW stale \in SUBSET Readers, Posts(p, to, asks, stale)
    PROVE  Counted'
<1> DEFINE n == Len(log) + 1
           e == [by |-> p, to |-> to, asks |-> asks]
<1>1. /\ log' = Append(log, e) /\ UNCHANGED <<marked, watermark>>
      /\ counts' = [r \in Readers |->
             IF counts[r] # Cold /\ r \in to THEN counts[r] + 1 ELSE counts[r]]
  BY DEF Posts
<1>2. /\ log \in Seq(Entries) /\ e \in Entries /\ Len(log) \in Nat
      /\ DOMAIN log = 1..Len(log)
  BY LenProperties DEF WInv, Posting, Entries, MailboxAssumption
<1>3. /\ DOMAIN log' = 1..n /\ log'[n] = e
      /\ \A m \in 1..Len(log) : log'[m] = log[m]
  <2>1. /\ log' \in Seq(Entries) /\ Len(log') = n /\ log'[n] = e
        /\ \A m \in 1..Len(log) : log'[m] = log[m]
    BY <1>1, <1>2, AppendProperties
  <2> QED
    BY <2>1, LenProperties
<1>4. /\ counts \in [Readers -> Int \cup {Cold}] /\ Cold \notin Int
      /\ watermark = marked /\ marked \in [Readers -> {0} \cup DOMAIN log]
      /\ \A r \in Readers : counts[r] # Cold => counts[r] = Cardinality(Addressed(r, watermark[r]))
  BY DEF Named, Counted, CountsAgree, MailboxAssumption
<1>5. counts' \in [Readers -> Int \cup {Cold}]
  BY <1>1, <1>4
<1>6. ASSUME NEW r \in Readers, counts'[r] # Cold
      PROVE  counts'[r] = Cardinality(Addressed(r, watermark[r])')
  <2> DEFINE A == Addressed(r, watermark[r])
  <2>1. watermark[r] \in Nat /\ watermark[r] < n
    BY <1>2, <1>4
  <2>2. IsFiniteSet(A) /\ Cardinality(A) \in Nat /\ n \notin A
    <3>1. \A low \in Int : /\ IsFiniteSet(Addressed(r, low))
                          /\ Cardinality(Addressed(r, low)) \in Nat
      BY AddressedFinite
    <3>2. n \notin A
      BY <1>2 DEF Addressed
    <3> QED
      BY <2>1, <3>1, <3>2
  <2>3. Addressed(r, watermark[r])' = IF r \in to THEN A \cup {n} ELSE A
    <3>1. Addressed(r, watermark[r])' = {m \in 1..n : m > watermark[r] /\ r \in log'[m].to}
      BY <1>1, <1>3 DEF Addressed
    <3>2. A = {m \in 1..Len(log) : m > watermark[r] /\ r \in log[m].to}
      BY <1>2 DEF Addressed
    <3>3. 1..n = 1..Len(log) \cup {n}
      BY <1>2
    <3> HIDE DEF A, n
    <3> QED
      BY <1>3, <2>1, <3>1, <3>2, <3>3
  <2>4. counts[r] # Cold /\ counts[r] = Cardinality(A)
    BY <1>1, <1>4, <1>6
  <2>5. Cardinality(A \cup {n}) = Cardinality(A) + 1
    <3> HIDE DEF A, n
    <3> QED
      BY <2>2, FS_AddElement
  <2> HIDE DEF A
  <2> QED
    BY <1>1, <2>3, <2>4, <2>5
<1> QED
  BY <1>1, <1>4, <1>5, <1>6 DEF Counted, CountsAgree

\* Without a new chat or a moved watermark the counts stand.
LEMMA CountsKept ==
    ASSUME Counted, UNCHANGED <<log, marked, watermark, counts>>
    PROVE  Counted'
BY DEF Counted, CountsAgree, Addressed

\* What Named speaks of.
traffic == <<log, backlog, wire, sentAcks, since, cursor, marked, socket>>

LEMMA TrafficKept ==
    ASSUME Named, UNCHANGED traffic
    PROVE  Named'
BY DEF Named, traffic

\* A connection that breaks leaves nothing on its lines.
LEMMA BreaksNamed ==
    ASSUME Named, NEW r \in Readers, Breaks(r), UNCHANGED <<log, marked>>
    PROVE  Named'
<1>1. <<>> \in Seq(DOMAIN log) /\ "off" \in Sockets /\ "off" # "replaying"
  BY EmptySeq DEF Sockets
<1> QED
  BY <1>1 DEF Named, Breaks

\* A chat that is posted, or written to connections, is in the journal.
LEMMA PosterNamed ==
    ASSUME MailboxAssumption, WInv, Named, PosterSteps
    PROVE  Named'
<1>1. ASSUME NEW p \in Posters, NEW to \in Audiences, NEW asks \in BOOLEAN,
             NEW stale \in SUBSET Readers, Posts(p, to, asks, stale)
      PROVE  Named'
  <2> DEFINE e == [by |-> p, to |-> to, asks |-> asks]
  <2>1. log' = Append(log, e) /\ UNCHANGED <<marked, backlog, wire, sentAcks, since, cursor, socket>>
    BY <1>1 DEF Posts, lines, clients
  <2>2. log \in Seq(Entries) /\ e \in Entries
    BY DEF WInv, Posting, Entries, MailboxAssumption
  <2>3. DOMAIN log \subseteq DOMAIN log'
    <3>1. Len(log') = Len(log) + 1 /\ log' \in Seq(Entries)
      BY <2>1, <2>2, AppendProperties
    <3> QED
      BY <2>2, <3>1, LenProperties
  <2>4. Seq(DOMAIN log) \subseteq Seq(DOMAIN log')
    BY <2>3, SeqMonotonic
  <2> QED
    BY <2>1, <2>3, <2>4 DEF Named
<1>2. ASSUME NEW p \in Posters, FansOut(p) PROVE Named'
  <2> DEFINE n == post[p].chat
  <2>1. n \in DOMAIN log /\ UNCHANGED <<log, marked, sentAcks, since, cursor, socket>>
    BY <1>2 DEF FansOut, records, clients, WInv, Posting
  <2>2. PICK rs \in SUBSET Readers :
          /\ wire' = [r \in Readers |->
               IF r \in rs /\ socket[r] # "replaying" THEN Append(wire[r], n) ELSE wire[r]]
          /\ backlog' = [r \in Readers |->
               IF r \in rs /\ socket[r] = "replaying" THEN Append(backlog[r], n) ELSE backlog[r]]
    BY <1>2 DEF FansOut, Written
  <2>3. \A r \in Readers : /\ wire[r] \in Seq(DOMAIN log) /\ backlog[r] \in Seq(DOMAIN log)
    BY DEF Named
  <2> HIDE DEF n
  <2>4. \A r \in Readers : /\ Append(wire[r], n) \in Seq(DOMAIN log)
                           /\ Append(backlog[r], n) \in Seq(DOMAIN log)
                           /\ Append(backlog[r], n) # <<>>
    BY <2>1, <2>3, AppendProperties
  <2>5. /\ wire' \in [Readers -> Seq(DOMAIN log)] /\ backlog' \in [Readers -> Seq(DOMAIN log)]
        /\ \A r \in Readers : backlog'[r] # <<>> \/ backlog'[r] = backlog[r]
    BY <2>2, <2>3, <2>4
  <2> QED
    BY <2>1, <2>5 DEF Named
<1>3. ASSUME NEW p \in Posters, Completes(p) \/ PosterLeaves(p) \/ PosterRegisters(p)
      PROVE  Named'
  BY <1>3, TrafficKept DEF Completes, PosterLeaves, PosterRegisters, traffic, records, lines, clients
<1> QED
  BY <1>1, <1>2, <1>3 DEF PosterSteps

\* Frames and acks move along the lines of one reader.
LEMMA ReaderNamed ==
    ASSUME MailboxAssumption, WInv, Named, Counted, NEW r \in Readers,
           \/ ReaderLeaves(r) \/ ReaderConnects(r) \/ ReaderRegisters(r) \/ Replays(r)
           \/ WritesBacklog(r) \/ Accepts(r) \/ Acks(r)
    PROVE  Named' /\ Counted'
<1> DEFINE C == DOMAIN log
<1>1. /\ backlog \in [Readers -> Seq(C)] /\ wire \in [Readers -> Seq(C)]
      /\ sentAcks \in [Readers -> Seq(C)] /\ since \in [Readers -> {0} \cup C]
      /\ cursor \in [Readers -> {0} \cup C] /\ marked \in [Readers -> {0} \cup C]
      /\ socket \in [Readers -> Sockets]
      /\ \A q \in Readers : socket[q] = "replaying" => backlog[q] # <<>>
  BY DEF Named
<1> HIDE DEF C
<1>2. CASE ReaderLeaves(r)
  BY <1>2, BreaksNamed, CountsKept DEF ReaderLeaves, records, mailbox
<1>3. CASE ReaderConnects(r)
  <2>1. /\ socket' = [socket EXCEPT ![r] = "open"] /\ since' = [since EXCEPT ![r] = cursor[r]]
        /\ UNCHANGED <<log, marked, watermark, counts, backlog, wire, sentAcks, cursor>>
    BY <1>3 DEF ReaderConnects, records, mailbox, clients
  <2>2. Named'
    BY <1>1, <2>1 DEF Named, Sockets, C
  <2> QED
    BY <2>1, <2>2, CountsKept
<1>4. CASE ReaderRegisters(r)
  <2>1. /\ socket' = [socket EXCEPT ![r] = "registered"]
        /\ UNCHANGED <<log, marked, watermark, counts, backlog, wire, sentAcks, since, cursor>>
    BY <1>4 DEF ReaderRegisters, records, mailbox, clients
  <2>2. Named'
    BY <1>1, <2>1 DEF Named, Sockets, Registered, C
  <2> QED
    BY <2>1, <2>2, CountsKept
<1>5. CASE Replays(r)
  <2>1. /\ AdvanceTo(r, since[r]) /\ backlog' = [backlog EXCEPT ![r] = Missed(r)]
        /\ socket' = [socket EXCEPT ![r] = IF Missed(r) = <<>> THEN "live" ELSE "replaying"]
        /\ since' = [since EXCEPT ![r] = 0]
        /\ UNCHANGED <<log, wire, sentAcks, cursor>>
    BY <1>5 DEF Replays, clients
  <2>2. Missed(r) \in Seq(C)
    BY MissedNamed DEF C
  <2>3. marked' \in [Readers -> {0} \cup C] /\ Counted'
    <3>1. since[r] \in {0} \cup DOMAIN log
      BY <1>1 DEF C
    <3> QED
      BY <2>1, <3>1, AdvanceCounts DEF C
  <2>4. /\ backlog' \in [Readers -> Seq(C)] /\ since' \in [Readers -> {0} \cup C]
        /\ socket' \in [Readers -> Sockets]
        /\ \A q \in Readers : socket'[q] = "replaying" => backlog'[q] # <<>>
    BY <1>1, <2>1, <2>2 DEF Sockets, Registered
  <2> QED
    BY <1>1, <2>1, <2>3, <2>4 DEF Named, C
<1>6. CASE WritesBacklog(r)
  <2>1. /\ socket[r] = "replaying"
        /\ wire' = [wire EXCEPT ![r] = Append(wire[r], Head(backlog[r]))]
        /\ backlog' = [backlog EXCEPT ![r] = Tail(backlog[r])]
        /\ socket' = [socket EXCEPT ![r] = IF Len(backlog[r]) = 1 THEN "live" ELSE socket[r]]
        /\ UNCHANGED <<log, marked, watermark, counts, sentAcks, since, cursor>>
    BY <1>6 DEF WritesBacklog, records, mailbox, clients
  <2>2. backlog[r] \in Seq(C) /\ backlog[r] # <<>> /\ wire[r] \in Seq(C)
    BY <1>1, <2>1
  <2>3. /\ Head(backlog[r]) \in C /\ Tail(backlog[r]) \in Seq(C)
        /\ Len(Tail(backlog[r])) = Len(backlog[r]) - 1 /\ Len(backlog[r]) \in Nat
    BY <2>2, HeadTailProperties, LenProperties
  <2>4. Append(wire[r], Head(backlog[r])) \in Seq(C)
    BY <2>2, <2>3, AppendProperties
  <2>5. Len(backlog[r]) # 1 => Tail(backlog[r]) # <<>>
    <3> DEFINE rest == Tail(backlog[r])
               length == Len(backlog[r])
    <3>1. Len(rest) = length - 1 /\ length \in Nat
      BY <2>3
    <3> HIDE DEF rest, length
    <3>2. length # 1 => rest # <<>>
      BY <3>1
    <3> QED
      BY <3>2 DEF rest, length
  <2>6. /\ wire' \in [Readers -> Seq(C)] /\ backlog' \in [Readers -> Seq(C)]
        /\ socket' \in [Readers -> Sockets]
        /\ \A q \in Readers : socket'[q] = "replaying" => backlog'[q] # <<>>
    BY <1>1, <2>1, <2>3, <2>4, <2>5 DEF Sockets, Registered
  <2>7. Named'
    BY <1>1, <2>1, <2>6 DEF Named, C
  <2> QED
    BY <2>1, <2>7, CountsKept
<1>7. CASE Accepts(r)
  <2> DEFINE n == Head(wire[r])
  <2>1. /\ wire[r] # <<>> /\ wire' = [wire EXCEPT ![r] = Tail(wire[r])]
        /\ cursor' = [cursor EXCEPT ![r] = IF n > cursor[r] THEN n ELSE cursor[r]]
        /\ sentAcks' = [sentAcks EXCEPT ![r] = Append(sentAcks[r], n)]
        /\ UNCHANGED <<log, marked, watermark, counts, backlog, since, socket>>
    BY <1>7 DEF Accepts, records, mailbox
  <2>2. wire[r] \in Seq(C) /\ sentAcks[r] \in Seq(C)
    BY <1>1
  <2>3. n \in C /\ Tail(wire[r]) \in Seq(C)
    BY <2>1, <2>2, HeadTailProperties
  <2> HIDE DEF n
  <2>4. Append(sentAcks[r], n) \in Seq(C)
    BY <2>2, <2>3, AppendProperties
  <2>5. /\ wire' \in [Readers -> Seq(C)] /\ sentAcks' \in [Readers -> Seq(C)]
        /\ cursor' \in [Readers -> {0} \cup C]
    BY <1>1, <2>1, <2>3, <2>4
  <2>6. Named'
    BY <1>1, <2>1, <2>5 DEF Named, C
  <2> QED
    BY <2>1, <2>6, CountsKept
<1>8. CASE Acks(r)
  <2> DEFINE n == Head(sentAcks[r])
  <2>1. /\ sentAcks[r] # <<>> /\ sentAcks' = [sentAcks EXCEPT ![r] = Tail(sentAcks[r])]
        /\ AdvanceTo(r, n) \/ UNCHANGED <<marked, watermark, counts>>
        /\ UNCHANGED <<log, backlog, wire, since, cursor, socket>>
    BY <1>8 DEF Acks, clients
  <2>2. n \in C /\ Tail(sentAcks[r]) \in Seq(C)
    BY <1>1, <2>1, HeadTailProperties
  <2> HIDE DEF n
  <2>3. marked' \in [Readers -> {0} \cup C] /\ Counted'
    <3>1. CASE AdvanceTo(r, n)
      <4>1. n \in {0} \cup DOMAIN log
        BY <2>2 DEF C
      <4> QED
        BY <2>1, <3>1, <4>1, AdvanceCounts DEF C
    <3>2. CASE UNCHANGED <<marked, watermark, counts>>
      BY <1>1, <2>1, <3>2, CountsKept
    <3> QED
      BY <2>1, <3>1, <3>2
  <2>4. sentAcks' \in [Readers -> Seq(C)]
    BY <1>1, <2>1, <2>2
  <2> QED
    BY <1>1, <2>1, <2>3, <2>4 DEF Named, C
<1> QED
  BY <1>2, <1>3, <1>4, <1>5, <1>6, <1>7, <1>8

\* A WHO reads missing counts from the journal.
LEMMA WhoCounts ==
    ASSUME MailboxAssumption, WInv, Named, Counted, Who
    PROVE  Counted'
<1>1. /\ counts' = [r \in Readers |->
            IF counts[r] = Cold THEN Cardinality(Addressed(r, watermark[r])) ELSE counts[r]]
      /\ UNCHANGED <<log, marked, watermark>>
  BY DEF Who, records
<1>2. ASSUME NEW r \in Readers
      PROVE  /\ Cardinality(Addressed(r, watermark[r])) \in Int
             /\ Addressed(r, watermark[r])' = Addressed(r, watermark[r])
  <2>1. watermark[r] \in {0} \cup DOMAIN log /\ DOMAIN log \subseteq Int
    BY LenProperties DEF Named, Counted, WInv, Posting
  <2>2. \A low \in Int : Cardinality(Addressed(r, low)) \in Nat
    BY AddressedFinite
  <2> QED
    BY <1>1, <2>1, <2>2 DEF Addressed
<1>3. counts \in [Readers -> Int \cup {Cold}] /\ watermark = marked /\ CountsAgree
  BY DEF Counted
<1>4. counts' \in [Readers -> Int \cup {Cold}]
  BY <1>1, <1>2, <1>3
<1>5. ASSUME NEW r \in Readers, counts'[r] # Cold
      PROVE  counts'[r] = Cardinality(Addressed(r, watermark[r])')
  <2>1. counts'[r] = Cardinality(Addressed(r, watermark[r]))
    BY <1>1, <1>3 DEF CountsAgree
  <2> QED
    BY <1>2, <2>1
<1> QED
  BY <1>1, <1>3, <1>4, <1>5 DEF Counted, CountsAgree

\* A crash forgets the counts and rereads the watermarks.
LEMMA FallsCounts ==
    ASSUME Named, Falls
    PROVE  Named' /\ Counted'
<1>1. <<>> \in Seq(DOMAIN log) /\ "off" \in Sockets /\ "off" # "replaying"
  BY EmptySeq DEF Sockets
<1>2. /\ backlog' = [r \in Readers |-> <<>>] /\ wire' = backlog' /\ sentAcks' = backlog'
      /\ since' = [r \in Readers |-> 0] /\ socket' = [r \in Readers |-> "off"]
      /\ counts' = [r \in Readers |-> Cold] /\ watermark' = marked
      /\ UNCHANGED <<log, marked, cursor>>
  BY DEF Falls, records, clients
<1> QED
  BY <1>1, <1>2 DEF Named, Counted, CountsAgree

LEMMA CountsStep ==
    ASSUME MailboxAssumption, CInv, [MailNext]_mailVars
    PROVE  CInv'
<1>1. WInv /\ Named /\ Counted /\ WInv'
  BY WindowStep DEF CInv
<1>2. CASE PosterSteps
  <2>1. Named'
    BY <1>1, <1>2, PosterNamed
  <2>2. ASSUME NEW p \in Posters,
               FansOut(p) \/ Completes(p) \/ PosterLeaves(p) \/ PosterRegisters(p)
        PROVE  Counted'
    BY <1>1, <2>2, CountsKept
       DEF FansOut, Completes, PosterLeaves, PosterRegisters, records, mailbox
  <2>3. Counted'
    BY <1>1, <1>2, <2>2, PostsCounts DEF PosterSteps
  <2> QED
    BY <1>1, <2>1, <2>3 DEF CInv
<1>3. CASE ReaderSteps
  BY <1>1, <1>3, ReaderNamed DEF ReaderSteps, CInv
<1>4. CASE Who
  <2>1. Named'
    BY <1>1, <1>4, TrafficKept DEF Who, traffic, records, lines, clients
  <2> QED
    BY <1>1, <1>4, <2>1, WhoCounts DEF CInv
<1>5. CASE Falls
  BY <1>1, <1>5, FallsCounts DEF CInv
<1>6. ASSUME NEW h \in Handlers, Notifies(h) PROVE CInv'
  <2>1. UNCHANGED traffic /\ UNCHANGED <<log, marked, watermark, counts>>
    BY <1>6 DEF Notifies, traffic, mailbox, lines, clients
  <2> QED
    BY <1>1, <2>1, TrafficKept, CountsKept DEF CInv
<1>7. ASSUME NEW h \in Handlers, NotifiesTwice(h) PROVE CInv'
  <2>1. UNCHANGED <<log, marked, watermark, counts>>
    BY <1>7 DEF NotifiesTwice, records, mailbox
  <2>2. CASE h \in Readers
    <3>1. Breaks(h)
      BY <1>7, <2>2 DEF NotifiesTwice
    <3> QED
      BY <1>1, <2>1, <2>2, <3>1, BreaksNamed, CountsKept DEF CInv
  <2>3. CASE h \notin Readers
    <3>1. UNCHANGED traffic
      BY <1>7, <2>1, <2>3 DEF NotifiesTwice, traffic
    <3> QED
      BY <1>1, <2>1, <3>1, TrafficKept, CountsKept DEF CInv
  <2> QED
    BY <2>2, <2>3
<1>8. CASE UNCHANGED mailVars
  <2>1. UNCHANGED traffic /\ UNCHANGED <<log, marked, watermark, counts>>
    BY <1>8 DEF mailVars, records, mailbox, lines, clients, traffic
  <2> QED
    BY <1>1, <2>1, TrafficKept, CountsKept DEF CInv
<1> QED
  BY <1>2, <1>3, <1>4, <1>5, <1>6, <1>7, <1>8 DEF MailNext

\* The tracker's counts and watermarks are those of the journal, whatever is
\* posted while a count is cold, acked twice or late, and reread after a crash
\* (MailboxPendingTracker).
THEOREM CountsAreDurable ==
    ASSUME MailboxAssumption
    PROVE  MailSpec => []CountsAgree
<1>1. MailInit => CInv
  <2> SUFFICES ASSUME MailInit PROVE CInv
    OBVIOUS
  <2>1. <<>> \in Seq(DOMAIN log) /\ "off" \in Sockets /\ "off" # "replaying"
    BY EmptySeq DEF Sockets
  <2>2. Named /\ Counted
    BY <2>1 DEF MailInit, Named, Counted, CountsAgree
  <2> QED
    BY <2>2, WindowInit DEF CInv
<1>2. CInv /\ [MailNext]_mailVars => CInv'
  BY CountsStep
<1>3. CInv => CountsAgree
  BY DEF CInv, Counted
<1> QED
  BY <1>1, <1>2, <1>3, PTL DEF MailSpec

-----------------------------------------------------------------------------
(* Type correctness.                                                       *)

\* What the other invariants leave out of the type: the outbox and the handlers
\* that drain it, who is connected, and what was accepted.
Drained ==
    /\ owed \subseteq DOMAIN notices
    /\ draining \in [Handlers -> SUBSET (DOMAIN notices)]
Met ==
    /\ present \subseteq Posters /\ links \in [Readers -> Nat] /\ falls \in Nat
    /\ accepted \in [Readers -> SUBSET Chats]

\* What the type theorem carries along.
TInv == CInv /\ Drained /\ Met

\* Rows that enter the outbox may be owed, and a handler reads rows that are owed.
LEMMA RowsDrained ==
    ASSUME notices \in Seq(Rows), Drained, NEW rows \in Seq(Rows), Enqueue(rows),
           NEW h \in Handlers, NEW p, Drains(h, p)
    PROVE  Drained'
<1>1. /\ notices' = notices \o rows
      /\ owed' = owed \cup (Len(notices) + 1)..(Len(notices) + Len(rows))
  BY DEF Enqueue
<1>2. /\ Len(notices) \in Nat /\ DOMAIN notices = 1..Len(notices) /\ Len(rows) \in Nat
      /\ DOMAIN notices' = 1..(Len(notices) + Len(rows))
  <2>1. notices' \in Seq(Rows) /\ Len(notices') = Len(notices) + Len(rows)
    BY <1>1, ConcatProperties
  <2> QED
    BY <2>1, LenProperties
<1>3. owed' \subseteq DOMAIN notices' /\ DOMAIN notices \subseteq DOMAIN notices'
  BY <1>1, <1>2 DEF Drained
<1> QED
  BY <1>3 DEF Drained, Drains

\* A verdict enters its rows, and the poster's handler drains them.
LEMMA JudgeDrained ==
    ASSUME MailboxAssumption, WInv, Drained, NEW n \in Chats, NEW p \in Posters,
           NEW delivered \in BOOLEAN, Judge(n, p, delivered), Drains(p, p)
    PROVE  Drained'
<1>1. PICK rows \in Seq(Rows) : Enqueue(rows)
  <2> DEFINE gone == IF delivered THEN {} ELSE Evicted
             first == <<Notice(n, p, "immediate")>>
  <2>1. Enqueue(first \o IF gone = {} THEN <<>>
                         ELSE <<Notice(Oldest, log[Oldest].by, "expired")>>)
    BY DEF Judge
  <2>2. first \in Seq(Rows)
    BY DEF Notice, Rows
  <2>3. CASE gone = {}
    <3>1. Enqueue(first \o <<>>)
      BY <2>1, <2>3
    <3> HIDE DEF first
    <3>2. first \o <<>> \in Seq(Rows)
      BY <2>2, EmptySeq, ConcatProperties
    <3> QED
      BY <3>1, <3>2
  <2>4. CASE gone # {}
    <3>1. Oldest \in awaiting
      <4>1. awaiting # {}
        <5> SUFFICES ASSUME awaiting = {} PROVE FALSE
          OBVIOUS
        <5>1. Cardinality(awaiting) = 0
          BY FS_EmptySet
        <5> QED
          BY <2>4, <5>1 DEF Evicted, MailboxAssumption
      <4> QED
        BY <4>1, OldestAwaits DEF WInv, Posting
    <3>2. Oldest \in Chats /\ Oldest \in DOMAIN log
      <4>1. Oldest \in Chats /\ verdict[Oldest] = "pending"
        BY <3>1 DEF WInv, AwaitingIsDurable
      <4>2. Len(log) \in Nat /\ DOMAIN log = 1..Len(log)
        BY LenProperties DEF WInv, Posting
      <4> QED
        BY <4>1, <4>2 DEF WInv, Posting, Chats, MailboxAssumption
    <3>3. log[Oldest].by \in Posters
      <4>1. log \in Seq(Entries)
        BY DEF WInv, Posting
      <4>2. log[Oldest] \in Entries
        BY <3>2, <4>1, LenProperties, ElementOfSeq
      <4> QED
        BY <4>2 DEF Entries
    <3>4. <<Notice(Oldest, log[Oldest].by, "expired")>> \in Seq(Rows)
      BY <3>2, <3>3 DEF Notice, Rows
    <3> DEFINE last == <<Notice(Oldest, log[Oldest].by, "expired")>>
    <3>5. Enqueue(first \o last)
      BY <2>1, <2>4
    <3> HIDE DEF first, last
    <3>6. first \o last \in Seq(Rows)
      BY <2>2, <3>4, ConcatProperties DEF last
    <3> QED
      BY <3>5, <3>6
  <2> QED
    BY <2>3, <2>4
<1> QED
  BY <1>1, RowsDrained DEF Handlers, WInv, Posting

\* Where no rows enter, a handler reads owed ones or has fewer to send.
LEMMA DrainedKept ==
    ASSUME Drained, UNCHANGED notices, owed' \subseteq owed,
           \/ UNCHANGED draining
           \/ \E h \in Handlers, p \in Posters : Drains(h, p)
           \/ \E h \in Handlers : \E rest \in SUBSET draining[h] :
                draining' = [draining EXCEPT ![h] = rest]
    PROVE  Drained'
BY DEF Drained, Drains

\* The steps of a poster's handler.
LEMMA PosterTyped ==
    ASSUME MailboxAssumption, CInv, Drained, Met, PosterSteps
    PROVE  Drained' /\ Met'
<1>1. WInv /\ Len(log) \in Nat /\ MaxChats \in Nat /\ \A n \in DOMAIN log : n \in Chats
  BY LenProperties DEF CInv, WInv, Posting, Chats, MailboxAssumption
<1>2. ASSUME NEW p \in Posters, NEW to \in Audiences, NEW asks \in BOOLEAN,
             NEW stale \in SUBSET Readers, Posts(p, to, asks, stale)
      PROVE  Drained' /\ Met'
  <2> DEFINE n == Len(log) + 1
  <2>1. /\ UNCHANGED <<present, links, accepted, falls>> /\ Len(log) < MaxChats
        /\ \/ Judge(n, p, FALSE) /\ Drains(p, p)
           \/ UNCHANGED <<notices, owed, draining>>
    BY <1>2 DEF Posts, lines, clients
  <2>2. n \in Chats /\ FALSE \in BOOLEAN
    BY <1>1, <2>1 DEF Chats
  <2> HIDE DEF n
  <2>3. Drained'
    BY <1>1, <2>1, <2>2, JudgeDrained, DrainedKept, Zenon
  <2> QED
    BY <2>1, <2>3 DEF Met
<1>3. ASSUME NEW p \in Posters, FansOut(p) \/ PosterLeaves(p)
      PROVE  Drained' /\ Met'
  <2>1. /\ UNCHANGED <<notices, owed, draining, links, accepted, falls>>
        /\ present' \subseteq present
    BY <1>3 DEF FansOut, PosterLeaves, records, lines, clients
  <2> QED
    BY <2>1, DrainedKept DEF Met
<1>4. ASSUME NEW p \in Posters, Completes(p)
      PROVE  Drained' /\ Met'
  <2> DEFINE n == post[p].chat
  <2>1. /\ UNCHANGED <<present, links, accepted, falls>> /\ post[p].at = "writing"
        /\ \/ \E delivered \in BOOLEAN : Judge(n, p, delivered) /\ Drains(p, p)
           \/ UNCHANGED <<notices, owed, draining>>
    BY <1>4 DEF Completes, lines, clients
  <2>2. n \in Chats
    BY <1>1, <2>1 DEF WInv, Posting
  <2> HIDE DEF n
  <2>3. Drained'
    BY <1>1, <2>1, <2>2, JudgeDrained, DrainedKept, Zenon
  <2> QED
    BY <2>1, <2>3 DEF Met
<1>5. ASSUME NEW p \in Posters, PosterRegisters(p)
      PROVE  Drained' /\ Met'
  <2>1. /\ UNCHANGED <<notices, owed, links, accepted, falls>> /\ Drains(p, p)
        /\ present' = present \cup {p} /\ p \in Handlers
    BY <1>5 DEF PosterRegisters, records, lines, clients, Handlers
  <2> QED
    BY <2>1 DEF Drained, Drains, Met
<1> QED
  BY <1>2, <1>3, <1>4, <1>5 DEF PosterSteps

\* The steps of a reader's connection.
LEMMA ReaderTyped ==
    ASSUME MailboxAssumption, CInv, Drained, Met, NEW r \in Readers,
           \/ ReaderLeaves(r) \/ ReaderConnects(r) \/ ReaderRegisters(r) \/ Replays(r)
           \/ WritesBacklog(r) \/ Accepts(r) \/ Acks(r)
    PROVE  Drained' /\ Met'
<1>1. /\ WInv /\ log \in Seq(Entries) /\ \A n \in DOMAIN log : n \in Chats /\ log[n] \in Entries
      /\ notices \in Seq(Rows)
      /\ wire \in [Readers -> Seq(DOMAIN log)] /\ sentAcks \in [Readers -> Seq(DOMAIN log)]
  BY LenProperties, ElementOfSeq DEF CInv, WInv, Posting, Named, Chats, MailboxAssumption
<1>2. CASE ReaderConnects(r)
  <2>1. /\ UNCHANGED <<notices, owed, draining, present, accepted, falls>>
        /\ links' = [links EXCEPT ![r] = @ + 1]
    BY <1>2 DEF ReaderConnects, records, handlers, clients
  <2> QED
    BY <2>1, DrainedKept DEF Met
<1>3. CASE ReaderLeaves(r) \/ ReaderRegisters(r) \/ Replays(r) \/ WritesBacklog(r)
  <2>1. UNCHANGED <<notices, owed, draining, present, links, accepted, falls>>
    BY <1>3 DEF ReaderLeaves, ReaderRegisters, Replays, WritesBacklog, records, handlers, clients
  <2> QED
    BY <2>1, DrainedKept DEF Met
<1>4. CASE Accepts(r)
  <2>1. /\ UNCHANGED <<notices, owed, draining, present, links, falls>> /\ wire[r] # <<>>
        /\ accepted' = [accepted EXCEPT ![r] = @ \cup {Head(wire[r])}]
    BY <1>4 DEF Accepts, records, handlers
  <2>2. Head(wire[r]) \in DOMAIN log
    BY <1>1, <2>1, HeadTailProperties
  <2>3. Head(wire[r]) \in Chats
    BY <1>1, <2>2
  <2> QED
    BY <2>1, <2>3, DrainedKept DEF Met
<1>5. CASE Acks(r)
  <2> DEFINE n == Head(sentAcks[r])
  <2>1. /\ UNCHANGED <<present, links, accepted, falls>> /\ sentAcks[r] # <<>>
        /\ \/ Enqueue(<<Notice(n, log[n].by, "deferred")>>) /\ Drains(r, log[n].by)
           \/ UNCHANGED <<owed, notices, draining>>
    BY <1>5 DEF Acks, clients
  <2>2. n \in DOMAIN log
    BY <1>1, <2>1, HeadTailProperties
  <2>3. n \in Chats /\ log[n].by \in Posters
    BY <1>1, <2>2 DEF Entries
  <2> HIDE DEF n
  <2>4. <<Notice(n, log[n].by, "deferred")>> \in Seq(Rows)
    BY <2>3 DEF Notice, Rows
  <2>5. Drained'
    <3>1. r \in Handlers
      BY DEF Handlers
    <3> QED
      BY <1>1, <2>1, <2>4, <3>1, RowsDrained, DrainedKept
  <2> QED
    BY <2>1, <2>5 DEF Met
<1> QED
  BY <1>2, <1>3, <1>4, <1>5

LEMMA TypedStep ==
    ASSUME MailboxAssumption, TInv, [MailNext]_mailVars
    PROVE  TInv'
<1>1. CInv' /\ CInv /\ Drained /\ Met
  BY CountsStep DEF TInv
<1>2. CASE PosterSteps
  BY <1>1, <1>2, PosterTyped DEF TInv
<1>3. CASE ReaderSteps
  BY <1>1, <1>3, ReaderTyped DEF ReaderSteps, TInv
<1>4. CASE Who \/ UNCHANGED mailVars
  <2>1. UNCHANGED <<notices, owed, draining, present, links, accepted, falls>>
    BY <1>4 DEF Who, mailVars, records, handlers, lines, clients
  <2> QED
    BY <1>1, <2>1, DrainedKept DEF Met, TInv
<1>5. CASE Falls
  <2>1. /\ UNCHANGED <<notices, owed, links, accepted>> /\ falls' = falls + 1
        /\ draining' = [h \in Handlers |-> {}] /\ present' = {}
    BY <1>5 DEF Falls, records, clients
  <2> QED
    BY <1>1, <2>1 DEF Drained, Met, TInv
<1>6. ASSUME NEW h \in Handlers, Notifies(h) PROVE TInv'
  <2> DEFINE i == Lowest(draining[h])
  <2>1. /\ UNCHANGED <<notices, present, links, accepted, falls>> /\ owed' \subseteq owed
        /\ draining' = [draining EXCEPT ![h] = draining[h] \ {i}]
    BY <1>6 DEF Notifies, lines, clients
  <2> HIDE DEF i
  <2>2. Drained'
    BY <1>1, <2>1 DEF Drained
  <2> QED
    BY <1>1, <2>1, <2>2 DEF Met, TInv
<1>7. ASSUME NEW h \in Handlers, NotifiesTwice(h) PROVE TInv'
  <2>1. /\ UNCHANGED <<notices, owed, links, accepted, falls>> /\ present' \subseteq present
        /\ draining' = [draining EXCEPT ![h] = {}]
    BY <1>7 DEF NotifiesTwice, records
  <2>2. Drained'
    BY <1>1, <2>1 DEF Drained
  <2> QED
    BY <1>1, <2>1, <2>2 DEF Met, TInv
<1> QED
  BY <1>2, <1>3, <1>4, <1>5, <1>6, <1>7 DEF MailNext

\* The journal, the hub and the clients keep their shape: handlers are at chats
\* of the journal, lines carry such chats, and what is owed and drained are rows
\* of the outbox (handlers/delivery_feedback.py, handlers/messaging.py).
THEOREM MailTyped ==
    ASSUME MailboxAssumption
    PROVE  MailSpec => []MailTypeOK
<1>1. MailInit => TInv
  <2> SUFFICES ASSUME MailInit PROVE TInv
    OBVIOUS
  <2>1. <<>> \in Seq(DOMAIN log) /\ "off" \in Sockets /\ "off" # "replaying"
    BY EmptySeq DEF Sockets
  <2>2. Named /\ Counted
    BY <2>1 DEF MailInit, Named, Counted, CountsAgree
  <2>3. Drained /\ Met
    BY DEF MailInit, Drained, Met
  <2> QED
    BY <2>2, <2>3, WindowInit DEF CInv, TInv
<1>2. TInv /\ [MailNext]_mailVars => TInv'
  BY TypedStep
<1>3. TInv => MailTypeOK
  <2> SUFFICES ASSUME TInv PROVE MailTypeOK
    OBVIOUS
  <2>1. /\ Len(log) \in Nat /\ Len(log) <= MaxChats /\ DOMAIN log = 1..Len(log)
        /\ MaxChats \in Nat
    BY LenProperties DEF TInv, CInv, WInv, Posting, MailboxAssumption
  <2>2. DOMAIN log \subseteq Chats /\ {0} \cup DOMAIN log \subseteq 0..MaxChats
    BY <2>1 DEF Chats
  <2>3. Seq(DOMAIN log) \subseteq Seq(Chats)
    BY <2>2, SeqMonotonic
  <2>4. /\ marked \in [Readers -> 0..MaxChats] /\ watermark \in [Readers -> 0..MaxChats]
        /\ since \in [Readers -> 0..MaxChats] /\ cursor \in [Readers -> 0..MaxChats]
    BY <2>2 DEF TInv, CInv, Named, Counted
  <2>5. /\ {backlog, wire, sentAcks} \subseteq [Readers -> Seq(Chats)]
        /\ socket \in [Readers -> Sockets] /\ counts \in [Readers -> Int \cup {Cold}]
    BY <2>3 DEF TInv, CInv, Named, Counted
  <2>6. /\ log \in Seq([by : Posters, to : SUBSET (Readers \cup Seats), asks : BOOLEAN])
        /\ Len(log) <= MaxChats /\ verdict \in [Chats -> Receipts] /\ notices \in Seq(Rows)
        /\ post \in [Posters -> Posted] /\ awaiting \subseteq Chats
    BY DEF TInv, CInv, WInv, Posting, Entries, AwaitingIsDurable
  <2> QED
    BY <2>4, <2>5, <2>6 DEF TInv, Drained, Met, MailTypeOK
<1> QED
  BY <1>1, <1>2, <1>3, PTL DEF MailSpec
=============================================================================
