-------------------------- MODULE FileClaimsProofs --------------------------
(***************************************************************************)
(* What the comparison of scopes guarantees, for any names, forms and         *)
(* identities: it is symmetric, and it finds every file or object two scopes   *)
(* of one tree claim.  With the exclusion of overlapping scopes this gives      *)
(* the exclusion of files.  Case folding is not assumed idempotent (on Unicode   *)
(* text it is not): the two scopes of one tree are folded alike.                 *)
(***************************************************************************)
EXTENDS FileClaims, ClaimRegistryProofs, SequenceTheorems

\* A comparison form is a path of the same length.
LEMMA UnderType ==
  ASSUME NEW path \in Path, NEW policy \in Policies \cup {"literal"}
  PROVE  /\ Under(policy, path) \in Path
         /\ Len(Under(policy, path)) = Len(path)
         /\ \A i \in 1..Len(path) : Under(policy, path)[i] = Form[policy][path[i]]
<1>1. path \in Seq(Segments) /\ DOMAIN path = 1..Len(path) /\ Len(path) \in Nat
  BY DEF Path
<1>2. \A i \in 1..Len(path) : Form[policy][path[i]] \in Segments
  BY <1>1, FormAssumption
<1>3. Under(policy, path) = [i \in 1..Len(path) |-> Form[policy][path[i]]]
  BY <1>1 DEF Under
<1>4. Under(policy, path) \in Seq(Segments)
  BY <1>1, <1>2, <1>3
<1> QED BY <1>1, <1>3, <1>4 DEF Path

\* Two claims that both cover a path overlap: the shorter is above the longer.
LEMMA SharedPathOverlaps ==
  ASSUME NEW p \in Path, NEW q \in Path, NEW f \in Path, Covers(p, f), Covers(q, f)
  PROVE  PathsOverlap(p, q)
<1>1. Len(p) \in Nat /\ Len(q) \in Nat
  BY DEF Path
<1>2. CASE Len(p) <= Len(q)
  <2>1. \A i \in 1..Len(p) : p[i] = q[i]
    BY <1>1, <1>2 DEF Covers
  <2> QED BY <1>2, <2>1 DEF Covers, PathsOverlap
<1>3. CASE Len(q) <= Len(p)
  <2>1. \A i \in 1..Len(q) : q[i] = p[i]
    BY <1>1, <1>3 DEF Covers
  <2> QED BY <1>3, <2>1 DEF Covers, PathsOverlap
<1> QED BY <1>1, <1>2, <1>3

\* Folding both sides keeps a covered path covered.
LEMMA UnderCovers ==
  ASSUME NEW p \in Path, NEW f \in Path, NEW policy \in Policies \cup {"literal"}, Covers(p, f)
  PROVE  Covers(Under(policy, p), Under(policy, f))
<1>1. Len(p) \in Nat /\ Len(f) \in Nat /\ Len(p) <= Len(f)
  BY DEF Path, Covers
<1>2. \A i \in 1..Len(p) : p[i] = f[i] /\ i \in 1..Len(f)
  BY <1>1 DEF Covers
<1> QED BY <1>1, <1>2, UnderType DEF Covers

\* The declaration behind the Mark, segment by segment.
LEMMA Suffix ==
  ASSUME NEW p \in Path, NEW k \in 1..Len(p)
  PROVE  /\ Len(SubSeq(p, k + 1, Len(p))) = Len(p) - k
         /\ \A i \in 1..(Len(p) - k) : SubSeq(p, k + 1, Len(p))[i] = p[k + i]
<1>1. k \in Nat /\ Len(p) \in Nat /\ k <= Len(p) /\ p \in Seq(Segments)
  BY DEF Path
<1>2. \A i \in k + 1 .. Len(p) : p[i] \in Segments
  BY <1>1
<1> DEFINE m == k + 1
           n == Len(p)
<1>3. m \in Int /\ n \in Int /\ n - m + 1 = n - k /\ \A i \in Int : m + i - 1 = k + i
  BY <1>1
<1>4. \A i \in m .. n : p[i] \in Segments
  BY <1>2
<1>5. m <= n \/ n - k = 0
  BY <1>1
<1> HIDE DEF m, n
<1>6. /\ Len(SubSeq(p, m, n)) = IF m <= n THEN n - m + 1 ELSE 0
      /\ \A i \in 1 .. n - m + 1 : SubSeq(p, m, n)[i] = p[m + i - 1]
  BY <1>3, <1>4, SubSeqProperties
<1>7. Len(SubSeq(p, m, n)) = n - k
  BY <1>1, <1>3, <1>5, <1>6 DEF m, n
<1>8. \A i \in 1 .. n - k : SubSeq(p, m, n)[i] = p[k + i]
  BY <1>3, <1>6
<1> QED BY <1>7, <1>8 DEF m, n

\* Two declarations named under one path name it through the same source: the
\* one is, or contains, the other.
LEMMA SharedPartOverlaps ==
  ASSUME NEW p \in Path, NEW q \in Path, NEW f \in Path, Covers(p, f), Covers(q, f),
         NEW a, NEW b, NamesPart(p, a), NamesPart(q, b)
  PROVE  PathsOverlap(a, b)
<1>1. PICK k \in 2..Len(p) : /\ p[k] = Mark /\ \A j \in DOMAIN p \ {k} : p[j] # Mark
                             /\ a = SubSeq(p, k + 1, Len(p))
  BY DEF NamesPart
<1>2. PICK l \in 2..Len(q) : /\ q[l] = Mark /\ \A j \in DOMAIN q \ {l} : q[j] # Mark
                             /\ b = SubSeq(q, l + 1, Len(q))
  BY DEF NamesPart
<1>3. /\ Len(p) \in Nat /\ Len(q) \in Nat /\ DOMAIN p = 1..Len(p) /\ DOMAIN q = 1..Len(q)
      /\ k \in 1..Len(p) /\ l \in 1..Len(q)
  BY DEF Path
<1>4. f[k] = Mark /\ f[l] = Mark
  BY <1>1, <1>2, <1>3 DEF Covers
<1>5. k = l
  <2>1. ASSUME k <= Len(q) PROVE k = l
    <3>1. k \in 1..Len(q) /\ q[k] = f[k]
      BY <1>3, <2>1 DEF Covers
    <3> QED BY <1>2, <1>3, <1>4, <3>1
  <2>2. ASSUME l <= Len(p) PROVE k = l
    <3>1. l \in 1..Len(p) /\ p[l] = f[l]
      BY <1>3, <2>2 DEF Covers
    <3> QED BY <1>1, <1>3, <1>4, <3>1
  <2> QED BY <1>3, <2>1, <2>2
<1>6. /\ Len(a) = Len(p) - k /\ \A i \in 1..Len(a) : a[i] = p[k + i]
      /\ Len(b) = Len(q) - k /\ \A i \in 1..Len(b) : b[i] = q[k + i]
  <2>1. a = SubSeq(p, k + 1, Len(p)) /\ b = SubSeq(q, k + 1, Len(q))
    BY <1>1, <1>2, <1>5
  <2>2. Len(a) = Len(p) - k /\ \A i \in 1..Len(a) : a[i] = p[k + i]
    BY <1>3, <2>1, Suffix
  <2>3. Len(b) = Len(q) - k /\ \A i \in 1..Len(b) : b[i] = q[k + i]
    BY <1>3, <1>5, <2>1, Suffix
  <2> QED BY <2>2, <2>3
<1>7. /\ \A i \in 1..Len(a) : a[i] = f[k + i]
      /\ \A i \in 1..Len(b) : b[i] = f[k + i]
  BY <1>3, <1>5, <1>6 DEF Covers
<1>8. CASE Len(a) <= Len(b)
  <2>1. \A i \in 1..Len(a) : a[i] = b[i]
    BY <1>3, <1>5, <1>6, <1>7, <1>8
  <2> QED BY <1>8, <2>1 DEF Covers, PathsOverlap
<1>9. CASE Len(b) <= Len(a)
  <2>1. \A i \in 1..Len(b) : b[i] = a[i]
    BY <1>3, <1>5, <1>6, <1>7, <1>9
  <2> QED BY <1>9, <2>1 DEF Covers, PathsOverlap
<1> QED BY <1>3, <1>5, <1>6, <1>8, <1>9

-----------------------------------------------------------------------------
\* The rows the comparison is made on.
RowIn(p, policy, d) == IF p.identity = Unknown THEN LegacyRow(policy, d) ELSE p.identity.rows[d]

\* The row of a displayed path is a row, and names what the scope claims.
LEMMA RowFacts ==
  ASSUME NEW p, WellFormed(p), NEW d \in p.paths, NEW policy \in Policies \cup {"literal"}
  PROVE  /\ RowIn(p, policy, d) \in Row
         /\ UnderPolicy(policy, RowIn(p, policy, d)) \in ComparedRows(p, policy)
<1>1. d \in Path /\ Under(policy, d) \in Path /\ Root \in Path
  BY UnderType DEF WellFormed, Path, Root
<1>2. CASE p.identity = Unknown
  <2>1. RowIn(p, policy, d) = LegacyRow(policy, d)
    BY <1>2 DEF RowIn
  <2> QED BY <1>1, <1>2, <2>1 DEF LegacyRow, Row, ComparedRows
<1>3. CASE p.identity # Unknown
  <2>1. RowIn(p, policy, d) = p.identity.rows[d] /\ p.identity.rows \in [p.paths -> Row]
    BY <1>3 DEF RowIn, WellFormed, Identity
  <2> QED BY <1>3, <2>1 DEF ComparedRows
<1> QED BY <1>2, <1>3

\* Projecting a row under a case policy projects its three paths.
LEMMA UnderPolicyFields ==
  ASSUME NEW r \in Row, NEW policy
  PROVE  /\ UnderPolicy(policy, r).git = Under(policy, r.git)
         /\ UnderPolicy(policy, r).fs = Under(policy, r.fs)
         /\ UnderPolicy(policy, r).part = Under(policy, r.part)
         /\ UnderPolicy(policy, r).object = r.object
  BY DEF UnderPolicy, Row

\* Two scopes of one tree are compared under its policy, and are found to be
\* of one worktree however little their clients said of it.
LEMMA OneTreeMatches ==
  ASSUME NEW p, NEW q, WellFormed(p), WellFormed(q), NEW tree \in Trees,
         ResolvedIn(p, tree), ResolvedIn(q, tree)
  PROVE  /\ WorktreesMatch(p, q)
         /\ SharedPolicy(p, q) = KnownPolicy(p, q, tree)
         /\ KnownPolicy(p, q, tree) \in Policies \cup {"literal"}
<1>1. tree.policy \in Policies
  BY FileScopesAssumption DEF Tree
<1>2. CASE p.identity = Unknown /\ q.identity = Unknown
  <2>1. {s.identity.policy : s \in {s \in {p, q} : s.identity # Unknown}} = {}
    BY <1>2
  <2> QED BY <1>2, <2>1 DEF ResolvedIn, WorktreesMatch, SharedPolicy, KnownPolicy
<1>3. CASE p.identity # Unknown \/ q.identity # Unknown
  <2>1. {s.identity.policy : s \in {s \in {p, q} : s.identity # Unknown}} = {tree.policy}
    BY <1>3 DEF ResolvedIn
  <2>2. SharedPolicy(p, q) = tree.policy /\ KnownPolicy(p, q, tree) = tree.policy
    BY <1>1, <1>3, <2>1 DEF SharedPolicy, KnownPolicy, Policies
  <2>3. /\ p.identity # Unknown => LabelNames(tree.label, p.identity)
        /\ q.identity # Unknown => LabelNames(tree.label, q.identity)
    BY DEF ResolvedIn, WellFormed
  <2>4. CASE p.identity # Unknown /\ q.identity # Unknown
    <3>1. p.identity.label = q.identity.label
      BY <2>3, <2>4 DEF LabelNames, ResolvedIn
    <3>2. Agree(p.identity.host, q.identity.host)
      BY <2>4 DEF ResolvedIn, Agree
    <3>3. \/ Unknown \in {p.identity.key, q.identity.key}
          \/ SameKey(p.identity.key, q.identity.key)
      BY <2>4 DEF ResolvedIn, SameKey
    <3> QED BY <1>1, <2>2, <2>4, <3>1, <3>2, <3>3 DEF WorktreesMatch
  <2>5. CASE p.identity = Unknown \/ q.identity = Unknown
    BY <1>1, <1>3, <2>2, <2>3, <2>5 DEF WorktreesMatch, ResolvedIn
  <2> QED BY <1>1, <2>2, <2>4, <2>5
<1> QED BY <1>2, <1>3

\* A file that two scopes of one tree claim is found: the hub reports a
\* conflict between them (claim_scopes_conflict misses nothing).
THEOREM SharedFilesConflict ==
  ASSUME NEW p, NEW q, WellFormed(p), WellFormed(q), NEW tree \in Trees,
         ResolvedIn(p, tree), ResolvedIn(q, tree), ShareFile(p, q, tree)
  PROVE  ClaimScopesConflict(p, q)
<1> DEFINE policy == KnownPolicy(p, q, tree)
<1>1. /\ WorktreesMatch(p, q) /\ SharedPolicy(p, q) = policy
      /\ policy \in Policies \cup {"literal"}
  BY OneTreeMatches
<1> HIDE DEF policy
<1>2. PICK f \in Files, sp \in {"git", "fs"} :
         ClaimsFile(p, policy, sp, f) /\ ClaimsFile(q, policy, sp, f)
  BY DEF ShareFile, policy
<1>3. CASE p.paths = {} \/ q.paths = {}
  BY <1>1, <1>3 DEF ClaimScopesConflict
<1>4. CASE p.paths # {} /\ q.paths # {}
  <2>1. PICK d \in p.paths : Covers(RowIn(p, policy, d)[sp], Under(policy, f))
    BY <1>2, <1>4 DEF ClaimsFile, RowIn, LegacyRow
  <2>2. PICK e \in q.paths : Covers(RowIn(q, policy, e)[sp], Under(policy, f))
    BY <1>2, <1>4 DEF ClaimsFile, RowIn, LegacyRow
  <2> DEFINE r == RowIn(p, policy, d)
             s == RowIn(q, policy, e)
             x == UnderPolicy(policy, r)
             y == UnderPolicy(policy, s)
  <2>3. /\ r \in Row /\ x \in ComparedRows(p, policy)
        /\ s \in Row /\ y \in ComparedRows(q, policy)
    BY <1>1, RowFacts
  <2>4. f \in Path /\ Under(policy, f) \in Path
    BY <1>1, UnderType, FileScopesAssumption
  <2>5. r[sp] \in Path /\ s[sp] \in Path
    BY <2>3 DEF Row
  <2> HIDE DEF r, s
  <2>6. ASSUME ObjectsComparable(p, q), x.object # Unknown, x.object = y.object,
              r.part # Root /\ s.part # Root
       PROVE  RowsOverlap(x, y, ObjectsComparable(p, q))
    <3>1. p.identity # Unknown /\ q.identity # Unknown
      BY <2>6 DEF ObjectsComparable
    <3>2. policy = p.identity.policy /\ policy = q.identity.policy
      BY <3>1 DEF policy, KnownPolicy, ResolvedIn
    <3>3. NamesPart(r[sp], Under(policy, r.part)) /\ NamesPart(s[sp], Under(policy, s.part))
      BY <2>6, <3>1, <3>2 DEF WellFormed, r, s, RowIn
    <3>4. PathsOverlap(Under(policy, r.part), Under(policy, s.part))
      BY <2>1, <2>2, <2>4, <2>5, <3>3, SharedPartOverlaps DEF r, s
    <3> QED BY <2>3, <2>6, <3>4, UnderPolicyFields DEF RowsOverlap
  <2>7. ASSUME ObjectsComparable(p, q), x.object # Unknown, x.object = y.object,
              r.part = Root \/ s.part = Root
       PROVE  RowsOverlap(x, y, ObjectsComparable(p, q))
    <3>1. /\ Len(Root) = 0 /\ Under(policy, Root) = Root
          /\ Under(policy, r.part) \in Path /\ Under(policy, s.part) \in Path
      <4>1. Under(policy, Root) = Root
        BY DEF Under, Root
      <4> QED BY <1>1, <2>3, <4>1, UnderType DEF Row, Root
    <3>2. \A path \in Path : PathsOverlap(Root, path) /\ PathsOverlap(path, Root)
      BY <3>1 DEF Covers, PathsOverlap, Path
    <3>3. PathsOverlap(Under(policy, r.part), Under(policy, s.part))
      BY <2>7, <3>1, <3>2
    <3> QED BY <2>3, <2>7, <3>3, UnderPolicyFields DEF RowsOverlap
  <2>8. ASSUME ~(ObjectsComparable(p, q) /\ x.object # Unknown /\ x.object = y.object)
       PROVE  RowsOverlap(x, y, ObjectsComparable(p, q))
    <3>1. PathsOverlap(Under(policy, r[sp]), Under(policy, s[sp]))
      <4>1. /\ Covers(Under(policy, r[sp]), Under(policy, Under(policy, f)))
            /\ Covers(Under(policy, s[sp]), Under(policy, Under(policy, f)))
        BY <1>1, <2>1, <2>2, <2>4, <2>5, UnderCovers DEF r, s
      <4>2. /\ Under(policy, r[sp]) \in Path /\ Under(policy, s[sp]) \in Path
            /\ Under(policy, Under(policy, f)) \in Path
        BY <1>1, <2>4, <2>5, UnderType
      <4> QED BY <4>1, <4>2, SharedPathOverlaps
    <3>2. PathsOverlap(x.git, y.git) \/ PathsOverlap(x.fs, y.fs)
      BY <2>3, <3>1, UnderPolicyFields
    <3> QED BY <2>8, <3>2 DEF RowsOverlap
  <2>9. RowsOverlap(x, y, ObjectsComparable(p, q))
    BY <2>6, <2>7, <2>8
  <2> QED BY <1>1, <2>3, <2>9 DEF ClaimScopesConflict
<1> QED BY <1>3, <1>4

\* An object that two scopes of one tree claim is found as well, whatever
\* names the two claims reached it under.
THEOREM SharedObjectsConflict ==
  ASSUME NEW p, NEW q, WellFormed(p), WellFormed(q), NEW tree \in Trees,
         ResolvedIn(p, tree), ResolvedIn(q, tree), ShareObject(p, q)
  PROVE  ClaimScopesConflict(p, q)
<1> DEFINE policy == KnownPolicy(p, q, tree)
<1>1. /\ WorktreesMatch(p, q) /\ SharedPolicy(p, q) = policy
      /\ policy \in Policies \cup {"literal"}
  BY OneTreeMatches
<1>2. /\ p.identity # Unknown /\ p.identity.host # Unknown /\ p.identity.key # Unknown
      /\ q.identity # Unknown /\ q.identity.host # Unknown /\ q.identity.key # Unknown
  BY DEF ShareObject
<1>3. ObjectsComparable(p, q)
  BY <1>2 DEF ObjectsComparable, ResolvedIn, SameKey
<1> HIDE DEF policy
<1>4. PICK d \in p.paths, e \in q.paths :
         /\ p.identity.rows[d].object # Unknown
         /\ p.identity.rows[d].object = q.identity.rows[e].object
         /\ PathsOverlap(p.identity.rows[d].part, q.identity.rows[e].part)
  BY DEF ShareObject, PathsOverlap
<1> DEFINE r == RowIn(p, policy, d)
           s == RowIn(q, policy, e)
           x == UnderPolicy(policy, r)
           y == UnderPolicy(policy, s)
<1>5. /\ r \in Row /\ x \in ComparedRows(p, policy)
      /\ s \in Row /\ y \in ComparedRows(q, policy)
  BY <1>1, RowFacts
<1>6. r = p.identity.rows[d] /\ s = q.identity.rows[e]
  BY <1>2 DEF RowIn
<1> HIDE DEF r, s
<1>7. r.part \in Path /\ s.part \in Path
  BY <1>5 DEF Row
<1>8. PathsOverlap(Under(policy, r.part), Under(policy, s.part))
  BY <1>1, <1>4, <1>6, <1>7, UnderCovers DEF PathsOverlap
<1>9. RowsOverlap(x, y, ObjectsComparable(p, q))
  BY <1>3, <1>4, <1>5, <1>6, <1>8, UnderPolicyFields DEF RowsOverlap
<1> QED BY <1>1, <1>5, <1>9 DEF ClaimScopesConflict

\* The verdict does not depend on which of two scopes was claimed first: what
\* every method of the registry that scans both ways relies on.
THEOREM ConflictSymmetric ==
  ASSUME NEW p, NEW q, ClaimScopesConflict(p, q)
  PROVE  ClaimScopesConflict(q, p)
<1>1. {p, q} = {q, p}
  OBVIOUS
<1>2. SharedPolicy(p, q) = SharedPolicy(q, p)
  BY <1>1 DEF SharedPolicy
<1>3. WorktreesMatch(p, q) => WorktreesMatch(q, p)
  BY <1>2 DEF WorktreesMatch, Agree, SameKey
<1>4. ObjectsComparable(p, q) = ObjectsComparable(q, p)
  BY DEF ObjectsComparable, SameKey
<1>5. ASSUME NEW r, NEW s, NEW c \in BOOLEAN, RowsOverlap(r, s, c)
      PROVE  RowsOverlap(s, r, c)
  BY <1>5 DEF RowsOverlap, PathsOverlap
<1>6. ObjectsComparable(p, q) \in BOOLEAN
  BY DEF ObjectsComparable
<1> QED BY <1>2, <1>3, <1>4, <1>5, <1>6 DEF ClaimScopesConflict

\* No two agents ever hold leases that claim one file or one object of a
\* working tree, for any agents, tasks, trees, client versions and spellings.
THEOREM FilesNeverShared == Spec => []FilesExclusive
<1>1. IInv => FilesExclusive
  <2> SUFFICES ASSUME IInv,
                      NEW t \in Tasks, NEW u \in Tasks, NEW tree \in Trees,
                      Held(reg, t), Held(reg, u),
                      ResolvedIn(reg.claims[t].scope, tree),
                      ResolvedIn(reg.claims[u].scope, tree),
                      \/ ShareFile(reg.claims[t].scope, reg.claims[u].scope, tree)
                      \/ ShareObject(reg.claims[t].scope, reg.claims[u].scope)
               PROVE  t = u \/ reg.claims[t].owner = reg.claims[u].owner
    BY DEF FilesExclusive
  <2> DEFINE p == reg.claims[t].scope
             q == reg.claims[u].scope
  <2>1. p \in Scopes /\ q \in Scopes
    BY DEF IInv, Sound, SoundLeases, Registry, Claim, Held
  <2>2. WellFormed(p) /\ WellFormed(q)
    BY <2>1, FileScopesAssumption
  <2>3. ClaimScopesConflict(p, q)
    BY <2>2, SharedFilesConflict, SharedObjectsConflict
  <2>4. <<p, q>> \in Overlap
    BY <2>1, <2>3, FileScopesAssumption
  <2> QED BY <2>4 DEF IInv, Sound, SoundLeases, ExclusiveScopes
<1> QED BY <1>1, IInvAlways, PTL
=============================================================================
