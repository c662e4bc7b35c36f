---------------------------- MODULE ScopeOverlap ----------------------------
(***************************************************************************)
(* When two claimed file scopes contend (core/scoping.py and                *)
(* core/path_identity.py).  A scope is a worktree label, the paths the claim  *)
(* displays, and, when a git-aware client made it, an identity: the worktree  *)
(* and one row per path, resolved on the client's machine.  A client of an     *)
(* older version sends no identity, or one that says less.                    *)
(*                                                                          *)
(* A path is the sequence of its segments; "/" only separates them.  Unicode   *)
(* normalisation and case folding act on segments through Form.  The hub       *)
(* aligns rows with paths by position; paths are distinct, so here the rows     *)
(* are a function of the path.                                                *)
(***************************************************************************)
EXTENDS Integers, Sequences, FiniteSets

CONSTANTS
    Segments,     \* names of files, directories and symbols
    Unfit,        \* stands for a segment that is unprintable or over-long
    Mark,         \* ".synapse-symbol": what follows it names a declaration
    Labels,       \* worktree labels
    Form,         \* per policy, the comparison form of a segment
    LabelForm,    \* per policy, the comparison form of a label
    Hosts,        \* filesystem namespaces
    Objects,      \* device:inode[:generation] keys of files
    Devices,      \* device:inode keys of worktree roots
    Generations,  \* inode generations
    Unknown,      \* an absent identity, host, object, root key or generation
    MaxPaths      \* max_paths_per_claim

\* case_sensitive of an identity; two claims without one compare literally.
Policies == {"sensitive", "folded"}

Path == Seq(Segments)
Root == <<>>

\* CanonicalPathIdentity: the spellings of one path in the git index and on
\* disk, the object it names, and the declaration inside that object.
Row == [git : Path, fs : Path, object : Objects \cup {Unknown}, part : Path]

\* worktree_object_id: the generation is missing on some filesystems and from
\* older clients.
RootKey == [device : Devices, generation : Generations \cup {Unknown}]

Identity(paths) ==
    [label : Labels, policy : Policies, rows : [paths -> Row],
     key : RootKey \cup {Unknown}, host : Hosts \cup {Unknown}]

ASSUME FormAssumption ==
    /\ Form \in [Policies \cup {"literal"} -> [Segments -> Segments]]
    /\ \A s \in Segments : Form["literal"][s] = s
    /\ LabelForm \in [Policies -> [Labels -> Labels]]
    /\ MaxPaths \in Nat \ {0}

-----------------------------------------------------------------------------
(* Declared paths.                                                          *)

\* normalize_path: a rooted path or one that climbs stands for the whole tree.
NormalizePath(raw) ==
    IF (raw # <<>> /\ raw[1] = "") \/ \E i \in DOMAIN raw : raw[i] = ".."
    THEN Root
    ELSE SelectSeq(raw, LAMBDA s : s \notin {"", "."})

\* What cannot be trusted as a bounded path.
Unbounded(raw) ==
    (\E i \in DOMAIN raw : raw[i] = Unfit) \/ NormalizePath(raw) = Root

\* normalize_paths: one unbounded path, or too many, widen the claim to the
\* whole tree, so that it over-claims and never misses.
NormalizePaths(raws) ==
    LET norm == {NormalizePath(raw) : raw \in raws}
    IN  IF (\E raw \in raws : Unbounded(raw)) \/ Cardinality(norm) > MaxPaths
        THEN {Root}
        ELSE norm

\* comparison_path
Under(policy, path) == [i \in DOMAIN path |-> Form[policy][path[i]]]

\* _path_covers: path is the scope itself or lies beneath it.
Covers(scope, path) ==
    /\ Len(scope) <= Len(path)
    /\ \A i \in 1..Len(scope) : scope[i] = path[i]

\* paths_overlap
PathsOverlap(p, q) == Covers(p, q) \/ Covers(q, p)

-----------------------------------------------------------------------------
(* Worktrees.                                                               *)

\* Mutant of SameKey: an older client's key without a generation names no
\* root of a newer client.
SameKeyExact(k, l) == k = l

\* _same_worktree_key
SameKey(k, l) ==
    /\ k.device = l.device
    /\ Unknown \in {k.generation, l.generation} \/ k.generation = l.generation

\* Whether a label shown without identity is the worktree of an identity.
LabelNames(label, id) == LabelForm[id.policy][label] = id.label

\* Folding wins: the policy two scopes are compared under.
SharedPolicy(p, q) ==
    LET known == {s.identity.policy : s \in {s \in {p, q} : s.identity # Unknown}}
    IN  CASE known = {}          -> "literal"
          [] "folded" \in known  -> "folded"
          [] OTHER               -> "sensitive"

\* Two optional values do not contradict each other.
Agree(v, w) == Unknown \in {v, w} \/ v = w

\* claim_worktrees_match
WorktreesMatch(p, q) ==
    CASE p.identity = Unknown /\ q.identity = Unknown -> p.worktree = q.worktree
      [] p.identity = Unknown /\ q.identity # Unknown -> LabelNames(p.worktree, q.identity)
      [] p.identity # Unknown /\ q.identity = Unknown -> LabelNames(q.worktree, p.identity)
      [] OTHER ->
           LET form == LabelForm[SharedPolicy(p, q)]
           IN  /\ form[p.identity.label] = form[q.identity.label]
               /\ Agree(p.identity.host, q.identity.host)
               /\ \/ Unknown \in {p.identity.key, q.identity.key}
                  \/ SameKey(p.identity.key, q.identity.key)

\* claim_object_ids_comparable: object keys are local to a host and a root.
ObjectsComparable(p, q) ==
    /\ Unknown \notin {p.identity, q.identity}
    /\ Unknown \notin {p.identity.host, p.identity.key, q.identity.key}
    /\ p.identity.host = q.identity.host
    /\ SameKey(p.identity.key, q.identity.key)

-----------------------------------------------------------------------------
(* Scopes.                                                                  *)

\* _under_case_policy
UnderPolicy(policy, row) ==
    [row EXCEPT !.git = Under(policy, @), !.fs = Under(policy, @), !.part = Under(policy, @)]

\* _legacy_identity
LegacyRow(policy, path) ==
    [git |-> Under(policy, path), fs |-> Under(policy, path), object |-> Unknown, part |-> Root]

\* The rows of a scope as the comparison sees them.
ComparedRows(p, policy) ==
    {UnderPolicy(policy, IF p.identity = Unknown THEN LegacyRow(policy, d) ELSE p.identity.rows[d]) :
        d \in p.paths}

\* _canonical_pair_overlaps: one object contends by its declarations, under
\* whichever names the two claims reached it.
RowsOverlap(r, s, comparable) ==
    IF comparable /\ r.object # Unknown /\ r.object = s.object
    THEN PathsOverlap(r.part, s.part)
    ELSE PathsOverlap(r.git, s.git) \/ PathsOverlap(r.fs, s.fs)

\* claim_scopes_conflict: a scope without paths owns its whole worktree.
ClaimScopesConflict(p, q) ==
    /\ WorktreesMatch(p, q) \/ ObjectsComparable(p, q)
    /\ \/ p.paths = {} \/ q.paths = {}
       \/ \E r \in ComparedRows(p, SharedPolicy(p, q)), s \in ComparedRows(q, SharedPolicy(p, q)) :
             RowsOverlap(r, s, ObjectsComparable(p, q))

\* The path ends in Mark and the declaration, and has no other Mark: what
\* from_dict demands of git_path, and semantic_scope_path makes of both.
NamesPart(path, part) ==
    \E k \in 2..Len(path) :
        /\ path[k] = Mark /\ \A j \in DOMAIN path \ {k} : path[j] # Mark
        /\ part = SubSeq(path, k + 1, Len(path))

\* from_dict and validates_display_scope; claim_task refuses anything else.
WellFormed(p) ==
    /\ p.worktree \in Labels /\ p.paths \subseteq Path
    /\ p.identity # Unknown =>
         LET id == p.identity
         IN  /\ id \in Identity(p.paths)
             /\ LabelNames(p.worktree, id)
             /\ \A d \in p.paths : id.rows[d].git = Under(id.policy, d)
             /\ \A d \in p.paths : id.rows[d].part # Root =>
                  /\ NamesPart(id.rows[d].git, Under(id.policy, id.rows[d].part))
                  /\ NamesPart(id.rows[d].fs, Under(id.policy, id.rows[d].part))
=============================================================================
