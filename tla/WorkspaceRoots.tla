--------------------------- MODULE WorkspaceRoots ---------------------------
(***************************************************************************)
(* The workspace roots of a project and the paths they authorise           *)
(* (maestro-project/src/auth.rs).  A path is the sequence of its           *)
(* components; a component ".." is 0.                                      *)
(***************************************************************************)
EXTENDS Naturals, Sequences, FiniteSets, SequencesExt

CONSTANTS Names,   \* components; numbers, for the order of paths
          Depth    \* bound on the components of a path

VARIABLES
  roots,     \* the registered roots: records [requested, canonical], or {}
  opened     \* the latest path opened: [asked, place], or the refusal

vars == <<roots, opened>>

Paths == UNION {[1..n -> Names] : n \in 1..Depth}
Askable == UNION {[1..n -> Names \cup {0}] : n \in 1..(Depth + 1)}
Refused == [asked |-> <<>>, place |-> <<>>]

Init == roots = {} /\ opened = Refused

-----------------------------------------------------------------------------
(* WorkspaceRoots::new: canonical roots, sorted, neither duplicate nor     *)
(* nested; the path that was asked for is kept as an alias.                *)

\* The order of canonical paths, component by component.
Before(p, q) ==
  \/ IsStrictPrefix(p, q)
  \/ \E k \in DOMAIN p \cap DOMAIN q : p[k] < q[k] /\ \A i \in 1..(k - 1) : p[i] = q[i]

\* A slip: the containment is tested in the wrong direction.
NestedBackwards(left, right) ==
  Before(left.canonical, right.canonical) /\ IsPrefix(right.canonical, left.canonical)

\* The later root of the sorted list lies inside the earlier one.
Nested(left, right) ==
  Before(left.canonical, right.canonical) /\ IsPrefix(left.canonical, right.canonical)

Acceptable(rs) ==
  \A l, r \in rs : l # r => l.canonical # r.canonical /\ ~Nested(l, r)

\* fs::canonicalize: a path names one directory, a canonical path itself.
Canonicalised(rs) ==
  \A l, r \in rs : l.requested \in {r.requested, r.canonical} => l.canonical = r.canonical

Register ==
  /\ roots = {}
  /\ \E l, r \in [requested : Paths, canonical : Paths] :
       Canonicalised({l, r}) /\ Acceptable({l, r}) /\ roots' = {l, r}
  /\ UNCHANGED opened

-----------------------------------------------------------------------------
(* normalize_absolute and authorize.                                       *)

\* ".." removes a component; the file system's root has no parent.
Normalized[path \in Askable \cup {<<>>}] ==
  IF path = <<>> THEN <<>>
  ELSE LET front == Normalized[Front(path)] IN
       IF Last(path) # 0 THEN Append(front, Last(path))
       ELSE IF front = <<>> \/ front[1] = 0 THEN <<0>> ELSE Front(front)

\* Both prefixes of every root that the path starts with; the longest wins.
Matched(path) ==
  {m \in roots \X Paths : m[2] \in {m[1].canonical, m[1].requested} /\ IsPrefix(m[2], path)}
Longest(path) ==
  {m \in Matched(path) : \A n \in Matched(path) : Len(n[2]) <= Len(m[2])}

\* open_directory, open_parent: what is opened is reached from the root's own
\* descriptor, component by component and without following links.
Place(m, path) == m[1].canonical \o SubSeq(path, Len(m[2]) + 1, Len(path))

Open(asked) ==
  LET path == Normalized[asked] IN
  /\ roots # {}
  /\ IF Matched(path) = {} THEN opened' = Refused
     ELSE \E m \in Longest(path) : opened' = [asked |-> asked, place |-> Place(m, path)]
  /\ UNCHANGED roots

Next == Register \/ \E asked \in Askable : Open(asked)

-----------------------------------------------------------------------------
\* What is opened lies in exactly one root: normalisation, aliases and the
\* choice of the longest prefix never lead outside the roots, and the roots
\* never overlap (WorkspaceRoots::new, authorize).
RootsApart ==
  opened # Refused =>
    \E r \in roots : {q \in roots : IsPrefix(q.canonical, opened.place)} = {r}

\* What makes it inductive: a place lies in some root, and no two roots overlap.
TypeOK == roots \subseteq [requested : Paths, canonical : Paths]
PlacedInRoot ==
  opened # Refused =>
    /\ opened.place \in Seq(Names \cup {0})
    /\ \E r \in roots : IsPrefix(r.canonical, opened.place)
IInv == TypeOK /\ Acceptable(roots) /\ PlacedInRoot
=============================================================================
