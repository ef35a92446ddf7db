-------------------------- MODULE ChangesFeedProofs --------------------------
(***************************************************************************)
(* Proofs about ChangesFeed, for any files, contents, document filter,     *)
(* limit on a page and number of commits: pages tell every change once,    *)
(* and a client that does what they say catches up.                        *)
(***************************************************************************)
EXTENDS ChangesFeed, FiniteSetTheorems, TLAPS

-----------------------------------------------------------------------------
(***************************************************************************)
(* Finite sets of numbers have a greatest and a least element.             *)
(***************************************************************************)
LEMMA Greatest ==
  ASSUME NEW T \in SUBSET Nat, IsFiniteSet(T), T # {}
  PROVE  \E m \in T : \A t \in T : t <= m
<1> DEFINE Above(x) == {y \in T : y > x}
           F == {Above(x) : x \in T}
<1>1. IsWellFoundedOn(StrictSubsetOrdering(T), SUBSET T)
  BY FS_StrictSubsetOrderingWellFounded, FS_FiniteSubsetsOfFinite
<1>2. F \subseteq SUBSET T /\ F # {}
  OBVIOUS
<1>3. PICK U \in F : \A V \in F : <<V, U>> \notin StrictSubsetOrdering(T)
  <2> HIDE DEF F
  <2> QED BY <1>1, <1>2, WFMin, Zenon
<1>4. PICK m \in T : U = Above(m)
  BY <1>3
<1>5. ASSUME NEW t \in T, t > m PROVE FALSE
  <2>1. Above(t) \subseteq Above(m) /\ Above(t) # Above(m)
    <3>1. t \in Above(m) /\ t \notin Above(t)
      BY <1>5
    <3>2. \A y \in T : y > t => y > m
      <4> SUFFICES ASSUME NEW y \in T, y > t PROVE y > m
        OBVIOUS
      <4>1. y \in Nat /\ t \in Nat /\ m \in Nat
        OBVIOUS
      <4> QED BY <1>5, <4>1
    <3>3. Above(t) \subseteq Above(m)
      BY <3>2
    <3> QED BY <3>1, <3>3
  <2>2. <<Above(t), U>> \in StrictSubsetOrdering(T)
    BY <2>1, <1>4 DEF StrictSubsetOrdering
  <2> QED BY <2>2, <1>3, <1>5
<1> QED BY <1>5

LEMMA Least ==
  ASSUME NEW T \in SUBSET Nat, IsFiniteSet(T), T # {}
  PROVE  \E m \in T : \A t \in T : m <= t
<1> DEFINE Below(x) == {y \in T : y < x}
           F == {Below(x) : x \in T}
<1>1. IsWellFoundedOn(StrictSubsetOrdering(T), SUBSET T)
  BY FS_StrictSubsetOrderingWellFounded, FS_FiniteSubsetsOfFinite
<1>2. F \subseteq SUBSET T /\ F # {}
  OBVIOUS
<1>3. PICK U \in F : \A V \in F : <<V, U>> \notin StrictSubsetOrdering(T)
  <2> HIDE DEF F
  <2> QED BY <1>1, <1>2, WFMin, Zenon
<1>4. PICK m \in T : U = Below(m)
  BY <1>3
<1>5. ASSUME NEW t \in T, t < m PROVE FALSE
  <2>1. Below(t) \subseteq Below(m) /\ Below(t) # Below(m)
    <3>1. t \in Below(m) /\ t \notin Below(t)
      BY <1>5
    <3>2. \A y \in T : y < t => y < m
      <4> SUFFICES ASSUME NEW y \in T, y < t PROVE y < m
        OBVIOUS
      <4>1. y \in Nat /\ t \in Nat /\ m \in Nat
        OBVIOUS
      <4> QED BY <1>5, <4>1
    <3>3. Below(t) \subseteq Below(m)
      BY <3>2
    <3> QED BY <3>1, <3>3
  <2>2. <<Below(t), U>> \in StrictSubsetOrdering(T)
    BY <2>1, <1>4 DEF StrictSubsetOrdering
  <2> QED BY <2>2, <1>3, <1>5
<1> QED BY <1>5

-----------------------------------------------------------------------------
(***************************************************************************)
(* What a range is about: the two commits, their changes, renames.         *)
(***************************************************************************)
Places == Commit \cup {None}
Trees == tree \in [Commit -> Tree]

LEMMA TreeOfIsTree ==
  ASSUME Trees, NEW c \in Places
  PROVE  TreeOf(c) \in Tree
BY ConstantsAssumption DEF Trees, Places, TreeOf, Tree, NoTree, Commit

LEMMA Sides ==
  ASSUME NEW b, NEW h
  PROVE  /\ IsFiniteSet(Deleted(b, h)) /\ IsFiniteSet(Added(b, h))
         /\ Deleted(b, h) \subseteq Paths /\ Added(b, h) \subseteq Paths
BY ConstantsAssumption, FS_Subset DEF Deleted, Added

\* Some way to pair files is one that pairs the most.
LEMMA RenamesPair ==
  ASSUME NEW b, NEW h
  PROVE  Renames(b, h) \in Pairings(b, h)
<1> DEFINE S == Pairings(b, h)
           Size(f) == Cardinality(Paired(f))
           Sizes == {Size(f) : f \in S}
           N == Cardinality(Deleted(b, h))
<1>1. \A f \in S : DOMAIN f = Deleted(b, h) /\ Paired(f) \subseteq Deleted(b, h)
  BY DEF Pairings, Paired
<1>2. N \in Nat /\ \A f \in S : Size(f) \in 0 .. N
  <2>1. N \in Nat
    BY Sides, FS_CardinalityType
  <2>2. ASSUME NEW f \in S PROVE Size(f) \in 0 .. N
    <3>1. IsFiniteSet(Paired(f)) /\ Cardinality(Paired(f)) <= N
      BY <1>1, Sides, FS_Subset
    <3>2. Cardinality(Paired(f)) \in Nat
      BY <3>1, FS_CardinalityType
    <3> QED BY <2>1, <3>1, <3>2
  <2> QED BY <2>1, <2>2
<1>3. [p \in Deleted(b, h) |-> None] \in S
  BY DEF Pairings
<1>4. Sizes \in SUBSET Nat /\ Sizes # {} /\ IsFiniteSet(Sizes)
  <2>1. Sizes \subseteq 0 .. N /\ Sizes # {}
    BY <1>2, <1>3
  <2>2. IsFiniteSet(0 .. N)
    BY <1>2, FS_Interval
  <2> HIDE DEF Sizes, N
  <2>3. IsFiniteSet(Sizes)
    BY <2>1, <2>2, FS_Subset
  <2> QED BY <1>2, <2>1, <2>3
<1>5. PICK m \in Sizes : \A t \in Sizes : t <= m
  <2> HIDE DEF Sizes
  <2> QED BY <1>4, Greatest
<1>6. \E f \in S : \A g \in S : Size(f) >= Size(g)
  <2>1. PICK f \in S : m = Size(f)
    BY <1>5
  <2>2. \A g \in S : Size(g) <= Size(f)
    BY <2>1, <1>5
  <2>3. \A g \in S : Size(f) >= Size(g)
    BY <2>2, <1>2
  <2> QED BY <2>3
<1> QED BY <1>6 DEF Renames

\* Every way a visible entry comes about.
Entry(c, b, h, f) ==
  \/ \E p \in Paired(f) :
       \/ p \in Shown /\ f[p] \in Shown /\ c = [kind |-> "renamed", path |-> f[p], old |-> p]
       \/ p \notin Shown /\ f[p] \in Shown /\ c = Plain("added", f[p])
       \/ p \in Shown /\ f[p] \notin Shown /\ c = Plain("deleted", p)
  \/ \E p \in Shown :
       \/ p \in Deleted(b, h) \ Paired(f) /\ c = Plain("deleted", p)
       \/ p \in Added(b, h) \ {f[q] : q \in Paired(f)} /\ c = Plain("added", p)
       \/ /\ None \notin {TreeOf(b)[p], TreeOf(h)[p]} /\ TreeOf(b)[p] # TreeOf(h)[p]
          /\ c = Plain("modified", p)

LEMMA Entries ==
  ASSUME NEW b, NEW h, NEW c
  PROVE  c \in VisibleChanges(b, h) <=> Entry(c, b, h, Renames(b, h))
<1> DEFINE f == Renames(b, h)
<1>0. Shown \subseteq Paths /\ Deleted(b, h) \subseteq Paths /\ Added(b, h) \subseteq Paths
  BY ConstantsAssumption, Sides
<1>1. c \in VisibleChanges(b, h) <=> \E n \in NetChanges(b, h) : c \in Visible(n)
  BY DEF VisibleChanges
<1>2. ASSUME NEW n
      PROVE  n \in NetChanges(b, h) <=>
               \/ \E p \in Paired(f) : n = [kind |-> "renamed", path |-> f[p], old |-> p]
               \/ \E p \in Deleted(b, h) \ Paired(f) : n = Plain("deleted", p)
               \/ \E p \in Added(b, h) \ {f[q] : q \in Paired(f)} : n = Plain("added", p)
               \/ \E p \in Paths : /\ None \notin {TreeOf(b)[p], TreeOf(h)[p]}
                                   /\ TreeOf(b)[p] # TreeOf(h)[p]
                                   /\ n = Plain("modified", p)
  <2> HIDE DEF f
  <2> QED BY DEF NetChanges, f
<1>3. \A p : Visible([kind |-> "renamed", path |-> f[p], old |-> p]) =
               IF p \in Shown /\ f[p] \in Shown
               THEN {[kind |-> "renamed", path |-> f[p], old |-> p]}
               ELSE IF f[p] \in Shown THEN {Plain("added", f[p])}
               ELSE IF p \in Shown THEN {Plain("deleted", p)} ELSE {}
  <2> HIDE DEF f
  <2> QED BY DEF Visible
<1>4. \A p, k : k # "renamed" =>
        Visible(Plain(k, p)) = IF p \in Shown THEN {Plain(k, p)} ELSE {}
  BY DEF Visible, Plain
<1> HIDE DEF f
<1>5. ASSUME c \in VisibleChanges(b, h) PROVE Entry(c, b, h, f)
  <2>1. PICK n \in NetChanges(b, h) : c \in Visible(n)
    BY <1>1, <1>5
  <2>2. CASE \E p \in Paired(f) : n = [kind |-> "renamed", path |-> f[p], old |-> p]
    <3>1. PICK p \in Paired(f) : n = [kind |-> "renamed", path |-> f[p], old |-> p]
      BY <2>2
    <3>2. c \in Visible([kind |-> "renamed", path |-> f[p], old |-> p])
      BY <2>1, <3>1
    <3>3. \/ /\ p \in Shown /\ f[p] \in Shown
             /\ c = [kind |-> "renamed", path |-> f[p], old |-> p]
          \/ p \notin Shown /\ f[p] \in Shown /\ c = Plain("added", f[p])
          \/ p \in Shown /\ f[p] \notin Shown /\ c = Plain("deleted", p)
      BY <3>2, <1>3, Zenon
    <3> QED BY <3>3 DEF Entry
  <2>3. CASE \E p \in Deleted(b, h) \ Paired(f) : n = Plain("deleted", p)
    BY <2>1, <2>3, <1>4 DEF Entry
  <2>4. CASE \E p \in Added(b, h) \ {f[q] : q \in Paired(f)} : n = Plain("added", p)
    BY <2>1, <2>4, <1>4 DEF Entry
  <2>5. CASE \E p \in Paths : /\ None \notin {TreeOf(b)[p], TreeOf(h)[p]}
                              /\ TreeOf(b)[p] # TreeOf(h)[p]
                              /\ n = Plain("modified", p)
    BY <2>1, <2>5, <1>4 DEF Entry
  <2> QED BY <2>2, <2>3, <2>4, <2>5, <1>2
<1>6. ASSUME Entry(c, b, h, f) PROVE c \in VisibleChanges(b, h)
  <2>1. CASE \E p \in Paired(f) :
       \/ p \in Shown /\ f[p] \in Shown /\ c = [kind |-> "renamed", path |-> f[p], old |-> p]
       \/ p \notin Shown /\ f[p] \in Shown /\ c = Plain("added", f[p])
       \/ p \in Shown /\ f[p] \notin Shown /\ c = Plain("deleted", p)
    <3>1. PICK p \in Paired(f) :
            \/ p \in Shown /\ f[p] \in Shown /\ c = [kind |-> "renamed", path |-> f[p], old |-> p]
            \/ p \notin Shown /\ f[p] \in Shown /\ c = Plain("added", f[p])
            \/ p \in Shown /\ f[p] \notin Shown /\ c = Plain("deleted", p)
      BY <2>1
    <3>2. [kind |-> "renamed", path |-> f[p], old |-> p] \in NetChanges(b, h)
      BY <1>2
    <3>3. c \in Visible([kind |-> "renamed", path |-> f[p], old |-> p])
      BY <3>1, <1>3
    <3> QED BY <3>2, <3>3, <1>1
  <2>2. ASSUME NEW p \in Shown, p \in Deleted(b, h) \ Paired(f), c = Plain("deleted", p)
        PROVE  c \in VisibleChanges(b, h)
    BY <2>2, <1>1, <1>2, <1>4
  <2>3. ASSUME NEW p \in Shown, p \in Added(b, h) \ {f[q] : q \in Paired(f)},
               c = Plain("added", p)
        PROVE  c \in VisibleChanges(b, h)
    BY <2>3, <1>1, <1>2, <1>4
  <2>4. ASSUME NEW p \in Shown, None \notin {TreeOf(b)[p], TreeOf(h)[p]},
               TreeOf(b)[p] # TreeOf(h)[p], c = Plain("modified", p)
        PROVE  c \in VisibleChanges(b, h)
    BY <2>4, <1>0, <1>1, <1>2, <1>4
  <2> QED BY <1>6, <2>1, <2>2, <2>3, <2>4 DEF Entry
<1> QED BY <1>5, <1>6 DEF f

\* A document is told of in one entry at most.
LEMMA OneEntryEach ==
  ASSUME NEW b, NEW h, NEW c \in VisibleChanges(b, h), NEW d \in VisibleChanges(b, h),
         c.path = d.path
  PROVE  c = d
<1> DEFINE f == Renames(b, h)
<1>1. /\ f \in [Deleted(b, h) -> Added(b, h) \cup {None}]
      /\ \A p, q \in DOMAIN f : f[p] # None /\ p # q => f[p] # f[q]
  BY RenamesPair DEF Pairings
<1>2. Entry(c, b, h, f) /\ Entry(d, b, h, f)
  BY Entries
<1> HIDE DEF f
<1>3. \A p \in Paired(f) : p \in Deleted(b, h) /\ f[p] \in Added(b, h)
  BY <1>1 DEF Paired
<1>4. \A p, q \in Paired(f) : f[p] = f[q] => p = q
  BY <1>1 DEF Paired
<1>5. /\ \A p : ~(p \in Deleted(b, h) /\ p \in Added(b, h))
      /\ \A p : None \notin {TreeOf(b)[p], TreeOf(h)[p]} =>
                  p \notin Deleted(b, h) \cup Added(b, h)
  BY DEF Deleted, Added
<1> QED BY <1>2, <1>3, <1>4, <1>5 DEF Entry, Plain

\* An entry names files of the repository; what an entry says the document at its path is
\* like now is so, and the path it left holds nothing.
LEMMA EntryFacts ==
  ASSUME NEW b, NEW h, NEW c \in VisibleChanges(b, h)
  PROVE  /\ c \in Change /\ c.path \in Shown
         /\ c.old # None => c.old \in Shown /\ TreeOf(h)[c.old] = None
<1> DEFINE f == Renames(b, h)
<1>1. /\ f \in [Deleted(b, h) -> Added(b, h) \cup {None}]
      /\ Entry(c, b, h, f)
  BY RenamesPair, Entries DEF Pairings
<1>2. Shown \subseteq Paths
  BY ConstantsAssumption
<1> HIDE DEF f
<1>3. \A p \in Paired(f) : p \in Deleted(b, h) /\ f[p] \in Added(b, h)
  BY <1>1 DEF Paired
<1>4. \A p \in Deleted(b, h) : TreeOf(h)[p] = None
  BY DEF Deleted
<1>5. /\ c.path \in Shown
      /\ c.kind \in Kinds
      /\ c = [kind |-> c.kind, path |-> c.path, old |-> c.old]
      /\ c.old = None \/ (c.old \in Shown /\ c.old \in Paired(f))
  BY <1>1 DEF Entry, Plain, Kinds
<1> QED BY <1>2, <1>3, <1>4, <1>5 DEF Change

\* Whatever differs is told of.
LEMMA DifferenceIsTold ==
  ASSUME NEW b, NEW h, NEW p \in Shown, TreeOf(b)[p] # TreeOf(h)[p]
  PROVE  \E c \in VisibleChanges(b, h) : p \in {c.path, c.old}
<1> DEFINE f == Renames(b, h)
<1>0. p \in Paths
  BY ConstantsAssumption
<1>1. \A c : Entry(c, b, h, f) => c \in VisibleChanges(b, h)
  BY Entries
<1> HIDE DEF f
<1>2. CASE p \in Deleted(b, h) /\ p \in Paired(f)
  <2>1. CASE f[p] \in Shown
    <3>1. Entry([kind |-> "renamed", path |-> f[p], old |-> p], b, h, f)
      BY <1>2, <2>1 DEF Entry
    <3> QED BY <3>1, <1>1
  <2>2. CASE f[p] \notin Shown
    <3>1. Entry(Plain("deleted", p), b, h, f)
      BY <1>2, <2>2 DEF Entry
    <3> QED BY <3>1, <1>1 DEF Plain
  <2> QED BY <2>1, <2>2
<1>3. CASE p \in Deleted(b, h) /\ p \notin Paired(f)
  <2>1. Entry(Plain("deleted", p), b, h, f)
    BY <1>3 DEF Entry
  <2> QED BY <2>1, <1>1 DEF Plain
<1>4. CASE p \in Added(b, h) /\ p \in {f[q] : q \in Paired(f)}
  <2>1. PICK q \in Paired(f) : p = f[q]
    BY <1>4
  <2>2. CASE q \in Shown
    <3>1. Entry([kind |-> "renamed", path |-> p, old |-> q], b, h, f)
      BY <2>1, <2>2 DEF Entry
    <3> QED BY <3>1, <1>1
  <2>3. CASE q \notin Shown
    <3>1. Entry(Plain("added", p), b, h, f)
      BY <2>1, <2>3 DEF Entry
    <3> QED BY <3>1, <1>1 DEF Plain
  <2> QED BY <2>2, <2>3
<1>5. CASE p \in Added(b, h) /\ p \notin {f[q] : q \in Paired(f)}
  <2>1. Entry(Plain("added", p), b, h, f)
    BY <1>5 DEF Entry
  <2> QED BY <2>1, <1>1 DEF Plain
<1>6. CASE p \notin Deleted(b, h) \cup Added(b, h)
  <2>1. None \notin {TreeOf(b)[p], TreeOf(h)[p]}
    BY <1>0, <1>6 DEF Deleted, Added
  <2>2. Entry(Plain("modified", p), b, h, f)
    BY <2>1 DEF Entry
  <2> QED BY <2>2, <1>1 DEF Plain
<1> QED BY <1>2, <1>3, <1>4, <1>5, <1>6

LEMMA VisibleFinite ==
  ASSUME NEW b, NEW h
  PROVE  IsFiniteSet(VisibleChanges(b, h))
<1> DEFINE V == VisibleChanges(b, h)
           g == [c \in V |-> c.path]
<1>1. g \in Injection(V, Paths)
  <2>1. \A c \in V : c.path \in Paths
    BY EntryFacts, ConstantsAssumption
  <2>2. \A c, d \in V : c.path = d.path => c = d
    BY OneEntryEach
  <2> HIDE DEF V
  <2> QED BY <2>1, <2>2 DEF Injection, IsInjective
<1> QED BY <1>1, FS_Injection, ConstantsAssumption

\* Two states that agree about the two trees agree about the changes between them.
Fullest(S) == CHOOSE f \in S : \A g \in S : Cardinality(Paired(f)) >= Cardinality(Paired(g))

LEMMA SameChanges ==
  ASSUME NEW b, NEW h, TreeOf(b)' = TreeOf(b), TreeOf(h)' = TreeOf(h)
  PROVE  VisibleChanges(b, h)' = VisibleChanges(b, h)
<1>1. Deleted(b, h)' = Deleted(b, h) /\ Added(b, h)' = Added(b, h)
  BY DEF Deleted, Added
<1>2. Pairings(b, h)' = Pairings(b, h)
  BY <1>1 DEF Pairings
<1>3. Renames(b, h)' = Renames(b, h)
  <2>1. Renames(b, h) = Fullest(Pairings(b, h))
    BY DEF Renames, Fullest
  <2>2. Renames(b, h)' = Fullest(Pairings(b, h)')
    BY DEF Renames, Fullest
  <2> QED BY <1>2, <2>1, <2>2
<1>4. NetChanges(b, h)' = NetChanges(b, h)
  BY <1>1, <1>3 DEF NetChanges
<1> QED BY <1>4 DEF VisibleChanges

-----------------------------------------------------------------------------
(***************************************************************************)
(* A page is the beginning of what is left, and stops short of the end     *)
(* only when there is more.                                                *)
(***************************************************************************)
LEMMA PageFacts ==
  ASSUME NEW r, NEW limit \in Nat \ {0}
  PROVE  /\ Page(r, limit) \subseteq Rest(r)
         /\ Rest(r) # {} => Page(r, limit) # {}
         /\ ~More(r, limit) => Page(r, limit) = Rest(r)
         /\ More(r, limit) =>
              LET last == Last(Page(r, limit))
              IN /\ last \in Shown /\ After([path |-> last], r.after)
                 /\ Page(r, limit) = {c \in Rest(r) : c.path <= last}
                 /\ Rest(r) # Page(r, limit)
<1> DEFINE R == Rest(r)
           P == Page(r, limit)
           UpTo(c) == {d \in R : d.path <= c.path}
<1>1. IsFiniteSet(R) /\ R \subseteq VisibleChanges(r.base, r.head)
  BY VisibleFinite, FS_Subset DEF Rest
<1>2. /\ \A c \in R : c.path \in Shown /\ c.path \in Nat
      /\ \A c, d \in R : c.path = d.path => c = d
  BY <1>1, EntryFacts, OneEntryEach, ConstantsAssumption
<1>3. P = {c \in R : Cardinality(UpTo(c)) <= limit}
  BY DEF Page
<1>4. More(r, limit) <=> Cardinality(R) > limit
  BY DEF More
<1>5. \A c \in R : After(c, r.after)
  BY DEF Rest
<1> HIDE DEF R, P
<1>6. \A c \in R : /\ IsFiniteSet(UpTo(c)) /\ Cardinality(UpTo(c)) \in Nat
                   /\ Cardinality(UpTo(c)) <= Cardinality(R)
  BY <1>1, FS_Subset, FS_CardinalityType
<1>7. Cardinality(R) \in Nat
  BY <1>1, FS_CardinalityType
<1>8. P \subseteq R
  BY <1>3
<1>9. ASSUME R # {} PROVE P # {}
  <2> DEFINE T == {c.path : c \in R}
  <2>1. T \in SUBSET Nat /\ T # {} /\ IsFiniteSet(T)
    <3>1. T \subseteq Paths /\ T \subseteq Nat /\ T # {}
      BY <1>2, <1>9, ConstantsAssumption
    <3>2. IsFiniteSet(T)
      BY <3>1, FS_Subset, ConstantsAssumption
    <3> QED BY <3>1, <3>2
  <2>2. PICK m \in T : \A t \in T : m <= t
    <3> HIDE DEF T
    <3> QED BY <2>1, Least
  <2>3. PICK c \in R : c.path = m
    BY <2>2
  <2>4. \A d \in R : d.path <= c.path => d.path = c.path
    <3> SUFFICES ASSUME NEW d \in R, d.path <= c.path PROVE d.path = c.path
      OBVIOUS
    <3>1. c.path <= d.path
      BY <2>2, <2>3
    <3> QED BY <3>1, <1>2
  <2>5. UpTo(c) = {c}
    <3>1. \A d \in UpTo(c) : d = c
      BY <2>4, <1>2
    <3>2. c \in UpTo(c)
      BY <1>2
    <3> QED BY <3>1, <3>2
  <2>6. Cardinality(UpTo(c)) <= limit
    <3>1. Cardinality({c}) = 1
      BY FS_Singleton
    <3>2. 1 <= limit
      OBVIOUS
    <3> QED BY <2>5, <3>1, <3>2, Zenon
  <2> QED BY <2>6, <1>3
<1>10. ASSUME ~(Cardinality(R) > limit) PROVE P = R
  <2>1. \A c \in R : Cardinality(UpTo(c)) <= limit
    BY <1>6, <1>7, <1>10
  <2> QED BY <2>1, <1>3
<1>11. ASSUME Cardinality(R) > limit
       PROVE  /\ Last(P) \in Shown /\ After([path |-> Last(P)], r.after)
              /\ P = {c \in R : c.path <= Last(P)}
              /\ R # P
  <2> DEFINE T == {c.path : c \in P}
  <2>1. P # {}
    <3>1. R # {}
      BY <1>11, <1>7, FS_EmptySet
    <3> QED BY <3>1, <1>9
  <2>2. T \in SUBSET Nat /\ T # {} /\ IsFiniteSet(T)
    <3>1. T \subseteq Paths /\ T \subseteq Nat /\ T # {}
      BY <1>2, <1>8, <2>1, ConstantsAssumption
    <3>2. IsFiniteSet(T)
      BY <3>1, FS_Subset, ConstantsAssumption
    <3> QED BY <3>1, <3>2
  <2>3. \E m \in T : \A t \in T : t <= m
    <3> HIDE DEF T
    <3> QED BY <2>2, Greatest
  <2>4. Last(P) \in T /\ \A c \in P : c.path <= Last(P)
    <3>1. \E m \in T : \A c \in P : c.path <= m
      BY <2>3
    <3> QED BY <3>1 DEF Last
  <2>5. PICK e \in P : e.path = Last(P)
    BY <2>4
  <2>6. ASSUME NEW c \in R, c.path <= Last(P) PROVE c \in P
    <3>1. \A d \in R : d.path <= c.path => d.path <= e.path
      BY <2>5, <2>6, <1>2, <1>8
    <3>2. UpTo(c) \subseteq UpTo(e)
      BY <3>1
    <3>3. Cardinality(UpTo(c)) <= Cardinality(UpTo(e))
      BY <3>2, <1>6, <1>8, FS_Subset
    <3>4. Cardinality(UpTo(e)) <= limit
      BY <1>3
    <3>5. Cardinality(UpTo(c)) \in Nat /\ Cardinality(UpTo(e)) \in Nat
      BY <1>6, <1>8
    <3> QED BY <3>3, <3>4, <3>5, <1>3
  <2>7. R # P
    <3> SUFFICES ASSUME R = P PROVE FALSE
      OBVIOUS
    <3>1. UpTo(e) = R
      BY <2>4, <2>5
    <3>2. Cardinality(R) <= limit
      BY <3>1, <1>3, Zenon
    <3> QED BY <3>2, <1>7, <1>11
  <2>8. Last(P) \in Shown /\ After([path |-> Last(P)], r.after)
    BY <2>5, <1>2, <1>5, <1>8 DEF After
  <2> QED BY <2>4, <2>6, <2>7, <2>8, <1>8
<1> QED BY <1>4, <1>8, <1>9, <1>10, <1>11 DEF P, R

-----------------------------------------------------------------------------
(***************************************************************************)
(* The inductive invariant.                                                *)
(***************************************************************************)
\* The client's copy when it was told some changes of a range.
View(b, h, changes) ==
  [p \in Paths |-> IF p \notin Shown THEN None
                   ELSE IF \E c \in changes : p \in {c.path, c.old} THEN TreeOf(h)[p]
                   ELSE TreeOf(b)[p]]
Told(b, h, after) ==
  {c \in VisibleChanges(b, h) : after = None \/ c.path <= after}

Made(c) == c = None \/ c \in 0 .. made

\* Commits name commits made before, and so does what the client holds; while it has more
\* to ask for, there is more to tell.
HistoryInv ==
  /\ \A c \in Commit : Made(parent[c])
  /\ Made(range.base) /\ Made(range.head) /\ Made(seen)

RangeInv ==
  /\ ranges = 0 => Resting /\ seen = None
  /\ Resting /\ seen # None => seen = range.head
  /\ ~Resting => Rest(range) # {}
  /\ ranges > 0 =>
       /\ range.head # None
       /\ got = Told(range.base, range.head, range.after)
       /\ mirror = View(range.base, range.head, got)

FeedInv == TypeOK /\ HistoryInv /\ RangeInv

LEMMA ViewIsTree ==
  ASSUME Trees, NEW b \in Places, NEW h \in Places, NEW changes
  PROVE  View(b, h, changes) \in Tree
BY TreeOfIsTree DEF View, Tree

\* A client that was told everything between two commits holds the later one.
LEMMA AllToldIsHead ==
  ASSUME NEW b, NEW h
  PROVE  View(b, h, VisibleChanges(b, h)) =
           [p \in Paths |-> IF p \in Shown THEN TreeOf(h)[p] ELSE None]
BY DifferenceIsTold DEF View

\* Doing what a page says, to a copy that was told all before it.
LEMMA ApplyIsTold ==
  ASSUME NEW b, NEW h, NEW before \in SUBSET VisibleChanges(b, h),
         NEW page \in SUBSET VisibleChanges(b, h)
  PROVE  Apply(View(b, h, before), page, h) = View(b, h, before \cup page)
<1>1. \A c \in page : c.path \in Shown /\ (c.old # None => c.old \in Shown)
  BY EntryFacts
<1>2. \A c \in page : c.old # None => TreeOf(h)[c.old] = None
  BY EntryFacts
<1>3. None \notin Paths
  BY ConstantsAssumption
<1>4. ASSUME NEW p \in Paths
      PROVE  Apply(View(b, h, before), page, h)[p] = View(b, h, before \cup page)[p]
  <2>1. CASE \E c \in page : c.path = p
    BY <2>1, <1>1 DEF Apply, View
  <2>2. CASE (\E c \in page : c.old = p) /\ ~\E c \in page : c.path = p
    BY <2>2, <1>1, <1>2, <1>3 DEF Apply, View
  <2>3. CASE ~\E c \in page : p \in {c.path, c.old}
    BY <2>3 DEF Apply, View
  <2> QED BY <2>1, <2>2, <2>3
<1> QED BY <1>4 DEF Apply, View

LEMMA InitFeedInv == Init => FeedInv
<1> SUFFICES ASSUME Init PROVE FeedInv
  OBVIOUS
<1>1. NoTree \in Tree /\ None \in Places /\ 0 \in Commit /\ 0 \in 0 .. MaxRanges
  BY ConstantsAssumption DEF NoTree, Tree, Places, Commit
<1>2. tree \in [Commit -> Tree]
  <2>1. PICK t \in Start : tree = [c \in Commit |-> IF c = 0 THEN t ELSE NoTree]
    BY DEF Init
  <2> QED BY <1>1, <2>1, ConstantsAssumption
<1>3. TypeOK
  BY <1>1, <1>2 DEF Init, TypeOK, NoRange, Places
<1>4. HistoryInv
  BY DEF Init, HistoryInv, Made, NoRange
<1>5. RangeInv
  BY DEF Init, RangeInv, Resting, NoRange
<1> QED BY <1>3, <1>4, <1>5 DEF FeedInv

\* One answer, of a range that was told the changes up to its last path.
LEMMA AnswerKeeps ==
  ASSUME FeedInv, NEW b, NEW h, NEW a \in Paths \cup {None}, NEW limit \in Nat \ {0},
         NEW before, NEW copy,
         Made(b), h \in 0 .. made,
         before = {c \in VisibleChanges(b, h) : a # None /\ c.path <= a},
         copy = View(b, h, before),
         Answer([base |-> b, head |-> h, after |-> a], before, copy, limit),
         ranges' \in 1 .. MaxRanges
  PROVE  FeedInv'
<1> DEFINE r == [base |-> b, head |-> h, after |-> a]
           page == Page(r, limit)
           last == Last(page)
           V == VisibleChanges(b, h)
<1>0. r.base = b /\ r.head = h /\ r.after = a
  OBVIOUS
<1>1. UNCHANGED repo /\ got' = before \cup page /\ mirror' = Apply(copy, page, h)
  BY DEF Answer
<1>2. /\ More(r, limit) => range' = [r EXCEPT !.after = last] /\ seen' = seen
      /\ ~More(r, limit) => range' = [r EXCEPT !.after = None] /\ seen' = h
  BY DEF Answer, NextCursor
<1>3. UNCHANGED <<made, tree, parent, head>>
  BY <1>1 DEF repo
<1>4. TreeOf(b)' = TreeOf(b) /\ TreeOf(h)' = TreeOf(h) /\ V' = V
  <2>1. TreeOf(b)' = TreeOf(b) /\ TreeOf(h)' = TreeOf(h)
    BY <1>3 DEF TreeOf
  <2> QED BY <2>1, SameChanges
<1>5. Rest(r) = {c \in V : a = None \/ c.path > a}
  BY DEF Rest, After
<1>6. /\ page \subseteq Rest(r)
      /\ ~More(r, limit) => page = Rest(r)
      /\ More(r, limit) => /\ last \in Shown /\ (a = None \/ last > a)
                           /\ page = {c \in Rest(r) : c.path <= last}
                           /\ Rest(r) # page
  <2> HIDE DEF r
  <2> QED BY <1>0, PageFacts DEF After
<1>7. \A c \in V : c.path \in Nat /\ c.path \in Shown /\ c \in Change
  BY EntryFacts, ConstantsAssumption
<1>8. Paths \subseteq Nat /\ Shown \subseteq Paths /\ None \notin Nat
  BY ConstantsAssumption
<1>9. a # None => a \in Nat
  BY <1>8
<1>10. page \subseteq V /\ before \subseteq V
  BY <1>5, <1>6
<1>11. made \in Commit /\ b \in Places /\ h \in Places /\ Trees /\ Made(h)
  <2>1. made \in Commit /\ Trees
    BY DEF FeedInv, TypeOK, Trees
  <2>2. 0 .. made \subseteq Commit
    BY <2>1, ConstantsAssumption DEF Commit
  <2> QED BY <2>1, <2>2 DEF Made, Places
<1> HIDE DEF r, page, last, V
<1>12. mirror' = View(b, h, before \cup page)
  BY <1>1, <1>10, ApplyIsTold DEF V
<1>13. mirror' = View(b, h, got)'
  <2>1. PICK told : told = before \cup page
    OBVIOUS
  <2>2. View(b, h, told)' = View(b, h, told)
    BY <1>4 DEF View
  <2> QED BY <2>1, <2>2, <1>1, <1>12
<1>14. CASE More(r, limit)
  <2>1. PICK l \in Shown : l = last
    BY <1>6, <1>14
  <2>2. l \in Paths /\ l \in Nat /\ l # None /\ (a = None \/ l > a)
    BY <1>6, <1>8, <1>14, <2>1
  <2>3. range' = [base |-> b, head |-> h, after |-> l] /\ seen' = seen
    BY <1>2, <1>14, <2>1 DEF r
  <2>4. page = {c \in Rest(r) : c.path <= l}
    BY <1>6, <1>14, <2>1
  <2>5. before \cup page = {c \in V : c.path <= l}
    <3>1. \A c \in V : c.path <= l => a = None \/ c.path <= a \/ c.path > a
      BY <1>7, <1>9
    <3>2. \A c \in V : a # None /\ c.path <= a => c.path <= l
      BY <1>7, <1>9, <2>2
    <3>3. before = {c \in V : a # None /\ c.path <= a}
      BY DEF V
    <3>4. page = {c \in V : (a = None \/ c.path > a) /\ c.path <= l}
      BY <2>4, <1>5
    <3> QED BY <3>1, <3>2, <3>3, <3>4
  <2>6. got' = Told(b, h, l)'
    BY <1>1, <1>4, <2>2, <2>5 DEF Told, V
  <2>7. Rest([base |-> b, head |-> h, after |-> l])' # {}
    <3>1. PICK c \in Rest(r) : c \notin page
      BY <1>6, <1>14
    <3>2. c \in V /\ ~(c.path <= l)
      BY <3>1, <1>5, <2>4
    <3>3. c.path > l
      BY <3>2, <1>7, <2>2
    <3>4. Rest([base |-> b, head |-> h, after |-> l])' = {d \in V' : l = None \/ d.path > l}
      BY DEF Rest, After, V
    <3> QED BY <3>2, <3>3, <3>4, <1>4
  <2>8. TypeOK'
    BY <1>1, <1>3, <1>7, <1>10, <1>11, <1>12, <2>2, <2>3, ViewIsTree
       DEF FeedInv, TypeOK, Places
  <2>9. HistoryInv'
    BY <1>3, <1>11, <2>3 DEF FeedInv, HistoryInv, Made
  <2>10. RangeInv'
    <3>1. range'.base = b /\ range'.head = h /\ range'.after = l /\ ~Resting'
      BY <2>2, <2>3 DEF Resting
    <3>2. Rest(range)' # {}
      BY <2>3, <2>7
    <3>3. got' = Told(range.base, range.head, range.after)'
      BY <3>1, <2>6
    <3>4. mirror' = View(range.base, range.head, got)'
      BY <3>1, <1>13
    <3>5. h # None
      BY ConstantsAssumption DEF FeedInv, TypeOK, Commit
    <3> QED BY <3>1, <3>2, <3>3, <3>4, <3>5 DEF RangeInv
  <2> QED BY <2>8, <2>9, <2>10 DEF FeedInv
<1>15. CASE ~More(r, limit)
  <2>1. range' = [base |-> b, head |-> h, after |-> None] /\ seen' = h
    BY <1>2, <1>15 DEF r
  <2>2. before \cup page = V
    BY <1>5, <1>6, <1>7, <1>9, <1>10, <1>15 DEF V
  <2>3. got' = Told(b, h, None)'
    BY <1>1, <1>4, <2>2 DEF Told, V
  <2>4. TypeOK'
    BY <1>1, <1>3, <1>7, <1>10, <1>11, <1>12, <2>1, ViewIsTree
       DEF FeedInv, TypeOK, Places
  <2>5. HistoryInv'
    BY <1>3, <1>11, <2>1 DEF FeedInv, HistoryInv, Made
  <2>6. RangeInv'
    <3>1. range'.base = b /\ range'.head = h /\ range'.after = None /\ Resting'
      BY <2>1 DEF Resting
    <3>2. got' = Told(range.base, range.head, range.after)'
      BY <3>1, <2>3
    <3>3. mirror' = View(range.base, range.head, got)'
      BY <3>1, <1>13
    <3>4. h # None
      BY ConstantsAssumption DEF FeedInv, TypeOK, Commit
    <3> QED BY <3>1, <3>2, <3>3, <3>4, <2>1 DEF RangeInv
  <2> QED BY <2>4, <2>5, <2>6 DEF FeedInv
<1> QED BY <1>14, <1>15

\* What a commit was does not change.
LEMMA OldTreesStay ==
  ASSUME TypeOK, [Next]_vars, NEW c, Made(c)
  PROVE  TreeOf(c)' = TreeOf(c)
<1>1. ASSUME NEW t \in Tree, Write(t) PROVE TreeOf(c)' = TreeOf(c)
  <2>1. c # made + 1 /\ (c # None => c \in Commit)
    BY ConstantsAssumption DEF TypeOK, Made, Commit
  <2> QED BY <1>1, <2>1 DEF Write, TreeOf, TypeOK, NoTree
<1>2. ASSUME UNCHANGED repo PROVE TreeOf(c)' = TreeOf(c)
  BY <1>2 DEF repo, TreeOf, NoTree
<1>3. Drop => TreeOf(c)' = TreeOf(c)
  BY DEF Drop, TreeOf, NoTree
<1> QED BY <1>1, <1>2, <1>3
     DEF Next, vars, Answer, AskSinceHead, AskSinceTime, AskNextPage

\* The client's side when only the repository moves.
LEMMA ClientKeeps ==
  ASSUME FeedInv, [Next]_vars, UNCHANGED client
  PROVE  RangeInv'
<1>1. UNCHANGED <<range, got, seen, mirror, ranges>>
  BY DEF client
<1>2. PICK b, h, a : b = range.base /\ h = range.head /\ a = range.after
  OBVIOUS
<1>3. b = range'.base /\ h = range'.head /\ a = range'.after
  BY <1>1, <1>2
<1>4. TreeOf(b)' = TreeOf(b) /\ TreeOf(h)' = TreeOf(h)
  BY <1>2, OldTreesStay DEF FeedInv, HistoryInv
<1>5. VisibleChanges(b, h)' = VisibleChanges(b, h)
  BY <1>4, SameChanges
<1>6. Told(range.base, range.head, range.after)' = Told(range.base, range.head, range.after)
  <2>1. Told(b, h, a)' = Told(b, h, a)
    BY <1>5 DEF Told
  <2> QED BY <2>1, <1>2, <1>3
<1>7. View(range.base, range.head, got)' = View(range.base, range.head, got)
  <2>1. PICK g : g = got
    OBVIOUS
  <2>2. View(b, h, g)' = View(b, h, g)
    BY <1>4 DEF View
  <2> QED BY <2>1, <2>2, <1>1, <1>2, <1>3
<1>8. Rest(range)' = Rest(range)
  <2>1. PICK r : r = range
    OBVIOUS
  <2>2. r.base = b /\ r.head = h
    BY <2>1, <1>2
  <2>3. VisibleChanges(r.base, r.head)' = VisibleChanges(r.base, r.head)
    BY <2>2, <1>5
  <2>4. Rest(r)' = Rest(r)
    BY <2>3 DEF Rest
  <2> QED BY <2>1, <2>4, <1>1
<1> QED BY <1>1, <1>6, <1>7, <1>8 DEF FeedInv, RangeInv, Resting

LEMMA WriteKeeps ==
  ASSUME FeedInv, NEW t \in Tree, Write(t), [Next]_vars
  PROVE  FeedInv'
<1>1. made' = made + 1 /\ made' \in Commit /\ made \in Nat
  BY ConstantsAssumption DEF Write, FeedInv, TypeOK, Commit
<1>2. \A c : Made(c) => Made(c)'
  BY <1>1 DEF Made
<1>3. UNCHANGED client
  BY DEF Write
<1>4. UNCHANGED <<range, got, seen, mirror, ranges>>
  BY <1>3 DEF client
<1>5. head \in Commit /\ head \in 0 .. made
  BY <1>1, ConstantsAssumption DEF FeedInv, TypeOK, Commit
<1>6. TypeOK'
  BY <1>1, <1>4, <1>5 DEF Write, FeedInv, TypeOK
<1>7. HistoryInv'
  <2>1. \A c \in Commit : Made(parent[c])'
    <3> SUFFICES ASSUME NEW c \in Commit PROVE Made(parent[c])'
      OBVIOUS
    <3>1. parent'[c] = parent[c] \/ parent'[c] = head
      BY DEF Write, FeedInv, TypeOK
    <3>2. Made(parent[c]) /\ Made(head)
      BY <1>5 DEF FeedInv, HistoryInv, Made
    <3> QED BY <3>1, <3>2, <1>1 DEF Made
  <2> QED BY <2>1, <1>1, <1>4 DEF FeedInv, HistoryInv, Made
<1> QED BY <1>3, <1>6, <1>7, ClientKeeps DEF FeedInv

LEMMA DropKeeps ==
  ASSUME FeedInv, Drop, [Next]_vars
  PROVE  FeedInv'
<1>1. UNCHANGED client /\ UNCHANGED <<made, tree, parent, range, got, seen, mirror, ranges>>
  BY DEF Drop, client
<1>2. head \in Commit
  BY ConstantsAssumption DEF FeedInv, TypeOK, Commit
<1>3. TypeOK'
  BY <1>1, <1>2 DEF FeedInv, TypeOK, Drop, DropPossible, HistoryInv, Made
<1>4. HistoryInv'
  BY <1>1 DEF FeedInv, HistoryInv, Made
<1> QED BY <1>1, <1>3, <1>4, ClientKeeps DEF FeedInv

\* A new range: nothing told yet, the copy is that of its first commit.
LEMMA AskKeeps ==
  ASSUME FeedInv, Ask, NEW b, Made(b), NEW limit \in Nat \ {0},
         Answer(From(b), {}, [p \in Paths |-> IF p \in Shown THEN TreeOf(b)[p] ELSE None], limit)
  PROVE  FeedInv'
<1>1. PICK h, copy : /\ h = head
                     /\ copy = [p \in Paths |-> IF p \in Shown THEN TreeOf(b)[p] ELSE None]
  OBVIOUS
<1>2. copy = View(b, h, {})
  BY <1>1 DEF View
<1>3. Answer([base |-> b, head |-> h, after |-> None], {}, copy, limit)
  BY <1>1 DEF From
<1>4. {} = {c \in VisibleChanges(b, h) : None # None /\ c.path <= None}
  OBVIOUS
<1>5. ranges' \in 1 .. MaxRanges
  BY ConstantsAssumption DEF Ask, FeedInv, TypeOK
<1>6. h \in 0 .. made
  BY <1>1 DEF FeedInv, TypeOK
<1> QED BY <1>2, <1>3, <1>4, <1>5, <1>6, AnswerKeeps

LEMMA AskSinceHeadKeeps ==
  ASSUME FeedInv, NEW limit \in Nat \ {0}, AskSinceHead(limit)
  PROVE  FeedInv'
<1>1. PICK b, h : b = seen /\ h = range.head
  OBVIOUS
<1>2. Made(b) /\ Ask /\ Resting /\ h = b
  BY <1>1 DEF AskSinceHead, Ask, FeedInv, HistoryInv, RangeInv
<1>3. mirror = [p \in Paths |-> IF p \in Shown THEN TreeOf(b)[p] ELSE None]
  <2>1. PICK a : a = range.base
    OBVIOUS
  <2>2. ranges > 0 /\ got = Told(a, h, None) /\ mirror = View(a, h, got)
    BY <1>1, <1>2, <2>1 DEF AskSinceHead, FeedInv, RangeInv, TypeOK, Resting
  <2>3. Told(a, h, None) = VisibleChanges(a, h)
    BY DEF Told
  <2> QED BY <1>2, <2>2, <2>3, AllToldIsHead
<1>4. Answer(From(b), {}, [p \in Paths |-> IF p \in Shown THEN TreeOf(b)[p] ELSE None], limit)
  BY <1>1, <1>3 DEF AskSinceHead
<1> QED BY <1>2, <1>4, AskKeeps

LEMMA AskSinceTimeKeeps ==
  ASSUME FeedInv, NEW time \in 0 .. made, NEW limit \in Nat \ {0}, AskSinceTime(time, limit)
  PROVE  FeedInv'
<1>1. PICK b : b = BaseAt(head, time)
  OBVIOUS
<1>2. Made(b)
  <2> DEFINE old == {c \in 0 .. time : c \in Ancestors[head]}
  <2>1. made \in Nat /\ time \in Nat /\ time <= made
    BY ConstantsAssumption DEF FeedInv, TypeOK, Commit
  <2>2. IsFiniteSet(old) /\ old \in SUBSET Nat
    <3>1. IsFiniteSet(0 .. time) /\ 0 .. time \subseteq Nat
      BY <2>1, FS_Interval
    <3>2. old \subseteq 0 .. time
      OBVIOUS
    <3> HIDE DEF old
    <3> QED BY <3>1, <3>2, FS_Subset
  <2>3. b = IF old = {} THEN None ELSE CHOOSE c \in old : \A a \in old : a <= c
    BY <1>1 DEF BaseAt
  <2>4. old # {} => b \in old
    <3> HIDE DEF old
    <3> QED BY <2>2, <2>3, Greatest
  <2> QED BY <2>1, <2>3, <2>4 DEF Made
<1> QED BY <1>1, <1>2, AskKeeps DEF AskSinceTime

LEMMA AskNextPageKeeps ==
  ASSUME FeedInv, NEW limit \in Nat \ {0}, AskNextPage(limit)
  PROVE  FeedInv'
<1>1. PICK b, h, a, before, copy :
        /\ b = range.base /\ h = range.head /\ a = range.after
        /\ before = got /\ copy = mirror
  OBVIOUS
<1>2. a # None /\ a \in Paths /\ range = [base |-> b, head |-> h, after |-> a]
  BY <1>1 DEF AskNextPage, Resting, FeedInv, TypeOK
<1>3. ranges > 0 /\ ranges' = ranges /\ ranges' \in 1 .. MaxRanges
  BY ConstantsAssumption DEF AskNextPage, FeedInv, TypeOK, RangeInv
<1>4. before = {c \in VisibleChanges(b, h) : a # None /\ c.path <= a}
  BY <1>1, <1>2, <1>3 DEF FeedInv, RangeInv, Told
<1>5. copy = View(b, h, before)
  BY <1>1, <1>3 DEF FeedInv, RangeInv
<1>6. Made(b) /\ h \in 0 .. made
  <2>1. Made(b) /\ Made(h)
    BY <1>1 DEF FeedInv, HistoryInv
  <2>2. h # None
    BY <1>1, <1>3 DEF FeedInv, RangeInv
  <2> QED BY <2>1, <2>2 DEF Made
<1>7. Answer([base |-> b, head |-> h, after |-> a], before, copy, limit)
  BY <1>1, <1>2 DEF AskNextPage
<1> QED BY <1>2, <1>3, <1>4, <1>5, <1>6, <1>7, AnswerKeeps

LEMMA NextKeepsFeedInv == FeedInv /\ [Next]_vars => FeedInv'
<1> SUFFICES ASSUME FeedInv, [Next]_vars PROVE FeedInv'
  OBVIOUS
<1>1. ASSUME NEW limit \in 1 .. MaxLimit PROVE limit \in Nat \ {0}
  BY ConstantsAssumption
<1>2. ASSUME NEW t \in Tree, Write(t) PROVE FeedInv'
  BY <1>2, WriteKeeps
<1>3. CASE Drop
  BY <1>3, DropKeeps
<1>4. ASSUME NEW limit \in 1 .. MaxLimit, AskSinceHead(limit) PROVE FeedInv'
  BY <1>1, <1>4, AskSinceHeadKeeps
<1>5. ASSUME NEW limit \in 1 .. MaxLimit, AskNextPage(limit) PROVE FeedInv'
  BY <1>1, <1>5, AskNextPageKeeps
<1>6. ASSUME NEW limit \in 1 .. MaxLimit, NEW time \in 0 .. made, AskSinceTime(time, limit)
      PROVE  FeedInv'
  BY <1>1, <1>6, AskSinceTimeKeeps
<1>7. CASE UNCHANGED vars
  <2>1. UNCHANGED client /\ UNCHANGED <<made, tree, parent, head, range, got, seen, mirror, ranges>>
    BY <1>7 DEF vars, repo, client
  <2>2. TypeOK' /\ HistoryInv'
    BY <2>1 DEF FeedInv, TypeOK, HistoryInv, Made
  <2> QED BY <2>1, <2>2, ClientKeeps DEF FeedInv
<1> QED BY <1>2, <1>3, <1>4, <1>5, <1>6, <1>7 DEF Next

\* The inductive invariant holds in every reachable state.
THEOREM FeedInvHolds == Spec => []FeedInv
BY InitFeedInv, NextKeepsFeedInv, PTL DEF Spec

-----------------------------------------------------------------------------
\* Types: the range, the commits and the client's copy are what they should be.
THEOREM FeedTypeOK == Spec => []TypeOK
<1>1. FeedInv => TypeOK
  BY DEF FeedInv
<1> QED BY <1>1, FeedInvHolds, PTL

\* changes_since_json: however HEAD moves between the calls, the pages of a range tell each
\* visible change between its two commits, and each document's in one entry.
THEOREM PagesTellAllHolds == Spec => []PagesTellAll
<1>1. FeedInv => PagesTellAll
  <2> SUFFICES ASSUME FeedInv, ranges > 0 PROVE PagesTellAll
    BY DEF PagesTellAll
  <2>1. PICK b, h : b = range.base /\ h = range.head
    OBVIOUS
  <2>2. got = {c \in VisibleChanges(b, h) : Resting \/ c.path <= range.after}
    BY <2>1 DEF FeedInv, RangeInv, Told, Resting
  <2>3. \A c, d \in got : c.path = d.path => c = d
    BY <2>2, OneEntryEach
  <2> QED BY <2>1, <2>2, <2>3 DEF PagesTellAll
<1> QED BY <1>1, FeedInvHolds, PTL

\* A client that does what the entries say holds the documents of the head it was given.
THEOREM MirrorCatchesUpHolds == Spec => []MirrorCatchesUp
<1>1. FeedInv => MirrorCatchesUp
  <2> SUFFICES ASSUME FeedInv, Resting, seen # None
               PROVE  mirror = [p \in Paths |-> IF p \in Shown THEN TreeOf(seen)[p] ELSE None]
    BY DEF MirrorCatchesUp
  <2>1. PICK b, h : b = range.base /\ h = range.head
    OBVIOUS
  <2>2. seen = h /\ ranges > 0
    BY <2>1 DEF FeedInv, RangeInv, TypeOK
  <2>3. got = Told(b, h, None) /\ mirror = View(b, h, got)
    BY <2>1, <2>2 DEF FeedInv, RangeInv, Resting
  <2>4. Told(b, h, None) = VisibleChanges(b, h)
    BY DEF Told
  <2> QED BY <2>2, <2>3, <2>4, AllToldIsHead
<1> QED BY <1>1, FeedInvHolds, PTL

\* Each answer of a range tells changes that none of its answers told before.
THEOREM NothingIsToldTwiceHolds == Spec => NothingIsToldTwice
<1>1. FeedInv /\ [Next]_vars =>
        [ranges' = ranges /\ range' # range =>
           Page(range, MaxLimit) \cap got = {} /\ got' # got]_vars
  <2> SUFFICES ASSUME FeedInv, Next, ranges' = ranges, range' # range
               PROVE  Page(range, MaxLimit) \cap got = {} /\ got' # got
    OBVIOUS
  <2>1. PICK limit \in 1 .. MaxLimit : AskNextPage(limit)
    <3>1. ranges' # ranges + 1
      BY ConstantsAssumption DEF FeedInv, TypeOK
    <3>2. ~Ask
      BY <3>1 DEF Ask
    <3>3. UNCHANGED client => range' = range
      BY DEF client
    <3> QED BY <3>2, <3>3 DEF Next, Write, Drop, AskSinceHead, AskSinceTime
  <2>2. PICK r : r = range
    OBVIOUS
  <2>3. /\ r.after # None /\ r.after \in Nat /\ Rest(r) # {}
        /\ got = Told(r.base, r.head, r.after)
    <3>1. ~Resting
      BY <2>1 DEF AskNextPage
    <3>2. range.after \in Nat /\ ranges > 0
      <4>1. range.after \in Paths
        BY <3>1 DEF FeedInv, TypeOK, Resting
      <4>2. ranges \in Nat /\ ranges # 0
        BY <3>1, ConstantsAssumption DEF FeedInv, RangeInv, TypeOK
      <4>3. range.after \in Nat
        BY <4>1, ConstantsAssumption
      <4>4. ranges > 0
        BY <4>2
      <4> QED BY <4>3, <4>4
    <3> QED BY <2>2, <3>1, <3>2 DEF FeedInv, RangeInv, Resting
  <2>4. \A c \in VisibleChanges(r.base, r.head) : c.path \in Nat
    BY EntryFacts, ConstantsAssumption
  <2>5. Rest(r) \cap got = {}
    BY <2>3, <2>4 DEF Rest, Told, After
  <2>6. limit \in Nat \ {0} /\ MaxLimit \in Nat \ {0}
    BY ConstantsAssumption
  <2>7. /\ Page(r, MaxLimit) \subseteq Rest(r) /\ Page(r, limit) \subseteq Rest(r)
        /\ Page(r, limit) # {}
    BY <2>3, <2>6, PageFacts
  <2>8. got' = got \cup Page(r, limit)
    BY <2>1, <2>2 DEF AskNextPage, Answer
  <2> QED BY <2>2, <2>5, <2>7, <2>8
<1> QED BY <1>1, FeedInvHolds, PTL DEF Spec, NothingIsToldTwice
=============================================================================
