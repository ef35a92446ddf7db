----------------------------- MODULE ChangesFeed -----------------------------
(***************************************************************************)
(* changes_since of src/retrieval.rs: the net changes between two commits, *)
(* in pages, while the history moves.                                      *)
(*                                                                         *)
(* The call takes no lock.  It reads HEAD, which writes and pulls advance  *)
(* and conflicts reset, and a client comes back for the next page at any   *)
(* time: the cursor names the two commits and the last path it was given.  *)
(* A commit that is dropped stays in the object store, so a cursor or a    *)
(* `since` may name one.                                                   *)
(*                                                                         *)
(* Paths are numbers in the order the code sorts them by.  Shown stands    *)
(* for the document filter and the path prefix of the request together.    *)
(* A commit's number is its date: clocks that disagree are left out.       *)
(***************************************************************************)
EXTENDS Naturals, FiniteSets

CONSTANTS
  Paths,       \* files of the repository, as numbers in the order of their names
  Contents,    \* what a file can contain
  None,        \* no file, no commit
  Shown,       \* documents under the requested prefix
  MaxLimit,    \* MAX_CHANGES_LIMIT (200 in the code)
  Start,       \* bound: trees of the first commit
  MaxTouched,  \* bound: files a commit changes
  MaxCommits,  \* bound: commits after the first
  MaxRanges    \* bound: times the client asks for what is new

Tree == [Paths -> Contents \cup {None}]
Commit == 0 .. MaxCommits
Kinds == {"added", "modified", "deleted", "renamed"}
Change == [kind : Kinds, path : Paths, old : Paths \cup {None}]

ASSUME ConstantsAssumption ==
  /\ Paths \subseteq Nat /\ Shown \subseteq Paths /\ IsFiniteSet(Paths)
  /\ None \notin Contents \cup Nat
  /\ MaxLimit \in Nat \ {0} /\ {MaxTouched, MaxCommits, MaxRanges} \subseteq Nat
  /\ Start \subseteq Tree

VARIABLES
  made,    \* number of the last commit made
  tree,    \* the tree of each commit
  parent,  \* and its parent
  head,    \* the commit HEAD is at
  range,   \* what the client's cursor pins: two commits and the last path it was given
  got,     \* the changes it was given in this range
  seen,    \* the head it will pass as the next `since`
  mirror,  \* the client's copy of the documents
  ranges   \* ranges begun so far

repo == <<made, tree, parent, head>>
client == <<range, got, seen, mirror, ranges>>
vars == <<repo, client>>

-----------------------------------------------------------------------------
(***************************************************************************)
(* git.rs: net_changes and changes_base_at.                                *)
(***************************************************************************)
NoTree == [p \in Paths |-> None]
TreeOf(c) == IF c = None THEN NoTree ELSE tree[c]

Deleted(b, h) == {p \in Paths : TreeOf(b)[p] # None /\ TreeOf(h)[p] = None}
Added(b, h) == {p \in Paths : TreeOf(b)[p] = None /\ TreeOf(h)[p] # None}

\* git pairs files that went with equal ones that came, a file at most once; which it takes
\* when there is a choice depends on the two trees alone.
Pairings(b, h) ==
  {f \in [Deleted(b, h) -> Added(b, h) \cup {None}] :
     \A p, q \in DOMAIN f : f[p] # None => /\ TreeOf(b)[p] = TreeOf(h)[f[p]]
                                           /\ p # q => f[p] # f[q]}
Paired(f) == {p \in DOMAIN f : f[p] # None}
Renames(b, h) ==
  CHOOSE f \in Pairings(b, h) :
    \A g \in Pairings(b, h) : Cardinality(Paired(f)) >= Cardinality(Paired(g))

Plain(kind, p) == [kind |-> kind, path |-> p, old |-> None]
NetChanges(b, h) ==
  LET f == Renames(b, h)
      into == {f[p] : p \in Paired(f)}
  IN {[kind |-> "renamed", path |-> f[p], old |-> p] : p \in Paired(f)}
     \cup {Plain("deleted", p) : p \in Deleted(b, h) \ Paired(f)}
     \cup {Plain("added", p) : p \in Added(b, h) \ into}
     \cup {Plain("modified", p) :
             p \in {q \in Paths : None \notin {TreeOf(b)[q], TreeOf(h)[q]}
                                  /\ TreeOf(b)[q] # TreeOf(h)[q]}}

\* ancestors[c], c included.
Ancestors ==
  LET up[c \in Commit] == {c} \cup (IF parent[c] = None THEN {} ELSE up[parent[c]])
  IN up
BaseAt(h, time) ==
  LET old == {c \in 0 .. time : c \in Ancestors[h]}
  IN IF old = {} THEN None ELSE CHOOSE c \in old : \A a \in old : a <= c

-----------------------------------------------------------------------------
(***************************************************************************)
(* visible_change, and the page of changes_since_json.                     *)
(***************************************************************************)
\* Mutant: what moves out of view is not mentioned.
VisibleStaying(c) ==
  IF c.path \notin Shown THEN {}
  ELSE IF c.kind = "renamed" /\ c.old \notin Shown THEN {Plain("added", c.path)} ELSE {c}
Visible(c) ==
  IF c.kind # "renamed" THEN (IF c.path \in Shown THEN {c} ELSE {})
  ELSE IF c.old \in Shown /\ c.path \in Shown THEN {c}
  ELSE IF c.path \in Shown THEN {Plain("added", c.path)}
  ELSE IF c.old \in Shown THEN {Plain("deleted", c.old)}
  ELSE {}
VisibleChanges(b, h) == UNION {Visible(c) : c \in NetChanges(b, h)}

\* Mutant: a page begins with the path the last one ended with.
AfterOrAt(c, path) == path = None \/ c.path >= path
After(c, path) == path = None \/ c.path > path

Rest(r) == {c \in VisibleChanges(r.base, r.head) : After(c, r.after)}
Page(r, limit) ==
  {c \in Rest(r) : Cardinality({d \in Rest(r) : d.path <= c.path}) <= limit}
More(r, limit) == Cardinality(Rest(r)) > limit
Last(page) == CHOOSE p \in {c.path : c \in page} : \A c \in page : c.path <= p

\* The cursor of the next page.
\* Mutant: it names the path, and the head is looked up again.
NextCursorUnpinned(r, page) == [r EXCEPT !.head = head, !.after = Last(page)]
NextCursor(r, page) == [r EXCEPT !.after = Last(page)]

-----------------------------------------------------------------------------
NoRange == [base |-> None, head |-> None, after |-> None]

TypeOK ==
  /\ made \in Commit /\ tree \in [Commit -> Tree] /\ parent \in [Commit -> Commit \cup {None}]
  /\ head \in 0 .. made
  /\ range \in [base : Commit \cup {None}, head : Commit \cup {None},
                after : Paths \cup {None}]
  /\ got \subseteq Change
  /\ seen \in Commit \cup {None}
  /\ mirror \in Tree
  /\ ranges \in 0 .. MaxRanges

Init ==
  /\ made = 0 /\ head = 0
  /\ \E t \in Start : tree = [c \in Commit |-> IF c = 0 THEN t ELSE NoTree]
  /\ parent = [c \in Commit |-> None]
  /\ range = NoRange /\ got = {} /\ seen = None /\ mirror = NoTree /\ ranges = 0

\* A write or a pull.
Write(t) ==
  /\ made < MaxCommits
  /\ Cardinality({p \in Paths : t[p] # tree[head][p]}) \in 1 .. MaxTouched
  /\ made' = made + 1
  /\ tree' = [tree EXCEPT ![made + 1] = t]
  /\ parent' = [parent EXCEPT ![made + 1] = head]
  /\ head' = made + 1
  /\ UNCHANGED client

\* Mutant: the first commit can go, too.
DropPossibleAnyway == TRUE
DropPossible == parent[head] # None

\* drop_own_commit, or the first step of a rebase: HEAD goes back.
Drop ==
  /\ DropPossible
  /\ head' = parent[head]
  /\ UNCHANGED <<made, tree, parent, client>>

-----------------------------------------------------------------------------
(***************************************************************************)
(* The client, who does with each entry what its status says, and asks     *)
(* again with the cursor, or with the head it was given.                   *)
(***************************************************************************)
Apply(copy, page, h) ==
  [p \in Paths |-> IF \E c \in page : c.path = p THEN TreeOf(h)[p]
                   ELSE IF \E c \in page : c.old = p THEN None
                   ELSE copy[p]]

\* changes_since_json once the range is known; the client's copy was `copy` before.
Answer(r, before, copy, limit) ==
  LET page == Page(r, limit)
  IN /\ got' = before \cup page
     /\ mirror' = Apply(copy, page, r.head)
     /\ IF More(r, limit) THEN range' = NextCursor(r, page) /\ UNCHANGED seen
        ELSE range' = [r EXCEPT !.after = None] /\ seen' = r.head
     /\ UNCHANGED repo

Resting == range.after = None
Ask == Resting /\ ranges < MaxRanges /\ ranges' = ranges + 1
From(b) == [base |-> b, head |-> head, after |-> None]

\* `since` is the head of the last range.
AskSinceHead(limit) ==
  /\ Ask /\ seen # None
  /\ Answer(From(seen), {}, mirror, limit)

\* `since` is a time, of a client that has a copy of what there was then.
AskSinceTime(time, limit) ==
  /\ Ask /\ seen = None
  /\ LET b == BaseAt(head, time)
     IN Answer(From(b), {}, [p \in Paths |-> IF p \in Shown THEN TreeOf(b)[p] ELSE None], limit)

\* The next page, with any limit.
AskNextPage(limit) ==
  /\ ~Resting
  /\ Answer(range, got, mirror, limit)
  /\ UNCHANGED ranges

Next ==
  \/ \E t \in Tree : Write(t)
  \/ Drop
  \/ \E limit \in 1 .. MaxLimit :
       \/ AskSinceHead(limit) \/ AskNextPage(limit)
       \/ \E time \in 0 .. made : AskSinceTime(time, limit)

Spec == Init /\ [][Next]_vars

-----------------------------------------------------------------------------
\* The pages of a range tell every visible change between its two commits once, however
\* HEAD moves between them: what was given so far is all up to the last path, and each
\* document's change is told in one entry.
PagesTellAll ==
  ranges > 0 =>
    /\ got = {c \in VisibleChanges(range.base, range.head) : Resting \/ c.path <= range.after}
    /\ \A c, d \in got : c.path = d.path => c = d

\* A client that does what the entries say holds exactly the documents of the head it was
\* given, whether that commit is still part of the history or was dropped since.
MirrorCatchesUp ==
  Resting /\ seen # None =>
    mirror = [p \in Paths |-> IF p \in Shown THEN TreeOf(seen)[p] ELSE None]

\* A page is never given twice, nor a part of one: each answer of a range tells changes
\* that none of its answers told before.
NothingIsToldTwice ==
  [][ranges' = ranges /\ range' # range =>
       Page(range, MaxLimit) \cap got = {} /\ got' # got]_vars
=============================================================================
