------------------------------ MODULE WriteMany ------------------------------
(***************************************************************************)
(* The calls of src/write.rs that change several documents in one commit:  *)
(* write_documents_batch, write_document_move (with its archive form),     *)
(* move_directory, and delete_document_with when it unlinks.               *)
(*                                                                         *)
(* Each changes the working tree file by file under GIT_LOCK, and commits  *)
(* at the end.  Whatever fails on the way is followed by a roll-back that   *)
(* can fail itself, and each call has its own order of writing and undoing. *)
(* commit_and_sync, which GitSync opens up, is reduced here to what it     *)
(* reports: nothing committed, committed and pushed, committed and not     *)
(* pushed, or dropped after a conflict with what others pushed.            *)
(*                                                                         *)
(* Left out: validation and path safety, which refuse where Refuse does;   *)
(* the schema files a directory move carries along (SchemaCache); merges    *)
(* of unpushed commits (GitSync): others leave the documents these changed *)
(* alone.                                                                   *)
(***************************************************************************)
EXTENDS Naturals, FiniteSets

CONSTANTS
  Paths,        \* paths of the knowledge base
  Dir,          \* the documents of a directory that is moved as a whole
  Dest,         \* where a move takes each path, None for a path nobody moves
  Calls,        \* calls of the write tools
  Others,       \* edits pushed by other clones
  Partial,      \* marks a file that was cut short
  None,         \* no file, no link, no request
  Same,         \* nothing new for a path
  First,        \* the documents there are at the start, and where each links
  MaxAttempts,  \* MAX_WRITE_ATTEMPTS (3 in the code)
  Wishes,       \* bound: what a call can ask for
  MaxWaiting,   \* bound: calls that have read what they go by and are not done
  Busy,         \* bound: paths others change
  MaxNews,      \* bound: paths others have changed since the last sync
  Faults,       \* the kinds of fault that can strike
  MaxFaults     \* bound: faults

FaultKinds == {"write", "remove", "link", "query", "commit", "undo", "fetch", "push",
               "crash"}
Moves == {"move", "archive", "directory"}
Kinds == Moves \cup {"batch", "delete"}

Content == [by : SUBSET (Calls \cup Others \cup {Partial}), to : Paths \cup {None}]
Tree == [Paths -> Content \cup {None}]
Wish == [kind : Kinds, paths : SUBSET Paths, idle : SUBSET Paths]
Request == [kind : Kinds, paths : SUBSET Paths, idle : SUBSET Paths, seen : Tree]
Job == [call : Calls \cup {None}, attempt : Nat, was : Tree, pre : Tree,
        todo : SUBSET Paths, written : SUBSET Paths, refs : SUBSET Paths,
        known : SUBSET Paths, why : {"io", "commit"}, ok : BOOLEAN]

ASSUME ConstantsAssumption ==
  /\ IsFiniteSet(Paths)
  /\ Dir \subseteq Paths /\ Busy \subseteq Paths
  /\ Dest \in [Paths -> Paths \cup {None}]
  /\ \A p, q \in Paths : Dest[p] # None => Dest[p] # p /\ (Dest[p] = Dest[q] => p = q)
  /\ \A p \in Dir : Dest[p] \in Paths \ Dir
  /\ First \in [Paths -> [by : {{}}, to : Paths \cup {None}] \cup {None}]
  /\ None \notin Paths \cup Calls \cup Content \cup Request
  /\ Same \notin Content \cup {None}
  /\ Partial \notin Calls \cup Others /\ Calls \cap Others = {}
  /\ MaxAttempts \in Nat \ {0} /\ {MaxWaiting, MaxNews, MaxFaults} \subseteq Nat
  /\ Faults \subseteq FaultKinds /\ Wishes \subseteq Wish

VARIABLES
  tree,    \* the working tree
  index,   \* git's index
  head,    \* the commit the clone is at
  news,    \* what the remote has of each path and the clone has not
  ahead,   \* paths of commits that are not pushed
  phase,   \* what the holder of GIT_LOCK is about to do
  job,     \* the holder's local variables
  ask,     \* what each call asks for
  reply,   \* and what it was told
  told,    \* each document as it was when it was last marked for the reindex worker
  faults,  \* faults so far
  left     \* ghost: paths a fault has left different from the commit

files == <<tree, index>>
remote == <<news, ahead>>
calls == <<ask, reply>>
ghosts == <<faults, left>>
vars == <<files, head, remote, phase, job, calls, told, ghosts>>

-----------------------------------------------------------------------------
NoTree == [p \in Paths |-> None]
NoNews == [p \in Paths |-> Same]
NoJob == [call |-> None, attempt |-> 0, was |-> NoTree, pre |-> NoTree, todo |-> {},
          written |-> {}, refs |-> {}, known |-> {}, why |-> "io", ok |-> TRUE]
NoRequest == [kind |-> "batch", paths |-> {}, idle |-> {}, seen |-> NoTree]

Me == job.call
Asked == IF Me = None THEN NoRequest ELSE ask[Me]
Sources == Asked.paths
Moving == Asked.kind \in Moves
Removing == Asked.kind # "batch"
Targets == IF Moving THEN {Dest[p] : p \in Sources} ELSE {}
Origin(q) == CHOOSE p \in Sources : Dest[p] = q

Whole(c) == c # None /\ Partial \notin c.by
Cut == [by |-> {Partial}, to |-> None]
Mine(c) == [c EXCEPT !.by = @ \cup {Me}]
Put(f, S, g) == [p \in Paths |-> IF p \in S THEN g[p] ELSE f[p]]

\* rewrite_outbound_links: a link to a document that moves along follows it.
\* Mutant: a link inside what moves is left as it was.
FollowedNot(to) == to
Followed(to) == IF to \in Sources /\ Moving THEN Dest[to] ELSE to
\* What is written at p: a move's document, or a batch's.
NewAt(p) ==
  IF Moving THEN LET c == job.was[Origin(p)] IN [Mine(c) EXCEPT !.to = Followed(@)]
  ELSE IF job.was[p] = None THEN [by |-> {Me}, to |-> None]
  ELSE Mine(job.was[p])

Strike(kind) == kind \in Faults /\ faults < MaxFaults /\ faults' = faults + 1

Return(answer) ==
  /\ reply' = [reply EXCEPT ![Me] = answer]
  /\ phase' = "free" /\ job' = NoJob

Clean == \A p \in Paths : index[p] = head[p] /\ (index[p] # None => tree[p] = index[p])

\* git reset --hard: untracked files stay.
Checkout(content) ==
  /\ head' = content /\ index' = content
  /\ tree' = [p \in Paths |-> IF index[p] = None /\ content[p] = None THEN tree[p]
                              ELSE content[p]]

TypeOK ==
  /\ tree \in Tree /\ index \in Tree /\ head \in Tree /\ told \in Tree
  /\ news \in [Paths -> Content \cup {None, Same}] /\ ahead \subseteq Paths
  /\ phase \in {"free", "sync", "check", "write", "remove", "query", "links", "commit",
                "restore", "discard", "publish"}
  /\ job \in Job /\ (phase = "free" <=> Me = None)
  /\ ask \in [Calls -> Request \cup {None}]
  /\ reply \in [Calls -> {"none", "asked", "saved", "refused", "undone", "torn", "failed",
                          "unknown"}]
  /\ faults \in 0 .. MaxFaults /\ left \subseteq Paths

Init ==
  /\ tree = First /\ index = First /\ head = First /\ told = First
  /\ news = NoNews /\ ahead = {}
  /\ phase = "free" /\ job = NoJob
  /\ ask = [w \in Calls |-> None] /\ reply = [w \in Calls |-> "none"]
  /\ faults = 0 /\ left = {}

-----------------------------------------------------------------------------
(***************************************************************************)
(* Outside the lock.                                                       *)
(***************************************************************************)
Fresh == {p \in Paths : news[p] # Same}
OtherMay(p) == p \in Busy /\ p \notin Fresh \cup ahead /\ Cardinality(Fresh) < MaxNews

\* Someone else edits, creates or deletes a document.
OtherPush(e, p) ==
  /\ OtherMay(p)
  /\ \A q \in Paths : news[q] \notin {Same, None} => e \notin news[q].by
  /\ \A q \in Paths : head[q] # None => e \notin head[q].by
  /\ LET base == IF phase = "publish" THEN job.pre[p] ELSE head[p]
     IN news' = [news EXCEPT ![p] = IF base = None THEN [by |-> {e}, to |-> None]
                                    ELSE [base EXCEPT !.by = @ \cup {e}]]
  /\ UNCHANGED <<files, head, ahead, phase, job, calls, told, ghosts>>

OtherDelete(p) ==
  /\ OtherMay(p)
  /\ (IF phase = "publish" THEN job.pre[p] ELSE head[p]) # None
  /\ news' = [news EXCEPT ![p] = None]
  /\ UNCHANGED <<files, head, ahead, phase, job, calls, told, ghosts>>

\* What a call goes by it has read before it takes the lock.
\* Some of a batch's edits may turn out to leave their document as it is.
Ask(w, wish) ==
  /\ reply[w] = "none" /\ wish.paths # {}
  /\ Cardinality({v \in Calls : reply[v] = "asked"}) < MaxWaiting
  /\ wish.idle \subseteq {p \in wish.paths : wish.kind = "batch" /\ tree[p] # None}
  /\ wish.kind = "directory" => wish.paths = {p \in Dir : tree[p] # None}
  /\ wish.kind \in {"move", "archive", "delete"} =>
       \E p \in wish.paths : wish.paths = {p} /\ tree[p] # None
  /\ wish.kind \in Moves => \A p \in wish.paths : Dest[p] # None
  /\ ask' = [ask EXCEPT ![w] = [kind |-> wish.kind, paths |-> wish.paths, idle |-> wish.idle,
                               seen |-> tree]]
  /\ reply' = [reply EXCEPT ![w] = "asked"]
  /\ UNCHANGED <<files, head, remote, phase, job, told, ghosts>>

Lock(w) ==
  /\ phase = "free" /\ reply[w] = "asked"
  /\ phase' = "sync"
  /\ job' = [NoJob EXCEPT !.call = w, !.attempt = 1]
  /\ UNCHANGED <<files, head, remote, calls, told, ghosts>>

-----------------------------------------------------------------------------
(***************************************************************************)
(* lock_and_sync, and sync_clone after a conflict.                         *)
(***************************************************************************)
Sync ==
  /\ phase = "sync"
  /\ \/ /\ Clean /\ \A p \in Fresh : tree[p] = head[p]
        /\ tree' = Put(tree, Fresh, news) /\ index' = Put(index, Fresh, news)
        /\ head' = Put(head, Fresh, news)
        /\ told' = Put(told, Fresh, news)
        /\ news' = NoNews /\ UNCHANGED faults
     \/ /\ Strike("fetch") \/ ((~Clean \/ \E p \in Fresh : tree[p] # head[p])
                               /\ UNCHANGED faults)
        /\ UNCHANGED <<files, head, news, told>>
  /\ \/ /\ job.attempt <= MaxAttempts /\ phase' = "check"
        /\ UNCHANGED <<job, reply>>
     \/ job.attempt > MaxAttempts /\ Return("refused")
  /\ UNCHANGED <<ahead, ask, left>>

-----------------------------------------------------------------------------
(***************************************************************************)
(* The checks under the lock, and the files.                               *)
(***************************************************************************)
\* A create finds nothing, an edit something; what is moved or deleted is as it was
\* seen, and nothing is where it goes.
Acceptable ==
  IF Asked.kind = "batch"
  THEN \A p \in Sources : (tree[p] = None) <=> (Asked.seen[p] = None)
  ELSE /\ \A p \in Sources : tree[p] = Asked.seen[p]
       /\ \A q \in Targets : tree[q] = None
       /\ Asked.kind = "directory" =>
            /\ Sources = {p \in Dir : tree[p] # None}
            /\ \A p \in Dir : tree[Dest[p]] = None

\* Mutant: a move, too, begins with the removal of its sources.
FirstStepRemoves(changed) ==
  IF Removing THEN <<"remove", Sources>> ELSE <<"write", changed>>
FirstStep(changed) ==
  CASE Moving -> <<"write", Targets>>
    [] Asked.kind = "delete" -> <<"remove", Sources>>
    [] OTHER -> <<"write", changed>>

\* An edit that leaves its document as it is, is not written.
Accept ==
  /\ phase = "check" /\ Acceptable
  /\ \E changed \in SUBSET Sources :
       /\ Sources \ Asked.idle \subseteq changed
       /\ \A p \in Asked.idle \cap changed : tree[p] # Asked.seen[p]
       /\ changed # {}
       /\ job' = [job EXCEPT !.was = tree, !.pre = head, !.todo = FirstStep(changed)[2]]
       /\ phase' = FirstStep(changed)[1]
  /\ UNCHANGED <<files, head, remote, calls, told, ghosts>>

\* A batch that changes nothing is reported as it stands.
AcceptUnchanged ==
  /\ phase = "check" /\ Acceptable /\ Sources = Asked.idle
  /\ Return("saved")
  /\ UNCHANGED <<files, head, remote, ask, told, ghosts>>

\* An edit of a document that has changed since may be refused, too.
Refuse ==
  /\ phase = "check"
  /\ ~Acceptable \/ \E p \in Sources : tree[p] # Asked.seen[p]
  /\ Return("refused")
  /\ UNCHANGED <<files, head, remote, ask, told, ghosts>>

AfterWrite == IF Moving THEN "remove" ELSE "commit"
\* Only a directory move may have removed sources, or written more than it knows how to
\* put back, when a file operation fails.
UndoFiles == IF Asked.kind = "directory" THEN "restore" ELSE "discard"

WriteFile(p) ==
  /\ phase = "write" /\ p \in job.todo
  /\ tree' = [tree EXCEPT ![p] = NewAt(p)]
  /\ job' = [job EXCEPT !.written = @ \cup {p},
                        !.todo = IF job.todo # {p} THEN @ \ {p}
                                 ELSE IF Moving THEN Sources ELSE {}]
  /\ phase' = IF job.todo = {p} THEN AfterWrite ELSE "write"
  /\ UNCHANGED <<index, head, remote, calls, told, ghosts>>

\* The write fails before it touches the file or half way.  A batch counts the file
\* among those it undoes and a move takes it back at once; a directory move knows only
\* of the files it has finished.
\* Mutant: a batch, too, knows only of the files it has finished.
UndoneByFinished(p) == job.written
UndoneBy(p) == IF Asked.kind = "directory" THEN job.written ELSE job.written \cup {p}

WriteFails(p) ==
  /\ phase = "write" /\ p \in job.todo /\ Strike("write")
  /\ \/ UNCHANGED <<tree, left>> /\ job' = [job EXCEPT !.todo = {}]
     \/ /\ tree' = [tree EXCEPT ![p] = Cut]
        /\ job' = [job EXCEPT !.written = UndoneBy(p), !.todo = {}]
        /\ left' = IF Asked.kind = "directory" THEN left \cup {p} ELSE left
  /\ phase' = UndoFiles
  /\ UNCHANGED <<index, head, remote, calls, told>>

\* The sources go only when every destination is written.
RemoveFile(p) ==
  /\ phase = "remove" /\ p \in job.todo
  /\ tree' = [tree EXCEPT ![p] = None]
  /\ job' = [job EXCEPT !.todo = @ \ {p}]
  /\ phase' = IF job.todo = {p} THEN "query" ELSE "remove"
  /\ UNCHANGED <<index, head, remote, calls, told, ghosts>>

\* A single move has nothing to restore then, and a delete nothing to undo.
RemoveFails ==
  /\ phase = "remove" /\ Strike("remove")
  /\ phase' = UndoFiles
  /\ UNCHANGED <<files, head, remote, job, calls, told, left>>

-----------------------------------------------------------------------------
(***************************************************************************)
(* rewrite_inbound_links, and phase 3 of move_directory.                   *)
(***************************************************************************)
LinksHere(q) == tree[q] # None /\ tree[q].to \in Sources
Strict == Asked.kind \in {"archive", "delete"}

\* The reverse-link index may lag behind the documents, and may be unavailable: only an
\* archive and an unlinking delete insist.
FindLinks ==
  /\ phase = "query"
  /\ \/ \E known \in SUBSET {q \in Paths : LinksHere(q)} :
          /\ job' = [job EXCEPT !.todo = known, !.known = known]
          /\ phase' = IF known = {} THEN "commit" ELSE "links"
          /\ UNCHANGED faults
     \/ /\ Strict /\ Strike("query")
        /\ phase' = "restore" /\ UNCHANGED job
  /\ UNCHANGED <<files, head, remote, calls, told, left>>

NewTargets(q) ==
  CASE Asked.kind = "delete" -> {None}
    [] Asked.kind = "archive" -> {None, Dest[tree[q].to]}
    [] OTHER -> {Dest[tree[q].to]}

RewriteLink(q) ==
  /\ phase = "links" /\ q \in job.todo
  /\ \E to \in NewTargets(q) : tree' = [tree EXCEPT ![q] = [Mine(@) EXCEPT !.to = to]]
  /\ job' = [job EXCEPT !.refs = @ \cup {q}, !.todo = @ \ {q}]
  /\ phase' = IF job.todo = {q} THEN "commit" ELSE "links"
  /\ UNCHANGED <<index, head, remote, calls, told, ghosts>>

\* A directory move does not count the document whose rewrite failed.
RewriteFails(q) ==
  /\ phase = "links" /\ q \in job.todo /\ Strike("link")
  /\ tree' \in {tree, [tree EXCEPT ![q] = Cut]}
  /\ IF Asked.kind = "directory"
     THEN left' = (IF tree' = tree THEN left ELSE left \cup {q}) /\ UNCHANGED job
     ELSE job' = [job EXCEPT !.refs = @ \cup {q}] /\ UNCHANGED left
  /\ phase' = "restore"
  /\ UNCHANGED <<index, head, remote, calls, told>>

-----------------------------------------------------------------------------
(***************************************************************************)
(* commit_and_sync up to the commit, and the roll-backs.                   *)
(***************************************************************************)
Changed == IF Removing THEN Sources \cup Targets \cup job.refs ELSE job.written

\* git add fails for a path that neither the tree nor the index has, and takes none.
Addable == \A p \in Changed : tree[p] # None \/ index[p] # None
Staged == Put(index, Changed, tree)

Commit ==
  /\ phase = "commit" /\ Addable
  /\ \E p \in Changed : tree[p] # head[p]
  /\ index' = Staged
  /\ head' = Put(head, Changed, tree)
  /\ phase' = "publish"
  /\ UNCHANGED <<tree, remote, job, calls, told, ghosts>>

CommitFails ==
  /\ phase = "commit"
  /\ \/ ~Addable /\ UNCHANGED <<index, faults>>
     \/ /\ Addable /\ \A p \in Changed : tree[p] = head[p]
        /\ index' = Staged /\ UNCHANGED faults
     \/ Addable /\ Strike("commit") /\ index' \in {index, Staged}
  /\ job' = [job EXCEPT !.why = "commit"]
  /\ phase' = "restore"
  /\ UNCHANGED <<tree, head, remote, calls, told, left>>

\* restore_from_head: fails for a path that neither HEAD nor the index has.
ToRestore ==
  IF Removing THEN Sources \cup job.refs ELSE {p \in job.written : job.was[p] # None}
Hopeless == {p \in ToRestore : head[p] = None /\ index[p] = None}

\* What a roll-back answers for: a delete only for the document itself, and lets what
\* becomes of the documents it unlinked go unsaid.
Promised == IF Asked.kind = "delete" THEN Sources ELSE Changed

\* Mutant: what could not be restored does not count.
RestoredAnyway(bad) == TRUE
RestoredAll(bad) == job.ok /\ bad \cap Promised = {}

\* Each path on its own, whatever became of the others.
Restore ==
  /\ phase = "restore"
  /\ \E bad \in SUBSET ToRestore :
       /\ Hopeless \subseteq bad
       /\ bad # Hopeless => "undo" \in Faults
       /\ faults + Cardinality(bad \ Hopeless) <= MaxFaults
       /\ faults' = faults + Cardinality(bad \ Hopeless)
       /\ tree' = Put(tree, ToRestore \ bad, head)
       /\ index' = Put(index, ToRestore \ bad, head)
       /\ left' = left \cup bad
       /\ job' = [job EXCEPT !.ok = RestoredAll(bad)]
  /\ phase' = "discard"
  /\ UNCHANGED <<head, remote, calls, told>>

\* What was written is removed, and unstaged once it may be staged; a batch that fails
\* before the commit puts the contents it found back.
ToDiscard ==
  IF Removing \/ job.why = "io" THEN job.written
  ELSE {p \in job.written : job.was[p] = None}

Discard ==
  /\ phase = "discard"
  /\ \E bad \in SUBSET ToDiscard :
       /\ bad # {} => "undo" \in Faults
       /\ faults + Cardinality(bad) <= MaxFaults
       /\ faults' = faults + Cardinality(bad)
       /\ left' = left \cup bad
       /\ tree' \in {Put(tree, ToDiscard \ bad, job.was)}
                   \cup (IF job.why = "commit" THEN {Put(tree, ToDiscard, job.was)} ELSE {})
       /\ index' = IF job.why = "io" THEN index ELSE Put(index, ToDiscard \ bad, head)
       /\ Return(IF job.why = "io" THEN "failed"
                 ELSE IF RestoredAll(bad) THEN "undone" ELSE "torn")
  /\ UNCHANGED <<head, remote, ask, told>>

-----------------------------------------------------------------------------
(***************************************************************************)
(* commit_and_sync after the commit.                                       *)
(***************************************************************************)
Touched == {p \in Paths : head[p] # job.pre[p]}
Both == Fresh \cap Touched

\* An edit made elsewhere may merge with one made here, and follow a document that moved;
\* nothing merges with a creation or a deletion.
Mergeable ==
  \A p \in Both : /\ news[p] # None /\ job.pre[p] # None
                  /\ head[p] # None \/ (Moving /\ p \in Sources)
With(c, p) == [c EXCEPT !.by = @ \cup news[p].by]
\* Mutant: where both sides changed a document, theirs is taken.
MergedTheirs == [p \in Paths |-> IF p \in Fresh THEN news[p] ELSE head[p]]
Merged ==
  [p \in Paths |->
     IF p \in Both THEN IF head[p] = None THEN None ELSE With(head[p], p)
     ELSE IF p \in Fresh THEN news[p]
     ELSE IF p \in Targets /\ Origin(p) \in Both THEN With(head[p], Origin(p))
     ELSE head[p]]

Rebases == Clean /\ \A p \in Fresh \ Both : tree[p] = head[p]

\* Mutant: the documents whose links were rewritten are not marked.
MarkedNoRefs == Sources \cup Targets \cup job.written
Marked == Changed

Push ==
  /\ phase = "publish" /\ Rebases /\ Mergeable
  /\ head' = Merged /\ index' = Merged
  /\ tree' = [p \in Paths |-> IF Merged[p] # head[p] THEN Merged[p] ELSE tree[p]]
  /\ told' = Put(told, Marked \cup {p \in Paths : Merged[p] # head[p]}, tree')
  /\ news' = NoNews /\ ahead' = {}
  /\ Return("saved")
  /\ UNCHANGED <<ask, ghosts>>

\* PostCommit: the commit stands, to be pushed with a later one.  (Bound: nobody has
\* changed what it changed; GitSync has the merge of pending commits.)
PushPending ==
  /\ phase = "publish" /\ Both = {}
  /\ Strike("push") \/ (~Rebases /\ UNCHANGED faults)
  /\ told' = Put(told, Marked, tree)
  /\ ahead' = ahead \cup Touched
  /\ Return("saved")
  /\ UNCHANGED <<files, head, news, ask, left>>

\* The remote has moved: the commit is dropped, and the call begins again with a sync.
\* Mutant: the next attempt is nobody's.
NextAttemptLost == [NoJob EXCEPT !.attempt = job.attempt + 1]
NextAttempt == [NoJob EXCEPT !.call = Me, !.attempt = job.attempt + 1]

Conflict ==
  /\ phase = "publish" /\ Fresh # {} /\ Rebases
  /\ Checkout(job.pre)
  /\ job' = NextAttempt
  /\ phase' = "sync"
  /\ UNCHANGED <<remote, calls, told, ghosts>>

\* The process dies and starts again (bound: as for PushPending); its first reconcile reads
\* every document, and what was not committed stays as it is.
Crash ==
  /\ Strike("crash") /\ (phase = "publish" => Both = {})
  /\ reply' = [w \in Calls |-> IF reply[w] = "asked" THEN "unknown" ELSE reply[w]]
  /\ phase' = "free" /\ job' = NoJob
  /\ ahead' = IF phase = "publish" THEN ahead \cup Touched ELSE ahead
  /\ told' = tree
  /\ left' = left \cup {p \in Paths : tree[p] # head[p] \/ index[p] # head[p]}
  /\ UNCHANGED <<files, head, news, ask>>

-----------------------------------------------------------------------------
Locked ==
  \/ Sync \/ Accept \/ AcceptUnchanged \/ Refuse
  \/ \E p \in Paths : WriteFile(p) \/ WriteFails(p) \/ RemoveFile(p)
  \/ RemoveFails \/ FindLinks
  \/ \E q \in Paths : RewriteLink(q) \/ RewriteFails(q)
  \/ Commit \/ CommitFails \/ Restore \/ Discard
  \/ Push \/ PushPending \/ Conflict

Next ==
  \/ \E e \in Others, p \in Paths : OtherPush(e, p)
  \/ \E p \in Paths : OtherDelete(p)
  \/ \E w \in Calls, wish \in Wishes : Ask(w, wish)
  \/ \E w \in Calls : Lock(w)
  \/ Locked \/ Crash

Spec == Init /\ [][Next]_vars

-----------------------------------------------------------------------------
\* Whoever takes the lock finds no difference between files, index and commit that a
\* failed roll-back or a crash has not left: every failure path undoes all it did.
CleanAtRest ==
  phase = "free" => \A p \in Paths \ left : tree[p] = head[p] /\ index[p] = head[p]

\* A committed document is missing from its place only while it is whole at the place it
\* moves to, or being deleted: a reader of the directory, and whoever starts again after a
\* crash, finds it at one of the two.  (Destinations are written before sources go, and a
\* roll-back goes the other way round.)
NothingOutOfSight ==
  \A p \in Paths \ left :
    head[p] # None /\ tree[p] = None =>
      /\ p \in Sources
      /\ Asked.kind = "delete" \/ (Moving /\ tree[Dest[p]] # None
                                   /\ (Whole(head[p]) => Whole(tree[Dest[p]])))

\* "Nothing was changed; try again.": the roll-back after a failed commit says that it put
\* everything back only when it did, and each document it answers for is as it was found.
HonestRollback ==
  [][\A w \in Calls : reply'[w] = "undone" /\ reply[w] # "undone" =>
       \A p \in Promised : /\ tree'[p] \in {job.was[p], head[p]}
                           /\ p \notin left => tree'[p] = head[p] /\ index'[p] = head[p]]_vars

\* A call that failed while it wrote files, and whose roll-back met with no error, leaves
\* nothing behind: what it had touched when it failed is exactly what it undoes.
UndoKnowsAllItTouched ==
  phase = "free" /\ (\E w \in Calls : reply[w] = "failed") =>
    \A p \in Paths : tree[p] = head[p]

\* The reindex queue hears of every document that a call, its rebase or its sync changed.
EveryChangeIsTold ==
  phase = "free" => \A p \in Paths \ left : told[p] = tree[p]

\* A move leaves no link to where the document was: not in the documents the link index
\* knows of, nor between documents that move together.
LinksFollow ==
  phase = "publish" /\ Moving =>
    \A q \in job.known \cup Targets : head[q] = None \/ head[q].to \notin Sources

\* Each call is all done or not done at all, in the commits of the clone.
Atomic == INSTANCE AtomicWrites
            WITH store <- IF phase = "publish" THEN job.pre ELSE head
AllOrNothing == Atomic!Spec
=============================================================================
