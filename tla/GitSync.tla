------------------------------- MODULE GitSync -------------------------------
(***************************************************************************)
(* The clone of the knowledge base and its remote: src/git.rs with the     *)
(* callers that hold its lock, write_document and delete_document of       *)
(* src/write.rs and pull_clone of src/sync.rs.                             *)
(*                                                                         *)
(* GIT_LOCK admits one call at a time, but nothing stops the remote: others *)
(* push between any two git commands.  Index runs read the working tree     *)
(* without the lock.  Git commands fail, are killed when they time out, and *)
(* the process dies between any two of them.                               *)
(*                                                                         *)
(* A document's content is the set of edits that went into it; no edits, no *)
(* file.  Two changes of one document may or may not overlap, so that a     *)
(* merge of them is clean or a conflict is left open, except where one side *)
(* creates or deletes the file: git never merges those.  A branch is known  *)
(* by the commits on it and the content they give the documents; commits   *)
(* are named by the edit they carry, which a rebase does not change.       *)
(*                                                                         *)
(* Left out: a repository without a commit, moves and batches, validation   *)
(* (it refuses a change at the point where Refuse does), edits that change *)
(* nothing.                                                                *)
(***************************************************************************)
EXTENDS Naturals, FiniteSets, Sequences

CONSTANTS
  Docs,         \* paths of the knowledge base
  Calls,        \* calls of the write tools, each with its edit
  Others,       \* edits pushed by other clones
  Old,          \* the edit that made the documents there are at the start
  Puller,       \* holder of the lock while the clone is pulled
  None,         \* no call, no rebase
  MaxAttempts,  \* MAX_WRITE_ATTEMPTS (3 in the code)
  Faults,       \* the kinds of fault that can strike
  MaxFaults     \* bound: faults

FaultKinds == {"fetch", "rebase", "reset", "diff", "push", "write", "add", "head", "commit",
               "kill", "restore", "crash"}

Edits == Calls \cup Others \cup {Old}
Content == SUBSET Edits
Tree == [Docs -> Content]
Kinds == {"create", "replace", "relative", "delete"}
Request == [kind : Kinds, doc : Docs, seen : Content]
Commit == [id : Calls, doc : Docs, from : Content, to : Content]
Tip == [ids : SUBSET Edits, content : Tree]
Branch == [ids : SUBSET Edits, content : Tree, own : Seq(Commit)]
Job == [call : Calls \cup {Puller, None}, attempt : Nat, why : {"sync", "push"},
        since : Tree, headless : BOOLEAN, pre : Branch, old : Tree]

ASSUME ConstantsAssumption ==
  /\ MaxAttempts \in Nat \ {0} /\ MaxFaults \in Nat
  /\ Faults \subseteq FaultKinds
  /\ Puller \notin Calls /\ None \notin Calls \cup {Puller}
  /\ None \notin [tip : Branch, todo : Seq(Commit)]
  /\ Calls \cap Others = {} /\ Old \notin Calls \cup Others

VARIABLES
  remote,   \* the remote branch
  fetched,  \* FETCH_HEAD
  branch,   \* the clone's branch, with the commits made here, oldest first
  rebase,   \* the rebase in progress: HEAD as far as it got, and what is left
  parked,   \* branches under refs/mcp-md-wiki/unsynced
  tree,     \* the working tree
  index,    \* git's index
  stale,    \* is there an index.lock of a killed git process
  phase,    \* what the holder of GIT_LOCK is about to do
  job,      \* the holder's local variables
  ask,      \* what each call asks for
  outcome,  \* and what it was told
  blind,    \* ghost: calls that have committed without knowing HEAD
  pulled,   \* paths a pull has brought in and not marked yet
  marked,   \* paths the reindex queue holds
  indexed,  \* the content each document was last indexed with
  faults,   \* faults so far
  killed,   \* ghost: calls whose git commit was killed
  left,     \* ghost: documents a fault may have left uncommitted
  unmarked, \* ghost: documents a failed diff has left to the sweep
  peeked    \* ghost: documents indexed as the holder of the lock was changing them

clone == <<fetched, branch, rebase, parked>>
files == <<tree, index, stale>>
calls == <<ask, outcome, blind>>
indexing == <<pulled, marked, indexed, unmarked, peeked>>
vars == <<remote, clone, files, phase, job, calls, indexing, faults, killed, left>>

-----------------------------------------------------------------------------
NoTree == [d \in Docs |-> {}]
NoBranch == [ids |-> {}, content |-> NoTree, own |-> <<>>]
NoJob == [call |-> None, attempt |-> 0, why |-> "sync", since |-> NoTree,
          headless |-> FALSE, pre |-> NoBranch, old |-> NoTree]

FetchHead == [ids |-> fetched.ids, content |-> fetched.content, own |-> <<>>]

\* Three-way merge, edit by edit: what both sides have, and what either has added.
Merge(base, ours, theirs) == (ours \cap theirs) \cup ((ours \cup theirs) \ base)
Overlap(base, ours, theirs) == ours # base /\ theirs # base /\ ours # theirs
Mergeable(base, ours, theirs) == Overlap(base, ours, theirs) => {} \notin {base, ours, theirs}

\* git reset --hard and the checkout of another commit: untracked files stay.
Checkout(content) ==
  /\ index' = content
  /\ tree' = [d \in Docs |-> IF index[d] = {} /\ content[d] = {} THEN tree[d]
                             ELSE content[d]]

\* What git rebase asks for before it starts.
Clean ==
  \A d \in Docs : /\ index[d] = branch.content[d]
                  /\ index[d] # {} => tree[d] = index[d]
                  /\ index[d] = {} /\ tree[d] # {} => fetched.content[d] = {}

\* mark_dirty.
Mark(docs) ==
  /\ marked' = marked \cup docs
  /\ unmarked' = unmarked \ docs /\ peeked' = peeked \ docs
  /\ UNCHANGED <<pulled, indexed>>

Strike(kind) == kind \in Faults /\ faults < MaxFaults /\ faults' = faults + 1

\* The call in hand returns: GIT_LOCK is released.
Return(result) ==
  /\ outcome' = [outcome EXCEPT ![job.call] = result]
  /\ phase' = "free" /\ job' = NoJob

Doc == ask[job.call].doc
Pulling == job.call = Puller
\* Mutant: what the pull holds is not let go of.
EndPullHeld == phase' = "free" /\ UNCHANGED <<job, outcome>>
EndPull == phase' = "free" /\ job' = NoJob /\ UNCHANGED outcome

TypeOK ==
  /\ remote \in Tip /\ fetched \in Tip /\ branch \in Branch
  /\ rebase = None \/ rebase \in [tip : Branch, todo : Seq(Commit)]
  /\ parked \subseteq Branch
  /\ tree \in Tree /\ index \in Tree /\ stale \in BOOLEAN
  /\ phase \in {"free", "sync", "integrate", "pick", "stopped", "park", "synced", "apply",
                "add", "commit", "rollback", "fetch", "rebase", "diff", "push", "drop",
                "pending", "down"}
  /\ job \in Job
  /\ phase \in {"free", "down"} <=> job.call = None
  /\ ask \in [Calls -> Request \cup {None}]
  /\ outcome \in [Calls -> {"none", "asked", "saved", "refused", "undone", "failed",
                            "unknown"}]
  /\ blind \subseteq Calls
  /\ pulled \subseteq Docs /\ marked \subseteq Docs /\ indexed \in Tree
  /\ faults \in 0 .. MaxFaults /\ killed \subseteq Calls /\ left \subseteq Docs
  /\ unmarked \subseteq Docs /\ peeked \subseteq Docs

Init ==
  /\ \E content \in [Docs -> {{}, {Old}}] :
       /\ remote = [ids |-> {}, content |-> content]
       /\ branch = [ids |-> {}, content |-> content, own |-> <<>>]
       /\ tree = content /\ index = content /\ indexed = content
  /\ fetched = remote
  /\ rebase = None /\ parked = {} /\ stale = FALSE
  /\ phase = "free" /\ job = NoJob
  /\ ask = [w \in Calls |-> None]
  /\ outcome = [w \in Calls |-> "none"]
  /\ blind = {}
  /\ pulled = {} /\ marked = {} /\ faults = 0
  /\ killed = {} /\ left = {} /\ unmarked = {} /\ peeked = {}

-----------------------------------------------------------------------------
(***************************************************************************)
(* The world outside the lock.                                             *)
(***************************************************************************)
\* Someone else creates, edits or deletes a document.
OtherPush(e, d) ==
  /\ e \notin remote.ids
  /\ \E c \in {remote.content[d] \cup {e}, {}} :
       remote' = [ids |-> remote.ids \cup {e}, content |-> [remote.content EXCEPT ![d] = c]]
  /\ UNCHANGED <<clone, files, phase, job, calls, indexing, faults, killed, left>>

\* The caller has read the document, unless it wants to create one.
Ask(w, kind, d) ==
  /\ phase # "down" /\ outcome[w] = "none"
  /\ kind # "create" => tree[d] # {}
  /\ ask' = [ask EXCEPT ![w] = [kind |-> kind, doc |-> d,
                               seen |-> IF kind = "create" THEN {} ELSE tree[d]]]
  /\ outcome' = [outcome EXCEPT ![w] = "asked"]
  /\ UNCHANGED <<remote, clone, files, phase, job, blind, indexing, faults, killed, left>>

\* An index run reads the file: a scoped run of ReindexQueue's, or a full one.
IndexDoc(d) ==
  /\ phase # "down" /\ (d \in marked \/ indexed[d] # tree[d])
  /\ indexed' = [indexed EXCEPT ![d] = tree[d]]
  /\ marked' = marked \ {d}
  /\ unmarked' = unmarked \ {d}
  /\ peeked' = IF phase = "free" \/ tree[d] = job.since[d] THEN peeked \ {d}
               ELSE peeked \cup {d}
  /\ UNCHANGED <<remote, clone, files, phase, job, calls, pulled, faults, killed, left>>

Lock(holder) ==
  /\ phase = "free"
  /\ phase' = "sync"
  /\ job' = [NoJob EXCEPT !.call = holder, !.attempt = 1, !.since = branch.content]
  /\ UNCHANGED <<remote, clone, files, calls, indexing, faults, killed, left>>

StartWrite(w) == outcome[w] = "asked" /\ Lock(w)
StartPull == Lock(Puller)

MarkPulled ==
  /\ pulled # {}
  /\ pulled' = {}
  /\ marked' = marked \cup pulled
  /\ unmarked' = unmarked \ pulled /\ peeked' = peeked \ pulled
  /\ UNCHANGED <<remote, clone, files, phase, job, calls, indexed, faults, killed, left>>

-----------------------------------------------------------------------------
(***************************************************************************)
(* sync_to_remote and pull_clone: fetch, then integrate_fetch_head.        *)
(***************************************************************************)
SyncFetch ==
  /\ phase = "sync"
  /\ \/ /\ fetched' = remote /\ phase' = "integrate"
        /\ UNCHANGED <<job, outcome, faults>>
     \/ /\ Strike("fetch") /\ UNCHANGED fetched
        /\ \/ Pulling /\ EndPull
           \/ ~Pulling /\ phase' = "synced" /\ UNCHANGED <<job, outcome>>
  /\ UNCHANGED <<remote, branch, rebase, parked, files, ask, blind, indexing, killed, left>>

\* HEAD is on the branch and its commits are all on the other side, or the reverse.
Contained == rebase = None /\ fetched.ids \subseteq branch.ids
CanFastForward ==
  /\ rebase = None /\ ~stale
  /\ branch.ids \subseteq fetched.ids
  /\ \A d \in Docs : branch.content[d] # fetched.content[d] =>
       index[d] = branch.content[d] /\ tree[d] = index[d]

FastForward ==
  /\ phase = "integrate"
  /\ \/ Contained /\ UNCHANGED <<branch, files>>
     \/ /\ ~Contained /\ CanFastForward
        /\ branch' = FetchHead
        /\ Checkout(fetched.content)
        /\ UNCHANGED stale
  /\ phase' = "synced"
  /\ UNCHANGED <<remote, fetched, rebase, parked, job, calls, indexing, faults, killed,
                 left>>

-----------------------------------------------------------------------------
(***************************************************************************)
(* git rebase FETCH_HEAD, from integrate_fetch_head and from               *)
(* commit_and_sync: one commit after the other, with HEAD off the branch.  *)
(***************************************************************************)
AtRebase == phase = "rebase" \/ (phase = "integrate" /\ ~Contained /\ ~CanFastForward)
Unpushed(c) == c.id \notin fetched.ids

RebaseStarts ==
  /\ AtRebase /\ rebase = None /\ ~stale /\ Clean
  /\ \/ /\ Contained
        /\ phase' = "diff" /\ UNCHANGED <<rebase, files>>
     \/ /\ ~Contained
        /\ rebase' = [tip |-> FetchHead, todo |-> branch.own]
        /\ Checkout(fetched.content) /\ UNCHANGED stale
        /\ phase' = "pick"
  /\ UNCHANGED <<remote, fetched, branch, parked, job, calls, indexing, faults, killed,
                 left>>

\* What the other side has is not replayed.
SkipPushed ==
  /\ phase = "pick" /\ rebase.todo # <<>> /\ ~Unpushed(Head(rebase.todo))
  /\ rebase' = [rebase EXCEPT !.todo = Tail(@)]
  /\ UNCHANGED <<remote, fetched, branch, parked, files, phase, job, calls, indexing,
                 faults, killed, left>>

\* A commit that changes nothing any more is dropped.
Pick ==
  /\ phase = "pick" /\ rebase.todo # <<>> /\ Unpushed(Head(rebase.todo))
  /\ LET c == Head(rebase.todo)
         cur == rebase.tip.content[c.doc]
         new == Merge(c.from, cur, c.to)
         content == [rebase.tip.content EXCEPT ![c.doc] = new]
         tip == [ids |-> rebase.tip.ids \cup {c.id}, content |-> content,
                 own |-> Append(rebase.tip.own, [c EXCEPT !.from = cur, !.to = new])]
     IN /\ Mergeable(c.from, cur, c.to)
        /\ rebase' = [tip |-> IF new = cur THEN rebase.tip ELSE tip,
                      todo |-> Tail(rebase.todo)]
        /\ Checkout(content)
  /\ UNCHANGED <<remote, fetched, branch, parked, stale, phase, job, calls, indexing,
                 faults, killed, left>>

\* Both sides are in the file, between conflict markers, and the index has it unmerged.
PickConflicts ==
  /\ phase = "pick" /\ rebase.todo # <<>> /\ Unpushed(Head(rebase.todo))
  /\ LET c == Head(rebase.todo)
         cur == rebase.tip.content[c.doc]
     IN /\ Overlap(c.from, cur, c.to)
        /\ tree' = [tree EXCEPT ![c.doc] = cur \cup c.to]
        /\ index' = [index EXCEPT ![c.doc] = cur \cup c.to]
  /\ phase' = "stopped"
  /\ UNCHANGED <<remote, clone, stale, job, calls, indexing, faults, killed, left>>

RebaseEnds ==
  /\ phase = "pick" /\ rebase.todo = <<>>
  /\ branch' = rebase.tip /\ rebase' = None
  /\ phase' = IF job.why = "sync" THEN "synced" ELSE "diff"
  /\ UNCHANGED <<remote, fetched, parked, files, job, calls, indexing, faults, killed, left>>

\* abort_rebase after a conflict.
AbortRebase ==
  /\ phase = "stopped"
  /\ rebase' = None
  /\ Checkout(branch.content)
  /\ phase' = IF job.why = "sync" THEN "park" ELSE "drop"
  /\ UNCHANGED <<remote, fetched, branch, parked, stale, job, calls, indexing, faults,
                 killed, left>>

\* What comes after a rebase that failed without a conflict: a write goes on with the
\* local clone, a pull fails, a commit is left to be synced later.
WithoutRebase ==
  \/ job.why = "push" /\ phase' = "pending" /\ UNCHANGED <<job, outcome>>
  \/ job.why = "sync" /\ ~Pulling /\ phase' = "synced" /\ UNCHANGED <<job, outcome>>
  \/ job.why = "sync" /\ Pulling /\ EndPull

RebaseRefused ==
  /\ AtRebase /\ (rebase # None \/ stale \/ ~Clean)
  /\ WithoutRebase
  /\ UNCHANGED <<remote, clone, files, ask, blind, indexing, faults, killed, left>>

\* The rebase fails or times out.  A killed git may leave its index.lock, and then
\* the abort fails as well.
RebaseKilled ==
  /\ phase = "pick" /\ Strike("rebase")
  /\ \/ rebase' = None /\ Checkout(branch.content) /\ UNCHANGED stale
     \/ stale' = TRUE /\ UNCHANGED <<rebase, tree, index>>
  /\ WithoutRebase
  /\ UNCHANGED <<remote, fetched, branch, parked, ask, blind, indexing, killed, left>>

\* Or it times out when it has already ended: the abort has nothing to undo, and the
\* caller takes the branch to be where it was.  A write goes on and finds out what has
\* changed; a pull, and a commit with its empty rebased_paths, mark nothing of it.
RebaseKilledLate ==
  /\ phase = "pick" /\ rebase.todo = <<>> /\ Strike("rebase")
  /\ branch' = rebase.tip /\ rebase' = None
  /\ \/ /\ job.why = "sync" /\ ~Pulling /\ phase' = "synced"
        /\ UNCHANGED <<job, outcome, unmarked>>
     \/ /\ job.why = "sync" /\ Pulling /\ EndPull
        /\ unmarked' = unmarked \cup {d \in Docs : job.since[d] # rebase.tip.content[d]}
     \/ /\ job.why = "push" /\ phase' = "pending" /\ UNCHANGED outcome
        /\ unmarked' = unmarked \cup {d \in Docs : job.old[d] # rebase.tip.content[d]}
        /\ job' = [job EXCEPT !.old = rebase.tip.content]
  /\ UNCHANGED <<remote, fetched, parked, files, ask, blind, pulled, marked, indexed, peeked,
                 killed, left>>

\* reset_to_fetch_head: what the remote does not have is saved under a ref first.
Unsynced == IF branch.ids \subseteq fetched.ids THEN {} ELSE {branch}

Park ==
  /\ phase = "park"
  /\ \/ /\ parked' = parked \cup Unsynced
        /\ branch' = FetchHead
        /\ Checkout(fetched.content)
        /\ phase' = "synced" /\ UNCHANGED <<job, outcome, faults>>
     \/ /\ Strike("reset") /\ parked' \in {parked, parked \cup Unsynced}
        /\ WithoutRebase
        /\ UNCHANGED <<branch, tree, index>>
  /\ UNCHANGED <<remote, fetched, rebase, stale, ask, blind, indexing, killed, left>>

-----------------------------------------------------------------------------
(***************************************************************************)
(* The end of a sync: what changed on disk is marked.                      *)
(***************************************************************************)
ChangedSince(content) == {d \in Docs : content[d] # branch.content[d]}

PullEnds ==
  /\ phase = "synced" /\ Pulling
  /\ \/ /\ pulled' = pulled \cup ChangedSince(job.since)
        /\ UNCHANGED <<unmarked, faults>>
     \/ /\ Strike("diff") /\ unmarked' = unmarked \cup ChangedSince(job.since)
        /\ UNCHANGED pulled
  /\ EndPull
  /\ UNCHANGED <<remote, clone, files, ask, blind, marked, indexed, peeked, killed, left>>

\* sync_clone: a diff that fails asks for a full reconcile.  The last conflict is
\* followed by a sync, too.
SyncEnds ==
  /\ phase = "synced" /\ ~Pulling
  /\ \/ Mark(ChangedSince(job.since)) /\ UNCHANGED faults
     \/ ChangedSince(job.since) # {} /\ Strike("diff") /\ Mark(Docs)
  /\ \/ /\ job.attempt <= MaxAttempts
        /\ job' = [job EXCEPT !.since = branch.content] /\ phase' = "apply"
        /\ UNCHANGED outcome
     \/ /\ job.attempt > MaxAttempts
        /\ Return("refused")
  /\ UNCHANGED <<remote, clone, files, ask, blind, killed, left>>

-----------------------------------------------------------------------------
(***************************************************************************)
(* write_document and delete_document: read, check, change, write.         *)
(***************************************************************************)
Current == tree[Doc]
Seen == ask[job.call].seen

\* Mutant: the version the caller saw is not compared.
AppliedBlindly(kind, seen, cur, w) ==
  CASE kind = "create" -> IF cur = {} THEN {{w}} ELSE {}
    [] kind = "replace" -> IF cur = {} THEN {} ELSE {seen \cup {w}}
    [] kind = "relative" -> IF cur = {} THEN {} ELSE {cur \cup {w}}
    [] kind = "delete" -> IF cur = {} THEN {} ELSE {{}}
\* The contents apply_change may come to.  A replacement is of the version the caller
\* saw, and is merged when the document is another by now; a deletion is not.
Applied(kind, seen, cur, w) ==
  CASE kind = "create" -> IF cur = {} THEN {{w}} ELSE {}
    [] kind = "replace" -> IF cur = {} THEN {} ELSE {Merge(seen, cur, seen \cup {w})}
    [] kind = "relative" -> IF cur = {} THEN {} ELSE {cur \cup {w}}
    [] kind = "delete" -> IF cur = {} \/ cur # seen THEN {} ELSE {{}}

WriteFile ==
  /\ phase = "apply"
  /\ \E new \in Applied(ask[job.call].kind, Seen, Current, job.call) :
       tree' = [tree EXCEPT ![Doc] = new]
  /\ phase' = "add"
  /\ UNCHANGED <<remote, clone, index, stale, job, calls, indexing, faults, killed, left>>

\* AlreadyExists, NotFound, EditedElsewhere, an anchor that no longer matches.
Refuse ==
  /\ phase = "apply"
  /\ \/ Applied(ask[job.call].kind, Seen, Current, job.call) = {}
     \/ ask[job.call].kind \in {"replace", "relative"} /\ Current # Seen
  /\ Return("refused")
  /\ UNCHANGED <<remote, clone, files, ask, blind, indexing, faults, killed, left>>

\* write_or_undo: the write fails half way, and perhaps the undo.
WriteFails ==
  /\ phase = "apply"
  /\ Applied(ask[job.call].kind, Seen, Current, job.call) # {}
  /\ Strike("write")
  /\ \/ Return("undone") /\ UNCHANGED <<tree, left>>
     \/ /\ ask[job.call].kind # "delete"
        /\ Return("failed") /\ left' = left \cup {Doc}
        /\ tree' = [tree EXCEPT ![Doc] = {job.call}]
  /\ UNCHANGED <<remote, clone, index, stale, ask, blind, indexing, killed>>

-----------------------------------------------------------------------------
(***************************************************************************)
(* commit_and_sync: add, commit, fetch, rebase, diff, push.                *)
(***************************************************************************)
Add ==
  /\ phase = "add"
  /\ \/ /\ ~stale /\ (index[Doc] # {} \/ tree[Doc] # {})
        /\ index' = [index EXCEPT ![Doc] = tree[Doc]]
        /\ phase' = "commit" /\ UNCHANGED faults
     \/ /\ stale \/ (index[Doc] = {} /\ tree[Doc] = {})
        /\ phase' = "rollback" /\ UNCHANGED <<index, faults>>
     \/ /\ Strike("add")
        /\ phase' = "rollback" /\ UNCHANGED index
  /\ UNCHANGED <<remote, clone, tree, stale, job, calls, indexing, killed, left>>

Committed ==
  [ids |-> branch.ids \cup {job.call},
   content |-> [branch.content EXCEPT ![Doc] = tree[Doc]],
   own |-> Append(branch.own, [id |-> job.call, doc |-> Doc,
                               from |-> branch.content[Doc], to |-> tree[Doc]])]

\* pre is pre_commit_head, unless the code could not read HEAD; that does not keep it
\* from committing.
GitCommit ==
  /\ phase = "commit" /\ tree[Doc] # branch.content[Doc]
  /\ branch' = Committed
  /\ \E headless \in BOOLEAN :
       /\ IF headless THEN Strike("head") ELSE UNCHANGED faults
       /\ blind' = IF headless THEN blind \cup {job.call} ELSE blind
       /\ job' = [job EXCEPT !.headless = headless, !.pre = branch,
                             !.old = Committed.content, !.why = "push"]
  /\ phase' = "fetch"
  /\ UNCHANGED <<remote, fetched, rebase, parked, files, ask, outcome, indexing, killed, left>>

\* There is nothing to commit, or git commit fails, or it is killed: then HEAD may
\* have moved all the same, and the index.lock may stay.
CommitFails ==
  /\ phase = "commit"
  /\ \/ tree[Doc] = branch.content[Doc] /\ UNCHANGED <<branch, stale, faults, killed, left>>
     \/ Strike("commit") /\ UNCHANGED <<branch, stale, killed, left>>
     \/ /\ tree[Doc] # branch.content[Doc] /\ Strike("kill")
        /\ branch' \in {branch, Committed} /\ stale' \in BOOLEAN
        /\ killed' = killed \cup {job.call} /\ left' = left \cup {Doc}
  /\ phase' = "rollback"
  /\ UNCHANGED <<remote, fetched, rebase, parked, tree, index, job, calls, indexing>>

\* restore_from_head for an edit or a deletion; for a creation the file is removed and
\* unstage resets its index entry.
\* Mutant: the working tree is restored, and not the index.
RestoredIndexForgotten == index
RestoredIndex == [index EXCEPT ![Doc] = branch.content[Doc]]
RestoredTree ==
  [tree EXCEPT ![Doc] = IF ask[job.call].kind = "create" THEN {} ELSE branch.content[Doc]]

\* git restore fails for a path that neither HEAD nor the index knows.
Restorable ==
  ask[job.call].kind = "create" \/ index[Doc] # {} \/ branch.content[Doc] # {}

RollBack ==
  /\ phase = "rollback"
  /\ \/ /\ ~stale /\ Restorable
        /\ Return("undone")
        /\ tree' = RestoredTree /\ index' = RestoredIndex
        /\ UNCHANGED <<faults, left>>
     \/ /\ \/ (stale \/ ~Restorable) /\ UNCHANGED faults
           \/ ~stale /\ Restorable /\ Strike("restore")
        /\ Return("failed")
        /\ left' = left \cup {Doc}
        /\ tree' = IF ask[job.call].kind = "create" THEN RestoredTree ELSE tree
        /\ UNCHANGED index
  /\ UNCHANGED <<remote, clone, stale, ask, blind, indexing, killed>>

PushFetch ==
  /\ phase = "fetch"
  /\ \/ fetched' = remote /\ phase' = "rebase" /\ UNCHANGED faults
     \/ Strike("fetch") /\ phase' = "pending" /\ UNCHANGED fetched
  /\ UNCHANGED <<remote, branch, rebase, parked, files, job, calls, indexing, killed, left>>

\* The paths the rebase has brought in; when they cannot be told, they are forgotten.
Diff ==
  /\ phase = "diff"
  /\ \/ phase' = "push" /\ UNCHANGED <<job, unmarked, faults>>
     \/ /\ Strike("diff")
        /\ unmarked' = unmarked \cup ChangedSince(job.old)
        /\ job' = [job EXCEPT !.old = branch.content]
        /\ phase' = "pending"
  /\ UNCHANGED <<remote, clone, files, calls, pulled, marked, indexed, peeked, killed, left>>

\* Mutant: only the call's own document is marked.
RebasedForgotten == {}
\* rebased_paths: nothing before the rebase has ended.
Rebased == ChangedSince(job.old)

Pushable == remote.ids \subseteq branch.ids
Pushed == [ids |-> branch.ids, content |-> branch.content]

Push ==
  /\ phase = "push" /\ Pushable
  /\ remote' = Pushed
  /\ Mark({Doc} \cup Rebased)
  /\ Return("saved")
  /\ UNCHANGED <<clone, files, ask, blind, faults, killed, left>>

\* The remote has moved since the fetch.
PushRejected ==
  /\ phase = "push" /\ ~Pushable
  /\ phase' = "drop"
  /\ UNCHANGED <<remote, clone, files, job, calls, indexing, faults, killed, left>>

\* PostCommit: the commit stands and is pushed with a later write.  A push that timed
\* out may have arrived.
Pending ==
  /\ \/ phase = "pending" /\ UNCHANGED <<remote, faults>>
     \/ /\ phase = "push" /\ Strike("push")
        /\ \/ UNCHANGED remote
           \/ Pushable /\ remote' = Pushed
  /\ Mark({Doc} \cup Rebased)
  /\ Return("saved")
  /\ UNCHANGED <<clone, files, ask, blind, killed, left>>

\* drop_own_commit, then the next attempt begins with a sync.  Where HEAD was not known
\* before the commit, it is reset_to_fetch_head, which saves the commit with the others.
\* Mutant: the branch goes to FETCH_HEAD, as drop_own_commit warns.
DropTargetFetched == FetchHead
\* Mutant: the branch stays where the rebase has put it.
DropTargetKept == branch
DropTarget == IF job.headless THEN FetchHead ELSE job.pre

DropSaves == IF job.headless THEN Unsynced ELSE {}

DropOwnCommit ==
  /\ phase = "drop"
  /\ \/ /\ parked' = parked \cup DropSaves
        /\ branch' = DropTarget /\ Checkout(DropTarget.content)
        /\ job' = [job EXCEPT !.attempt = @ + 1, !.why = "sync", !.headless = FALSE,
                              !.pre = NoBranch, !.old = NoTree]
        /\ phase' = "sync" /\ UNCHANGED faults
     \/ /\ Strike("reset") /\ parked' \in {parked, parked \cup DropSaves}
        /\ phase' = "pending" /\ UNCHANGED <<branch, tree, index, job>>
  /\ UNCHANGED <<remote, fetched, rebase, stale, calls, indexing, killed, left>>

-----------------------------------------------------------------------------
(***************************************************************************)
(* The process is killed, and starts again: recover_interrupted_state, and *)
(* the first reconcile reads every document.                               *)
(***************************************************************************)
UsesIndex ==
  phase \in {"integrate", "pick", "stopped", "park", "add", "commit", "rollback",
             "rebase", "drop"}

Crash ==
  /\ phase # "down" /\ Strike("crash")
  /\ phase' = "down" /\ job' = NoJob
  /\ stale' \in {stale, stale \/ UsesIndex}
  /\ outcome' = [w \in Calls |-> IF outcome[w] = "asked" THEN "unknown" ELSE outcome[w]]
  /\ pulled' = {} /\ marked' = {}
  /\ UNCHANGED <<remote, clone, tree, index, ask, blind, indexed, unmarked, peeked, killed,
                 left>>

FirstReconcile == Docs

Recover ==
  /\ phase = "down"
  /\ stale' = FALSE /\ rebase' = None
  /\ \/ rebase = None /\ UNCHANGED <<tree, index>>
     \/ rebase # None /\ Checkout(branch.content)
  /\ left' = left \cup {d \in Docs : {tree'[d], index'[d]} # {branch.content[d]}}
  /\ phase' = "free"
  /\ Mark(FirstReconcile)
  /\ UNCHANGED <<remote, fetched, branch, parked, job, calls, faults, killed>>

-----------------------------------------------------------------------------
Sync == SyncFetch \/ FastForward \/ PullEnds \/ SyncEnds \/ MarkPulled
Rebase == RebaseStarts \/ SkipPushed \/ Pick \/ PickConflicts \/ RebaseEnds \/ AbortRebase
          \/ RebaseRefused \/ RebaseKilled \/ RebaseKilledLate \/ Park
Write == WriteFile \/ Refuse \/ WriteFails \/ Add \/ GitCommit \/ CommitFails \/ RollBack
Publish == PushFetch \/ Diff \/ Push \/ PushRejected \/ Pending \/ DropOwnCommit

Next ==
  \/ \E e \in Others, d \in Docs : OtherPush(e, d)
  \/ \E w \in Calls, kind \in Kinds, d \in Docs : Ask(w, kind, d)
  \/ \E w \in Calls : StartWrite(w)
  \/ \E d \in Docs : IndexDoc(d)
  \/ StartPull \/ Sync \/ Rebase \/ Write \/ Publish \/ Crash \/ Recover

Spec == Init /\ [][Next]_vars

-----------------------------------------------------------------------------
\* A change that was reported as saved, pushed or not, is on a branch or under a
\* recovery ref, whatever a later call resets (drop_own_commit, reset_to_fetch_head).
SavedIsKept ==
  \A w \in Calls : outcome[w] = "saved" /\ ask[w].kind # "delete" =>
    w \in branch.ids \cup remote.ids \cup UNION {b.ids : b \in parked}

\* What this process pushes takes nothing from the remote's documents that the caller
\* of an accepted deletion had not seen.
Publishes == remote' # remote /\ remote'.ids \cap Others = remote.ids \cap Others
PushesLoseNothing ==
  [][Publishes => \A d \in Docs \ left :
       \A e \in remote.content[d] \ remote'.content[d] :
         \E w \in Calls : /\ outcome'[w] \in {"saved", "unknown"}
                         /\ ask[w].kind = "delete" /\ ask[w].doc = d /\ e \in ask[w].seen]_vars

\* No commit of a change that was refused or rolled back is left behind: not on the
\* branch, to be pushed with a later one, not on the remote, and not under a recovery ref,
\* except where it was made without knowing HEAD.
RefusedIsNowhere ==
  \A w \in Calls \ killed : outcome[w] \in {"refused", "undone", "failed"} =>
    /\ w \notin branch.ids \cup remote.ids
    /\ w \notin blind => w \notin UNION {b.ids : b \in parked}

\* Nobody who takes the lock finds a rebase in progress or uncommitted changes, but
\* where a fault has left them.
CloneIsClean ==
  phase = "free" /\ ~stale =>
    rebase = None /\ \A d \in Docs \ left : {tree[d], index[d]} = {branch.content[d]}

\* Every change to the working tree reaches the reindex queue, through a write, a
\* rebase or a pull.
IndexFollowsClone ==
  phase = "free" /\ ~stale =>
    \A d \in Docs \ (left \cup unmarked \cup peeked) :
      d \in marked \cup pulled \/ indexed[d] = tree[d]
=============================================================================
