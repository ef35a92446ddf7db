---------------------------- MODULE GitSyncProofs ----------------------------
(***************************************************************************)
(* Proofs about GitSync, for any documents, calls, other clones, number of *)
(* attempts and faults.                                                    *)
(*                                                                         *)
(* Each property speaks of moments at which the lock is free, or of one    *)
(* step; the invariant that shows it follows the clone through every phase *)
(* between.  CleanInv: working tree, index and branch.  CommitInv: whose   *)
(* commits are where.  FollowInv: what the queue has been told.  SavedInv: *)
(* which edits are in which content.  PushInv: what the branch lacks of    *)
(* the remote, and what its commits take away.                             *)
(***************************************************************************)
EXTENDS GitSync, SequenceTheorems, TLAPS

USE DEF FetchHead

Rebasing == [tip : Branch, todo : Seq(Commit)]

\* Which local variables the holder of the lock has set, by what it is about to do.
JobInv ==
  /\ phase \in {"free", "down"} => job = NoJob
  /\ phase \in {"sync", "integrate", "park", "synced", "apply", "add", "commit",
                "rollback"} => job.why = "sync"
  /\ phase \in {"fetch", "rebase", "diff", "push", "drop", "pending"} => job.why = "push"
  /\ job.why = "push" \/ phase \in {"apply", "add", "commit", "rollback"} =>
       job.call \in Calls
  /\ job.call \in Calls => outcome[job.call] = "asked"
  /\ \A w \in Calls : outcome[w] # "none" => ask[w] \in Request
  /\ phase \in {"pick", "stopped"} => rebase \in Rebasing
  /\ phase \in {"diff", "push", "drop"} => rebase = None

TypeInv == TypeOK /\ JobInv

\* Where the working tree and git's index stand at each step, outside what a fault left.
Same(d) == tree[d] = branch.content[d] /\ index[d] = branch.content[d]
Writing == {"add", "commit", "rollback"}

Unsettled == {"pick", "stopped", "down"} \cup Writing

CleanInv ==
  /\ phase = "commit" => ~stale
  /\ ~stale =>
    /\ phase \notin {"pick", "stopped", "down"} => rebase = None
    /\ phase \notin Unsettled => \A d \in Docs \ left : Same(d)
    /\ phase = "pick" =>
         \A d \in Docs \ left : /\ tree[d] = rebase.tip.content[d]
                                /\ index[d] = rebase.tip.content[d]
    /\ phase = "stopped" => \A d \in Docs \ left : index[d] = {} => tree[d] = {}
    /\ phase \in Writing => \A d \in Docs \ left :
         /\ d # Doc => Same(d)
         /\ d = Doc /\ ask[job.call].kind = "create" => branch.content[d] = {}
         /\ d = Doc /\ phase = "add" => index[d] = branch.content[d]
         /\ d = Doc /\ phase = "commit" => index[d] = tree[d]

\* A commit that is on the remote, or that the branch may go back to, is of a call that was
\* not refused; one that is only on the branch or in a rebase may be of the call in hand.
OwnIds(s) == {s[i].id : i \in DOMAIN s}
Accepted(w) == outcome[w] \in {"saved", "unknown"}
InHand(w) == w = job.call /\ job.why = "push"
BranchIds(b) == b.ids \cup OwnIds(b.own)
RebaseIds == IF rebase = None THEN {} ELSE BranchIds(rebase.tip) \cup OwnIds(rebase.todo)
Loose == remote.ids \cup fetched.ids \cup BranchIds(job.pre)
Held == BranchIds(branch) \cup RebaseIds

CommitInv ==
  \A w \in Calls \ killed :
    /\ w \in Loose => Accepted(w)
    /\ w \in Held => Accepted(w) \/ InHand(w)

\* Under a recovery ref there may be a commit made without knowing HEAD, besides.
HeadInv == job.headless => job.why = "push" /\ job.call \in blind
Shelved == UNION {BranchIds(b) : b \in parked}
ShelvedInv ==
  \A w \in Calls \ killed : w \in Shelved => Accepted(w) \/ w \in blind

-----------------------------------------------------------------------------
(***************************************************************************)
(* Lemmas on the operators.                                                *)
(***************************************************************************)
LEMMA NoJobType == NoTree \in Tree /\ NoBranch \in Branch /\ NoJob \in Job
<1>1. NoTree \in Tree
  BY DEF NoTree, Tree, Content
<1>2. NoBranch \in Branch
  BY <1>1 DEF NoBranch, Branch
<1> QED
  BY <1>1, <1>2 DEF NoJob, Job

\* A tip is a branch without commits of its own.
LEMMA TipIsBranch ==
  ASSUME NEW t \in Tip
  PROVE  [ids |-> t.ids, content |-> t.content, own |-> <<>>] \in Branch
BY DEF Tip, Branch

LEMMA CheckoutType ==
  ASSUME NEW content \in Tree, tree \in Tree, index \in Tree, Checkout(content)
  PROVE  tree' \in Tree /\ index' \in Tree
BY DEF Checkout, Tree

LEMMA MergeType ==
  ASSUME NEW base \in Content, NEW ours \in Content, NEW theirs \in Content
  PROVE  Merge(base, ours, theirs) \in Content
BY DEF Merge, Content

LEMMA AppliedType ==
  ASSUME NEW kind \in Kinds, NEW seen \in Content, NEW cur \in Content, NEW w \in Calls
  PROVE  Applied(kind, seen, cur, w) \subseteq Content
<1>1. /\ {w} \in Content /\ {} \in Content
      /\ cur \cup {w} \in Content /\ seen \cup {w} \in Content
  BY DEF Content, Edits
<1>2. Merge(seen, cur, seen \cup {w}) \in Content
  BY <1>1, MergeType
<1> QED
  BY <1>1, <1>2 DEF Applied, Kinds

LEMMA CommittedType ==
  ASSUME TypeInv, job.call \in Calls
  PROVE  /\ Committed \in Branch /\ Doc \in Docs /\ ask[job.call] \in Request
         /\ tree[Doc] \in Content /\ branch.content[Doc] \in Content
<1>1. ask[job.call] \in Request
  BY DEF TypeInv, JobInv
<1>2. Doc \in Docs
  BY <1>1 DEF Doc, Request
<1>3. tree[Doc] \in Content /\ branch.content[Doc] \in Content /\ branch.content \in Tree
  BY <1>2 DEF TypeInv, TypeOK, Tree, Branch
<1>4. [id |-> job.call, doc |-> Doc, from |-> branch.content[Doc], to |-> tree[Doc]] \in Commit
  BY <1>2, <1>3 DEF Commit
<1>5. branch.own \in Seq(Commit) /\ branch.ids \in SUBSET Edits
  BY DEF TypeInv, TypeOK, Branch
<1>6. Append(branch.own, [id |-> job.call, doc |-> Doc, from |-> branch.content[Doc],
                          to |-> tree[Doc]]) \in Seq(Commit)
  BY <1>4, <1>5, AppendProperties
<1>7. [branch.content EXCEPT ![Doc] = tree[Doc]] \in Tree
  BY <1>2, <1>3 DEF Tree
<1>8. branch.ids \cup {job.call} \in SUBSET Edits
  BY <1>5 DEF Edits
<1> QED
  BY <1>1, <1>2, <1>3, <1>6, <1>7, <1>8 DEF Committed, Branch

-----------------------------------------------------------------------------
(***************************************************************************)
(* Type correctness.                                                       *)
(***************************************************************************)
LEMMA InitType == Init => TypeInv
<1> SUFFICES ASSUME Init PROVE TypeInv
  OBVIOUS
<1>1. PICK content \in [Docs -> {{}, {Old}}] :
        /\ remote = [ids |-> {}, content |-> content]
        /\ branch = [ids |-> {}, content |-> content, own |-> <<>>]
        /\ tree = content /\ index = content /\ indexed = content
  BY DEF Init
<1>2. content \in Tree
  BY DEF Tree, Content, Edits
<1>3. remote \in Tip /\ branch \in Branch /\ fetched \in Tip
  BY <1>1, <1>2 DEF Tip, Branch, Init
<1>4. job \in Job /\ job = NoJob
  BY NoJobType DEF Init
<1>5. phase = "free" /\ job.call = None /\ job.why = "sync"
  BY <1>4 DEF Init, NoJob
<1>6. outcome = [w \in Calls |-> "none"] /\ ask = [w \in Calls |-> None]
  BY DEF Init
<1>7. TypeOK
  <2>1. /\ rebase = None /\ parked = {} /\ stale = FALSE /\ pulled = {} /\ marked = {}
        /\ faults = 0 /\ killed = {} /\ left = {} /\ unmarked = {} /\ peeked = {}
        /\ blind = {}
    BY DEF Init
  <2>2. outcome \in [Calls -> {"none", "asked", "saved", "refused", "undone", "failed",
                              "unknown"}]
    BY <1>6
  <2>3. ask \in [Calls -> Request \cup {None}]
    BY <1>6
  <2>4. remote \in Tip /\ fetched \in Tip /\ branch \in Branch
    BY <1>3
  <2>5. tree \in Tree /\ index \in Tree /\ indexed \in Tree
    BY <1>1, <1>2
  <2>6. faults \in 0 .. MaxFaults
    BY <2>1, ConstantsAssumption
  <2> QED
    BY <1>4, <1>5, <2>1, <2>2, <2>3, <2>4, <2>5, <2>6 DEF TypeOK
<1>8. JobInv
  BY <1>4, <1>5, <1>6, ConstantsAssumption DEF JobInv
<1> QED
  BY <1>7, <1>8 DEF TypeInv

LEMMA MarkPulledType == TypeInv /\ MarkPulled => TypeInv'
BY DEF MarkPulled, TypeInv, TypeOK, JobInv, clone, files, calls

\* The holder goes on with what it has, or lets go of the lock.
LEMMA GoOnOrEnd ==
  ASSUME TypeInv, phase \notin {"free", "down"}, UNCHANGED outcome,
         \/ phase' \notin {"free", "down"} /\ UNCHANGED job
         \/ phase' = "free" /\ job' = NoJob
  PROVE  /\ job' \in Job
         /\ phase' \in {"free", "down"} <=> job'.call = None
         /\ outcome' \in [Calls -> {"none", "asked", "saved", "refused", "undone", "failed",
                                   "unknown"}]
<1>1. NoJob.call = None
  BY DEF NoJob
<1> QED
  BY <1>1, NoJobType DEF TypeInv, TypeOK

LEMMA SyncFetchType == TypeInv /\ SyncFetch => TypeInv'
<1> SUFFICES ASSUME TypeInv, SyncFetch PROVE TypeInv'
  OBVIOUS
<1>1. /\ phase = "sync" /\ job.why = "sync" /\ UNCHANGED outcome
      /\ \/ phase' \in {"integrate", "synced"} /\ UNCHANGED job
         \/ phase' = "free" /\ job' = NoJob
      /\ UNCHANGED <<remote, branch, rebase, parked, files, ask, blind, indexing, killed, left>>
  BY DEF SyncFetch, EndPull, TypeInv, JobInv
<1>2. fetched' \in Tip /\ faults' \in 0 .. MaxFaults
  BY ConstantsAssumption DEF SyncFetch, Strike, TypeInv, TypeOK
<1>3. JobInv'
  BY <1>1, ConstantsAssumption DEF JobInv, TypeInv, NoJob
<1> QED
  BY <1>1, <1>2, <1>3, GoOnOrEnd DEF TypeInv, TypeOK, files, indexing

LEMMA FastForwardType == TypeInv /\ FastForward => TypeInv'
BY CheckoutType, TipIsBranch
   DEF FastForward, TypeInv, TypeOK, JobInv, files, calls, indexing, Tip, Branch

LEMMA RebaseStartsType == TypeInv /\ RebaseStarts => TypeInv'
<1> SUFFICES ASSUME TypeInv, RebaseStarts PROVE TypeInv'
  OBVIOUS
<1>1. CASE Contained
  BY <1>1 DEF RebaseStarts, AtRebase, TypeInv, TypeOK, JobInv, files, calls, indexing
<1>2. CASE ~Contained
  <2>1. /\ rebase' = [tip |-> [ids |-> fetched.ids, content |-> fetched.content,
                              own |-> <<>>], todo |-> branch.own]
        /\ phase' = "pick" /\ stale' = stale
        /\ Checkout(fetched.content)
    BY <1>2 DEF RebaseStarts
  <2>2. fetched.content \in Tree /\ branch.own \in Seq(Commit)
    BY DEF TypeInv, TypeOK, Tip, Branch
  <2>3. rebase' \in Rebasing
    BY <2>1, <2>2, TipIsBranch DEF TypeInv, TypeOK, Rebasing
  <2>4. tree' \in Tree /\ index' \in Tree
    BY <2>1, <2>2, CheckoutType DEF TypeInv, TypeOK
  <2> QED
    BY <2>1, <2>3, <2>4 DEF RebaseStarts, AtRebase, TypeInv, TypeOK, JobInv, Rebasing,
                            calls, indexing
<1> QED
  BY <1>1, <1>2

LEMMA SkipPushedType == TypeInv /\ SkipPushed => TypeInv'
<1> SUFFICES ASSUME TypeInv, SkipPushed PROVE TypeInv'
  OBVIOUS
<1>1. rebase \in Rebasing /\ rebase.todo # <<>>
  BY DEF TypeInv, JobInv, SkipPushed
<1>2. Tail(rebase.todo) \in Seq(Commit)
  BY <1>1, HeadTailProperties DEF Rebasing
<1>3. rebase' \in Rebasing
  BY <1>1, <1>2 DEF SkipPushed, Rebasing
<1> QED
  BY <1>3 DEF SkipPushed, TypeInv, TypeOK, JobInv, Rebasing, files, calls, indexing

\* The commit in hand, and where it is to go.
LEMMA HeadCommit ==
  ASSUME TypeInv, phase = "pick", rebase.todo # <<>>
  PROVE  /\ rebase \in Rebasing /\ rebase.tip.content \in Tree
         /\ Head(rebase.todo) \in Commit /\ Tail(rebase.todo) \in Seq(Commit)
         /\ Head(rebase.todo).doc \in Docs
         /\ rebase.tip.content[Head(rebase.todo).doc] \in Content
<1>1. rebase \in Rebasing
  BY DEF TypeInv, JobInv
<1>2. Head(rebase.todo) \in Commit /\ Tail(rebase.todo) \in Seq(Commit)
  BY <1>1, HeadTailProperties DEF Rebasing
<1> QED
  BY <1>1, <1>2 DEF Rebasing, Commit, Branch, Tree

LEMMA PickType == TypeInv /\ Pick => TypeInv'
<1> SUFFICES ASSUME TypeInv, Pick PROVE TypeInv'
  OBVIOUS
<1> DEFINE c == Head(rebase.todo)
           cur == rebase.tip.content[c.doc]
           new == Merge(c.from, cur, c.to)
           content == [rebase.tip.content EXCEPT ![c.doc] = new]
           replayed == [c EXCEPT !.from = cur, !.to = new]
           own == Append(rebase.tip.own, replayed)
           tip == [ids |-> rebase.tip.ids \cup {c.id}, content |-> content, own |-> own]
<1>1. /\ rebase \in Rebasing /\ rebase.tip.content \in Tree /\ c \in Commit
      /\ Tail(rebase.todo) \in Seq(Commit) /\ c.doc \in Docs /\ cur \in Content
  BY HeadCommit DEF Pick
<1>2. new \in Content
  BY <1>1, MergeType DEF Commit
<1>3. content \in Tree
  BY <1>1, <1>2 DEF Tree
<1>4. replayed \in Commit
  BY <1>1, <1>2 DEF Commit
<1>5. own \in Seq(Commit)
  BY <1>1, <1>4, AppendProperties DEF Rebasing, Branch
<1>6. tip \in Branch
  BY <1>1, <1>3, <1>5 DEF Rebasing, Branch, Commit, Edits
<1>7. rebase' = [tip |-> IF new = cur THEN rebase.tip ELSE tip, todo |-> Tail(rebase.todo)]
      /\ Checkout(content)
  BY DEF Pick
<1>8. rebase' \in Rebasing
  BY <1>1, <1>6, <1>7 DEF Rebasing
<1>9. tree' \in Tree /\ index' \in Tree
  BY <1>3, <1>7, CheckoutType DEF TypeInv, TypeOK
<1> HIDE DEF c, cur, new, content, replayed, own, tip
<1> QED
  BY <1>8, <1>9 DEF Pick, TypeInv, TypeOK, JobInv, Rebasing, calls, indexing

LEMMA PickConflictsType == TypeInv /\ PickConflicts => TypeInv'
<1> SUFFICES ASSUME TypeInv, PickConflicts PROVE TypeInv'
  OBVIOUS
<1> DEFINE c == Head(rebase.todo)
           both == rebase.tip.content[c.doc] \cup c.to
<1>1. /\ rebase \in Rebasing /\ c \in Commit /\ c.doc \in Docs
      /\ rebase.tip.content[c.doc] \in Content
  BY HeadCommit DEF PickConflicts
<1>2. both \in Content
  BY <1>1 DEF Commit, Content
<1>3. tree' = [tree EXCEPT ![c.doc] = both] /\ index' = [index EXCEPT ![c.doc] = both]
  BY DEF PickConflicts
<1>4. tree' \in Tree /\ index' \in Tree
  BY <1>2, <1>3 DEF TypeInv, TypeOK, Tree
<1> HIDE DEF c, both
<1> QED
  BY <1>1, <1>4 DEF PickConflicts, TypeInv, TypeOK, JobInv, clone, calls, indexing

LEMMA RebaseEndsType == TypeInv /\ RebaseEnds => TypeInv'
BY DEF RebaseEnds, TypeInv, TypeOK, JobInv, Job, files, calls, indexing, Rebasing

LEMMA AbortRebaseType == TypeInv /\ AbortRebase => TypeInv'
BY CheckoutType
   DEF AbortRebase, TypeInv, TypeOK, JobInv, Job, calls, indexing, Tip, Branch

LEMMA RebaseRefusedType == TypeInv /\ RebaseRefused => TypeInv'
<1> SUFFICES ASSUME TypeInv, RebaseRefused PROVE TypeInv'
  OBVIOUS
<1>1. /\ phase \in {"integrate", "rebase"} /\ UNCHANGED outcome
      /\ \/ job.why = "push" /\ phase' = "pending" /\ UNCHANGED job
         \/ job.why = "sync" /\ phase' = "synced" /\ UNCHANGED job
         \/ job.why = "sync" /\ phase' = "free" /\ job' = NoJob
      /\ UNCHANGED <<remote, clone, files, ask, blind, indexing, faults, killed, left>>
  BY DEF RebaseRefused, WithoutRebase, AtRebase, EndPull
<1>2. JobInv'
  BY <1>1, ConstantsAssumption DEF JobInv, TypeInv, NoJob
<1> QED
  BY <1>1, <1>2, GoOnOrEnd DEF TypeInv, TypeOK, clone, files, indexing

LEMMA RebaseKilledType == TypeInv /\ RebaseKilled => TypeInv'
<1> SUFFICES ASSUME TypeInv, RebaseKilled PROVE TypeInv'
  OBVIOUS
<1>1. branch.content \in Tree
  BY DEF TypeInv, TypeOK, Branch
<1>2. tree' \in Tree /\ index' \in Tree
  BY <1>1, CheckoutType DEF RebaseKilled, TypeInv, TypeOK
<1>3. rebase' = None \/ rebase' = rebase
  BY DEF RebaseKilled
<1>4. stale' \in BOOLEAN
  BY DEF RebaseKilled, TypeInv, TypeOK
<1>5. /\ faults' \in 0 .. MaxFaults
      /\ UNCHANGED <<remote, fetched, branch, parked, ask, blind, indexing, killed, left>>
  BY ConstantsAssumption DEF RebaseKilled, Strike, TypeInv, TypeOK
<1>6. /\ phase = "pick"
      /\ \/ job.why = "push" /\ phase' = "pending" /\ UNCHANGED <<job, outcome>>
         \/ job.why = "sync" /\ phase' = "synced" /\ UNCHANGED <<job, outcome>>
         \/ job.why = "sync" /\ phase' = "free" /\ job' = NoJob /\ UNCHANGED outcome
  BY DEF RebaseKilled, WithoutRebase, EndPull
<1>7. JobInv'
  BY <1>5, <1>6, ConstantsAssumption DEF JobInv, TypeInv, NoJob, indexing
<1> QED
  BY <1>2, <1>3, <1>4, <1>5, <1>6, <1>7, GoOnOrEnd, ConstantsAssumption
     DEF TypeInv, TypeOK, indexing

LEMMA RebaseKilledLateType == TypeInv /\ RebaseKilledLate => TypeInv'
<1> SUFFICES ASSUME TypeInv, RebaseKilledLate PROVE TypeInv'
  OBVIOUS
<1>1. /\ phase = "pick" /\ rebase \in Rebasing /\ rebase' = None /\ branch' = rebase.tip
      /\ job \in Job
  BY DEF RebaseKilledLate, TypeInv, TypeOK, JobInv
<1>2. branch' \in Branch /\ rebase.tip.content \in Tree
  BY <1>1 DEF Rebasing, Branch
<1>3. /\ faults' \in 0 .. MaxFaults /\ unmarked' \subseteq Docs
      /\ UNCHANGED <<remote, fetched, parked, files, ask, blind, pulled, marked, indexed,
                     peeked, killed, left>>
  BY ConstantsAssumption DEF RebaseKilledLate, Strike, TypeInv, TypeOK
<1>4. CASE job.why = "sync" /\ phase' = "synced" /\ UNCHANGED <<job, outcome>>
  <2>1. JobInv'
    BY <1>3, <1>4 DEF JobInv, TypeInv
  <2> QED
    BY <1>1, <1>2, <1>3, <1>4, <2>1, ConstantsAssumption DEF TypeInv, TypeOK, files
<1>5. CASE job.why = "sync" /\ EndPull
  <2>1. JobInv'
    BY <1>3, <1>5, ConstantsAssumption DEF JobInv, TypeInv, EndPull, NoJob
  <2> QED
    BY <1>1, <1>2, <1>3, <1>5, <2>1, NoJobType, ConstantsAssumption
       DEF TypeInv, TypeOK, files, EndPull, NoJob
<1>6. CASE /\ job.why = "push" /\ phase' = "pending" /\ UNCHANGED outcome
           /\ job' = [job EXCEPT !.old = rebase.tip.content]
  <2>1. job' \in Job /\ job'.call = job.call /\ job'.why = job.why
    BY <1>1, <1>2, <1>6 DEF Job
  <2>2. JobInv'
    BY <1>1, <1>3, <1>6, <2>1 DEF JobInv, TypeInv
  <2> QED
    BY <1>1, <1>2, <1>3, <1>6, <2>1, <2>2, ConstantsAssumption
       DEF TypeInv, TypeOK, files, JobInv
<1> QED
  BY <1>4, <1>5, <1>6 DEF RebaseKilledLate

LEMMA ParkType == TypeInv /\ Park => TypeInv'
<1> SUFFICES ASSUME TypeInv, Park PROVE TypeInv'
  OBVIOUS
<1>1. fetched.content \in Tree
  BY DEF TypeInv, TypeOK, Tip
<1>2. branch' \in Branch /\ parked' \subseteq Branch
  BY TipIsBranch DEF Park, Unsynced, TypeInv, TypeOK
<1>3. tree' \in Tree /\ index' \in Tree
  BY <1>1, CheckoutType DEF Park, TypeInv, TypeOK
<1>4. /\ faults' \in 0 .. MaxFaults
      /\ UNCHANGED <<remote, fetched, rebase, stale, ask, blind, indexing, killed, left>>
  BY ConstantsAssumption DEF Park, Strike, TypeInv, TypeOK
<1>5. /\ phase = "park" /\ job.why = "sync"
      /\ \/ phase' = "synced" /\ UNCHANGED <<job, outcome>>
         \/ phase' = "free" /\ job' = NoJob /\ UNCHANGED outcome
  BY DEF Park, WithoutRebase, EndPull, TypeInv, JobInv
<1>6. JobInv'
  BY <1>4, <1>5, ConstantsAssumption DEF JobInv, TypeInv, NoJob
<1> QED
  BY <1>2, <1>3, <1>4, <1>5, <1>6, GoOnOrEnd DEF TypeInv, TypeOK, indexing

LEMMA PullEndsType == TypeInv /\ PullEnds => TypeInv'
<1> SUFFICES ASSUME TypeInv, PullEnds PROVE TypeInv'
  OBVIOUS
<1>1. ChangedSince(job.since) \subseteq Docs
  BY DEF ChangedSince
<1>2. pulled' \subseteq Docs /\ unmarked' \subseteq Docs /\ faults' \in 0 .. MaxFaults
  BY <1>1, ConstantsAssumption DEF PullEnds, Strike, TypeInv, TypeOK
<1>3. /\ phase' = "free" /\ job' = NoJob
      /\ UNCHANGED <<remote, clone, files, calls, marked, indexed, peeked, killed, left>>
  BY DEF PullEnds, EndPull, calls
<1>4. JobInv'
  BY <1>3, ConstantsAssumption DEF JobInv, TypeInv, NoJob, calls
<1> QED
  BY <1>2, <1>3, <1>4, NoJobType, ConstantsAssumption
     DEF TypeInv, TypeOK, clone, files, calls, NoJob

LEMMA SyncEndsType == TypeInv /\ SyncEnds => TypeInv'
<1> SUFFICES ASSUME TypeInv, SyncEnds PROVE TypeInv'
  OBVIOUS
<1>1. ChangedSince(job.since) \subseteq Docs
  BY DEF ChangedSince
<1>2. /\ marked' \subseteq Docs /\ unmarked' \subseteq Docs /\ peeked' \subseteq Docs
      /\ faults' \in 0 .. MaxFaults
      /\ UNCHANGED <<pulled, indexed, remote, clone, files, ask, blind, killed, left>>
  BY <1>1, ConstantsAssumption DEF SyncEnds, Mark, Strike, TypeInv, TypeOK
<1>3. phase = "synced" /\ job.call \in Calls /\ job \in Job /\ job.why = "sync"
  BY ConstantsAssumption DEF SyncEnds, Pulling, TypeInv, TypeOK, JobInv, Job
<1>4. CASE /\ job' = [job EXCEPT !.since = branch.content] /\ phase' = "apply"
           /\ UNCHANGED outcome
  <2>1. branch.content \in Tree
    BY DEF TypeInv, TypeOK, Branch
  <2>2. job' \in Job /\ job'.call = job.call /\ job'.why = "sync"
    BY <1>3, <1>4, <2>1 DEF Job
  <2>3. JobInv'
    BY <1>2, <1>3, <1>4, <2>2 DEF JobInv, TypeInv
  <2> QED
    BY <1>2, <1>3, <1>4, <2>2, <2>3, ConstantsAssumption DEF TypeInv, TypeOK, clone, files
<1>5. CASE Return("refused")
  <2>1. /\ outcome' = [outcome EXCEPT ![job.call] = "refused"]
        /\ phase' = "free" /\ job' = NoJob
    BY <1>5 DEF Return
  <2>2. JobInv'
    BY <1>2, <1>3, <2>1, ConstantsAssumption DEF JobInv, TypeInv, TypeOK, NoJob
  <2> QED
    BY <1>2, <2>1, <2>2, NoJobType, ConstantsAssumption
       DEF TypeInv, TypeOK, clone, files, NoJob
<1> QED
  BY <1>4, <1>5 DEF SyncEnds

\* What a call in hand works on.
LEMMA CallInHand ==
  ASSUME TypeInv, phase \in {"apply", "add", "commit", "rollback"} \/ job.why = "push"
  PROVE  /\ job.call \in Calls /\ job \in Job /\ outcome[job.call] = "asked"
         /\ ask[job.call] \in Request /\ Doc \in Docs
         /\ tree[Doc] \in Content /\ index[Doc] \in Content
         /\ branch.content[Doc] \in Content
<1>1. /\ job.call \in Calls /\ job \in Job /\ outcome[job.call] = "asked"
      /\ ask[job.call] \in Request
  BY DEF TypeInv, TypeOK, JobInv
<1>2. Doc \in Docs
  BY <1>1 DEF Doc, Request
<1> QED
  BY <1>1, <1>2 DEF TypeInv, TypeOK, Tree, Branch

\* A call that returns leaves its types in order.
LEMMA ReturnType ==
  ASSUME TypeInv, job.call \in Calls, UNCHANGED ask,
         NEW result \in {"saved", "refused", "undone", "failed"}, Return(result)
  PROVE  /\ JobInv' /\ job' \in Job /\ phase' = "free" /\ job'.call = None
         /\ outcome' \in [Calls -> {"none", "asked", "saved", "refused", "undone",
                                   "failed", "unknown"}]
<1>1. /\ outcome' = [outcome EXCEPT ![job.call] = result]
      /\ phase' = "free" /\ job' = NoJob
  BY DEF Return
<1>2. job'.call = None /\ job'.why = "sync" /\ job' \in Job
  BY <1>1, NoJobType DEF NoJob
<1>3. outcome' \in [Calls -> {"none", "asked", "saved", "refused", "undone", "failed",
                            "unknown"}]
  BY <1>1 DEF TypeInv, TypeOK
<1>4. \A w \in Calls : outcome'[w] # "none" => ask[w] \in Request
  BY <1>1 DEF TypeInv, TypeOK, JobInv
<1> QED
  BY <1>1, <1>2, <1>3, <1>4, ConstantsAssumption DEF JobInv

LEMMA WriteFileType == TypeInv /\ WriteFile => TypeInv'
<1> SUFFICES ASSUME TypeInv, WriteFile PROVE TypeInv'
  OBVIOUS
<1>1. /\ job.call \in Calls /\ ask[job.call].kind \in Kinds /\ Seen \in Content
      /\ Current \in Content /\ Doc \in Docs /\ job.why = "sync"
  BY CallInHand DEF WriteFile, Request, Seen, Current, TypeInv, JobInv
<1>2. PICK new \in Content : tree' = [tree EXCEPT ![Doc] = new]
  BY <1>1, AppliedType DEF WriteFile
<1>3. tree' \in Tree
  BY <1>1, <1>2 DEF TypeInv, TypeOK, Tree
<1>4. /\ phase' = "add"
      /\ UNCHANGED <<remote, clone, index, stale, job, calls, indexing, faults, killed, left>>
  BY DEF WriteFile
<1>5. JobInv'
  BY <1>1, <1>4 DEF TypeInv, JobInv, clone, calls
<1>6. phase \notin {"free", "down"}
  BY DEF WriteFile
<1> QED
  BY <1>3, <1>4, <1>5, <1>6 DEF TypeInv, TypeOK, clone, calls, indexing

LEMMA RefuseType == TypeInv /\ Refuse => TypeInv'
BY ConstantsAssumption, NoJobType
   DEF Refuse, TypeInv, TypeOK, JobInv, NoJob, clone, files, indexing, Return

LEMMA WriteFailsType == TypeInv /\ WriteFails => TypeInv'
<1> SUFFICES ASSUME TypeInv, WriteFails PROVE TypeInv'
  OBVIOUS
<1>1. job.call \in Calls /\ Doc \in Docs
  BY CallInHand DEF WriteFails
<1>2. {job.call} \in Content
  BY <1>1 DEF Content, Edits
<1>3. tree \in Tree /\ left \subseteq Docs /\ faults \in 0 .. MaxFaults
  BY DEF TypeInv, TypeOK
<1>4. tree' \in Tree
  <2>1. tree' = tree \/ tree' = [tree EXCEPT ![Doc] = {job.call}]
    BY DEF WriteFails
  <2> QED
    BY <1>1, <1>2, <1>3, <2>1 DEF Tree
<1>5. left' \subseteq Docs
  BY <1>1, <1>3 DEF WriteFails
<1>6. faults' \in 0 .. MaxFaults
  BY <1>3, ConstantsAssumption DEF WriteFails, Strike
<1>7. /\ Return("undone") \/ Return("failed")
      /\ UNCHANGED <<remote, clone, index, stale, ask, blind, indexing, killed>>
  BY DEF WriteFails
<1>8. /\ JobInv' /\ job' \in Job /\ phase' = "free" /\ job'.call = None
      /\ outcome' \in [Calls -> {"none", "asked", "saved", "refused", "undone",
                                "failed", "unknown"}]
  BY <1>1, <1>7, ReturnType
<1> QED
  BY <1>4, <1>5, <1>6, <1>7, <1>8 DEF TypeInv, TypeOK, clone, indexing

LEMMA AddType == TypeInv /\ Add => TypeInv'
<1> SUFFICES ASSUME TypeInv, Add PROVE TypeInv'
  OBVIOUS
<1>1. phase = "add" /\ Doc \in Docs /\ tree[Doc] \in Content
  BY CallInHand DEF Add
<1>2. index' \in Tree
  <2>1. index' = index \/ index' = [index EXCEPT ![Doc] = tree[Doc]]
    BY DEF Add
  <2> QED
    BY <1>1, <2>1 DEF TypeInv, TypeOK, Tree
<1>3. faults' \in 0 .. MaxFaults
  BY ConstantsAssumption DEF Add, Strike, TypeInv, TypeOK
<1>4. /\ phase' \in {"commit", "rollback"}
      /\ UNCHANGED <<remote, clone, tree, stale, job, calls, indexing, killed, left>>
  BY DEF Add
<1>5. JobInv'
  BY <1>1, <1>4 DEF TypeInv, JobInv, clone, calls
<1> QED
  BY <1>1, <1>2, <1>3, <1>4, <1>5 DEF TypeInv, TypeOK, clone, calls, indexing

LEMMA GitCommitType == TypeInv /\ GitCommit => TypeInv'
<1> SUFFICES ASSUME TypeInv, GitCommit PROVE TypeInv'
  OBVIOUS
<1>1. /\ phase = "commit" /\ job.call \in Calls /\ job \in Job
      /\ outcome[job.call] = "asked"
  BY CallInHand DEF GitCommit
<1>2. Committed \in Branch
  BY <1>1, CommittedType
<1>3. PICK headless \in BOOLEAN :
        /\ job' = [job EXCEPT !.headless = headless, !.pre = branch,
                             !.old = Committed.content, !.why = "push"]
        /\ IF headless THEN Strike("head") ELSE UNCHANGED faults
        /\ blind' = IF headless THEN blind \cup {job.call} ELSE blind
  BY DEF GitCommit
<1>4. job' \in Job /\ job'.call = job.call /\ job'.why = "push"
  BY <1>1, <1>2, <1>3 DEF Job, Branch, TypeInv, TypeOK
<1>5. /\ branch' = Committed /\ phase' = "fetch"
      /\ UNCHANGED <<remote, fetched, rebase, parked, files, ask, outcome, indexing, killed,
                     left>>
  BY DEF GitCommit
<1>6. JobInv'
  BY <1>1, <1>4, <1>5 DEF TypeInv, JobInv
<1>7. faults' \in 0 .. MaxFaults /\ blind' \subseteq Calls
  BY <1>1, <1>3, ConstantsAssumption DEF Strike, TypeInv, TypeOK
<1> QED
  BY <1>1, <1>2, <1>4, <1>5, <1>6, <1>7, ConstantsAssumption
     DEF TypeInv, TypeOK, files, indexing

LEMMA CommitFailsType == TypeInv /\ CommitFails => TypeInv'
<1> SUFFICES ASSUME TypeInv, CommitFails PROVE TypeInv'
  OBVIOUS
<1>1. phase = "commit" /\ job.call \in Calls /\ Doc \in Docs
  BY CallInHand DEF CommitFails
<1>2. branch' \in Branch
  BY <1>1, CommittedType DEF CommitFails, TypeInv, TypeOK
<1>3. /\ stale' \in BOOLEAN /\ faults' \in 0 .. MaxFaults /\ killed' \subseteq Calls
      /\ left' \subseteq Docs
  BY <1>1, ConstantsAssumption DEF CommitFails, Strike, TypeInv, TypeOK
<1>4. /\ phase' = "rollback"
      /\ UNCHANGED <<remote, fetched, rebase, parked, tree, index, job, calls, indexing>>
  BY DEF CommitFails
<1>5. JobInv'
  BY <1>1, <1>4 DEF TypeInv, JobInv, calls
<1> QED
  BY <1>1, <1>2, <1>3, <1>4, <1>5 DEF TypeInv, TypeOK, calls, indexing

LEMMA RollBackType == TypeInv /\ RollBack => TypeInv'
<1> SUFFICES ASSUME TypeInv, RollBack PROVE TypeInv'
  OBVIOUS
<1>1. job.call \in Calls /\ Doc \in Docs /\ branch.content[Doc] \in Content
  BY CallInHand DEF RollBack
<1>2. RestoredTree \in Tree /\ RestoredIndex \in Tree
  <2>1. {} \in Content
    BY DEF Content
  <2> QED
    BY <1>1, <2>1 DEF RestoredTree, RestoredIndex, TypeInv, TypeOK, Tree
<1>3. tree' \in Tree /\ index' \in Tree
  BY <1>2 DEF RollBack, TypeInv, TypeOK
<1>4. faults' \in 0 .. MaxFaults /\ left' \subseteq Docs
  BY <1>1, ConstantsAssumption DEF RollBack, Strike, TypeInv, TypeOK
<1>5. /\ Return("undone") \/ Return("failed")
      /\ UNCHANGED <<remote, clone, stale, ask, blind, indexing, killed>>
  BY DEF RollBack
<1>6. /\ JobInv' /\ job' \in Job /\ phase' = "free" /\ job'.call = None
      /\ outcome' \in [Calls -> {"none", "asked", "saved", "refused", "undone",
                                "failed", "unknown"}]
  BY <1>1, <1>5, ReturnType
<1> QED
  BY <1>3, <1>4, <1>5, <1>6 DEF TypeInv, TypeOK, clone, indexing

LEMMA PushFetchType == TypeInv /\ PushFetch => TypeInv'
BY ConstantsAssumption
   DEF PushFetch, TypeInv, TypeOK, JobInv, files, calls, indexing, Strike

LEMMA DiffType == TypeInv /\ Diff => TypeInv'
<1> SUFFICES ASSUME TypeInv, Diff PROVE TypeInv'
  OBVIOUS
<1>1. phase = "diff" /\ job \in Job /\ job.why = "push"
  BY DEF Diff, TypeInv, TypeOK, JobInv
<1>2. branch.content \in Tree
  BY DEF TypeInv, TypeOK, Branch
<1>3. job' = job \/ job' = [job EXCEPT !.old = branch.content]
  BY DEF Diff
<1>4. job' \in Job /\ job'.call = job.call /\ job'.why = "push"
  BY <1>1, <1>2, <1>3 DEF Job
<1>5. unmarked' \subseteq Docs /\ faults' \in 0 .. MaxFaults
  BY ConstantsAssumption DEF Diff, ChangedSince, Strike, TypeInv, TypeOK
<1>6. /\ phase' \in {"push", "pending"}
      /\ UNCHANGED <<remote, clone, files, calls, pulled, marked, indexed, peeked, killed,
                     left>>
  BY DEF Diff
<1>7. JobInv'
  BY <1>1, <1>4, <1>6 DEF TypeInv, JobInv, clone, calls
<1> QED
  BY <1>1, <1>4, <1>5, <1>6, <1>7 DEF TypeInv, TypeOK, clone, files, calls

LEMMA MarkType ==
  ASSUME TypeInv, NEW docs \in SUBSET Docs, Mark(docs)
  PROVE  /\ marked' \subseteq Docs /\ unmarked' \subseteq Docs /\ peeked' \subseteq Docs
         /\ UNCHANGED <<pulled, indexed>>
BY DEF Mark, TypeInv, TypeOK

LEMMA PushedType == TypeInv => Pushed \in Tip
BY DEF TypeInv, TypeOK, Pushed, Branch, Tip

LEMMA PushType == TypeInv /\ Push => TypeInv'
<1> SUFFICES ASSUME TypeInv, Push PROVE TypeInv'
  OBVIOUS
<1>1. job.call \in Calls /\ Doc \in Docs
  BY CallInHand DEF Push, TypeInv, JobInv
<1>2. {Doc} \cup Rebased \subseteq Docs
  BY <1>1 DEF Rebased, ChangedSince
<1>3. remote' \in Tip /\ faults' \in 0 .. MaxFaults
  BY PushedType DEF Push, TypeInv, TypeOK
<1>4. /\ Mark({Doc} \cup Rebased) /\ Return("saved")
      /\ UNCHANGED <<clone, files, ask, blind, killed, left>>
  BY DEF Push
<1>5. /\ marked' \subseteq Docs /\ unmarked' \subseteq Docs /\ peeked' \subseteq Docs
      /\ UNCHANGED <<pulled, indexed>>
  BY <1>2, <1>4, MarkType
<1>6. /\ JobInv' /\ job' \in Job /\ phase' = "free" /\ job'.call = None
      /\ outcome' \in [Calls -> {"none", "asked", "saved", "refused", "undone",
                                "failed", "unknown"}]
  BY <1>1, <1>4, ReturnType
<1> QED
  BY <1>3, <1>4, <1>5, <1>6 DEF TypeInv, TypeOK, clone, files

LEMMA PushRejectedType == TypeInv /\ PushRejected => TypeInv'
BY DEF PushRejected, TypeInv, TypeOK, JobInv, clone, files, calls, indexing

LEMMA PendingType == TypeInv /\ Pending => TypeInv'
<1> SUFFICES ASSUME TypeInv, Pending PROVE TypeInv'
  OBVIOUS
<1>1. job.call \in Calls /\ Doc \in Docs
  BY CallInHand DEF Pending, TypeInv, JobInv
<1>2. {Doc} \cup Rebased \subseteq Docs
  BY <1>1 DEF Rebased, ChangedSince
<1>3. remote' \in Tip /\ faults' \in 0 .. MaxFaults
  BY PushedType, ConstantsAssumption DEF Pending, Strike, TypeInv, TypeOK
<1>4. /\ Mark({Doc} \cup Rebased) /\ Return("saved")
      /\ UNCHANGED <<clone, files, ask, blind, killed, left>>
  BY DEF Pending
<1>5. /\ marked' \subseteq Docs /\ unmarked' \subseteq Docs /\ peeked' \subseteq Docs
      /\ UNCHANGED <<pulled, indexed>>
  BY <1>2, <1>4, MarkType
<1>6. /\ JobInv' /\ job' \in Job /\ phase' = "free" /\ job'.call = None
      /\ outcome' \in [Calls -> {"none", "asked", "saved", "refused", "undone",
                                "failed", "unknown"}]
  BY <1>1, <1>4, ReturnType
<1> QED
  BY <1>3, <1>4, <1>5, <1>6 DEF TypeInv, TypeOK, clone, files

LEMMA DropOwnCommitType == TypeInv /\ DropOwnCommit => TypeInv'
<1> SUFFICES ASSUME TypeInv, DropOwnCommit PROVE TypeInv'
  OBVIOUS
<1>1. /\ phase = "drop" /\ job \in Job /\ job.why = "push" /\ job.call \in Calls
      /\ outcome[job.call] = "asked"
  BY DEF DropOwnCommit, TypeInv, TypeOK, JobInv
<1>2. /\ DropTarget \in Branch /\ DropTarget.content \in Tree
      /\ DropSaves \subseteq Branch
  <2>1. job.pre \in Branch /\ FetchHead \in Branch /\ Unsynced \subseteq Branch
    BY <1>1, TipIsBranch DEF Job, Unsynced, TypeInv, TypeOK
  <2> QED
    BY <2>1 DEF DropTarget, DropSaves, Branch
<1>3. tree' \in Tree /\ index' \in Tree /\ branch' \in Branch /\ parked' \subseteq Branch
  BY <1>2, CheckoutType DEF DropOwnCommit, TypeInv, TypeOK
<1>4. faults' \in 0 .. MaxFaults
  BY ConstantsAssumption DEF DropOwnCommit, Strike, TypeInv, TypeOK
<1>5. UNCHANGED <<remote, fetched, rebase, stale, calls, indexing, killed, left>>
  BY DEF DropOwnCommit
<1>6. /\ job' \in Job /\ job'.call = job.call
      /\ \/ phase' = "sync" /\ job'.why = "sync"
         \/ phase' = "pending" /\ job'.why = "push"
  <2>1. CASE /\ job' = [job EXCEPT !.attempt = job.attempt + 1, !.why = "sync",
                                   !.headless = FALSE, !.pre = NoBranch, !.old = NoTree]
             /\ phase' = "sync"
    <3>1. job.attempt + 1 \in Nat /\ NoTree \in Tree /\ NoBranch \in Branch
      BY <1>1, NoJobType DEF Job
    <3> QED
      BY <1>1, <2>1, <3>1 DEF Job
  <2>2. CASE phase' = "pending" /\ job' = job
    BY <1>1, <2>2
  <2> QED
    BY <2>1, <2>2 DEF DropOwnCommit
<1>7. JobInv'
  BY <1>1, <1>5, <1>6 DEF TypeInv, JobInv, calls
<1> QED
  BY <1>1, <1>3, <1>4, <1>5, <1>6, <1>7 DEF TypeInv, TypeOK, calls, indexing

LEMMA LockType ==
  ASSUME TypeInv, NEW holder \in Calls \cup {Puller}, Lock(holder),
         holder \in Calls => outcome[holder] = "asked"
  PROVE  TypeInv'
<1>1. job' = [NoJob EXCEPT !.call = holder, !.attempt = 1, !.since = branch.content]
  BY DEF Lock
<1>2. branch.content \in Tree
  BY DEF TypeInv, TypeOK, Branch
<1>3. job' \in Job /\ job'.call = holder /\ job'.why = "sync"
  BY <1>1, <1>2, NoJobType DEF Job, NoJob
<1>4. /\ phase = "free" /\ phase' = "sync"
      /\ UNCHANGED <<remote, clone, files, calls, indexing, faults, killed, left>>
  BY DEF Lock
<1>5. JobInv'
  BY <1>3, <1>4, ConstantsAssumption DEF TypeInv, JobInv, calls
<1> QED
  BY <1>3, <1>4, <1>5, ConstantsAssumption DEF TypeInv, TypeOK, clone, files, calls, indexing

LEMMA StartWriteType == ASSUME TypeInv, NEW w \in Calls, StartWrite(w) PROVE TypeInv'
BY LockType DEF StartWrite

LEMMA OtherPushType ==
  ASSUME TypeInv, NEW e \in Others, NEW d \in Docs, OtherPush(e, d)
  PROVE  TypeInv'
<1>1. PICK c \in {remote.content[d] \cup {e}, {}} :
        remote' = [ids |-> remote.ids \cup {e}, content |-> [remote.content EXCEPT ![d] = c]]
  BY DEF OtherPush
<1>2. c \in Content
  BY <1>1 DEF TypeInv, TypeOK, Tip, Tree, Content, Edits
<1>3. remote' \in Tip
  BY <1>1, <1>2 DEF TypeInv, TypeOK, Tip, Tree, Edits
<1>4. UNCHANGED <<clone, files, phase, job, calls, indexing, faults, killed, left>>
  BY DEF OtherPush
<1> QED
  BY <1>3, <1>4 DEF TypeInv, TypeOK, JobInv, clone, files, calls, indexing

LEMMA AskType ==
  ASSUME TypeInv, NEW w \in Calls, NEW kind \in Kinds, NEW d \in Docs, Ask(w, kind, d)
  PROVE  TypeInv'
<1> DEFINE request == [kind |-> kind, doc |-> d,
                       seen |-> IF kind = "create" THEN {} ELSE tree[d]]
<1>1. request \in Request
  BY DEF Request, TypeInv, TypeOK, Tree, Content
<1>2. ask' = [ask EXCEPT ![w] = request] /\ outcome' = [outcome EXCEPT ![w] = "asked"]
  BY DEF Ask
<1> HIDE DEF request
<1>3. ask' \in [Calls -> Request \cup {None}]
  BY <1>1, <1>2 DEF TypeInv, TypeOK
<1>4. outcome' \in [Calls -> {"none", "asked", "saved", "refused", "undone", "failed",
                            "unknown"}]
  BY <1>2 DEF TypeInv, TypeOK
<1>5. UNCHANGED <<remote, clone, files, phase, job, blind, indexing, faults, killed, left>>
  BY DEF Ask
<1>6. \A v \in Calls : outcome'[v] # "none" => ask'[v] \in Request
  BY <1>1, <1>2 DEF TypeInv, TypeOK, JobInv
<1>7. job'.call \in Calls => outcome'[job'.call] = "asked"
  BY <1>2, <1>5 DEF TypeInv, TypeOK, JobInv
<1>8. JobInv'
  BY <1>5, <1>6, <1>7 DEF TypeInv, JobInv, clone
<1> QED
  BY <1>3, <1>4, <1>5, <1>8 DEF TypeInv, TypeOK, clone, files, indexing

LEMMA IndexDocType == ASSUME TypeInv, NEW d \in Docs, IndexDoc(d) PROVE TypeInv'
<1>1. indexed' \in Tree
  BY DEF IndexDoc, TypeInv, TypeOK, Tree
<1>2. /\ marked' \subseteq Docs /\ unmarked' \subseteq Docs /\ peeked' \subseteq Docs
      /\ UNCHANGED <<remote, clone, files, phase, job, calls, pulled, faults, killed, left>>
  BY DEF IndexDoc, TypeInv, TypeOK
<1> QED
  BY <1>1, <1>2 DEF TypeInv, TypeOK, JobInv, clone, files, calls

LEMMA StartPullType == TypeInv /\ StartPull => TypeInv'
BY LockType, ConstantsAssumption DEF StartPull

LEMMA CrashType == TypeInv /\ Crash => TypeInv'
<1> SUFFICES ASSUME TypeInv, Crash PROVE TypeInv'
  OBVIOUS
<1>1. /\ phase' = "down" /\ job' = NoJob /\ pulled' = {} /\ marked' = {}
      /\ UNCHANGED <<remote, clone, tree, index, ask, blind, indexed, unmarked, peeked, killed,
                     left>>
  BY DEF Crash
<1>2. stale' \in BOOLEAN
  BY DEF Crash, UsesIndex, TypeInv, TypeOK
<1>3. outcome' = [w \in Calls |-> IF outcome[w] = "asked" THEN "unknown" ELSE outcome[w]]
  BY DEF Crash
<1>4. outcome' \in [Calls -> {"none", "asked", "saved", "refused", "undone", "failed",
                            "unknown"}]
  BY <1>3 DEF TypeInv, TypeOK
<1>5. faults' \in 0 .. MaxFaults
  BY ConstantsAssumption DEF Crash, Strike, TypeInv, TypeOK
<1>6. job' \in Job /\ job'.call = None /\ job'.why = "sync"
  BY <1>1, NoJobType DEF NoJob
<1>7. \A w \in Calls : outcome'[w] # "none" => ask'[w] \in Request
  BY <1>1, <1>3 DEF TypeInv, JobInv
<1>8. JobInv'
  BY <1>1, <1>6, <1>7, ConstantsAssumption DEF JobInv
<1> QED
  BY <1>1, <1>2, <1>4, <1>5, <1>6, <1>8 DEF TypeInv, TypeOK, clone

LEMMA RecoverType == TypeInv /\ Recover => TypeInv'
<1> SUFFICES ASSUME TypeInv, Recover PROVE TypeInv'
  OBVIOUS
<1>1. branch.content \in Tree
  BY DEF TypeInv, TypeOK, Branch
<1>2. tree' \in Tree /\ index' \in Tree
  BY <1>1, CheckoutType DEF Recover, TypeInv, TypeOK
<1>3. Mark(FirstReconcile) /\ FirstReconcile \in SUBSET Docs
  BY DEF Recover, FirstReconcile
<1>4. /\ marked' \subseteq Docs /\ unmarked' \subseteq Docs /\ peeked' \subseteq Docs
      /\ UNCHANGED <<pulled, indexed>>
  BY <1>3, MarkType
<1>5. left' \subseteq Docs
  BY DEF Recover, TypeInv, TypeOK
<1>6. /\ phase = "down" /\ phase' = "free" /\ stale' = FALSE /\ rebase' = None
      /\ UNCHANGED <<remote, fetched, branch, parked, job, calls, faults, killed>>
  BY DEF Recover
<1>7. JobInv'
  BY <1>6 DEF TypeInv, JobInv, calls
<1> QED
  BY <1>2, <1>4, <1>5, <1>6, <1>7 DEF TypeInv, TypeOK, calls

LEMMA StutterType == TypeInv /\ UNCHANGED vars => TypeInv'
BY DEF TypeInv, TypeOK, JobInv, vars, clone, files, calls, indexing

LEMMA NextType == TypeInv /\ [Next]_vars => TypeInv'
BY OtherPushType, AskType, StartWriteType, IndexDocType, StartPullType, SyncFetchType,
   FastForwardType, PullEndsType, SyncEndsType, MarkPulledType, RebaseStartsType,
   SkipPushedType, PickType, PickConflictsType, RebaseEndsType, AbortRebaseType,
   RebaseRefusedType, RebaseKilledType, RebaseKilledLateType, ParkType, WriteFileType,
   RefuseType,
   WriteFailsType, AddType, GitCommitType, CommitFailsType, RollBackType, PushFetchType,
   DiffType, PushType, PushRejectedType, PendingType, DropOwnCommitType, CrashType,
   RecoverType, StutterType
   DEF Next, Sync, Rebase, Write, Publish

\* The clone, the remote, the holder's local variables and the bookkeeping of the
\* index keep their types, whatever fails and whoever pushes.
THEOREM TypeCorrect == Spec => []TypeOK
<1>1. Init => TypeInv
  BY InitType
<1>2. TypeInv /\ [Next]_vars => TypeInv'
  BY NextType
<1>3. TypeInv => TypeOK
  BY DEF TypeInv
<1> QED
  BY <1>1, <1>2, <1>3, PTL DEF Spec

-----------------------------------------------------------------------------
(***************************************************************************)
(* The clone stays clean.                                                  *)
(***************************************************************************)
\* A checkout leaves nothing behind where the working tree holds no untracked file.
LEMMA CheckoutClean ==
  ASSUME NEW content, Checkout(content), NEW d \in Docs, index[d] = {} => tree[d] = {}
  PROVE  tree'[d] = content[d] /\ index'[d] = content[d]
BY DEF Checkout

\* A step from one settled phase to another that leaves the files and the branch alone.
LEMMA QuietStep ==
  ASSUME CleanInv, phase \notin Unsettled, phase' \notin Unsettled, left \subseteq left',
         UNCHANGED <<branch, rebase, tree, index, stale>>
  PROVE  CleanInv'
BY DEF CleanInv, Unsettled, Writing, Same

\* A step to a settled phase that leaves every file as the branch has it.
LEMMA SettledStep ==
  ASSUME phase' \notin Unsettled, ~stale' => rebase' = None,
         ~stale' => \A d \in Docs \ left' : Same(d)'
  PROVE  CleanInv'
BY DEF CleanInv, Unsettled, Writing, Same

\* A checkout of what the branch is at afterwards, by a holder who finds no untracked
\* file in a place where the clone should be clean.
LEMMA CheckoutStep ==
  ASSUME phase' \notin Unsettled, rebase' = None, Checkout(branch'.content), left' = left,
         ~stale' => \A d \in Docs \ left : index[d] = {} => tree[d] = {}
  PROVE  CleanInv'
<1>1. ASSUME ~stale', NEW d \in Docs \ left'
      PROVE  Same(d)'
  BY <1>1, CheckoutClean DEF Same
<1> QED
  BY <1>1, SettledStep

LEMMA SettledFiles ==
  ASSUME CleanInv, ~stale, phase \notin {"down"} \cup Writing
  PROVE  \A d \in Docs \ left : index[d] = {} => tree[d] = {}
BY DEF CleanInv, Unsettled, Writing, Same

LEMMA SyncFetchClean == CleanInv /\ SyncFetch => CleanInv'
BY QuietStep DEF SyncFetch, EndPull, Unsettled, Writing, files

LEMMA FastForwardClean == CleanInv /\ FastForward => CleanInv'
<1> SUFFICES ASSUME CleanInv, FastForward PROVE CleanInv'
  OBVIOUS
<1>1. CASE UNCHANGED <<branch, files>>
  BY <1>1, QuietStep DEF FastForward, Unsettled, Writing, files
<1>2. CASE /\ ~Contained /\ CanFastForward /\ Checkout(fetched.content) /\ UNCHANGED stale
           /\ branch' = [ids |-> fetched.ids, content |-> fetched.content, own |-> <<>>]
  <2>1. /\ phase = "integrate" /\ phase' \notin Unsettled /\ left' = left
        /\ Checkout(branch'.content)
    BY <1>2 DEF FastForward, Unsettled, Writing
  <2>2. rebase' = None
    BY <1>2 DEF FastForward, CanFastForward
  <2>3. ~stale' => \A d \in Docs \ left : index[d] = {} => tree[d] = {}
    BY <1>2, <2>1, SettledFiles DEF Writing
  <2> QED
    BY <2>1, <2>2, <2>3, CheckoutStep
<1> QED
  BY <1>1, <1>2 DEF FastForward

LEMMA RebaseStartsClean == CleanInv /\ RebaseStarts => CleanInv'
<1> SUFFICES ASSUME CleanInv, RebaseStarts PROVE CleanInv'
  OBVIOUS
<1>1. phase \in {"integrate", "rebase"} /\ ~stale /\ left' = left
  BY DEF RebaseStarts, AtRebase
<1>2. CASE Contained
  BY <1>1, <1>2, QuietStep DEF RebaseStarts, Unsettled, Writing, files
<1>3. CASE ~Contained
  <2>1. /\ rebase'.tip.content = fetched.content /\ Checkout(fetched.content)
        /\ phase' = "pick"
    BY <1>3 DEF RebaseStarts
  <2>2. \A d \in Docs \ left : index[d] = {} => tree[d] = {}
    BY <1>1, SettledFiles DEF Writing
  <2>3. \A d \in Docs \ left' : /\ tree'[d] = rebase'.tip.content[d]
                                /\ index'[d] = rebase'.tip.content[d]
    BY <1>1, <2>1, <2>2, CheckoutClean
  <2> QED
    BY <2>1, <2>3 DEF CleanInv, Unsettled, Writing
<1> QED
  BY <1>2, <1>3

LEMMA SkipPushedClean == TypeInv /\ CleanInv /\ SkipPushed => CleanInv'
<1> SUFFICES ASSUME TypeInv, CleanInv, SkipPushed PROVE CleanInv'
  OBVIOUS
<1>1. rebase \in Rebasing
  BY DEF TypeInv, JobInv, SkipPushed
<1>2. rebase'.tip = rebase.tip
  BY <1>1 DEF SkipPushed, Rebasing
<1> QED
  BY <1>2 DEF SkipPushed, CleanInv, Unsettled, Writing, files

LEMMA PickClean == TypeInv /\ CleanInv /\ Pick => CleanInv'
<1> SUFFICES ASSUME TypeInv, CleanInv, Pick PROVE CleanInv'
  OBVIOUS
<1> DEFINE c == Head(rebase.todo)
           cur == rebase.tip.content[c.doc]
           new == Merge(c.from, cur, c.to)
           content == [rebase.tip.content EXCEPT ![c.doc] = new]
<1>1. rebase.tip.content \in Tree /\ c.doc \in Docs
  BY HeadCommit DEF Pick
<1>2. \A d \in Docs : rebase'.tip.content[d] = content[d]
  <2>1. CASE new = cur
    <3>1. rebase'.tip = rebase.tip
      BY <2>1 DEF Pick
    <3> QED
      BY <1>1, <2>1, <3>1 DEF Tree
  <2>2. CASE new # cur
    BY <2>2 DEF Pick
  <2> QED
    BY <2>1, <2>2
<1>3. Checkout(content) /\ phase = "pick" /\ phase' = "pick" /\ left' = left /\ stale' = stale
  BY DEF Pick
<1> HIDE DEF content
<1>4. ASSUME ~stale'
      PROVE  \A d \in Docs \ left' : /\ tree'[d] = rebase'.tip.content[d]
                                     /\ index'[d] = rebase'.tip.content[d]
  <2>1. \A d \in Docs \ left : index[d] = {} => tree[d] = {}
    BY <1>3, <1>4, SettledFiles DEF Writing
  <2> QED
    BY <1>2, <1>3, <2>1, CheckoutClean
<1> QED
  BY <1>3, <1>4 DEF CleanInv, Unsettled, Writing

LEMMA PickConflictsClean == TypeInv /\ CleanInv /\ PickConflicts => CleanInv'
<1> SUFFICES ASSUME TypeInv, CleanInv, PickConflicts PROVE CleanInv'
  OBVIOUS
<1> DEFINE c == Head(rebase.todo)
           both == rebase.tip.content[c.doc] \cup c.to
<1>1. /\ phase = "pick" /\ phase' = "stopped" /\ left' = left /\ stale' = stale
      /\ tree' = [tree EXCEPT ![c.doc] = both] /\ index' = [index EXCEPT ![c.doc] = both]
  BY DEF PickConflicts
<1>2. tree \in Tree /\ index \in Tree
  BY DEF TypeInv, TypeOK
<1> HIDE DEF both, c
<1>3. ASSUME ~stale', NEW d \in Docs \ left', index'[d] = {}
      PROVE  tree'[d] = {}
  <2>1. index[d] = {} => tree[d] = {}
    BY <1>1, <1>3, SettledFiles DEF Writing
  <2> QED
    BY <1>1, <1>2, <1>3, <2>1 DEF Tree
<1> QED
  BY <1>1, <1>3 DEF CleanInv, Unsettled, Writing

LEMMA RebaseEndsClean == CleanInv /\ RebaseEnds => CleanInv'
<1> SUFFICES ASSUME CleanInv, RebaseEnds PROVE CleanInv'
  OBVIOUS
<1>1. /\ phase = "pick" /\ phase' \notin Unsettled /\ rebase' = None
      /\ branch' = rebase.tip /\ UNCHANGED <<tree, index, stale, left>>
  BY DEF RebaseEnds, Unsettled, Writing, files
<1>2. ~stale' => \A d \in Docs \ left' : Same(d)'
  BY <1>1 DEF CleanInv, Same
<1> QED
  BY <1>1, <1>2, SettledStep

LEMMA AbortRebaseClean == CleanInv /\ AbortRebase => CleanInv'
<1> SUFFICES ASSUME CleanInv, AbortRebase PROVE CleanInv'
  OBVIOUS
<1>1. /\ phase = "stopped" /\ phase' \notin Unsettled /\ rebase' = None
      /\ Checkout(branch'.content) /\ left' = left /\ stale' = stale
  BY DEF AbortRebase, Unsettled, Writing
<1>2. ~stale => \A d \in Docs \ left : index[d] = {} => tree[d] = {}
  BY <1>1, SettledFiles DEF Writing
<1> QED
  BY <1>1, <1>2, CheckoutStep

LEMMA RebaseRefusedClean == CleanInv /\ RebaseRefused => CleanInv'
BY QuietStep
   DEF RebaseRefused, AtRebase, WithoutRebase, EndPull, Unsettled, Writing, clone, files

LEMMA RebaseKilledClean == CleanInv /\ RebaseKilled => CleanInv'
<1> SUFFICES ASSUME CleanInv, RebaseKilled PROVE CleanInv'
  OBVIOUS
<1>1. phase = "pick" /\ phase' \notin Unsettled /\ branch' = branch /\ left' = left
  BY DEF RebaseKilled, WithoutRebase, EndPull, Unsettled, Writing
<1>2. CASE rebase' = None /\ Checkout(branch.content) /\ UNCHANGED stale
  <2>1. ~stale => \A d \in Docs \ left : index[d] = {} => tree[d] = {}
    BY <1>1, SettledFiles DEF Writing
  <2> QED
    BY <1>1, <1>2, <2>1, CheckoutStep
<1>3. CASE stale' = TRUE
  BY <1>1, <1>3, SettledStep
<1> QED
  BY <1>2, <1>3 DEF RebaseKilled

\* A rebase that was killed when it had ended.
LEMMA RebaseKilledLateClean == CleanInv /\ RebaseKilledLate => CleanInv'
<1> SUFFICES ASSUME CleanInv, RebaseKilledLate PROVE CleanInv'
  OBVIOUS
<1>1. /\ phase = "pick" /\ phase' \notin Unsettled /\ rebase' = None
      /\ branch' = rebase.tip /\ UNCHANGED <<tree, index, stale, left>>
  BY DEF RebaseKilledLate, EndPull, Unsettled, Writing, files
<1>2. ~stale' => \A d \in Docs \ left' : Same(d)'
  BY <1>1 DEF CleanInv, Same
<1> QED
  BY <1>1, <1>2, SettledStep

LEMMA ParkClean == CleanInv /\ Park => CleanInv'
<1> SUFFICES ASSUME CleanInv, Park PROVE CleanInv'
  OBVIOUS
<1>1. /\ phase = "park" /\ phase' \notin Unsettled /\ left' = left
      /\ rebase' = rebase /\ stale' = stale
  BY DEF Park, WithoutRebase, EndPull, Unsettled, Writing
<1>2. CASE /\ branch' = [ids |-> fetched.ids, content |-> fetched.content, own |-> <<>>]
           /\ Checkout(fetched.content)
  <2>1. CASE ~stale
    <3>1. rebase' = None
      BY <1>1, <2>1 DEF CleanInv
    <3>2. \A d \in Docs \ left : index[d] = {} => tree[d] = {}
      BY <1>1, <2>1, SettledFiles DEF Writing
    <3>3. Checkout(branch'.content)
      BY <1>2
    <3> QED
      BY <1>1, <3>1, <3>2, <3>3, CheckoutStep
  <2>2. CASE stale
    BY <1>1, <2>2, SettledStep
  <2> QED
    BY <2>1, <2>2 DEF CleanInv
<1>3. CASE UNCHANGED <<branch, tree, index>>
  BY <1>1, <1>3, QuietStep DEF Unsettled, Writing
<1> QED
  BY <1>2, <1>3 DEF Park

LEMMA PullEndsClean == CleanInv /\ PullEnds => CleanInv'
BY QuietStep DEF PullEnds, EndPull, Unsettled, Writing, clone, files

LEMMA SyncEndsClean == CleanInv /\ SyncEnds => CleanInv'
BY QuietStep DEF SyncEnds, Return, Unsettled, Writing, clone, files

LEMMA LockClean == ASSUME CleanInv, NEW holder, Lock(holder) PROVE CleanInv'
BY QuietStep DEF Lock, Unsettled, Writing, clone, files

\* An edit of the working tree touches the call's own document alone.
LEMMA WriteFileClean == TypeInv /\ CleanInv /\ WriteFile => CleanInv'
<1> SUFFICES ASSUME TypeInv, CleanInv, WriteFile PROVE CleanInv'
  OBVIOUS
<1>1. PICK new \in Applied(ask[job.call].kind, Seen, Current, job.call) :
        tree' = [tree EXCEPT ![Doc] = new]
  BY DEF WriteFile
<1>2. /\ phase = "apply" /\ phase' = "add"
      /\ UNCHANGED <<branch, rebase, index, stale, job, ask, left>>
  BY DEF WriteFile, clone, calls
<1>3. Doc' = Doc
  BY <1>2 DEF Doc
<1>4. tree \in Tree
  BY DEF TypeInv, TypeOK
<1>5. ASSUME ~stale', NEW d \in Docs \ left'
      PROVE  /\ d # Doc => Same(d)'
             /\ d = Doc /\ ask[job.call].kind = "create" => branch.content[d] = {}
             /\ d = Doc => index[d] = branch.content[d]
  <2>1. Same(d)
    BY <1>2, <1>5 DEF CleanInv, Unsettled, Writing
  <2>2. d # Doc => tree'[d] = tree[d]
    BY <1>1, <1>4 DEF Tree
  <2>3. ask[job.call].kind = "create" => Current = {}
    BY <1>1 DEF Applied
  <2> QED
    BY <1>2, <2>1, <2>2, <2>3 DEF Same, Current
<1>6. ~stale' => rebase' = None
  BY <1>2 DEF CleanInv
<1> QED
  BY <1>2, <1>3, <1>5, <1>6 DEF CleanInv, Unsettled, Writing

LEMMA RefuseClean == CleanInv /\ Refuse => CleanInv'
BY QuietStep DEF Refuse, Return, Unsettled, Writing, clone, files

LEMMA WriteFailsClean == TypeInv /\ CleanInv /\ WriteFails => CleanInv'
<1> SUFFICES ASSUME TypeInv, CleanInv, WriteFails PROVE CleanInv'
  OBVIOUS
<1>1. /\ phase = "apply" /\ phase' \notin Unsettled
      /\ UNCHANGED <<branch, rebase, index, stale>>
  BY DEF WriteFails, Return, Unsettled, Writing, clone
<1>2. CASE UNCHANGED <<tree, left>>
  BY <1>1, <1>2, QuietStep DEF Unsettled, Writing
<1>3. CASE left' = left \cup {Doc} /\ tree' = [tree EXCEPT ![Doc] = {job.call}]
  <2>1. tree \in Tree
    BY DEF TypeInv, TypeOK
  <2>2. ASSUME ~stale', NEW d \in Docs \ left'
        PROVE  Same(d)'
    BY <1>1, <1>3, <2>1, <2>2 DEF CleanInv, Unsettled, Writing, Same, Tree
  <2> QED
    BY <1>1, <2>2, SettledStep DEF CleanInv, Unsettled, Writing
<1> QED
  BY <1>2, <1>3 DEF WriteFails

LEMMA AddClean == TypeInv /\ CleanInv /\ Add => CleanInv'
<1> SUFFICES ASSUME TypeInv, CleanInv, Add PROVE CleanInv'
  OBVIOUS
<1>1. /\ phase = "add" /\ UNCHANGED <<branch, rebase, tree, stale, job, ask, left>>
      /\ Doc' = Doc
  BY DEF Add, clone, calls, Doc
<1>2. index \in Tree /\ Doc \in Docs
  BY CallInHand DEF Add, TypeInv, TypeOK
<1>3. CASE ~stale /\ index' = [index EXCEPT ![Doc] = tree[Doc]] /\ phase' = "commit"
  BY <1>1, <1>2, <1>3 DEF CleanInv, Unsettled, Writing, Same, Tree
<1>4. CASE phase' = "rollback" /\ UNCHANGED index
  BY <1>1, <1>4 DEF CleanInv, Unsettled, Writing, Same
<1> QED
  BY <1>3, <1>4 DEF Add

LEMMA GitCommitClean == TypeInv /\ CleanInv /\ GitCommit => CleanInv'
<1> SUFFICES ASSUME TypeInv, CleanInv, GitCommit PROVE CleanInv'
  OBVIOUS
<1>1. /\ phase = "commit" /\ phase' = "fetch" /\ branch' = Committed
      /\ UNCHANGED <<rebase, tree, index, stale, left>>
  BY DEF GitCommit, files
<1>2. branch.content \in Tree
  BY DEF TypeInv, TypeOK, Branch
<1>3. branch'.content = [branch.content EXCEPT ![Doc] = tree[Doc]]
  BY <1>1 DEF Committed
<1>4. ASSUME ~stale', NEW d \in Docs \ left'
      PROVE  Same(d)'
  BY <1>1, <1>2, <1>3, <1>4 DEF CleanInv, Unsettled, Writing, Same, Tree
<1> QED
  BY <1>1, <1>4, SettledStep DEF CleanInv, Unsettled, Writing

LEMMA CommitFailsClean == TypeInv /\ CleanInv /\ CommitFails => CleanInv'
<1> SUFFICES ASSUME TypeInv, CleanInv, CommitFails PROVE CleanInv'
  OBVIOUS
<1>1. /\ phase = "commit" /\ phase' = "rollback"
      /\ UNCHANGED <<rebase, tree, index, job, ask>> /\ Doc' = Doc
  BY DEF CommitFails, calls, Doc
<1>2. ~stale
  BY <1>1 DEF CleanInv
<1>3. CASE UNCHANGED <<branch, left>>
  BY <1>1, <1>2, <1>3 DEF CleanInv, Unsettled, Writing, Same
<1>4. CASE branch' \in {branch, Committed} /\ left' = left \cup {Doc}
  <2>1. branch.content \in Tree
    BY DEF TypeInv, TypeOK, Branch
  <2>2. \A d \in Docs : d # Doc => branch'.content[d] = branch.content[d]
    BY <1>4, <2>1 DEF Committed, Tree
  <2> QED
    BY <1>1, <1>2, <1>4, <2>2 DEF CleanInv, Unsettled, Writing, Same
<1> QED
  BY <1>3, <1>4 DEF CommitFails

LEMMA RollBackClean == TypeInv /\ CleanInv /\ RollBack => CleanInv'
<1> SUFFICES ASSUME TypeInv, CleanInv, RollBack PROVE CleanInv'
  OBVIOUS
<1>1. /\ phase = "rollback" /\ phase' \notin Unsettled
      /\ UNCHANGED <<branch, rebase, stale>>
  BY DEF RollBack, Return, Unsettled, Writing, clone
<1>2. tree \in Tree /\ index \in Tree
  BY DEF TypeInv, TypeOK
<1>3. CASE tree' = RestoredTree /\ index' = RestoredIndex /\ UNCHANGED left
  <2>1. ASSUME ~stale', NEW d \in Docs \ left'
        PROVE  Same(d)'
    <3>1. CASE d = Doc
      BY <1>1, <1>2, <1>3, <2>1, <3>1
         DEF CleanInv, Unsettled, Writing, Same, RestoredTree, RestoredIndex, Tree
    <3>2. CASE d # Doc
      BY <1>1, <1>2, <1>3, <2>1, <3>2
         DEF CleanInv, Unsettled, Writing, Same, RestoredTree, RestoredIndex, Tree
    <3> QED
      BY <3>1, <3>2
  <2> QED
    BY <1>1, <2>1, SettledStep DEF CleanInv, Unsettled, Writing
<1>4. CASE /\ left' = left \cup {Doc} /\ UNCHANGED index
           /\ tree' = IF ask[job.call].kind = "create" THEN RestoredTree ELSE tree
  <2>1. ASSUME ~stale', NEW d \in Docs \ left'
        PROVE  Same(d)'
    BY <1>1, <1>2, <1>4, <2>1 DEF CleanInv, Unsettled, Writing, Same, RestoredTree, Tree
  <2> QED
    BY <1>1, <2>1, SettledStep DEF CleanInv, Unsettled, Writing
<1> QED
  BY <1>3, <1>4 DEF RollBack

LEMMA PushFetchClean == CleanInv /\ PushFetch => CleanInv'
BY QuietStep DEF PushFetch, Unsettled, Writing, files

LEMMA DiffClean == CleanInv /\ Diff => CleanInv'
BY QuietStep DEF Diff, Unsettled, Writing, clone, files

LEMMA PushClean == CleanInv /\ (Push \/ PushRejected \/ Pending) => CleanInv'
BY QuietStep DEF Push, PushRejected, Pending, Return, Unsettled, Writing, clone, files

LEMMA DropOwnCommitClean == CleanInv /\ DropOwnCommit => CleanInv'
<1> SUFFICES ASSUME CleanInv, DropOwnCommit PROVE CleanInv'
  OBVIOUS
<1>1. /\ phase = "drop" /\ phase' \notin Unsettled
      /\ UNCHANGED <<rebase, stale, left>>
  BY DEF DropOwnCommit, Unsettled, Writing
<1>2. CASE branch' = DropTarget /\ Checkout(DropTarget.content)
  <2>1. CASE ~stale
    <3>1. rebase' = None
      BY <1>1, <2>1 DEF CleanInv
    <3>2. \A d \in Docs \ left : index[d] = {} => tree[d] = {}
      BY <1>1, <2>1, SettledFiles DEF Writing
    <3> QED
      BY <1>1, <1>2, <3>1, <3>2, CheckoutStep
  <2>2. CASE stale
    BY <1>1, <2>2, SettledStep
  <2> QED
    BY <2>1, <2>2
<1>3. CASE UNCHANGED <<branch, tree, index>>
  BY <1>1, <1>3, QuietStep DEF Unsettled, Writing
<1> QED
  BY <1>2, <1>3 DEF DropOwnCommit

LEMMA CrashClean == Crash => CleanInv'
BY DEF Crash, CleanInv, Unsettled, Writing

\* What a restart finds different from the branch counts as left by the crash.
LEMMA RecoverClean == Recover => CleanInv'
<1> SUFFICES ASSUME Recover PROVE CleanInv'
  OBVIOUS
<1>1. /\ phase' \notin Unsettled /\ rebase' = None /\ branch' = branch
      /\ left' = left \cup {d \in Docs : {tree'[d], index'[d]} # {branch.content[d]}}
  BY DEF Recover, Unsettled, Writing
<1>2. \A d \in Docs \ left' : Same(d)'
  BY <1>1 DEF Same
<1> QED
  BY <1>1, <1>2, SettledStep

LEMMA OutsideClean ==
  ASSUME TypeInv, CleanInv,
         \/ UNCHANGED vars \/ MarkPulled
         \/ \E e \in Others, d \in Docs : OtherPush(e, d)
         \/ \E w \in Calls, kind \in Kinds, d \in Docs : Ask(w, kind, d)
         \/ \E d \in Docs : IndexDoc(d)
  PROVE  CleanInv'
<1>1. UNCHANGED <<branch, rebase, tree, index, stale, phase, job, left>>
  BY DEF vars, MarkPulled, OtherPush, Ask, IndexDoc, clone, files
<1>2. phase \in Writing => ask'[job.call] = ask[job.call]
  BY DEF vars, MarkPulled, OtherPush, Ask, IndexDoc, clone, files, calls, Writing, TypeInv,
         TypeOK, JobInv
<1>3. phase \in Writing => Doc' = Doc
  BY <1>1, <1>2 DEF Doc
<1> QED
  BY <1>1, <1>2, <1>3 DEF CleanInv, Unsettled, Writing, Same

LEMMA NextClean == TypeInv /\ CleanInv /\ [Next]_vars => CleanInv'
BY OutsideClean, LockClean, SyncFetchClean, FastForwardClean, PullEndsClean, SyncEndsClean,
   RebaseStartsClean, SkipPushedClean, PickClean, PickConflictsClean, RebaseEndsClean,
   AbortRebaseClean, RebaseRefusedClean, RebaseKilledClean, RebaseKilledLateClean,
   ParkClean, WriteFileClean,
   RefuseClean, WriteFailsClean, AddClean, GitCommitClean, CommitFailsClean, RollBackClean,
   PushFetchClean, DiffClean, PushClean, DropOwnCommitClean, CrashClean, RecoverClean
   DEF Next, Sync, Rebase, Write, Publish, StartWrite, StartPull

\* Nobody who takes GIT_LOCK finds a rebase in progress, or a difference between the
\* working tree, git's index and the branch that no fault has left.
THEOREM CloneStaysClean == Spec => []CloneIsClean
<1>1. Init => TypeInv /\ CleanInv
  <2>1. Init => CleanInv
    BY DEF Init, CleanInv, Unsettled, Writing, Same
  <2> QED
    BY <2>1, InitType
<1>2. TypeInv /\ CleanInv /\ [Next]_vars => (TypeInv /\ CleanInv)'
  BY NextType, NextClean
<1>3. TypeInv /\ CleanInv => CloneIsClean
  BY DEF CleanInv, CloneIsClean, Unsettled, Writing, Same
<1> QED
  BY <1>1, <1>2, <1>3, PTL DEF Spec

-----------------------------------------------------------------------------
(***************************************************************************)
(* Where the commits of a call are.                                        *)
(***************************************************************************)
LEMMA OwnIdsOfAppend ==
  ASSUME NEW s \in Seq(Commit), NEW c \in Commit
  PROVE  OwnIds(Append(s, c)) = OwnIds(s) \cup {c.id}
<1>1. /\ DOMAIN s = 1 .. Len(s) /\ Len(s) \in Nat
      /\ DOMAIN Append(s, c) = 1 .. Len(s) + 1
      /\ \A i \in 1 .. Len(s) : Append(s, c)[i] = s[i]
      /\ Append(s, c)[Len(s) + 1] = c
  BY AppendProperties, LenProperties
<1>2. 1 .. Len(s) + 1 = (1 .. Len(s)) \cup {Len(s) + 1}
  BY <1>1
<1> QED
  BY <1>1, <1>2 DEF OwnIds

LEMMA OwnIdsOfTail ==
  ASSUME NEW s \in Seq(Commit), s # <<>>
  PROVE  OwnIds(Tail(s)) \subseteq OwnIds(s) /\ Head(s).id \in OwnIds(s)
<1>1. /\ DOMAIN s = 1 .. Len(s) /\ Len(s) \in Nat \ {0}
      /\ DOMAIN Tail(s) = 1 .. Len(s) - 1
      /\ \A i \in 1 .. Len(s) - 1 : Tail(s)[i] = s[i + 1]
  BY HeadTailProperties, LenProperties, EmptySeq
<1>2. Head(s) = s[1]
  OBVIOUS
<1>3. \A i \in 1 .. Len(s) - 1 : i + 1 \in DOMAIN s
  BY <1>1
<1>4. 1 \in DOMAIN s
  BY <1>1
<1> QED
  BY <1>1, <1>2, <1>3, <1>4 DEF OwnIds

LEMMA NoIds == BranchIds(NoBranch) = {} /\ BranchIds(NoJob.pre) = {}
BY DEF BranchIds, OwnIds, NoBranch, NoJob

\* A tip brings no commits that its ids do not name.
LEMMA TipIds ==
  ASSUME NEW t \in Tip
  PROVE  BranchIds([ids |-> t.ids, content |-> t.content, own |-> <<>>]) = t.ids
BY DEF BranchIds, OwnIds

\* A step of the holder of the lock that answers nobody: commits only move among the
\* places there are, and none held by the call in hand gets loose.
LEMMA MoveStep ==
  ASSUME CommitInv, outcome' = outcome, killed' = killed,
         \/ job'.call = job.call /\ job'.why = job.why
         \/ job.why = "sync"
         \/ Held' \subseteq Loose,
         Loose' \subseteq Loose \cup (IF job.why = "sync" THEN Held ELSE {}),
         Held' \subseteq Loose \cup Held
  PROVE  CommitInv'
<1> SUFFICES ASSUME NEW w \in Calls \ killed
             PROVE  /\ w \in Loose' => Accepted(w)'
                    /\ w \in Held' => (Accepted(w) \/ InHand(w))'
  BY DEF CommitInv
<1>1. Accepted(w)' = Accepted(w)
  BY DEF Accepted
<1>2. (w \in Loose => Accepted(w)) /\ (w \in Held => Accepted(w) \/ InHand(w))
  BY DEF CommitInv
<1>3. job.why = "sync" => ~InHand(w)
  BY DEF InHand
<1>4. job'.call = job.call /\ job'.why = job.why => InHand(w)' = InHand(w)
  BY DEF InHand
<1> QED
  BY <1>1, <1>2, <1>3, <1>4

\* A step that answers the call in hand.
LEMMA ReturnStep ==
  ASSUME TypeInv, CommitInv, job.call \in Calls, killed' = killed,
         NEW result, Return(result), job.why = "sync" \/ result = "saved",
         Loose' \subseteq Loose \cup (IF result = "saved" THEN Held ELSE {}),
         Held' \subseteq Held
  PROVE  CommitInv'
<1> SUFFICES ASSUME NEW w \in Calls \ killed
             PROVE  w \in Loose' \cup Held' => Accepted(w)'
  BY DEF CommitInv
<1>1. outcome' = [outcome EXCEPT ![job.call] = result]
  BY DEF Return
<1>2. (w \in Loose => Accepted(w)) /\ (w \in Held => Accepted(w) \/ InHand(w))
  BY DEF CommitInv
<1>3. outcome[job.call] = "asked"
  BY DEF TypeInv, JobInv
<1>4. outcome'[job.call] = result /\ \A v \in Calls : v # job.call => outcome'[v] = outcome[v]
  BY <1>1 DEF TypeInv, TypeOK
<1>5. CASE w = job.call
  BY <1>2, <1>3, <1>4, <1>5 DEF Accepted, InHand
<1>6. CASE w # job.call
  BY <1>2, <1>4, <1>6 DEF Accepted, InHand
<1> QED
  BY <1>5, <1>6

\* Where an answer is given, and what becomes of the calls in any step.
LEMMA AnswerStep ==
  ASSUME TypeInv, [Next]_vars
  PROVE  \/ UNCHANGED <<outcome, ask, killed>>
         \/ \E w \in Calls, kind \in Kinds, d \in Docs : Ask(w, kind, d)
         \/ /\ job.call \in Calls /\ UNCHANGED <<ask, killed>>
            /\ \E result \in {"saved", "refused", "undone", "failed"} :
                 Return(result) /\ (result = "saved" => Push \/ Pending)
         \/ Crash
         \/ CommitFails /\ UNCHANGED <<outcome, ask>> /\ killed' = killed \cup {job.call}
<1>1. CASE Push \/ Pending
  BY <1>1, CallInHand DEF Push, Pending, TypeInv, JobInv
<1>2. CASE Refuse \/ WriteFails \/ RollBack
  BY <1>2, CallInHand DEF Refuse, WriteFails, RollBack, TypeInv, JobInv
<1>3. CASE SyncEnds
  <2>1. job.call \in Calls
    BY <1>3 DEF SyncEnds, Pulling, TypeInv, TypeOK, JobInv, NoJob, Job
  <2> QED
    BY <1>3, <2>1 DEF SyncEnds
<1>4. CASE CommitFails
  BY <1>4 DEF CommitFails, calls
<1>5. CASE UNCHANGED vars \/ MarkPulled \/ \E d \in Docs : IndexDoc(d)
  BY <1>5 DEF vars, calls, MarkPulled, IndexDoc
<1>6. CASE \E e \in Others, d \in Docs : OtherPush(e, d)
  BY <1>6 DEF OtherPush, calls
<1>7. CASE StartPull \/ \E w \in Calls : StartWrite(w)
  BY <1>7 DEF StartPull, StartWrite, Lock, calls
<1>8. CASE SyncFetch \/ FastForward \/ PullEnds
  BY <1>8 DEF SyncFetch, FastForward, PullEnds, EndPull, calls
<1>9. CASE RebaseStarts \/ SkipPushed \/ Pick \/ PickConflicts \/ RebaseEnds \/ AbortRebase
  BY <1>9 DEF RebaseStarts, SkipPushed, Pick, PickConflicts, RebaseEnds, AbortRebase, calls
<1>10. CASE RebaseRefused \/ RebaseKilled \/ RebaseKilledLate \/ Park
  BY <1>10 DEF RebaseRefused, RebaseKilled, RebaseKilledLate, Park, WithoutRebase, EndPull,
               calls
<1>11. CASE WriteFile \/ Add \/ GitCommit \/ PushFetch \/ Diff \/ PushRejected \/ DropOwnCommit
  BY <1>11 DEF WriteFile, Add, GitCommit, PushFetch, Diff, PushRejected, DropOwnCommit, calls
<1>12. CASE Recover
  BY <1>12 DEF Recover, calls
<1> QED
  BY <1>1, <1>2, <1>3, <1>4, <1>5, <1>6, <1>7, <1>8, <1>9, <1>10, <1>11, <1>12
     DEF Next, Sync, Rebase, Write, Publish

LEMMA OtherPushCommits ==
  ASSUME CommitInv, NEW e \in Others, NEW d \in Docs, OtherPush(e, d)
  PROVE  CommitInv'
<1>1. remote'.ids = remote.ids \cup {e}
  BY DEF OtherPush
<1>2. UNCHANGED <<fetched, branch, rebase, parked, job, outcome, killed>>
  BY DEF OtherPush, clone, calls
<1>3. Loose' = Loose \cup {e} /\ Held' = Held
  BY <1>1, <1>2 DEF Loose, Held, RebaseIds
<1> QED
  BY <1>2, <1>3, ConstantsAssumption DEF CommitInv, Accepted, InHand

LEMMA AskCommits ==
  ASSUME CommitInv, NEW w \in Calls, NEW kind \in Kinds, NEW d \in Docs, Ask(w, kind, d)
  PROVE  CommitInv'
<1>1. /\ outcome[w] = "none" /\ outcome' = [outcome EXCEPT ![w] = "asked"]
      /\ UNCHANGED <<remote, fetched, branch, rebase, parked, job, killed>>
  BY DEF Ask, clone
<1>2. Loose' = Loose /\ Held' = Held
  BY <1>1 DEF Loose, Held, RebaseIds
<1>3. \A v \in Calls : Accepted(v) => Accepted(v)'
  BY <1>1 DEF Accepted
<1> QED
  BY <1>1, <1>2, <1>3 DEF CommitInv, InHand

\* Steps that leave the commits where they are.
LEMMA NoMoveStep ==
  ASSUME CommitInv, UNCHANGED <<remote, fetched, branch, rebase, parked, outcome, killed>>,
         \/ job' = job
         \/ job.why = "sync" /\ job'.pre \in {job.pre, NoBranch}
         \/ job'.call = job.call /\ job'.why = job.why /\ job'.pre = job.pre
  PROVE  CommitInv'
<1>1. Held' = Held
  BY DEF Held, RebaseIds
<1>2. Loose' \subseteq Loose
  BY NoIds DEF Loose
<1> QED
  BY <1>1, <1>2, MoveStep

LEMMA IndexingCommits ==
  ASSUME CommitInv,
         \/ UNCHANGED vars \/ MarkPulled \/ PushRejected \/ WriteFile \/ Add
         \/ \E d \in Docs : IndexDoc(d)
         \/ Recover /\ rebase = None
  PROVE  CommitInv'
BY NoMoveStep
   DEF vars, MarkPulled, PushRejected, WriteFile, Add, IndexDoc, Recover, clone, calls

LEMMA RecoverCommits == CommitInv /\ Recover => CommitInv'
<1> SUFFICES ASSUME CommitInv, Recover PROVE CommitInv'
  OBVIOUS
<1>1. /\ rebase' = None
      /\ UNCHANGED <<remote, fetched, branch, parked, job, outcome, killed>>
  BY DEF Recover, calls
<1>2. Loose' = Loose /\ Held' \subseteq Held
  BY <1>1 DEF Loose, Held, RebaseIds
<1> QED
  BY <1>1, <1>2, MoveStep

LEMMA LockCommits == ASSUME TypeInv, CommitInv, NEW holder, Lock(holder) PROVE CommitInv'
<1>1. /\ job = NoJob
      /\ job' = [NoJob EXCEPT !.call = holder, !.attempt = 1, !.since = branch.content]
  BY DEF Lock, TypeInv, JobInv
<1>2. job.why = "sync" /\ job'.pre = NoBranch
  BY <1>1 DEF NoJob
<1> QED
  BY <1>2, NoMoveStep DEF Lock, clone, calls

LEMMA SyncFetchCommits == TypeInv /\ CommitInv /\ SyncFetch => CommitInv'
<1> SUFFICES ASSUME TypeInv, CommitInv, SyncFetch PROVE CommitInv'
  OBVIOUS
<1>1. /\ UNCHANGED <<remote, branch, rebase, parked, outcome, killed>>
      /\ job' = job \/ job' = NoJob
      /\ fetched' = remote \/ fetched' = fetched
  BY DEF SyncFetch, EndPull
<1>2. job.why = "sync"
  BY DEF SyncFetch, TypeInv, JobInv
<1>3. Held' = Held
  BY <1>1 DEF Held, RebaseIds
<1>4. Loose' \subseteq Loose
  BY <1>1, NoIds DEF Loose
<1> QED
  BY <1>1, <1>2, <1>3, <1>4, MoveStep

\* The branch goes to FETCH_HEAD, or stays.
LEMMA FastForwardCommits == TypeInv /\ CommitInv /\ FastForward => CommitInv'
<1> SUFFICES ASSUME TypeInv, CommitInv, FastForward PROVE CommitInv'
  OBVIOUS
<1>1. /\ UNCHANGED <<remote, fetched, rebase, parked, job, outcome, killed>>
      /\ \/ branch' = branch
         \/ branch' = [ids |-> fetched.ids, content |-> fetched.content, own |-> <<>>]
  BY DEF FastForward, calls
<1>2. BranchIds(branch') \subseteq BranchIds(branch) \cup fetched.ids
  BY <1>1, TipIds DEF TypeInv, TypeOK
<1>3. Loose' = Loose /\ Held' \subseteq Loose \cup Held
  BY <1>1, <1>2 DEF Loose, Held, RebaseIds
<1> QED
  BY <1>1, <1>3, MoveStep

LEMMA RebaseStartsCommits == TypeInv /\ CommitInv /\ RebaseStarts => CommitInv'
<1> SUFFICES ASSUME TypeInv, CommitInv, RebaseStarts PROVE CommitInv'
  OBVIOUS
<1>1. UNCHANGED <<remote, fetched, branch, parked, job, outcome, killed>>
  BY DEF RebaseStarts, calls
<1>2. CASE rebase' = rebase
  BY <1>1, <1>2, NoMoveStep
<1>3. CASE rebase' = [tip |-> [ids |-> fetched.ids, content |-> fetched.content,
                              own |-> <<>>],
                      todo |-> branch.own]
  <2>1. /\ BranchIds(rebase'.tip) = fetched.ids
        /\ OwnIds(rebase'.todo) \subseteq BranchIds(branch)
    BY <1>3, TipIds DEF TypeInv, TypeOK, BranchIds
  <2>2. Loose' = Loose /\ Held' \subseteq Loose \cup Held
    BY <1>1, <2>1 DEF Loose, Held, RebaseIds
  <2> QED
    BY <1>1, <2>2, MoveStep
<1> QED
  BY <1>2, <1>3 DEF RebaseStarts

LEMMA SkipPushedCommits == TypeInv /\ CommitInv /\ SkipPushed => CommitInv'
<1> SUFFICES ASSUME TypeInv, CommitInv, SkipPushed PROVE CommitInv'
  OBVIOUS
<1>1. UNCHANGED <<remote, fetched, branch, parked, job, outcome, killed>>
  BY DEF SkipPushed, calls
<1>2. rebase \in Rebasing /\ rebase.todo # <<>> /\ rebase # None /\ rebase' \in Rebasing
  <2>1. rebase \in Rebasing /\ rebase.todo # <<>> /\ Tail(rebase.todo) \in Seq(Commit)
    BY HeadCommit DEF SkipPushed
  <2>2. rebase' \in Rebasing
    BY <2>1 DEF SkipPushed, Rebasing
  <2> QED
    BY <2>1, <2>2, ConstantsAssumption DEF Rebasing
<1>3. rebase'.tip = rebase.tip /\ rebase'.todo = Tail(rebase.todo)
  BY <1>2 DEF SkipPushed, Rebasing
<1>4. OwnIds(rebase'.todo) \subseteq OwnIds(rebase.todo)
  BY <1>2, <1>3, OwnIdsOfTail DEF Rebasing
<1>5. Loose' = Loose /\ Held' \subseteq Held
  BY <1>1, <1>2, <1>3, <1>4 DEF Loose, Held, RebaseIds
<1> QED
  BY <1>1, <1>5, MoveStep

\* A commit that is replayed keeps its name.
LEMMA PickCommits == TypeInv /\ CommitInv /\ Pick => CommitInv'
<1> SUFFICES ASSUME TypeInv, CommitInv, Pick PROVE CommitInv'
  OBVIOUS
<1> DEFINE c == Head(rebase.todo)
           cur == rebase.tip.content[c.doc]
           new == Merge(c.from, cur, c.to)
           content == [rebase.tip.content EXCEPT ![c.doc] = new]
           replayed == [c EXCEPT !.from = cur, !.to = new]
           own == Append(rebase.tip.own, replayed)
           tip == [ids |-> rebase.tip.ids \cup {c.id}, content |-> content, own |-> own]
<1>1. /\ rebase \in Rebasing /\ rebase.todo # <<>> /\ c \in Commit
      /\ rebase.todo \in Seq(Commit) /\ rebase.tip.own \in Seq(Commit)
      /\ cur \in Content /\ new \in Content
  <2>1. /\ rebase \in Rebasing /\ rebase.todo # <<>> /\ c \in Commit /\ cur \in Content
    BY HeadCommit DEF Pick
  <2>2. new \in Content
    BY <2>1, MergeType DEF Commit
  <2> QED
    BY <2>1, <2>2 DEF Rebasing, Branch
<1>2. replayed \in Commit /\ replayed.id = c.id
  BY <1>1 DEF Commit
<1>3. OwnIds(own) = OwnIds(rebase.tip.own) \cup {c.id}
  BY <1>1, <1>2, OwnIdsOfAppend
<1>4. BranchIds(tip) = BranchIds(rebase.tip) \cup {c.id}
  BY <1>3 DEF BranchIds
<1>5. OwnIds(Tail(rebase.todo)) \subseteq OwnIds(rebase.todo) /\ c.id \in OwnIds(rebase.todo)
  BY <1>1, OwnIdsOfTail
<1>6. rebase' = [tip |-> IF new = cur THEN rebase.tip ELSE tip, todo |-> Tail(rebase.todo)]
      /\ UNCHANGED <<remote, fetched, branch, parked, job, outcome, killed>>
  BY DEF Pick, calls
<1> HIDE DEF tip, c, new, cur
<1>7. rebase'.tip \in {rebase.tip, tip} /\ rebase'.todo = Tail(rebase.todo)
  BY <1>6
<1>8. rebase # None
  BY <1>1, ConstantsAssumption DEF Rebasing
<1>9. BranchIds(rebase'.tip) \cup OwnIds(rebase'.todo) \subseteq RebaseIds
  BY <1>4, <1>5, <1>7, <1>8 DEF RebaseIds
<1>10. Loose' = Loose /\ Held' \subseteq Held
  BY <1>6, <1>9 DEF Loose, Held, RebaseIds
<1> QED
  BY <1>6, <1>10, MoveStep

LEMMA PickConflictsCommits == CommitInv /\ PickConflicts => CommitInv'
BY NoMoveStep DEF PickConflicts, clone, calls

LEMMA RebaseEndsCommits == TypeInv /\ CommitInv /\ RebaseEnds => CommitInv'
<1> SUFFICES ASSUME TypeInv, CommitInv, RebaseEnds PROVE CommitInv'
  OBVIOUS
<1>1. /\ branch' = rebase.tip /\ rebase' = None
      /\ UNCHANGED <<remote, fetched, parked, job, outcome, killed>>
  BY DEF RebaseEnds, calls
<1>2. rebase # None
  BY ConstantsAssumption DEF RebaseEnds, TypeInv, JobInv, Rebasing
<1>3. Loose' = Loose /\ Held' \subseteq Held
  BY <1>1, <1>2 DEF Loose, Held, RebaseIds
<1> QED
  BY <1>1, <1>3, MoveStep

LEMMA AbortRebaseCommits == CommitInv /\ AbortRebase => CommitInv'
<1> SUFFICES ASSUME CommitInv, AbortRebase PROVE CommitInv'
  OBVIOUS
<1>1. /\ rebase' = None
      /\ UNCHANGED <<remote, fetched, branch, parked, job, outcome, killed>>
  BY DEF AbortRebase, calls
<1>2. Loose' = Loose /\ Held' \subseteq Held
  BY <1>1 DEF Loose, Held, RebaseIds
<1> QED
  BY <1>1, <1>2, MoveStep

LEMMA RebaseKilledLateCommits == TypeInv /\ CommitInv /\ RebaseKilledLate => CommitInv'
<1> SUFFICES ASSUME TypeInv, CommitInv, RebaseKilledLate PROVE CommitInv'
  OBVIOUS
<1>1. /\ branch' = rebase.tip /\ rebase' = None /\ UNCHANGED <<remote, fetched, outcome, killed>>
      /\ \/ job' \in {job, [job EXCEPT !.old = rebase.tip.content]}
         \/ job' = NoJob /\ job.why = "sync"
  BY DEF RebaseKilledLate, EndPull
<1>2. rebase # None /\ job \in Job
  BY ConstantsAssumption DEF RebaseKilledLate, TypeInv, TypeOK, JobInv, Rebasing
<1>3. \/ job' = NoJob /\ job.why = "sync"
      \/ job'.call = job.call /\ job'.why = job.why /\ job'.pre = job.pre
  BY <1>1, <1>2 DEF Job
<1>4. Held' \subseteq Held
  BY <1>1, <1>2 DEF Held, RebaseIds
<1>5. Loose' \subseteq Loose
  BY <1>1, <1>3, NoIds DEF Loose
<1> QED
  BY <1>1, <1>3, <1>4, <1>5, MoveStep

\* A rebase that fails leaves its commits on the branch; the job ends, or goes on.
LEMMA RebaseFailsCommits ==
  ASSUME TypeInv, CommitInv, RebaseRefused \/ RebaseKilled
  PROVE  CommitInv'
<1>1. /\ UNCHANGED <<remote, fetched, branch, parked, outcome, killed>>
      /\ rebase' \in {rebase, None}
      /\ job' = job \/ (job.why = "sync" /\ job' = NoJob)
  BY DEF RebaseRefused, RebaseKilled, WithoutRebase, EndPull, clone
<1>2. Held' \subseteq Held
  BY <1>1 DEF Held, RebaseIds
<1>3. Loose' \subseteq Loose
  BY <1>1, NoIds DEF Loose
<1> QED
  BY <1>1, <1>2, <1>3, MoveStep

LEMMA ParkCommits == TypeInv /\ CommitInv /\ Park => CommitInv'
<1> SUFFICES ASSUME TypeInv, CommitInv, Park PROVE CommitInv'
  OBVIOUS
<1>1. job.why = "sync"
  BY DEF Park, TypeInv, JobInv
<1>2. /\ UNCHANGED <<remote, fetched, rebase, outcome, killed>> /\ job' \in {job, NoJob}
      /\ \/ branch' = branch
         \/ branch' = [ids |-> fetched.ids, content |-> fetched.content, own |-> <<>>]
  BY DEF Park, WithoutRebase, EndPull
<1>3. BranchIds(branch') \subseteq BranchIds(branch) \cup fetched.ids
  BY <1>2, TipIds DEF TypeInv, TypeOK
<1>4. Held' \subseteq Held \cup Loose
  BY <1>2, <1>3 DEF Held, Loose, RebaseIds
<1>5. Loose' \subseteq Loose
  BY <1>2, NoIds DEF Loose
<1> QED
  BY <1>1, <1>2, <1>4, <1>5, MoveStep

LEMMA PullEndsCommits == TypeInv /\ CommitInv /\ PullEnds => CommitInv'
<1> SUFFICES ASSUME TypeInv, CommitInv, PullEnds PROVE CommitInv'
  OBVIOUS
<1>1. job.why = "sync" /\ job'.pre = NoBranch
  BY DEF PullEnds, EndPull, TypeInv, JobInv, NoJob
<1> QED
  BY <1>1, NoMoveStep DEF PullEnds, EndPull, clone

\* An answer before the commit: the call holds nothing.
LEMMA AnswerCommits ==
  ASSUME TypeInv, CommitInv, job.call \in Calls, job.why = "sync", NEW result, Return(result),
         UNCHANGED <<remote, clone, killed>>
  PROVE  CommitInv'
<1>1. job' = NoJob
  BY DEF Return
<1>2. Held' = Held
  BY DEF clone, Held, RebaseIds
<1>3. Loose' \subseteq Loose
  BY <1>1, NoIds DEF clone, Loose
<1> QED
  BY <1>2, <1>3, ReturnStep

LEMMA SyncEndsCommits == TypeInv /\ CommitInv /\ SyncEnds => CommitInv'
<1> SUFFICES ASSUME TypeInv, CommitInv, SyncEnds PROVE CommitInv'
  OBVIOUS
<1>1. /\ job \in Job /\ job.call \in Calls /\ job.why = "sync"
      /\ UNCHANGED <<remote, clone, killed>>
  BY DEF SyncEnds, Pulling, TypeInv, TypeOK, JobInv, NoJob, Job
<1>2. CASE job' = [job EXCEPT !.since = branch.content] /\ UNCHANGED outcome
  <2>1. job'.pre = job.pre
    BY <1>1, <1>2 DEF Job
  <2> QED
    BY <1>1, <1>2, <2>1, NoMoveStep DEF clone
<1>3. CASE Return("refused")
  BY <1>1, <1>3, AnswerCommits
<1> QED
  BY <1>2, <1>3 DEF SyncEnds

LEMMA RefuseCommits ==
  ASSUME TypeInv, CommitInv, Refuse \/ WriteFails \/ RollBack
  PROVE  CommitInv'
<1>1. job.call \in Calls /\ job.why = "sync"
  BY CallInHand DEF Refuse, WriteFails, RollBack, TypeInv, JobInv
<1> QED
  BY <1>1, AnswerCommits DEF Refuse, WriteFails, RollBack

LEMMA CommittedIds ==
  ASSUME TypeInv, job.call \in Calls
  PROVE  BranchIds(Committed) = BranchIds(branch) \cup {job.call}
<1> DEFINE c == [id |-> job.call, doc |-> Doc, from |-> branch.content[Doc], to |-> tree[Doc]]
<1>1. c \in Commit /\ branch.own \in Seq(Commit)
  BY CommittedType DEF Commit, TypeInv, TypeOK, Branch
<1>2. OwnIds(Append(branch.own, c)) = OwnIds(branch.own) \cup {job.call}
  BY <1>1, OwnIdsOfAppend
<1> QED
  BY <1>2 DEF Committed, BranchIds

\* What drop_own_commit goes back to is the branch as it was before the commit.
LEMMA GitCommitCommits == TypeInv /\ CommitInv /\ GitCommit => CommitInv'
<1> SUFFICES ASSUME TypeInv, CommitInv, GitCommit PROVE CommitInv'
  OBVIOUS
<1>1. job.call \in Calls /\ job \in Job /\ job.why = "sync"
  BY CallInHand DEF GitCommit, TypeInv, JobInv
<1>2. PICK headless \in BOOLEAN :
        job' = [job EXCEPT !.headless = headless, !.pre = branch, !.old = Committed.content,
                           !.why = "push"]
  BY DEF GitCommit
<1>3. job'.call = job.call /\ job'.why = "push" /\ job'.pre = branch
  BY <1>1, <1>2 DEF Job
<1>4. /\ branch' = Committed
      /\ UNCHANGED <<remote, fetched, rebase, parked, outcome, killed>>
  BY DEF GitCommit, calls
<1>5. Held' = Held \cup {job.call}
  BY <1>1, <1>4, CommittedIds DEF Held, RebaseIds
<1>6. Loose' \subseteq Loose \cup Held
  BY <1>3, <1>4 DEF Loose, Held
<1>7. \A w \in Calls : Accepted(w)' = Accepted(w) /\ ~InHand(w)
  BY <1>1, <1>4 DEF Accepted, InHand
<1>8. \A w \in Calls : w = job.call => InHand(w)'
  BY <1>3 DEF InHand
<1> QED
  BY <1>4, <1>5, <1>6, <1>7, <1>8 DEF CommitInv

LEMMA CommitFailsCommits == TypeInv /\ CommitInv /\ CommitFails => CommitInv'
<1> SUFFICES ASSUME TypeInv, CommitInv, CommitFails PROVE CommitInv'
  OBVIOUS
<1>1. UNCHANGED <<remote, fetched, rebase, parked, job, outcome>> /\ job.call \in Calls
  BY CallInHand DEF CommitFails, calls
<1>2. CASE UNCHANGED <<branch, killed>>
  BY <1>1, <1>2, NoMoveStep
<1>3. CASE branch' \in {branch, Committed} /\ killed' = killed \cup {job.call}
  <2>1. Loose' = Loose /\ Held' \subseteq Held \cup {job.call}
    BY <1>1, <1>3, CommittedIds DEF Loose, Held, RebaseIds
  <2> QED
    BY <1>1, <1>3, <2>1 DEF CommitInv, Accepted, InHand
<1> QED
  BY <1>2, <1>3 DEF CommitFails

LEMMA PushFetchCommits == CommitInv /\ PushFetch => CommitInv'
<1> SUFFICES ASSUME CommitInv, PushFetch PROVE CommitInv'
  OBVIOUS
<1>1. /\ UNCHANGED <<remote, branch, rebase, parked, job, outcome, killed>>
      /\ fetched' \in {remote, fetched}
  BY DEF PushFetch, calls
<1>2. Loose' \subseteq Loose /\ Held' = Held
  BY <1>1 DEF Loose, Held, RebaseIds
<1> QED
  BY <1>1, <1>2, MoveStep

LEMMA DiffCommits == TypeInv /\ CommitInv /\ Diff => CommitInv'
<1> SUFFICES ASSUME TypeInv, CommitInv, Diff PROVE CommitInv'
  OBVIOUS
<1>1. job \in Job /\ (job' = job \/ job' = [job EXCEPT !.old = branch.content])
  BY DEF Diff, TypeInv, TypeOK
<1>2. job'.call = job.call /\ job'.why = job.why /\ job'.pre = job.pre
  BY <1>1 DEF Job
<1> QED
  BY <1>2, NoMoveStep DEF Diff, clone, calls

\* What gets to the remote is what the branch holds, and the call in hand is told so.
LEMMA PushCommits == ASSUME TypeInv, CommitInv, Push \/ Pending PROVE CommitInv'
<1>1. job.call \in Calls
  BY CallInHand DEF Push, Pending, TypeInv, JobInv
<1>2. /\ UNCHANGED <<fetched, branch, rebase, parked, killed>> /\ Return("saved")
      /\ remote' \in {remote, Pushed} /\ job' = NoJob
  BY DEF Push, Pending, Return, clone
<1>3. remote'.ids \subseteq remote.ids \cup BranchIds(branch)
  BY <1>2 DEF Pushed, BranchIds
<1>4. Held' = Held
  BY <1>2 DEF Held, RebaseIds
<1>5. Loose' \subseteq Loose \cup Held
  BY <1>2, <1>3, NoIds DEF Loose, Held
<1> QED
  BY <1>1, <1>2, <1>4, <1>5, ReturnStep

LEMMA DropOwnCommitCommits == TypeInv /\ CommitInv /\ DropOwnCommit => CommitInv'
<1> SUFFICES ASSUME TypeInv, CommitInv, DropOwnCommit PROVE CommitInv'
  OBVIOUS
<1>1. /\ UNCHANGED <<remote, fetched, rebase, outcome, killed>>
      /\ rebase = None /\ job \in Job /\ fetched \in Tip
  BY DEF DropOwnCommit, calls, TypeInv, TypeOK, JobInv
<1>2. CASE /\ branch' = DropTarget
           /\ job' = [job EXCEPT !.attempt = job.attempt + 1, !.why = "sync",
                                 !.headless = FALSE, !.pre = NoBranch, !.old = NoTree]
  <2>1. job'.pre = NoBranch
    BY <1>1, <1>2 DEF Job
  <2>2. Held' = BranchIds(DropTarget)
    BY <1>1, <1>2 DEF Held, RebaseIds
  <2>3. Held' \subseteq Loose
    BY <1>1, <2>2, TipIds DEF Loose, DropTarget
  <2>4. Loose' \subseteq Loose
    BY <1>1, <2>1, NoIds DEF Loose
  <2> QED
    BY <1>1, <2>3, <2>4, MoveStep
<1>3. CASE UNCHANGED <<branch, job>>
  <2>1. Loose' = Loose /\ Held' = Held
    BY <1>1, <1>3 DEF Loose, Held, RebaseIds
  <2> QED
    BY <1>1, <1>3, <2>1, MoveStep
<1> QED
  BY <1>2, <1>3 DEF DropOwnCommit

\* A call cut off by a crash is told nothing.
LEMMA CrashCommits == TypeInv /\ CommitInv /\ Crash => CommitInv'
<1> SUFFICES ASSUME TypeInv, CommitInv, Crash PROVE CommitInv'
  OBVIOUS
<1>1. /\ UNCHANGED <<remote, fetched, branch, rebase, parked, killed>> /\ job' = NoJob
      /\ outcome' = [w \in Calls |-> IF outcome[w] = "asked" THEN "unknown" ELSE outcome[w]]
  BY DEF Crash, clone
<1>2. Held' = Held
  BY <1>1 DEF Held, RebaseIds
<1>3. Loose' \subseteq Loose
  BY <1>1, NoIds DEF Loose
<1>4. \A w \in Calls : Accepted(w) \/ InHand(w) => Accepted(w)'
  BY <1>1 DEF Accepted, InHand, TypeInv, JobInv
<1> QED
  BY <1>1, <1>2, <1>3, <1>4 DEF CommitInv

LEMMA NextCommits == TypeInv /\ CommitInv /\ [Next]_vars => CommitInv'
BY OtherPushCommits, AskCommits, IndexingCommits, RecoverCommits, LockCommits,
   SyncFetchCommits, FastForwardCommits, RebaseStartsCommits, SkipPushedCommits, PickCommits,
   PickConflictsCommits, RebaseEndsCommits, AbortRebaseCommits, RebaseKilledLateCommits,
   RebaseFailsCommits, ParkCommits, PullEndsCommits, SyncEndsCommits, RefuseCommits,
   GitCommitCommits,
   CommitFailsCommits, PushFetchCommits, DiffCommits, PushCommits, DropOwnCommitCommits,
   CrashCommits
   DEF Next, Sync, Rebase, Write, Publish, StartWrite, StartPull

LEMMA NextHead == TypeInv /\ HeadInv /\ [Next]_vars => HeadInv'
<1> SUFFICES ASSUME TypeInv, HeadInv, [Next]_vars PROVE HeadInv'
  OBVIOUS
<1>1. job \in Job /\ ~NoJob.headless
  BY DEF TypeInv, TypeOK, NoJob
<1>2. CASE GitCommit
  <2>1. PICK headless \in BOOLEAN :
          /\ blind' = IF headless THEN blind \cup {job.call} ELSE blind
          /\ job' = [job EXCEPT !.headless = headless, !.pre = branch,
                                !.old = Committed.content, !.why = "push"]
    BY <1>2 DEF GitCommit
  <2>2. job'.call = job.call /\ job'.why = "push" /\ job'.headless = headless
    BY <1>1, <2>1 DEF Job
  <2> QED
    BY <2>1, <2>2 DEF HeadInv
<1>3. ASSUME ~GitCommit
      PROVE  /\ blind' = blind
             /\ \/ job' = job \/ ~job'.headless
                \/ job'.call = job.call /\ job'.why = job.why /\ job'.headless = job.headless
  <2>1. CASE SyncFetch \/ FastForward \/ PullEnds \/ SyncEnds \/ MarkPulled
    BY <1>1, <2>1 DEF SyncFetch, FastForward, PullEnds, SyncEnds, MarkPulled, EndPull,
                      Return, calls, Job
  <2>2. CASE RebaseStarts \/ SkipPushed \/ Pick \/ PickConflicts \/ RebaseEnds
             \/ RebaseRefused \/ RebaseKilled \/ Park
    BY <1>1, <2>2 DEF RebaseStarts, SkipPushed, Pick, PickConflicts, RebaseEnds,
                      RebaseRefused, RebaseKilled, Park, WithoutRebase, EndPull, calls
  <2>3. CASE AbortRebase \/ RebaseKilledLate
    BY <1>1, <2>3 DEF AbortRebase, RebaseKilledLate, EndPull, calls, Job
  <2>4. CASE WriteFile \/ Refuse \/ WriteFails \/ Add \/ CommitFails \/ RollBack
    BY <1>1, <2>4 DEF WriteFile, Refuse, WriteFails, Add, CommitFails, RollBack, Return, calls
  <2>5. CASE Publish
    BY <1>1, <2>5 DEF Publish, PushFetch, Diff, Push, PushRejected, Pending, DropOwnCommit,
                      Return, calls, Job
  <2>6. CASE StartPull \/ \E w \in Calls : StartWrite(w)
    BY <1>1, <2>6 DEF StartPull, StartWrite, Lock, calls, NoJob
  <2>7. CASE \/ UNCHANGED vars \/ Crash \/ Recover
             \/ \E e \in Others, d \in Docs : OtherPush(e, d)
             \/ \E w \in Calls, kind \in Kinds, d \in Docs : Ask(w, kind, d)
             \/ \E d \in Docs : IndexDoc(d)
    BY <1>1, <2>7 DEF vars, Crash, Recover, OtherPush, Ask, IndexDoc, calls
  <2> QED
    BY <1>3, <2>1, <2>2, <2>3, <2>4, <2>5, <2>6, <2>7 DEF Next, Sync, Rebase, Write
<1>4. ASSUME ~GitCommit, job'.headless
      PROVE  job'.why = "push" /\ job'.call \in blind'
  <2>1. job.headless /\ job'.call = job.call /\ job'.why = job.why
    BY <1>3, <1>4
  <2> QED
    BY <1>3, <1>4, <2>1 DEF HeadInv
<1> QED
  BY <1>2, <1>4 DEF HeadInv

\* What was accepted stays accepted, and what was killed stays so.
LEMMA AcceptedStays ==
  ASSUME TypeInv, [Next]_vars
  PROVE  killed \subseteq killed' /\ \A w \in Calls : Accepted(w) => Accepted(w)'
<1> USE DEF Accepted
<1>1. CASE UNCHANGED <<outcome, ask, killed>> \/ CommitFails
  BY <1>1 DEF CommitFails, calls
<1>2. CASE \E w \in Calls, kind \in Kinds, d \in Docs : Ask(w, kind, d)
  BY <1>2 DEF Ask, TypeInv, TypeOK
<1>3. CASE /\ job.call \in Calls /\ UNCHANGED <<ask, killed>>
           /\ \E result \in {"saved", "refused", "undone", "failed"} : Return(result)
  BY <1>3 DEF Return, TypeInv, TypeOK, JobInv
<1>4. CASE Crash
  BY <1>4 DEF Crash
<1> QED
  BY <1>1, <1>2, <1>3, <1>4, AnswerStep

\* Only reset_to_fetch_head saves a branch under a recovery ref.
LEMMA ShelvingStep ==
  ASSUME [Next]_vars
  PROVE  \/ parked' = parked
         \/ Park /\ parked' = parked \cup {branch}
         \/ DropOwnCommit /\ job.headless /\ parked' = parked \cup {branch}
<1>1. CASE Park
  BY <1>1 DEF Park, Unsynced
<1>2. CASE DropOwnCommit
  BY <1>2 DEF DropOwnCommit, DropSaves, Unsynced
<1>3. CASE Sync \/ Write
  BY <1>3 DEF Sync, SyncFetch, FastForward, PullEnds, SyncEnds, MarkPulled, Write, WriteFile,
              Refuse, WriteFails, Add, GitCommit, CommitFails, RollBack, clone
<1>4. CASE RebaseStarts \/ SkipPushed \/ Pick \/ PickConflicts \/ RebaseEnds \/ AbortRebase
           \/ RebaseRefused \/ RebaseKilled \/ RebaseKilledLate
  BY <1>4 DEF RebaseStarts, SkipPushed, Pick, PickConflicts, RebaseEnds, AbortRebase,
              RebaseRefused, RebaseKilled, RebaseKilledLate, clone
<1>5. CASE PushFetch \/ Diff \/ Push \/ PushRejected \/ Pending
  BY <1>5 DEF PushFetch, Diff, Push, PushRejected, Pending, clone
<1>6. CASE \/ UNCHANGED vars \/ Crash \/ Recover \/ StartPull
           \/ \E w \in Calls : StartWrite(w)
           \/ \E e \in Others, d \in Docs : OtherPush(e, d)
           \/ \E w \in Calls, kind \in Kinds, d \in Docs : Ask(w, kind, d)
           \/ \E d \in Docs : IndexDoc(d)
  BY <1>6 DEF vars, Crash, Recover, StartPull, StartWrite, Lock, OtherPush, Ask, IndexDoc,
              clone
<1> QED
  BY <1>1, <1>2, <1>3, <1>4, <1>5, <1>6 DEF Next, Rebase, Publish

LEMMA BlindStays == [Next]_vars => blind \subseteq blind'
<1> SUFFICES ASSUME [Next]_vars PROVE blind \subseteq blind'
  OBVIOUS
<1>1. CASE Sync \/ Rebase
  BY <1>1 DEF Sync, SyncFetch, FastForward, PullEnds, SyncEnds, MarkPulled, Rebase,
              RebaseStarts, SkipPushed, Pick, PickConflicts, RebaseEnds, AbortRebase,
              RebaseRefused, RebaseKilled, RebaseKilledLate, Park, calls
<1>2. CASE GitCommit
  BY <1>2 DEF GitCommit
<1>3. CASE WriteFile \/ Refuse \/ WriteFails \/ Add \/ CommitFails \/ RollBack \/ Publish
  BY <1>3 DEF WriteFile, Refuse, WriteFails, Add, CommitFails, RollBack, Publish, PushFetch,
              Diff, Push, PushRejected, Pending, DropOwnCommit, calls
<1>4. CASE \/ UNCHANGED vars \/ Crash \/ Recover \/ StartPull
           \/ \E w \in Calls : StartWrite(w)
           \/ \E e \in Others, d \in Docs : OtherPush(e, d)
           \/ \E w \in Calls, kind \in Kinds, d \in Docs : Ask(w, kind, d)
           \/ \E d \in Docs : IndexDoc(d)
  BY <1>4 DEF vars, Crash, Recover, StartPull, StartWrite, Lock, OtherPush, Ask, IndexDoc,
              calls
<1> QED
  BY <1>1, <1>2, <1>3, <1>4 DEF Next, Write

\* A sync saves a branch that holds nothing of the call in hand; drop_own_commit saves one
\* with the call's commit only where HEAD was not known before.
LEMMA NextShelved ==
  TypeInv /\ HeadInv /\ CommitInv /\ ShelvedInv /\ [Next]_vars => ShelvedInv'
<1> SUFFICES ASSUME TypeInv, HeadInv, CommitInv, ShelvedInv, [Next]_vars,
                    NEW w \in Calls \ killed, w \in Shelved'
             PROVE  Accepted(w) \/ w \in blind
  BY AcceptedStays, BlindStays DEF ShelvedInv
<1>1. w \in Shelved => Accepted(w) \/ w \in blind
  BY DEF ShelvedInv
<1>2. w \in BranchIds(branch) => Accepted(w) \/ InHand(w)
  BY DEF CommitInv, Held
<1>3. CASE parked' = parked
  BY <1>1, <1>3 DEF Shelved
<1>4. CASE parked' = parked \cup {branch} /\ Park
  <2>1. job.why = "sync"
    BY <1>4 DEF Park, TypeInv, JobInv
  <2> QED
    BY <1>1, <1>2, <1>4, <2>1 DEF Shelved, InHand
<1>5. CASE parked' = parked \cup {branch} /\ job.headless
  BY <1>1, <1>2, <1>5 DEF Shelved, InHand, HeadInv
<1> QED
  BY <1>3, <1>4, <1>5, ShelvingStep

\* A change that was refused or undone is on no branch, here or on the remote, unless its
\* git commit was killed; and under no recovery ref, unless it was made without knowing HEAD.
THEOREM RefusedLeavesNothing == Spec => []RefusedIsNowhere
<1> DEFINE IInv == TypeInv /\ HeadInv /\ CommitInv /\ ShelvedInv
<1>1. Init => IInv
  <2>1. ASSUME Init
        PROVE  Loose = {} /\ Held = {} /\ Shelved = {} /\ ~job.headless
    <3>1. Loose = {} /\ Held = {}
      <4>1. /\ remote.ids = {} /\ fetched = remote /\ job = NoJob /\ rebase = None
            /\ branch.ids = {} /\ branch.own = <<>>
        BY <2>1 DEF Init
      <4>2. BranchIds(branch) = {}
        BY <4>1 DEF BranchIds, OwnIds
      <4> QED
        BY <4>1, <4>2, NoIds DEF Loose, Held, RebaseIds
    <3>2. Shelved = {}
      BY <2>1 DEF Init, Shelved
    <3>3. ~job.headless
      BY <2>1 DEF Init, NoJob
    <3> QED
      BY <3>1, <3>2, <3>3
  <2> QED
    BY <2>1, InitType DEF CommitInv, HeadInv, ShelvedInv
<1>2. IInv /\ [Next]_vars => IInv'
  BY NextType, NextHead, NextCommits, NextShelved
<1>3. IInv => RefusedIsNowhere
  <2>1. ASSUME IInv, NEW w \in Calls \ killed,
               outcome[w] \in {"refused", "undone", "failed"}
        PROVE  w \notin Loose \cup Held /\ (w \notin blind => w \notin Shelved)
    BY <2>1 DEF TypeInv, JobInv, CommitInv, ShelvedInv, Accepted, InHand
  <2>2. /\ remote.ids \subseteq Loose /\ branch.ids \subseteq Held
        /\ UNION {b.ids : b \in parked} \subseteq Shelved
    BY DEF Loose, Held, Shelved, BranchIds
  <2> QED
    BY <2>1, <2>2 DEF RefusedIsNowhere
<1> QED
  BY <1>1, <1>2, <1>3, PTL DEF Spec

-----------------------------------------------------------------------------
(***************************************************************************)
(* The index follows the clone.                                            *)
(***************************************************************************)
\* Documents that are in the queue or on their way there, and those excused.
Queued == marked \cup pulled
Excused == left \cup unmarked \cup peeked

\* Before the holder of the lock has moved the branch.  A writer's sync may begin with a
\* branch that a dropped commit has moved, and ends by marking the difference.
BeforeMove ==
  \/ phase \in {"apply"} \cup Writing
  \/ phase \in {"sync", "integrate", "park", "pick", "stopped"} /\ Pulling

\* The index has what the branch had when the holder last marked a change.
KeepsUp ==
  \A d \in Docs \ Excused :
    d \in Queued \/ indexed[d] = IF phase = "free" THEN branch.content[d] ELSE job.since[d]

AtSince == BeforeMove => \A d \in Docs \ left : branch.content[d] = job.since[d]

\* What drop_own_commit returns to and what rebased_paths compares with are what the
\* holder last marked, but for the document of the call; a diff that failed forgets.
SinceCommit ==
  job.why = "push" => \A d \in Docs \ left :
    /\ job.pre.content[d] = job.since[d]
    /\ d # Doc => \/ job.old[d] = job.since[d]
                  \/ /\ phase = "pending" /\ job.old[d] = branch.content[d]
                     /\ d \in unmarked \cup peeked \cup Queued

FollowInv == ~stale /\ phase # "down" => KeepsUp /\ AtSince /\ SinceCommit

\* A step of the holder that marks nothing and keeps the lock.
LEMMA HoldStep ==
  ASSUME FollowInv, phase \notin {"free", "down"}, phase' # "free", ~stale' => ~stale,
         UNCHANGED indexing, left \subseteq left', job'.since = job.since,
         ~stale => AtSince', ~stale => SinceCommit'
  PROVE  FollowInv'
BY DEF FollowInv, KeepsUp, Queued, Excused, indexing

\* The part about the commit in hand, in a step that keeps what it speaks of.
LEMMA SameCommit ==
  ASSUME SinceCommit, phase # "pending",
         job'.why = "push" => /\ UNCHANGED <<ask, job>>
                              /\ left \subseteq left'
  PROVE  SinceCommit'
BY DEF SinceCommit, Doc

\* The holder lets go before it has moved the branch.
LEMMA LetGoStep ==
  ASSUME FollowInv, phase \notin {"free", "down"}, BeforeMove, phase' = "free", ~stale' => ~stale,
         job' = NoJob, branch' = branch, UNCHANGED indexing, left \subseteq left'
  PROVE  FollowInv'
<1>1. job'.why = "sync"
  BY DEF NoJob
<1>2. SinceCommit' /\ AtSince'
  BY <1>1 DEF SinceCommit, AtSince, BeforeMove, Writing
<1> QED
  BY <1>2 DEF FollowInv, KeepsUp, AtSince, Queued, Excused, indexing

LEMMA SyncFetchFollow == TypeInv /\ FollowInv /\ SyncFetch => FollowInv'
<1> SUFFICES ASSUME TypeInv, FollowInv, SyncFetch PROVE FollowInv'
  OBVIOUS
<1>1. /\ phase = "sync" /\ job.why = "sync"
      /\ UNCHANGED <<branch, stale, indexing, left>>
  BY DEF SyncFetch, TypeInv, JobInv, files
<1>2. CASE Pulling /\ EndPull
  BY <1>1, <1>2, LetGoStep DEF EndPull, BeforeMove
<1>3. CASE phase' \in {"integrate", "synced"} /\ UNCHANGED job
  <2>1. BeforeMove' => BeforeMove
    BY <1>1, <1>3 DEF BeforeMove, Writing, Pulling
  <2>2. ~stale => AtSince' /\ SinceCommit'
    BY <1>1, <1>3, <2>1 DEF FollowInv, AtSince, SinceCommit
  <2> QED
    BY <1>1, <1>3, <2>2, HoldStep
<1> QED
  BY <1>2, <1>3 DEF SyncFetch

LEMMA FastForwardFollow == TypeInv /\ FollowInv /\ FastForward => FollowInv'
<1> SUFFICES ASSUME TypeInv, FollowInv, FastForward PROVE FollowInv'
  OBVIOUS
<1>1. /\ phase = "integrate" /\ phase' = "synced" /\ job.why = "sync"
      /\ UNCHANGED <<stale, indexing, left, job>>
  BY DEF FastForward, TypeInv, JobInv, files
<1>2. AtSince' /\ SinceCommit'
  BY <1>1 DEF AtSince, BeforeMove, Writing, SinceCommit
<1> QED
  BY <1>1, <1>2, HoldStep

\* A step of a rebase that leaves the branch where it is.
LEMMA RebasingFollow ==
  ASSUME TypeInv, FollowInv,
         RebaseStarts \/ SkipPushed \/ Pick \/ PickConflicts \/ AbortRebase
  PROVE  FollowInv'
<1>1. /\ phase \in {"integrate", "rebase", "pick", "stopped"}
      /\ phase' \in {"diff", "pick", "stopped", "park", "drop"}
      /\ UNCHANGED <<branch, stale, indexing, left, job, ask>>
      /\ phase' \in {"diff", "drop"} => job.why = "push"
      /\ phase' = "park" => job.why = "sync" /\ phase = "stopped"
  <2>1. CASE RebaseStarts
    BY <2>1 DEF RebaseStarts, AtRebase, calls, files, TypeInv, JobInv
  <2>2. CASE SkipPushed \/ PickConflicts
    BY <2>2 DEF SkipPushed, PickConflicts, clone, calls, files
  <2>3. CASE Pick
    BY <2>3 DEF Pick, calls
  <2>4. CASE AbortRebase
    BY <2>4 DEF AbortRebase, calls, TypeInv, TypeOK, Job
  <2> QED
    BY <2>1, <2>2, <2>3, <2>4
<1>2. ASSUME ~stale
      PROVE  AtSince' /\ SinceCommit'
  <2>1. AtSince /\ SinceCommit
    BY <1>1, <1>2 DEF FollowInv
  <2>2. BeforeMove' => BeforeMove
    BY <1>1, ConstantsAssumption DEF BeforeMove, TypeInv, JobInv, Writing, Pulling
  <2> QED
    BY <1>1, <2>1, <2>2, SameCommit DEF AtSince
<1> QED
  BY <1>1, <1>2, HoldStep

LEMMA RebaseEndsFollow == TypeInv /\ FollowInv /\ RebaseEnds => FollowInv'
<1> SUFFICES ASSUME TypeInv, FollowInv, RebaseEnds PROVE FollowInv'
  OBVIOUS
<1>1. /\ phase = "pick" /\ phase' \in {"synced", "diff"}
      /\ UNCHANGED <<stale, indexing, left, job, ask>>
  BY DEF RebaseEnds, calls, files
<1>2. ~stale => AtSince' /\ SinceCommit'
  BY <1>1, SameCommit DEF FollowInv, AtSince, BeforeMove, Writing
<1> QED
  BY <1>1, <1>2, HoldStep

\* A rebase or a reset that fails before it has moved the branch.
LEMMA RebaseFailsFollow ==
  ASSUME TypeInv, FollowInv,
         RebaseRefused \/ RebaseKilled \/ (Park /\ WithoutRebase /\ UNCHANGED branch)
  PROVE  FollowInv'
<1>1. /\ phase \in {"integrate", "rebase", "pick", "park"} /\ WithoutRebase
      /\ UNCHANGED <<branch, indexing, left, ask>> /\ (~stale' => ~stale)
  BY DEF RebaseRefused, AtRebase, RebaseKilled, Park, clone, files
<1>2. CASE Pulling /\ job.why = "sync" /\ phase' = "free" /\ job' = NoJob
  <2>1. BeforeMove
    BY <1>1, <1>2 DEF BeforeMove, TypeInv, JobInv
  <2> QED
    BY <1>1, <1>2, <2>1, LetGoStep
<1>3. CASE phase' \in {"pending", "synced"} /\ UNCHANGED job
  <2>1. ~stale => AtSince' /\ SinceCommit'
    BY <1>1, <1>3, SameCommit DEF FollowInv, AtSince, BeforeMove, Writing
  <2> QED
    BY <1>1, <1>3, <2>1, HoldStep
<1> QED
  BY <1>1, <1>2, <1>3 DEF WithoutRebase, EndPull

\* A rebase that was killed when it had ended: nobody knows what it has brought in, but
\* the sync of a writer.
LEMMA RebaseKilledLateFollow == TypeInv /\ FollowInv /\ RebaseKilledLate => FollowInv'
<1> SUFFICES ASSUME TypeInv, FollowInv, RebaseKilledLate PROVE FollowInv'
  OBVIOUS
<1>1. /\ phase = "pick" /\ branch' = rebase.tip /\ job \in Job
      /\ UNCHANGED <<stale, left, ask, pulled, marked, indexed, peeked>>
  BY DEF RebaseKilledLate, files, TypeInv, TypeOK
<1>2. CASE phase' = "synced" /\ UNCHANGED <<job, unmarked>>
  <2>1. ~stale => AtSince' /\ SinceCommit'
    BY <1>1, <1>2, SameCommit DEF FollowInv, AtSince, BeforeMove, Writing
  <2> QED
    BY <1>1, <1>2, <2>1, HoldStep DEF indexing
<1>3. CASE /\ phase' = "free" /\ job' = NoJob
           /\ unmarked' = unmarked \cup {d \in Docs : job.since[d] # rebase.tip.content[d]}
  <2>1. job'.why = "sync"
    BY <1>3 DEF NoJob
  <2>2. AtSince' /\ SinceCommit'
    BY <1>3, <2>1 DEF AtSince, BeforeMove, Writing, SinceCommit
  <2>3. ~stale => KeepsUp'
    BY <1>1, <1>3 DEF FollowInv, KeepsUp, Queued, Excused
  <2> QED
    BY <1>1, <2>2, <2>3 DEF FollowInv
<1>4. CASE /\ phase' = "pending" /\ job' = [job EXCEPT !.old = rebase.tip.content]
           /\ unmarked' = unmarked \cup {d \in Docs : job.old[d] # rebase.tip.content[d]}
  <2>1. /\ job'.old = rebase.tip.content /\ job'.since = job.since /\ job'.pre = job.pre
        /\ job'.why = job.why /\ Doc' = Doc
    BY <1>1, <1>4 DEF Job, Doc
  <2>2. AtSince'
    BY <1>4 DEF AtSince, BeforeMove, Writing
  <2>3. ~stale => KeepsUp'
    BY <1>1, <1>4, <2>1 DEF FollowInv, KeepsUp, Queued, Excused
  <2>4. ~stale => SinceCommit'
    BY <1>1, <1>4, <2>1 DEF FollowInv, SinceCommit, Queued
  <2> QED
    BY <1>1, <1>4, <2>2, <2>3, <2>4 DEF FollowInv
<1> QED
  BY <1>2, <1>3, <1>4 DEF RebaseKilledLate, EndPull

LEMMA ParkFollow == TypeInv /\ FollowInv /\ Park => FollowInv'
<1> SUFFICES ASSUME TypeInv, FollowInv, Park PROVE FollowInv'
  OBVIOUS
<1>1. CASE WithoutRebase /\ UNCHANGED branch
  BY <1>1, RebaseFailsFollow
<1>2. CASE phase' = "synced" /\ UNCHANGED job
  <2>1. /\ phase = "park" /\ job.why = "sync" /\ UNCHANGED <<stale, indexing, left>>
    BY DEF Park, TypeInv, JobInv
  <2>2. AtSince' /\ SinceCommit'
    BY <1>2, <2>1 DEF AtSince, BeforeMove, Writing, SinceCommit
  <2> QED
    BY <1>2, <2>1, <2>2, HoldStep
<1> QED
  BY <1>1, <1>2 DEF Park

\* What a pull has changed is on its way to the queue, or left to the sweep.
LEMMA PullEndsFollow == TypeInv /\ FollowInv /\ PullEnds => FollowInv'
<1> SUFFICES ASSUME TypeInv, FollowInv, PullEnds PROVE FollowInv'
  OBVIOUS
<1>1. /\ phase = "synced" /\ phase' = "free" /\ job' = NoJob /\ job'.why = "sync"
      /\ UNCHANGED <<branch, stale, left, marked, indexed, peeked>>
      /\ \/ pulled' = pulled \cup ChangedSince(job.since) /\ unmarked' = unmarked
         \/ unmarked' = unmarked \cup ChangedSince(job.since) /\ pulled' = pulled
  BY DEF PullEnds, EndPull, clone, files, NoJob
<1>2. AtSince' /\ SinceCommit'
  BY <1>1 DEF AtSince, BeforeMove, Writing, SinceCommit
<1> QED
  BY <1>1, <1>2 DEF FollowInv, KeepsUp, Queued, Excused, ChangedSince

LEMMA SyncEndsFollow == TypeInv /\ FollowInv /\ SyncEnds => FollowInv'
<1> SUFFICES ASSUME TypeInv, FollowInv, SyncEnds PROVE FollowInv'
  OBVIOUS
<1>1. /\ phase = "synced" /\ UNCHANGED <<branch, stale, left>>
      /\ job.why = "sync" /\ job \in Job
  BY DEF SyncEnds, clone, files, TypeInv, TypeOK, JobInv
<1>2. PICK docs : Mark(docs) /\ ChangedSince(job.since) \subseteq docs
  BY DEF SyncEnds, ChangedSince
<1>3. /\ phase' \in {"apply", "free"} /\ job'.why = "sync"
      /\ phase' = "apply" => job'.since = branch.content
  BY <1>1 DEF SyncEnds, Return, NoJob, Job
<1>4. AtSince' /\ SinceCommit'
  BY <1>1, <1>3 DEF AtSince, BeforeMove, Writing, SinceCommit
<1>5. ~stale => KeepsUp'
  BY <1>1, <1>2, <1>3 DEF FollowInv, KeepsUp, Queued, Excused, ChangedSince, Mark
<1> QED
  BY <1>1, <1>4, <1>5 DEF FollowInv

LEMMA LockFollow == ASSUME TypeInv, FollowInv, NEW holder, Lock(holder) PROVE FollowInv'
<1>1. /\ phase = "free" /\ phase' = "sync" /\ UNCHANGED <<branch, stale, left, indexing>>
      /\ job'.since = branch.content /\ job'.why = "sync"
  BY DEF Lock, NoJob, clone, files
<1> QED
  BY <1>1 DEF FollowInv, KeepsUp, AtSince, SinceCommit, Queued, Excused, indexing

LEMMA WriteFollow ==
  ASSUME TypeInv, FollowInv,
         WriteFile \/ Refuse \/ WriteFails \/ Add \/ RollBack
  PROVE  FollowInv'
<1>1. /\ phase \in {"apply"} \cup Writing /\ job.why = "sync"
      /\ UNCHANGED <<branch, stale, indexing>> /\ left \subseteq left'
      /\ \/ phase' \in Writing /\ job' = job
         \/ phase' = "free" /\ job' = NoJob
  BY DEF WriteFile, Refuse, WriteFails, Add, RollBack, Return, clone, files, TypeInv,
         JobInv, Writing
<1>2. BeforeMove
  BY <1>1 DEF BeforeMove
<1>3. CASE phase' = "free" /\ job' = NoJob
  BY <1>1, <1>2, <1>3, LetGoStep DEF Writing
<1>4. CASE phase' \in Writing /\ job' = job
  <2>1. ~stale => AtSince' /\ SinceCommit'
    BY <1>1, <1>2, <1>4 DEF FollowInv, AtSince, SinceCommit, Writing
  <2> QED
    BY <1>1, <1>4, <2>1, HoldStep DEF Writing
<1> QED
  BY <1>1, <1>3, <1>4

LEMMA GitCommitFollow == TypeInv /\ FollowInv /\ GitCommit => FollowInv'
<1> SUFFICES ASSUME TypeInv, FollowInv, GitCommit PROVE FollowInv'
  OBVIOUS
<1>1. /\ phase = "commit" /\ phase' = "fetch" /\ job \in Job
      /\ \E headless \in BOOLEAN :
           job' = [job EXCEPT !.headless = headless, !.pre = branch,
                              !.old = Committed.content, !.why = "push"]
      /\ UNCHANGED <<stale, indexing, left, ask>>
  BY DEF GitCommit, TypeInv, TypeOK, files
<1>2. /\ job'.pre = branch /\ job'.old = Committed.content /\ job'.call = job.call
      /\ job'.since = job.since
  BY <1>1 DEF Job
<1>3. Doc' = Doc /\ branch.content \in Tree
  BY <1>1, <1>2 DEF Doc, TypeInv, TypeOK, Branch
<1>4. AtSince'
  BY <1>1 DEF AtSince, BeforeMove, Writing
<1>5. ASSUME ~stale
      PROVE  SinceCommit'
  <2>1. \A d \in Docs \ left : branch.content[d] = job.since[d]
    BY <1>1, <1>5 DEF FollowInv, AtSince, BeforeMove, Writing
  <2>2. \A d \in Docs : d # Doc => Committed.content[d] = branch.content[d]
    BY <1>3 DEF Committed, Tree
  <2> QED
    BY <1>1, <1>2, <1>3, <2>1, <2>2 DEF SinceCommit
<1> QED
  BY <1>1, <1>2, <1>4, <1>5, HoldStep

\* A commit that was killed may have moved the branch, but only the call's own document.
LEMMA CommitFailsFollow == TypeInv /\ CleanInv /\ FollowInv /\ CommitFails => FollowInv'
<1> SUFFICES ASSUME TypeInv, CleanInv, FollowInv, CommitFails PROVE FollowInv'
  OBVIOUS
<1>1. /\ phase = "commit" /\ phase' = "rollback" /\ job.why = "sync" /\ job' = job
      /\ UNCHANGED indexing /\ left \subseteq left'
      /\ \/ branch' = branch
         \/ branch' = Committed /\ left' = left \cup {Doc}
      /\ ~stale
  BY DEF CommitFails, TypeInv, JobInv, CleanInv
<1>2. branch.content \in Tree
  BY DEF TypeInv, TypeOK, Branch
<1>3. \A d \in Docs \ left' : branch'.content[d] = branch.content[d]
  BY <1>1, <1>2 DEF Committed, Tree
<1>4. ~stale => AtSince' /\ SinceCommit'
  BY <1>1, <1>3 DEF FollowInv, AtSince, BeforeMove, Writing, SinceCommit
<1> QED
  BY <1>1, <1>4, HoldStep

LEMMA PushFetchFollow == ASSUME TypeInv, FollowInv, PushFetch \/ PushRejected PROVE FollowInv'
<1>1. /\ phase \in {"fetch", "push"} /\ phase' \in {"rebase", "pending", "drop"}
      /\ UNCHANGED <<stale, indexing, left, ask, job>>
  BY DEF PushFetch, PushRejected, calls, files
<1>2. ~stale => AtSince' /\ SinceCommit'
  BY <1>1, SameCommit DEF FollowInv, AtSince, BeforeMove, Writing
<1> QED
  BY <1>1, <1>2, HoldStep

LEMMA DiffFollow == TypeInv /\ FollowInv /\ Diff => FollowInv'
<1> SUFFICES ASSUME TypeInv, FollowInv, Diff PROVE FollowInv'
  OBVIOUS
<1>1. phase = "diff" /\ UNCHANGED <<branch, stale, left, ask, marked, pulled, indexed, peeked>>
  BY DEF Diff, clone, calls, files
<1>2. CASE phase' = "push" /\ UNCHANGED <<job, unmarked>>
  <2>1. ~stale => AtSince' /\ SinceCommit'
    BY <1>1, <1>2, SameCommit DEF FollowInv, AtSince, BeforeMove, Writing
  <2> QED
    BY <1>1, <1>2, <2>1, HoldStep DEF indexing
<1>3. CASE /\ phase' = "pending" /\ unmarked' = unmarked \cup ChangedSince(job.old)
           /\ job' = [job EXCEPT !.old = branch.content]
  <2>1. /\ job'.old = branch.content /\ job'.since = job.since /\ job'.pre = job.pre
        /\ job'.why = job.why /\ Doc' = Doc
    BY <1>1, <1>3 DEF TypeInv, TypeOK, Job, Doc
  <2>2. AtSince'
    BY <1>3 DEF AtSince, BeforeMove, Writing
  <2>3. ~stale => KeepsUp'
    BY <1>1, <1>3, <2>1 DEF FollowInv, KeepsUp, Queued, Excused
  <2>4. ~stale => SinceCommit'
    BY <1>1, <1>3, <2>1 DEF FollowInv, SinceCommit, Queued, ChangedSince
  <2> QED
    BY <1>1, <2>2, <2>3, <2>4 DEF FollowInv
<1> QED
  BY <1>2, <1>3 DEF Diff

\* The answer marks the call's document and what the rebase has brought in.
LEMMA PushFollow == ASSUME TypeInv, FollowInv, Push \/ Pending PROVE FollowInv'
<1>1. /\ phase \in {"push", "pending"} /\ job.why = "push" /\ phase' = "free"
      /\ job'.why = "sync" /\ UNCHANGED <<branch, stale, left, indexed, pulled>>
      /\ marked' = marked \cup {Doc} \cup Rebased
      /\ unmarked' = unmarked \ ({Doc} \cup Rebased)
      /\ peeked' = peeked \ ({Doc} \cup Rebased)
  BY DEF Push, Pending, Mark, Return, NoJob, TypeInv, JobInv, clone, files
<1>2. AtSince' /\ SinceCommit'
  BY <1>1 DEF AtSince, BeforeMove, Writing, SinceCommit
<1>3. ASSUME ~stale, NEW d \in Docs \ Excused', d \notin Queued'
      PROVE  indexed[d] = branch.content[d]
  <2>1. d # Doc /\ job.old[d] = branch.content[d] /\ d \notin Queued
    BY <1>1, <1>3 DEF Queued, Rebased, ChangedSince
  <2>2. d \notin Excused
    BY <1>1, <1>3 DEF Queued, Excused
  <2>3. indexed[d] = job.since[d]
    BY <1>1, <1>3, <2>1, <2>2 DEF FollowInv, KeepsUp
  <2>4. job.old[d] = job.since[d]
    BY <1>1, <1>3, <2>1, <2>2 DEF FollowInv, SinceCommit, Excused
  <2> QED
    BY <2>1, <2>3, <2>4
<1>4. ~stale => KeepsUp'
  BY <1>1, <1>3 DEF KeepsUp
<1> QED
  BY <1>1, <1>2, <1>4 DEF FollowInv

LEMMA DropOwnCommitFollow == TypeInv /\ FollowInv /\ DropOwnCommit => FollowInv'
<1> SUFFICES ASSUME TypeInv, FollowInv, DropOwnCommit PROVE FollowInv'
  OBVIOUS
<1>1. phase = "drop" /\ job.why = "push" /\ UNCHANGED <<stale, indexing, left, ask>>
  BY DEF DropOwnCommit, TypeInv, JobInv, calls
<1>2. CASE phase' = "pending" /\ UNCHANGED <<branch, job>>
  <2>1. ~stale => AtSince' /\ SinceCommit'
    BY <1>1, <1>2, SameCommit DEF FollowInv, AtSince, BeforeMove, Writing
  <2> QED
    BY <1>1, <1>2, <2>1, HoldStep
<1>3. CASE /\ branch' = DropTarget /\ phase' = "sync"
           /\ job' = [job EXCEPT !.attempt = job.attempt + 1, !.why = "sync",
                                 !.headless = FALSE, !.pre = NoBranch, !.old = NoTree]
  <2>1. job'.since = job.since /\ job'.why = "sync" /\ job'.call = job.call
    BY <1>3 DEF TypeInv, TypeOK, Job
  <2>2. ~Pulling'
    BY <1>1, <2>1, ConstantsAssumption DEF Pulling, TypeInv, JobInv
  <2>3. ~stale => AtSince' /\ SinceCommit'
    BY <1>3, <2>1, <2>2 DEF AtSince, BeforeMove, Writing, SinceCommit
  <2> QED
    BY <1>1, <1>3, <2>1, <2>3, HoldStep
<1> QED
  BY <1>2, <1>3 DEF DropOwnCommit

LEMMA CrashFollow == Crash => FollowInv'
BY DEF Crash, FollowInv

\* The first reconcile reads every document.
LEMMA RecoverFollow == TypeInv /\ Recover => FollowInv'
<1> SUFFICES ASSUME TypeInv, Recover PROVE FollowInv'
  OBVIOUS
<1>1. job' = NoJob /\ phase' = "free" /\ marked' = marked \cup Docs
  BY DEF Recover, Mark, FirstReconcile, TypeInv, JobInv
<1> QED
  BY <1>1 DEF FollowInv, KeepsUp, AtSince, SinceCommit, BeforeMove, Writing, NoJob, Queued

\* A run that reads a document while its change is in hand is excused; otherwise it
\* indexes what the branch has.
LEMMA IndexDocFollow ==
  ASSUME TypeInv, CleanInv, FollowInv, NEW e \in Docs, IndexDoc(e)
  PROVE  FollowInv'
<1>1. /\ UNCHANGED <<branch, stale, left, phase, job, ask, tree, pulled>>
      /\ indexed' = [indexed EXCEPT ![e] = tree[e]] /\ marked' = marked \ {e}
      /\ unmarked' = unmarked \ {e}
      /\ peeked' = IF phase = "free" \/ tree[e] = job.since[e] THEN peeked \ {e}
                   ELSE peeked \cup {e}
  BY DEF IndexDoc, clone, calls, files
<1>2. indexed \in Tree
  BY DEF TypeInv, TypeOK
<1>3. AtSince => AtSince'
  BY <1>1 DEF AtSince, BeforeMove, Pulling
<1>4. ASSUME ~stale, KeepsUp
      PROVE  KeepsUp'
  <2> SUFFICES ASSUME NEW d \in Docs \ Excused', d \notin Queued'
               PROVE  indexed'[d] = IF phase = "free" THEN branch.content[d] ELSE job.since[d]
    BY <1>1 DEF KeepsUp
  <2>1. CASE d # e
    BY <1>1, <1>2, <1>4, <2>1 DEF KeepsUp, Excused, Queued, Tree
  <2>2. CASE d = e
    <3>1. indexed'[d] = tree[d] /\ d \notin left
      BY <1>1, <1>2, <2>2 DEF Tree, Excused
    <3>2. phase = "free" => tree[d] = branch.content[d]
      BY <1>4, <3>1 DEF CleanInv, Unsettled, Writing, Same
    <3>3. phase # "free" => tree[d] = job.since[d]
      BY <1>1, <2>2 DEF Excused
    <3> QED
      BY <3>1, <3>2, <3>3
  <2> QED
    BY <2>1, <2>2
<1>5. ASSUME ~stale, SinceCommit
      PROVE  SinceCommit'
  <2>1. Doc' = Doc
    BY <1>1 DEF Doc
  <2>2. phase = "pending" => tree[e] = branch.content[e] \/ e \in left
    BY <1>5 DEF CleanInv, Unsettled, Writing, Same
  <2> QED
    BY <1>1, <1>5, <2>1, <2>2 DEF SinceCommit, Queued
<1> QED
  BY <1>1, <1>3, <1>4, <1>5 DEF FollowInv

LEMMA OutsideFollow ==
  ASSUME TypeInv, FollowInv,
         \/ UNCHANGED vars \/ MarkPulled
         \/ \E e \in Others, d \in Docs : OtherPush(e, d)
         \/ \E w \in Calls, kind \in Kinds, d \in Docs : Ask(w, kind, d)
  PROVE  FollowInv'
<1>1. /\ UNCHANGED <<branch, stale, left, phase, job, indexed>>
      /\ UNCHANGED <<marked, pulled, unmarked, peeked>> \/ MarkPulled
  BY DEF vars, MarkPulled, OtherPush, Ask, clone, files, indexing
<1>2. job.why = "push" => ask'[job.call] = ask[job.call]
  BY DEF vars, MarkPulled, OtherPush, Ask, clone, files, calls, TypeInv, TypeOK, JobInv
<1>3. job.why = "push" => Doc' = Doc
  BY <1>1, <1>2 DEF Doc
<1>4. Queued' = Queued /\ Excused' \subseteq Excused
      /\ Excused \subseteq Excused' \cup Queued
      /\ unmarked \cup peeked \subseteq unmarked' \cup peeked' \cup Queued
  BY <1>1 DEF Queued, Excused, MarkPulled
<1>5. AtSince => AtSince'
  BY <1>1 DEF AtSince, BeforeMove, Pulling
<1>6. KeepsUp => KeepsUp'
  BY <1>1, <1>4 DEF KeepsUp
<1>7. SinceCommit => SinceCommit'
  BY <1>1, <1>3, <1>4 DEF SinceCommit
<1> QED
  BY <1>1, <1>5, <1>6, <1>7 DEF FollowInv

LEMMA NextFollow == TypeInv /\ CleanInv /\ FollowInv /\ [Next]_vars => FollowInv'
BY OutsideFollow, IndexDocFollow, LockFollow, SyncFetchFollow, FastForwardFollow,
   PullEndsFollow, SyncEndsFollow, RebasingFollow, RebaseEndsFollow, RebaseFailsFollow,
   RebaseKilledLateFollow, ParkFollow, WriteFollow, GitCommitFollow, CommitFailsFollow,
   PushFetchFollow, DiffFollow,
   PushFollow, DropOwnCommitFollow, CrashFollow, RecoverFollow
   DEF Next, Sync, Rebase, Write, Publish, StartWrite, StartPull

\* Every change to the working tree reaches the reindex queue, through a write, a rebase
\* or a pull: when the lock is free, a document that is not on its way to the index is
\* indexed with what is in the tree.
THEOREM IndexFollows == Spec => []IndexFollowsClone
<1>1. Init => TypeInv /\ CleanInv /\ FollowInv
  <2>1. Init => CleanInv
    BY DEF Init, CleanInv, Unsettled, Writing, Same
  <2>2. Init => FollowInv
    BY DEF Init, FollowInv, KeepsUp, AtSince, SinceCommit, BeforeMove, Writing, NoJob
  <2> QED
    BY <2>1, <2>2, InitType
<1>2. TypeInv /\ CleanInv /\ FollowInv /\ [Next]_vars => (TypeInv /\ CleanInv /\ FollowInv)'
  BY NextType, NextClean, NextFollow
<1>3. TypeInv /\ CleanInv /\ FollowInv => IndexFollowsClone
  BY DEF CleanInv, FollowInv, KeepsUp, Queued, Excused, IndexFollowsClone, Unsettled,
         Writing, Same
<1> QED
  BY <1>1, <1>2, <1>3, PTL DEF Spec

-----------------------------------------------------------------------------
(***************************************************************************)
(* What was saved is kept.                                                 *)
(***************************************************************************)
\* Calls whose edit must not get lost: not refused, undone, or cut off.  Those of them
\* that write something, once they have been asked for.
Alive == {w \in Calls \ killed : outcome[w] \in {"none", "asked", "saved"}}
Writers == {w \in Alive : outcome[w] # "none" /\ ask[w].kind # "delete"}

\* A call whose git commit was killed is answered with a failure, if at all.
KilledInv ==
  \A w \in killed : /\ outcome[w] \notin {"none", "saved"}
                    /\ outcome[w] = "asked" => w = job.call /\ phase = "rollback"

\* Nobody has seen the edit of a call before it has been made.
SeenInv == \A w \in Alive : outcome[w] # "none" => w \notin ask[w].seen

\* An edit of the live calls is in a document only where its commit is.
Holds(live, content, ids) == \A d \in Docs : content[d] \cap live \subseteq ids

\* Each commit is there once, brings in the edit it is named for, and no other.
Commits(live, writers, s) ==
  /\ \A i, j \in DOMAIN s : s[i].id = s[j].id => i = j
  /\ \A i \in DOMAIN s : /\ s[i].id \in writers => s[i].id \in s[i].to \ s[i].from
                         /\ (s[i].to \ s[i].from) \cap live \subseteq {s[i].id}

SoundBranch(live, writers, pushed, b) ==
  /\ Holds(live, b.content, b.ids)
  /\ \A i \in DOMAIN b.own : b.own[i].to \cap live \subseteq b.ids
  /\ Commits(live, writers, b.own)
  /\ OwnIds(b.own) \subseteq b.ids
  /\ b.ids \subseteq pushed \cup OwnIds(b.own)

Replaying == phase \in {"pick", "stopped"}

BranchInv ==
  /\ Holds(Alive, remote.content, remote.ids)
  /\ Holds(Alive, fetched.content, fetched.ids) /\ fetched.ids \subseteq remote.ids
  /\ SoundBranch(Alive, Writers, remote.ids, branch)
  /\ job.why = "push" => SoundBranch(Alive, Writers, remote.ids, job.pre)
  /\ Replaying =>
       /\ SoundBranch(Alive, Writers, remote.ids, rebase.tip)
       /\ rebase.tip.ids \subseteq fetched.ids \cup OwnIds(rebase.tip.own)
       /\ Commits(Alive, Writers, rebase.todo)
       /\ OwnIds(rebase.tip.own) \cap OwnIds(rebase.todo) = {}
       /\ \A i \in DOMAIN rebase.todo : rebase.todo[i].to \cap Alive \subseteq branch.ids

\* The working tree holds no edit that is not committed, but that of the call in hand.
Changing(d) == IF phase \in Writing /\ d = Doc THEN {job.call} ELSE {}

TreeInv ==
  /\ rebase = None =>
       \A d \in Docs : tree[d] \cap Alive \subseteq branch.content[d] \cup Changing(d)
  /\ rebase # None => \A d \in Docs : tree[d] \cap Alive \subseteq Held \cup Changing(d)
  /\ phase = "pick" => \A d \in Docs : tree[d] \cap Alive \subseteq rebase.tip.content[d]
  /\ \A d \in Docs : index[d] = {} => tree[d] \cap Alive \subseteq Changing(d)
  /\ phase = "commit" => index[Doc] = tree[Doc]
  /\ phase \in {"add", "commit"} /\ job.call \in Writers => job.call \in tree[Doc]
  /\ phase = "park" => rebase = None

\* No commit gets lost on its way from the branch to the remote, or to a recovery ref.
KeptInv ==
  /\ Replaying =>
       branch.ids \cap Writers \subseteq remote.ids \cup rebase.tip.ids \cup OwnIds(rebase.todo)
  /\ job.why = "push" =>
       /\ branch.ids \subseteq job.pre.ids \cup remote.ids \cup {job.call}
       /\ job.call \in Writers => job.call \in branch.ids \cup remote.ids
       /\ Replaying => rebase.tip.ids \cup OwnIds(rebase.todo)
                         \subseteq job.pre.ids \cup remote.ids \cup {job.call}
  /\ \A w \in Writers : outcome[w] = "saved" =>
       w \in branch.ids \cup remote.ids \cup UNION {b.ids : b \in parked}

PlacesInv == BranchInv /\ TreeInv /\ KeptInv
SavedInv == CleanInv /\ CommitInv /\ KilledInv /\ SeenInv /\ PlacesInv

\* What every step does to the calls and to the remote: live calls only grow fewer, a
\* call starts to write when it is asked for, and the remote gains commits.
Fading ==
  /\ Alive' \subseteq Alive
  /\ Writers' \cap (Loose \cup Held \cup {job.call}) \subseteq Writers
  /\ \A w \in Writers' : outcome'[w] = "saved" =>
       (w \in Writers /\ outcome[w] = "saved") \/ (w = job.call /\ (Push \/ Pending))
  /\ remote.ids \subseteq remote'.ids /\ fetched'.ids \subseteq remote'.ids
  /\ Holds(Alive', remote'.content, remote'.ids)
  /\ Holds(Alive', fetched'.content, fetched'.ids)

-----------------------------------------------------------------------------
LEMMA MergeAdds ==
  ASSUME NEW base, NEW ours, NEW theirs
  PROVE  /\ Merge(base, ours, theirs) \subseteq ours \cup (theirs \ base)
         /\ theirs \ base \subseteq Merge(base, ours, theirs)
BY DEF Merge

\* A change adds the call's edit and no other, and takes edits away.
LEMMA AppliedAdds ==
  ASSUME NEW kind \in Kinds, NEW seen, NEW cur, NEW w, NEW new \in Applied(kind, seen, cur, w)
  PROVE  /\ new \subseteq cur \cup {w}
         /\ kind # "delete" /\ w \notin seen => w \in new
<1>1. Merge(seen, cur, seen \cup {w}) \subseteq cur \cup {w}
  BY MergeAdds
<1>2. w \notin seen => w \in Merge(seen, cur, seen \cup {w})
  BY MergeAdds
<1>3. CASE kind = "replace"
  BY <1>1, <1>2, <1>3 DEF Applied
<1>4. CASE kind # "replace"
  BY <1>4 DEF Applied, Kinds
<1> QED
  BY <1>3, <1>4

LEMMA CommitsStay ==
  ASSUME NEW live, NEW writers, NEW s, Commits(live, writers, s),
         NEW fewer \in SUBSET live, NEW known, known \cap OwnIds(s) \subseteq writers
  PROVE  Commits(fewer, known, s)
<1>1. \A i \in DOMAIN s : s[i].id \in OwnIds(s)
  BY DEF OwnIds
<1> QED
  BY <1>1 DEF Commits

LEMMA SoundStays ==
  ASSUME NEW live, NEW writers, NEW pushed, NEW b, SoundBranch(live, writers, pushed, b),
         NEW fewer \in SUBSET live, NEW known, known \cap OwnIds(b.own) \subseteq writers,
         NEW more, pushed \subseteq more
  PROVE  SoundBranch(fewer, known, more, b)
<1>1. Commits(fewer, known, b.own)
  BY CommitsStay DEF SoundBranch
<1> QED
  BY <1>1 DEF SoundBranch, Holds

LEMMA SoundTip ==
  ASSUME NEW live, NEW writers, NEW pushed, NEW t, Holds(live, t.content, t.ids),
         t.ids \subseteq pushed
  PROVE  SoundBranch(live, writers, pushed,
                     [ids |-> t.ids, content |-> t.content, own |-> <<>>])
BY DEF SoundBranch, Holds, Commits, OwnIds

LEMMA LastOfAppend ==
  ASSUME NEW s \in Seq(Commit), NEW c \in Commit
  PROVE  /\ DOMAIN Append(s, c) = DOMAIN s \cup {Len(s) + 1}
         /\ Len(s) + 1 \notin DOMAIN s
         /\ \A i \in DOMAIN s : Append(s, c)[i] = s[i]
         /\ Append(s, c)[Len(s) + 1] = c
<1>1. /\ DOMAIN s = 1 .. Len(s) /\ Len(s) \in Nat
      /\ DOMAIN Append(s, c) = 1 .. Len(s) + 1
      /\ \A i \in 1 .. Len(s) : Append(s, c)[i] = s[i]
      /\ Append(s, c)[Len(s) + 1] = c
  BY AppendProperties, LenProperties
<1> QED
  BY <1>1

\* A branch that gains a commit of its own, made on what it has.
LEMMA SoundAppend ==
  ASSUME NEW live, NEW writers, NEW pushed, NEW b \in Branch,
         SoundBranch(live, writers, pushed, b),
         NEW c \in Commit, c.from = b.content[c.doc], c.id \notin OwnIds(b.own),
         c.id \in writers => c.id \in c.to \ c.from,
         (c.to \ c.from) \cap live \subseteq {c.id}
  PROVE  SoundBranch(live, writers, pushed,
                     [ids |-> b.ids \cup {c.id}, content |-> [b.content EXCEPT ![c.doc] = c.to],
                      own |-> Append(b.own, c)])
<1> DEFINE s == Append(b.own, c)
           content == [b.content EXCEPT ![c.doc] = c.to]
<1>1. b.own \in Seq(Commit) /\ c.doc \in Docs /\ b.content \in Tree
  BY DEF Branch, Commit
<1>2. /\ DOMAIN s = DOMAIN b.own \cup {Len(b.own) + 1} /\ Len(b.own) + 1 \notin DOMAIN b.own
      /\ \A i \in DOMAIN b.own : s[i] = b.own[i]
      /\ s[Len(b.own) + 1] = c
  BY <1>1, LastOfAppend
<1>3. OwnIds(s) = OwnIds(b.own) \cup {c.id}
  BY <1>1, OwnIdsOfAppend
<1>4. c.to \cap live \subseteq b.ids \cup {c.id}
  BY <1>1 DEF SoundBranch, Holds
<1>5. Holds(live, content, b.ids \cup {c.id})
  BY <1>1, <1>4 DEF SoundBranch, Holds, Tree
<1>6. \A i \in DOMAIN b.own : b.own[i].id \in OwnIds(b.own) /\ b.own[i].id # c.id
  BY DEF OwnIds
<1> HIDE DEF s
<1>7. Commits(live, writers, s)
  <2>1. ASSUME NEW i \in DOMAIN s, NEW j \in DOMAIN s, s[i].id = s[j].id
        PROVE  i = j
    <3>1. CASE i \in DOMAIN b.own /\ j \in DOMAIN b.own
      BY <1>2, <2>1, <3>1 DEF SoundBranch, Commits
    <3>2. CASE i = Len(b.own) + 1 \/ j = Len(b.own) + 1
      BY <1>2, <1>6, <2>1, <3>2
    <3> QED
      BY <1>2, <3>1, <3>2
  <2>2. ASSUME NEW i \in DOMAIN s
        PROVE  /\ s[i].id \in writers => s[i].id \in s[i].to \ s[i].from
               /\ (s[i].to \ s[i].from) \cap live \subseteq {s[i].id}
    BY <1>2, <2>2 DEF SoundBranch, Commits
  <2> QED
    BY <2>1, <2>2 DEF Commits
<1>8. \A i \in DOMAIN s : s[i].to \cap live \subseteq b.ids \cup {c.id}
  BY <1>2, <1>4 DEF SoundBranch
<1> HIDE DEF content
<1> QED
  BY <1>3, <1>5, <1>7, <1>8 DEF SoundBranch, s, content

LEMMA CommitsOfTail ==
  ASSUME NEW live, NEW writers, NEW s \in Seq(Commit), s # <<>>, Commits(live, writers, s)
  PROVE  /\ Commits(live, writers, Tail(s))
         /\ Head(s).id \notin OwnIds(Tail(s))
         /\ OwnIds(s) = OwnIds(Tail(s)) \cup {Head(s).id}
         /\ Head(s).id \in writers => Head(s).id \in Head(s).to \ Head(s).from
         /\ (Head(s).to \ Head(s).from) \cap live \subseteq {Head(s).id}
<1>1. /\ DOMAIN s = 1 .. Len(s) /\ Len(s) \in Nat \ {0}
      /\ DOMAIN Tail(s) = 1 .. Len(s) - 1
      /\ \A i \in 1 .. Len(s) - 1 : Tail(s)[i] = s[i + 1]
  BY HeadTailProperties, LenProperties, EmptySeq
<1>2. Head(s) = s[1] /\ 1 \in DOMAIN s
  BY <1>1
<1>3. \A i \in DOMAIN Tail(s) : i \in Nat /\ i + 1 \in DOMAIN s /\ Tail(s)[i] = s[i + 1]
  BY <1>1
<1>4. \A i \in DOMAIN s : i = 1 \/ (i - 1 \in DOMAIN Tail(s) /\ Tail(s)[i - 1] = s[i])
  BY <1>1
<1>5. Commits(live, writers, Tail(s))
  <2>1. ASSUME NEW i \in DOMAIN Tail(s), NEW j \in DOMAIN Tail(s), Tail(s)[i].id = Tail(s)[j].id
        PROVE  i = j
    <3>1. i + 1 = j + 1
      BY <1>3, <2>1 DEF Commits
    <3> QED
      BY <1>3, <3>1
  <2> QED
    BY <1>3, <2>1 DEF Commits
<1>6. \A i \in DOMAIN Tail(s) : Tail(s)[i].id # Head(s).id
  <2>1. ASSUME NEW i \in DOMAIN Tail(s), Tail(s)[i].id = Head(s).id
        PROVE  FALSE
    <3>1. i + 1 = 1
      BY <1>2, <1>3, <2>1 DEF Commits
    <3> QED
      BY <1>1, <3>1
  <2> QED
    BY <2>1
<1>7. Head(s).id \notin OwnIds(Tail(s))
  BY <1>6 DEF OwnIds
<1>8. OwnIds(s) = OwnIds(Tail(s)) \cup {Head(s).id}
  <2>1. OwnIds(Tail(s)) \cup {Head(s).id} \subseteq OwnIds(s)
    BY OwnIdsOfTail
  <2>2. ASSUME NEW i \in DOMAIN s
        PROVE  s[i].id \in OwnIds(Tail(s)) \cup {Head(s).id}
    BY <1>2, <1>4, <2>2 DEF OwnIds
  <2>3. OwnIds(s) \subseteq OwnIds(Tail(s)) \cup {Head(s).id}
    BY <2>2 DEF OwnIds
  <2> QED
    BY <2>1, <2>3
<1> QED
  BY <1>2, <1>5, <1>7, <1>8 DEF Commits

LEMMA CallsFade ==
  ASSUME TypeInv, CommitInv, [Next]_vars
  PROVE  /\ Alive' \subseteq Alive
         /\ Writers' \cap (Loose \cup Held \cup {job.call}) \subseteq Writers
         /\ \A w \in Writers' : outcome'[w] = "saved" =>
              (w \in Writers /\ outcome[w] = "saved") \/ (w = job.call /\ (Push \/ Pending))
<1>1. CASE UNCHANGED <<outcome, ask, killed>>
  BY <1>1 DEF Alive, Writers
<1>2. CASE \E w \in Calls, kind \in Kinds, d \in Docs : Ask(w, kind, d)
  <2>1. PICK w \in Calls : /\ outcome[w] = "none" /\ outcome' = [outcome EXCEPT ![w] = "asked"]
                           /\ killed' = killed
                           /\ \A v \in Calls : v # w => ask'[v] = ask[v]
    BY <1>2 DEF Ask, TypeInv, TypeOK
  <2>2. \A v \in Calls : v # w => outcome'[v] = outcome[v]
    BY <2>1 DEF TypeInv, TypeOK
  <2>3. outcome'[w] = "asked"
    BY <2>1 DEF TypeInv, TypeOK
  <2>4. w \in Alive => w \notin Loose \cup Held \cup {job.call}
    BY <2>1 DEF CommitInv, Accepted, InHand, TypeInv, JobInv, Alive
  <2>5. Alive' \subseteq Alive
    BY <2>1, <2>2, <2>3 DEF Alive
  <2>6. \A v \in Writers' : v \in Alive /\ v \in Calls /\ (v # w => v \in Writers)
    <3>1. ASSUME NEW v \in Writers'
          PROVE  v \in Alive /\ v \in Calls
      BY <2>5, <3>1 DEF Alive, Writers
    <3>2. ASSUME NEW v \in Writers', v # w
          PROVE  v \in Writers
      BY <2>1, <2>2, <3>1, <3>2 DEF Writers
    <3> QED
      BY <3>1, <3>2
  <2>7. \A v \in Writers' : outcome'[v] = "saved" => v \in Writers /\ outcome[v] = "saved"
    BY <2>2, <2>3, <2>6
  <2> QED
    BY <2>4, <2>5, <2>6, <2>7
<1>3. CASE /\ job.call \in Calls /\ UNCHANGED <<ask, killed>>
           /\ \E result \in {"saved", "refused", "undone", "failed"} :
                Return(result) /\ (result = "saved" => Push \/ Pending)
  <2>1. PICK result \in {"saved", "refused", "undone", "failed"} :
          /\ outcome' = [outcome EXCEPT ![job.call] = result]
          /\ result = "saved" => Push \/ Pending
    BY <1>3 DEF Return
  <2>2. /\ outcome[job.call] = "asked" /\ outcome'[job.call] = result
        /\ \A v \in Calls : v # job.call => outcome'[v] = outcome[v]
    BY <1>3, <2>1 DEF TypeInv, TypeOK, JobInv
  <2>3. Alive' \subseteq Alive
    BY <1>3, <2>2 DEF Alive
  <2>4. Writers' \subseteq Writers
    BY <1>3, <2>2, <2>3 DEF Alive, Writers
  <2> QED
    BY <2>1, <2>2, <2>3, <2>4 DEF Writers, Alive
<1>4. CASE Crash
  <2>1. /\ outcome' = [w \in Calls |-> IF outcome[w] = "asked" THEN "unknown" ELSE outcome[w]]
        /\ UNCHANGED <<ask, killed>>
    BY <1>4 DEF Crash
  <2>2. \A w \in Calls : outcome'[w] \in {"none", "asked", "saved"} => outcome'[w] = outcome[w]
    BY <2>1
  <2> QED
    BY <2>1, <2>2 DEF Alive, Writers
<1>5. CASE UNCHANGED <<outcome, ask>> /\ killed' = killed \cup {job.call}
  BY <1>5 DEF Alive, Writers
<1> QED
  BY <1>1, <1>2, <1>3, <1>4, <1>5, AnswerStep

LEMMA RollbackStep ==
  ASSUME phase = "rollback", [Next]_vars
  PROVE  RollBack \/ Crash \/ UNCHANGED <<phase, job>>
<1>1. ~Rebase
  BY DEF Rebase, RebaseStarts, AtRebase, SkipPushed, Pick, PickConflicts, RebaseEnds,
         AbortRebase, RebaseRefused, RebaseKilled, RebaseKilledLate, Park
<1>2. Sync => MarkPulled
  BY DEF Sync, SyncFetch, FastForward, PullEnds, SyncEnds
<1>3. Write => RollBack
  BY DEF Write, WriteFile, Refuse, WriteFails, Add, GitCommit, CommitFails
<1>4. ~Publish
  BY DEF Publish, PushFetch, Diff, Push, PushRejected, Pending, DropOwnCommit
<1>5. ~Recover /\ ~StartPull /\ ~\E w \in Calls : StartWrite(w)
  BY DEF Recover, StartPull, StartWrite, Lock
<1> QED
  BY <1>1, <1>2, <1>3, <1>4, <1>5
     DEF Next, vars, MarkPulled, OtherPush, Ask, IndexDoc

LEMMA NextKilled == TypeInv /\ KilledInv /\ [Next]_vars => KilledInv'
<1> SUFFICES ASSUME TypeInv, KilledInv, [Next]_vars PROVE KilledInv'
  OBVIOUS
<1>1. CASE UNCHANGED <<outcome, ask, killed>>
  <2>1. CASE phase # "rollback"
    BY <1>1, <2>1 DEF KilledInv
  <2>2. CASE phase = "rollback"
    <3>1. ~Crash
      BY <1>1, <2>2, CallInHand DEF Crash
    <3>2. ~RollBack
      <4>1. outcome[job.call] = "asked" /\ job.call \in Calls
        BY <2>2, CallInHand
      <4> QED
        BY <1>1, <4>1 DEF RollBack, Return, TypeInv, TypeOK
    <3>3. UNCHANGED <<phase, job>>
      BY <2>2, <3>1, <3>2, RollbackStep
    <3> QED
      BY <1>1, <3>3 DEF KilledInv
  <2> QED
    BY <2>1, <2>2
<1>2. CASE \E w \in Calls, kind \in Kinds, d \in Docs : Ask(w, kind, d)
  BY <1>2 DEF Ask, KilledInv, TypeInv, TypeOK
<1>3. CASE /\ job.call \in Calls /\ UNCHANGED <<ask, killed>>
           /\ \E result \in {"saved", "refused", "undone", "failed"} :
                Return(result) /\ (result = "saved" => Push \/ Pending)
  <2>1. PICK result \in {"saved", "refused", "undone", "failed"} :
          /\ outcome' = [outcome EXCEPT ![job.call] = result]
          /\ result = "saved" => phase # "rollback"
    BY <1>3 DEF Return, Push, Pending
  <2>2. /\ outcome[job.call] = "asked" /\ outcome'[job.call] = result
        /\ \A v \in Calls : v # job.call => outcome'[v] = outcome[v]
    BY <1>3, <2>1 DEF TypeInv, TypeOK, JobInv
  <2>3. killed \subseteq Calls /\ killed' = killed
    BY <1>3 DEF TypeInv, TypeOK
  <2>4. ASSUME NEW w \in killed, w = job.call
        PROVE  outcome'[w] \notin {"none", "saved", "asked"}
    BY <2>1, <2>2, <2>4 DEF KilledInv
  <2>5. ASSUME NEW w \in killed, w # job.call
        PROVE  outcome'[w] \notin {"none", "saved", "asked"}
    BY <2>2, <2>3, <2>5 DEF KilledInv
  <2> QED
    BY <2>3, <2>4, <2>5 DEF KilledInv
<1>4. CASE Crash
  <2>1. /\ outcome' = [w \in Calls |-> IF outcome[w] = "asked" THEN "unknown" ELSE outcome[w]]
        /\ killed' = killed /\ killed \subseteq Calls
    BY <1>4 DEF Crash, TypeInv, TypeOK
  <2> QED
    BY <2>1 DEF KilledInv
<1>5. CASE CommitFails /\ UNCHANGED <<outcome, ask>> /\ killed' = killed \cup {job.call}
  <2>1. phase = "commit" /\ phase' = "rollback" /\ job' = job
    BY <1>5 DEF CommitFails
  <2>2. outcome[job.call] = "asked"
    BY <2>1, CallInHand
  <2> QED
    BY <1>5, <2>1, <2>2 DEF KilledInv
<1> QED
  BY <1>1, <1>2, <1>3, <1>4, <1>5, AnswerStep

LEMMA NextSeen ==
  ASSUME TypeInv, CommitInv, BranchInv, TreeInv, SeenInv, [Next]_vars
  PROVE  SeenInv'
<1>1. Alive' \subseteq Alive
  BY CallsFade
<1>2. ASSUME NEW w \in Calls, NEW kind \in Kinds, NEW d \in Docs, Ask(w, kind, d), w \in Alive
      PROVE  w \notin ask'[w].seen
  <2>1. outcome[w] = "none" /\ w \notin Loose \cup Held /\ w # job.call
    BY <1>2 DEF Ask, CommitInv, Accepted, InHand, TypeInv, JobInv, Alive
  <2>2. w \notin tree[d]
    <3>1. CASE rebase # None
      BY <1>2, <2>1, <3>1 DEF TreeInv, Changing
    <3>2. CASE rebase = None
      <4>1. w \notin branch.content[d]
        BY <1>2, <2>1 DEF BranchInv, SoundBranch, Holds, Held, BranchIds
      <4> QED
        BY <1>2, <2>1, <3>2, <4>1 DEF TreeInv, Changing
    <3> QED
      BY <3>1, <3>2
  <2>3. ask'[w].seen \subseteq tree[d]
    BY <1>2 DEF Ask, TypeInv, TypeOK
  <2> QED
    BY <2>2, <2>3
<1>3. CASE \E w \in Calls, kind \in Kinds, d \in Docs : Ask(w, kind, d)
  <2>1. PICK w \in Calls, kind \in Kinds, d \in Docs : Ask(w, kind, d)
    BY <1>3
  <2>2. \A v \in Calls : v # w => ask'[v] = ask[v] /\ outcome'[v] = outcome[v]
    BY <2>1 DEF Ask, TypeInv, TypeOK
  <2>3. \A v \in Alive : v \in Calls
    BY DEF Alive
  <2> QED
    BY <1>1, <1>2, <2>1, <2>2, <2>3 DEF SeenInv
<1>4. CASE ask' = ask /\ \A w \in Calls : outcome'[w] # "none" => outcome[w] # "none"
  BY <1>1, <1>4 DEF SeenInv, Alive
<1>5. CASE /\ job.call \in Calls /\ UNCHANGED <<ask, killed>>
           /\ \E result \in {"saved", "refused", "undone", "failed"} :
                Return(result) /\ (result = "saved" => Push \/ Pending)
  BY <1>4, <1>5 DEF Return, TypeInv, TypeOK, JobInv
<1>6. CASE Crash
  BY <1>4, <1>6 DEF Crash
<1> QED
  BY <1>3, <1>4, <1>5, <1>6, AnswerStep

LEMMA RemoteStep ==
  ASSUME [Next]_vars
  PROVE  /\ \/ remote' = remote
            \/ \E e \in Others, d \in Docs : OtherPush(e, d)
            \/ Pushable /\ remote' = Pushed
         /\ fetched' = fetched \/ (fetched' = remote /\ remote' = remote)
<1>1. CASE UNCHANGED vars \/ MarkPulled \/ \E d \in Docs : IndexDoc(d)
  BY <1>1 DEF vars, MarkPulled, IndexDoc, clone
<1>2. CASE \E e \in Others, d \in Docs : OtherPush(e, d)
  BY <1>2 DEF OtherPush, clone
<1>3. CASE \/ \E w \in Calls, kind \in Kinds, d \in Docs : Ask(w, kind, d)
           \/ StartPull \/ \E w \in Calls : StartWrite(w)
  BY <1>3 DEF Ask, StartPull, StartWrite, Lock, clone
<1>4. CASE SyncFetch \/ FastForward \/ PullEnds \/ SyncEnds
  BY <1>4 DEF SyncFetch, FastForward, PullEnds, SyncEnds, clone
<1>5. CASE Rebase
  BY <1>5 DEF Rebase, RebaseStarts, SkipPushed, Pick, PickConflicts, RebaseEnds, AbortRebase,
     RebaseRefused, RebaseKilled, RebaseKilledLate, Park, clone
<1>6. CASE Write
  BY <1>6 DEF Write, WriteFile, Refuse, WriteFails, Add, GitCommit, CommitFails, RollBack,
     clone
<1>7. CASE Push \/ Pending
  BY <1>7 DEF Push, Pending, clone
<1>8. CASE PushFetch \/ Diff \/ PushRejected \/ DropOwnCommit
  BY <1>8 DEF PushFetch, Diff, PushRejected, DropOwnCommit, clone
<1>9. CASE Crash \/ Recover
  BY <1>9 DEF Crash, Recover, clone
<1> QED
  BY <1>1, <1>2, <1>3, <1>4, <1>5, <1>6, <1>7, <1>8, <1>9 DEF Next, Sync, Publish

LEMMA HoldsStays ==
  ASSUME NEW live, NEW fewer \in SUBSET live, NEW content, NEW ids, Holds(live, content, ids)
  PROVE  Holds(fewer, content, ids)
BY DEF Holds

LEMMA NextFading ==
  ASSUME TypeInv, CommitInv, BranchInv, [Next]_vars
  PROVE  Fading
<1>1. Alive' \subseteq Alive
  BY CallsFade
<1>2. /\ Holds(Alive', remote.content, remote.ids) /\ Holds(Alive', fetched.content, fetched.ids)
      /\ Holds(Alive', branch.content, branch.ids) /\ fetched.ids \subseteq remote.ids
  BY <1>1, HoldsStays DEF BranchInv, SoundBranch
<1>3. remote.ids \subseteq remote'.ids /\ Holds(Alive', remote'.content, remote'.ids)
  <2>1. CASE remote' = remote
    BY <1>2, <2>1
  <2>2. CASE Pushable /\ remote' = Pushed
    BY <1>2, <2>2 DEF Pushable, Pushed
  <2>3. CASE \E e \in Others, d \in Docs : OtherPush(e, d)
    <3>1. PICK e \in Others, d \in Docs, c \in SUBSET (Edits) :
            /\ c \subseteq remote.content[d] \cup {e}
            /\ remote' = [ids |-> remote.ids \cup {e},
                          content |-> [remote.content EXCEPT ![d] = c]]
      <4>1. PICK e \in Others, d \in Docs : OtherPush(e, d)
        BY <2>3
      <4>2. PICK c \in {remote.content[d] \cup {e}, {}} :
              remote' = [ids |-> remote.ids \cup {e},
                         content |-> [remote.content EXCEPT ![d] = c]]
        BY <4>1 DEF OtherPush
      <4>3. c \in SUBSET Edits
        BY <4>2, OtherPushType, <4>1 DEF TypeInv, TypeOK, Tip, Tree, Content, Edits
      <4> QED
        BY <4>2, <4>3
    <3>2. remote.content \in Tree
      BY DEF TypeInv, TypeOK, Tip
    <3>3. e \notin Alive'
      BY <1>1, ConstantsAssumption DEF Alive
    <3>4. /\ remote'.ids = remote.ids \cup {e}
          /\ \A f \in Docs : remote'.content[f] \subseteq remote.content[f] \cup {e}
      BY <3>1, <3>2 DEF Tree
    <3>5. ASSUME NEW f \in Docs
          PROVE  remote'.content[f] \cap Alive' \subseteq remote'.ids
      BY <1>2, <3>3, <3>4, <3>5 DEF Holds
    <3> QED
      BY <3>4, <3>5 DEF Holds
  <2> QED
    BY <2>1, <2>2, <2>3, RemoteStep
<1>4. fetched'.ids \subseteq remote'.ids /\ Holds(Alive', fetched'.content, fetched'.ids)
  BY <1>2, <1>3, RemoteStep
<1> QED
  BY <1>1, <1>3, <1>4, CallsFade DEF Fading

\* Known branches stay sound as calls are answered and the remote moves on.
LEMMA BranchesStay ==
  ASSUME TypeInv, BranchInv, Fading
  PROVE  /\ SoundBranch(Alive', Writers', remote'.ids, branch)
         /\ job.why = "push" => SoundBranch(Alive', Writers', remote'.ids, job.pre)
         /\ SoundBranch(Alive', Writers', remote'.ids,
                        [ids |-> fetched.ids, content |-> fetched.content, own |-> <<>>])
         /\ Replaying =>
              /\ SoundBranch(Alive', Writers', remote'.ids, rebase.tip)
              /\ Commits(Alive', Writers', rebase.todo)
              /\ \A i \in DOMAIN rebase.todo : rebase.todo[i].to \cap Alive' \subseteq branch.ids
<1>1. /\ OwnIds(branch.own) \subseteq Held /\ OwnIds(job.pre.own) \subseteq Loose
      /\ Replaying => OwnIds(rebase.tip.own) \cup OwnIds(rebase.todo) \subseteq Held
  BY ConstantsAssumption
     DEF Held, Loose, BranchIds, RebaseIds, Replaying, TypeInv, JobInv, Rebasing
<1>2. /\ Alive' \in SUBSET Alive /\ remote.ids \subseteq remote'.ids
      /\ Writers' \cap (Loose \cup Held) \subseteq Writers
  BY DEF Fading
<1>3. SoundBranch(Alive', Writers', remote'.ids, branch)
  <2>1. Writers' \cap OwnIds(branch.own) \subseteq Writers
    BY <1>1, <1>2
  <2> QED
    BY <1>2, <2>1, SoundStays DEF BranchInv
<1>4. ASSUME job.why = "push"
      PROVE  SoundBranch(Alive', Writers', remote'.ids, job.pre)
  <2>1. Writers' \cap OwnIds(job.pre.own) \subseteq Writers
    BY <1>1, <1>2
  <2> QED
    BY <1>2, <1>4, <2>1, SoundStays DEF BranchInv
<1>5. SoundBranch(Alive', Writers', remote'.ids,
                  [ids |-> fetched.ids, content |-> fetched.content, own |-> <<>>])
  <2>1. Holds(Alive', fetched.content, fetched.ids) /\ fetched.ids \subseteq remote'.ids
    BY <1>2, HoldsStays DEF BranchInv
  <2> QED
    BY <2>1, SoundTip
<1>6. ASSUME Replaying
      PROVE  /\ SoundBranch(Alive', Writers', remote'.ids, rebase.tip)
             /\ Commits(Alive', Writers', rebase.todo)
             /\ \A i \in DOMAIN rebase.todo : rebase.todo[i].to \cap Alive' \subseteq branch.ids
  <2>1. /\ Writers' \cap OwnIds(rebase.tip.own) \subseteq Writers
        /\ Writers' \cap OwnIds(rebase.todo) \subseteq Writers
    BY <1>1, <1>2, <1>6
  <2>2. SoundBranch(Alive', Writers', remote'.ids, rebase.tip)
    BY <1>2, <1>6, <2>1, SoundStays DEF BranchInv
  <2>3. Commits(Alive', Writers', rebase.todo)
    BY <1>2, <1>6, <2>1, CommitsStay DEF BranchInv
  <2> QED
    BY <1>2, <1>6, <2>2, <2>3 DEF BranchInv
<1> QED
  BY <1>3, <1>4, <1>5, <1>6

\* A step that leaves the branch, the rebase in progress and the commit in hand.
LEMMA BranchQuiet ==
  ASSUME TypeInv, BranchInv, Fading, branch' = branch,
         job'.why = "push" => job.why = "push" /\ job'.pre = job.pre,
         Replaying' => Replaying /\ UNCHANGED <<rebase, fetched>>
  PROVE  BranchInv'
BY BranchesStay DEF BranchInv, Fading

\* The files in such a step, if the holder is not changing a document any more.
LEMMA TreeQuiet ==
  ASSUME TreeInv, Fading, UNCHANGED <<tree, index, branch, rebase>>,
         phase' \notin Writing \cup {"park"}, phase' = "pick" => phase = "pick",
         phase \in Writing => job.call \notin Alive'
  PROVE  TreeInv'
<1>1. Held' = Held
  BY DEF Held, RebaseIds
<1>2. Alive' \subseteq Alive
  BY DEF Fading
<1>3. \A d \in Docs : Changing(d) \cap Alive' = {}
  BY DEF Changing
<1> QED
  BY <1>1, <1>2, <1>3 DEF TreeInv, Writing

\* A checkout leaves no edit of the calls but those it brings.
LEMMA CheckoutTree ==
  ASSUME TreeInv, Fading, phase \notin Writing, NEW content, Checkout(content)
  PROVE  \A d \in Docs : /\ tree'[d] \cap Alive' \subseteq content[d]
                         /\ index'[d] = {} => tree'[d] \cap Alive' = {}
<1>1. Alive' \subseteq Alive
  BY DEF Fading
<1>2. \A d \in Docs : index[d] = {} => tree[d] \cap Alive' = {}
  BY <1>1 DEF TreeInv, Changing
<1>3. \A d \in Docs : /\ index'[d] = content[d]
                      /\ tree'[d] = IF index[d] = {} /\ content[d] = {} THEN tree[d] ELSE content[d]
  BY DEF Checkout
<1> QED
  BY <1>2, <1>3

LEMMA TreeReset ==
  ASSUME TreeInv, Fading, phase \notin Writing, Checkout(branch'.content), rebase' = None,
         phase' \notin Writing \cup {"pick"}
  PROVE  TreeInv'
BY CheckoutTree DEF TreeInv, Changing, Writing

LEMMA KeptQuiet ==
  ASSUME TypeInv, KeptInv, Fading, branch' = branch, parked \subseteq parked',
         job'.why = "push" => job.why = "push" /\ job'.pre = job.pre /\ job'.call = job.call,
         Replaying' => Replaying /\ rebase' = rebase
  PROVE  KeptInv'
<1>1. /\ remote.ids \subseteq remote'.ids
      /\ Writers' \cap (Held \cup {job.call}) \subseteq Writers
      /\ branch.ids \subseteq Held
  BY DEF Fading, Held, BranchIds
<1>2. ASSUME Replaying'
      PROVE  branch.ids \cap Writers' \subseteq remote'.ids \cup rebase.tip.ids \cup OwnIds(rebase.todo)
  BY <1>1, <1>2 DEF KeptInv
<1>3. UNION {b.ids : b \in parked} \subseteq UNION {b.ids : b \in parked'}
  OBVIOUS
<1>4. ASSUME NEW w \in Writers', outcome'[w] = "saved"
      PROVE  w \in branch.ids \cup remote'.ids \cup UNION {b.ids : b \in parked'}
  <2>1. CASE w \in Writers /\ outcome[w] = "saved"
    BY <1>1, <1>3, <2>1 DEF KeptInv
  <2>2. CASE w = job.call /\ (Push \/ Pending)
    <3>1. job.why = "push" /\ w \in Writers
      BY <1>1, <1>4, <2>2 DEF Push, Pending, TypeInv, JobInv
    <3> QED
      BY <1>1, <2>2, <3>1 DEF KeptInv
  <2> QED
    BY <1>4, <2>1, <2>2 DEF Fading
<1> QED
  BY <1>1, <1>2, <1>4 DEF KeptInv

LEMMA IdleStep ==
  ASSUME TypeInv, PlacesInv, Fading, UNCHANGED <<branch, rebase, tree, index>>,
         parked \subseteq parked',
         phase' \notin Writing \cup {"park", "pick", "stopped"},
         phase \in Writing => job.call \notin Alive',
         job'.why = "push" => job.why = "push" /\ job'.pre = job.pre /\ job'.call = job.call
  PROVE  PlacesInv'
<1>1. ~Replaying' /\ phase' \notin Writing \cup {"park"} /\ phase' # "pick"
  BY DEF Replaying
<1>2. BranchInv'
  BY <1>1, BranchQuiet DEF PlacesInv
<1>3. TreeInv'
  BY <1>1, TreeQuiet DEF PlacesInv
<1>4. KeptInv'
  BY <1>1, KeptQuiet DEF PlacesInv
<1> QED
  BY <1>2, <1>3, <1>4 DEF PlacesInv

\* The world outside the lock.
LEMMA OutsidePlaces ==
  ASSUME TypeInv, PlacesInv, Fading,
         \/ UNCHANGED vars \/ MarkPulled
         \/ \E e \in Others, d \in Docs : OtherPush(e, d)
         \/ \E w \in Calls, kind \in Kinds, d \in Docs : Ask(w, kind, d)
         \/ \E d \in Docs : IndexDoc(d)
  PROVE  PlacesInv'
<1>1. UNCHANGED <<fetched, branch, rebase, parked, tree, index, phase, job>>
  BY DEF vars, MarkPulled, OtherPush, Ask, IndexDoc, clone, files
<1>2. phase \in Writing => ask'[job.call] = ask[job.call]
  BY DEF vars, MarkPulled, OtherPush, Ask, IndexDoc, clone, files, calls, Writing, TypeInv,
         TypeOK, JobInv
<1>3. phase \in Writing => Doc' = Doc
  BY <1>1, <1>2 DEF Doc
<1>4. Replaying' = Replaying
  BY <1>1 DEF Replaying
<1>5. BranchInv' /\ KeptInv'
  BY <1>1, <1>4, BranchQuiet, KeptQuiet DEF PlacesInv
<1>6. TreeInv'
  <2>1. Held' = Held /\ \A d \in Docs : Changing(d)' = Changing(d)
    BY <1>1, <1>3 DEF Held, RebaseIds, Changing
  <2>2. Alive' \subseteq Alive /\ (job.call \in Writers' => job.call \in Writers)
    BY DEF Fading
  <2> QED
    BY <1>1, <1>3, <2>1, <2>2 DEF PlacesInv, TreeInv, Writing
<1> QED
  BY <1>5, <1>6 DEF PlacesInv

\* Steps that leave the branch and the files alone.
LEMMA IdlePlaces ==
  ASSUME TypeInv, PlacesInv, Fading,
         \/ StartPull \/ \E w \in Calls : StartWrite(w)
         \/ SyncFetch \/ PullEnds \/ SyncEnds \/ RebaseRefused \/ Refuse
         \/ PushFetch \/ Diff \/ Push \/ PushRejected \/ Pending \/ Crash
  PROVE  PlacesInv'
<1>1. CASE StartPull \/ \E w \in Calls : StartWrite(w)
  BY <1>1, IdleStep DEF StartPull, StartWrite, Lock, clone, files, Writing, NoJob
<1>2. CASE SyncFetch \/ PullEnds \/ RebaseRefused
  BY <1>2, IdleStep
     DEF SyncFetch, PullEnds, RebaseRefused, AtRebase, WithoutRebase, EndPull, clone, files,
         Writing, NoJob
<1>3. CASE SyncEnds
  <2>1. job.why = "sync" /\ job \in Job
    BY <1>3 DEF SyncEnds, TypeInv, TypeOK, JobInv
  <2>2. job'.why = "sync"
    BY <1>3, <2>1 DEF SyncEnds, Return, NoJob, Job
  <2> QED
    BY <1>3, <2>2, IdleStep DEF SyncEnds, Return, clone, files, Writing
<1>4. CASE Refuse \/ Push \/ Pending
  BY <1>4, IdleStep DEF Refuse, Push, Pending, Return, clone, files, Writing, NoJob
<1>5. CASE PushFetch \/ PushRejected
  BY <1>5, IdleStep DEF PushFetch, PushRejected, clone, files, Writing
<1>6. CASE Diff
  <2>1. job.why = "push" /\ job'.call = job.call /\ job'.pre = job.pre
    BY <1>6 DEF Diff, TypeInv, TypeOK, JobInv, Job
  <2> QED
    BY <1>6, <2>1, IdleStep DEF Diff, clone, files, Writing
<1>7. CASE Crash
  <2>1. job.call \in Calls => outcome[job.call] = "asked" /\ outcome'[job.call] = "unknown"
    BY <1>7 DEF Crash, TypeInv, JobInv
  <2>2. job.call \notin Alive'
    BY <2>1 DEF Alive
  <2> QED
    BY <1>7, <2>2, IdleStep DEF Crash, clone, Writing, NoJob
<1> QED
  BY <1>1, <1>2, <1>3, <1>4, <1>5, <1>6, <1>7

FetchedBranch == [ids |-> fetched.ids, content |-> fetched.content, own |-> <<>>]

\* The branch goes to FETCH_HEAD: by a fast-forward, or after it has been parked.
LEMMA ToFetchedStep ==
  ASSUME TypeInv, PlacesInv, Fading, rebase = None, rebase' = None,
         phase \in {"integrate", "park"}, phase' = "synced", job' = job,
         branch' = FetchedBranch, Checkout(fetched.content),
         parked \subseteq parked', branch.ids \subseteq remote.ids \/ branch \in parked'
  PROVE  PlacesInv'
<1>1. /\ ~Replaying' /\ job'.why = "sync"
      /\ phase \notin Writing /\ phase' \notin Writing \cup {"pick"}
      /\ branch'.content = fetched.content
  BY DEF Replaying, Writing, FetchedBranch, TypeInv, JobInv
<1>2. BranchInv'
  BY <1>1, BranchesStay DEF PlacesInv, BranchInv, Fading, FetchedBranch
<1>3. TreeInv'
  BY <1>1, TreeReset DEF PlacesInv
<1>4. ASSUME NEW w \in Writers', outcome'[w] = "saved"
      PROVE  w \in remote'.ids \cup UNION {b.ids : b \in parked'}
  <2>1. w \in Writers /\ outcome[w] = "saved"
    BY <1>1, <1>4 DEF Fading, Push, Pending
  <2>2. w \in branch.ids \cup remote.ids \cup UNION {b.ids : b \in parked}
    BY <2>1 DEF PlacesInv, KeptInv
  <2>3. remote.ids \subseteq remote'.ids
    BY DEF Fading
  <2> QED
    BY <2>2, <2>3
<1>5. KeptInv'
  BY <1>1, <1>4 DEF KeptInv
<1> QED
  BY <1>2, <1>3, <1>5 DEF PlacesInv

LEMMA FastForwardPlaces == ASSUME TypeInv, PlacesInv, Fading, FastForward PROVE PlacesInv'
<1>1. phase = "integrate" /\ phase' = "synced" /\ UNCHANGED <<rebase, parked, job>>
  BY DEF FastForward
<1>2. CASE UNCHANGED <<branch, files>>
  BY <1>1, <1>2, IdleStep DEF files, Writing
<1>3. CASE CanFastForward /\ branch' = FetchedBranch /\ Checkout(fetched.content)
  <2>1. rebase = None /\ branch.ids \subseteq remote.ids
    BY <1>3 DEF CanFastForward, PlacesInv, BranchInv
  <2> QED
    BY <1>1, <1>3, <2>1, ToFetchedStep
<1> QED
  BY <1>2, <1>3 DEF FastForward, FetchedBranch

LEMMA ParkPlaces == ASSUME TypeInv, PlacesInv, Fading, Park PROVE PlacesInv'
<1>1. phase = "park" /\ rebase = None /\ rebase' = None /\ job.why = "sync"
  BY DEF Park, PlacesInv, TreeInv, TypeInv, JobInv
<1>2. CASE /\ parked' = parked \cup Unsynced /\ branch' = FetchedBranch
           /\ Checkout(fetched.content) /\ phase' = "synced" /\ UNCHANGED job
  <2>1. branch.ids \subseteq remote.ids \/ branch \in parked'
    BY <1>2 DEF Unsynced, PlacesInv, BranchInv
  <2> QED
    BY <1>1, <1>2, <2>1, ToFetchedStep
<1>3. CASE /\ parked' \in {parked, parked \cup Unsynced} /\ WithoutRebase
           /\ UNCHANGED <<branch, tree, index>>
  BY <1>1, <1>3, IdleStep DEF WithoutRebase, EndPull, Writing, NoJob
<1> QED
  BY <1>2, <1>3 DEF Park, FetchedBranch

\* A rebase that ends without having moved the branch.
LEMMA BackToBranchStep ==
  ASSUME TypeInv, PlacesInv, Fading, UNCHANGED <<branch, parked>>, rebase' = None,
         Checkout(branch.content), phase \notin Writing,
         phase' \notin Writing \cup {"pick", "stopped"},
         job' = job \/ job'.why = "sync"
  PROVE  PlacesInv'
<1>1. ~Replaying' /\ Checkout(branch'.content)
  BY DEF Replaying
<1>2. BranchInv' /\ KeptInv'
  BY <1>1, BranchQuiet, KeptQuiet DEF PlacesInv
<1>3. TreeInv'
  BY <1>1, TreeReset DEF PlacesInv
<1> QED
  BY <1>2, <1>3 DEF PlacesInv

LEMMA AbortRebasePlaces == ASSUME TypeInv, PlacesInv, Fading, AbortRebase PROVE PlacesInv'
BY BackToBranchStep DEF AbortRebase, Writing

LEMMA RecoverPlaces == ASSUME TypeInv, PlacesInv, Fading, Recover PROVE PlacesInv'
<1>1. /\ phase = "down" /\ phase' = "free" /\ rebase' = None /\ job' = job
      /\ UNCHANGED <<branch, parked>> /\ job.why = "sync"
  BY DEF Recover, TypeInv, JobInv, NoJob
<1>2. CASE rebase = None /\ UNCHANGED <<tree, index>>
  BY <1>1, <1>2, IdleStep DEF Writing
<1>3. CASE Checkout(branch.content)
  BY <1>1, <1>3, BackToBranchStep DEF Writing
<1> QED
  BY <1>2, <1>3 DEF Recover

LEMMA RebaseKilledPlaces == ASSUME TypeInv, PlacesInv, Fading, RebaseKilled PROVE PlacesInv'
<1>1. /\ phase = "pick" /\ phase' \in {"pending", "synced", "free"}
      /\ UNCHANGED <<branch, parked>> /\ (job' = job \/ job'.why = "sync")
  BY DEF RebaseKilled, WithoutRebase, EndPull, NoJob
<1>2. CASE rebase' = None /\ Checkout(branch.content)
  BY <1>1, <1>2, BackToBranchStep DEF Writing
<1>3. CASE UNCHANGED <<rebase, tree, index>>
  BY <1>1, <1>3, IdleStep DEF Writing
<1> QED
  BY <1>2, <1>3 DEF RebaseKilled

LEMMA HeldTip ==
  ASSUME TypeInv, Replaying
  PROVE  /\ rebase \in Rebasing /\ rebase # None
         /\ rebase.tip.ids \cup branch.ids \cup OwnIds(rebase.todo) \subseteq Held
BY ConstantsAssumption
   DEF Replaying, TypeInv, JobInv, Rebasing, Held, RebaseIds, BranchIds

LEMMA RebaseStartsPlaces == ASSUME TypeInv, PlacesInv, Fading, RebaseStarts PROVE PlacesInv'
<1>1. /\ phase \in {"integrate", "rebase"} /\ rebase = None
      /\ UNCHANGED <<fetched, branch, parked, job>>
  BY DEF RebaseStarts, AtRebase
<1>2. CASE phase' = "diff" /\ UNCHANGED <<rebase, files>>
  BY <1>1, <1>2, IdleStep DEF files, Writing
<1>3. CASE /\ rebase' = [tip |-> FetchedBranch, todo |-> branch.own]
           /\ Checkout(fetched.content) /\ phase' = "pick"
  <2>1. /\ rebase'.tip = FetchedBranch /\ rebase'.todo = branch.own /\ Replaying'
        /\ rebase'.tip.ids = fetched.ids /\ rebase'.tip.content = fetched.content
        /\ rebase'.tip.own = <<>> /\ OwnIds(<<>>) = {}
    BY <1>3 DEF FetchedBranch, OwnIds, Replaying
  <2>2. rebase' # None
    <3>1. branch.own \in Seq(Commit) /\ FetchedBranch \in Branch
      BY TipIsBranch DEF TypeInv, TypeOK, Branch, FetchedBranch
    <3> QED
      BY <1>3, <3>1, ConstantsAssumption
  <2>3. /\ SoundBranch(Alive', Writers', remote'.ids, FetchedBranch)
        /\ SoundBranch(Alive', Writers', remote'.ids, branch)
        /\ job.why = "push" => SoundBranch(Alive', Writers', remote'.ids, job.pre)
    BY BranchesStay DEF FetchedBranch, PlacesInv
  <2>4. /\ Commits(Alive', Writers', branch.own)
        /\ \A i \in DOMAIN branch.own : branch.own[i].to \cap Alive' \subseteq branch.ids
    BY <2>3 DEF SoundBranch
  <2>5. BranchInv'
    BY <1>1, <2>1, <2>3, <2>4 DEF BranchInv, Fading
  <2>6. TreeInv'
    <3>1. \A d \in Docs : /\ tree'[d] \cap Alive' \subseteq fetched.content[d]
                          /\ index'[d] = {} => tree'[d] \cap Alive' = {}
      BY <1>1, <1>3, CheckoutTree DEF PlacesInv, Writing
    <3>2. \A d \in Docs : fetched.content[d] \cap Alive' \subseteq fetched.ids
      BY <2>3 DEF SoundBranch, Holds, FetchedBranch
    <3>3. fetched.ids \subseteq Held'
      BY <2>1, <2>2 DEF Held, RebaseIds, BranchIds
    <3>4. \A d \in Docs : tree'[d] \cap Alive' \subseteq Held'
      BY <3>1, <3>2, <3>3
    <3> QED
      BY <1>3, <2>1, <2>2, <3>1, <3>4 DEF TreeInv, Writing
  <2>7. KeptInv'
    <3>1. branch.ids \subseteq remote'.ids \cup OwnIds(branch.own)
      BY <2>3 DEF SoundBranch
    <3>2. OwnIds(branch.own) \subseteq branch.ids /\ fetched.ids \subseteq remote'.ids
      BY <1>1, <2>3 DEF SoundBranch, Fading
    <3>3. /\ Writers' \cap {job.call} \subseteq Writers /\ remote.ids \subseteq remote'.ids
          /\ \A w \in Writers' : outcome'[w] = "saved" => w \in Writers /\ outcome[w] = "saved"
      BY <1>1 DEF Fading, Push, Pending
    <3> QED
      BY <1>1, <2>1, <3>1, <3>2, <3>3 DEF PlacesInv, KeptInv
  <2> QED
    BY <2>5, <2>6, <2>7 DEF PlacesInv
<1> QED
  BY <1>2, <1>3 DEF RebaseStarts, FetchedBranch

\* The rebase goes on: the head of what is left is done with, and the tip has it if it is
\* of a call that is to be kept and the remote has not got it.
LEMMA ReplayStep ==
  ASSUME TypeInv, PlacesInv, Fading, phase = "pick", phase' = "pick", rebase.todo # <<>>,
         UNCHANGED <<remote, fetched, branch, parked, job>>,
         rebase' \in Rebasing, rebase'.todo = Tail(rebase.todo),
         SoundBranch(Alive', Writers', remote'.ids, rebase'.tip),
         rebase'.tip.ids \subseteq fetched.ids \cup OwnIds(rebase'.tip.own),
         rebase.tip.ids \subseteq rebase'.tip.ids,
         rebase'.tip.ids \subseteq rebase.tip.ids \cup {Head(rebase.todo).id},
         OwnIds(rebase'.tip.own) \subseteq OwnIds(rebase.tip.own) \cup {Head(rebase.todo).id},
         Head(rebase.todo).id \in Writers' =>
           Head(rebase.todo).id \in remote.ids \cup rebase'.tip.ids,
         \A d \in Docs : tree'[d] \cap Alive' \subseteq rebase'.tip.content[d],
         \A d \in Docs : index'[d] = {} => tree'[d] \cap Alive' = {}
  PROVE  PlacesInv'
<1> DEFINE h == Head(rebase.todo).id
<1>1. /\ rebase \in Rebasing /\ rebase.todo \in Seq(Commit) /\ Replaying /\ Replaying'
      /\ rebase' # None
  BY ConstantsAssumption DEF TypeInv, JobInv, Rebasing, Replaying
<1>2. /\ Commits(Alive', Writers', rebase.todo)
      /\ \A i \in DOMAIN rebase.todo : rebase.todo[i].to \cap Alive' \subseteq branch.ids
      /\ SoundBranch(Alive', Writers', remote'.ids, branch)
      /\ job.why = "push" => SoundBranch(Alive', Writers', remote'.ids, job.pre)
  BY <1>1, BranchesStay DEF PlacesInv
<1>3. /\ Commits(Alive', Writers', Tail(rebase.todo))
      /\ h \notin OwnIds(Tail(rebase.todo))
      /\ OwnIds(rebase.todo) = OwnIds(Tail(rebase.todo)) \cup {h}
  BY <1>1, <1>2, CommitsOfTail
<1>4. \A i \in DOMAIN Tail(rebase.todo) : Tail(rebase.todo)[i].to \cap Alive' \subseteq branch.ids
  <2>1. /\ DOMAIN rebase.todo = 1 .. Len(rebase.todo) /\ Len(rebase.todo) \in Nat \ {0}
        /\ DOMAIN Tail(rebase.todo) = 1 .. Len(rebase.todo) - 1
        /\ \A i \in 1 .. Len(rebase.todo) - 1 : Tail(rebase.todo)[i] = rebase.todo[i + 1]
    BY <1>1, HeadTailProperties, LenProperties, EmptySeq
  <2>2. ASSUME NEW i \in DOMAIN Tail(rebase.todo)
        PROVE  i + 1 \in DOMAIN rebase.todo /\ Tail(rebase.todo)[i] = rebase.todo[i + 1]
    BY <2>1, <2>2
  <2> QED
    BY <1>2, <2>2
<1>5. OwnIds(rebase'.tip.own) \cap OwnIds(Tail(rebase.todo)) = {}
  BY <1>1, <1>3 DEF PlacesInv, BranchInv
<1>6. BranchInv'
  BY <1>1, <1>2, <1>3, <1>4, <1>5 DEF BranchInv, Fading
<1>7. TreeInv'
  <2>1. \A d \in Docs : rebase'.tip.content[d] \cap Alive' \subseteq rebase'.tip.ids
    BY DEF SoundBranch, Holds
  <2>2. rebase'.tip.ids \subseteq Held'
    BY <1>1 DEF Held, RebaseIds, BranchIds
  <2>3. \A d \in Docs : tree'[d] \cap Alive' \subseteq Held'
    BY <2>1, <2>2
  <2> QED
    BY <1>1, <2>3 DEF TreeInv, Writing
<1>8. KeptInv'
  <2>1. /\ Writers' \cap (Held \cup {job.call}) \subseteq Writers
        /\ branch.ids \subseteq Held
    BY DEF Fading, Held, BranchIds
  <2>2. branch.ids \cap Writers' \subseteq remote.ids \cup rebase'.tip.ids \cup OwnIds(Tail(rebase.todo))
    BY <1>1, <1>3, <2>1 DEF PlacesInv, KeptInv
  <2>3. job.why = "push" =>
          rebase'.tip.ids \cup OwnIds(Tail(rebase.todo))
            \subseteq job.pre.ids \cup remote.ids \cup {job.call}
    BY <1>1, <1>3 DEF PlacesInv, KeptInv
  <2>4. \A w \in Writers' : outcome'[w] = "saved" => w \in Writers /\ outcome[w] = "saved"
    BY DEF Fading, Push, Pending
  <2> QED
    BY <2>1, <2>2, <2>3, <2>4 DEF PlacesInv, KeptInv
<1> QED
  BY <1>6, <1>7, <1>8 DEF PlacesInv

LEMMA SkipPushedPlaces == ASSUME TypeInv, PlacesInv, Fading, SkipPushed PROVE PlacesInv'
<1>1. /\ phase = "pick" /\ phase' = "pick" /\ rebase.todo # <<>>
      /\ UNCHANGED <<remote, fetched, branch, parked, job, tree, index>>
      /\ Head(rebase.todo).id \in fetched.ids
  BY DEF SkipPushed, Unpushed, files
<1>2. rebase \in Rebasing /\ rebase.todo # <<>> /\ Tail(rebase.todo) \in Seq(Commit) /\ Replaying
  BY <1>1, HeadCommit DEF Replaying
<1>3. rebase' \in Rebasing /\ rebase'.tip = rebase.tip /\ rebase'.todo = Tail(rebase.todo)
  BY <1>2 DEF SkipPushed, Rebasing
<1>4. /\ SoundBranch(Alive', Writers', remote'.ids, rebase.tip)
      /\ rebase.tip.ids \subseteq fetched.ids \cup OwnIds(rebase.tip.own)
      /\ fetched.ids \subseteq remote.ids
  BY <1>2, BranchesStay DEF PlacesInv, BranchInv
<1>5. /\ \A d \in Docs : tree'[d] \cap Alive' \subseteq rebase'.tip.content[d]
      /\ \A d \in Docs : index'[d] = {} => tree'[d] \cap Alive' = {}
  BY <1>1, <1>3 DEF PlacesInv, TreeInv, Changing, Writing, Fading
<1> QED
  BY <1>1, <1>2, <1>3, <1>4, <1>5, ReplayStep

LEMMA PickPlaces == ASSUME TypeInv, PlacesInv, Fading, Pick PROVE PlacesInv'
<1> DEFINE c == Head(rebase.todo)
           cur == rebase.tip.content[c.doc]
           new == Merge(c.from, cur, c.to)
           content == [rebase.tip.content EXCEPT ![c.doc] = new]
           replayed == [c EXCEPT !.from = cur, !.to = new]
           own == Append(rebase.tip.own, replayed)
           tip == [ids |-> rebase.tip.ids \cup {c.id}, content |-> content, own |-> own]
<1>1. /\ rebase \in Rebasing /\ rebase.tip.content \in Tree /\ c \in Commit
      /\ Tail(rebase.todo) \in Seq(Commit) /\ c.doc \in Docs /\ cur \in Content
      /\ rebase.todo \in Seq(Commit) /\ rebase.todo # <<>> /\ rebase.tip \in Branch
      /\ Replaying
  BY HeadCommit DEF Pick, Rebasing, Replaying
<1>2. new \in Content
  BY <1>1, MergeType DEF Commit
<1>3. /\ replayed \in Commit /\ replayed.id = c.id /\ replayed.doc = c.doc
      /\ replayed.from = cur /\ replayed.to = new
  BY <1>1, <1>2 DEF Commit
<1>4. /\ SoundBranch(Alive', Writers', remote'.ids, rebase.tip)
      /\ Commits(Alive', Writers', rebase.todo)
      /\ rebase.tip.ids \subseteq fetched.ids \cup OwnIds(rebase.tip.own)
      /\ OwnIds(rebase.tip.own) \cap OwnIds(rebase.todo) = {}
  BY <1>1, BranchesStay DEF PlacesInv, BranchInv
<1>5. /\ c.id \in OwnIds(rebase.todo)
      /\ c.id \in Writers' => c.id \in c.to \ c.from
      /\ (c.to \ c.from) \cap Alive' \subseteq {c.id}
  <2>1. c.id \in OwnIds(rebase.todo)
    BY <1>1, OwnIdsOfTail
  <2>2. c.id \in Writers' => c.id \in c.to \ c.from
    BY <1>1, <1>4, CommitsOfTail
  <2>3. (c.to \ c.from) \cap Alive' \subseteq {c.id}
    BY <1>1, <1>4, CommitsOfTail
  <2> QED
    BY <2>1, <2>2, <2>3
<1>6. c.id \notin fetched.ids
  BY DEF Pick, Unpushed
<1>7. c.id \notin OwnIds(rebase.tip.own)
  BY <1>4, <1>5
<1>8. new \subseteq cur \cup (c.to \ c.from) /\ (c.to \ c.from) \subseteq new
  BY MergeAdds
<1>9. Writers' \subseteq Alive'
  BY DEF Writers
<1>10. cur \cap Alive' \subseteq rebase.tip.ids
  BY <1>1, <1>4 DEF SoundBranch, Holds
<1>11. c.id \in Writers' => c.id \in new \ cur
  BY <1>4, <1>5, <1>6, <1>7, <1>8, <1>9, <1>10
<1>12. (new \ cur) \cap Alive' \subseteq {c.id}
  BY <1>5, <1>8
<1>13. /\ OwnIds(own) = OwnIds(rebase.tip.own) \cup {c.id}
       /\ SoundBranch(Alive', Writers', remote'.ids, tip)
  <2>1. rebase.tip.own \in Seq(Commit)
    BY <1>1 DEF Branch
  <2>2. OwnIds(own) = OwnIds(rebase.tip.own) \cup {c.id}
    BY <1>3, <2>1, OwnIdsOfAppend
  <2>3. SoundBranch(Alive', Writers', remote'.ids,
          [ids |-> rebase.tip.ids \cup {replayed.id},
           content |-> [rebase.tip.content EXCEPT ![replayed.doc] = replayed.to],
           own |-> Append(rebase.tip.own, replayed)])
    <3> HIDE DEF c, cur, new, replayed
    <3>1. replayed.from = rebase.tip.content[replayed.doc]
      BY <1>3 DEF cur
    <3>2. replayed.id \notin OwnIds(rebase.tip.own)
      BY <1>3, <1>7
    <3>3. replayed.id \in Writers' => replayed.id \in replayed.to \ replayed.from
      BY <1>3, <1>11
    <3>4. (replayed.to \ replayed.from) \cap Alive' \subseteq {replayed.id}
      BY <1>3, <1>12
    <3> QED
      BY <1>1, <1>3, <1>4, <3>1, <3>2, <3>3, <3>4, SoundAppend
  <2> QED
    BY <1>3, <2>2, <2>3
<1>14. /\ rebase' = [tip |-> IF new = cur THEN rebase.tip ELSE tip, todo |-> Tail(rebase.todo)]
       /\ Checkout(content) /\ phase = "pick" /\ phase' = "pick"
       /\ UNCHANGED <<remote, fetched, branch, parked, job>>
  BY DEF Pick
<1>15. tip \in Branch
  <2>1. content \in Tree
    BY <1>1, <1>2 DEF Tree
  <2>2. own \in Seq(Commit)
    BY <1>1, <1>3, AppendProperties DEF Branch
  <2> QED
    BY <1>1, <2>1, <2>2 DEF Branch, Commit, Edits
<1>16. \A d \in Docs : content[d] = IF d = c.doc THEN new ELSE rebase.tip.content[d]
  BY <1>1 DEF Tree
<1>17. tip.content = content /\ tip.ids = rebase.tip.ids \cup {c.id} /\ tip.own = own
  OBVIOUS
<1> HIDE DEF tip, own, replayed, content, new, cur
<1>18. /\ rebase' \in Rebasing /\ rebase'.todo = Tail(rebase.todo)
       /\ rebase'.tip = IF new = cur THEN rebase.tip ELSE tip
  BY <1>1, <1>14, <1>15 DEF Rebasing
<1>19. \A d \in Docs : rebase'.tip.content[d] = content[d]
  BY <1>16, <1>17, <1>18 DEF cur
<1>20. \A d \in Docs : /\ tree'[d] \cap Alive' \subseteq content[d]
                       /\ index'[d] = {} => tree'[d] \cap Alive' = {}
  BY <1>14, CheckoutTree DEF PlacesInv, Writing
<1>21. /\ SoundBranch(Alive', Writers', remote'.ids, rebase'.tip)
       /\ rebase.tip.ids \subseteq rebase'.tip.ids
       /\ rebase'.tip.ids \subseteq rebase.tip.ids \cup {c.id}
       /\ OwnIds(rebase'.tip.own) \subseteq OwnIds(rebase.tip.own) \cup {c.id}
       /\ rebase'.tip.ids \subseteq fetched.ids \cup OwnIds(rebase'.tip.own)
       /\ c.id \in Writers' => c.id \in rebase'.tip.ids
  BY <1>4, <1>11, <1>13, <1>17, <1>18
<1> QED
  BY <1>1, <1>14, <1>18, <1>19, <1>20, <1>21, ReplayStep

\* Between conflict markers are the tip's content and that of the commit in hand.
LEMMA PickConflictsPlaces ==
  ASSUME TypeInv, PlacesInv, Fading, PickConflicts
  PROVE  PlacesInv'
<1> DEFINE c == Head(rebase.todo)
           both == rebase.tip.content[c.doc] \cup c.to
<1>1. /\ phase = "pick" /\ phase' = "stopped" /\ UNCHANGED <<remote, clone, job>>
      /\ tree' = [tree EXCEPT ![c.doc] = both] /\ index' = [index EXCEPT ![c.doc] = both]
      /\ rebase.todo # <<>>
  BY DEF PickConflicts
<1>2. /\ Replaying /\ Replaying' /\ rebase \in Rebasing /\ rebase # None
      /\ c.doc \in Docs /\ tree \in Tree /\ index \in Tree
      /\ rebase.tip.ids \cup branch.ids \subseteq Held
  BY <1>1, HeldTip, HeadCommit DEF Replaying, TypeInv, TypeOK
<1>3. UNCHANGED <<fetched, branch, rebase, parked>> /\ Held' = Held
  BY <1>1 DEF clone, Held, RebaseIds
<1>4. BranchInv' /\ KeptInv'
  BY <1>1, <1>2, <1>3, BranchQuiet, KeptQuiet DEF PlacesInv
<1>5. both \cap Alive' \subseteq Held
  <2>1. c = rebase.todo[1] /\ 1 \in DOMAIN rebase.todo
    <3>1. rebase.todo \in Seq(Commit) /\ Len(rebase.todo) \in Nat \ {0}
          /\ DOMAIN rebase.todo = 1 .. Len(rebase.todo)
      BY <1>1, <1>2, LenProperties, EmptySeq DEF Rebasing
    <3> QED
      BY <3>1
  <2>2. c.to \cap Alive' \subseteq branch.ids
    BY <1>2, <2>1, BranchesStay DEF PlacesInv
  <2>3. rebase.tip.content[c.doc] \cap Alive' \subseteq rebase.tip.ids
    BY <1>2, BranchesStay DEF PlacesInv, SoundBranch, Holds
  <2> QED
    BY <1>2, <2>2, <2>3
<1>6. /\ Alive' \subseteq Alive
      /\ \A d \in Docs : tree[d] \cap Alive \subseteq Held /\ (index[d] = {} => tree[d] \cap Alive = {})
  BY <1>1, <1>2 DEF Fading, PlacesInv, TreeInv, Changing, Writing
<1> HIDE DEF both, c
<1>7. \A d \in Docs : /\ tree'[d] \cap Alive' \subseteq Held
                      /\ index'[d] = {} => tree'[d] \cap Alive' = {}
  BY <1>1, <1>2, <1>5, <1>6 DEF Tree
<1>8. TreeInv'
  BY <1>1, <1>2, <1>3, <1>7 DEF TreeInv, Writing
<1> QED
  BY <1>4, <1>8 DEF PlacesInv

\* A rebase that has ended, known or not: the commit in hand stays in hand.
LEMMA KeepsCommit ==
  ASSUME TypeInv, RebaseKilledLate
  PROVE  /\ job'.why = "push" => job.why = "push" /\ job'.pre = job.pre /\ job'.call = job.call
         /\ job.why = "push" => job'.why = "push" /\ job'.call = job.call
<1>1. job \in Job /\ NoJob.why = "sync"
  BY DEF TypeInv, TypeOK, NoJob
<1>2. CASE UNCHANGED job
  BY <1>2
<1>3. CASE job.why = "sync" /\ job' = NoJob
  BY <1>1, <1>3
<1>4. CASE job' = [job EXCEPT !.old = rebase.tip.content]
  BY <1>1, <1>4 DEF Job
<1> QED
  BY <1>2, <1>3, <1>4 DEF RebaseKilledLate, EndPull

LEMMA RebaseEndsPlaces ==
  ASSUME TypeInv, PlacesInv, Fading, RebaseEnds \/ RebaseKilledLate
  PROVE  PlacesInv'
<1>1. /\ phase = "pick" /\ phase' \in {"synced", "diff", "free", "pending"}
      /\ rebase.todo = <<>>
      /\ branch' = rebase.tip /\ rebase' = None /\ Replaying /\ ~Replaying'
      /\ UNCHANGED <<remote, fetched, parked, tree, index>>
      /\ job'.why = "push" => job.why = "push" /\ job'.pre = job.pre /\ job'.call = job.call
  BY KeepsCommit DEF RebaseEnds, files, Replaying, RebaseKilledLate, EndPull
<1>2. OwnIds(<<>>) = {}
  BY DEF OwnIds
<1>3. BranchInv'
  BY <1>1, BranchesStay DEF PlacesInv, BranchInv, Fading
<1>4. TreeInv'
  <2>1. /\ \A d \in Docs : tree[d] \cap Alive' \subseteq rebase.tip.content[d]
        /\ \A d \in Docs : index[d] = {} => tree[d] \cap Alive' = {}
    BY <1>1 DEF PlacesInv, TreeInv, Changing, Writing, Fading
  <2> QED
    BY <1>1, <2>1 DEF TreeInv, Writing
<1>5. KeptInv'
  <2>1. /\ branch.ids \cap Writers \subseteq remote.ids \cup rebase.tip.ids
        /\ job.why = "push" => rebase.tip.ids \subseteq job.pre.ids \cup remote.ids \cup {job.call}
        /\ job.why = "push" /\ job.call \in Writers => job.call \in branch.ids \cup remote.ids
    BY <1>1, <1>2 DEF PlacesInv, KeptInv
  <2>2. /\ Writers' \cap {job.call} \subseteq Writers
        /\ \A w \in Writers' : outcome'[w] = "saved" => w \in Writers /\ outcome[w] = "saved"
    BY <1>1 DEF Fading, Push, Pending
  <2>3. \A w \in Writers : outcome[w] = "saved" =>
          w \in branch.ids \cup remote.ids \cup UNION {b.ids : b \in parked}
    BY DEF PlacesInv, KeptInv
  <2> QED
    BY <1>1, <2>1, <2>2, <2>3 DEF KeptInv
<1> QED
  BY <1>3, <1>4, <1>5 DEF PlacesInv

\* A step within a write that leaves the working tree and the branch as they are.
LEMMA WritingStep ==
  ASSUME TypeInv, PlacesInv, Fading, UNCHANGED <<branch, rebase, tree, parked, job, ask>>,
         phase \in {"add", "commit"}, phase' \in {"commit", "rollback"},
         \A d \in Docs : index'[d] = {} => tree[d] \cap Alive' \subseteq Changing(d),
         phase' = "commit" => index'[Doc] = tree[Doc]
  PROVE  PlacesInv'
<1>1. /\ ~Replaying' /\ phase' # "park" /\ phase' # "pick" /\ phase' \in Writing
      /\ phase \in Writing /\ Doc' = Doc
  BY DEF Replaying, Writing, Doc
<1>2. BranchInv' /\ KeptInv'
  BY <1>1, BranchQuiet, KeptQuiet DEF PlacesInv
<1>3. Held' = Held /\ \A d \in Docs : Changing(d)' = Changing(d)
  BY <1>1 DEF Held, RebaseIds, Changing
<1>4. /\ Alive' \subseteq Alive /\ (job.call \in Writers' => job.call \in Writers)
      /\ phase' = "commit" => phase \in {"add", "commit"}
  BY DEF Fading
<1>5. TreeInv'
  BY <1>1, <1>3, <1>4 DEF PlacesInv, TreeInv
<1> QED
  BY <1>2, <1>5 DEF PlacesInv

LEMMA WriteFilePlaces ==
  ASSUME TypeInv, SeenInv, PlacesInv, Fading, WriteFile
  PROVE  PlacesInv'
<1>1. PICK new \in Applied(ask[job.call].kind, Seen, Current, job.call) :
        tree' = [tree EXCEPT ![Doc] = new]
  BY DEF WriteFile
<1>2. /\ phase = "apply" /\ phase' = "add" /\ ~Replaying'
      /\ UNCHANGED <<fetched, branch, rebase, parked, index, job, ask>>
  BY DEF WriteFile, clone, calls, Replaying
<1>3. /\ Doc' = Doc /\ Doc \in Docs /\ tree \in Tree /\ outcome[job.call] = "asked"
      /\ ask[job.call].kind \in Kinds
  BY <1>2, CallInHand DEF Doc, TypeInv, TypeOK, Request
<1>4. /\ new \subseteq tree[Doc] \cup {job.call}
      /\ ask[job.call].kind # "delete" /\ job.call \notin Seen => job.call \in new
  BY <1>3, AppliedAdds DEF Current
<1>5. job.call \in Writers' => job.call \in new
  <2>1. job.call \in Writers' => job.call \in Writers
    BY DEF Fading
  <2> QED
    BY <1>4, <2>1 DEF Writers, SeenInv, Seen
<1>6. BranchInv' /\ KeptInv'
  BY <1>2, BranchQuiet, KeptQuiet DEF PlacesInv
<1>7. /\ \A d \in Docs : Changing(d) = {} /\ Changing(d)' = IF d = Doc THEN {job.call} ELSE {}
      /\ Held' = Held /\ Alive' \subseteq Alive
  BY <1>2, <1>3 DEF Changing, Writing, Held, RebaseIds, Fading
<1>8. \A d \in Docs : tree'[d] \subseteq tree[d] \cup Changing(d)'
  BY <1>1, <1>3, <1>4, <1>7 DEF Tree
<1>9. TreeInv'
  <2>1. tree'[Doc] = new
    BY <1>1, <1>3 DEF Tree
  <2>2. ASSUME NEW d \in Docs
        PROVE  /\ rebase = None => tree'[d] \cap Alive' \subseteq branch.content[d] \cup Changing(d)'
               /\ rebase # None => tree'[d] \cap Alive' \subseteq Held \cup Changing(d)'
               /\ index[d] = {} => tree'[d] \cap Alive' \subseteq Changing(d)'
    BY <1>7, <1>8, <2>2 DEF PlacesInv, TreeInv
  <2> QED
    BY <1>2, <1>3, <1>5, <1>7, <2>1, <2>2 DEF TreeInv
<1> QED
  BY <1>6, <1>9 DEF PlacesInv

\* A call that is answered with a failure is no longer live, whatever it leaves in a file.
LEMMA FailStep ==
  ASSUME TypeInv, PlacesInv, Fading, phase \in {"apply", "rollback"},
         UNCHANGED <<fetched, branch, rebase, parked>>, phase' = "free", job' = NoJob,
         job.call \notin Alive', tree \in Tree,
         \A d \in Docs : d # Doc => tree'[d] = tree[d] /\ index'[d] = index[d],
         \/ tree'[Doc] \subseteq tree[Doc] \cup {job.call} /\ index'[Doc] = index[Doc]
         \/ tree'[Doc] = {}
         \/ tree'[Doc] = branch.content[Doc] /\ index'[Doc] = branch.content[Doc]
  PROVE  PlacesInv'
<1>1. /\ ~Replaying' /\ job'.why = "sync" /\ phase' \notin Writing \cup {"pick", "park"}
      /\ Doc \in Docs
  BY CallInHand DEF Replaying, NoJob, Writing
<1>2. BranchInv' /\ KeptInv'
  BY <1>1, BranchQuiet, KeptQuiet DEF PlacesInv
<1>3. /\ \A d \in Docs : Changing(d) \cap Alive' = {}
      /\ Held' = Held /\ Alive' \subseteq Alive
  BY DEF Changing, Held, RebaseIds, Fading
<1>4. \A d \in Docs : branch.content[d] \cap Alive' \subseteq Held
  BY BranchesStay DEF PlacesInv, SoundBranch, Holds, Held, BranchIds
<1>5. ASSUME NEW d \in Docs
      PROVE  /\ rebase = None => tree'[d] \cap Alive' \subseteq branch.content[d]
             /\ rebase # None => tree'[d] \cap Alive' \subseteq Held
             /\ index'[d] = {} => tree'[d] \cap Alive' = {}
  <2>1. /\ rebase = None => tree[d] \cap Alive' \subseteq branch.content[d]
        /\ rebase # None => tree[d] \cap Alive' \subseteq Held
        /\ index[d] = {} => tree[d] \cap Alive' = {}
    BY <1>3 DEF PlacesInv, TreeInv
  <2>2. CASE d # Doc
    BY <2>1, <2>2
  <2>3. CASE d = Doc /\ tree'[Doc] \subseteq tree[Doc] \cup {job.call} /\ index'[Doc] = index[Doc]
    BY <2>1, <2>3
  <2>4. CASE d = Doc /\ tree'[Doc] = {}
    BY <2>4
  <2>5. CASE d = Doc /\ tree'[Doc] = branch.content[Doc] /\ index'[Doc] = branch.content[Doc]
    BY <1>4, <2>5
  <2> QED
    BY <2>2, <2>3, <2>4, <2>5
<1>6. TreeInv'
  BY <1>1, <1>3, <1>5 DEF TreeInv
<1> QED
  BY <1>2, <1>6 DEF PlacesInv

LEMMA FailedNotAlive ==
  ASSUME TypeInv, job.call \in Calls, NEW result \in {"undone", "failed"}, Return(result)
  PROVE  job.call \notin Alive'
BY DEF Return, Alive, TypeInv, TypeOK

LEMMA WriteFailsPlaces == ASSUME TypeInv, PlacesInv, Fading, WriteFails PROVE PlacesInv'
<1>1. /\ phase = "apply" /\ UNCHANGED <<fetched, branch, rebase, parked, index>>
      /\ phase' = "free" /\ job' = NoJob /\ tree \in Tree
  BY DEF WriteFails, Return, clone, TypeInv, TypeOK
<1>2. job.call \in Calls /\ Doc \in Docs
  BY <1>1, CallInHand
<1>3. job.call \notin Alive'
  BY <1>2, FailedNotAlive DEF WriteFails
<1>4. tree' = tree \/ tree' = [tree EXCEPT ![Doc] = {job.call}]
  BY DEF WriteFails
<1>5. /\ \A d \in Docs : d # Doc => tree'[d] = tree[d]
      /\ tree'[Doc] \subseteq tree[Doc] \cup {job.call}
  BY <1>1, <1>2, <1>4 DEF Tree
<1> QED
  BY <1>1, <1>3, <1>5, FailStep

LEMMA RollBackPlaces == ASSUME TypeInv, PlacesInv, Fading, RollBack PROVE PlacesInv'
<1>1. /\ phase = "rollback" /\ UNCHANGED <<fetched, branch, rebase, parked>>
      /\ phase' = "free" /\ job' = NoJob /\ tree \in Tree /\ index \in Tree
  BY DEF RollBack, Return, clone, TypeInv, TypeOK
<1>2. job.call \in Calls /\ Doc \in Docs
  BY <1>1, CallInHand
<1>3. job.call \notin Alive'
  BY <1>2, FailedNotAlive DEF RollBack
<1>4. \/ tree' = RestoredTree /\ index' = RestoredIndex
      \/ tree' \in {tree, RestoredTree} /\ index' = index
         /\ (tree' = RestoredTree => ask[job.call].kind = "create" \/ tree' = tree)
  BY DEF RollBack
<1>5. /\ \A d \in Docs : d # Doc => tree'[d] = tree[d] /\ index'[d] = index[d]
      /\ \/ tree'[Doc] \subseteq tree[Doc] \cup {job.call} /\ index'[Doc] = index[Doc]
         \/ tree'[Doc] = {}
         \/ tree'[Doc] = branch.content[Doc] /\ index'[Doc] = branch.content[Doc]
  BY <1>1, <1>2, <1>4 DEF RestoredTree, RestoredIndex, Tree
<1> QED
  BY <1>1, <1>3, <1>5, FailStep

LEMMA AddPlaces == ASSUME TypeInv, PlacesInv, Fading, Add PROVE PlacesInv'
<1>1. /\ phase = "add" /\ UNCHANGED <<branch, rebase, parked, tree, job, ask>>
  BY DEF Add, clone, calls
<1>2. index \in Tree /\ Doc \in Docs /\ Alive' \subseteq Alive
  BY <1>1, CallInHand DEF TypeInv, TypeOK, Fading
<1>3. \A d \in Docs : index[d] = {} => tree[d] \cap Alive' \subseteq Changing(d)
  BY <1>2 DEF PlacesInv, TreeInv
<1>4. CASE index' = [index EXCEPT ![Doc] = tree[Doc]] /\ phase' = "commit"
  <2>1. /\ index'[Doc] = tree[Doc]
        /\ \A d \in Docs : index'[d] = {} => tree[d] \cap Alive' \subseteq Changing(d)
    BY <1>2, <1>3, <1>4 DEF Tree
  <2> QED
    BY <1>1, <1>4, <2>1, WritingStep
<1>5. CASE index' = index /\ phase' = "rollback"
  BY <1>1, <1>3, <1>5, WritingStep
<1> QED
  BY <1>4, <1>5 DEF Add

\* The commit of the call in hand is new, and is made on what the branch has.
LEMMA NewCommit ==
  ASSUME TypeInv, CleanInv, CommitInv, KilledInv, PlacesInv, Fading, phase = "commit"
  PROVE  /\ SoundBranch(Alive', Writers', remote'.ids, Committed)
         /\ job.call \in Calls /\ rebase = None /\ Doc \in Docs /\ outcome[job.call] = "asked"
         /\ branch.ids \subseteq Committed.ids /\ job.call \in Committed.ids
         /\ \A d \in Docs : Committed.content[d] = IF d = Doc THEN tree[d] ELSE branch.content[d]
         /\ \A d \in Docs : tree[d] \cap Alive' \subseteq Committed.content[d]
         /\ \A d \in Docs : index[d] = {} => tree[d] \cap Alive' \subseteq Changing(d)
         /\ \A d \in Docs : d # Doc => Changing(d) = {}
         /\ Changing(Doc) = {job.call} /\ index[Doc] = tree[Doc]
<1> DEFINE c == [id |-> job.call, doc |-> Doc, from |-> branch.content[Doc], to |-> tree[Doc]]
<1>1. /\ job.call \in Calls /\ Doc \in Docs /\ outcome[job.call] = "asked"
      /\ tree[Doc] \in Content /\ branch.content[Doc] \in Content /\ branch \in Branch
      /\ job.why = "sync" /\ branch.content \in Tree
  BY CallInHand DEF TypeInv, TypeOK, JobInv, Branch
<1>2. c \in Commit
  BY <1>1 DEF Commit
<1>3. job.call \notin branch.ids \cup OwnIds(branch.own)
  <2>1. job.call \notin killed
    BY <1>1 DEF KilledInv
  <2>2. job.call \notin Held
    BY <1>1, <2>1 DEF CommitInv, Accepted, InHand
  <2> QED
    BY <2>2 DEF Held, BranchIds
<1>4. rebase = None /\ ~stale
  BY DEF CleanInv
<1>5. /\ Alive' \subseteq Alive /\ Writers' \subseteq Alive'
      /\ job.call \in Writers' => job.call \in Writers
  BY DEF Fading, Writers
<1>6. /\ \A d \in Docs : d # Doc => Changing(d) = {}
      /\ Changing(Doc) = {job.call}
  BY DEF Changing, Writing
<1>7. SoundBranch(Alive', Writers', remote'.ids, branch)
  BY BranchesStay DEF PlacesInv
<1>8. job.call \in Writers' => job.call \in tree[Doc] \ branch.content[Doc]
  <2>1. job.call \in Writers' => job.call \in tree[Doc]
    BY <1>5 DEF PlacesInv, TreeInv
  <2>2. job.call \in Alive' => job.call \notin branch.content[Doc]
    BY <1>1, <1>3, <1>7 DEF SoundBranch, Holds
  <2> QED
    BY <1>5, <2>1, <2>2
<1>9. \A d \in Docs : tree[d] \cap Alive' \subseteq branch.content[d] \cup Changing(d)
  BY <1>4, <1>5 DEF PlacesInv, TreeInv
<1>10. (tree[Doc] \ branch.content[Doc]) \cap Alive' \subseteq {job.call}
  BY <1>1, <1>6, <1>9
<1>11. SoundBranch(Alive', Writers', remote'.ids, Committed)
  <2>1. c.id = job.call /\ c.doc = Doc /\ c.from = branch.content[Doc] /\ c.to = tree[Doc]
    OBVIOUS
  <2> HIDE DEF c
  <2>2. /\ c.from = branch.content[c.doc] /\ c.id \notin OwnIds(branch.own)
        /\ c.id \in Writers' => c.id \in c.to \ c.from
        /\ (c.to \ c.from) \cap Alive' \subseteq {c.id}
    BY <1>3, <1>8, <1>10, <2>1
  <2>3. SoundBranch(Alive', Writers', remote'.ids,
          [ids |-> branch.ids \cup {c.id},
           content |-> [branch.content EXCEPT ![c.doc] = c.to],
           own |-> Append(branch.own, c)])
    BY <1>1, <1>2, <1>7, <2>2, SoundAppend
  <2> QED
    BY <2>1, <2>3 DEF Committed, c
<1>12. \A d \in Docs : Committed.content[d] = IF d = Doc THEN tree[d] ELSE branch.content[d]
  BY <1>1 DEF Committed, Tree
<1>13. \A d \in Docs : tree[d] \cap Alive' \subseteq Committed.content[d]
  BY <1>6, <1>9, <1>12
<1>14. /\ \A d \in Docs : index[d] = {} => tree[d] \cap Alive' \subseteq Changing(d)
       /\ index[Doc] = tree[Doc]
  BY <1>5 DEF PlacesInv, TreeInv
<1>15. branch.ids \subseteq Committed.ids /\ job.call \in Committed.ids
  BY DEF Committed
<1> QED
  BY <1>1, <1>4, <1>6, <1>11, <1>12, <1>13, <1>14, <1>15

LEMMA GitCommitPlaces ==
  ASSUME TypeInv, CleanInv, CommitInv, KilledInv, PlacesInv, Fading, GitCommit
  PROVE  PlacesInv'
<1>1. /\ phase = "commit" /\ phase' = "fetch" /\ branch' = Committed /\ job \in Job
      /\ \E headless \in BOOLEAN :
           job' = [job EXCEPT !.headless = headless, !.pre = branch,
                              !.old = Committed.content, !.why = "push"]
      /\ UNCHANGED <<fetched, rebase, parked, tree, index>>
  BY DEF GitCommit, files, TypeInv, TypeOK
<1>2. job'.pre = branch /\ job'.call = job.call /\ ~Replaying'
  BY <1>1 DEF Job, Replaying
<1>3. BranchInv'
  BY <1>1, <1>2, NewCommit, BranchesStay DEF PlacesInv, BranchInv, Fading
<1>4. TreeInv'
  <2>1. \A d \in Docs : tree[d] \cap Alive' \subseteq Committed.content[d]
    BY <1>1, NewCommit
  <2>2. \A d \in Docs : index[d] = {} => tree[d] \cap Alive' = {}
    BY <1>1, NewCommit
  <2>3. rebase = None
    BY <1>1, NewCommit
  <2> QED
    BY <1>1, <2>1, <2>2, <2>3 DEF TreeInv, Writing
<1>5. KeptInv'
  <2>1. /\ Committed.ids = branch.ids \cup {job.call} /\ remote.ids \subseteq remote'.ids
        /\ \A w \in Writers' : outcome'[w] = "saved" => w \in Writers /\ outcome[w] = "saved"
    BY <1>1 DEF Committed, Fading, Push, Pending
  <2> QED
    BY <1>1, <1>2, <2>1 DEF PlacesInv, KeptInv
<1> QED
  BY <1>3, <1>4, <1>5 DEF PlacesInv

LEMMA CommitFailsPlaces ==
  ASSUME TypeInv, CleanInv, CommitInv, KilledInv, PlacesInv, Fading, CommitFails
  PROVE  PlacesInv'
<1>1. /\ phase = "commit" /\ phase' = "rollback" /\ Doc' = Doc
      /\ UNCHANGED <<fetched, rebase, parked, tree, index, job, ask, outcome>>
  BY DEF CommitFails, calls, Doc
<1>2. CASE branch' = branch
  BY <1>1, <1>2, NewCommit, WritingStep
<1>3. CASE branch' = Committed
  <2>1. job.why = "sync" /\ ~Replaying'
    BY <1>1 DEF TypeInv, JobInv, Replaying
  <2>2. BranchInv'
    BY <1>1, <1>3, <2>1, NewCommit DEF PlacesInv, BranchInv, Fading
  <2>3. TreeInv'
    <3>1. \A d \in Docs : Changing(d)' = Changing(d)
      BY <1>1 DEF Changing, Writing
    <3>2. /\ \A d \in Docs : tree[d] \cap Alive' \subseteq Committed.content[d]
          /\ \A d \in Docs : index[d] = {} => tree[d] \cap Alive' \subseteq Changing(d)
          /\ rebase = None
      BY <1>1, NewCommit
    <3> QED
      BY <1>1, <1>3, <3>1, <3>2 DEF TreeInv
  <2>4. KeptInv'
    <3>1. /\ branch.ids \subseteq Committed.ids /\ remote.ids \subseteq remote'.ids
          /\ \A w \in Writers' : outcome'[w] = "saved" => w \in Writers /\ outcome[w] = "saved"
      BY <1>1 DEF Committed, Fading, Push, Pending
    <3> QED
      BY <1>1, <1>3, <2>1, <3>1 DEF PlacesInv, KeptInv
  <2> QED
    BY <2>2, <2>3, <2>4 DEF PlacesInv
<1> QED
  BY <1>2, <1>3 DEF CommitFails

\* drop_own_commit takes back the commit of the call in hand, and nothing that was saved.
LEMMA DropOwnCommitPlaces ==
  ASSUME TypeInv, PlacesInv, Fading, DropOwnCommit
  PROVE  PlacesInv'
<1>1. /\ phase = "drop" /\ job.why = "push" /\ rebase = None /\ outcome[job.call] = "asked"
      /\ UNCHANGED <<fetched, rebase>> /\ parked \subseteq parked' /\ job \in Job
  BY CallInHand DEF DropOwnCommit, TypeInv, JobInv
<1>2. CASE phase' = "pending" /\ UNCHANGED <<branch, tree, index, job>>
  BY <1>1, <1>2, IdleStep DEF Writing
<1>3. CASE /\ branch' = DropTarget /\ Checkout(DropTarget.content) /\ phase' = "sync"
           /\ parked' = parked \cup DropSaves
           /\ job' = [job EXCEPT !.attempt = job.attempt + 1, !.why = "sync",
                                 !.headless = FALSE, !.pre = NoBranch, !.old = NoTree]
  <2>1. job'.why = "sync" /\ ~Replaying'
    BY <1>1, <1>3 DEF Job, Replaying
  <2>2. BranchInv'
    BY <1>1, <1>3, <2>1, BranchesStay DEF PlacesInv, BranchInv, Fading, DropTarget
  <2>3. TreeInv'
    BY <1>1, <1>3, TreeReset DEF PlacesInv, Writing
  <2>4. ASSUME NEW w \in Writers', outcome'[w] = "saved"
        PROVE  w \in DropTarget.ids \cup remote'.ids \cup UNION {b.ids : b \in parked'}
    <3>1. w \in Writers /\ outcome[w] = "saved" /\ remote.ids \subseteq remote'.ids
      BY <1>1, <2>4 DEF Fading, Push, Pending
    <3>2. /\ w # job.call
          /\ w \in branch.ids \cup remote.ids \cup UNION {b.ids : b \in parked}
          /\ branch.ids \subseteq job.pre.ids \cup remote.ids \cup {job.call}
          /\ fetched.ids \subseteq remote.ids
      BY <1>1, <3>1 DEF PlacesInv, KeptInv, BranchInv
    <3>3. UNION {b.ids : b \in parked} \subseteq UNION {b.ids : b \in parked'}
      BY <1>1
    <3>4. CASE job.headless
      <4>1. branch.ids \subseteq fetched.ids \/ branch \in parked'
        BY <1>3, <3>4 DEF DropSaves, Unsynced
      <4> QED
        BY <3>1, <3>2, <3>3, <4>1
    <3>5. CASE ~job.headless
      BY <3>1, <3>2, <3>3, <3>5 DEF DropTarget
    <3> QED
      BY <3>4, <3>5
  <2>5. KeptInv'
    BY <1>1, <1>3, <2>1, <2>4 DEF KeptInv
  <2> QED
    BY <2>2, <2>3, <2>5 DEF PlacesInv
<1> QED
  BY <1>2, <1>3 DEF DropOwnCommit

LEMMA NextPlaces ==
  ASSUME TypeInv, CleanInv, CommitInv, KilledInv, SeenInv, PlacesInv, [Next]_vars
  PROVE  PlacesInv'
<1>1. Fading
  BY NextFading DEF PlacesInv
<1> QED
  BY <1>1, OutsidePlaces, IdlePlaces, FastForwardPlaces, ParkPlaces, AbortRebasePlaces,
     RecoverPlaces, RebaseKilledPlaces, RebaseStartsPlaces, SkipPushedPlaces, PickPlaces,
     PickConflictsPlaces, RebaseEndsPlaces, WriteFilePlaces, WriteFailsPlaces,
     RollBackPlaces, AddPlaces, GitCommitPlaces, CommitFailsPlaces, DropOwnCommitPlaces
     DEF Next, Sync, Rebase, Write, Publish

LEMMA InitSaved == Init => TypeInv /\ SavedInv
<1> SUFFICES ASSUME Init PROVE TypeInv /\ SavedInv
  OBVIOUS
<1>1. TypeInv
  BY InitType
<1>2. CleanInv
  BY DEF Init, CleanInv, Unsettled, Writing, Same
<1>3. Loose = {} /\ Held = {}
  <2>1. /\ remote.ids = {} /\ fetched.ids = {} /\ branch.ids = {} /\ branch.own = <<>>
        /\ rebase = None /\ parked = {} /\ job = NoJob
    BY DEF Init
  <2>2. OwnIds(<<>>) = {}
    BY DEF OwnIds
  <2>3. BranchIds(branch) = {}
    BY <2>1, <2>2 DEF BranchIds
  <2>4. BranchIds(job.pre) = {}
    BY <2>1, NoIds
  <2> QED
    BY <2>1, <2>3, <2>4 DEF Loose, Held, RebaseIds
<1>4. CommitInv
  BY <1>3 DEF CommitInv
<1>5. /\ phase = "free" /\ job.why = "sync" /\ rebase = None /\ ~Replaying /\ killed = {}
      /\ outcome = [w \in Calls |-> "none"]
  BY DEF Init, NoJob, Replaying
<1>6. KilledInv /\ SeenInv
  BY <1>5 DEF KilledInv, SeenInv, Alive
<1>7. PICK content \in [Docs -> {{}, {Old}}] :
        /\ remote = [ids |-> {}, content |-> content] /\ fetched = remote
        /\ branch = [ids |-> {}, content |-> content, own |-> <<>>]
        /\ tree = content /\ index = content
  BY DEF Init
<1>8. \A d \in Docs : content[d] \cap Alive = {}
  BY ConstantsAssumption DEF Alive
<1>9. BranchInv
  <2>1. Holds(Alive, remote.content, remote.ids)
    BY <1>7, <1>8 DEF Holds
  <2>2. SoundBranch(Alive, Writers, remote.ids, branch)
    BY <1>7, <2>1, SoundTip
  <2> QED
    BY <1>5, <1>7, <2>1, <2>2 DEF BranchInv
<1>10. TreeInv
  BY <1>5, <1>7, <1>8 DEF TreeInv
<1>11. KeptInv
  BY <1>5 DEF KeptInv, Writers, Alive
<1> QED
  BY <1>1, <1>2, <1>4, <1>6, <1>9, <1>10, <1>11 DEF SavedInv, PlacesInv

\* The inductive invariant of what is kept: where the edits and the commits of live calls
\* are, in the clone, in a rebase and on the remote.
THEOREM SavedInvariance == Spec => []SavedInv
<1>1. TypeInv /\ SavedInv /\ [Next]_vars => (TypeInv /\ SavedInv)'
  BY NextType, NextClean, NextCommits, NextKilled, NextSeen, NextPlaces DEF SavedInv, PlacesInv
<1> QED
  BY <1>1, InitSaved, PTL DEF Spec

\* A change that was reported as saved is on a branch, here or on the remote, or under a
\* recovery ref, whatever drop_own_commit or reset_to_fetch_head resets later, and however
\* many rebases its commit goes through.
THEOREM SavedStaysKept == Spec => []SavedIsKept
<1>1. SavedInv => SavedIsKept
  <2> SUFFICES ASSUME SavedInv, NEW w \in Calls, outcome[w] = "saved", ask[w].kind # "delete"
               PROVE  w \in branch.ids \cup remote.ids \cup UNION {b.ids : b \in parked}
    BY DEF SavedIsKept
  <2>1. w \notin killed
    BY DEF SavedInv, KilledInv
  <2>2. w \in Writers
    BY <2>1 DEF Writers, Alive
  <2> QED
    BY <2>2 DEF SavedInv, PlacesInv, KeptInv
<1> QED
  BY <1>1, SavedInvariance, PTL

-----------------------------------------------------------------------------
(***************************************************************************)
(* Pushes lose nothing.                                                    *)
(***************************************************************************)
\* What the accepted deletions of a document have taken, and what the one in hand takes
\* as well.
TakenBy(who, d) ==
  UNION {ask[w].seen : w \in {v \in who : ask[v].kind = "delete" /\ ask[v].doc = d}}
AcceptedCalls == {w \in Calls : Accepted(w)}
HeldCalls == {w \in Calls : InHand(w)}
Taken(d) == TakenBy(AcceptedCalls, d)
Taking(d) == TakenBy(AcceptedCalls \cup HeldCalls, d)

\* What a branch that has all of the remote's commits lacks of its content.
Missing(r, b, d) == IF r.ids \subseteq b.ids THEN r.content[d] \ b.content[d] ELSE {}

\* From a fetch until the branch is on FETCH_HEAD, or its own push ends, only others push.
Fetching == {"integrate", "rebase", "pick", "stopped", "park", "diff", "push", "drop"}

AheadInv ==
  /\ \A d \in Docs \ left :
       /\ Missing(remote, branch, d) \subseteq Taking(d)
       /\ job.why = "push" => Missing(remote, job.pre, d) \subseteq Taken(d)
       /\ phase = "pick" => Missing(remote, rebase.tip, d) \subseteq Taking(d)
       /\ phase \in Fetching => Missing(remote, fetched, d) \subseteq Taken(d)
  /\ phase \in Fetching => remote.ids \ fetched.ids \subseteq Others

\* Commits that take nothing but what the caller of a deletion had seen.
Rightful ==
  {c \in Commit :
     \/ c.doc \in left
     \/ /\ c.id \notin killed /\ outcome[c.id] # "none" /\ ask[c.id].doc = c.doc
        /\ \/ c.from \subseteq c.to
           \/ ask[c.id].kind = "delete" /\ c.from \ c.to \subseteq ask[c.id].seen}

Entries(s) == {s[i] : i \in DOMAIN s}

RightInv ==
  /\ Entries(branch.own) \subseteq Rightful
  /\ job.why = "push" => Entries(job.pre.own) \subseteq Rightful
  /\ phase = "pick" => Entries(rebase.tip.own) \cup Entries(rebase.todo) \subseteq Rightful
  /\ phase \in {"add", "commit"} /\ ~stale /\ Doc \notin left =>
       \/ branch.content[Doc] \subseteq tree[Doc]
       \/ ask[job.call].kind = "delete" /\ branch.content[Doc] \subseteq Seen

PushInv == AheadInv /\ RightInv

\* What every step does to what calls may take.
Growing ==
  /\ left \subseteq left'
  /\ Rightful \subseteq Rightful'
  /\ \A d \in Docs : Taken(d) \subseteq Taken(d)'
  /\ ~DropOwnCommit => \A d \in Docs : Taking(d) \subseteq Taking(d)'

-----------------------------------------------------------------------------
LEMMA CallsStay ==
  ASSUME TypeInv, [Next]_vars
  PROVE  /\ \A w \in Calls : outcome[w] # "none" => outcome'[w] # "none" /\ ask'[w] = ask[w]
         /\ \A w \in Calls : Accepted(w) => Accepted(w)'
<1>1. CASE UNCHANGED <<outcome, ask>>
  BY <1>1 DEF Accepted
<1>2. CASE \E w \in Calls, kind \in Kinds, d \in Docs : Ask(w, kind, d)
  <2>1. PICK w \in Calls, kind \in Kinds, d \in Docs : Ask(w, kind, d)
    BY <1>2
  <2>2. outcome[w] = "none" /\ \A v \in Calls : v # w => ask'[v] = ask[v] /\ outcome'[v] = outcome[v]
    BY <2>1 DEF Ask, TypeInv, TypeOK
  <2> QED
    BY <2>2 DEF Accepted
<1>3. CASE /\ job.call \in Calls /\ UNCHANGED <<ask, killed>>
           /\ \E result \in {"saved", "refused", "undone", "failed"} :
                Return(result) /\ (result = "saved" => Push \/ Pending)
  <2>1. PICK result \in {"saved", "refused", "undone", "failed"} :
          outcome' = [outcome EXCEPT ![job.call] = result]
    BY <1>3 DEF Return
  <2>2. /\ outcome[job.call] = "asked" /\ outcome'[job.call] = result
        /\ \A v \in Calls : v # job.call => outcome'[v] = outcome[v]
    BY <1>3, <2>1 DEF TypeInv, TypeOK, JobInv
  <2> QED
    BY <1>3, <2>2 DEF Accepted
<1>4. CASE Crash
  BY <1>4 DEF Crash, Accepted
<1> QED
  BY <1>1, <1>2, <1>3, <1>4, AnswerStep

\* The call in hand stays so until it is answered, or its commit dropped.
LEMMA HandStep ==
  ASSUME TypeInv, [Next]_vars, ~DropOwnCommit, NEW w \in Calls, InHand(w)
  PROVE  Accepted(w)' \/ InHand(w)'
<1>1. w = job.call /\ job.why = "push" /\ outcome[w] = "asked" /\ job \in Job /\ w # Puller
  BY CallInHand, ConstantsAssumption DEF InHand
<1>2. phase \notin {"free", "down", "sync", "integrate", "park", "synced", "apply", "add",
                    "commit", "rollback"}
  BY <1>1 DEF TypeInv, JobInv, NoJob
<1>3. CASE UNCHANGED job
  BY <1>1, <1>3 DEF InHand
<1>4. CASE Push \/ Pending
  BY <1>1, <1>4 DEF Push, Pending, Return, Accepted, TypeInv, TypeOK
<1>5. CASE Crash
  BY <1>1, <1>5 DEF Crash, Accepted
<1>6. CASE Diff
  <2>1. job'.call = job.call /\ job'.why = job.why
    BY <1>1, <1>6 DEF Diff, Job
  <2> QED
    BY <1>1, <2>1 DEF InHand
<1>7. CASE Rebase
  <2>1. CASE RebaseKilledLate
    BY <1>1, <2>1, KeepsCommit DEF InHand
  <2>2. CASE ~RebaseKilledLate
    <3>1. UNCHANGED job
      BY <1>1, <1>2, <1>7, <2>2 DEF Rebase, RebaseStarts, SkipPushed, Pick, PickConflicts,
         RebaseEnds, AbortRebase, RebaseRefused, RebaseKilled, Park, WithoutRebase
    <3> QED
      BY <1>3, <3>1
  <2> QED
    BY <2>1, <2>2
<1>8. CASE UNCHANGED vars \/ MarkPulled \/ PushFetch \/ PushRejected
  BY <1>3, <1>8 DEF vars, MarkPulled, PushFetch, PushRejected
<1>9. CASE \/ \E e \in Others, d \in Docs : OtherPush(e, d)
           \/ \E v \in Calls, kind \in Kinds, d \in Docs : Ask(v, kind, d)
           \/ \E d \in Docs : IndexDoc(d)
  BY <1>3, <1>9 DEF OtherPush, Ask, IndexDoc
<1>10. ~Recover /\ ~StartPull /\ ~\E v \in Calls : StartWrite(v)
  BY <1>2 DEF Recover, StartPull, StartWrite, Lock
<1>11. ~Write /\ ~SyncFetch /\ ~FastForward /\ ~PullEnds /\ ~SyncEnds
  BY <1>2 DEF Write, WriteFile, Refuse, WriteFails, Add, GitCommit, CommitFails, RollBack,
     SyncFetch, FastForward, PullEnds, SyncEnds
<1> QED
  BY <1>4, <1>5, <1>6, <1>7, <1>8, <1>9, <1>10, <1>11 DEF Next, Sync, Publish

LEMMA LeftStep ==
  ASSUME [Next]_vars
  PROVE  left \subseteq left' /\ (killed' = killed \/ (killed' = killed \cup {job.call}
                                                       /\ Doc \in left'))
<1>1. CASE UNCHANGED <<left, killed>>
  BY <1>1
<1>2. CASE WriteFails \/ RollBack \/ Recover
  BY <1>2 DEF WriteFails, RollBack, Recover
<1>3. CASE CommitFails
  BY <1>3 DEF CommitFails
<1>4. CASE UNCHANGED vars \/ Sync
  BY <1>1, <1>4 DEF vars, Sync, SyncFetch, FastForward, PullEnds, SyncEnds, MarkPulled
<1>5. CASE \/ \E e \in Others, d \in Docs : OtherPush(e, d)
           \/ \E v \in Calls, kind \in Kinds, d \in Docs : Ask(v, kind, d)
           \/ \E d \in Docs : IndexDoc(d)
           \/ StartPull \/ \E v \in Calls : StartWrite(v)
  BY <1>1, <1>5 DEF OtherPush, Ask, IndexDoc, StartPull, StartWrite, Lock
<1>6. CASE Rebase
  BY <1>1, <1>6 DEF Rebase, RebaseStarts, SkipPushed, Pick, PickConflicts, RebaseEnds,
     AbortRebase, RebaseRefused, RebaseKilled, RebaseKilledLate, Park
<1>7. CASE WriteFile \/ Refuse \/ Add \/ GitCommit
  BY <1>1, <1>7 DEF WriteFile, Refuse, Add, GitCommit
<1>8. CASE Publish \/ Crash
  BY <1>1, <1>8 DEF Publish, PushFetch, Diff, Push, PushRejected, Pending, DropOwnCommit, Crash
<1> QED
  BY <1>2, <1>3, <1>4, <1>5, <1>6, <1>7, <1>8 DEF Next, Write

LEMMA NextGrowing == ASSUME TypeInv, [Next]_vars PROVE Growing
<1>1. /\ \A w \in Calls : outcome[w] # "none" => outcome'[w] # "none" /\ ask'[w] = ask[w]
      /\ \A w \in Calls : Accepted(w) => Accepted(w)'
  BY CallsStay
<1>2. /\ AcceptedCalls \in SUBSET Calls /\ AcceptedCalls \subseteq AcceptedCalls'
      /\ \A w \in AcceptedCalls : ask'[w] = ask[w]
  BY <1>1 DEF AcceptedCalls, Accepted
<1>3. /\ HeldCalls \in SUBSET Calls
      /\ \A w \in HeldCalls : ask'[w] = ask[w]
  BY <1>1, CallInHand DEF HeldCalls, InHand
<1>4. ~DropOwnCommit => HeldCalls \subseteq AcceptedCalls' \cup HeldCalls'
  BY HandStep DEF HeldCalls, AcceptedCalls
<1>5. \A d \in Docs : Taken(d) \subseteq Taken(d)'
  BY <1>2 DEF Taken, TakenBy
<1>6. ASSUME ~DropOwnCommit
      PROVE  \A d \in Docs : Taking(d) \subseteq Taking(d)'
  <2> DEFINE who == AcceptedCalls \cup HeldCalls
             more == AcceptedCalls' \cup HeldCalls'
  <2>1. who \in SUBSET Calls /\ who \subseteq more /\ \A w \in who : ask'[w] = ask[w]
    BY <1>2, <1>3, <1>4, <1>6
  <2>2. ASSUME NEW d \in Docs
        PROVE  TakenBy(who, d) \subseteq
           UNION {ask'[w].seen : w \in {v \in more : ask'[v].kind = "delete" /\ ask'[v].doc = d}}
    <3> HIDE DEF who, more
    <3> QED
      BY <2>1 DEF TakenBy
  <2> QED
    BY <2>2 DEF Taking, TakenBy
<1>7. Rightful \subseteq Rightful'
  <2> SUFFICES ASSUME NEW c \in Rightful PROVE c \in Rightful'
    OBVIOUS
  <2>1. c \in Commit /\ c.id \in Calls
    BY DEF Rightful, Commit
  <2>2. CASE c.doc \in left
    BY <2>1, <2>2, LeftStep DEF Rightful
  <2>3. CASE c.doc \notin left
    <3>1. /\ c.id \notin killed /\ outcome[c.id] # "none" /\ ask[c.id].doc = c.doc
          /\ \/ c.from \subseteq c.to
             \/ ask[c.id].kind = "delete" /\ c.from \ c.to \subseteq ask[c.id].seen
      BY <2>3 DEF Rightful
    <3>2. outcome'[c.id] # "none" /\ ask'[c.id] = ask[c.id]
      BY <1>1, <2>1, <3>1
    <3>3. c.id \in killed' => c.doc \in left'
      BY <3>1, LeftStep DEF Doc
    <3> QED
      BY <2>1, <3>1, <3>2, <3>3 DEF Rightful
  <2> QED
    BY <2>2, <2>3
<1> QED
  BY <1>5, <1>6, <1>7, LeftStep DEF Growing

LEMMA EntriesOfAppend ==
  ASSUME NEW s \in Seq(Commit), NEW c \in Commit
  PROVE  Entries(Append(s, c)) = Entries(s) \cup {c}
BY LastOfAppend DEF Entries

LEMMA EntriesOfTail ==
  ASSUME NEW s \in Seq(Commit), s # <<>>
  PROVE  Entries(Tail(s)) \subseteq Entries(s) /\ Head(s) \in Entries(s)
<1>1. /\ DOMAIN s = 1 .. Len(s) /\ Len(s) \in Nat \ {0}
      /\ DOMAIN Tail(s) = 1 .. Len(s) - 1
      /\ \A i \in 1 .. Len(s) - 1 : Tail(s)[i] = s[i + 1]
  BY HeadTailProperties, LenProperties, EmptySeq
<1>2. Head(s) = s[1] /\ 1 \in DOMAIN s
  BY <1>1
<1>3. \A i \in DOMAIN Tail(s) : i + 1 \in DOMAIN s /\ Tail(s)[i] = s[i + 1]
  BY <1>1
<1> QED
  BY <1>2, <1>3 DEF Entries

LEMMA NoEntries == Entries(<<>>) = {}
BY DEF Entries

\* Steps that leave the branches and the remote where they are.
LEMMA AheadQuiet ==
  ASSUME AheadInv, Growing, UNCHANGED <<remote, branch>>,
         ~DropOwnCommit,
         job'.why = "push" => job.why = "push" /\ job'.pre = job.pre,
         phase' = "pick" => phase = "pick" /\ rebase' = rebase,
         phase' \in Fetching => phase \in Fetching /\ fetched' = fetched
  PROVE  AheadInv'
<1>1. ASSUME NEW d \in Docs \ left'
      PROVE  /\ Missing(remote, branch, d) \subseteq Taking(d)'
             /\ job'.why = "push" => Missing(remote, job'.pre, d) \subseteq Taken(d)'
             /\ phase' = "pick" => Missing(remote, rebase'.tip, d) \subseteq Taking(d)'
             /\ phase' \in Fetching => Missing(remote, fetched', d) \subseteq Taken(d)'
  <2>1. /\ d \in Docs \ left /\ Taken(d) \subseteq Taken(d)' /\ Taking(d) \subseteq Taking(d)'
    BY DEF Growing
  <2>2. /\ Missing(remote, branch, d) \subseteq Taking(d)
        /\ job.why = "push" => Missing(remote, job.pre, d) \subseteq Taken(d)
        /\ phase = "pick" => Missing(remote, rebase.tip, d) \subseteq Taking(d)
        /\ phase \in Fetching => Missing(remote, fetched, d) \subseteq Taken(d)
    BY <2>1 DEF AheadInv
  <2> QED
    BY <2>1, <2>2
<1>2. phase' \in Fetching => remote'.ids \ fetched'.ids \subseteq Others
  BY DEF AheadInv
<1> QED
  BY <1>1, <1>2 DEF AheadInv

LEMMA RightQuiet ==
  ASSUME RightInv, Growing, UNCHANGED <<branch>>,
         job'.why = "push" => job.why = "push" /\ job'.pre = job.pre,
         phase' = "pick" => phase = "pick" /\ rebase' = rebase,
         phase' \in {"add", "commit"} =>
           /\ phase \in {"add", "commit"} /\ UNCHANGED <<tree, stale, job>>
           /\ ask'[job.call] = ask[job.call]
  PROVE  RightInv'
<1>1. Rightful \subseteq Rightful' /\ left \subseteq left'
  BY DEF Growing
<1>2. phase' \in {"add", "commit"} => Doc' = Doc /\ Seen' = Seen
  BY DEF Doc, Seen
<1> QED
  BY <1>1, <1>2 DEF RightInv

LEMMA StillStep ==
  ASSUME PushInv, Growing, UNCHANGED <<remote, branch>>, ~DropOwnCommit,
         job'.why = "push" => job.why = "push" /\ job'.pre = job.pre,
         phase' = "pick" => phase = "pick" /\ rebase' = rebase,
         phase' \in Fetching => phase \in Fetching /\ fetched' = fetched,
         phase' \in {"add", "commit"} =>
           /\ phase \in {"add", "commit"} /\ UNCHANGED <<tree, stale, job>>
           /\ ask'[job.call] = ask[job.call]
  PROVE  PushInv'
BY AheadQuiet, RightQuiet DEF PushInv

LEMMA OutsideAhead ==
  ASSUME TypeInv, PushInv, Growing,
         \/ UNCHANGED vars \/ MarkPulled \/ StartPull \/ \E w \in Calls : StartWrite(w)
         \/ \E w \in Calls, kind \in Kinds, d \in Docs : Ask(w, kind, d)
         \/ \E d \in Docs : IndexDoc(d)
         \/ Crash \/ Recover
  PROVE  PushInv'
<1>1. CASE UNCHANGED vars \/ MarkPulled \/ \E d \in Docs : IndexDoc(d)
  <2>1. UNCHANGED <<remote, fetched, branch, rebase, tree, stale, job, phase, ask>>
    BY <1>1 DEF vars, MarkPulled, IndexDoc, clone, files, calls
  <2>2. ~DropOwnCommit
    BY <2>1 DEF DropOwnCommit
  <2> QED
    BY <2>1, <2>2, StillStep
<1>2. CASE \E w \in Calls, kind \in Kinds, d \in Docs : Ask(w, kind, d)
  <2>1. PICK w \in Calls, kind \in Kinds, d \in Docs : Ask(w, kind, d)
    BY <1>2
  <2>2. UNCHANGED <<remote, fetched, branch, rebase, tree, stale, job, phase>>
    BY <2>1 DEF Ask, clone, files
  <2>3. phase \in {"add", "commit"} => ask'[job.call] = ask[job.call]
    <3>1. phase \in {"add", "commit"} => job.call \in Calls /\ job.call # w
      BY <2>1, CallInHand DEF Ask
    <3> QED
      BY <2>1, <3>1 DEF Ask, TypeInv, TypeOK
  <2>4. ~DropOwnCommit
    BY <2>2 DEF DropOwnCommit
  <2> QED
    BY <2>2, <2>3, <2>4, StillStep
<1>3. CASE StartPull \/ \E w \in Calls : StartWrite(w)
  <2>1. UNCHANGED <<remote, branch>> /\ phase' = "sync" /\ phase = "free"
    BY <1>3 DEF StartPull, StartWrite, Lock, clone
  <2>2. job'.why = "sync"
    BY <1>3 DEF StartPull, StartWrite, Lock, NoJob
  <2>3. ~DropOwnCommit
    BY <2>1 DEF DropOwnCommit
  <2> QED
    BY <2>1, <2>2, <2>3, StillStep DEF Fetching
<1>4. CASE Crash \/ Recover
  <2>1. UNCHANGED <<remote, branch>> /\ phase' \in {"down", "free"}
    BY <1>4 DEF Crash, Recover, clone
  <2>2. job'.why = "push" => FALSE
    BY <1>4 DEF Crash, Recover, TypeInv, JobInv, NoJob
  <2>3. ~DropOwnCommit
    BY <1>4, <2>1 DEF DropOwnCommit, Crash, Recover
  <2> QED
    BY <2>1, <2>2, <2>3, StillStep DEF Fetching
<1> QED
  BY <1>1, <1>2, <1>3, <1>4

LEMMA StillAhead ==
  ASSUME TypeInv, PushInv, Growing,
         \/ PullEnds \/ SyncEnds \/ PickConflicts \/ AbortRebase \/ RebaseRefused
         \/ RebaseKilled \/ Refuse \/ WriteFails \/ Add \/ RollBack \/ Diff \/ PushRejected
  PROVE  PushInv'
<1>1. UNCHANGED <<remote, branch>> /\ ~DropOwnCommit
  BY DEF PullEnds, SyncEnds, PickConflicts, AbortRebase, RebaseRefused, RebaseKilled, Refuse,
     WriteFails, Add, RollBack, Diff, PushRejected, clone, DropOwnCommit, AtRebase
<1>2. CASE PullEnds \/ SyncEnds \/ Refuse \/ WriteFails \/ RollBack
  <2>1. phase' \in {"free", "apply"}
    BY <1>2 DEF PullEnds, SyncEnds, Refuse, WriteFails, RollBack, Return, EndPull
  <2>2. job.why = "sync" /\ job \in Job
    BY <1>2 DEF PullEnds, SyncEnds, Refuse, WriteFails, RollBack, TypeInv, TypeOK, JobInv
  <2>3. job'.why = "sync"
    BY <1>2, <2>2 DEF PullEnds, SyncEnds, Refuse, WriteFails, RollBack, Return, EndPull, NoJob, Job
  <2> QED
    BY <1>1, <2>1, <2>3, StillStep DEF Fetching
<1>3. CASE PickConflicts \/ AbortRebase
  <2>1. /\ UNCHANGED <<job, fetched>> /\ phase \in {"pick", "stopped"}
        /\ phase' \in {"stopped", "park", "drop"}
    BY <1>3 DEF PickConflicts, AbortRebase, clone
  <2> QED
    BY <1>1, <2>1, StillStep DEF Fetching
<1>4. CASE RebaseRefused \/ RebaseKilled
  <2>1. phase' \in {"pending", "synced", "free"} /\ (job' = job \/ job' = NoJob)
    BY <1>4 DEF RebaseRefused, RebaseKilled, WithoutRebase, EndPull
  <2>2. job'.why = "push" => job' = job
    BY <2>1 DEF NoJob
  <2> QED
    BY <1>1, <2>1, <2>2, StillStep DEF Fetching
<1>5. CASE Add
  <2>1. /\ phase = "add" /\ phase' \in {"commit", "rollback"}
        /\ UNCHANGED <<tree, stale, job, ask>>
    BY <1>5 DEF Add, calls
  <2> QED
    BY <1>1, <2>1, StillStep DEF Fetching
<1>6. CASE Diff \/ PushRejected
  <2>1. /\ phase \in {"diff", "push"} /\ phase' \in {"push", "pending", "drop"}
        /\ job \in Job /\ fetched' = fetched
    BY <1>6 DEF Diff, PushRejected, TypeInv, TypeOK, clone
  <2>2. job'.why = job.why /\ job'.pre = job.pre
    BY <1>6, <2>1 DEF Diff, PushRejected, Job
  <2> QED
    BY <1>1, <2>1, <2>2, StillStep DEF Fetching
<1> QED
  BY <1>2, <1>3, <1>4, <1>5, <1>6

\* A fetch makes up for what the remote has gained.
LEMMA FetchAhead ==
  ASSUME TypeInv, PushInv, Growing, SyncFetch \/ PushFetch
  PROVE  PushInv'
<1>1. UNCHANGED <<remote, branch, rebase>> /\ ~DropOwnCommit
  BY DEF SyncFetch, PushFetch, DropOwnCommit
<1>2. job'.why = "push" => job.why = "push" /\ job'.pre = job.pre
  BY DEF SyncFetch, PushFetch, EndPull, NoJob
<1>3. CASE phase' \notin Fetching
  <2>1. phase' \in {"free", "synced", "pending"}
    BY <1>3 DEF SyncFetch, PushFetch, EndPull, Fetching
  <2> QED
    BY <1>1, <1>2, <2>1, StillStep DEF Fetching
<1>4. CASE fetched' = remote /\ phase' \in {"integrate", "rebase"}
  <2>1. RightInv'
    BY <1>1, <1>2, <1>4, RightQuiet DEF PushInv
  <2>2. ASSUME NEW d \in Docs \ left'
        PROVE  /\ Missing(remote, branch, d) \subseteq Taking(d)'
               /\ job'.why = "push" => Missing(remote, job'.pre, d) \subseteq Taken(d)'
               /\ Missing(remote, fetched', d) = {}
    <3>1. /\ d \in Docs \ left /\ Taken(d) \subseteq Taken(d)' /\ Taking(d) \subseteq Taking(d)'
      BY <1>1 DEF Growing
    <3>2. /\ Missing(remote, branch, d) \subseteq Taking(d)
          /\ job.why = "push" => Missing(remote, job.pre, d) \subseteq Taken(d)
      BY <3>1 DEF PushInv, AheadInv
    <3>3. Missing(remote, fetched', d) = {}
      BY <1>4 DEF Missing
    <3> QED
      BY <1>2, <3>1, <3>2, <3>3
  <2>3. AheadInv'
    BY <1>1, <1>4, <2>2 DEF AheadInv
  <2> QED
    BY <2>1, <2>3 DEF PushInv
<1> QED
  BY <1>3, <1>4 DEF SyncFetch, PushFetch, EndPull, Fetching

\* The branch goes to FETCH_HEAD, or stays.
LEMMA ToFetchedAhead ==
  ASSUME TypeInv, PushInv, Growing, FastForward \/ Park
  PROVE  PushInv'
<1>1. UNCHANGED <<remote, fetched>> /\ ~DropOwnCommit /\ phase \in Fetching /\ job.why = "sync"
  BY DEF FastForward, Park, DropOwnCommit, Fetching, TypeInv, JobInv
<1>2. job'.why = "sync" /\ phase' \in {"synced", "free"}
  BY <1>1 DEF FastForward, Park, WithoutRebase, EndPull, NoJob
<1>3. CASE branch' = branch
  BY <1>1, <1>2, <1>3, StillStep DEF Fetching
<1>4. CASE branch' = [ids |-> fetched.ids, content |-> fetched.content, own |-> <<>>]
  <2>1. RightInv'
    <3>1. Entries(branch'.own) = {}
      BY <1>4, NoEntries
    <3> QED
      BY <1>2, <3>1 DEF RightInv
  <2>2. ASSUME NEW d \in Docs \ left'
        PROVE  Missing(remote, branch', d) \subseteq Taking(d)'
    <3>1. /\ d \in Docs \ left /\ Taken(d) \subseteq Taken(d)'
      BY DEF Growing
    <3>2. Missing(remote, fetched, d) \subseteq Taken(d)
      BY <1>1, <3>1 DEF PushInv, AheadInv
    <3>3. Missing(remote, branch', d) = Missing(remote, fetched, d)
      BY <1>4 DEF Missing
    <3>4. Taken(d)' \subseteq Taking(d)'
      BY DEF Taken, Taking, TakenBy
    <3> QED
      BY <3>1, <3>2, <3>3, <3>4
  <2>3. AheadInv'
    BY <1>1, <1>2, <2>2 DEF AheadInv, Fetching
  <2> QED
    BY <2>1, <2>3 DEF PushInv
<1> QED
  BY <1>3, <1>4 DEF FastForward, Park

LEMMA RebaseStartsAhead ==
  ASSUME TypeInv, PushInv, Growing, RebaseStarts
  PROVE  PushInv'
<1>1. /\ UNCHANGED <<remote, fetched, branch, job>> /\ ~DropOwnCommit /\ phase \in Fetching
  BY DEF RebaseStarts, AtRebase, DropOwnCommit, Fetching
<1>2. CASE phase' = "diff"
  BY <1>1, <1>2, StillStep DEF Fetching
<1>3. CASE /\ phase' = "pick"
           /\ rebase' = [tip |-> [ids |-> fetched.ids, content |-> fetched.content,
                                  own |-> <<>>],
                         todo |-> branch.own]
  <2>1. RightInv'
    <3>1. Entries(rebase'.tip.own) = {} /\ rebase'.todo = branch.own
      BY <1>3, NoEntries
    <3>2. Rightful \subseteq Rightful'
      BY DEF Growing
    <3> QED
      BY <1>1, <1>3, <3>1, <3>2 DEF PushInv, RightInv
  <2>2. ASSUME NEW d \in Docs \ left'
        PROVE  /\ Missing(remote, branch, d) \subseteq Taking(d)'
               /\ job.why = "push" => Missing(remote, job.pre, d) \subseteq Taken(d)'
               /\ Missing(remote, rebase'.tip, d) \subseteq Taking(d)'
               /\ Missing(remote, fetched, d) \subseteq Taken(d)'
    <3>1. /\ d \in Docs \ left /\ Taken(d) \subseteq Taken(d)' /\ Taking(d) \subseteq Taking(d)'
      BY <1>1 DEF Growing
    <3>2. /\ Missing(remote, branch, d) \subseteq Taking(d)
          /\ job.why = "push" => Missing(remote, job.pre, d) \subseteq Taken(d)
          /\ Missing(remote, fetched, d) \subseteq Taken(d)
      BY <1>1, <3>1 DEF PushInv, AheadInv
    <3>3. Missing(remote, rebase'.tip, d) = Missing(remote, fetched, d)
      BY <1>3 DEF Missing
    <3>4. Taken(d) \subseteq Taking(d)
      BY DEF Taken, Taking, TakenBy
    <3> QED
      BY <3>1, <3>2, <3>3, <3>4
  <2>3. AheadInv'
    BY <1>1, <2>2 DEF PushInv, AheadInv
  <2> QED
    BY <2>1, <2>3 DEF PushInv
<1> QED
  BY <1>2, <1>3 DEF RebaseStarts

LEMMA SkipPushedAhead ==
  ASSUME TypeInv, PushInv, Growing, SkipPushed
  PROVE  PushInv'
<1>1. /\ UNCHANGED <<remote, fetched, branch, job>> /\ ~DropOwnCommit
      /\ phase = "pick" /\ phase' = "pick" /\ rebase.todo # <<>>
  BY DEF SkipPushed, DropOwnCommit
<1>2. rebase \in Rebasing /\ rebase.todo \in Seq(Commit)
  BY <1>1, HeadCommit DEF Rebasing
<1>3. rebase'.tip = rebase.tip /\ rebase'.todo = Tail(rebase.todo)
  BY <1>2 DEF SkipPushed, Rebasing
<1>4. RightInv'
  <2>1. Entries(Tail(rebase.todo)) \subseteq Entries(rebase.todo)
    BY <1>1, <1>2, EntriesOfTail
  <2>2. Rightful \subseteq Rightful'
    BY DEF Growing
  <2> QED
    BY <1>1, <1>3, <2>1, <2>2 DEF PushInv, RightInv
<1>5. ASSUME NEW d \in Docs \ left'
      PROVE  /\ Missing(remote, branch, d) \subseteq Taking(d)'
             /\ job.why = "push" => Missing(remote, job.pre, d) \subseteq Taken(d)'
             /\ Missing(remote, rebase.tip, d) \subseteq Taking(d)'
             /\ Missing(remote, fetched, d) \subseteq Taken(d)'
  <2>1. /\ d \in Docs \ left /\ Taken(d) \subseteq Taken(d)' /\ Taking(d) \subseteq Taking(d)'
    BY <1>1 DEF Growing
  <2> QED
    BY <1>1, <2>1 DEF PushInv, AheadInv, Fetching
<1>6. AheadInv'
  BY <1>1, <1>3, <1>5 DEF PushInv, AheadInv
<1> QED
  BY <1>4, <1>6 DEF PushInv

LEMMA RebaseEndsAhead ==
  ASSUME TypeInv, PushInv, Growing, RebaseEnds \/ RebaseKilledLate
  PROVE  PushInv'
<1>1. /\ UNCHANGED <<remote, fetched>> /\ ~DropOwnCommit
      /\ phase = "pick" /\ phase' \in {"synced", "diff", "free", "pending"}
      /\ branch' = rebase.tip
      /\ job'.why = "push" => job.why = "push" /\ job'.pre = job.pre
  BY KeepsCommit DEF RebaseEnds, DropOwnCommit, RebaseKilledLate, EndPull
<1>2. RightInv'
  <2>1. Rightful \subseteq Rightful'
    BY DEF Growing
  <2> QED
    BY <1>1, <2>1 DEF PushInv, RightInv
<1>3. ASSUME NEW d \in Docs \ left'
      PROVE  /\ Missing(remote, rebase.tip, d) \subseteq Taking(d)'
             /\ job.why = "push" => Missing(remote, job.pre, d) \subseteq Taken(d)'
             /\ Missing(remote, fetched, d) \subseteq Taken(d)'
  <2>1. /\ d \in Docs \ left /\ Taken(d) \subseteq Taken(d)' /\ Taking(d) \subseteq Taking(d)'
    BY <1>1 DEF Growing
  <2> QED
    BY <1>1, <2>1 DEF PushInv, AheadInv, Fetching
<1>4. AheadInv'
  BY <1>1, <1>3 DEF PushInv, AheadInv, Fetching
<1> QED
  BY <1>2, <1>4 DEF PushInv

\* drop_own_commit: the branch has been ahead of the remote, as far as anything is known
\* to have been accepted.
LEMMA DropOwnCommitAhead ==
  ASSUME TypeInv, PushInv, Growing, DropOwnCommit
  PROVE  PushInv'
<1>1. /\ UNCHANGED <<remote, fetched, rebase>> /\ phase = "drop" /\ job.why = "push"
      /\ job \in Job
  BY DEF DropOwnCommit, TypeInv, TypeOK, JobInv
<1>2. CASE phase' = "pending" /\ UNCHANGED <<branch, job>>
  <2>1. HeldCalls = HeldCalls'
    BY <1>2 DEF HeldCalls, InHand
  <2>2. UNCHANGED <<outcome, ask>>
    BY DEF DropOwnCommit, calls
  <2>3. \A d \in Docs : Taking(d)' = Taking(d)
    BY <2>1, <2>2 DEF Taking, TakenBy, AcceptedCalls, Accepted
  <2>4. RightInv'
    BY <1>2, RightQuiet DEF PushInv
  <2>5. ASSUME NEW d \in Docs \ left'
        PROVE  /\ Missing(remote, branch, d) \subseteq Taking(d)'
               /\ job.why = "push" => Missing(remote, job.pre, d) \subseteq Taken(d)'
    <3>1. /\ d \in Docs \ left /\ Taken(d) \subseteq Taken(d)' /\ Taking(d) \subseteq Taking(d)'
      BY <2>3 DEF Growing
    <3> QED
      BY <3>1 DEF PushInv, AheadInv
  <2>6. AheadInv'
    BY <1>1, <1>2, <2>5 DEF AheadInv, Fetching
  <2> QED
    BY <2>4, <2>6 DEF PushInv
<1>3. CASE /\ branch' = DropTarget /\ phase' = "sync"
           /\ job' = [job EXCEPT !.attempt = @ + 1, !.why = "sync", !.headless = FALSE,
                                 !.pre = NoBranch, !.old = NoTree]
  <2>1. job'.why = "sync"
    BY <1>1, <1>3 DEF Job
  <2>2. RightInv'
    <3>1. Rightful \subseteq Rightful'
      BY DEF Growing
    <3>2. Entries(DropTarget.own) \subseteq Rightful
      BY <1>1, NoEntries DEF PushInv, RightInv, DropTarget
    <3> QED
      BY <1>1, <1>3, <2>1, <3>1, <3>2 DEF RightInv
  <2>3. ASSUME NEW d \in Docs \ left'
        PROVE  Missing(remote, DropTarget, d) \subseteq Taking(d)'
    <3>1. d \in Docs \ left /\ Taken(d) \subseteq Taken(d)'
      BY DEF Growing
    <3>2. /\ Missing(remote, job.pre, d) \subseteq Taken(d)
          /\ Missing(remote, fetched, d) \subseteq Taken(d)
      BY <1>1, <3>1 DEF PushInv, AheadInv, Fetching
    <3>3. Missing(remote, DropTarget, d) \subseteq Taken(d)
      BY <3>2 DEF DropTarget, Missing
    <3>4. Taken(d)' \subseteq Taking(d)'
      BY DEF Taken, Taking, TakenBy
    <3> QED
      BY <3>1, <3>3, <3>4
  <2>4. AheadInv'
    BY <1>1, <1>3, <2>1, <2>3 DEF AheadInv, Fetching
  <2> QED
    BY <2>2, <2>4 DEF PushInv
<1> QED
  BY <1>2, <1>3 DEF DropOwnCommit

\* Nothing here has a commit that was pushed elsewhere and not fetched yet.
LEMMA OtherPushAhead ==
  ASSUME TypeInv, PlacesInv, PushInv, Growing,
         NEW e \in Others, NEW f \in Docs, OtherPush(e, f)
  PROVE  PushInv'
<1>1. /\ e \notin remote.ids /\ remote'.ids = remote.ids \cup {e}
      /\ UNCHANGED <<fetched, branch, rebase, tree, stale, job, phase, ask>>
  BY DEF OtherPush, clone, files, calls
<1>2. /\ SoundBranch(Alive, Writers, remote.ids, branch) /\ fetched.ids \subseteq remote.ids
      /\ job.why = "push" => SoundBranch(Alive, Writers, remote.ids, job.pre)
      /\ phase = "pick" => SoundBranch(Alive, Writers, remote.ids, rebase.tip)
  BY DEF PlacesInv, BranchInv, Replaying
<1>3. ASSUME NEW b \in Branch, SoundBranch(Alive, Writers, remote.ids, b)
      PROVE  e \notin b.ids
  <2>1. b.own \in Seq(Commit)
    BY DEF Branch
  <2>2. b.own \in [1 .. Len(b.own) -> Commit]
    BY <2>1, LenProperties
  <2>3. \A i \in DOMAIN b.own : b.own[i].id \in Calls
    BY <2>2 DEF Commit
  <2> QED
    BY <1>1, <1>3, <2>3, ConstantsAssumption DEF SoundBranch, OwnIds
<1>4. /\ branch \in Branch /\ job.pre \in Branch
      /\ phase = "pick" => rebase.tip \in Branch
  BY DEF TypeInv, TypeOK, Job, JobInv, Rebasing
<1>5. /\ e \notin branch.ids /\ e \notin fetched.ids
      /\ job.why = "push" => e \notin job.pre.ids
      /\ phase = "pick" => e \notin rebase.tip.ids
  BY <1>1, <1>2, <1>3, <1>4
<1>6. \A d : /\ Missing(remote', branch, d) = {} /\ Missing(remote', fetched, d) = {}
             /\ job.why = "push" => Missing(remote', job.pre, d) = {}
             /\ phase = "pick" => Missing(remote', rebase.tip, d) = {}
  BY <1>1, <1>5 DEF Missing
<1>7. phase \in Fetching => remote'.ids \ fetched.ids \subseteq Others
  BY <1>1 DEF PushInv, AheadInv
<1>8. AheadInv'
  BY <1>1, <1>6, <1>7 DEF AheadInv
<1>9. RightInv'
  BY <1>1, RightQuiet DEF PushInv
<1> QED
  BY <1>8, <1>9 DEF PushInv

LEMMA PushAhead ==
  ASSUME TypeInv, PushInv, Growing, Push \/ Pending
  PROVE  PushInv'
<1>1. /\ UNCHANGED branch /\ ~DropOwnCommit /\ phase' = "free" /\ job'.why = "sync"
      /\ remote' = remote \/ remote' = Pushed
  BY DEF Push, Pending, DropOwnCommit, Return, NoJob, clone
<1>2. RightInv'
  BY <1>1, RightQuiet DEF PushInv
<1>3. CASE remote' = remote
  BY <1>1, <1>3, StillStep DEF Fetching
<1>4. CASE remote' = Pushed
  <2>1. \A d : Missing(remote', branch, d) = {}
    BY <1>4 DEF Missing, Pushed
  <2>2. AheadInv'
    BY <1>1, <2>1 DEF AheadInv, Fetching
  <2> QED
    BY <1>2, <2>2 DEF PushInv
<1> QED
  BY <1>1, <1>3, <1>4

\* A change adds to the document, unless it deletes what its caller has seen.
LEMMA AppliedTakes ==
  ASSUME NEW kind \in Kinds, NEW seen, NEW cur, NEW w, NEW new \in Applied(kind, seen, cur, w)
  PROVE  cur \subseteq new \/ (kind = "delete" /\ cur = seen)
<1>1. CASE kind = "replace"
  <2>1. cur \subseteq Merge(seen, cur, seen \cup {w})
    BY DEF Merge
  <2> QED
    BY <1>1, <2>1 DEF Applied
<1>2. CASE kind # "replace"
  BY <1>2 DEF Applied, Kinds
<1> QED
  BY <1>1, <1>2

LEMMA WriteFileAhead ==
  ASSUME TypeInv, CleanInv, PushInv, Growing, WriteFile
  PROVE  PushInv'
<1>1. /\ UNCHANGED <<remote, fetched, branch, rebase, stale, job, ask>> /\ ~DropOwnCommit
      /\ phase = "apply" /\ phase' = "add" /\ Doc' = Doc /\ Seen' = Seen
  BY DEF WriteFile, DropOwnCommit, clone, calls, Doc, Seen
<1>2. AheadInv'
  BY <1>1, AheadQuiet DEF PushInv, Fetching
<1>3. /\ Doc \in Docs /\ ask[job.call].kind \in Kinds /\ tree \in Tree
  BY <1>1, CallInHand DEF Request, TypeInv, TypeOK
<1>4. PICK new \in Applied(ask[job.call].kind, Seen, Current, job.call) :
        tree' = [tree EXCEPT ![Doc] = new]
  BY DEF WriteFile
<1>5. tree'[Doc] = new
  BY <1>3, <1>4 DEF Tree
<1>6. ASSUME ~stale', Doc \notin left'
      PROVE  \/ branch.content[Doc] \subseteq tree'[Doc]
             \/ ask[job.call].kind = "delete" /\ branch.content[Doc] \subseteq Seen
  <2>1. Doc \notin left
    BY <1>6 DEF Growing
  <2>2. Current = branch.content[Doc]
    BY <1>1, <1>3, <1>6, <2>1 DEF CleanInv, Unsettled, Writing, Same, Current
  <2> QED
    BY <1>3, <1>5, <2>2, AppliedTakes
<1>7. job.why = "sync"
  BY <1>1 DEF TypeInv, JobInv
<1>8. RightInv'
  <2>1. Rightful \subseteq Rightful'
    BY DEF Growing
  <2> QED
    BY <1>1, <1>6, <1>7, <2>1 DEF PushInv, RightInv
<1> QED
  BY <1>2, <1>8 DEF PushInv

\* What the commit of the call in hand adds to the branch.
LEMMA CommittedAhead ==
  ASSUME TypeInv, CleanInv, CommitInv, KilledInv, PushInv, Growing, phase = "commit"
  PROVE  /\ Committed.ids = branch.ids \cup {job.call} /\ job.call \notin remote.ids
         /\ job.call \in Calls \ killed /\ outcome[job.call] = "asked" /\ Doc \in Docs
         /\ job.why = "sync" /\ ~DropOwnCommit
         /\ \A d \in Docs : Missing(remote, Committed, d) \subseteq
              Missing(remote, branch, d)
                \cup (IF d = Doc THEN branch.content[Doc] \ tree[Doc] ELSE {})
         /\ \A d \in Docs \ left' : /\ Missing(remote, branch, d) \subseteq Taking(d)'
                                    /\ Missing(remote, branch, d) \subseteq Taken(d)'
         /\ Doc \notin left' =>
              \/ branch.content[Doc] \subseteq tree[Doc]
              \/ ask[job.call].kind = "delete" /\ branch.content[Doc] \subseteq Seen
<1>1. /\ job.call \in Calls /\ Doc \in Docs /\ outcome[job.call] = "asked"
      /\ job.why = "sync" /\ branch.content \in Tree /\ ~DropOwnCommit
  BY CallInHand DEF TypeInv, TypeOK, JobInv, Branch, DropOwnCommit
<1>2. job.call \notin killed
  BY <1>1 DEF KilledInv
<1>3. job.call \notin remote.ids
  BY <1>1, <1>2 DEF CommitInv, Accepted, Loose
<1>4. /\ Committed.ids = branch.ids \cup {job.call}
      /\ \A d \in Docs : Committed.content[d] = IF d = Doc THEN tree[d] ELSE branch.content[d]
  BY <1>1 DEF Committed, Tree
<1>5. \A d \in Docs : Missing(remote, Committed, d) \subseteq
        Missing(remote, branch, d)
          \cup (IF d = Doc THEN branch.content[Doc] \ tree[Doc] ELSE {})
  BY <1>3, <1>4 DEF Missing
<1>6. HeldCalls = {}
  BY <1>1 DEF HeldCalls, InHand
<1>7. ASSUME NEW d \in Docs \ left'
      PROVE  /\ Missing(remote, branch, d) \subseteq Taking(d)'
             /\ Missing(remote, branch, d) \subseteq Taken(d)'
  <2>1. /\ d \in Docs \ left /\ Taken(d) \subseteq Taken(d)' /\ Taking(d) \subseteq Taking(d)'
    BY <1>1 DEF Growing
  <2>2. Missing(remote, branch, d) \subseteq Taking(d)
    BY <2>1 DEF PushInv, AheadInv
  <2>3. Taking(d) = Taken(d)
    BY <1>6 DEF Taking, Taken, TakenBy
  <2> QED
    BY <2>1, <2>2, <2>3
<1>8. Doc \notin left' =>
        \/ branch.content[Doc] \subseteq tree[Doc]
        \/ ask[job.call].kind = "delete" /\ branch.content[Doc] \subseteq Seen
  BY DEF CleanInv, PushInv, RightInv, Growing
<1> QED
  BY <1>1, <1>2, <1>3, <1>4, <1>5, <1>7, <1>8

LEMMA CommittedEntries ==
  ASSUME TypeInv, job.call \in Calls
  PROVE  LET c == [id |-> job.call, doc |-> Doc, from |-> branch.content[Doc], to |-> tree[Doc]]
         IN  c \in Commit /\ Entries(Committed.own) = Entries(branch.own) \cup {c}
<1> DEFINE c == [id |-> job.call, doc |-> Doc, from |-> branch.content[Doc], to |-> tree[Doc]]
<1>1. c \in Commit
  BY CommittedType DEF Commit
<1>2. branch.own \in Seq(Commit)
  BY DEF TypeInv, TypeOK, Branch
<1>3. Committed.own = Append(branch.own, c)
  BY DEF Committed
<1> HIDE DEF c
<1>4. Entries(Committed.own) = Entries(branch.own) \cup {c}
  BY <1>1, <1>2, <1>3, EntriesOfAppend
<1> QED
  BY <1>1, <1>4 DEF c

LEMMA GitCommitAhead ==
  ASSUME TypeInv, CleanInv, CommitInv, KilledInv, PushInv, Growing, GitCommit
  PROVE  PushInv'
<1> DEFINE c == [id |-> job.call, doc |-> Doc, from |-> branch.content[Doc], to |-> tree[Doc]]
<1>1. /\ UNCHANGED <<remote, fetched, ask, outcome, killed, left>> /\ phase = "commit"
      /\ phase' = "fetch" /\ branch' = Committed /\ job \in Job
      /\ \E headless \in BOOLEAN :
           job' = [job EXCEPT !.headless = headless, !.pre = branch,
                              !.old = Committed.content, !.why = "push"]
  BY DEF GitCommit, TypeInv, TypeOK
<1>2. job'.pre = branch /\ job'.why = "push" /\ job'.call = job.call
  BY <1>1 DEF Job
<1>3. ASSUME NEW d \in Docs \ left'
      PROVE  /\ Missing(remote, Committed, d) \subseteq Taking(d)'
             /\ Missing(remote, branch, d) \subseteq Taken(d)'
  <2>1. /\ Missing(remote, branch, d) \subseteq Taking(d)'
        /\ Missing(remote, branch, d) \subseteq Taken(d)'
    BY <1>1, <1>3, CommittedAhead
  <2>2. CASE d # Doc
    BY <1>1, <1>3, <2>1, <2>2, CommittedAhead
  <2>3. CASE d = Doc
    <3>1. Missing(remote, Committed, d) \subseteq
            Missing(remote, branch, d) \cup (branch.content[Doc] \ tree[Doc])
      BY <1>1, <2>3, CommittedAhead
    <3>2. CASE branch.content[Doc] \subseteq tree[Doc]
      BY <2>1, <3>1, <3>2
    <3>3. CASE ask[job.call].kind = "delete" /\ branch.content[Doc] \subseteq Seen
      <4>1. job.call \in HeldCalls'
        BY <1>1, <1>2, CommittedAhead DEF HeldCalls, InHand
      <4>2. Seen \subseteq Taking(d)'
        BY <1>1, <2>3, <3>3, <4>1 DEF Taking, TakenBy, Doc, Seen
      <4> QED
        BY <2>1, <3>1, <3>3, <4>2
    <3> QED
      BY <1>1, <1>3, <2>3, <3>2, <3>3, CommittedAhead
  <2> QED
    BY <2>1, <2>2, <2>3
<1>4. AheadInv'
  BY <1>1, <1>2, <1>3 DEF AheadInv, Fetching
<1>5. c \in Rightful'
  <2>1. c \in Commit /\ job.call \in Calls \ killed /\ outcome[job.call] = "asked"
    BY <1>1, CommittedAhead, CommittedEntries
  <2>2. CASE Doc \in left'
    BY <2>1, <2>2 DEF Rightful
  <2>3. CASE Doc \notin left'
    <3>1. \/ branch.content[Doc] \subseteq tree[Doc]
          \/ ask[job.call].kind = "delete" /\ branch.content[Doc] \subseteq Seen
      BY <1>1, <2>3, CommittedAhead
    <3> QED
      BY <1>1, <2>1, <3>1 DEF Rightful, Doc, Seen
  <2> QED
    BY <2>2, <2>3
<1>6. Entries(Committed.own) = Entries(branch.own) \cup {c}
  BY <1>1, CommittedAhead, CommittedEntries
<1> HIDE DEF c
<1>7. RightInv'
  <2>1. Rightful \subseteq Rightful'
    BY DEF Growing
  <2>2. Entries(branch.own) \subseteq Rightful'
    BY <2>1 DEF PushInv, RightInv
  <2> QED
    BY <1>1, <1>2, <1>5, <1>6, <2>2 DEF RightInv
<1> QED
  BY <1>4, <1>7 DEF PushInv

LEMMA CommitFailsAhead ==
  ASSUME TypeInv, CleanInv, CommitInv, KilledInv, PushInv, Growing, CommitFails
  PROVE  PushInv'
<1> DEFINE c == [id |-> job.call, doc |-> Doc, from |-> branch.content[Doc], to |-> tree[Doc]]
<1>1. /\ UNCHANGED <<remote, fetched, job>> /\ phase = "commit" /\ phase' = "rollback"
  BY DEF CommitFails
<1>2. CASE branch' = branch
  BY <1>1, <1>2, CommittedAhead, StillStep DEF Fetching
<1>3. CASE branch' = Committed /\ left' = left \cup {Doc}
  <2>1. job'.why = "sync"
    BY <1>1, CommittedAhead
  <2>2. ASSUME NEW d \in Docs \ left'
        PROVE  Missing(remote, Committed, d) \subseteq Taking(d)'
    <3>1. d # Doc
      BY <1>3
    <3> QED
      BY <1>1, <3>1, CommittedAhead
  <2>3. AheadInv'
    BY <1>1, <1>3, <2>1, <2>2 DEF AheadInv, Fetching
  <2>4. c \in Rightful'
    BY <1>1, <1>3, CommittedAhead, CommittedEntries DEF Rightful
  <2>5. Entries(Committed.own) = Entries(branch.own) \cup {c}
    BY <1>1, CommittedAhead, CommittedEntries
  <2> HIDE DEF c
  <2>6. Entries(branch.own) \subseteq Rightful'
    BY DEF PushInv, RightInv, Growing
  <2>7. RightInv'
    BY <1>1, <1>3, <2>1, <2>4, <2>5, <2>6 DEF RightInv
  <2> QED
    BY <2>3, <2>7 DEF PushInv
<1> QED
  BY <1>2, <1>3 DEF CommitFails

\* A commit that is replayed takes no more than it did where it was made.
LEMMA PickAhead ==
  ASSUME TypeInv, CommitInv, PushInv, Growing, Pick
  PROVE  PushInv'
<1> DEFINE c == Head(rebase.todo)
           cur == rebase.tip.content[c.doc]
           new == Merge(c.from, cur, c.to)
           content == [rebase.tip.content EXCEPT ![c.doc] = new]
           replayed == [c EXCEPT !.from = cur, !.to = new]
           tip == [ids |-> rebase.tip.ids \cup {c.id}, content |-> content,
                   own |-> Append(rebase.tip.own, replayed)]
<1>1. /\ rebase \in Rebasing /\ rebase.tip.content \in Tree /\ c \in Commit
      /\ c.doc \in Docs /\ cur \in Content /\ c.id \in Calls
      /\ rebase.todo \in Seq(Commit) /\ rebase.todo # <<>> /\ rebase.tip \in Branch
      /\ rebase.tip.own \in Seq(Commit)
  BY HeadCommit DEF Pick, Rebasing, Branch, Commit
<1>2. /\ UNCHANGED <<remote, fetched, branch, job>> /\ ~DropOwnCommit
      /\ phase = "pick" /\ phase' = "pick" /\ c.id \notin fetched.ids
      /\ rebase' = [tip |-> IF new = cur THEN rebase.tip ELSE tip, todo |-> Tail(rebase.todo)]
  BY DEF Pick, DropOwnCommit, Unpushed
<1>3. new \in Content
  BY <1>1, MergeType DEF Commit
<1>4. /\ replayed \in Commit /\ replayed.id = c.id /\ replayed.doc = c.doc
      /\ replayed.from = cur /\ replayed.to = new
  BY <1>1, <1>3 DEF Commit
<1>5. cur \ new \subseteq c.from \ c.to
  BY DEF Merge
<1>6. c \in Rightful /\ c.id \in Held
  <2>1. c \in Entries(rebase.todo) /\ c.id \in OwnIds(rebase.todo)
    BY <1>1, EntriesOfTail, OwnIdsOfTail
  <2>2. rebase # None
    BY <1>1, ConstantsAssumption DEF Rebasing
  <2> QED
    BY <1>2, <2>1, <2>2 DEF PushInv, RightInv, Held, RebaseIds
<1>7. replayed \in Rightful
  BY <1>4, <1>5, <1>6 DEF Rightful
<1>8. c.id \notin remote.ids
  BY <1>1, <1>2, ConstantsAssumption DEF PushInv, AheadInv, Fetching
<1>9. \A d \in Docs : tip.content[d] = IF d = c.doc THEN new ELSE rebase.tip.content[d]
  BY <1>1 DEF Tree
<1>10. /\ tip.ids = rebase.tip.ids \cup {c.id}
       /\ Entries(tip.own) = Entries(rebase.tip.own) \cup {replayed}
  <2>1. tip.own = Append(rebase.tip.own, replayed) /\ tip.ids = rebase.tip.ids \cup {c.id}
    OBVIOUS
  <2> HIDE DEF tip, replayed
  <2> QED
    BY <1>1, <1>4, <2>1, EntriesOfAppend
<1> HIDE DEF tip, replayed, content, new
<1>11. rebase'.tip \in {rebase.tip, tip} /\ rebase'.todo = Tail(rebase.todo)
  BY <1>2
<1>12. RightInv'
  <2>1. Rightful \subseteq Rightful'
    BY DEF Growing
  <2>2. Entries(Tail(rebase.todo)) \subseteq Entries(rebase.todo)
    BY <1>1, EntriesOfTail
  <2>3. Entries(rebase'.tip.own) \cup Entries(rebase'.todo) \subseteq Rightful
    BY <1>2, <1>7, <1>10, <1>11, <2>2 DEF PushInv, RightInv
  <2> QED
    BY <1>2, <2>1, <2>3 DEF PushInv, RightInv
<1>13. ASSUME NEW d \in Docs \ left
       PROVE  Missing(remote, tip, d) \subseteq Taking(d)
  <2>1. Missing(remote, rebase.tip, d) \subseteq Taking(d)
    BY <1>2, <1>13 DEF PushInv, AheadInv
  <2>2. Missing(remote, tip, d) \subseteq
          Missing(remote, rebase.tip, d) \cup (IF d = c.doc THEN cur \ new ELSE {})
    <3> HIDE DEF c
    <3> QED
      BY <1>8, <1>9, <1>10, <1>13 DEF Missing
  <2>3. CASE d # c.doc
    BY <2>1, <2>2, <2>3
  <2>4. CASE d = c.doc /\ c.from \subseteq c.to
    BY <1>5, <2>1, <2>2, <2>4
  <2>5. CASE d = c.doc /\ ~(c.from \subseteq c.to)
    <3>1. /\ c.id \notin killed /\ ask[c.id].doc = d /\ ask[c.id].kind = "delete"
          /\ c.from \ c.to \subseteq ask[c.id].seen
      BY <1>6, <1>13, <2>5 DEF Rightful
    <3>2. c.id \in AcceptedCalls \cup HeldCalls
      BY <1>1, <1>6, <3>1 DEF CommitInv, AcceptedCalls, HeldCalls
    <3>3. ask[c.id].seen \subseteq Taking(d)
      BY <3>1, <3>2 DEF Taking, TakenBy
    <3> QED
      BY <1>5, <2>1, <2>2, <2>5, <3>1, <3>3
  <2> QED
    BY <2>3, <2>4, <2>5
<1>14. ASSUME NEW d \in Docs \ left'
       PROVE  /\ Missing(remote, branch, d) \subseteq Taking(d)'
              /\ job.why = "push" => Missing(remote, job.pre, d) \subseteq Taken(d)'
              /\ Missing(remote, rebase'.tip, d) \subseteq Taking(d)'
              /\ Missing(remote, fetched, d) \subseteq Taken(d)'
  <2>1. /\ d \in Docs \ left /\ Taken(d) \subseteq Taken(d)' /\ Taking(d) \subseteq Taking(d)'
    BY <1>2 DEF Growing
  <2>2. Missing(remote, rebase'.tip, d) \subseteq Taking(d)
    BY <1>2, <1>11, <1>13, <2>1 DEF PushInv, AheadInv
  <2> QED
    BY <1>2, <2>1, <2>2 DEF PushInv, AheadInv, Fetching
<1>15. AheadInv'
  BY <1>2, <1>14 DEF PushInv, AheadInv
<1> QED
  BY <1>12, <1>15 DEF PushInv

LEMMA NextPush ==
  ASSUME TypeInv, SavedInv, PushInv, [Next]_vars
  PROVE  PushInv'
<1>1. Growing
  BY NextGrowing
<1> QED
  BY <1>1, OutsideAhead, StillAhead, FetchAhead, ToFetchedAhead, RebaseStartsAhead,
     SkipPushedAhead, RebaseEndsAhead, DropOwnCommitAhead, OtherPushAhead, PushAhead,
     WriteFileAhead, GitCommitAhead, CommitFailsAhead, PickAhead
     DEF Next, Sync, Rebase, Write, Publish, SavedInv

LEMMA InitPush == Init => PushInv
<1> SUFFICES ASSUME Init PROVE PushInv
  OBVIOUS
<1>1. PICK content \in [Docs -> {{}, {Old}}] :
        /\ remote = [ids |-> {}, content |-> content]
        /\ branch = [ids |-> {}, content |-> content, own |-> <<>>]
  BY DEF Init
<1>2. phase = "free" /\ job.why = "sync"
  BY DEF Init, NoJob
<1>3. \A d : Missing(remote, branch, d) = {}
  BY <1>1 DEF Missing
<1>4. Entries(branch.own) = {}
  BY <1>1, NoEntries
<1> QED
  BY <1>2, <1>3, <1>4 DEF PushInv, AheadInv, RightInv, Fetching

\* The inductive invariant of what a push can take from the remote holds in every
\* reachable state.
THEOREM PushInvariance == Spec => [](TypeInv /\ SavedInv /\ PushInv)
<1>1. Init => TypeInv /\ SavedInv /\ PushInv
  BY InitSaved, InitPush
<1>2. TypeInv /\ SavedInv /\ PushInv /\ [Next]_vars => (TypeInv /\ SavedInv /\ PushInv)'
  BY NextType, NextClean, NextCommits, NextKilled, NextSeen, NextPlaces, NextPush
     DEF SavedInv, PlacesInv
<1> QED
  BY <1>1, <1>2, PTL DEF Spec

LEMMA OnlyPushes ==
  ASSUME [Next]_vars, remote' # remote
  PROVE  Push \/ Pending \/ \E e \in Others, d \in Docs : OtherPush(e, d)
<1>1. ~UNCHANGED vars /\ ~MarkPulled /\ ~\E d \in Docs : IndexDoc(d)
  BY DEF vars, MarkPulled, IndexDoc
<1>2. /\ ~\E w \in Calls, kind \in Kinds, d \in Docs : Ask(w, kind, d)
      /\ ~StartPull /\ ~\E w \in Calls : StartWrite(w)
  BY DEF Ask, StartPull, StartWrite, Lock
<1>3. ~Sync
  BY DEF Sync, SyncFetch, FastForward, PullEnds, SyncEnds, MarkPulled
<1>4. ~Rebase
  BY DEF Rebase, RebaseStarts, SkipPushed, Pick, PickConflicts, RebaseEnds, AbortRebase,
     RebaseRefused, RebaseKilled, RebaseKilledLate, Park
<1>5. ~Write
  BY DEF Write, WriteFile, Refuse, WriteFails, Add, GitCommit, CommitFails, RollBack
<1>6. ~PushFetch /\ ~Diff /\ ~PushRejected /\ ~DropOwnCommit /\ ~Crash /\ ~Recover
  BY DEF PushFetch, Diff, PushRejected, DropOwnCommit, Crash, Recover
<1> QED
  BY <1>1, <1>2, <1>3, <1>4, <1>5, <1>6 DEF Next, Publish

LEMMA PublishStep ==
  ASSUME TypeInv, PushInv, [Next]_vars, Publishes, NEW d \in Docs \ left,
         NEW e \in remote.content[d] \ remote'.content[d]
  PROVE  \E w \in Calls : /\ outcome'[w] \in {"saved", "unknown"}
                          /\ ask[w].kind = "delete" /\ ask[w].doc = d /\ e \in ask[w].seen
<1>1. ASSUME NEW other \in Others, NEW f \in Docs, OtherPush(other, f)
      PROVE  FALSE
  BY <1>1 DEF OtherPush, Publishes
<1>2. Pushable /\ remote' = Pushed
  BY <1>1, RemoteStep DEF Publishes
<1>3. e \in Taking(d)
  BY <1>2 DEF Pushable, Pushed, Missing, PushInv, AheadInv
<1>4. PICK w \in AcceptedCalls \cup HeldCalls :
        ask[w].kind = "delete" /\ ask[w].doc = d /\ e \in ask[w].seen
  BY <1>3 DEF Taking, TakenBy
<1>5. ~DropOwnCommit
  BY <1>2 DEF DropOwnCommit, Publishes
<1>6. w \in Calls /\ (Accepted(w) \/ InHand(w))
  BY <1>4 DEF AcceptedCalls, HeldCalls
<1>7. Accepted(w)'
  <2>1. CASE Accepted(w)
    BY <1>6, <2>1, CallsStay
  <2>2. CASE InHand(w)
    <3>1. Push \/ Pending
      BY OnlyPushes, <1>1 DEF Publishes
    <3>2. w = job.call /\ outcome[w] = "asked"
      BY <2>2, CallInHand DEF InHand
    <3> QED
      BY <1>6, <3>1, <3>2 DEF Push, Pending, Return, Accepted, TypeInv, TypeOK
  <2> QED
    BY <1>6, <2>1, <2>2
<1> QED
  BY <1>4, <1>6, <1>7 DEF Accepted

\* Whatever was pushed elsewhere since the last fetch, and whichever commits of this clone
\* were left over from earlier failures, rebased or dropped on the way: a push takes
\* nothing from the remote's documents but what the caller of an accepted deletion had seen.
THEOREM PushesTakeNothing == Spec => PushesLoseNothing
<1>1. TypeInv /\ PushInv /\ [Next]_vars =>
        [Publishes => \A d \in Docs \ left :
           \A e \in remote.content[d] \ remote'.content[d] :
             \E w \in Calls : /\ outcome'[w] \in {"saved", "unknown"}
                             /\ ask[w].kind = "delete" /\ ask[w].doc = d
                             /\ e \in ask[w].seen]_vars
  BY PublishStep
<1> QED
  BY <1>1, PushInvariance, PTL DEF Spec, PushesLoseNothing
=============================================================================
