--------------------------- MODULE Contradictions ---------------------------
(***************************************************************************)
(* The contradiction job (src/src/contradictions.rs, its tables in         *)
(* state.rs, its timer in server.rs): a run finds the documents whose      *)
(* content changed since they were last analysed, looks up the neighbours  *)
(* of each, judges the close pairs in path order up to a cap, and records  *)
(* as analysed the documents all of whose pairs are settled.  Meanwhile    *)
(* documents are written, removed and indexed again.                       *)
(*                                                                         *)
(* A document is a number, its place in path order.  Its text is known by  *)
(* its hash, and comes back: a commit is reverted, a write rolled back, a  *)
(* deleted file restored.  One run is in progress at a time: RunLock       *)
(* inside a server, and no CLI run beside it.                              *)
(***************************************************************************)
EXTENDS Naturals, FiniteSets

CONSTANTS
    Docs,          \* the documents, numbers in path order
    MaxText,       \* bound: the texts a document may have, by their hash
    Score(_, _, _, _), \* Score(d, v, e, w): similarity of text v of d and w of e
    TopK,          \* contradictions.top_k
    MinSimilarity, \* contradictions.min_similarity
    MaxPairs,      \* contradictions.max_pairs_per_run
    MaxFailures,   \* MAX_CONSECUTIVE_JUDGE_FAILURES
    Poison,        \* pairs the judge never gives a verdict on
    Judges,        \* whether a server may have a judge: a subset of BOOLEAN
    Faults,        \* what may go wrong: see Fault
    MaxFaults,     \* bound: how often something goes wrong
    MaxEdits       \* bound: writes and restarts

Pairs == {p \in Docs \X Docs : p[1] < p[2]}
Pair(d, e) == IF d < e THEN <<d, e>> ELSE <<e, d>>
Texts == 1 .. MaxText
Gone == 0          \* no file, no row, no marker

ASSUME DocsAssumption == Docs \subseteq Nat /\ IsFiniteSet(Docs)
ASSUME BoundsAssumption ==
    /\ MaxText \in Nat \ {0} /\ MaxFaults \in Nat /\ MaxEdits \in Nat
    /\ TopK \in Nat \ {0} /\ MaxPairs \in Nat \ {0} /\ MaxFailures \in Nat \ {0}
    /\ MinSimilarity \in Nat
ASSUME SetsAssumption == Poison \subseteq Pairs /\ Judges \subseteq BOOLEAN

NoRow == [hash |-> [i \in 1 .. 2 |-> Gone], verdict |-> "none"]  \* none is stored for a pair
Rows == [hash : [1 .. 2 -> Texts], verdict : {"candidate", "final"}]

VARIABLES
    judge,     \* whether the server has a judge, from its start on
    text,      \* text[d]: the text of d last written
    exists,    \* exists[d]: the file of d is there
    row,       \* row[d]: content_hash of d in `documents`, or Gone
    analyzed,  \* contradiction_docs: the hash d was analysed at, or Gone
    pairs,     \* contradiction_pairs: a row of Rows, or NoRow
    job,       \* the run in progress
    listed,    \* history: the neighbours d had when it was last marked analysed,
               \* without those that left the index since that run began
    astray,    \* history: the documents that lost a row behind their marker's back
    edits,     \* writes and restarts so far
    faults     \* things that went wrong so far

docs == <<text, exists, row>>
history == <<listed, astray>>
vars == <<judge, docs, analyzed, pairs, job, history, edits, faults>>

Known == {d \in Docs : row[d] # Gone}
Idle == job.phase = "idle"

----------------------------------------------------------------------------
\* What a run remembers; an idle job remembers nothing.
NoJob == [phase |-> "idle", cancelled |-> FALSE,
          hashes |-> [d \in Docs |-> Gone], stored |-> [p \in Pairs |-> NoRow],
          changed |-> {}, needs |-> [d \in Docs |-> {}], scanned |-> {},
          lists |-> [d \in Docs |-> {}], work |-> {}, settled |-> {},
          left |-> {}, attempted |-> 0, failures |-> 0, done |-> {}]

Job == [phase : {"idle", "scan", "judge", "drop"},
       cancelled : BOOLEAN,
       hashes : [Docs -> 0 .. MaxText],
       stored : [Pairs -> Rows \cup {NoRow}],
       changed : SUBSET Docs, needs : [Docs -> SUBSET Pairs],
       scanned : SUBSET Docs, lists : [Docs -> SUBSET Docs],
       left : SUBSET Docs, work : SUBSET Pairs, settled : SUBSET Pairs,
       attempted : 0 .. MaxPairs, failures : 0 .. MaxFailures,
       done : SUBSET Docs]

TypeOK ==
    /\ judge \in BOOLEAN
    /\ text \in [Docs -> Texts]
    /\ exists \in [Docs -> BOOLEAN]
    /\ row \in [Docs -> 0 .. MaxText]
    /\ analyzed \in [Docs -> 0 .. MaxText]
    /\ pairs \in [Pairs -> Rows \cup {NoRow}]
    /\ listed \in [Docs -> SUBSET Docs] /\ astray \subseteq Docs
    /\ edits \in 0 .. MaxEdits /\ faults \in 0 .. MaxFaults
    /\ job \in Job
    /\ job.settled \cap job.work = {} /\ job.done \subseteq job.scanned

Init ==
    /\ judge \in Judges
    /\ text = [d \in Docs |-> 1] /\ exists = [d \in Docs |-> TRUE]
    /\ row = [d \in Docs |-> 1]
    /\ analyzed = [d \in Docs |-> Gone] /\ pairs = [p \in Pairs |-> NoRow]
    /\ job = NoJob /\ listed = [d \in Docs |-> {}] /\ astray = {}
    /\ edits = 0 /\ faults = 0

\* A fault of kind f happens, if faults of this kind are considered.
Fault(f) == f \in Faults /\ faults < MaxFaults /\ faults' = faults + 1

----------------------------------------------------------------------------
\* The documents and their index.

Edit == edits < MaxEdits /\ edits' = edits + 1

\* A new text, or one the document had before.
Write(d, v) ==
    /\ Edit /\ (~exists[d] \/ text[d] # v)
    /\ text' = [text EXCEPT ![d] = v] /\ exists' = [exists EXCEPT ![d] = TRUE]
    /\ UNCHANGED <<judge, row, analyzed, pairs, job, history, faults>>

Remove(d) ==
    /\ exists[d] /\ Fault("remove")
    /\ exists' = [exists EXCEPT ![d] = FALSE]
    /\ UNCHANGED <<judge, text, row, analyzed, pairs, job, history, edits>>

\* The server is started again with another configuration.
Restart ==
    /\ Idle /\ Edit
    /\ judge' \in Judges \ {judge}
    /\ UNCHANGED <<docs, analyzed, pairs, job, history, faults>>

Index(d) ==
    /\ exists[d] /\ row[d] # text[d]
    /\ row' = [row EXCEPT ![d] = text[d]]
    /\ UNCHANGED <<judge, text, exists, analyzed, pairs, job, history, edits, faults>>

\* delete_document: the row, the marker, every pair of the document, one statement
\* after the other, so that a failure leaves the later ones undone.
\* The history forgets the document as a neighbour: its pairs go with it.
DeleteDocument(d) ==
    /\ ~exists[d] /\ row[d] # Gone
    /\ row' = [row EXCEPT ![d] = Gone]
    /\ LET unmarked == [analyzed EXCEPT ![d] = Gone]
       IN \/ /\ analyzed' = unmarked
             /\ pairs' = [p \in Pairs |-> IF d \in {p[1], p[2]} THEN NoRow ELSE pairs[p]]
             /\ UNCHANGED faults
          \/ /\ Fault("delete") /\ analyzed' \in {analyzed, unmarked}
             /\ UNCHANGED pairs
    /\ listed' = [e \in Docs |-> listed[e] \ {d}]
    /\ job' = IF Idle THEN job
              ELSE [job EXCEPT !.lists = [e \in Docs |-> @[e] \ {d}], !.left = @ \cup {d}]
    /\ UNCHANGED <<judge, text, exists, astray, edits>>

----------------------------------------------------------------------------
\* One run, run_once.

\* pair_is_settled: the stored row holds both hashes, and a verdict if there
\* is a judge to give one.
PairIsSettled(r, hashA, hashB, judged) ==
    /\ r # NoRow
    /\ r.hash = <<hashA, hashB>>
    /\ r.verdict = "candidate" => ~judged

\* prune_contradiction_data: what mentions a document without a row goes,
\* unless there is no document at all (a full reindex in progress).
PrunedMarkers == IF Known = {} THEN analyzed
                 ELSE [d \in Docs |-> IF d \in Known THEN analyzed[d] ELSE Gone]
PrunedPairs == IF Known = {} THEN pairs
               ELSE [p \in Pairs |-> IF {p[1], p[2]} \subseteq Known THEN pairs[p] ELSE NoRow]

Start ==
    /\ Idle
    /\ analyzed' = PrunedMarkers
    /\ pairs' = PrunedPairs
    /\ job' = [NoJob EXCEPT
                 !.phase = "scan",
                 !.hashes = row, !.stored = PrunedPairs,
                 !.changed = {d \in Known : PrunedMarkers[d] # row[d]}]
    /\ listed' = IF Known = {} THEN listed ELSE [d \in Docs |-> listed[d] \cap Known]
    /\ UNCHANGED <<judge, docs, astray, edits, faults>>

First(s) == CHOOSE d \in s : \A e \in s : d <= e

\* The neighbours of d that a look-up yields now, of those the run knows:
\* similar enough, the TopK best, ties in path order.
Near(d, e) == Score(d, row[d], e, row[e])
Better(d, e, f) == Near(d, e) > Near(d, f) \/ (Near(d, e) = Near(d, f) /\ e < f)
Close(d) == {e \in Known \ {d} : job.hashes[e] # Gone /\ Near(d, e) >= MinSimilarity}
Ranked(d) == {e \in Close(d) : Cardinality({f \in Close(d) : Better(d, f, e)}) < TopK}

Required(d, near) ==
    {p \in {Pair(d, e) : e \in near} :
        ~PairIsSettled(job.stored[p], job.hashes[p[1]], job.hashes[p[2]], judge)}

\* Phase 1: the next changed document and its neighbours.
Scan ==
    /\ job.phase = "scan" /\ job.changed # {} /\ ~job.cancelled
    /\ row[First(job.changed)] # Gone
    /\ LET d == First(job.changed)
           near == Ranked(d)
       IN job' = [job EXCEPT !.changed = @ \ {d},
                             !.scanned = @ \cup {d},
                             !.needs[d] = Required(d, near),
                             !.lists[d] = near \ job.left,
                             !.work = @ \cup Required(d, near)]
    /\ UNCHANGED <<judge, docs, analyzed, pairs, history, edits, faults>>

\* The look-up fails, because the document has no point any more or because
\* the store does not answer: the document is left for the next run.
ScanFails ==
    /\ job.phase = "scan" /\ job.changed # {} /\ ~job.cancelled
    /\ \/ row[First(job.changed)] = Gone /\ UNCHANGED faults
       \/ Fault("lookup")
    /\ job' = [job EXCEPT !.changed = @ \ {First(@)}]
    /\ UNCHANGED <<judge, docs, analyzed, pairs, history, edits>>

\* Mutant: pairs that have a verdict are tried again too.
RetriedAll ==
    IF judge /\ ~job.cancelled
    THEN {p \in Pairs : /\ job.stored[p] # NoRow
                        /\ job.stored[p].hash = <<job.hashes[p[1]], job.hashes[p[2]]>>}
    ELSE {}

\* Mutant: a pair without a verdict waits for one of its documents to change.
RetriedNever == {}

\* Phase 2: pairs stored without a verdict are tried again by a judge.
Retried ==
    IF judge /\ ~job.cancelled
    THEN {p \in Pairs : /\ job.stored[p] # NoRow
                        /\ job.stored[p].verdict = "candidate"
                        /\ job.stored[p].hash = <<job.hashes[p[1]], job.hashes[p[2]]>>}
    ELSE {}

Gather ==
    /\ job.phase = "scan" /\ (job.changed = {} \/ job.cancelled)
    /\ job' = [job EXCEPT !.phase = "judge", !.work = @ \cup Retried]
    /\ UNCHANGED <<judge, docs, analyzed, pairs, history, edits, faults>>

Before(p, q) == p[1] < q[1] \/ (p[1] = q[1] /\ p[2] < q[2])
FirstPair(s) == CHOOSE p \in s : \A q \in s \ {p} : Before(p, q)

\* Phase 3 goes on with the next pair in path order, until the cap, a
\* cancellation or too many judge failures in a row.
Goes ==
    /\ job.phase = "judge" /\ job.work # {} /\ ~job.cancelled
    /\ job.attempted < MaxPairs /\ job.failures < MaxFailures

\* The documents of p that are marked at another text than the run goes by.
MarkedElsewhere(p) == {d \in {p[1], p[2]} : analyzed[d] \notin {Gone, job.hashes[d]}}

\* Mutant: the pair just stored stays in the work list.
StoredAndKept(p, verdict, failures) ==
    /\ pairs' = [pairs EXCEPT ![p] =
                   [hash |-> <<job.hashes[p[1]], job.hashes[p[2]]>>, verdict |-> verdict]]
    /\ astray' = astray \cup MarkedElsewhere(p)
    /\ job' = [job EXCEPT !.settled = @ \cup {p}, !.attempted = @ + 1, !.failures = failures]

\* A row is written: with a verdict, or as a candidate when there is no judge
\* or its call failed.
Stored(p, verdict, failures) ==
    /\ pairs' = [pairs EXCEPT ![p] =
                   [hash |-> <<job.hashes[p[1]], job.hashes[p[2]]>>, verdict |-> verdict]]
    /\ astray' = astray \cup MarkedElsewhere(p)
    /\ job' = [job EXCEPT !.work = @ \ {p}, !.settled = @ \cup {p},
                          !.attempted = @ + 1, !.failures = failures]

Judged ==
    /\ Goes /\ judge
    /\ LET p == FirstPair(job.work)
       IN /\ p \notin Poison /\ exists[p[1]] /\ exists[p[2]]
          /\ Stored(p, "final", 0)
    /\ UNCHANGED <<judge, docs, analyzed, listed, edits, faults>>

JudgeFails ==
    /\ Goes /\ judge
    /\ LET p == FirstPair(job.work)
       IN /\ exists[p[1]] /\ exists[p[2]]
          /\ IF p \in Poison THEN UNCHANGED faults ELSE Fault("judge")
          /\ Stored(p, "candidate", job.failures + 1)
    /\ UNCHANGED <<judge, docs, analyzed, listed, edits>>

NoVerdict ==
    /\ Goes /\ ~judge
    /\ Stored(FirstPair(job.work), "candidate", 0)
    /\ UNCHANGED <<judge, docs, analyzed, listed, edits, faults>>

\* A document of the pair is gone or cannot be read: nothing is written and
\* the pair is not settled.
Skipped ==
    /\ Goes /\ judge
    /\ LET p == FirstPair(job.work)
       IN /\ \/ {exists[p[1]], exists[p[2]]} # {TRUE} /\ UNCHANGED faults
             \/ Fault("read")
          /\ job' = [job EXCEPT !.work = @ \ {p}]
    /\ UNCHANGED <<judge, docs, analyzed, pairs, history, edits>>

\* Mutant: a pair that was skipped counts as settled.
SettledOrSkipped(d) == job.needs[d] \cap job.work = {}

\* Phase 4: a scanned document every needed pair of which settled is analysed,
\* at the hash the run began with.
Settled(d) == job.needs[d] \subseteq job.settled
HashAnalyzed(d) == job.hashes[d]
MarkDocumentsAnalyzed ==
    /\ job.phase = "judge" /\ ~Goes
    /\ LET done == {d \in job.scanned : Settled(d)}
       IN /\ analyzed' = [d \in Docs |-> IF d \in done THEN HashAnalyzed(d) ELSE analyzed[d]]
          /\ listed' = [d \in Docs |-> IF d \in done THEN job.lists[d] ELSE listed[d]]
          /\ astray' = (astray \ done) \cup (done \cap job.left)
          /\ job' = [NoJob EXCEPT !.phase = "drop", !.hashes = job.hashes, !.done = done,
                                  !.scanned = done]
    /\ UNCHANGED <<judge, docs, pairs, edits, faults>>

\* Mutant: only the first document of a pair is looked at.
OutdatedFirst(p, i) ==
    /\ i = 1 /\ p[i] \in job.done
    /\ pairs[p] # NoRow
    /\ pairs[p].hash[i] # job.hashes[p[i]]

\* The stored pairs that still carry an old hash of an analysed document go,
\* document by document in path order; the other document of each loses its
\* marker.
Outdated(p, i) ==
    /\ p[i] \in job.done
    /\ pairs[p] # NoRow
    /\ pairs[p].hash[i] # job.hashes[p[i]]
Loses(d) ==
    \E p \in Pairs : \/ d = p[2] /\ Outdated(p, 1)
                     \/ d = p[1] /\ Outdated(p, 2) /\ ~Outdated(p, 1)
DeleteStalePairs ==
    /\ job.phase = "drop"
    /\ pairs' = [p \in Pairs |-> IF Outdated(p, 1) \/ Outdated(p, 2) THEN NoRow ELSE pairs[p]]
    /\ analyzed' = [d \in Docs |-> IF Loses(d) THEN Gone ELSE analyzed[d]]
    /\ job' = NoJob
    /\ UNCHANGED <<judge, docs, history, edits, faults>>

\* Ctrl-C or a shutdown: seen between documents and between pairs.
Cancel ==
    /\ job.phase \in {"scan", "judge"} /\ ~job.cancelled
    /\ Fault("cancel")
    /\ job' = [job EXCEPT !.cancelled = TRUE]
    /\ UNCHANGED <<judge, docs, analyzed, pairs, history, edits>>

\* A database error ends the run, or the process dies: before the documents
\* are marked ("abort"), or between the two transactions at the end ("drop").
Abort ==
    /\ ~Idle
    /\ Fault(IF job.phase = "drop" THEN "drop" ELSE "abort")
    /\ job' = NoJob
    /\ UNCHANGED <<judge, docs, analyzed, pairs, history, edits>>

----------------------------------------------------------------------------
Work == Judged \/ JudgeFails \/ NoVerdict \/ Skipped
RunStep == Scan \/ ScanFails \/ Gather \/ Work \/ MarkDocumentsAnalyzed \/ DeleteStalePairs
Environment == Restart \/ \E d \in Docs : Remove(d) \/ \E v \in Texts : Write(d, v)
Indexing == \E d \in Docs : Index(d) \/ DeleteDocument(d)

Next == Environment \/ Indexing \/ Start \/ RunStep \/ Cancel \/ Abort

\* The timer starts a run after every interval (periodic_job_loop), a run
\* comes to its end, and the indexer follows the files.  Nothing obliges
\* anyone to write, remove, restart, cancel or fail.
Fairness ==
    /\ WF_vars(RunStep) /\ WF_vars(Start)
    /\ \A d \in Docs : WF_vars(Index(d)) /\ WF_vars(DeleteDocument(d))

Spec == Init /\ [][Next]_vars /\ Fairness

----------------------------------------------------------------------------
\* A document analysed at its present hash has a stored row, with that hash,
\* for every neighbour it had when it was marked and that did not leave the
\* index since: what a capped, cancelled or failed run leaves over is never
\* taken for done (the "Carry-over" of the module's header).  Two histories
\* escape it.  A run that is cut short stores rows of a document's new text and
\* does not mark it, and then the text it was marked at comes back; or a run
\* marks a document that was deleted meanwhile, and then it is restored.
CoveredNow(d) ==
    \A e \in listed[d] :
        LET r == pairs[Pair(d, e)]
        IN r # NoRow /\ r.hash[IF d < e THEN 1 ELSE 2] = row[d]
AnalysedIsCovered ==
    \A d \in Known \ astray : analyzed[d] = row[d] => CoveredNow(d)

\* "a run that is cancelled between pairs loses nothing": the same without the
\* exception.
CancelledLosesNothing ==
    \A d \in Known : analyzed[d] = row[d] => CoveredNow(d)

\* Between runs a stored row with an outdated hash of a document means that the
\* next run looks at this document, but for the same two histories: no verdict
\* about an earlier text stays for good.
NoStrandedRow ==
    Idle => \A p \in Pairs :
        (pairs[p] # NoRow /\ {p[1], p[2]} \subseteq Known) =>
            \A i \in 1 .. 2 : (pairs[p].hash[i] # row[p[i]] /\ p[i] \notin astray) =>
                analyzed[p[i]] # row[p[i]]

\* A pair that has a verdict for the two texts a run goes by is not judged
\* again: "a pair is evaluated once per version of its two documents".
JudgedOnce ==
    [][\A p \in Pairs :
          (p \in job.work /\ p \in job'.settled) =>
              ~PairIsSettled(pairs[p], job.hashes[p[1]], job.hashes[p[2]], judge)]_vars

\* Once writes and faults end, every document gets analysed and every pair
\* in the table is about the present texts, with a verdict if there is a judge
\* that gives one, but for the pairs of documents gone astray.
Covered ==
    /\ \A d \in Known : analyzed[d] = row[d]
    /\ \A p \in Pairs : (pairs[p] # NoRow /\ {p[1], p[2]} \cap astray = {}) =>
          PairIsSettled(pairs[p], row[p[1]], row[p[2]], judge /\ p \notin Poison)
EverythingIsCovered == <>[]Covered

\* "The rest carries over to the next one", "the rest waits for the next run":
\* every document gets analysed, whatever pairs the judge refuses.
CarryOverIsReached == <>[](\A d \in Known : analyzed[d] = row[d])
=============================================================================
