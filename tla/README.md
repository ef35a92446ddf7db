# mcp-md-wiki: a verification project

mcp-md-wiki serves a git-backed Markdown knowledge base to agents over MCP. It clones
the repository, indexes its documents into Qdrant (vectors) and SQLite (rows, links),
lets tools search and edit them, commits and pushes every edit, and follows pushes made
elsewhere through a webhook. What is hard about it is not any single function but that
the disk, git history, the index, the schema rules and the configuration all move under
each other's feet. These TLA+ modules model that, TLC checks small instances of them,
and TLAPS proves the most important invariants for every instance.

Paths below are relative to the repository root; the Rust files are under `src/`.

## Inventory

| Component | State it keeps | Operations | Hard part |
|---|---|---|---|
| Reindex queue and worker, `reindex.rs` | dirty paths, full flag, a `Notify` permit; the unit in flight | `mark_paths`, `mark_full`, `mark_schema_changes`, `drain`, `drain_and_run_with`, `run_with_retry` | marks racing the drain; units dropped for an invalid schema; retries that give up |
| Producers, `sync.rs`, `webhook.rs`, `write.rs`, `reload.rs`, `mcp.rs` | nothing of their own | pull / write / reload, then mark | marking comes after the change, in two or three separate steps, and may fail to happen |
| Supervision and timers, `server.rs` | none | restart a panicked worker, periodic reconcile, startup reconcile | what a crash forgets |
| Schema cache, `schema.rs` | `SharedSchemaCache`, `REBUILD_GENERATION` | `SchemaCache::build`, `store_shared`, `apply_rebuild` | overlapping rebuilds, torn reads of the tree |
| `update_schema`, `mcp.rs` | a schema file and its commit | write, commit, roll back, rebuild, reply | read-your-writes; roll-back of what others already read |
| Ingest run, `ingest.rs` | Qdrant points, SQLite rows, links, semantic edges | `scan_for_dirty`, `index_paths`, `remove_orphans`, `refresh_document`, `scan_and_index` | two stores updated in sequence with no transaction |
| State database, `state.rs`; vector store, `qdrant.rs` | rows, points | upsert, delete, read | failure of one of the two |
| Git clone, `git.rs` | refs, index, working tree, `GIT_LOCK` | `ensure_repo`, `commit_and_sync`, `integrate_fetch_head`, `recover_interrupted_state` | remote moves during a push; crash inside a rebase |
| Document writes, `write.rs` | files and their commit | `write_document`, `write_documents_batch`, `write_document_move`, `move_directory`, `delete_document` | optimistic versions; roll-back of several files, in another order for each call |
| Configuration and reload, `config.rs`, `reload.rs` | `SharedConfig` | `reload_config` | a unit mixing two configurations |
| Status, `status.rs` | run record, schema error, stale-chunking latch | `start_run`, `finish_run`, `record_schema_error` | verdicts arriving out of order |
| Contradiction job, `contradictions.rs`, `judge.rs`, `state.rs` | analysed hashes, candidates and verdicts; one run at a time | `find_candidates`, `judge_pairs`, `mark_documents_analyzed`, `delete_stale_contradiction_pairs` | caps, cancelled and failing runs; documents that change under a run |
| Retrieval, `retrieval.rs` | none (the client keeps the cursor) | search, `changes_since` | page boundaries over a history that moves back, too |
| Chunking, `heading.rs`, `chunk.rs` | the chunk and the fragment in hand | `HeadingTree::parse`, `chunk_markdown` | joins that keep text, attribution and sizes right at once |
| Embedding client, `embed.rs` | requests in flight, slots for answers | `embed_texts`, `embed_batch` | answers in any order |
| Fields, validation, lint, `document_fields.rs`, `validate.rs`, `lint.rs` | none | pure functions | - |
| Other clients and front ends, `rerank.rs`, `sparse.rs`, `web.rs`, `main.rs`, `secrets.rs`, `eval.rs` | none | remote calls, rendering, argument parsing | - |

How they interact. A producer changes the working tree under `GIT_LOCK`, then marks the
queue. The single worker drains the queue into a unit (a set of paths, or a full
reconcile that swallows the paths), takes one snapshot of the configuration for it,
rebuilds the shared schema cache if a schema file is involved, and runs the unit; the run
reads the disk without the git lock. Write tools validate against the shared schema
cache. The timer asks for a full reconcile now and then, as a backstop for lost events.

What makes each correct. Queue: marked work is indexed, whatever runs meanwhile. Schema
cache: a rule reported as in effect is in effect; a stale cache is not forgotten. Ingest:
what is searchable is what is on disk, once things are quiet. Git: a commit reported as
saved is in history and stays there. Writes: an edit is applied to the version its caller
saw, or not at all; a change of several documents is all there or not at all, and its answer
says which. `changes_since`: following the pages misses nothing and tells nothing twice.
Contradictions: what a run left over is never taken for done, and gets its turn. Chunking and
embedding: every piece of text is in one chunk, attributed to a heading it is under, with the
vector computed from it.

## Modules

### ReindexQueue

State: `disk`, `tree` (the schema files, as one record: a version and whether all are
valid), `config`; `indexed` (what the index holds of each document: the version, the
configuration and the schema version it was built from); `queue` and `permit`
(`QueueState` and the stored permit of `Notify`); `worker` and `producer` (how far the
worker and each concurrent call got); `schemaError` (the record in `status.rs`). Ghosts:
`faults` counts injected faults, `waived` the documents a fault has left to the sweep.

Each critical section of the queue's mutex is one action and the `notify_one` after it is
another, so a mark and its wake-up interleave with the worker. `Change`,
`MarkSchemaChanges`, `NotifySchemaChanges`, `MarkChangedPaths`, `Notify` are a pull or a
write; `Reload`, `UpdateSchema`, `MarkFullReconcile`, `UpdateRebuilds`, `UpdateReturns`
and `SweepFires` the other producers. `Wake`, `Drain`, `LoadConfig`, `RebuildSchema`,
`ApplyRebuild`, `RecoverDropped`, `Scan`, `StartIndex`, `IndexDoc`, `FinishRun`,
`DropRefused`, `RunFails`, `Retry`, `GiveUp` are `drain_and_run_with` and
`run_with_retry`. `WorkerPanics`, `Crash`, `ChangeOffline`, `Startup` are the life cycle.

`EveryStaleDocIsOwed` is the heart: while the server runs on a valid schema tree, every
document the index lags behind on is somebody's duty. `NoLostWakeup` says the worker
never sleeps on a non-empty queue unless a permit is stored or a notify is coming.

Two things the model showed on the way. The recovery of #272 (`RecoverDropped`) is not
needed for either property as long as every repair of the schema tree goes through
`mark_schema_changes` or `mark_full`; it matters only for a schema path that reaches the
queue through a partition that failed open. And the branch of `run_with_retry` for the
"(strict mode)" wording is unreachable from today's `process_file`, so it has no action.

### SchemaCache

Opens up the rebuild that ReindexQueue takes as a verdict. State: the schema files as
revisions with a validity, `generation` (`REBUILD_GENERATION`), `cache` (the installed
build: its generation and the revision it read of each file), `build` (the build each
rebuilder has in hand: what it has read, what is left), `edit` (the write each
`update_schema` call has in hand), `gitLock`, and the queue reduced to `full`. Ghosts:
`promised` (the newest revision of each file that `update_schema` reported as in effect),
`aborted` (revisions that were rolled back), `excused` (a fault left the cache to the
sweep). A pull replaces files one by one under the git lock while builds, which do not
take it, read them one by one.

The generation of the throw-away cache that an index run builds for itself is left out:
that cache is never installed, and generations are only compared. A revision number is
never reused, so a rolled back revision can be recognised in the cache later.

### IndexRun

Opens up what ReindexQueue takes as the single step `IndexDoc`: one run of `ingest.rs`,
from the scan that finds work to the last row written. State that survives a run:
`disk` and `mtime` (the working tree; a content stands for its hash), `conf` (schema
fingerprint, chunking fingerprint, strict mode and path filter in force), `rows` (`indexed_files`),
`meta` (`documents`), `links` (`document_links`), `points` (the collection: for each
document, what chunk number i was made from), `rejected` (the registry in `status.rs`).
State of the run: `phase` names the next store call, `under` is the configuration the run
took at its start, `todo`, `cur`, `queue`, `pending`, `backfill`, `missing`,
`unindexable`, `emptied` are the local variables of `index_paths_generic` and
`flush_pending_batch`.

| Code | Actions |
|---|---|
| `scan_for_dirty` with its bulk-purge guard, `detect_qdrant_wipe`, `scan_and_index` | `DirtyDocs`, `WalkIsSuspect`, `WipeDetected`, `Sweep` |
| `index_paths_generic`: start, `--full` | `ScopedRun`, `FullReindex`, `Load`, `ClearState`, `DropCollection` |
| its loop, with `process_file` | `FindMissing`, `ReadFails`, `ReadFile`, then one of `Skip`, `Reject`, `LintFails`, `FindInvalid`, `Refresh`, `FindEmpty`, `Chunk` |
| `refresh_document` | `RefreshPayload`, `RefreshMeta`, `RefreshLinks`, `RefreshRow`, `RefreshFails` |
| `flush_pending_batch`, `upsert_pending` | `UpsertPoints`, `TrimTail`, `RecordRow`, `RecordMeta`, `RecordLinks`, `EndFlush` |
| `backfill_document_metadata` | `BackfillMeta`, `BackfillLinks` |
| `remove_orphans`, empty files | `PurgePoints`, `PurgeMeta`, `PurgeRow`, `PurgeFails`, `RecordEmpty` |
| an error that ends the run; a crash; Qdrant losing its data | `RunFails`, `Crash`, `WipeQdrant` |

The tree and the configuration change between any two of these (`Edit`, `Reload`). Each
store call is a step of its own, and where the code logs a failure and goes on, so does
the action. Three ghosts say what is not promised:

* `hurt`: documents a fault left out of step with their row. Its assignments are an
  inventory of the windows the code does not close: a failed tail trim; points changed
  and the row not yet (a later run repairs it unless the file is first put back as it
  was); rows cleared and the collection not yet dropped (points of a file deleted in
  between stay); metadata not written over old metadata of the same content hash; links
  not replaced (only when the stored ones are of another content); a refresh that stops
  half way before the schema is put back; a purge that stops half way before the file is.
  A document stays in `hurt` until a full reindex, a purge of it or a rebuild: that the code
  gets such a document right again sooner is neither checked nor proved. An upsert of points
  that fails (`RunFails`) has stored none of them. One that stored them all and then failed leaves
  in the stores what a crash after it leaves; one that stored a part of its batch is left out.
* `blind`: documents edited, with their size unchanged, between their read and their stat.
* `settled`: documents the current run has gone through, with nothing changed since.

`RowTrust` says that outside the writes in progress, the points of every document not
`hurt` are exactly those its row claims: skipping, trimming and wipe detection all go by
the row. `RunBringsUpToDate` is the promise ReindexQueue's `IndexDoc` relies on.
`SweepMissesNothing` says that the scan, which reads no file, still reports every document
the index is wrong about. `RebuildsOnlyDamage` says that a sweep drops the collection only
when a fault did damage first.

The exclusion filter is part of `conf`: the documents it lets through (`walked`), and whether it
may be trusted with removing the others (`purges`, `for_exclusion_purge`). A scoped run purges an
excluded path it is given; a sweep reports the excluded documents that have a row, unless the walk
found nothing or would drop more than half of the rows (`WalkIsSuspect`, the bulk-purge guard). What
the guard withholds stays until the filter or the rows change, and `SweepMissesNothing` exempts just
that (`Withheld`). A filter that fails to build refuses the scan, which is no step.

Left out: the semantic edges, the field projection (`ensure_projection_current`), and a second
process whose scoped run shares the stores.

### GitSync

The clone, its remote and one document write or deletion at a time, as the holder of
`GIT_LOCK` goes through them: `pull_clone` and `sync_clone`, `write_document` and
`delete_document_with`, `commit_and_sync`, and `recover_interrupted_state` after a crash.
State: `remote` (the remote branch), `fetched` (FETCH_HEAD), `branch`, `rebase` (a rebase
in progress), `parked` (the refs under `refs/mcp-md-wiki/unsynced`); `tree`, `index`,
`stale` (an `index.lock` nobody owns); `phase` and `job` (the program counter and local
variables of the lock's holder); `ask` and `outcome` of each call; `pulled`, `marked`,
`indexed` (a coarse view of ReindexQueue, to say that every change on disk is handed on).

| Code | Actions |
|---|---|
| `sync_to_remote`, `pull_clone`, `sync_clone` | `SyncFetch`, `FastForward`, `PullEnds`, `SyncEnds`, `MarkPulled` |
| `integrate_fetch_head` and the rebase of `commit_and_sync` | `RebaseStarts`, `SkipPushed`, `Pick`, `PickConflicts`, `RebaseEnds`, `AbortRebase`, `RebaseRefused`, `RebaseKilled`, `RebaseKilledLate` |
| `reset_to_fetch_head` | `Park` |
| `write_document`, `delete_document_with`, `write_or_undo` | `WriteFile`, `Refuse`, `WriteFails` |
| `commit_and_sync` up to the commit; `restore_from_head`, `unstage` | `Add`, `GitCommit`, `CommitFails`, `RollBack` |
| `commit_and_sync` after it | `PushFetch`, `Diff`, `Push`, `PushRejected`, `Pending` |
| `drop_own_commit`, then the next attempt | `DropOwnCommit` |
| a crash, and `recover_interrupted_state` | `Crash`, `Recover` |
| outside the lock: other clones, callers, index runs | `OtherPush`, `Ask`, `StartWrite`, `StartPull`, `IndexDoc` |

A document's content is the set of edits in it, and a commit is named by the edit it
carries, a name that survives a rebase. Whether two changes of one document overlap is not
decided by their text: where git could go either way, so does the model (`Pick` or
`PickConflicts`). git's own commands are modelled by what the code relies on: what
`rebase` refuses to start on (`Clean`), what a fast-forward refuses to overwrite, what
`reset --hard` does with untracked files (`Checkout`), that `restore` fails for a path
nobody knows.

A rebase is killed at its time limit in one of two places: before it is done, when the abort brings
the old branch back (`RebaseKilled`), or after it moved the branch, when there is nothing to abort
(`RebaseKilledLate`). The sync before a write compares HEAD before and after and marks what changed
all the same; a pull that ends so, and the rebase after a commit with its empty `rebased_paths`
(`git.rs:2087-2100`), mark nothing of what they brought in (`unmarked`). When `rev_parse_head`
fails before the commit (fault `"head"`, `git.rs:1988`), `pre_commit_head` is `None` and
`drop_own_commit` cannot go back to it: it parks the branch, the call's own commit included, resets
to FETCH_HEAD and answers "conflict" all the same (`git.rs:1682-1688`). A refused change is then on
no branch, but it is under a recovery ref, which `RefusedIsNowhere` allows to the calls in `blind`
and to no other. The same failure after the commit is one of `PushFetch`, after the rebase one of
`Diff`; in `sync_clone` (nothing is marked) it is left out.

Ghosts: `blind` (calls that committed without knowing HEAD), `killed` (calls whose `git commit` was
killed, so that nobody knows whether HEAD moved), `left` (documents a fault has left different from
HEAD: a failed undo, a failed restore, a commit killed half way, or what a crash interrupted, which
`recover_interrupted_state` does not clean up), `unmarked` (documents whose change a failed `git
diff` hides until the sweep), `peeked` (documents an index run read while the holder of the lock
had changed them; if the change is then dropped, nobody marks them again).

Left out: an unborn HEAD, moves and batches (WriteMany), validation of the new content (it refuses at
the same point as `Refuse`), edits that change nothing, a merge or fast-forward that is
killed, and an abort that fails though no `index.lock` is in its way.

### WriteMany and AtomicWrites

The calls of `write.rs` that change several documents in one commit: a batch, the move of a
document (and its archive form), the move of a directory, a deletion that unlinks. Each
changes the tree file by file under `GIT_LOCK` and commits at the end, and each has its own
order of writing and undoing. `commit_and_sync`, which GitSync opens up, is reduced to what
it reports. State: `tree`, `index`, `head`; `news` and `ahead` (what the remote has and the
clone has not, and the other way round); `phase` and `job` (program counter and local
variables of the lock's holder: the attempt, the files and the commit it began with, the
paths still to do, the `written_paths` and `rewritten_refs` lists the roll-backs go by, the
documents the reverse-link index named); `ask` and `reply` of each call; `told` (each
document as it was when last marked for the reindex queue). A content is the set of calls
and other edits that had a part in it and the one document it links to; the mark `Partial`
is in a file that was cut short. Ghost: `left`, the paths a fault left different from HEAD.

| Code | Actions |
|---|---|
| what a call reads before it takes the lock; `lock_and_sync` | `Ask`, `Lock`, `Sync` |
| existence and version checks, the directory's listing | `Accept`, `AcceptUnchanged`, `Refuse` |
| `write_atomic`, `create_new`, `remove_file` and their failures | `WriteFile`, `WriteFails`, `RemoveFile`, `RemoveFails` |
| the reverse-link look-up and the rewriting of what it names | `FindLinks`, `RewriteLink`, `RewriteFails` |
| `git add`, `git commit` | `Commit`, `CommitFails` |
| `restore_from_head` path by path; removal and `unstage` of what was created | `Restore`, `Discard` |
| what `commit_and_sync` reports afterwards, and the marking | `Push`, `PushPending`, `Conflict` |
| other clones; a crash and the next start | `OtherPush`, `OtherDelete`, `Crash` |

`CleanAtRest` says that every failure path undoes all it did, `NothingOutOfSight` that a
reader or a restart finds a document that moves at one place or the other, `HonestRollback`
that "Nothing was changed" is said only when it is so, `EveryChangeIsTold` that the reindex
queue hears of everything a call, its sync or its rebase changed, `LinksFollow` that a move
leaves no link behind where the link index (which may lag) knew of it.

`AtomicWrites` is what a caller is promised: a store of documents in which a call is all done
or not done. WriteMany implements it under the mapping `store <- IF phase = "publish" THEN
job.pre ELSE head` (a commit counts once it is published, since until then a conflict may
drop it). The promise is weaker than it looks at first in one respect, which `Shown` names: a
call that died, could not undo what it did, or failed and left a cut file (below, and
`move_leftover`) leaves files in the working tree that a later call builds on, and so does a
deletion that answered "undone" although a document it had unlinked was not restored.

Left out: validation and path safety (they refuse where `Refuse` does), schema files moved along
with a directory, the text of append-only edits, and two faults that GitSync has: a `git commit`
killed after it moved HEAD (so `HonestRollback` and `AllOrNothing` do not speak of it; see the
known disagreements), and a HEAD that cannot be read. `Sync` takes the remote's news only into a
clean clone, where git asks no more than that the files it overwrites are. While a commit is
unpushed others leave its documents alone: merging it is GitSync's subject.

### ChangesFeed

`changes_since`, its cursor, and a client that follows it, while writes add commits and
conflicts drop them. State: `made`, `tree`, `parent`, `head` (all commits ever made, as a
cursor may name a dropped one); `range`, `got`, `seen`, `mirror`, `ranges` (the client: the
commits and last path its cursor pins, what it was given, the head it will ask from next, its
copy of the documents). `NetChanges` is `git diff --name-status -M` with every pairing of
renames git may choose; `Visible` is the split of renames that cross the document filter or
the path prefix; `Page`, `More`, `NextCursor` are the paging. Actions: `Write`, `Drop`,
`AskSinceHead`, `AskSinceTime` (with `BaseAt`, the commit before a date), `AskNextPage`.

Dates grow along the history and the filter does not change: a clock set back, or an edit of
`indexing.exclude`, is not seen. A client that polls by time and not by the head it was given
does not learn that a dropped commit was undone; `MirrorCatchesUp` is about the `head` form.
Two more assumptions are about the client and the data: it reads the contents of the documents it
is told of at the head its range pins (a client that reads them later gets newer text, which the
next range tells it of again), and a rename pairs two files of the same content, the one case in
which git does not go by similarity.

### Contradictions

The contradiction job beside writes and indexing. State: `judge` (whether the server has one: it
is built once at start-up, `server.rs:2012-2019`, so only `Restart` changes it), `text`, `exists`
(the files), `row` (the content hash in `documents`), `analyzed` (`contradiction_docs`), `pairs`
(`contradiction_pairs`), `job` (all a run remembers between its phases). A run is `Start`, then
`Scan` or `ScanFails` per changed document, `Gather`, then `Judged`, `JudgeFails`, `NoVerdict`
or `Skipped` per pair in path order, `MarkDocumentsAnalyzed`, `DeleteStalePairs`. `Cancel` and
`Abort` may end it at any point before. `Index` and `DeleteDocument` are the indexer's part.
`delete_document` takes the row, the marker and the pairs one statement after the other and in no
transaction (`state.rs:1395-1421`): with the fault `"delete"`, the row alone is gone, or the row
and the marker, until the pruning at the start of the next run, or the document's return.

A text is known by its hash and may be written again: `Write` takes any text, so a revert, a
roll-back or a restored file brings an earlier hash back. The code compares hashes, and so an
old marker can become current again, whatever became of the pairs since. That happens in two ways,
and the ghost `astray` has the documents it happened to:

* a run stores a pair's row under a document's new hash and does not mark the document (a cap, a
  cancellation, a failure, a skipped pair), and then the text it was marked at comes back: the
  row about that text was overwritten, and no run scans the document (`Stored`);
* a run marks a document that was deleted while it ran (`mark_documents_analyzed` asks for no
  row in `documents`, `state.rs:1435-1452`), whose pairs are gone, and the file is restored before
  another run prunes the marker (`MarkDocumentsAnalyzed`).

`AnalysedIsCovered`, `NoStrandedRow` and `EverythingIsCovered` except these documents; a document
leaves `astray` when a run marks it again. `CancelledLosesNothing` is `AnalysedIsCovered` without
the exception, which is what `contradictions.rs:23-26` says, and does not hold (run
`contradictions_restored`). In `listed`, the other ghost, are the neighbours a document had when
it was last marked: those the look-up gave, which go by the vectors then in the store, while the
marker has the hash the run began with, so a document indexed again during the run is marked at the
older hash (and is scanned again by the next).

One run is in progress (`RunLock`; no second process), and a full reindex's clearing of the
tables is left out. The judge reads the text on disk, which may be newer than the hash its
verdict is stored under (`contradictions.rs:416-440`); the code accepts that, so no property
forbids it. A crash exactly between `MarkDocumentsAnalyzed` and `DeleteStalePairs` (fault
`"drop"`, `contradictions.rs:356-360`) leaves a row that no later run looks at: the run
and the theorem of `NoStrandedRow` exclude it, by name.

### Chunking, Embedding, ChunkAndEmbed

`Chunking` is `HeadingTree::parse` and `chunk_markdown`: a document is its sections, with the
level of each heading, the lengths of the fragments the splitter would cut it into, and the white
space it starts and ends with. `Accumulate`, `StartChunk`, `BeginSplit`, `MergePending`,
`TakeFragment`, `EndSplit`, `FinishFile` are the branches of the loop, with the chunk in hand, the
fragment that waits, breadcrumb, section and saturating sizes. In `TakeFragment` the case
`~MayJoin` cannot arise from a pending fragment, which is small by construction; the code has
that branch, so the model has it.

Two things about lengths. The code compares trimmed lengths, `size`, and joins texts as they are:
a section keeps the blank lines before the next heading (`heading.rs:194-210`), so a joined chunk
has the white space `trail` and `lead` at the joint that the comparison left out (`Body`). And the
code compares bytes, while the splitter cuts, and the breadcrumb is cut, by characters: a
character has up to `Width` bytes, and `CorporaAssumption` bounds a fragment by `Width` times the
limit given to the splitter. Hence `max_chunk_size` is not a hard limit. How far a chunk may be
past it is `Longest` and `SizesAreBounded`: by the white space at its last joint (the joints before it
are in the `size` the next comparison sees), by that between breadcrumb and body, by the bytes of
what is cut by characters, and by one small fragment joined to a full one. `WholeSectionsFit` is
what the configuration's documentation says, and does not hold (run `chunk_limit`). The description
that `prepend_description` adds to a chunk is left out: the code leaves it out of the limit, too.

`NothingIsLost` compares what the chunker holds with the document at every moment, and what a
finished document was given with the whole of it, so a flush that is forgotten shows. The
references are written independently: `PiecesBefore` and `PiecesOf` (the text), `Over` and
`Ancestors` (nearest earlier shallower heading, and up). A breadcrumb must be exactly the
deepest heading over all pieces whose own line is not in the chunk: neither wrong nor missing.
`CorporaAssumption` says what `split_sections` and the splitter hand over: no section without
a fragment, no section but the preamble without a heading, and the bound above.

`Embedding` is `embed_texts`: batches, at most `Concurrency` requests in flight, answers and
their items in any order, calls that fail or answer short, slots, and the flattening. The
code checks the total number of vectors, not each batch's; so does the model.

`ChunkAndEmbed` composes them as a flush does: all chunks of a batch of documents go into one
corpus, and the vectors are dealt back by position. `EveryChunkItsVector` is a property of the
composition: what is stored has every chunk of every document, with its own vector.

### MC modules

`MCReindexQueue`, `MCSchemaCache` and `MCGitSync` add only the symmetry set of each instance.
`MCIndexRun` gives the data: two contents of equal size of which one takes two chunks
and one takes one, an empty one, three schemas of which two share a payload, and which
content each schema refuses. `MCWriteMany`: a directory of two documents that link to each other, its
destination, a document outside that links in, and ten things a call can ask for.
`MCChangesFeed`: two trees to start from. `MCContradictions`: who is close to whom, and the
pairs the judge fails on. `MCChunkAndEmbed`: 8 354 documents and pairs of documents, of up
to three sections with fragments that are tiny, small, nearly full or too long in bytes, with or
without blank lines around them, under 8 configurations.

## Runs

| Run | Instance | Distinct states | Shows |
|---|---|---|---|
| `queue` | 1 document, 1 producer, 1 retry, 1 edit, 2 schema edits, 1 reload, 2 faults, fair | 1.0 M | `TypeOK`, `EveryStaleDocIsOwed`, `NoLostWakeup`, `EventDriven`, `SweepRepairs` |
| `schema_safety` | 2 files, 1 editor, 1 puller, the worker, 2 changes of the files, sweeps until 3 builds have begun, 2 faults | 0.75 M | `TypeOK`, `SchemaReadYourWrites`, `StaleCacheIsOwed` |
| `index_safety` | 2 documents, 3 contents of up to 2 chunks, 7 configurations (3 schemas, 2 chunkings, one document excluded, a filter that lets nothing through), batches of 2, 2 changes, 1 fault of any of 12 kinds | 1.5 M | `TypeOK`, `RowTrust`, `RunBringsUpToDate`, `SweepMissesNothing`, `RebuildsOnlyDamage` |
| `git_faults` | 2 documents, 2 calls, 1 edit pushed elsewhere, 2 attempts, 1 fault of any of 12 kinds | 4.3 M | `TypeOK`, `SavedIsKept`, `RefusedIsNowhere`, `CloneIsClean`, `IndexFollowsClone`, `PushesLoseNothing` |
| `write_many` | 5 paths, 2 calls of any kind one after the other, 1 edit or deletion pushed elsewhere, 2 attempts, 2 faults of any of 9 kinds | 1.0 M | `TypeOK`, `CleanAtRest`, `NothingOutOfSight`, `EveryChangeIsTold`, `LinksFollow`, `HonestRollback`, `AllOrNothing` |
| `move_leftover` | the same, 1 call, 1 failed write or link rewrite | - | a violation: `UndoKnowsAllItTouched` |
| `changes_feed` | 4 paths, 3 of them asked for, 2 commits of up to 2 files after the first, pages of 1 or 2, 2 ranges | 0.2 M | `TypeOK`, `PagesTellAll`, `MirrorCatchesUp`, `NothingIsToldTwice` |
| `contradictions` | 3 documents, 2 texts each, 3 writes or restarts, 1 neighbour each, 2 pairs per run, 1 pair the judge always fails on, a judge or none, 1 fault of 7 kinds, fair | 0.5 M | `TypeOK`, `AnalysedIsCovered`, `NoStrandedRow`, `JudgedOnce`, `EverythingIsCovered` |
| `contradictions_restored` | 3 documents, 2 texts each, 2 writes, 2 neighbours, 1 cancellation | - | a violation: `CancelledLosesNothing` |
| `contradictions_starved` | 3 documents, 2 neighbours, 2 failing pairs, no faults, fair | - | a violation: `CarryOverIsReached` |
| `chunk_and_embed` | 8 354 documents or pairs under 8 configurations, characters of 2 bytes, blank lines of length 1, batches of 2, 2 requests in flight, a failing or short answer | 1.9 M | `NothingIsLost`, `ChunksAreAttributed`, `SizesAreBounded`, `EveryChunkItsVector` |
| `chunk_limit` | two sections, the first with a blank line at its end or not, characters of 1 byte, no breadcrumb | - | a violation: `WholeSectionsFit` |

Bounds. In `queue` the document begins at version 1 and is edited once, beside a producer that is
half way with its marks; one schema edit makes the tree invalid and a second repairs it; two
faults are a run that fails twice, and so is given up, or a failed run and a crash after it. Two
producers that mark across one another, and any number of faults, are the subject of the proofs
(`NoWakeupIsLost`, `NoStaleDocIsForgotten`). The queue treats documents one like the other, so one
does for it (that two cannot disturb each other is what the proof, for any number, adds); in
IndexRun two separate "some document" from "all documents". The runs of IndexRun, GitSync and
Contradictions have one fault at a time, which is what the code claims to survive; the others two.
Two schema files are what a torn read needs; two changes are a pull and an edit, or two of either,
around a build, and sweeps may ask for builds until three have begun. Runs with three changes
found nothing else; `SchemaCacheProofs` bounds neither. Two documents fill a batch, or are split
over two when the second change comes in between; a batch of one document alone is flushed at the
end of the loop. The slack of the wipe detector is 0 instead of 50, so that the smallest shortfall
would count. Two changes are an edit or a reload before and during a run; one of the
configurations changes a schema and not its payload, so that a refresh may leave the points alone.

In `git_faults`, two calls leave an unpushed commit of one in the way of the other; one edit pushed
elsewhere makes a push fail or a rebase conflict, and the unpushed commit of the other call makes
the retry conflict as well; two documents let a call's own document and another one change in one
rebase. The code makes three attempts; with two a call still gets a retry, and the sync that
follows the last conflict, where it is refused. A crash is one of the faults, so a history has at
most one restart and no other fault; for combinations there are the proofs, which do not bound
them.

In `write_many`, five paths are two documents of a directory, their two destinations and a document
that links in from outside. Two calls, the second of which builds on what the first left; two
faults, because a roll-back is entered by one and broken by another. One call waits at a time
(`MaxWaiting`); a call waiting beside another differs from one that sees the other's edit come from
elsewhere only by whose mark it is. In `changes_feed` two commits are enough for a page boundary
with a commit, or the loss of one, on either side of it; four paths give renames into, out of and
inside what is asked for. In `contradictions`, two texts and two writes are what a text needs to go
and come back, the third is another's or a restart; a cap of two pairs leaves work over with three
documents, and two failures in a row end a run; that every pair failing is one of a fixed set
(`Poison`) is a bound, too. In `chunk_and_embed`, lengths are scaled down (maximum 12,
`MIN_MERGE_SIZE` 3): the fragments lie on both sides of each comparison, and some have more bytes
than the maximum has characters.

Deadlock is checked for the IndexRun, GitSync and ChunkAndEmbed runs, where a new run or a new
pull can always start, or a flush ends, so that nobody is ever stuck half way. It is not for the
others: the bounds make those systems stop, and a server that is down with an invalid schema
tree really cannot start.

Fairness (`FairSpec`): weak fairness of each producer's own steps and of the worker, since
the runtime polls every ready task; nothing is assumed of faults, of changes to the tree,
or of restarts. `SweepRepairs` assumes in its premise that the timer fires again and again.
Contradictions assumes weak fairness of a run's steps, of `Index` and of `DeleteDocument` (the queue
and its sweep), and of `Start`: `periodic_job_loop` begins a run after every interval, when the
last one is over, if `contradictions.enabled` is set. Whether that run has a judge was decided when
the server started, and nothing obliges anyone to restart it with another; nothing is assumed of
writes, cancellations or failures either.

## Proofs

The theorems of the eight proof modules hold for any number of documents, producers, files,
editors, pullers, calls and clones, any chunking, validation and similarity, and every bound.
Assumptions: `ConstantsAssumption` of each module (the schema path is not a document, the bounds
are numbers, chunk counts are within `MaxChunks`, `None` is no value, two documents do not move to
one place, paths and documents are finitely many where the code sorts them), `ActorsAssumption`
(the worker, the editors and the pullers are different actors), of Contradictions `DocsAssumption`,
`BoundsAssumption` and `SetsAssumption` (finitely many numbered documents, bounds that are
numbers), and of the chunker `LengthsAssumption`, `CrumbBytesAssumption` (a character has at most
`Width` bytes), `ConfigsAssumption` (the target is not above the maximum) and `CorporaAssumption`.
Where several settings are considered at once, the last asks that fragments fit each; with
`Configs` a single setting it is the splitter's contract and no more.

* `NoWakeupIsLost`: `NoLostWakeup` is not inductive, since the worker may be asleep only
  in some states; `QueueIsAnnounced` adds that whenever the worker is not about to drain
  anyway, a non-empty queue is announced.
* `NoStaleDocIsForgotten`: the strengthening `OwedInv` adds what the unit in flight knows
  (`UnitInv`) and that a run whose configuration or schema snapshot is out of date has a
  full reconcile coming (`SnapshotInv`).
* `ReadYourWrites`: `ReadInv` is the conjunction of `LockInv` (the git lock serialises
  writers), `KeptInv` (a revision that was committed stays on disk, whatever is rolled
  back later), `OrderInv` (what a build that started at or after an editor's own build has
  read of its file is no older than what the editor wrote) and `PromiseInv` (the same for
  what was promised, against the installed cache).
* `StaleCacheIsHealed`: `CurrentInv` says that in quiet times (nothing pending, queued or
  excused) every build that started no earlier than the worker's last one has read what
  is on disk now, and that the cache has had that build unless a file is invalid.
* `RowsCanBeTrusted`: `RowTrust` exempts the documents with writes in progress, so it says
  nothing of them when those writes end. `IInv` adds what it takes. `ListInv`: the run's
  lists are disjoint where the code relies on it, and every pending file carries the chunk
  count of its row, which the trim counts from. `FlushInv`, `RefreshInv` and `PurgeInv`
  give the points of the documents at each phase of a flush (new chunks in front, the old
  tail behind, until the trim), of a refresh (repainted) and of a purge (none), and say
  that a file recorded as empty has no points left.
* `SweepNeverRebuildsSoundIndex`: where nobody is hurt, `RowTrust` makes the set of chunks
  the rows claim equal to the set of points, so their numbers cannot differ by more than
  any slack.
* `SweepMissesNothingHolds`: the scan compares a row with the size and time of the file and with
  the settings, and metadata and links with the row, so what it takes from them has to be
  right whatever came before. `RowInv`: a row, or what is pending to become one, is of a valid
  content, with the chunk count of that content, and its modification time was taken after it was
  read (`Fresh`: the same time and size mean the same content, but for a document in `blind`).
  `SideInv`: metadata with a row's hash are of its schema and come with links of the same content,
  but for the document whose row is being written (`Between`). `PlaceInv`: what is to be
  read, in hand or pending is on no other list of the run.
* `RunBringsUpToDateHolds`: `SettledInv` follows each document the run was given until it ends.
  It is doomed for a reason that still holds of its file, or pending, in hand or to be
  backfilled with the hash that is on disk, or done (`FateOf`); when the run is over none of the
  lists has anything left, so it is done, and `RowTrust` gives the points.
* `CloneStaysClean`: `CloneIsClean` speaks of the moments nobody holds the lock; `CleanInv`
  follows the three copies through every phase in between. In a rebase they are those of
  the commit it has got to; after a conflict, no file is in the working tree that the index
  does not know, which is why the checkout that aborts the rebase restores everything;
  between write and commit only the call's own document differs, and a document being
  created is not on the branch, which is why removing it undoes the creation.
* `RefusedLeavesNothing`: `CommitInv` says whose commits can be where. A commit on the
  remote, in FETCH_HEAD or on the branch `drop_own_commit` goes back
  to is of a call that was accepted or cut off; one on the branch or in a rebase may also be
  of the call in hand, but only between its commit and its answer (`JobInv` ties that to the
  phase). So a branch that a sync parks, or an answer that refuses, never involves one.
  `ShelvedInv` says of the recovery refs that they hold, besides, only commits of calls in
  `blind`: `drop_own_commit` parks the commit in hand only where HEAD was not known before it,
  and then the call is in `blind` (`HeadInv`).
* `IndexFollows`: while somebody holds the lock the branch moves and the queue does not know yet.
  `FollowInv` says what it does know: each document is queued or indexed as it was when the holder
  last marked (`KeepsUp` against `job.since`); until a pull moves it, and between a writer's
  marking and its commit, the branch is still there (`AtSince`; a writer's sync may begin with a
  branch that a dropped commit has moved to FETCH_HEAD); and what `drop_own_commit` goes back to
  and `rebased_paths` compares with are of that moment, but for the call's own document
  (`SinceCommit`). So the two differences the code marks cover what has changed.
* `SavedStaysKept`: an invariant about the saved calls alone says nothing of the rebase that drops a
  commit as empty. `SavedInv` ties content to commits: an edit of a live call is in a content
  only where its commit is (`Holds`), every own commit of such a call brings in its
  edit and no other (`Commits`), and the branch has only the remote's commits and its own
  (`SoundBranch`). Hence no replayed commit of a live call is empty, which is what keeps it
  (`BranchInv`, `KeptInv`); `TreeInv` says the same of the working tree, from which the next commit
  is made. `KilledInv` and `SeenInv` deal with calls that were killed or not asked yet.
* `PushesTakeNothing`: `AheadInv` says of every branch that may become the clone's (the branch, what
  `drop_own_commit` goes back to, the rebase so far, FETCH_HEAD) that, if it has all the
  remote's commits, it lacks of the remote's content only what callers of accepted deletions
  had seen, or the caller of the one in hand, whose answer comes with the push. It needs
  `RightInv`: a commit takes away no more than the deletion it is named for had seen, and a
  replay of it takes no more than that (`Merge`); and that since the last fetch only others
  have pushed, so that a commit git does not skip is not on the remote.

* `PagesTellAllHolds`, `MirrorCatchesUpHolds`, `NothingIsToldTwiceHolds`: `FeedInv` adds to the
  types that commits and cursors name only commits that were made, whose trees no later step
  touches (`HistoryInv`), and what a range has told so far (`RangeInv`): exactly the changes up to
  the cursor's path, between two commits that do not change any more, and the mirror is the new
  tree up to that path and the old one beyond. The lemmas on the least and greatest element of a
  finite set of numbers give the cursor's last path; that `NetChanges` has one entry per path makes
  pages disjoint.
* `AnalysedIsCoveredHolds`, `NoStrandedRowHolds`, `JudgedOnceHolds`: the run's hashes are fixed
  while texts move both ways, so nothing can be said of versions. `RunInv` says what a run in
  progress leaves where: the pairs it has settled are stored under its hashes, the others are as it
  found them; `ListInv` that every neighbour of a scanned document has its pair needed or stored;
  `EndInv` that the documents it marks have the run's hash. `CoverInv` then ties the rows to the
  marker and not to the present text: a marker vouches for the rows of its neighbours, whatever the
  document's text is now, but for the documents in `astray`. Hence a text that comes back finds
  them. `NoStrandedRow` rests on `FreshRows`: every row of a marked document carries the marker's
  hash, but for those the run's end is about to delete. It assumes that no run dies there (`"drop"
  \notin Faults`).
* `CleanAtRestHolds`, `NothingOutOfSightHolds`, `EveryChangeIsToldHolds`, `LinksFollowHolds`,
  `HonestRollbackHolds`: `WriteInv` says phase by phase which paths may differ from the commit:
  exactly those on the lists that the roll-back from there goes by (`ListInv`, `FilesInv`), with
  what a call may ask for (`AskInv`), what nobody has touched (`RestInv`, `ThereInv`), what a
  commit contains (`PublishInv`), which links were found and followed (`LinksInv`) and what `ok`
  stands for (`OkInv`).
* `WritesAreAtomic`: every step of WriteMany is a step of AtomicWrites or a stutter. `AtomicInv`
  follows the marks. Files carry marks only of calls that showed, except for those of the call
  in hand, and only at paths it has written (`StoreInv`, `MarksInv`); at the commit, each path
  asked for has its mark or is gone, whatever a rebase adds to it (`DoneInv`); so what is
  published is all of the call, and what is dropped, undone or refused is none of it.

* `ChunksTellTheDocument`, `ChunksAreUnderTheirHeadings`, `ChunksFit`: the chunker's state is made
  of recursions over the document (the stack of open headings, paths, ancestors, sums), so the
  proof first shows that each has the values its equation says (`Recursion` builds them number by
  number, by induction on sets of numbers, since that on formulas is out of the prover's reach) and
  what they come to: `StackIs` (the open headings are those whose subtree has not ended, levels
  increasing), `OverIs` (the parent on the stack is the nearest earlier shallower heading, which
  the reference uses), `AncestorsAre`, `CommonAncestorIs`, `SubtreeEndIs`. The invariant
  `ChunkerInv` says where the chunker stands (`Stands`): the chunks done, the one in hand and the
  fragment that waits tell the document up to `pos` and `frag` and nothing else; each is sound,
  that is attributed to the deepest heading its pieces share (`Attributed`) and not too long
  (`Bounded`, before the reserve for the breadcrumb is given back); the waiting fragment is small
  and of the section in hand. `AttributedJoined` and `SoundJoined` say that joining two neighbours
  keeps that; then there is one lemma per action. For the length the point is that what a
  comparison leaves out does not add up: it sees the whole `size` of the chunk so far, joints
  included, and misses only the white space at the joint it is about. `MadeInv` carries what was
  told over to the chunks of the documents done.
* `ChunksGetTheirVectors`: `FlushInv` says that each slot holds the vectors of its own batch in
  their order, or fewer than the batch has texts. Sorting the items of an answer by index undoes any
  order (`RankIs`, `ByIndexIs`); the flattened slots are as long as the texts
  only if none is short, and then they are the texts (`CollectIs`); and `AllTextsAre` places
  chunk k of document f at `Start(f) + k`.

Only model-checked: liveness (`EventDriven`, `SweepRepairs`, `EverythingIsCovered`, and
the violated `CarryOverIsReached`), since neither fairness nor `ENABLED` is within the prover's
reach. Every invariant and every action property that a passing run checks is a theorem.
That IndexRun implements `IndexDoc` is stated as `RunBringsUpToDate`, not as a refinement:
`IndexDoc` reads and records in one step, a run does not.

## What the code does differently from what it says

Shown by a run:

* `move_leftover`: `move_directory` puts a path on its roll-back lists after the write, so the
  file it was at when a write failed (a destination created and cut short, a referencing
  document half rewritten) is on none. The file stays, although no roll-back step failed. The
  comment says that the lists are exactly the paths mutated so far (`write.rs:3723-3724`); the
  single move removes such a file, because every retry would fail on it.
* `contradictions_restored`: a run replaces the row of a pair before it marks the pair's documents,
  and is cancelled; the text they were marked at comes back, the markers match, and the pair has no
  row about it and is not looked at: not "loses nothing" (`contradictions.rs:23-26`).
* `chunk_limit`: sections are joined after a comparison of trimmed lengths and with their blank
  lines, so a chunk may be longer than `max_chunk_size`, which is a "Hard upper limit"
  (`deploy/config.example.yaml:188`), though no section had to be cut.
* `contradictions_starved`: pairs left without a verdict are tried again in path order with the new
  ones (`contradictions.rs:288-312`), and a number of failures in a row ends a run; when the judge
  keeps failing on that many early pairs, every run ends there, and the rest is not "carried over"
  (`README.md:151`) but never reached.

Met while modelling, described here and excused by name in the models:

* Schema status: `apply_rebuild` sets or clears the schema error (`schema.rs:3161`) after
  `store_shared`, outside the order of generations. An `update_schema` build that read the tree
  before an invalid file arrived clears the error the worker recorded after it, and `/status` no
  longer "names what is invalid now" (`status.rs:614-615`).
* Schema roll-back: a rebuild that runs between the rename of a schema file and the
  roll-back of its failed commit (`mcp.rs:4469`) installs the revision that was never committed.
  Nothing queues a reconcile on that path, so it stays in force until the next full one, although
  the caller was told "Nothing was changed" (`mcp.rs:2704`). SchemaCache: `excused`.
* Stat after read: a file is read first and stat'ed later (`ingest.rs:1198`). An edit in between
  that keeps the size is recorded as seen, and no sweep finds it until the file is touched again,
  which the comment at `ingest.rs:3275-3276` holds to be impossible. (The queue usually does find
  it, as the edit's own mark is still to come; `RunBringsUpToDate` holds.) IndexRun: `blind`.
* Failed trim: when the delete that trims a shrunken document fails, the failure is logged
  (`ingest.rs:1522`) and the row written all the same. The comment at `ingest.rs:1896-1900` says
  that the file would be found dirty again; it is not. IndexRun: `hurt`.
* Full reindex: rows are cleared before the collection is dropped (`ingest.rs:3803`); after a crash
  in between, points of a file deleted meanwhile belong to no row. IndexRun: `hurt`.
* Strict mode: a file rejected and then put back as it was is skipped as unchanged
  (`ingest.rs:4007`) and stays in the registry that is to hold no path without a defect
  (`status.rs:538-540`).
* Killed commit: `git commit` is killed at its time limit (`git.rs:2009`) after it has moved HEAD.
  The code reports an error from before the commit, whose contract is that HEAD has not moved
  (`git.rs:1470`, `git.rs:1964`); the caller restores the file from HEAD, which is the new commit,
  and reports the change as undone. The commit stays and is pushed with the next write. GitSync:
  `killed`.
* Undone deletion: the roll-back of an unlinking deletion answers `rolled_back: true` when the
  document itself is back (`write.rs:4946-4960`), though restoring a document it had unlinked may
  have failed; the contract (`write.rs:499-501`) is of the whole pre-call state. A later edit of
  that document commits the unlinking. WriteMany: `Promised`; AtomicWrites: `Shown`.
* Clean-up after analysis: a crash between `mark_documents_analyzed` and
  `delete_stale_contradiction_pairs` (`contradictions.rs:356-360`) leaves rows about old texts for
  good. Contradictions: the fault `"drop"`.

One more that is no disagreement but worth knowing: an index run that reads a document
between its write and the roll-back or drop of that write (`write.rs:2096`) indexes the version
that was dropped, and nothing marks the document again (`peeked`); the next sweep finds it.

## Not modelled

Validation, lint and field projection (pure functions of one document, whose verdict is a
constant of the models); ranking, reranking, sparse vectors and the query side of both stores
(floating-point data, no state); web pages, CLI, evaluation, secrets (no lasting state); the
parsers of Markdown and configuration; the metadata timer and shutdown; the first clone and an
unborn HEAD; in `status.rs`, run generations and the stale-chunking latch; in an ingest run,
semantic edges and a second process's run that shares the stores. Hazards that no property
covers are listed in `PROJECT.json` with the reason.

## Plan

1. Done, with proofs: `ReindexQueue`, `SchemaCache`, `IndexRun`, `GitSync`,
   `WriteMany` with `AtomicWrites`, `ChangesFeed`, `Contradictions`, `Chunking`, `Embedding`,
   `ChunkAndEmbed`.
2. To extend: IndexRun by a second runner; status and reload (run generations, the latch, a
   reload beside a scan); link resolution and the schema cascade as
   pure algorithms against a reference definition.
3. Theorems worth proving next: that what one module assumes of another in one step
   (WriteMany of `commit_and_sync`, ReindexQueue of a run) is implemented by the module that
   opens it up.
