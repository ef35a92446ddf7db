---------------------------- MODULE ReindexQueue ----------------------------
(***************************************************************************)
(* The dirty-path queue of src/reindex.rs, its single background worker    *)
(* and the producers that feed it.                                         *)
(*                                                                         *)
(* A document is a version number on disk; the index remembers, for every  *)
(* document, the version it was built from together with the configuration *)
(* and the schema tree of the run that built it.  The schema files are one *)
(* record: a version, and whether every file is valid.  What a run does to *)
(* a document (chunking, embedding, the writes to Qdrant and to the state  *)
(* database) is the single step IndexDoc, which module IndexRun opens up;  *)
(* the rebuild of the shared schema cache is reduced to its verdict, which *)
(* is all the worker sees of it, and module SchemaCache opens that up.     *)
(***************************************************************************)
EXTENDS Naturals

CONSTANTS
  Docs,              \* indexable documents
  SchemaFile,        \* the path of a schema file, when it is marked like one
  Producers,         \* concurrent callers: write tools, webhooks, update_schema,
                     \* the reload endpoint and the reconcile timer
  MaxRetryAttempts,  \* MAX_RETRY_ATTEMPTS (6 in the code)
  MaxDocVersion,     \* bound: edits of one document
  MaxTreeVersion,    \* bound: edits of the schema files
  MaxConfig,         \* bound: configuration reloads
  MaxFaults          \* bound: failed runs, panics, failed diffs and crashes

ASSUME ConstantsAssumption ==
  /\ SchemaFile \notin Docs
  /\ MaxRetryAttempts \in Nat
  /\ MaxFaults \in Nat

VARIABLES
  disk,         \* version of each document in the working tree
  tree,         \* the schema files in the working tree: [ver, ok]
  config,       \* generation of the live configuration (SharedConfig)
  indexed,      \* what the index holds for each document
  up,           \* whether the server process runs
  queue,        \* ReindexQueue.state: dirty paths and the full flag
  permit,       \* the Notify's stored permit
  worker,       \* the reindex worker task
  schemaError,  \* IndexStatus: is a refused schema rebuild on record
  producer,     \* per producer: what it changed and how far its call got
  faults,       \* faults spent so far
  waived        \* ghost: documents a fault has left to the next full reconcile

source == <<disk, tree, config>>
vars == <<disk, tree, config, indexed, up, queue, permit, worker, schemaError,
          producer, faults, waived>>

-----------------------------------------------------------------------------
Paths == Docs \cup {SchemaFile}

\* What an index run stores for d under configuration c and schema version v.
IndexedUnder(d, c, v) == [ver |-> disk[d], config |-> c, schema |-> v]
Stale(d) == indexed[d] # IndexedUnder(d, config, tree.ver)

EmptyQueue == [paths |-> {}, full |-> FALSE]
IdleWorker == [pc |-> "asleep", paths |-> {}, full |-> FALSE,
               wasInvalid |-> FALSE, verdict |-> TRUE, attempt |-> 0,
               todo |-> {}, config |-> 0, schema |-> 0]
IdleProducer == [pc |-> "idle", docs |-> {}, schema |-> FALSE,
                 verdict |-> TRUE, editor |-> FALSE]

\* unit_touches_schema: a full reconcile always rebuilds the shared cache.
UnitTouchesSchema == worker.full \/ SchemaFile \in worker.paths

\* Mutant: a schema file that fails open is indexed like a document.
UnitDocsUnfiltered == IF worker.full THEN Docs ELSE worker.paths
UnitDocs == IF worker.full THEN Docs ELSE worker.paths \cap Docs

WorkerState ==
  [pc : {"asleep", "drain", "load", "rebuild", "apply", "recover", "run",
         "scanned", "indexing", "refused", "backoff"},
   paths : SUBSET Paths, full : BOOLEAN, wasInvalid : BOOLEAN,
   verdict : BOOLEAN, attempt : Nat, todo : SUBSET Docs, config : Nat,
   schema : Nat]

ProducerState ==
  [pc : {"idle", "schemas", "wakeThenPaths", "paths", "full", "wake",
         "rebuild", "apply"},
   docs : SUBSET Docs, schema : BOOLEAN, verdict : BOOLEAN, editor : BOOLEAN]

TypeOK ==
  /\ disk \in [Docs -> Nat]
  /\ tree \in [ver : Nat, ok : BOOLEAN]
  /\ config \in Nat
  /\ indexed \in [Docs -> [ver : Nat, config : Nat, schema : Nat]]
  /\ up \in BOOLEAN
  /\ queue \in [paths : SUBSET Paths, full : BOOLEAN]
  /\ permit \in BOOLEAN
  /\ worker \in WorkerState
  /\ schemaError \in BOOLEAN
  /\ producer \in [Producers -> ProducerState]
  /\ faults \in Nat
  /\ waived \in SUBSET Docs

-----------------------------------------------------------------------------
(* Marking.  Each critical section of the queue's mutex is one step; the     *)
(* notify_one that follows it is another.                                    *)

MarkFull ==
  /\ queue' = [queue EXCEPT !.full = TRUE]
  /\ waived' = {}

MarkPaths(P) == queue' = [queue EXCEPT !.paths = @ \cup P]

\* Mutant: notify_waiters, which stores no permit while nobody waits.
NotifyWaiters == permit' = (permit \/ worker.pc = "asleep")
NotifyOne == permit' = TRUE

Advance(p, pc) == producer' = [producer EXCEPT ![p].pc = pc]

\* The working tree moves: the documents of D get a new version and, if s,
\* so do the schema files, which are then all valid or not.
ChangeTree(D, s, valid) ==
  /\ \A d \in D : disk[d] < MaxDocVersion
  /\ disk' = [d \in Docs |-> IF d \in D THEN disk[d] + 1 ELSE disk[d]]
  /\ IF s THEN tree.ver < MaxTreeVersion /\ tree' = [ver |-> tree.ver + 1, ok |-> valid]
          ELSE UNCHANGED tree

\* A pull (webhook, POST /admin/sync) or a write lands in the working tree.
\* Nothing is marked yet.
Change(p) ==
  /\ up
  /\ producer[p].pc = "idle"
  /\ \E D \in SUBSET Docs, s, valid \in BOOLEAN :
       /\ ChangeTree(D, s, valid)
       /\ producer' = [producer EXCEPT ![p] = [@ EXCEPT !.pc = "schemas", !.docs = D,
                                                       !.schema = s]]
  /\ UNCHANGED <<config, indexed, up, queue, permit, worker, schemaError, faults,
                 waived>>

\* Mutant: a schema file is one more changed path.
SkipSchemaMark(p) ==
  /\ producer[p].pc = "schemas"
  /\ Advance(p, "paths")
  /\ UNCHANGED <<source, indexed, up, queue, permit, worker, schemaError, faults,
                 waived>>

\* mark_schema_changes: a governed schema file among the changed paths queues
\* a full reconcile.
MarkSchemaChanges(p) ==
  /\ producer[p].pc = "schemas"
  /\ IF producer[p].schema
     THEN MarkFull /\ Advance(p, "wakeThenPaths")
     ELSE Advance(p, "paths") /\ UNCHANGED <<queue, waived>>
  /\ UNCHANGED <<source, indexed, up, permit, worker, schemaError, faults>>

NotifySchemaChanges(p) ==
  /\ producer[p].pc = "wakeThenPaths"
  /\ NotifyOne
  /\ Advance(p, "paths")
  /\ UNCHANGED <<source, indexed, up, queue, worker, schemaError, faults, waived>>

\* partition_indexable keeps the documents; a schema file only survives it
\* when the path filter cannot be built and the partition fails open.
MarkChangedPaths(p) ==
  /\ producer[p].pc = "paths"
  /\ \/ MarkPaths(producer[p].docs)
     \/ producer[p].schema /\ MarkPaths(producer[p].docs \cup {SchemaFile})
  /\ producer' = [producer EXCEPT ![p] = [IdleProducer EXCEPT !.pc = "wake"]]
  /\ UNCHANGED <<source, indexed, up, permit, worker, schemaError, faults, waived>>

\* The notify_one that ends mark_paths and mark_full.  An update_schema call
\* goes on to rebuild the shared cache, every other producer is done.
Notify(p) ==
  /\ producer[p].pc = "wake"
  /\ NotifyOne
  /\ Advance(p, IF producer[p].editor THEN "rebuild" ELSE "idle")
  /\ UNCHANGED <<source, indexed, up, queue, worker, schemaError, faults, waived>>

\* pull_clone has moved HEAD, then its diff fails: the call returns an error
\* and marks nothing.
PullDiffFails(p) ==
  /\ producer[p].pc = "schemas"
  /\ faults < MaxFaults
  /\ faults' = faults + 1
  /\ waived' = IF producer[p].schema THEN Docs ELSE waived \cup producer[p].docs
  /\ producer' = [producer EXCEPT ![p] = IdleProducer]
  /\ UNCHANGED <<source, indexed, up, queue, permit, worker, schemaError>>

\* The same failure in sync_clone falls back to a full reconcile.
SyncDiffFails(p) ==
  /\ producer[p].pc = "schemas"
  /\ faults < MaxFaults
  /\ faults' = faults + 1
  /\ MarkFull
  /\ producer' = [producer EXCEPT ![p] = [IdleProducer EXCEPT !.pc = "wake"]]
  /\ UNCHANGED <<source, indexed, up, permit, worker, schemaError>>

\* reconcile_loop fires.
SweepFires(p) ==
  /\ up
  /\ producer[p].pc = "idle"
  /\ MarkFull
  /\ Advance(p, "wake")
  /\ UNCHANGED <<source, indexed, up, permit, worker, schemaError, faults>>

\* reload_config: swap the live configuration, then queue a full reconcile.
Reload(p) ==
  /\ up
  /\ producer[p].pc = "idle"
  /\ config < MaxConfig
  /\ config' = config + 1
  /\ Advance(p, "full")
  /\ UNCHANGED <<disk, tree, indexed, up, queue, permit, worker, schemaError,
                 faults, waived>>

\* update_schema edits a schema file that parses (another one may not) and
\* leaves it valid: the tree is as valid as it was.
UpdateSchema(p) ==
  /\ up
  /\ producer[p].pc = "idle"
  /\ ChangeTree({}, TRUE, tree.ok)
  /\ producer' = [producer EXCEPT ![p] = [@ EXCEPT !.pc = "full", !.editor = TRUE]]
  /\ UNCHANGED <<config, indexed, up, queue, permit, worker, schemaError, faults,
                 waived>>

MarkFullReconcile(p) ==
  /\ producer[p].pc = "full"
  /\ MarkFull
  /\ Advance(p, "wake")
  /\ UNCHANGED <<source, indexed, up, permit, worker, schemaError, faults>>

\* update_schema's own rebuild reads the tree, and settles the status later.
UpdateRebuilds(p) ==
  /\ producer[p].pc = "rebuild"
  /\ producer' = [producer EXCEPT ![p] = [@ EXCEPT !.pc = "apply", !.verdict = tree.ok]]
  /\ UNCHANGED <<source, indexed, up, queue, permit, worker, schemaError, faults,
                 waived>>

UpdateReturns(p) ==
  /\ producer[p].pc = "apply"
  /\ schemaError' = ~producer[p].verdict
  /\ producer' = [producer EXCEPT ![p] = IdleProducer]
  /\ UNCHANGED <<source, indexed, up, queue, permit, worker, faults, waived>>

-----------------------------------------------------------------------------
(* The worker: run_worker, drain_and_run_with, run_with_retry.               *)

EndUnit == worker' = [IdleWorker EXCEPT !.pc = "drain"]

Wake ==
  /\ up
  /\ worker.pc = "asleep"
  /\ permit
  /\ permit' = FALSE
  /\ worker' = [worker EXCEPT !.pc = "drain"]
  /\ UNCHANGED <<source, indexed, up, queue, schemaError, producer, faults, waived>>

\* drain: take the paths and the flag together; a full reconcile swallows the
\* paths drained with it.
Drain ==
  /\ worker.pc = "drain"
  /\ IF queue.paths = {} /\ ~queue.full
     THEN worker' = IdleWorker
     ELSE worker' = [IdleWorker EXCEPT
                       !.pc = "load", !.full = queue.full,
                       !.paths = IF queue.full THEN {} ELSE queue.paths]
  /\ queue' = EmptyQueue
  /\ UNCHANGED <<source, indexed, up, permit, schemaError, producer, faults, waived>>

\* Mutant: the configuration the worker was spawned with.
UnitConfigAtSpawn == 0

\* The configuration is loaded once per unit, after its drain (#286).
UnitConfig == config

LoadConfig ==
  /\ worker.pc = "load"
  /\ worker' = [worker EXCEPT
                  !.pc = IF UnitTouchesSchema THEN "rebuild" ELSE "run",
                  !.config = UnitConfig,
                  !.wasInvalid = schemaError]
  /\ UNCHANGED <<source, indexed, up, queue, permit, schemaError, producer, faults,
                 waived>>

\* schema_rebuild_runner reads the tree; apply_rebuild settles the status, and
\* a refused rebuild skips the unit.
RebuildSchema ==
  /\ worker.pc = "rebuild"
  /\ worker' = [worker EXCEPT !.pc = "apply", !.verdict = tree.ok]
  /\ UNCHANGED <<source, indexed, up, queue, permit, schemaError, producer, faults,
                 waived>>

\* A rebuild that panics leaves cache and status alone and counts as accepted.
RebuildPanics ==
  /\ worker.pc = "rebuild"
  /\ faults < MaxFaults
  /\ faults' = faults + 1
  /\ worker' = [worker EXCEPT !.pc = "recover"]
  /\ UNCHANGED <<source, indexed, up, queue, permit, schemaError, producer, waived>>

ApplyRebuild ==
  /\ worker.pc = "apply"
  /\ schemaError' = ~worker.verdict
  /\ IF worker.verdict THEN worker' = [worker EXCEPT !.pc = "recover"] ELSE EndUnit
  /\ UNCHANGED <<source, indexed, up, queue, permit, producer, faults, waived>>

\* A path unit whose rebuild ended an invalid spell queues the reconcile that
\* indexes what the spell dropped (#272).  The mark and its notify are one step:
\* only the worker itself could wait between them.
RecoverDropped ==
  /\ worker.pc = "recover"
  /\ IF worker.wasInvalid /\ ~schemaError /\ ~worker.full
     THEN MarkFull /\ NotifyOne
     ELSE UNCHANGED <<queue, waived, permit>>
  /\ worker' = [worker EXCEPT !.pc = "run"]
  /\ UNCHANGED <<source, indexed, up, schemaError, producer, faults>>

\* Mutant: a row is clean when its content hash is, whatever the schema hash says.
DirtyByContent(d) == indexed[d].ver # disk[d]

\* scan_for_dirty compares a row with the disk under the unit's configuration
\* and the schema tree as the scan finds it.
Dirty(d) == indexed[d] # IndexedUnder(d, worker.config, tree.ver)

Scan ==
  /\ worker.pc = "run"
  /\ worker.full
  /\ worker' = IF tree.ok
               THEN [worker EXCEPT !.pc = "scanned", !.todo = {d \in Docs : Dirty(d)}]
               ELSE [worker EXCEPT !.pc = "refused"]
  /\ UNCHANGED <<source, indexed, up, queue, permit, schemaError, producer, faults,
                 waived>>

\* index_paths builds its own schema cache and refuses an invalid tree.
StartIndex ==
  /\ \/ worker.pc = "run" /\ ~worker.full
     \/ worker.pc = "scanned"
  /\ worker' = IF tree.ok
               THEN [worker EXCEPT !.pc = "indexing", !.schema = tree.ver,
                       !.todo = IF worker.full THEN @ ELSE UnitDocs]
               ELSE [worker EXCEPT !.pc = "refused"]
  /\ UNCHANGED <<source, indexed, up, queue, permit, schemaError, producer, faults,
                 waived>>

IndexDoc(d) ==
  /\ worker.pc = "indexing"
  /\ d \in worker.todo
  /\ indexed' = [indexed EXCEPT ![d] = IndexedUnder(d, worker.config, worker.schema)]
  /\ worker' = [worker EXCEPT !.todo = @ \ {d}]
  /\ UNCHANGED <<source, up, queue, permit, schemaError, producer, faults, waived>>

FinishRun ==
  /\ worker.pc = "indexing"
  /\ worker.todo = {}
  /\ EndUnit
  /\ UNCHANGED <<source, indexed, up, queue, permit, schemaError, producer, faults,
                 waived>>

\* report_dropped_for_invalid_schema: the unit is dropped, not retried.
DropRefused ==
  /\ worker.pc = "refused"
  /\ schemaError' = TRUE
  /\ EndUnit
  /\ UNCHANGED <<source, indexed, up, queue, permit, producer, faults, waived>>

Running == worker.pc \in {"run", "scanned", "indexing"}

\* The embedding service, Qdrant or the state database fails the run, which is
\* retried with the unit it started with.
RunFails ==
  /\ Running
  /\ faults < MaxFaults
  /\ faults' = faults + 1
  /\ worker.attempt < MaxRetryAttempts
  /\ worker' = [worker EXCEPT !.pc = "backoff", !.attempt = @ + 1, !.todo = {}]
  /\ UNCHANGED <<source, indexed, up, queue, permit, schemaError, producer, waived>>

\* After MAX_RETRY_ATTEMPTS retries the unit is left to the sweep.
GiveUp ==
  /\ Running
  /\ faults < MaxFaults
  /\ faults' = faults + 1
  /\ worker.attempt >= MaxRetryAttempts
  /\ EndUnit
  /\ waived' = waived \cup UnitDocs
  /\ UNCHANGED <<source, indexed, up, queue, permit, schemaError, producer>>

Retry ==
  /\ worker.pc = "backoff"
  /\ worker' = [worker EXCEPT !.pc = "run"]
  /\ UNCHANGED <<source, indexed, up, queue, permit, schemaError, producer, faults,
                 waived>>

\* supervise_reindex_worker starts a new worker after a panic; the unit in
\* flight is gone.
WorkerPanics ==
  /\ Running
  /\ faults < MaxFaults
  /\ faults' = faults + 1
  /\ worker' = IdleWorker
  /\ waived' = waived \cup UnitDocs
  /\ UNCHANGED <<source, indexed, up, queue, permit, schemaError, producer>>

-----------------------------------------------------------------------------
(* Process life cycle.                                                       *)

Crash ==
  /\ up
  /\ faults < MaxFaults
  /\ faults' = faults + 1
  /\ up' = FALSE
  /\ queue' = EmptyQueue
  /\ permit' = FALSE
  /\ worker' = IdleWorker
  /\ schemaError' = FALSE
  /\ producer' = [p \in Producers |-> IdleProducer]
  /\ waived' = {}
  /\ UNCHANGED <<source, indexed>>

\* Commits pushed while the server is down arrive with the startup clone.
ChangeOffline ==
  /\ ~up
  /\ \E D \in SUBSET Docs, s, valid \in BOOLEAN : ChangeTree(D, s, valid)
  /\ UNCHANGED <<config, indexed, up, queue, permit, worker, schemaError, producer,
                 faults, waived>>

\* run_server: an invalid schema tree is fatal; otherwise the worker is spawned
\* and the catch-up reconcile marked.
Startup ==
  /\ ~up
  /\ tree.ok
  /\ up' = TRUE
  /\ queue' = [EmptyQueue EXCEPT !.full = TRUE]
  /\ permit' = TRUE
  /\ UNCHANGED <<source, indexed, worker, schemaError, producer, faults, waived>>

Init ==
  /\ disk = [d \in Docs |-> 1]
  /\ tree = [ver |-> 0, ok |-> TRUE]
  /\ config = 0
  /\ indexed = [d \in Docs |-> [ver |-> 0, config |-> 0, schema |-> 0]]
  /\ up = FALSE
  /\ queue = EmptyQueue
  /\ permit = FALSE
  /\ worker = IdleWorker
  /\ schemaError = FALSE
  /\ producer = [p \in Producers |-> IdleProducer]
  /\ faults = 0
  /\ waived = {}

\* What each process does of its own accord once it has something to do.
ProducerStep(p) ==
  \/ MarkSchemaChanges(p) \/ NotifySchemaChanges(p) \/ MarkChangedPaths(p)
  \/ MarkFullReconcile(p) \/ Notify(p) \/ UpdateRebuilds(p) \/ UpdateReturns(p)

WorkerStep ==
  \/ Wake \/ Drain \/ LoadConfig \/ RebuildSchema \/ ApplyRebuild
  \/ RecoverDropped \/ Scan \/ StartIndex \/ (\E d \in Docs : IndexDoc(d))
  \/ FinishRun \/ DropRefused \/ Retry

Next ==
  \/ \E p \in Producers : \/ ProducerStep(p) \/ Change(p) \/ SweepFires(p)
                         \/ Reload(p) \/ UpdateSchema(p)
                         \/ PullDiffFails(p) \/ SyncDiffFails(p)
  \/ WorkerStep \/ RebuildPanics \/ RunFails \/ GiveUp \/ WorkerPanics
  \/ Crash \/ ChangeOffline \/ Startup

Spec == Init /\ [][Next]_vars

\* The runtime keeps polling every task that is ready: a marking call, an
\* update_schema call and the worker all get to finish.
FairSpec ==
  /\ Spec
  /\ \A p \in Producers : WF_vars(ProducerStep(p))
  /\ WF_vars(WorkerStep)

-----------------------------------------------------------------------------
(* What the queue promises.                                                  *)

\* A producer still has d to mark.
PendingDoc(d) ==
  \E p \in Producers : /\ producer[p].pc \in {"schemas", "wakeThenPaths", "paths"}
                       /\ d \in producer[p].docs

\* Somebody is about to mark a full reconcile.
PendingFull ==
  \E p \in Producers : \/ producer[p].pc = "full"
                       \/ producer[p].pc = "schemas" /\ producer[p].schema

Queued(d) == queue.full \/ d \in queue.paths

\* The unit in the worker's hands will still bring d up to date.
InUnit(d) ==
  \/ /\ worker.pc \in {"load", "rebuild", "apply", "recover", "run", "backoff"}
     /\ d \in UnitDocs
  \/ /\ worker.pc \in {"scanned", "indexing"}
     /\ d \in worker.todo

Owed(d) ==
  PendingDoc(d) \/ PendingFull \/ Queued(d) \/ InUnit(d) \/ d \in waived

\* While every schema file is valid, a document the index has fallen behind on
\* is somebody's duty: a producer that has not marked it yet, the queue, the
\* unit in flight, or (after a fault) the next full reconcile.  Neither the
\* coalescing of drain, nor a unit dropped for a schema that was invalid a
\* moment ago, nor a reload between two units loses a document.
EveryStaleDocIsOwed ==
  up /\ tree.ok => \A d \in Docs : Stale(d) => Owed(d)

\* The worker never sleeps on work: when it waits on the Notify and the queue
\* holds something, a permit is stored or a producer's notify is on its way.
WakeComing ==
  permit \/ \E p \in Producers : producer[p].pc \in {"wakeThenPaths", "wake"}

NoLostWakeup ==
  up /\ worker.pc = "asleep" /\ queue # EmptyQueue => WakeComing

\* Without any help from the timer: once the tree stays valid, every document
\* ends up current in the index, except those a fault left to the sweep.
EventDriven ==
  <>[](up /\ tree.ok) => <>[](\A d \in Docs : Stale(d) => d \in waived)

\* With the timer, also those.
SweepRepairs ==
  <>[](up /\ tree.ok) /\ []<><<\E p \in Producers : SweepFires(p)>>_vars
    => <>[](\A d \in Docs : ~Stale(d))

=============================================================================
