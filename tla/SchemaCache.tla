----------------------------- MODULE SchemaCache -----------------------------
(***************************************************************************)
(* The shared schema cache of src/schema.rs: who rebuilds it, how rebuilds *)
(* that overlap are ordered, and what update_schema promises its caller.   *)
(*                                                                         *)
(* A schema file is a revision number and whether that revision is valid.  *)
(* A build draws its generation first and then reads the files one by one, *)
(* while pulls and update_schema calls go on replacing them; store_shared  *)
(* orders the results by generation.  Files are replaced under the git     *)
(* lock, which builds do not take.  The reindex queue is reduced to its    *)
(* full-reconcile flag: module ReindexQueue shows that the worker wakes.   *)
(***************************************************************************)
EXTENDS Naturals

CONSTANTS
  Files,      \* the schema files of the knowledge base
  Editors,    \* concurrent update_schema calls
  Pullers,    \* concurrent pulls: webhooks, POST /admin/sync, pre-write syncs
  Worker,     \* the reindex worker
  MaxRev,     \* bound: revisions written
  MaxBuilds,  \* bound: builds after which no sweep asks for another
  MaxFaults   \* bound: writes rolled back and rebuilds that panic

ASSUME ActorsAssumption ==
  /\ Worker \notin Editors
  /\ Worker \notin Pullers
  /\ Editors \cap Pullers = {}

VARIABLES
  schema,       \* the files on disk: revision and validity
  lastRev,      \* the newest revision ever written to any file
  gitLock,      \* GIT_LOCK: is it held
  full,         \* ReindexQueue: is a full reconcile queued
  generation,   \* REBUILD_GENERATION
  cache,        \* SharedSchemaCache: its generation, the revisions it was built from
  schemaError,  \* IndexStatus: is a refused rebuild on record
  pc,           \* how far each actor got
  build,        \* the build each rebuilder has in hand
  edit,         \* the write each editor has in hand
  promised,     \* ghost: newest revision update_schema reported as in effect
  faults,       \* faults spent so far
  excused       \* ghost: a fault has left the cache to the next full reconcile

vars == <<schema, lastRev, gitLock, full, generation, cache, schemaError,
          pc, build, edit, promised, faults, excused>>

-----------------------------------------------------------------------------
Builders == Editors \cup {Worker}
Actors == Builders \cup Pullers

TreeValid == \A f \in Files : schema[f].ok

\* A build that has read nothing yet, and b's once it has read f as well.
NewBuild(g) ==
  [gen |-> g, left |-> Files, seen |-> [f \in Files |-> 0], bad |-> FALSE]
HavingRead(b, f) ==
  [gen |-> build[b].gen, left |-> build[b].left \ {f},
   seen |-> [build[b].seen EXCEPT ![f] = schema[f].rev],
   bad |-> build[b].bad \/ ~schema[f].ok]

FileState == [rev : Nat, ok : BOOLEAN]
CacheState == [gen : Nat, seen : [Files -> Nat]]
BuildState == [gen : Nat, left : SUBSET Files, seen : [Files -> Nat], bad : BOOLEAN]
EditState == [file : Files, rev : Nat, before : Nat]
ActorState == {"idle", "written", "begin", "read", "settle", "index", "refused",
               "pulled"}

TypeOK ==
  /\ schema \in [Files -> FileState]
  /\ lastRev \in Nat
  /\ gitLock \in BOOLEAN
  /\ full \in BOOLEAN
  /\ generation \in Nat
  /\ cache \in CacheState
  /\ schemaError \in BOOLEAN
  /\ pc \in [Actors -> ActorState]
  /\ build \in [Builders -> BuildState]
  /\ edit \in [Editors -> EditState]
  /\ promised \in [Files -> Nat]
  /\ faults \in Nat
  /\ excused \in BOOLEAN

Advance(a, to) == pc' = [pc EXCEPT ![a] = to]

MarkFull == full' = TRUE /\ excused' = FALSE

\* Mutant: the replaced file is taken back one revision.
ReplaceByOlder(f, valid) ==
  /\ lastRev < MaxRev
  /\ lastRev' = lastRev + 1
  /\ schema' = [schema EXCEPT ![f] = [rev |-> @.rev - 1, ok |-> valid]]

\* A file is replaced by a revision nobody has seen yet.
Replace(f, valid) ==
  /\ lastRev < MaxRev
  /\ lastRev' = lastRev + 1
  /\ schema' = [schema EXCEPT ![f] = [rev |-> lastRev', ok |-> valid]]

-----------------------------------------------------------------------------
(* Pulls.  git replaces the files one after the other.                       *)

PullFile(p) ==
  /\ \/ pc[p] = "idle" /\ ~gitLock
     \/ pc[p] = "pulled"
  /\ gitLock' = TRUE
  /\ \E f \in Files, valid \in BOOLEAN : Replace(f, valid)
  /\ Advance(p, "pulled")
  /\ UNCHANGED <<full, generation, cache, schemaError, build, edit,
                 promised, faults, excused>>

\* mark_changed calls mark_schema_changes with everything the pull changed.
PullMarks(p) ==
  /\ pc[p] = "pulled"
  /\ MarkFull
  /\ gitLock' = FALSE
  /\ Advance(p, "idle")
  /\ UNCHANGED <<schema, lastRev, generation, cache, schemaError, build,
                 edit, promised, faults>>

-----------------------------------------------------------------------------
(* Builds, the same for the worker and for update_schema.                    *)

\* SchemaCache::build takes its place in the order before it reads anything.
BeginBuild(b) ==
  /\ pc[b] = "begin"
  /\ generation' = generation + 1
  /\ build' = [build EXCEPT ![b] = NewBuild(generation + 1)]
  /\ Advance(b, "read")
  /\ UNCHANGED <<schema, lastRev, gitLock, full, cache, schemaError, edit,
                 promised, faults, excused>>

ReadSchemaFile(b) ==
  /\ pc[b] = "read"
  /\ \E f \in build[b].left : build' = [build EXCEPT ![b] = HavingRead(b, f)]
  /\ UNCHANGED <<schema, lastRev, gitLock, full, generation, cache,
                 schemaError, pc, edit, promised, faults, excused>>

\* Mutant: the build that finishes last wins.
StoreLast(b) == cache' = [gen |-> build[b].gen, seen |-> build[b].seen]

\* store_shared: a build that started before the installed one is discarded.
StoreShared(b) ==
  IF build[b].gen < cache.gen
  THEN UNCHANGED cache
  ELSE cache' = [gen |-> build[b].gen, seen |-> build[b].seen]

\* apply_rebuild swaps an accepted build in and then clears the error on record.
InstallBuild(b) ==
  /\ pc[b] = "read"
  /\ build[b].left = {}
  /\ ~build[b].bad
  /\ StoreShared(b)
  /\ Advance(b, "settle")
  /\ UNCHANGED <<schema, lastRev, gitLock, full, generation, schemaError,
                 build, edit, promised, faults, excused>>

\* It refuses a build that met an invalid file, and the unit or call ends.
RefuseBuild(b) ==
  /\ pc[b] = "read"
  /\ build[b].left = {}
  /\ build[b].bad
  /\ schemaError' = TRUE
  /\ Advance(b, "idle")
  /\ UNCHANGED <<schema, lastRev, gitLock, full, generation, cache, build,
                 edit, promised, faults, excused>>

-----------------------------------------------------------------------------
(* update_schema.                                                            *)

\* Under the git lock: the file must parse, and so does what replaces it.
WriteSchema(e) ==
  /\ pc[e] = "idle"
  /\ ~gitLock
  /\ gitLock' = TRUE
  /\ \E f \in Files :
       /\ schema[f].ok
       /\ Replace(f, TRUE)
       /\ edit' = [edit EXCEPT ![e] = [file |-> f, rev |-> lastRev',
                                       before |-> schema[f].rev]]
  /\ Advance(e, "written")
  /\ UNCHANGED <<full, generation, cache, schemaError, build, promised,
                 faults, excused>>

\* The commit has landed: write_raw_file queues the reconcile, then the lock goes.
CommitLands(e) ==
  /\ pc[e] = "written"
  /\ MarkFull
  /\ gitLock' = FALSE
  /\ Advance(e, "begin")
  /\ UNCHANGED <<schema, lastRev, generation, cache, schemaError, build,
                 edit, promised, faults>>

\* The commit fails, or loses to the remote: the file goes back to what it was
\* and nothing is queued.
CommitFails(e) ==
  /\ pc[e] = "written"
  /\ faults < MaxFaults
  /\ faults' = faults + 1
  /\ schema' = [schema EXCEPT ![edit[e].file].rev = edit[e].before]
  /\ excused' = TRUE
  /\ gitLock' = FALSE
  /\ Advance(e, "idle")
  /\ UNCHANGED <<lastRev, full, generation, cache, schemaError, build, edit, promised>>

\* The call returns without the "not in effect yet" warning.
UpdateReturns(e) ==
  /\ pc[e] = "settle"
  /\ schemaError' = FALSE
  /\ promised' = [promised EXCEPT ![edit[e].file] =
                    IF @ < edit[e].rev THEN edit[e].rev ELSE @]
  /\ Advance(e, "idle")
  /\ UNCHANGED <<schema, lastRev, gitLock, full, generation, cache, build,
                 edit, faults, excused>>

\* A build that panics leaves the cache alone; the call succeeds all the same.
UpdateRebuildPanics(e) ==
  /\ pc[e] = "read"
  /\ faults < MaxFaults
  /\ faults' = faults + 1
  /\ Advance(e, "idle")
  /\ UNCHANGED <<schema, lastRev, gitLock, full, generation, cache,
                 schemaError, build, edit, promised, excused>>

-----------------------------------------------------------------------------
(* The worker and the timer.                                                 *)

SweepFires ==
  /\ generation < MaxBuilds
  /\ MarkFull
  /\ UNCHANGED <<schema, lastRev, gitLock, generation, cache, schemaError,
                 pc, build, edit, promised, faults>>

TakeFull ==
  /\ pc[Worker] = "idle"
  /\ full
  /\ full' = FALSE
  /\ Advance(Worker, "begin")
  /\ UNCHANGED <<schema, lastRev, gitLock, generation, cache, schemaError,
                 build, edit, promised, faults, excused>>

\* Mutant: the flag is cleared when the unit is done.
SettleAndClear ==
  /\ schemaError' = FALSE
  /\ full' = FALSE

\* apply_rebuild's last act: the refused-rebuild record goes.
Settle ==
  /\ schemaError' = FALSE
  /\ UNCHANGED full

WorkerSettles ==
  /\ pc[Worker] = "settle"
  /\ Settle
  /\ Advance(Worker, "index")
  /\ UNCHANGED <<schema, lastRev, gitLock, generation, cache, build,
                 edit, promised, faults, excused>>

WorkerRebuildPanics ==
  /\ pc[Worker] = "read"
  /\ faults < MaxFaults
  /\ faults' = faults + 1
  /\ excused' = TRUE
  /\ Advance(Worker, "index")
  /\ UNCHANGED <<schema, lastRev, gitLock, full, generation, cache,
                 schemaError, build, edit, promised>>

\* The run builds a throwaway cache of its own and is dropped when that is refused.
IndexUnit ==
  /\ pc[Worker] = "index"
  /\ Advance(Worker, IF TreeValid THEN "idle" ELSE "refused")
  /\ UNCHANGED <<schema, lastRev, gitLock, full, generation, cache,
                 schemaError, build, edit, promised, faults, excused>>

DropUnit ==
  /\ pc[Worker] = "refused"
  /\ schemaError' = TRUE
  /\ Advance(Worker, "idle")
  /\ UNCHANGED <<schema, lastRev, gitLock, full, generation, cache, build,
                 edit, promised, faults, excused>>

-----------------------------------------------------------------------------
Init ==
  /\ schema = [f \in Files |-> [rev |-> 0, ok |-> TRUE]]
  /\ lastRev = 0
  /\ gitLock = FALSE
  /\ full = TRUE
  /\ generation = 1
  /\ cache = [gen |-> 1, seen |-> [f \in Files |-> 0]]
  /\ schemaError = FALSE
  /\ pc = [a \in Actors |-> "idle"]
  /\ build = [b \in Builders |-> NewBuild(0)]
  /\ edit \in [Editors -> [file : Files, rev : {0}, before : {0}]]
  /\ promised = [f \in Files |-> 0]
  /\ faults = 0
  /\ excused = FALSE

EditorStep(e) ==
  \/ WriteSchema(e) \/ CommitLands(e) \/ CommitFails(e) \/ UpdateReturns(e)
  \/ UpdateRebuildPanics(e)

WorkerStep ==
  \/ TakeFull \/ WorkerSettles \/ WorkerRebuildPanics \/ IndexUnit \/ DropUnit

BuildStep(b) ==
  BeginBuild(b) \/ ReadSchemaFile(b) \/ InstallBuild(b) \/ RefuseBuild(b)

Next ==
  \/ \E p \in Pullers : PullFile(p) \/ PullMarks(p)
  \/ \E b \in Builders : BuildStep(b)
  \/ \E e \in Editors : EditorStep(e)
  \/ WorkerStep
  \/ SweepFires

Spec == Init /\ [][Next]_vars

-----------------------------------------------------------------------------
(* What the cache promises.                                                  *)

\* Once update_schema has returned saying its rule is in effect, the cache every
\* later write is validated against was built from that revision or a newer one,
\* whatever other rebuilds finish afterwards.
SchemaReadYourWrites == \A f \in Files : cache.seen[f] >= promised[f]

\* Somebody will still ask for a rebuild.
MarkPending ==
  \/ \E p \in Pullers : pc[p] = "pulled"
  \/ \E e \in Editors : pc[e] = "written"

\* The worker's build will bring the cache up to date on f.
WorkerWillRead(f) ==
  \/ pc[Worker] = "begin"
  \/ /\ pc[Worker] = "read"
     /\ f \in build[Worker].left \/ build[Worker].seen[f] = schema[f].rev

\* While every schema file is valid, a cache that lags the disk is being dealt
\* with: a reconcile is pending or queued, the worker's rebuild has yet to read
\* the file or has read what is there now, or a fault has left it to the sweep.
StaleCacheIsOwed ==
  TreeValid /\ ~excused =>
    \A f \in Files : cache.seen[f] # schema[f].rev =>
      MarkPending \/ full \/ WorkerWillRead(f)

=============================================================================
