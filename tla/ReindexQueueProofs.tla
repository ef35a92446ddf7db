------------------------- MODULE ReindexQueueProofs -------------------------
(* What ReindexQueue promises, proved for every set of documents and         *)
(* producers and every bound.                                                *)
EXTENDS ReindexQueue, TLAPS

-----------------------------------------------------------------------------
(* Type correctness.                                                         *)

ProducerAction(p) ==
  \/ ProducerStep(p) \/ Change(p) \/ SweepFires(p) \/ Reload(p)
  \/ UpdateSchema(p) \/ PullDiffFails(p) \/ SyncDiffFails(p)

WorkerAction == WorkerStep \/ RebuildPanics \/ RunFails \/ GiveUp \/ WorkerPanics

QueueState == [paths : SUBSET Paths, full : BOOLEAN]
IndexState == [Docs -> [ver : Nat, config : Nat, schema : Nat]]

LEMMA IdleTypes ==
  /\ IdleProducer \in ProducerState
  /\ IdleWorker \in WorkerState
  /\ EmptyQueue \in QueueState
  BY DEF IdleProducer, ProducerState, IdleWorker, WorkerState, EmptyQueue, QueueState

LEMMA InitTypeOK == Init => TypeOK
<1> SUFFICES ASSUME Init PROVE TypeOK
  OBVIOUS
<1>1. disk \in [Docs -> Nat] /\ tree \in [ver : Nat, ok : BOOLEAN] /\ config \in Nat
  BY DEF Init
<1>2. indexed \in IndexState
  BY DEF Init, IndexState
<1>3. /\ queue \in QueueState /\ worker \in WorkerState
      /\ producer \in [Producers -> ProducerState]
  BY IdleTypes DEF Init
<1>. QED
  BY <1>1, <1>2, <1>3 DEF Init, TypeOK, QueueState, IndexState

LEMMA ChangeTreeType ==
  ASSUME TypeOK, NEW D \in SUBSET Docs, NEW s \in BOOLEAN, NEW valid \in BOOLEAN,
         ChangeTree(D, s, valid)
  PROVE  disk' \in [Docs -> Nat] /\ tree' \in [ver : Nat, ok : BOOLEAN]
<1>1. disk' \in [Docs -> Nat]
  BY DEF TypeOK, ChangeTree
<1>2. CASE s
  BY <1>1, <1>2 DEF TypeOK, ChangeTree
<1>3. CASE ~s
  BY <1>1, <1>3 DEF TypeOK, ChangeTree
<1>. QED
  BY <1>2, <1>3

LEMMA AdvanceType ==
  ASSUME TypeOK, NEW p \in Producers,
         NEW pc \in {"idle", "schemas", "wakeThenPaths", "paths", "full", "wake",
                     "rebuild", "apply"},
         Advance(p, pc)
  PROVE  producer' \in [Producers -> ProducerState]
<1>1. producer[p] \in ProducerState
  BY DEF TypeOK
<1>2. [producer[p] EXCEPT !.pc = pc] \in ProducerState
  BY <1>1 DEF ProducerState
<1>. QED
  BY <1>2 DEF TypeOK, Advance

\* The steps of a producer keep the types: what it marks are paths.
LEMMA ProducerTypeOK ==
  ASSUME TypeOK, NEW p \in Producers, ProducerAction(p)
  PROVE  TypeOK'
<1>1. CASE Change(p)
  <2>1. PICK D \in SUBSET Docs, s \in BOOLEAN, valid \in BOOLEAN :
          /\ ChangeTree(D, s, valid)
          /\ producer' = [producer EXCEPT ![p] = [@ EXCEPT !.pc = "schemas",
                                                        !.docs = D, !.schema = s]]
    BY <1>1 DEF Change
  <2>2. disk' \in [Docs -> Nat] /\ tree' \in [ver : Nat, ok : BOOLEAN]
    BY <2>1, ChangeTreeType
  <2>3. producer' \in [Producers -> ProducerState]
    <3>1. [producer[p] EXCEPT !.pc = "schemas", !.docs = D, !.schema = s]
            \in ProducerState
      BY DEF TypeOK, ProducerState
    <3>. QED
      BY <2>1, <3>1 DEF TypeOK
  <2>. QED
    BY <1>1, <2>2, <2>3 DEF TypeOK, Change
<1>2. CASE UpdateSchema(p)
  <2>1. tree.ok \in BOOLEAN /\ ChangeTree({}, TRUE, tree.ok)
    BY <1>2 DEF TypeOK, UpdateSchema
  <2>2. disk' \in [Docs -> Nat] /\ tree' \in [ver : Nat, ok : BOOLEAN]
    BY <2>1, ChangeTreeType
  <2>3. producer' \in [Producers -> ProducerState]
    BY <1>2 DEF TypeOK, UpdateSchema, ProducerState
  <2>. QED
    BY <1>2, <2>2, <2>3 DEF TypeOK, UpdateSchema
<1>3. CASE SweepFires(p)
  <2>1. queue' \in QueueState
    BY <1>3 DEF TypeOK, SweepFires, QueueState, MarkFull
  <2>2. waived' \in SUBSET Docs
    BY <1>3 DEF TypeOK, SweepFires, MarkFull
  <2>3. producer' \in [Producers -> ProducerState]
    BY <1>3, AdvanceType DEF SweepFires
  <2>. QED
    BY <1>3, <2>1, <2>2, <2>3 DEF TypeOK, QueueState, IndexState, SweepFires, source
<1>4. CASE Reload(p)
  <2>1. producer' \in [Producers -> ProducerState]
    BY <1>4, AdvanceType DEF Reload
  <2>. QED
    BY <1>4, <2>1 DEF TypeOK, QueueState, IndexState, Reload, source, Advance
<1>5. CASE PullDiffFails(p)
  <2>1. waived' \in SUBSET Docs
    BY <1>5 DEF TypeOK, PullDiffFails, ProducerState
  <2>2. producer' \in [Producers -> ProducerState]
    BY <1>5 DEF TypeOK, PullDiffFails, ProducerState, IdleProducer
  <2>. QED
    BY <1>5, <2>1, <2>2 DEF TypeOK, QueueState, IndexState, PullDiffFails, source
<1>6. CASE SyncDiffFails(p)
  <2>1. queue' \in QueueState
    BY <1>6 DEF TypeOK, SyncDiffFails, QueueState, MarkFull
  <2>2. waived' \in SUBSET Docs
    BY <1>6 DEF TypeOK, SyncDiffFails, MarkFull
  <2>3. producer' \in [Producers -> ProducerState]
    BY <1>6 DEF TypeOK, SyncDiffFails, ProducerState, IdleProducer
  <2>. QED
    BY <1>6, <2>1, <2>2, <2>3
       DEF TypeOK, QueueState, IndexState, SyncDiffFails, source
<1>7. CASE MarkSchemaChanges(p)
  <2>1. producer' \in [Producers -> ProducerState]
    <3>1. CASE producer[p].schema
      BY <1>7, <3>1 DEF TypeOK, MarkSchemaChanges, ProducerState, Advance
    <3>2. CASE ~producer[p].schema
      BY <1>7, <3>2 DEF TypeOK, MarkSchemaChanges, ProducerState, Advance
    <3>. QED
      BY <3>1, <3>2
  <2>2. queue' \in QueueState /\ waived' \in SUBSET Docs
    BY <1>7 DEF TypeOK, MarkSchemaChanges, QueueState, MarkFull
  <2>3. UNCHANGED <<source, indexed, up, permit, worker, schemaError, faults>>
    BY <1>7 DEF MarkSchemaChanges
  <2>. QED
    BY <2>1, <2>2, <2>3 DEF TypeOK, QueueState, source
<1>8. CASE NotifySchemaChanges(p)
  <2>1. producer' \in [Producers -> ProducerState]
    BY <1>8, AdvanceType DEF NotifySchemaChanges
  <2>. QED
    BY <1>8, <2>1
       DEF TypeOK, QueueState, IndexState, NotifySchemaChanges, source, NotifyOne
<1>9. CASE MarkChangedPaths(p)
  <2>1. queue' \in QueueState
    BY <1>9
       DEF TypeOK, MarkChangedPaths, QueueState, MarkPaths, Paths, ProducerState
  <2>2. producer' \in [Producers -> ProducerState]
    BY <1>9 DEF TypeOK, MarkChangedPaths, ProducerState, IdleProducer
  <2>. QED
    BY <1>9, <2>1, <2>2 DEF TypeOK, QueueState, IndexState, MarkChangedPaths, source
<1>10. CASE MarkFullReconcile(p)
  <2>1. queue' \in QueueState
    BY <1>10 DEF TypeOK, MarkFullReconcile, QueueState, MarkFull
  <2>2. waived' \in SUBSET Docs
    BY <1>10 DEF TypeOK, MarkFullReconcile, MarkFull
  <2>3. producer' \in [Producers -> ProducerState]
    BY <1>10, AdvanceType DEF MarkFullReconcile
  <2>. QED
    BY <1>10, <2>1, <2>2, <2>3
       DEF TypeOK, QueueState, IndexState, MarkFullReconcile, source
<1>11. CASE Notify(p)
  <2>1. producer' \in [Producers -> ProducerState]
    BY <1>11, AdvanceType DEF Notify
  <2>. QED
    BY <1>11, <2>1 DEF TypeOK, QueueState, IndexState, Notify, source, NotifyOne
<1>12. CASE UpdateRebuilds(p)
  <2>1. producer' \in [Producers -> ProducerState]
    BY <1>12 DEF TypeOK, UpdateRebuilds, ProducerState
  <2>. QED
    BY <1>12, <2>1 DEF TypeOK, QueueState, IndexState, UpdateRebuilds, source
<1>13. CASE UpdateReturns(p)
  <2>1. producer' \in [Producers -> ProducerState]
    BY <1>13 DEF TypeOK, UpdateReturns, ProducerState, IdleProducer
  <2>. QED
    BY <1>13, <2>1 DEF TypeOK, QueueState, IndexState, UpdateReturns, source
<1>. QED
  BY <1>1, <1>2, <1>3, <1>4, <1>5, <1>6, <1>7, <1>8, <1>9, <1>10, <1>11, <1>12, <1>13
     DEF ProducerAction, ProducerStep

\* So do the worker's: its unit holds paths, its to-do list documents.
LEMMA WorkerTypeOK ==
  ASSUME TypeOK, WorkerAction
  PROVE  TypeOK'
<1>1. CASE Wake
  <2>1. worker' \in WorkerState
    BY <1>1 DEF TypeOK, Wake, WorkerState
  <2>. QED
    BY <1>1, <2>1 DEF TypeOK, QueueState, IndexState, Wake, source
<1>2. CASE Drain
  <2>1. queue' \in QueueState
    BY <1>2, IdleTypes DEF Drain
  <2>2. CASE queue.paths = {} /\ ~queue.full
    BY <1>2, <2>1, <2>2, IdleTypes DEF TypeOK, QueueState, Drain, source
  <2>3. CASE queue.full
    <3>1. worker' = [IdleWorker EXCEPT !.pc = "load", !.full = TRUE, !.paths = {}]
      BY <1>2, <2>3 DEF TypeOK, Drain
    <3>2. worker' \in WorkerState
      BY <3>1 DEF WorkerState, IdleWorker
    <3>. QED
      BY <1>2, <2>1, <3>2 DEF TypeOK, QueueState, Drain, source
  <2>4. CASE queue.paths # {} /\ ~queue.full
    <3>1. worker' = [IdleWorker EXCEPT !.pc = "load", !.full = FALSE,
                                       !.paths = queue.paths]
      BY <1>2, <2>4 DEF TypeOK, Drain
    <3>2. worker' \in WorkerState
      BY <3>1 DEF TypeOK, WorkerState, IdleWorker
    <3>. QED
      BY <1>2, <2>1, <3>2 DEF TypeOK, QueueState, Drain, source
  <2>. QED
    BY <2>2, <2>3, <2>4
<1>3. CASE LoadConfig
  <2>1. worker' \in WorkerState
    BY <1>3 DEF TypeOK, LoadConfig, WorkerState, UnitConfig
  <2>. QED
    BY <1>3, <2>1 DEF TypeOK, QueueState, IndexState, LoadConfig, source
<1>4. CASE RebuildSchema
  <2>1. worker' \in WorkerState
    BY <1>4 DEF TypeOK, RebuildSchema, WorkerState
  <2>. QED
    BY <1>4, <2>1 DEF TypeOK, QueueState, IndexState, RebuildSchema, source
<1>5. CASE ApplyRebuild
  <2>1. CASE worker.verdict
    <3>1. worker' \in WorkerState
      BY <1>5, <2>1 DEF TypeOK, ApplyRebuild, WorkerState
    <3>. QED
      BY <1>5, <3>1 DEF TypeOK, ApplyRebuild, source
  <2>2. CASE ~worker.verdict
    <3>1. worker' \in WorkerState
      <4>1. worker' = [IdleWorker EXCEPT !.pc = "drain"]
        BY <1>5, <2>2 DEF ApplyRebuild, EndUnit
      <4>. QED
        BY <4>1 DEF WorkerState, IdleWorker
    <3>. QED
      BY <1>5, <3>1 DEF TypeOK, ApplyRebuild, source
  <2>. QED
    BY <2>1, <2>2
<1>6. CASE RebuildPanics
  <2>1. worker' \in WorkerState
    BY <1>6 DEF TypeOK, RebuildPanics, WorkerState
  <2>. QED
    BY <1>6, <2>1 DEF TypeOK, QueueState, IndexState, RebuildPanics, source
<1>7. CASE RecoverDropped
  <2>1. queue' \in QueueState
    BY <1>7 DEF TypeOK, RecoverDropped, QueueState, MarkFull
  <2>2. waived' \in SUBSET Docs
    BY <1>7 DEF TypeOK, RecoverDropped, MarkFull
  <2>3. worker' \in WorkerState
    BY <1>7 DEF TypeOK, RecoverDropped, WorkerState
  <2>. QED
    BY <1>7, <2>1, <2>2, <2>3
       DEF TypeOK, QueueState, IndexState, RecoverDropped, source, NotifyOne
<1>8. CASE Scan
  <2>1. worker' \in WorkerState
    BY <1>8 DEF TypeOK, Scan, WorkerState
  <2>. QED
    BY <1>8, <2>1 DEF TypeOK, QueueState, IndexState, Scan, source
<1>9. CASE StartIndex
  <2>1. worker' \in WorkerState
    BY <1>9 DEF TypeOK, StartIndex, WorkerState, UnitDocs
  <2>. QED
    BY <1>9, <2>1 DEF TypeOK, QueueState, IndexState, StartIndex, source
<1>10. CASE \E d \in Docs : IndexDoc(d)
  <2>1. indexed' \in IndexState
    BY <1>10 DEF TypeOK, IndexDoc, IndexState, IndexedUnder, WorkerState
  <2>2. worker' \in WorkerState
    BY <1>10 DEF TypeOK, IndexDoc, WorkerState
  <2>. QED
    BY <1>10, <2>1, <2>2 DEF TypeOK, QueueState, IndexState, IndexDoc, source
<1>11. CASE FinishRun
  <2>1. worker' \in WorkerState
    BY <1>11 DEF TypeOK, FinishRun, EndUnit, WorkerState, IdleWorker
  <2>. QED
    BY <1>11, <2>1 DEF TypeOK, QueueState, IndexState, FinishRun, source
<1>12. CASE DropRefused
  <2>1. worker' \in WorkerState
    BY <1>12 DEF TypeOK, DropRefused, EndUnit, WorkerState, IdleWorker
  <2>. QED
    BY <1>12, <2>1 DEF TypeOK, QueueState, IndexState, DropRefused, source
<1>13. CASE Retry
  <2>1. worker' \in WorkerState
    BY <1>13 DEF TypeOK, Retry, WorkerState
  <2>. QED
    BY <1>13, <2>1 DEF TypeOK, QueueState, IndexState, Retry, source
<1>14. CASE RunFails
  <2>1. worker.attempt + 1 \in Nat
    BY DEF TypeOK, WorkerState
  <2>2. worker' = [worker EXCEPT !.pc = "backoff", !.attempt = worker.attempt + 1,
                                 !.todo = {}]
    BY <1>14 DEF RunFails
  <2>3. worker' \in WorkerState
    BY <2>1, <2>2 DEF TypeOK, WorkerState
  <2>. QED
    BY <1>14, <2>3 DEF TypeOK, RunFails, source
<1>15. CASE GiveUp
  <2>1. worker' \in WorkerState
    BY <1>15 DEF TypeOK, GiveUp, EndUnit, WorkerState, IdleWorker
  <2>2. waived' \in SUBSET Docs
    BY <1>15 DEF TypeOK, GiveUp, UnitDocs, WorkerState
  <2>. QED
    BY <1>15, <2>1, <2>2 DEF TypeOK, QueueState, IndexState, GiveUp, source
<1>16. CASE WorkerPanics
  <2>1. worker' \in WorkerState
    BY <1>16 DEF TypeOK, WorkerPanics, EndUnit, WorkerState, IdleWorker
  <2>2. waived' \in SUBSET Docs
    BY <1>16 DEF TypeOK, WorkerPanics, UnitDocs, WorkerState
  <2>. QED
    BY <1>16, <2>1, <2>2 DEF TypeOK, QueueState, IndexState, WorkerPanics, source
<1>. QED
  BY <1>1, <1>2, <1>3, <1>4, <1>5, <1>6, <1>7, <1>8, <1>9, <1>10, <1>11, <1>12, <1>13,
     <1>14, <1>15, <1>16
     DEF WorkerAction, WorkerStep

\* A crash and a restart put well-typed values everywhere.
LEMMA LifeCycleTypeOK ==
  ASSUME TypeOK, Crash \/ ChangeOffline \/ Startup
  PROVE  TypeOK'
<1>1. CASE Crash
  <2>1. /\ queue' \in QueueState /\ worker' \in WorkerState
        /\ producer' \in [Producers -> ProducerState]
    BY <1>1, IdleTypes DEF Crash
  <2>2. /\ up' = FALSE /\ permit' = FALSE /\ schemaError' = FALSE /\ waived' = {}
        /\ faults' = faults + 1 /\ UNCHANGED <<disk, tree, config, indexed>>
    BY <1>1 DEF Crash, source
  <2>3. faults' \in Nat /\ waived' \in SUBSET Docs
    BY <2>2 DEF TypeOK
  <2>. QED
    BY <2>1, <2>2, <2>3 DEF TypeOK, QueueState
<1>2. CASE ChangeOffline
  <2>1. disk' \in [Docs -> Nat] /\ tree' \in [ver : Nat, ok : BOOLEAN]
    BY <1>2, ChangeTreeType DEF ChangeOffline
  <2>. QED
    BY <1>2, <2>1 DEF TypeOK, ChangeOffline
<1>3. CASE Startup
  <2>1. queue' \in QueueState
    BY <1>3 DEF TypeOK, Startup, QueueState, EmptyQueue
  <2>. QED
    BY <1>3, <2>1 DEF TypeOK, QueueState, IndexState, Startup, source
<1>. QED
  BY <1>1, <1>2, <1>3

\* Every variable keeps its type; in particular no schema file ever enters the
\* worker's list of documents, although one can enter its unit.
THEOREM TypeCorrect == Spec => []TypeOK
<1>1. TypeOK /\ [Next]_vars => TypeOK'
  <2> SUFFICES ASSUME TypeOK, [Next]_vars PROVE TypeOK'
    OBVIOUS
  <2>1. CASE Next
    BY <2>1, ProducerTypeOK, WorkerTypeOK, LifeCycleTypeOK
       DEF Next, ProducerAction, WorkerAction
  <2>2. CASE UNCHANGED vars
    BY <2>2 DEF vars, source, TypeOK
  <2>. QED
    BY <2>1, <2>2
<1>. QED
  BY InitTypeOK, <1>1, PTL DEF Spec

-----------------------------------------------------------------------------
(* The worker is never left asleep on a queue that holds something.  While a *)
(* unit runs the queue fills up as well, so the invariant covers every state *)
(* of the worker but the one in which it is about to drain.                  *)

QueueIsAnnounced == worker.pc # "drain" /\ queue # EmptyQueue => WakeComing

LEMMA InitAnnounced == Init => QueueIsAnnounced
  BY DEF Init, QueueIsAnnounced

\* Whatever a producer marks, it is about to notify; and a notify stores a permit.
LEMMA ProducerAnnounces ==
  ASSUME TypeOK, QueueIsAnnounced, NEW p \in Producers, ProducerAction(p)
  PROVE  QueueIsAnnounced'
<1> USE DEF TypeOK, ProducerState, QueueIsAnnounced, WakeComing, Advance
<1>1. CASE Change(p) \/ Reload(p) \/ UpdateSchema(p)
  BY <1>1 DEF Change, Reload, UpdateSchema
<1>2. CASE SweepFires(p) \/ MarkFullReconcile(p)
  BY <1>2 DEF SweepFires, MarkFullReconcile
<1>3. CASE PullDiffFails(p) \/ SyncDiffFails(p)
  BY <1>3 DEF PullDiffFails, SyncDiffFails, IdleProducer
<1>4. CASE MarkSchemaChanges(p)
  BY <1>4 DEF MarkSchemaChanges
<1>5. CASE NotifySchemaChanges(p) \/ Notify(p)
  BY <1>5 DEF NotifySchemaChanges, Notify, NotifyOne
<1>6. CASE MarkChangedPaths(p)
  BY <1>6 DEF MarkChangedPaths, IdleProducer
<1>7. CASE UpdateRebuilds(p) \/ UpdateReturns(p)
  BY <1>7 DEF UpdateRebuilds, UpdateReturns, IdleProducer
<1>. QED
  BY <1>1, <1>2, <1>3, <1>4, <1>5, <1>6, <1>7 DEF ProducerAction, ProducerStep

\* The worker takes the permit on its way to a drain, and drains before it waits.
LEMMA WorkerAnnounces ==
  ASSUME TypeOK, QueueIsAnnounced, WorkerAction
  PROVE  QueueIsAnnounced'
<1> USE DEF TypeOK, WorkerState, QueueIsAnnounced, WakeComing
<1>1. CASE Wake
  BY <1>1 DEF Wake
<1>2. CASE Drain
  BY <1>2 DEF Drain
<1>3. CASE RecoverDropped
  BY <1>3 DEF RecoverDropped, NotifyOne
<1>4. CASE LoadConfig \/ RebuildSchema \/ RebuildPanics \/ Scan \/ StartIndex \/ Retry
  BY <1>4 DEF LoadConfig, RebuildSchema, RebuildPanics, Scan, StartIndex, Retry
<1>5. CASE ApplyRebuild
  BY <1>5 DEF ApplyRebuild, EndUnit, IdleWorker
<1>6. CASE \E d \in Docs : IndexDoc(d)
  BY <1>6 DEF IndexDoc
<1>7. CASE FinishRun \/ DropRefused \/ GiveUp
  BY <1>7 DEF FinishRun, DropRefused, GiveUp, EndUnit, IdleWorker
<1>8. CASE RunFails \/ WorkerPanics
  BY <1>8 DEF RunFails, WorkerPanics, Running
<1>. QED
  BY <1>1, <1>2, <1>3, <1>4, <1>5, <1>6, <1>7, <1>8 DEF WorkerAction, WorkerStep

LEMMA LifeCycleAnnounces ==
  ASSUME TypeOK, QueueIsAnnounced, Crash \/ ChangeOffline \/ Startup
  PROVE  QueueIsAnnounced'
  BY DEF QueueIsAnnounced, WakeComing, Crash, ChangeOffline, Startup

\* No interleaving of marks, notifies, drains, panics and restarts leaves the
\* worker asleep on a non-empty queue with no wake-up stored or on its way.
THEOREM NoWakeupIsLost == Spec => []NoLostWakeup
<1>1. TypeOK /\ QueueIsAnnounced /\ [Next]_vars => QueueIsAnnounced'
  <2> SUFFICES ASSUME TypeOK, QueueIsAnnounced, [Next]_vars PROVE QueueIsAnnounced'
    OBVIOUS
  <2>1. CASE Next
    BY <2>1, ProducerAnnounces, WorkerAnnounces, LifeCycleAnnounces
       DEF Next, ProducerAction, WorkerAction
  <2>2. CASE UNCHANGED vars
    BY <2>2 DEF vars, QueueIsAnnounced, WakeComing
  <2>. QED
    BY <2>1, <2>2
<1>2. QueueIsAnnounced => NoLostWakeup
  BY DEF QueueIsAnnounced, NoLostWakeup
<1>. QED
  BY InitAnnounced, TypeCorrect, <1>1, <1>2, PTL DEF Spec

-----------------------------------------------------------------------------
(* No stale document is forgotten.  A unit works from snapshots (the         *)
(* configuration it loaded, the verdict of its rebuild, the schema tree its  *)
(* run started from); each may have aged, but then somebody has queued, or   *)
(* is about to queue, the full reconcile that makes up for it.               *)

FullComing == PendingFull \/ queue.full \/ waived = Docs

Loaded == {"rebuild", "apply", "recover", "run", "scanned", "indexing", "backoff"}

UnitInv ==
  /\ ~up => worker.pc = "asleep"
  /\ worker.pc = "scanned" => worker.full
  /\ worker.pc \in {"scanned", "indexing"} => worker.todo \subseteq UnitDocs

SnapshotInv ==
  /\ worker.pc \in Loaded => worker.config = config \/ FullComing
  /\ worker.pc = "indexing" => worker.schema = tree.ver \/ FullComing
  /\ worker.pc = "apply" /\ ~worker.verdict => ~tree.ok \/ FullComing

OwedInv == UnitInv /\ SnapshotInv /\ EveryStaleDocIsOwed

LEMMA FullIsEnough ==
  ASSUME FullComing, NEW d \in Docs
  PROVE  Owed(d)
  BY DEF FullComing, Owed, Queued

LEMMA InitOwed == Init => OwedInv
  BY DEF Init, IdleWorker, OwedInv, UnitInv, SnapshotInv, EveryStaleDocIsOwed, Loaded

\* A coming full reconcile can only get closer while producers act.
LEMMA ProducerFullStays ==
  ASSUME TypeOK, NEW p \in Producers, ProducerAction(p), FullComing
  PROVE  FullComing'
<1> USE DEF TypeOK, ProducerState, FullComing, PendingFull, Advance, MarkFull
<1>1. CASE Change(p) \/ Reload(p) \/ UpdateSchema(p)
  BY <1>1 DEF Change, Reload, UpdateSchema
<1>2. CASE SweepFires(p) \/ MarkFullReconcile(p) \/ SyncDiffFails(p)
  BY <1>2 DEF SweepFires, MarkFullReconcile, SyncDiffFails
<1>3. CASE PullDiffFails(p)
  BY <1>3 DEF PullDiffFails, IdleProducer
<1>4. CASE MarkSchemaChanges(p)
  BY <1>4 DEF MarkSchemaChanges
<1>5. CASE NotifySchemaChanges(p) \/ Notify(p)
  BY <1>5 DEF NotifySchemaChanges, Notify, NotifyOne
<1>6. CASE MarkChangedPaths(p)
  BY <1>6 DEF MarkChangedPaths, MarkPaths, IdleProducer
<1>7. CASE UpdateRebuilds(p) \/ UpdateReturns(p)
  BY <1>7 DEF UpdateRebuilds, UpdateReturns, IdleProducer
<1>. QED
  BY <1>1, <1>2, <1>3, <1>4, <1>5, <1>6, <1>7 DEF ProducerAction, ProducerStep

\* Nor does a unit in progress take it away: only a drain does.
LEMMA WorkerFullStays ==
  ASSUME TypeOK, ~Drain, FullComing, WorkerAction
  PROVE  FullComing'
<1> USE DEF TypeOK, WorkerState, FullComing, PendingFull, UnitDocs
<1>1. CASE Wake \/ LoadConfig \/ RebuildSchema \/ ApplyRebuild \/ RebuildPanics
  BY <1>1 DEF Wake, LoadConfig, RebuildSchema, ApplyRebuild, RebuildPanics
<1>2. CASE RecoverDropped
  BY <1>2 DEF RecoverDropped, MarkFull
<1>3. CASE Scan \/ StartIndex \/ \E d \in Docs : IndexDoc(d)
  BY <1>3 DEF Scan, StartIndex, IndexDoc
<1>4. CASE FinishRun \/ DropRefused \/ Retry \/ RunFails
  BY <1>4 DEF FinishRun, DropRefused, Retry, RunFails
<1>5. CASE GiveUp \/ WorkerPanics
  BY <1>5 DEF GiveUp, WorkerPanics
<1>. QED
  BY <1>1, <1>2, <1>3, <1>4, <1>5 DEF WorkerAction, WorkerStep

LEMMA ProducerUnitInv ==
  ASSUME UnitInv, NEW p \in Producers, ProducerAction(p)
  PROVE  UnitInv'
  BY DEF UnitInv, UnitDocs, ProducerAction, ProducerStep, Change, SweepFires, Reload,
         UpdateSchema, PullDiffFails, SyncDiffFails, MarkSchemaChanges,
         NotifySchemaChanges, MarkChangedPaths, MarkFullReconcile, Notify,
         UpdateRebuilds, UpdateReturns

\* A producer that moves what a snapshot was taken of owes a full reconcile.
LEMMA ProducerSnapshotInv ==
  ASSUME TypeOK, SnapshotInv, NEW p \in Producers, ProducerAction(p)
  PROVE  SnapshotInv'
<1>1. UNCHANGED worker
  BY DEF ProducerAction, ProducerStep, Change, SweepFires, Reload, UpdateSchema,
         PullDiffFails, SyncDiffFails, MarkSchemaChanges, NotifySchemaChanges,
         MarkChangedPaths, MarkFullReconcile, Notify, UpdateRebuilds, UpdateReturns
<1>2. FullComing => FullComing'
  BY ProducerFullStays
<1>3. config' = config \/ FullComing'
  <2>1. CASE Reload(p)
    BY <2>1 DEF Reload, FullComing, PendingFull, Advance, TypeOK, ProducerState
  <2>2. CASE ~Reload(p)
    BY <2>2 DEF ProducerAction, ProducerStep, Change, SweepFires, UpdateSchema,
         PullDiffFails, SyncDiffFails, MarkSchemaChanges, NotifySchemaChanges,
         MarkChangedPaths, MarkFullReconcile, Notify, UpdateRebuilds, UpdateReturns,
         source
  <2>. QED
    BY <2>1, <2>2
<1>4. tree' = tree \/ FullComing'
  <2>1. CASE Change(p)
    <3>1. PICK D \in SUBSET Docs, s \in BOOLEAN, valid \in BOOLEAN :
            /\ ChangeTree(D, s, valid)
            /\ producer' = [producer EXCEPT ![p] = [@ EXCEPT !.pc = "schemas",
                                                          !.docs = D, !.schema = s]]
      BY <2>1 DEF Change
    <3>2. CASE s
      BY <3>1, <3>2 DEF FullComing, PendingFull, TypeOK, ProducerState
    <3>3. CASE ~s
      BY <3>1, <3>3 DEF ChangeTree
    <3>. QED
      BY <3>2, <3>3
  <2>2. CASE UpdateSchema(p)
    BY <2>2 DEF UpdateSchema, FullComing, PendingFull, TypeOK, ProducerState
  <2>3. CASE ~Change(p) /\ ~UpdateSchema(p)
    BY <2>3 DEF ProducerAction, ProducerStep, SweepFires, Reload,
         PullDiffFails, SyncDiffFails, MarkSchemaChanges, NotifySchemaChanges,
         MarkChangedPaths, MarkFullReconcile, Notify, UpdateRebuilds, UpdateReturns,
         source
  <2>. QED
    BY <2>1, <2>2, <2>3
<1>. QED
  BY <1>1, <1>2, <1>3, <1>4 DEF SnapshotInv

\* What a producer changes it keeps on its books until it is in the queue.
LEMMA ProducerOwes ==
  ASSUME TypeOK, OwedInv, NEW p \in Producers, ProducerAction(p)
  PROVE  EveryStaleDocIsOwed'
<1> SUFFICES ASSUME up', tree'.ok, NEW d \in Docs, Stale(d)' PROVE Owed(d)'
  BY DEF EveryStaleDocIsOwed
<1> USE DEF TypeOK, ProducerState, Advance
<1>1. FullComing' => Owed(d)'
  BY DEF FullComing, Owed, Queued
<1>2. FullComing => Owed(d)'
  BY <1>1, ProducerFullStays
<1>3. up
  BY DEF ProducerAction, ProducerStep, Change, SweepFires, Reload, UpdateSchema,
         PullDiffFails, SyncDiffFails, MarkSchemaChanges, NotifySchemaChanges,
         MarkChangedPaths, MarkFullReconcile, Notify, UpdateRebuilds, UpdateReturns
<1>4. CASE Change(p)
  <2>1. PICK D \in SUBSET Docs, s \in BOOLEAN, valid \in BOOLEAN :
          /\ ChangeTree(D, s, valid)
          /\ producer' = [producer EXCEPT ![p] = [@ EXCEPT !.pc = "schemas",
                                                        !.docs = D, !.schema = s]]
    BY <1>4 DEF Change
  <2>2. CASE s
    BY <2>1, <2>2, <1>1 DEF FullComing, PendingFull
  <2>3. CASE d \in D
    BY <2>1, <2>3 DEF Owed, PendingDoc
  <2>4. CASE ~s /\ d \notin D
    <3>1. Stale(d) /\ tree.ok
      BY <1>4, <2>1, <2>4 DEF Change, ChangeTree, Stale, IndexedUnder
    <3>2. Owed(d)
      BY <1>3, <3>1 DEF OwedInv, EveryStaleDocIsOwed
    <3>3. PendingDoc(d) => PendingDoc(d)'
      BY <1>4, <2>1 DEF Change, PendingDoc
    <3>. QED
      BY <1>2, <1>4, <3>2, <3>3
         DEF Change, Owed, Queued, InUnit, UnitDocs, FullComing
  <2>. QED
    BY <2>2, <2>3, <2>4
<1>5. CASE Reload(p) \/ UpdateSchema(p)
  <2>1. producer'[p].pc = "full"
    <3>1. CASE Reload(p)
      BY <3>1 DEF Reload
    <3>2. CASE UpdateSchema(p)
      BY <3>2 DEF UpdateSchema
    <3>. QED
      BY <1>5, <3>1, <3>2
  <2>. QED
    BY <1>1, <2>1 DEF FullComing, PendingFull
<1>6. CASE SweepFires(p) \/ MarkFullReconcile(p) \/ SyncDiffFails(p)
  BY <1>1, <1>6 DEF SweepFires, MarkFullReconcile, SyncDiffFails, FullComing, MarkFull
<1>7. CASE \/ MarkSchemaChanges(p) \/ NotifySchemaChanges(p) \/ MarkChangedPaths(p)
            \/ Notify(p) \/ UpdateRebuilds(p) \/ UpdateReturns(p) \/ PullDiffFails(p)
  <2>1. UNCHANGED <<disk, tree, config, indexed, worker>>
    BY <1>7 DEF MarkSchemaChanges, NotifySchemaChanges, MarkChangedPaths, Notify,
         UpdateRebuilds, UpdateReturns, PullDiffFails, source
  <2>2. Owed(d)
    BY <1>3, <2>1 DEF OwedInv, EveryStaleDocIsOwed, Stale, IndexedUnder
  <2>3. InUnit(d) => InUnit(d)'
    BY <2>1 DEF InUnit, UnitDocs
  <2>4. CASE MarkSchemaChanges(p)
    <3>1. CASE producer[p].schema
      BY <1>1, <2>4, <3>1 DEF MarkSchemaChanges, FullComing, MarkFull
    <3>2. CASE ~producer[p].schema
      <4>1. PendingDoc(d) => PendingDoc(d)'
        <5>1. producer' = [producer EXCEPT ![p].pc = "paths"]
          BY <2>4, <3>2 DEF MarkSchemaChanges
        <5>2. producer[p].pc = "schemas"
          BY <2>4 DEF MarkSchemaChanges
        <5>. QED
          BY <5>1, <5>2 DEF PendingDoc
      <4>. QED
        BY <1>2, <2>2, <2>3, <2>4, <3>2, <4>1
           DEF MarkSchemaChanges, Owed, Queued, FullComing
    <3>. QED
      BY <3>1, <3>2
  <2>5. CASE MarkChangedPaths(p)
    <3>1. PendingDoc(d) => PendingDoc(d)' \/ Queued(d)'
      BY <2>5 DEF MarkChangedPaths, MarkPaths, PendingDoc, Queued
    <3>2. Queued(d) => Queued(d)'
      <4>1. \E P : MarkPaths(P)
        BY <2>5 DEF MarkChangedPaths
      <4>. QED
        BY <4>1 DEF MarkPaths, Queued
    <3>. QED
      BY <1>2, <2>2, <2>3, <2>5, <3>1, <3>2 DEF MarkChangedPaths, Owed, FullComing
  <2>6. CASE PullDiffFails(p)
    <3>1. PendingDoc(d) => PendingDoc(d)' \/ d \in waived'
      BY <2>6 DEF PullDiffFails, PendingDoc
    <3>2. d \in waived => d \in waived'
      BY <2>6 DEF PullDiffFails
    <3>. QED
      BY <1>2, <2>2, <2>3, <2>6, <3>1, <3>2 DEF PullDiffFails, Owed, Queued, FullComing
  <2>7. CASE \/ NotifySchemaChanges(p) \/ Notify(p)
             \/ UpdateRebuilds(p) \/ UpdateReturns(p)
    <3>1. PendingDoc(d) => PendingDoc(d)'
      <4>1. CASE NotifySchemaChanges(p)
        BY <4>1 DEF NotifySchemaChanges, PendingDoc
      <4>2. CASE Notify(p)
        BY <4>2 DEF Notify, PendingDoc
      <4>3. CASE UpdateRebuilds(p) \/ UpdateReturns(p)
        BY <4>3 DEF UpdateRebuilds, UpdateReturns, PendingDoc
      <4>. QED
        BY <2>7, <4>1, <4>2, <4>3
    <3>2. UNCHANGED <<queue, waived>>
      BY <2>7 DEF NotifySchemaChanges, Notify, UpdateRebuilds, UpdateReturns
    <3>. QED
      BY <1>2, <2>2, <2>3, <3>1, <3>2 DEF Owed, Queued, FullComing
  <2>. QED
    BY <1>7, <2>4, <2>5, <2>6, <2>7
<1>. QED
  BY <1>4, <1>5, <1>6, <1>7 DEF ProducerAction, ProducerStep

-----------------------------------------------------------------------------
(* The worker's half of the same invariant.                                  *)

LEMMA DrainOutcome ==
  ASSUME Drain
  PROVE  worker.pc = "drain" /\ worker'.pc \in {"asleep", "load"} /\ UNCHANGED up
<1>1. CASE queue.paths = {} /\ ~queue.full
  BY <1>1 DEF Drain, IdleWorker
<1>2. CASE ~(queue.paths = {} /\ ~queue.full)
  <2>1. worker' = [IdleWorker EXCEPT
                     !.pc = "load", !.full = queue.full,
                     !.paths = IF queue.full THEN {} ELSE queue.paths]
    BY <1>2 DEF Drain
  <2>. QED
    BY <2>1 DEF Drain, IdleWorker
<1>. QED
  BY <1>1, <1>2

LEMMA WorkerUnitInv ==
  ASSUME TypeOK, UnitInv, WorkerAction
  PROVE  UnitInv'
<1> USE DEF TypeOK, WorkerState, UnitInv, UnitDocs
<1>1. CASE Wake
  BY <1>1 DEF Wake
<1>2. CASE Drain
  BY <1>2, DrainOutcome
<1>3. CASE LoadConfig \/ RebuildSchema \/ RebuildPanics \/ RecoverDropped
  BY <1>3 DEF LoadConfig, RebuildSchema, RebuildPanics, RecoverDropped
<1>4. CASE ApplyRebuild
  BY <1>4 DEF ApplyRebuild, EndUnit, IdleWorker
<1>5. CASE Scan
  BY <1>5 DEF Scan
<1>6. CASE StartIndex
  BY <1>6 DEF StartIndex
<1>7. CASE \E d \in Docs : IndexDoc(d)
  BY <1>7 DEF IndexDoc
<1>8. CASE FinishRun \/ DropRefused \/ GiveUp \/ WorkerPanics
  BY <1>8 DEF FinishRun, DropRefused, GiveUp, WorkerPanics, EndUnit, IdleWorker, Running
<1>9. CASE RunFails \/ Retry
  BY <1>9 DEF RunFails, Retry, Running
<1>. QED
  BY <1>1, <1>2, <1>3, <1>4, <1>5, <1>6, <1>7, <1>8, <1>9 DEF WorkerAction, WorkerStep

\* Every snapshot is current when it is taken.
LEMMA WorkerSnapshotInv ==
  ASSUME TypeOK, SnapshotInv, WorkerAction
  PROVE  SnapshotInv'
<1> USE DEF TypeOK, WorkerState, SnapshotInv, Loaded
<1>1. ~Drain => UNCHANGED source /\ (FullComing => FullComing')
  BY WorkerFullStays
     DEF WorkerAction, WorkerStep, Wake, LoadConfig, RebuildSchema, ApplyRebuild,
         RecoverDropped, Scan, StartIndex, IndexDoc, FinishRun, DropRefused, Retry,
         RebuildPanics, RunFails, GiveUp, WorkerPanics
<1>2. CASE Drain
  BY <1>2, DrainOutcome
<1>3. CASE ~Drain /\ Wake
  BY <1>3 DEF Wake
<1>4. CASE ~Drain /\ LoadConfig
  BY <1>1, <1>4 DEF LoadConfig, UnitConfig, source
<1>5. CASE ~Drain /\ (RebuildSchema \/ RebuildPanics \/ RecoverDropped)
  BY <1>1, <1>5 DEF RebuildSchema, RebuildPanics, RecoverDropped, source
<1>6. CASE ~Drain /\ ApplyRebuild
  BY <1>1, <1>6 DEF ApplyRebuild, EndUnit, IdleWorker, source
<1>7. CASE ~Drain /\ (Scan \/ StartIndex)
  BY <1>1, <1>7 DEF Scan, StartIndex, source
<1>8. CASE ~Drain /\ \E d \in Docs : IndexDoc(d)
  BY <1>1, <1>8 DEF IndexDoc, source
<1>9. CASE ~Drain /\ (FinishRun \/ DropRefused \/ GiveUp \/ WorkerPanics)
  BY <1>9 DEF FinishRun, DropRefused, GiveUp, WorkerPanics, EndUnit, IdleWorker
<1>10. CASE ~Drain /\ (RunFails \/ Retry)
  BY <1>1, <1>10 DEF RunFails, Retry, Running, source
<1>. QED
  BY <1>2, <1>3, <1>4, <1>5, <1>6, <1>7, <1>8, <1>9, <1>10 DEF WorkerAction, WorkerStep

\* A unit hands a document back only when it is current, when a fault is charged
\* for it, or when a full reconcile is coming anyway.
LEMMA WorkerOwes ==
  ASSUME TypeOK, OwedInv, WorkerAction
  PROVE  EveryStaleDocIsOwed'
<1> SUFFICES ASSUME up', tree'.ok, NEW d \in Docs, Stale(d)' PROVE Owed(d)'
  BY DEF EveryStaleDocIsOwed
<1> USE DEF TypeOK, WorkerState
<1>1. UNCHANGED <<disk, tree, config, up, producer>>
  BY DEF WorkerAction, WorkerStep, Wake, Drain, LoadConfig, RebuildSchema, ApplyRebuild,
         RecoverDropped, Scan, StartIndex, IndexDoc, FinishRun, DropRefused, Retry,
         RebuildPanics, RunFails, GiveUp, WorkerPanics, source
<1>2. FullComing' => Owed(d)'
  BY DEF FullComing, Owed, Queued
<1>3. ~Drain /\ FullComing => Owed(d)'
  BY <1>2, WorkerFullStays
<1>4. UNCHANGED <<PendingDoc(d), PendingFull>>
  BY <1>1 DEF PendingDoc, PendingFull
<1>5. Stale(d) => Owed(d)
  BY <1>1 DEF OwedInv, EveryStaleDocIsOwed
<1>6. ~(\E e \in Docs : IndexDoc(e)) => Stale(d)
  BY <1>1 DEF WorkerAction, WorkerStep, Wake, Drain, LoadConfig, RebuildSchema,
         ApplyRebuild, RecoverDropped, Scan, StartIndex, FinishRun, DropRefused, Retry,
         RebuildPanics, RunFails, GiveUp, WorkerPanics, Stale, IndexedUnder
<1>7. CASE Wake
  BY <1>4, <1>5, <1>6, <1>7 DEF Wake, Owed, Queued, InUnit, IndexDoc
<1>8. CASE Drain
  <2>1. ~InUnit(d)
    BY <1>8 DEF Drain, InUnit
  <2>2. Queued(d) => InUnit(d)'
    BY <1>8 DEF Drain, Queued, InUnit, UnitDocs, IdleWorker
  <2>. QED
    BY <1>4, <1>5, <1>6, <1>8, <2>1, <2>2 DEF Drain, Owed, IndexDoc
<1>9. CASE LoadConfig \/ RebuildSchema \/ RebuildPanics \/ Retry
  <2>1. InUnit(d) => InUnit(d)'
    BY <1>9 DEF LoadConfig, RebuildSchema, RebuildPanics, Retry, InUnit, UnitDocs
  <2>2. UNCHANGED <<queue, waived>>
    BY <1>9 DEF LoadConfig, RebuildSchema, RebuildPanics, Retry
  <2>3. Stale(d)
    BY <1>6, <1>9 DEF LoadConfig, RebuildSchema, RebuildPanics, Retry, IndexDoc
  <2>. QED
    BY <1>4, <1>5, <2>1, <2>2, <2>3 DEF Owed, Queued
<1>10. CASE ApplyRebuild
  <2>1. Stale(d)
    BY <1>6, <1>10 DEF ApplyRebuild, IndexDoc
  <2>2. CASE worker.verdict
    <3>1. InUnit(d) => InUnit(d)'
      BY <1>10, <2>2 DEF ApplyRebuild, InUnit, UnitDocs
    <3>. QED
      BY <1>4, <1>5, <1>10, <2>1, <3>1 DEF ApplyRebuild, Owed, Queued
  <2>3. CASE ~worker.verdict
    <3>1. FullComing
      BY <1>1, <1>10, <2>3 DEF ApplyRebuild, OwedInv, SnapshotInv
    <3>. QED
      BY <1>3, <1>10, <3>1 DEF ApplyRebuild, Drain
  <2>. QED
    BY <2>2, <2>3
<1>11. CASE RecoverDropped
  <2>1. Stale(d)
    BY <1>6, <1>11 DEF RecoverDropped, IndexDoc
  <2>2. InUnit(d) => InUnit(d)'
    BY <1>11 DEF RecoverDropped, InUnit, UnitDocs
  <2>3. \/ queue'.full
        \/ UNCHANGED <<queue, waived>>
    BY <1>11 DEF RecoverDropped, MarkFull
  <2>. QED
    BY <1>4, <1>5, <2>1, <2>2, <2>3 DEF Owed, Queued
<1>12. CASE Scan
  <2>1. Stale(d) /\ UNCHANGED <<queue, waived>> /\ worker.full
    BY <1>6, <1>12 DEF Scan, IndexDoc
  <2>2. CASE Dirty(d)
    BY <1>1, <1>12, <2>2 DEF Scan, Owed, InUnit
  <2>3. CASE ~Dirty(d)
    <3>1. worker.config # config
      BY <2>1, <2>3 DEF Dirty, Stale
    <3>2. FullComing
      BY <1>12, <3>1 DEF Scan, OwedInv, SnapshotInv, Loaded
    <3>. QED
      BY <1>3, <1>12, <3>2 DEF Scan, Drain
  <2>. QED
    BY <2>2, <2>3
<1>13. CASE StartIndex
  <2>1. Stale(d) /\ UNCHANGED <<queue, waived>>
    BY <1>6, <1>13 DEF StartIndex, IndexDoc
  <2>2. InUnit(d) => InUnit(d)'
    BY <1>1, <1>13 DEF StartIndex, InUnit, UnitDocs, OwedInv, UnitInv
  <2>. QED
    BY <1>4, <1>5, <2>1, <2>2 DEF Owed, Queued
<1>14. CASE \E e \in Docs : IndexDoc(e)
  <2>1. PICK e \in Docs : IndexDoc(e)
    BY <1>14
  <2>2. CASE e = d
    <3>1. indexed'[d] = IndexedUnder(d, worker.config, worker.schema)
      BY <2>1, <2>2 DEF IndexDoc
    <3>2. worker.config # config \/ worker.schema # tree.ver
      BY <1>1, <3>1 DEF Stale, IndexedUnder
    <3>3. FullComing
      BY <2>1, <3>2 DEF IndexDoc, OwedInv, SnapshotInv, Loaded
    <3>. QED
      BY <1>3, <2>1, <3>3 DEF IndexDoc, Drain
  <2>3. CASE e # d
    <3>1. Stale(d)
      BY <1>1, <2>1, <2>3 DEF IndexDoc, Stale, IndexedUnder
    <3>2. InUnit(d) => InUnit(d)'
      BY <2>1, <2>3 DEF IndexDoc, InUnit
    <3>. QED
      BY <1>4, <1>5, <2>1, <3>1, <3>2 DEF IndexDoc, Owed, Queued
  <2>. QED
    BY <2>2, <2>3
<1>15. CASE FinishRun \/ DropRefused
  <2>1. ~InUnit(d)
    BY <1>15 DEF FinishRun, DropRefused, InUnit
  <2>2. Stale(d) /\ UNCHANGED <<queue, waived>>
    BY <1>6, <1>15 DEF FinishRun, DropRefused, IndexDoc
  <2>. QED
    BY <1>4, <1>5, <2>1, <2>2 DEF Owed, Queued
<1>16. CASE RunFails \/ GiveUp \/ WorkerPanics
  <2>1. Stale(d) /\ UNCHANGED queue
    BY <1>1, <1>16 DEF RunFails, GiveUp, WorkerPanics, Stale, IndexedUnder
  <2>2. InUnit(d) => d \in UnitDocs
    BY DEF InUnit, OwedInv, UnitInv
  <2>3. CASE RunFails
    <3>1. InUnit(d) => InUnit(d)'
      BY <2>2, <2>3 DEF RunFails, InUnit, UnitDocs
    <3>. QED
      BY <1>4, <1>5, <2>1, <2>3, <3>1 DEF RunFails, Owed, Queued
  <2>4. CASE GiveUp \/ WorkerPanics
    <3>1. waived' = waived \cup UnitDocs
      BY <2>4 DEF GiveUp, WorkerPanics
    <3>. QED
      BY <1>4, <1>5, <2>1, <2>2, <3>1 DEF Owed, Queued
  <2>. QED
    BY <1>16, <2>3, <2>4
<1>. QED
  BY <1>7, <1>8, <1>9, <1>10, <1>11, <1>12, <1>13, <1>14, <1>15, <1>16
     DEF WorkerAction, WorkerStep

\* A crash forgets every debt, and the restart takes them all on again.
LEMMA LifeCycleOwes ==
  ASSUME TypeOK, OwedInv, Crash \/ ChangeOffline \/ Startup
  PROVE  OwedInv'
<1>1. CASE Crash
  BY <1>1 DEF Crash, IdleWorker, OwedInv, UnitInv, SnapshotInv, Loaded,
       EveryStaleDocIsOwed
<1>2. CASE ChangeOffline
  BY <1>2 DEF ChangeOffline, OwedInv, UnitInv, SnapshotInv, Loaded,
       EveryStaleDocIsOwed
<1>3. CASE Startup
  BY <1>3 DEF Startup, OwedInv, UnitInv, SnapshotInv, Loaded, EveryStaleDocIsOwed,
       Owed, Queued, UnitDocs
<1>. QED
  BY <1>1, <1>2, <1>3

\* While every schema file is valid, every document the index has fallen behind
\* on is on somebody's books: drain's coalescing, dropped units, reloads between
\* two units, failed runs and restarts never let one slip, but for the documents
\* a fault explicitly leaves to the next full reconcile.
THEOREM NoStaleDocIsForgotten == Spec => []EveryStaleDocIsOwed
<1>1. TypeOK /\ OwedInv /\ [Next]_vars => OwedInv'
  <2> SUFFICES ASSUME TypeOK, OwedInv, [Next]_vars PROVE OwedInv'
    OBVIOUS
  <2>1. CASE \E p \in Producers : ProducerAction(p)
    BY <2>1, ProducerUnitInv, ProducerSnapshotInv, ProducerOwes DEF OwedInv
  <2>2. CASE WorkerAction
    BY <2>2, WorkerUnitInv, WorkerSnapshotInv, WorkerOwes DEF OwedInv
  <2>3. CASE Crash \/ ChangeOffline \/ Startup
    BY <2>3, LifeCycleOwes
  <2>4. CASE UNCHANGED vars
    BY <2>4 DEF vars, source, OwedInv, UnitInv, SnapshotInv, EveryStaleDocIsOwed,
         Stale, IndexedUnder, Owed, Queued, InUnit, PendingDoc, PendingFull,
         FullComing, UnitDocs
  <2>. QED
    BY <2>1, <2>2, <2>3, <2>4 DEF Next, ProducerAction, WorkerAction
<1>2. OwedInv => EveryStaleDocIsOwed
  BY DEF OwedInv
<1>. QED
  BY InitOwed, TypeCorrect, <1>1, <1>2, PTL DEF Spec

=============================================================================
