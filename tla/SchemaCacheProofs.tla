-------------------------- MODULE SchemaCacheProofs --------------------------
(* What SchemaCache promises, proved for any number of schema files, editors *)
(* and pullers and for every bound.                                          *)
EXTENDS SchemaCache, TLAPS

-----------------------------------------------------------------------------
(* Type correctness.                                                         *)

LEMMA ActorKinds ==
  /\ Editors \subseteq Builders /\ Worker \in Builders
  /\ Builders \subseteq Actors /\ Pullers \subseteq Actors /\ Editors \subseteq Actors
  /\ Worker \in Actors /\ Worker \notin Editors /\ Worker \notin Pullers
  /\ Editors \cap Pullers = {}
  BY ActorsAssumption DEF Builders, Actors

LEMMA NewBuildType == \A g \in Nat : NewBuild(g) \in BuildState
  BY DEF NewBuild, BuildState

LEMMA InitTypeOK == Init => TypeOK
<1> SUFFICES ASSUME Init PROVE TypeOK
  OBVIOUS
<1>1. schema \in [Files -> FileState]
  BY DEF Init, FileState
<1>2. cache \in CacheState
  BY DEF Init, CacheState
<1>3. build \in [Builders -> BuildState]
  BY NewBuildType DEF Init
<1>4. edit \in [Editors -> EditState]
  BY DEF Init, EditState
<1>5. pc \in [Actors -> ActorState]
  BY DEF Init, ActorState
<1>. QED
  BY <1>1, <1>2, <1>3, <1>4, <1>5 DEF Init, TypeOK

LEMMA AdvanceType ==
  ASSUME TypeOK, NEW a, NEW to \in ActorState, Advance(a, to)
  PROVE  pc' \in [Actors -> ActorState]
  BY DEF TypeOK, Advance

LEMMA ReplaceType ==
  ASSUME TypeOK, NEW f \in Files, NEW valid \in BOOLEAN, Replace(f, valid)
  PROVE  lastRev' \in Nat /\ schema' \in [Files -> FileState]
<1>1. lastRev' \in Nat
  BY DEF TypeOK, Replace
<1>2. [rev |-> lastRev', ok |-> valid] \in FileState
  BY <1>1 DEF FileState
<1>. QED
  BY <1>1, <1>2 DEF TypeOK, Replace

LEMMA BuildTypeOK ==
  ASSUME TypeOK, NEW b \in Builders, BuildStep(b)
  PROVE  TypeOK'
<1>1. CASE BeginBuild(b)
  <2>1. pc' \in [Actors -> ActorState]
    BY <1>1, AdvanceType DEF BeginBuild, ActorState
  <2>2. generation' \in Nat
    BY <1>1 DEF BeginBuild, TypeOK
  <2>3. generation + 1 \in Nat /\ NewBuild(generation + 1) \in BuildState
    BY NewBuildType DEF TypeOK
  <2>4. build' \in [Builders -> BuildState]
    BY <1>1, <2>3 DEF BeginBuild, TypeOK
  <2>. QED
    BY <1>1, <2>1, <2>2, <2>4 DEF BeginBuild, TypeOK
<1>2. CASE ReadSchemaFile(b)
  <2>1. PICK f \in build[b].left : build' = [build EXCEPT ![b] = HavingRead(b, f)]
    BY <1>2 DEF ReadSchemaFile
  <2>2. build[b] \in BuildState /\ f \in Files
    BY <2>1 DEF TypeOK, BuildState
  <2>3. schema[f].rev \in Nat
    BY <2>2 DEF TypeOK, FileState
  <2>4. HavingRead(b, f) \in BuildState
    BY <2>2, <2>3 DEF HavingRead, BuildState
  <2>5. build' \in [Builders -> BuildState]
    BY <2>1, <2>4 DEF TypeOK
  <2>. QED
    BY <1>2, <2>5 DEF ReadSchemaFile, TypeOK
<1>3. CASE InstallBuild(b)
  <2>1. pc' \in [Actors -> ActorState]
    BY <1>3, AdvanceType DEF InstallBuild, ActorState
  <2>2. [gen |-> build[b].gen, seen |-> build[b].seen] \in CacheState
    BY DEF TypeOK, BuildState, CacheState
  <2>3. cache' \in CacheState
    BY <1>3, <2>2 DEF InstallBuild, StoreShared, TypeOK
  <2>. QED
    BY <1>3, <2>1, <2>3 DEF InstallBuild, TypeOK
<1>4. CASE RefuseBuild(b)
  <2>1. pc' \in [Actors -> ActorState]
    BY <1>4, AdvanceType DEF RefuseBuild, ActorState
  <2>. QED
    BY <1>4, <2>1 DEF RefuseBuild, TypeOK
<1>. QED
  BY <1>1, <1>2, <1>3, <1>4 DEF BuildStep

LEMMA EditorTypeOK ==
  ASSUME TypeOK, NEW e \in Editors, EditorStep(e)
  PROVE  TypeOK'
<1>1. CASE WriteSchema(e)
  <2>1. pc' \in [Actors -> ActorState]
    BY <1>1, AdvanceType DEF WriteSchema, ActorState
  <2>2. PICK f \in Files :
          /\ Replace(f, TRUE)
          /\ edit' = [edit EXCEPT ![e] = [file |-> f, rev |-> lastRev',
                                         before |-> schema[f].rev]]
    BY <1>1 DEF WriteSchema
  <2>3. lastRev' \in Nat /\ schema' \in [Files -> FileState]
    BY <2>2, ReplaceType
  <2>4. [file |-> f, rev |-> lastRev', before |-> schema[f].rev] \in EditState
    BY <2>3 DEF TypeOK, FileState, EditState
  <2>5. edit' \in [Editors -> EditState]
    BY <2>2, <2>4 DEF TypeOK
  <2>. QED
    BY <1>1, <2>1, <2>3, <2>5 DEF WriteSchema, TypeOK
<1>2. CASE CommitLands(e)
  <2>1. pc' \in [Actors -> ActorState]
    BY <1>2, AdvanceType DEF CommitLands, ActorState
  <2>. QED
    BY <1>2, <2>1 DEF CommitLands, MarkFull, TypeOK
<1>3. CASE CommitFails(e)
  <2>1. pc' \in [Actors -> ActorState]
    BY <1>3, AdvanceType DEF CommitFails, ActorState
  <2>2. edit[e].file \in Files /\ edit[e].rev \in Nat /\ edit[e].before \in Nat
    BY DEF TypeOK, EditState
  <2>3. schema' \in [Files -> FileState]
    BY <1>3, <2>2 DEF CommitFails, TypeOK, FileState
  <2>4. faults' \in Nat
    BY <1>3, <2>2 DEF CommitFails, TypeOK
  <2>. QED
    BY <1>3, <2>1, <2>3, <2>4 DEF CommitFails, TypeOK
<1>4. CASE UpdateReturns(e)
  <2>1. pc' \in [Actors -> ActorState]
    BY <1>4, AdvanceType DEF UpdateReturns, ActorState
  <2>2. promised' \in [Files -> Nat]
    BY <1>4 DEF UpdateReturns, TypeOK, EditState
  <2>. QED
    BY <1>4, <2>1, <2>2 DEF UpdateReturns, TypeOK
<1>5. CASE UpdateRebuildPanics(e)
  <2>1. pc' \in [Actors -> ActorState]
    BY <1>5, AdvanceType DEF UpdateRebuildPanics, ActorState
  <2>. QED
    BY <1>5, <2>1 DEF UpdateRebuildPanics, TypeOK
<1>. QED
  BY <1>1, <1>2, <1>3, <1>4, <1>5 DEF EditorStep

LEMMA WorkerTypeOK ==
  ASSUME TypeOK, WorkerStep \/ SweepFires
  PROVE  TypeOK'
<1>1. pc' \in [Actors -> ActorState]
  BY AdvanceType
     DEF WorkerStep, SweepFires, TakeFull, WorkerSettles, WorkerRebuildPanics,
         IndexUnit, DropUnit, TypeOK, ActorState
<1>2. full' \in BOOLEAN /\ schemaError' \in BOOLEAN /\ excused' \in BOOLEAN
  BY DEF WorkerStep, SweepFires, TakeFull, WorkerSettles, WorkerRebuildPanics,
         IndexUnit, DropUnit, TypeOK, MarkFull, Settle
<1>3. faults' \in Nat
  BY DEF WorkerStep, SweepFires, TakeFull, WorkerSettles, WorkerRebuildPanics,
         IndexUnit, DropUnit, TypeOK
<1>4. UNCHANGED <<schema, lastRev, gitLock, generation, cache, build, edit,
                  promised>>
  BY DEF WorkerStep, SweepFires, TakeFull, WorkerSettles, WorkerRebuildPanics,
         IndexUnit, DropUnit
<1>. QED
  BY <1>1, <1>2, <1>3, <1>4 DEF TypeOK

LEMMA PullTypeOK ==
  ASSUME TypeOK, NEW p \in Pullers, PullFile(p) \/ PullMarks(p)
  PROVE  TypeOK'
<1>1. CASE PullFile(p)
  <2>1. pc' \in [Actors -> ActorState]
    BY <1>1, AdvanceType DEF PullFile, ActorState
  <2>2. lastRev' \in Nat /\ schema' \in [Files -> FileState]
    BY <1>1, ReplaceType DEF PullFile
  <2>. QED
    BY <1>1, <2>1, <2>2 DEF PullFile, TypeOK
<1>2. CASE PullMarks(p)
  <2>1. pc' \in [Actors -> ActorState]
    BY <1>2, AdvanceType DEF PullMarks, ActorState
  <2>. QED
    BY <1>2, <2>1 DEF PullMarks, MarkFull, TypeOK
<1>. QED
  BY <1>1, <1>2

\* Every variable keeps its type.
THEOREM TypeCorrect == Spec => []TypeOK
<1>1. TypeOK /\ [Next]_vars => TypeOK'
  <2> SUFFICES ASSUME TypeOK, [Next]_vars PROVE TypeOK'
    OBVIOUS
  <2>1. CASE Next
    BY <2>1, BuildTypeOK, EditorTypeOK, WorkerTypeOK, PullTypeOK DEF Next
  <2>2. CASE UNCHANGED vars
    BY <2>2 DEF vars, TypeOK
  <2>. QED
    BY <2>1, <2>2
<1>. QED
  BY InitTypeOK, <1>1, PTL DEF Spec

-----------------------------------------------------------------------------
(* The invariant.                                                            *)

Written(e) == pc[e] = "written"
Rebuilding(e) == pc[e] \in {"read", "settle"}
InFlight(b) == pc[b] = "read"

\* The git lock serialises pulls and schema writes.
LockInv ==
  /\ \A e \in Editors : Written(e) =>
       /\ gitLock
       /\ \A e2 \in Editors : Written(e2) => e2 = e
       /\ \A p \in Pullers : pc[p] # "pulled"
       /\ edit[e].rev = schema[edit[e].file].rev
  /\ \A p \in Pullers : pc[p] = "pulled" =>
       /\ gitLock
       /\ \A p2 \in Pullers : pc[p2] = "pulled" => p2 = p

\* Revision r of f, or a newer one, is on disk and stays there even if the write
\* in progress is rolled back.
Kept(f, r) ==
  /\ r <= schema[f].rev
  /\ \A e \in Editors : Written(e) /\ edit[e].file = f => r <= edit[e].before

KeptInv ==
  /\ \A f \in Files : schema[f].rev <= lastRev
  /\ \A e \in Editors : Written(e) => edit[e].before <= lastRev
  /\ \A f \in Files : Kept(f, promised[f])
  /\ \A e \in Editors : pc[e] \in {"begin", "read", "settle"} =>
       Kept(edit[e].file, edit[e].rev)

\* What a rebuild that started at or after e's own has read of e's file is no
\* older than what e wrote.
OrderInv ==
  /\ cache.gen <= generation
  /\ \A b \in Builders : build[b].gen <= generation
  /\ \A b \in Builders : pc[b] = "settle" => build[b].gen <= cache.gen
  /\ \A e \in Editors : Rebuilding(e) =>
       LET f == edit[e].file IN
         /\ build[e].gen <= cache.gen => edit[e].rev <= cache.seen[f]
         /\ \A b \in Builders :
              InFlight(b) /\ build[e].gen <= build[b].gen /\ f \notin build[b].left =>
                edit[e].rev <= build[b].seen[f]

PromiseInv ==
  \A f \in Files :
    /\ promised[f] <= cache.seen[f]
    /\ \A b \in Builders :
         InFlight(b) /\ cache.gen <= build[b].gen /\ f \notin build[b].left =>
           promised[f] <= build[b].seen[f]

ReadInv == LockInv /\ KeptInv /\ OrderInv /\ PromiseInv

-----------------------------------------------------------------------------
(* The steps fall in two kinds: those that replace files or move the git     *)
(* lock, and those of rebuilds, which leave both alone.                      *)

FileStep ==
  \/ \E p \in Pullers : PullFile(p) \/ PullMarks(p)
  \/ \E e \in Editors : WriteSchema(e) \/ CommitLands(e) \/ CommitFails(e)

RuleStep ==
  \/ \E b \in Builders : BuildStep(b)
  \/ \E e \in Editors : UpdateReturns(e) \/ UpdateRebuildPanics(e)
  \/ WorkerStep \/ SweepFires

LEMMA StepKinds == Next => FileStep \/ RuleStep
  BY DEF Next, EditorStep, FileStep, RuleStep

LEMMA FileStepFrame ==
  ASSUME TypeOK, FileStep
  PROVE  /\ UNCHANGED <<generation, cache, build, promised>>
         /\ \A a \in Actors : pc'[a] \in {"read", "settle"} => pc'[a] = pc[a]
         /\ \A e \in Editors : pc[e] # "idle" => edit'[e] = edit[e]
<1> USE ActorKinds DEF TypeOK, Advance
<1>1. CASE \E p \in Pullers : PullFile(p) \/ PullMarks(p)
  BY <1>1 DEF PullFile, PullMarks
<1>2. CASE \E e \in Editors : WriteSchema(e)
  BY <1>2 DEF WriteSchema
<1>3. CASE \E e \in Editors : CommitLands(e) \/ CommitFails(e)
  BY <1>3 DEF CommitLands, CommitFails
<1>. QED
  BY <1>1, <1>2, <1>3 DEF FileStep

LEMMA RuleStepFrame ==
  ASSUME TypeOK, RuleStep
  PROVE  /\ UNCHANGED <<schema, lastRev, gitLock, edit>>
         /\ \A p \in Pullers : pc'[p] = pc[p]
         /\ \A e \in Editors : pc'[e] = "written" => pc[e] = "written"
         /\ \A e \in Editors : pc'[e] \in {"begin", "read", "settle"} =>
              pc[e] \in {"begin", "read", "settle"}
<1> USE ActorKinds DEF TypeOK, Advance
<1>1. ASSUME NEW b \in Builders, BeginBuild(b)
      PROVE  /\ UNCHANGED <<schema, lastRev, gitLock, edit>>
             /\ pc[b] = "begin" /\ pc' = [pc EXCEPT ![b] = "read"]
  BY <1>1 DEF BeginBuild
<1>2. ASSUME NEW b \in Builders, ReadSchemaFile(b)
      PROVE  UNCHANGED <<schema, lastRev, gitLock, edit, pc>>
  BY <1>2 DEF ReadSchemaFile
<1>5. ASSUME NEW b \in Builders, InstallBuild(b) \/ RefuseBuild(b)
      PROVE  /\ UNCHANGED <<schema, lastRev, gitLock, edit>>
             /\ pc[b] = "read"
             /\ \E to \in {"settle", "idle"} : pc' = [pc EXCEPT ![b] = to]
  BY <1>5 DEF InstallBuild, RefuseBuild
<1>6. \A b \in Builders : b \notin Pullers
  BY DEF Builders
<1>3. CASE \E e \in Editors : UpdateReturns(e) \/ UpdateRebuildPanics(e)
  BY <1>3 DEF UpdateReturns, UpdateRebuildPanics
<1>4. CASE WorkerStep \/ SweepFires
  BY <1>4 DEF WorkerStep, TakeFull, WorkerSettles, WorkerRebuildPanics, IndexUnit,
       DropUnit, SweepFires
<1>7. CASE \E b \in Builders : BuildStep(b)
  <2>1. PICK b \in Builders : BuildStep(b)
    BY <1>7
  <2>2. CASE BeginBuild(b)
    BY <2>2, <1>1, <1>6
  <2>3. CASE ReadSchemaFile(b)
    BY <2>3, <1>2
  <2>4. CASE InstallBuild(b) \/ RefuseBuild(b)
    BY <2>4, <1>5, <1>6
  <2>. QED
    BY <2>1, <2>2, <2>3, <2>4 DEF BuildStep
<1>. QED
  BY <1>3, <1>4, <1>7 DEF RuleStep

-----------------------------------------------------------------------------
(* What update_schema wrote stays on disk.                                   *)

LEMMA LockStep ==
  ASSUME TypeOK, LockInv, FileStep \/ RuleStep
  PROVE  LockInv'
<1> USE ActorKinds DEF TypeOK, LockInv, Written, Advance
<1>1. CASE RuleStep
  BY <1>1, RuleStepFrame
<1>2. CASE \E p \in Pullers : PullFile(p)
  BY <1>2 DEF PullFile
<1>3. CASE \E p \in Pullers : PullMarks(p)
  BY <1>3 DEF PullMarks
<1>4. ASSUME NEW e \in Editors, WriteSchema(e)
      PROVE  LockInv'
  <2>1. PICK f \in Files :
          /\ Replace(f, TRUE)
          /\ edit' = [edit EXCEPT ![e] = [file |-> f, rev |-> lastRev',
                                         before |-> schema[f].rev]]
    BY <1>4 DEF WriteSchema
  <2>2. edit'[e].rev = schema'[edit'[e].file].rev
    BY <2>1 DEF Replace
  <2>. QED
    BY <1>4, <2>2 DEF WriteSchema
<1>5. CASE \E e \in Editors : CommitLands(e)
  BY <1>5 DEF CommitLands
<1>6. CASE \E e \in Editors : CommitFails(e)
  BY <1>6 DEF CommitFails
<1>. QED
  BY <1>1, <1>2, <1>3, <1>4, <1>5, <1>6 DEF FileStep

\* Revisions only grow, except for a roll-back, and that stops at what was there
\* when the write took the lock.
LEMMA KeptStays ==
  ASSUME TypeOK, LockInv, KeptInv, FileStep \/ RuleStep,
         NEW f \in Files, NEW r \in Nat, Kept(f, r)
  PROVE  Kept(f, r)'
<1> USE ActorKinds DEF TypeOK, FileState, EditState, LockInv, KeptInv, Kept, Written,
        Advance
<1>1. CASE RuleStep
  BY <1>1, RuleStepFrame
<1>2. ASSUME NEW p \in Pullers, PullFile(p)
      PROVE  Kept(f, r)'
  BY <1>2 DEF PullFile, Replace
<1>3. CASE \E p \in Pullers : PullMarks(p)
  BY <1>3 DEF PullMarks
<1>4. ASSUME NEW e \in Editors, WriteSchema(e)
      PROVE  Kept(f, r)'
  <2>1. PICK g \in Files :
          /\ Replace(g, TRUE)
          /\ edit' = [edit EXCEPT ![e] = [file |-> g, rev |-> lastRev',
                                         before |-> schema[g].rev]]
    BY <1>4 DEF WriteSchema
  <2>2. schema[f].rev <= schema'[f].rev
    BY <2>1 DEF Replace
  <2>3. pc' = [pc EXCEPT ![e] = "written"] /\ (\A e2 \in Editors : pc[e2] # "written")
    BY <1>4 DEF WriteSchema
  <2>4. \A e2 \in Editors : pc'[e2] = "written" => e2 = e
    BY <2>3
  <2>5. edit'[e].file = f => r <= edit'[e].before
    BY <2>1
  <2>. QED
    BY <2>1, <2>2, <2>4, <2>5 DEF Replace
<1>5. CASE \E e \in Editors : CommitLands(e)
  BY <1>5 DEF CommitLands
<1>6. ASSUME NEW e \in Editors, CommitFails(e)
      PROVE  Kept(f, r)'
  BY <1>6 DEF CommitFails
<1>. QED
  BY <1>1, <1>2, <1>3, <1>4, <1>5, <1>6 DEF FileStep

LEMMA KeptStep ==
  ASSUME TypeOK, LockInv, KeptInv, FileStep \/ RuleStep
  PROVE  KeptInv'
<1>1. \A f \in Files : schema'[f].rev <= lastRev'
  <2> USE DEF TypeOK, FileState, EditState, KeptInv, Written
  <2>1. CASE RuleStep
    BY <2>1, RuleStepFrame
  <2>2. CASE \E p \in Pullers : PullFile(p)
    BY <2>2 DEF PullFile, Replace
  <2>3. CASE \E p \in Pullers : PullMarks(p)
    BY <2>3 DEF PullMarks
  <2>4. CASE \E e \in Editors : WriteSchema(e)
    BY <2>4 DEF WriteSchema, Replace
  <2>5. CASE \E e \in Editors : CommitLands(e)
    BY <2>5 DEF CommitLands
  <2>6. CASE \E e \in Editors : CommitFails(e)
    BY <2>6 DEF CommitFails
  <2>. QED
    BY <2>1, <2>2, <2>3, <2>4, <2>5, <2>6 DEF FileStep
<1>2. \A e \in Editors : Written(e)' => edit'[e].before <= lastRev'
  <2> USE ActorKinds DEF TypeOK, FileState, EditState, KeptInv, Written, Advance
  <2>1. CASE RuleStep
    BY <2>1, RuleStepFrame
  <2>2. CASE \E p \in Pullers : PullFile(p)
    BY <2>2 DEF PullFile, Replace
  <2>3. CASE \E p \in Pullers : PullMarks(p)
    BY <2>3 DEF PullMarks
  <2>4. CASE \E e \in Editors : WriteSchema(e)
    BY <2>4 DEF WriteSchema, Replace
  <2>5. CASE \E e \in Editors : CommitLands(e)
    BY <2>5 DEF CommitLands
  <2>6. CASE \E e \in Editors : CommitFails(e)
    BY <2>6 DEF CommitFails
  <2>. QED
    BY <2>1, <2>2, <2>3, <2>4, <2>5, <2>6 DEF FileStep
<1>3. ASSUME NEW f \in Files
      PROVE  Kept(f, promised[f])'
  <2>1. Kept(f, promised[f]) /\ promised[f] \in Nat
    BY DEF TypeOK, KeptInv
  <2>2. CASE UNCHANGED promised
    BY <2>1, <2>2, KeptStays DEF Kept, Written
  <2>3. ASSUME NEW e \in Editors, UpdateReturns(e)
        PROVE  Kept(f, promised[f])'
    <3>1. promised'[f] = promised[f] \/ (promised'[f] = edit[e].rev /\ f = edit[e].file)
      BY <2>3 DEF UpdateReturns, TypeOK
    <3>2. Kept(edit[e].file, edit[e].rev)
      BY <2>3 DEF UpdateReturns, KeptInv
    <3>3. edit[e].rev \in Nat
      BY DEF TypeOK, EditState
    <3>. QED
      BY <2>1, <3>1, <3>2, <3>3, KeptStays DEF Kept, Written
  <2>4. UNCHANGED promised \/ \E e \in Editors : UpdateReturns(e)
    <3>1. CASE FileStep
      BY <3>1, FileStepFrame
    <3>2. CASE RuleStep
      BY <3>2
         DEF RuleStep, BuildStep, BeginBuild, ReadSchemaFile, InstallBuild, RefuseBuild,
             UpdateRebuildPanics, WorkerStep, TakeFull, WorkerSettles,
             WorkerRebuildPanics, IndexUnit, DropUnit, SweepFires
    <3>. QED
      BY <3>1, <3>2
  <2>. QED
    BY <2>2, <2>3, <2>4
<1>4. ASSUME NEW e \in Editors, pc'[e] \in {"begin", "read", "settle"}
      PROVE  Kept(edit[e].file, edit[e].rev)'
  <2>1. CASE pc[e] \in {"begin", "read", "settle"} /\ edit'[e] = edit[e]
    <3>1. Kept(edit[e].file, edit[e].rev)
      BY <2>1 DEF KeptInv
    <3>2. edit[e].file \in Files /\ edit[e].rev \in Nat
      BY DEF TypeOK, EditState
    <3>. QED
      BY <2>1, <3>1, <3>2, KeptStays DEF Kept, Written
  <2>2. CASE CommitLands(e)
    BY <2>2, ActorKinds
       DEF CommitLands, Kept, Written, LockInv, TypeOK, EditState, FileState, Advance
  <2>3. CASE RuleStep
    BY <1>4, <2>1, <2>3, RuleStepFrame
  <2>4. CASE FileStep /\ ~CommitLands(e)
    <3>1. pc'[e] = pc[e]
      BY <1>4, <2>4, ActorKinds
         DEF FileStep, PullFile, PullMarks, WriteSchema, CommitLands, CommitFails, TypeOK,
             Advance
    <3>. QED
      BY <1>4, <2>1, <2>4, <3>1, FileStepFrame
  <2>. QED
    BY <2>2, <2>3, <2>4
<1>. QED
  BY <1>1, <1>2, <1>3, <1>4 DEF KeptInv

-----------------------------------------------------------------------------
(* Rebuilds are ordered by generation.                                       *)

\* Every step but BeginBuild, ReadSchemaFile, InstallBuild and UpdateReturns.
LEMMA OtherStepFrame ==
  ASSUME TypeOK,
         \/ FileStep
         \/ \E b \in Builders : RefuseBuild(b)
         \/ \E e \in Editors : UpdateRebuildPanics(e)
         \/ WorkerStep \/ SweepFires
  PROVE  /\ UNCHANGED <<generation, cache, build, promised>>
         /\ \A a \in Actors : pc'[a] \in {"read", "settle"} => pc'[a] = pc[a]
         /\ \A e \in Editors : pc[e] # "idle" => edit'[e] = edit[e]
<1> USE ActorKinds DEF TypeOK, Advance
<1>1. CASE FileStep
  BY <1>1, FileStepFrame
<1>2. CASE \E b \in Builders : RefuseBuild(b)
  BY <1>2 DEF RefuseBuild
<1>3. CASE \E e \in Editors : UpdateRebuildPanics(e)
  BY <1>3 DEF UpdateRebuildPanics
<1>4. CASE WorkerStep \/ SweepFires
  BY <1>4 DEF WorkerStep, TakeFull, WorkerSettles, WorkerRebuildPanics, IndexUnit,
       DropUnit, SweepFires
<1>. QED
  BY <1>1, <1>2, <1>3, <1>4

LEMMA OrderStep ==
  ASSUME TypeOK, KeptInv, OrderInv, FileStep \/ RuleStep
  PROVE  OrderInv'
<1> USE ActorKinds
<1>1. ASSUME \/ FileStep
             \/ \E b \in Builders : RefuseBuild(b)
             \/ \E e \in Editors : UpdateRebuildPanics(e)
             \/ WorkerStep \/ SweepFires
      PROVE  OrderInv'
  BY <1>1, OtherStepFrame DEF OrderInv, Rebuilding, InFlight
<1>2. ASSUME NEW b \in Builders, BeginBuild(b)
      PROVE  OrderInv'
  <2> USE DEF TypeOK, OrderInv, Rebuilding, InFlight, BuildState, CacheState, EditState
  <2>1. /\ generation' = generation + 1
        /\ build' = [build EXCEPT ![b] = NewBuild(generation + 1)]
        /\ pc' = [pc EXCEPT ![b] = "read"]
        /\ UNCHANGED <<cache, edit>>
    BY <1>2 DEF BeginBuild, Advance
  <2>2. build'[b].gen = generation + 1 /\ build'[b].left = Files
    BY <2>1 DEF NewBuild
  <2>3. \A c \in Builders : c # b => build'[c] = build[c] /\ pc'[c] = pc[c]
    BY <2>1
  <2>4. pc'[b] = "read"
    BY <2>1
  <2>5. cache'.gen <= generation' /\ \A c \in Builders : build'[c].gen <= generation'
    BY <2>1, <2>2, <2>3
  <2>6. \A c \in Builders : pc'[c] = "settle" => build'[c].gen <= cache'.gen
    BY <2>1, <2>3, <2>4
  <2>7. ASSUME NEW e \in Editors, Rebuilding(e)'
        PROVE  /\ build'[e].gen <= cache'.gen =>
                     edit'[e].rev <= cache'.seen[edit'[e].file]
               /\ \A c \in Builders :
                    /\ InFlight(c)'
                    /\ build'[e].gen <= build'[c].gen
                    /\ edit'[e].file \notin build'[c].left
                    => edit'[e].rev <= build'[c].seen[edit'[e].file]
    <3>1. CASE e = b
      BY <2>1, <2>2, <2>3, <3>1
    <3>2. CASE e # b
      BY <2>1, <2>2, <2>3, <2>7, <3>2
    <3>. QED
      BY <3>1, <3>2
  <2>. QED
    BY <2>5, <2>6, <2>7
<1>3. ASSUME NEW b \in Builders, ReadSchemaFile(b)
      PROVE  OrderInv'
  <2> USE DEF TypeOK, OrderInv, Rebuilding, InFlight, BuildState, EditState
  <2>1. PICK g \in build[b].left : build' = [build EXCEPT ![b] = HavingRead(b, g)]
    BY <1>3 DEF ReadSchemaFile
  <2>2. UNCHANGED <<pc, cache, generation, edit, schema>>
    BY <1>3 DEF ReadSchemaFile
  <2>3. /\ build'[b].gen = build[b].gen
        /\ build'[b].left = build[b].left \ {g}
        /\ build'[b].seen = [build[b].seen EXCEPT ![g] = schema[g].rev]
    BY <2>1 DEF HavingRead
  <2>4. \A c \in Builders : c # b => build'[c] = build[c]
    BY <2>1
  <2>5. \A e \in Editors : Rebuilding(e) => edit[e].rev <= schema[edit[e].file].rev
    BY DEF KeptInv, Kept
  <2>6. pc[b] = "read"
    BY <1>3 DEF ReadSchemaFile
  <2>7. \A c \in Builders : build'[c].gen = build[c].gen
    BY <2>3, <2>4
  <2>8. ASSUME NEW e \in Editors, Rebuilding(e), build[e].gen <= build[b].gen,
               edit[e].file \notin build'[b].left
        PROVE  edit[e].rev <= build'[b].seen[edit[e].file]
    <3>1. CASE edit[e].file = g
      BY <2>3, <2>5, <2>8, <3>1
    <3>2. CASE edit[e].file # g
      BY <2>3, <2>6, <2>8, <3>2
    <3>. QED
      BY <3>1, <3>2
  <2>. QED
    BY <2>2, <2>4, <2>7, <2>8
<1>4. ASSUME NEW b \in Builders, InstallBuild(b)
      PROVE  OrderInv'
  <2> USE DEF TypeOK, OrderInv, Rebuilding, InFlight, BuildState, CacheState, EditState
  <2>1. /\ pc[b] = "read" /\ build[b].left = {}
        /\ pc' = [pc EXCEPT ![b] = "settle"]
        /\ UNCHANGED <<build, generation, edit>>
    BY <1>4 DEF InstallBuild, Advance
  <2>2. CASE build[b].gen < cache.gen /\ UNCHANGED cache
    BY <2>1, <2>2
  <2>3. CASE cache.gen <= build[b].gen
             /\ cache' = [gen |-> build[b].gen, seen |-> build[b].seen]
    <3>1. \A e \in Editors : Rebuilding(e)' => Rebuilding(e)
      BY <2>1
    <3>2. \A c \in Builders : pc'[c] = "settle" => build'[c].gen <= cache'.gen
      BY <2>1, <2>3
    <3>. QED
      BY <2>1, <2>3, <3>1, <3>2
  <2>. QED
    BY <1>4, <2>2, <2>3 DEF InstallBuild, StoreShared
<1>5. ASSUME NEW e \in Editors, UpdateReturns(e)
      PROVE  OrderInv'
  BY <1>5 DEF UpdateReturns, Advance, TypeOK, OrderInv, Rebuilding, InFlight
<1>. QED
  BY <1>1, <1>2, <1>3, <1>4, <1>5 DEF RuleStep, BuildStep

LEMMA PromiseStep ==
  ASSUME TypeOK, KeptInv, OrderInv, PromiseInv, FileStep \/ RuleStep
  PROVE  PromiseInv'
<1> USE ActorKinds
<1>1. ASSUME \/ FileStep
             \/ \E b \in Builders : RefuseBuild(b)
             \/ \E e \in Editors : UpdateRebuildPanics(e)
             \/ WorkerStep \/ SweepFires
      PROVE  PromiseInv'
  BY <1>1, OtherStepFrame DEF PromiseInv, InFlight
<1>2. ASSUME NEW b \in Builders, BeginBuild(b)
      PROVE  PromiseInv'
  <2>1. build' = [build EXCEPT ![b] = NewBuild(generation + 1)]
        /\ pc' = [pc EXCEPT ![b] = "read"] /\ UNCHANGED <<cache, promised>>
    BY <1>2 DEF BeginBuild, Advance
  <2>. QED
    BY <2>1 DEF TypeOK, PromiseInv, InFlight, NewBuild
<1>3. ASSUME NEW b \in Builders, ReadSchemaFile(b)
      PROVE  PromiseInv'
  <2>1. PICK g \in build[b].left : build' = [build EXCEPT ![b] = HavingRead(b, g)]
    BY <1>3 DEF ReadSchemaFile
  <2>2. UNCHANGED <<pc, cache, promised>> /\ pc[b] = "read"
    BY <1>3 DEF ReadSchemaFile
  <2>3. /\ build'[b].gen = build[b].gen
        /\ build'[b].left = build[b].left \ {g}
        /\ build'[b].seen = [build[b].seen EXCEPT ![g] = schema[g].rev]
    BY <2>1 DEF HavingRead, TypeOK
  <2>4. \A f \in Files : promised[f] <= schema[f].rev
    BY DEF KeptInv, Kept
  <2>. QED
    BY <2>1, <2>2, <2>3, <2>4 DEF TypeOK, BuildState, PromiseInv, InFlight
<1>4. ASSUME NEW b \in Builders, InstallBuild(b)
      PROVE  PromiseInv'
  <2>1. /\ pc[b] = "read" /\ build[b].left = {}
        /\ pc' = [pc EXCEPT ![b] = "settle"]
        /\ UNCHANGED <<build, promised>>
    BY <1>4 DEF InstallBuild, Advance
  <2>2. CASE UNCHANGED cache
    BY <2>1, <2>2 DEF TypeOK, PromiseInv, InFlight
  <2>3. CASE cache.gen <= build[b].gen
             /\ cache' = [gen |-> build[b].gen, seen |-> build[b].seen]
    BY <2>1, <2>3 DEF TypeOK, BuildState, CacheState, PromiseInv, InFlight
  <2>. QED
    BY <1>4, <2>2, <2>3 DEF InstallBuild, StoreShared, TypeOK, BuildState, CacheState
<1>5. ASSUME NEW e \in Editors, UpdateReturns(e)
      PROVE  PromiseInv'
  <2> USE DEF TypeOK, BuildState, CacheState, EditState, PromiseInv, OrderInv, InFlight,
          Rebuilding
  <2>1. /\ pc[e] = "settle" /\ pc' = [pc EXCEPT ![e] = "idle"]
        /\ UNCHANGED <<build, cache>>
    BY <1>5 DEF UpdateReturns, Advance
  <2>2. \A f \in Files :
          promised'[f] = promised[f] \/ (promised'[f] = edit[e].rev /\ f = edit[e].file)
    BY <1>5 DEF UpdateReturns
  <2>3. build[e].gen <= cache.gen /\ edit[e].rev <= cache.seen[edit[e].file]
    BY <2>1
  <2>4. ASSUME NEW f \in Files
        PROVE  promised'[f] <= cache.seen[f]
    BY <2>2, <2>3
  <2>5. ASSUME NEW f \in Files, NEW c \in Builders, pc'[c] = "read",
               cache.gen <= build[c].gen, f \notin build[c].left
        PROVE  promised'[f] <= build[c].seen[f]
    <3>1. pc[c] = "read" /\ build[e].gen <= build[c].gen
      BY <2>1, <2>3, <2>5
    <3>2. CASE promised'[f] = promised[f]
      BY <2>5, <3>1, <3>2
    <3>3. CASE promised'[f] = edit[e].rev /\ f = edit[e].file
      BY <2>1, <2>5, <3>1, <3>3
    <3>. QED
      BY <2>2, <3>2, <3>3
  <2>. QED
    BY <2>1, <2>4, <2>5
<1>. QED
  BY <1>1, <1>2, <1>3, <1>4, <1>5 DEF RuleStep, BuildStep

LEMMA InitReadInv == Init => ReadInv
<1> SUFFICES ASSUME Init PROVE ReadInv
  OBVIOUS
<1>1. LockInv
  BY ActorKinds DEF Init, LockInv, Written
<1>2. KeptInv
  BY ActorKinds DEF Init, KeptInv, Kept, Written
<1>3. OrderInv
  BY ActorKinds DEF Init, OrderInv, NewBuild, Rebuilding, InFlight
<1>4. PromiseInv
  <2>1. \A f \in Files : promised[f] = 0 /\ cache.seen[f] = 0
    BY DEF Init
  <2>2. \A b \in Builders : ~InFlight(b)
    <3>1. \A b \in Builders : b \in Actors
      BY DEF Actors
    <3>. QED
      BY <3>1 DEF Init, InFlight
  <2>3. ASSUME NEW f \in Files
        PROVE  promised[f] <= cache.seen[f]
    <3>1. promised[f] = 0 /\ cache.seen[f] = 0
      BY <2>1
    <3>2. \A i, j \in Nat : i = 0 /\ j = 0 => i <= j
      OBVIOUS
    <3>. QED
      BY <3>1, <3>2
  <2>. QED
    BY <2>2, <2>3, Zenon DEF PromiseInv
<1>. QED
  BY <1>1, <1>2, <1>3, <1>4 DEF ReadInv

LEMMA Stutter == ReadInv /\ UNCHANGED vars => ReadInv'
<1> SUFFICES ASSUME ReadInv, UNCHANGED vars PROVE ReadInv'
  OBVIOUS
<1>1. LockInv'
  BY DEF vars, ReadInv, LockInv, Written
<1>2. KeptInv'
  BY DEF vars, ReadInv, KeptInv, Kept, Written
<1>3. OrderInv'
  BY DEF vars, ReadInv, OrderInv, Rebuilding, InFlight
<1>4. PromiseInv'
  BY DEF vars, ReadInv, PromiseInv, InFlight
<1>. QED
  BY <1>1, <1>2, <1>3, <1>4 DEF ReadInv

LEMMA ReadInvHolds == Spec => []ReadInv
<1>1. TypeOK /\ ReadInv /\ [Next]_vars => ReadInv'
  BY StepKinds, LockStep, KeptStep, OrderStep, PromiseStep, Stutter DEF ReadInv
<1>. QED
  BY InitReadInv, TypeCorrect, <1>1, PTL DEF Spec

\* Once update_schema has said its rule is in effect, every later write is validated
\* against that revision or a newer one, in whatever order overlapping rebuilds
\* finish: store_shared's generations are enough.
THEOREM ReadYourWrites == Spec => []SchemaReadYourWrites
<1>1. TypeOK /\ ReadInv => SchemaReadYourWrites
  BY DEF TypeOK, CacheState, ReadInv, PromiseInv, SchemaReadYourWrites
<1>. QED
  BY TypeCorrect, ReadInvHolds, <1>1, PTL
-----------------------------------------------------------------------------
(* A stale cache is owed a rebuild.                                          *)

\* No rebuild is owed beyond what the worker already has in hand.
Quiet == ~MarkPending /\ ~full /\ ~excused

\* b has read what is on disk, as far as it got.
UpToDate(b) ==
  \A f \in Files : f \notin build[b].left => build[b].seen[f] = schema[f].rev

\* In quiet times whatever started no earlier than the worker's last build has read
\* what is on disk, and the cache has had that build unless a file is invalid.
NewerIsCurrent ==
  /\ build[Worker].gen <= cache.gen => \A f \in Files : cache.seen[f] = schema[f].rev
  /\ \A b \in Builders : InFlight(b) /\ build[Worker].gen <= build[b].gen => UpToDate(b)

CacheHasIt ==
  /\ InFlight(Worker) /\ build[Worker].bad => ~TreeValid
  /\ ~InFlight(Worker) /\ TreeValid => build[Worker].gen <= cache.gen

CurrentInv == Quiet /\ pc[Worker] # "begin" => NewerIsCurrent /\ CacheHasIt

\* Steps after which a rebuild is pending, queued or excused.
LEMMA OwingStep ==
  ASSUME TypeOK, FileStep \/ SweepFires \/ WorkerRebuildPanics
  PROVE  ~Quiet'
<1> USE ActorKinds DEF TypeOK, Advance, MarkFull, Quiet, MarkPending
<1>1. CASE \E p \in Pullers : PullFile(p)
  BY <1>1 DEF PullFile
<1>2. CASE \E p \in Pullers : PullMarks(p)
  BY <1>2 DEF PullMarks
<1>3. CASE \E e \in Editors : WriteSchema(e)
  BY <1>3 DEF WriteSchema
<1>4. CASE \E e \in Editors : CommitLands(e)
  BY <1>4 DEF CommitLands
<1>5. CASE \E e \in Editors : CommitFails(e)
  BY <1>5 DEF CommitFails
<1>6. CASE SweepFires \/ WorkerRebuildPanics
  BY <1>6 DEF SweepFires, WorkerRebuildPanics
<1>. QED
  BY <1>1, <1>2, <1>3, <1>4, <1>5, <1>6 DEF FileStep

\* The other steps neither replace a file nor settle what is owed.
LEMMA QuietBefore ==
  ASSUME TypeOK, RuleStep, ~TakeFull, Quiet'
  PROVE  Quiet /\ UNCHANGED schema
<1>1. UNCHANGED schema /\ \A p \in Pullers : pc'[p] = pc[p]
  BY RuleStepFrame
<1>2. ~SweepFires /\ ~WorkerRebuildPanics
  BY OwingStep
<1>3. \A e \in Editors : pc[e] = "written" => pc'[e] = "written"
  <2> USE ActorKinds DEF TypeOK, Advance
  <2>1. CASE \E b \in Builders : BuildStep(b)
    BY <2>1 DEF BuildStep, BeginBuild, ReadSchemaFile, InstallBuild, RefuseBuild
  <2>2. CASE \E e \in Editors : UpdateReturns(e) \/ UpdateRebuildPanics(e)
    BY <2>2 DEF UpdateReturns, UpdateRebuildPanics
  <2>3. CASE WorkerStep
    BY <2>3 DEF WorkerStep, TakeFull, WorkerSettles, WorkerRebuildPanics, IndexUnit,
         DropUnit
  <2>. QED
    BY <1>2, <2>1, <2>2, <2>3 DEF RuleStep
<1>4. UNCHANGED <<full, excused>>
  BY <1>2 DEF RuleStep, BuildStep, BeginBuild, ReadSchemaFile, InstallBuild, RefuseBuild,
       UpdateReturns, UpdateRebuildPanics, WorkerStep, WorkerSettles, Settle, IndexUnit,
       DropUnit
<1>. QED
  BY <1>1, <1>3, <1>4 DEF Quiet, MarkPending

LEMMA CurrentStep ==
  ASSUME TypeOK, OrderInv, CurrentInv, FileStep \/ RuleStep
  PROVE  CurrentInv'
<1> SUFFICES ASSUME Quiet', pc'[Worker] # "begin"
             PROVE  CurrentInv'
  BY DEF CurrentInv
<1>1. RuleStep /\ ~TakeFull
  BY OwingStep, ActorKinds DEF TakeFull, Advance, TypeOK
<1>2. Quiet /\ UNCHANGED schema /\ (TreeValid' <=> TreeValid)
  BY <1>1, QuietBefore DEF TreeValid
<1> USE ActorKinds
<1>3. ASSUME NEW b \in Builders, BeginBuild(b)
      PROVE  CurrentInv'
  <2>1. /\ build' = [build EXCEPT ![b] = NewBuild(generation + 1)]
        /\ pc' = [pc EXCEPT ![b] = "read"]
        /\ UNCHANGED cache
    BY <1>3 DEF BeginBuild, Advance
  <2>2. /\ build'[b].gen = generation + 1 /\ UpToDate(b)' /\ ~build'[b].bad
        /\ InFlight(b)'
    BY <2>1 DEF NewBuild, UpToDate, InFlight, TypeOK
  <2>3. \A c \in Builders : c # b =>
          build'[c] = build[c] /\ pc'[c] = pc[c] /\ (UpToDate(c)' <=> UpToDate(c))
    BY <1>2, <2>1 DEF TypeOK, UpToDate
  <2>4. cache.gen < generation + 1 /\ \A c \in Builders : build[c].gen < generation + 1
    BY DEF OrderInv, TypeOK, CacheState, BuildState
  <2>5. CASE b = Worker
    <3>1. ~(build'[Worker].gen <= cache'.gen)
      BY <2>1, <2>2, <2>4, <2>5 DEF TypeOK, CacheState
    <3>2. \A c \in Builders : c # b => ~(build'[Worker].gen <= build'[c].gen)
      BY <2>2, <2>3, <2>4, <2>5 DEF TypeOK, BuildState
    <3>. QED
      BY <2>2, <2>5, <3>1, <3>2 DEF CurrentInv, NewerIsCurrent, CacheHasIt
  <2>6. CASE b # Worker
    BY <1>2, <2>1, <2>2, <2>3, <2>6 DEF CurrentInv, NewerIsCurrent, CacheHasIt, InFlight
  <2>. QED
    BY <2>5, <2>6
<1>4. ASSUME NEW b \in Builders, ReadSchemaFile(b)
      PROVE  CurrentInv'
  <2>1. PICK g \in build[b].left : build' = [build EXCEPT ![b] = HavingRead(b, g)]
    BY <1>4 DEF ReadSchemaFile
  <2>2. UNCHANGED <<pc, cache>> /\ pc[b] = "read"
    BY <1>4 DEF ReadSchemaFile
  <2>3. /\ g \in Files
        /\ build'[b].gen = build[b].gen
        /\ build'[b].left = build[b].left \ {g}
        /\ build'[b].seen = [build[b].seen EXCEPT ![g] = schema[g].rev]
        /\ build'[b].bad => build[b].bad \/ ~schema[g].ok
    BY <2>1 DEF HavingRead, TypeOK, BuildState
  <2>4. \A c \in Builders : c # b => build'[c] = build[c]
    BY <2>1 DEF TypeOK
  <2>5. UpToDate(b) => UpToDate(b)'
    BY <1>2, <2>3 DEF UpToDate, TypeOK, BuildState
  <2>6. \A c \in Builders : /\ build'[c].gen = build[c].gen
                            /\ UpToDate(c) => UpToDate(c)'
    BY <1>2, <2>3, <2>4, <2>5 DEF UpToDate
  <2>7. build'[Worker].bad => build[Worker].bad \/ ~TreeValid
    BY <2>3, <2>4 DEF TreeValid
  <2>8. \A c \in Builders : InFlight(c)' <=> InFlight(c)
    BY <2>2 DEF InFlight
  <2>9. NewerIsCurrent /\ CacheHasIt
    BY <1>2, <2>2 DEF CurrentInv
  <2>10. NewerIsCurrent'
    <3>1. ASSUME NEW c \in Builders, InFlight(c)', build'[Worker].gen <= build'[c].gen
          PROVE  UpToDate(c)'
      BY <2>6, <2>8, <2>9, <3>1 DEF NewerIsCurrent
    <3>2. build'[Worker].gen = build[Worker].gen
      BY <2>6
    <3>. QED
      BY <1>2, <2>2, <2>9, <3>1, <3>2 DEF NewerIsCurrent
  <2>11. CacheHasIt'
    <3>1. build'[Worker].gen = build[Worker].gen /\ (InFlight(Worker)' <=> InFlight(Worker))
      BY <2>6, <2>8
    <3>. QED
      BY <1>2, <2>2, <2>7, <2>9, <3>1 DEF CacheHasIt
  <2>. QED
    BY <2>10, <2>11 DEF CurrentInv
<1>5. ASSUME NEW b \in Builders, InstallBuild(b)
      PROVE  CurrentInv'
  <2>1. /\ InFlight(b) /\ build[b].left = {}
        /\ pc' = [pc EXCEPT ![b] = "settle"]
        /\ UNCHANGED build
    BY <1>5 DEF InstallBuild, Advance, InFlight
  <2>2. pc[Worker] # "begin"
    BY <2>1 DEF InFlight, TypeOK
  <2>3. \A c \in Builders : InFlight(c)' => InFlight(c) /\ c # b
    BY <2>1 DEF InFlight, TypeOK
  <2>4. \A c \in Builders : UpToDate(c)' <=> UpToDate(c)
    BY <1>2, <2>1 DEF UpToDate
  <2>5. /\ build[b].gen <= cache'.gen /\ cache.gen <= cache'.gen
        /\ build[Worker].gen <= cache'.gen =>
              \A f \in Files : cache'.seen[f] = schema[f].rev
    <3> USE DEF TypeOK, BuildState, CacheState
    <3>1. CASE build[b].gen < cache.gen /\ UNCHANGED cache
      BY <1>2, <2>2, <3>1 DEF CurrentInv, NewerIsCurrent, CacheHasIt
    <3>2. CASE /\ cache.gen <= build[b].gen
               /\ cache' = [gen |-> build[b].gen, seen |-> build[b].seen]
      <4>1. cache'.gen = build[b].gen /\ cache'.seen = build[b].seen
        BY <3>2
      <4>2. build[Worker].gen <= build[b].gen => UpToDate(b)
        BY <1>2, <2>1, <2>2 DEF CurrentInv, NewerIsCurrent, CacheHasIt
      <4>. QED
        BY <2>1, <3>2, <4>1, <4>2 DEF UpToDate
    <3>. QED
      BY <1>5, <3>1, <3>2 DEF InstallBuild, StoreShared
  <2>6. ~InFlight(Worker)' /\ TreeValid' => build'[Worker].gen <= cache'.gen
    <3>1. CASE b = Worker
      BY <2>1, <2>5, <3>1
    <3>2. CASE b # Worker
      <4>1. ~InFlight(Worker)' => ~InFlight(Worker)
        BY <2>1, <3>2 DEF InFlight, TypeOK
      <4>2. ~InFlight(Worker) /\ TreeValid => build[Worker].gen <= cache.gen
        BY <1>2, <2>2 DEF CurrentInv, NewerIsCurrent, CacheHasIt
      <4>3. cache'.gen \in Nat
        BY <1>5 DEF InstallBuild, StoreShared, TypeOK, BuildState, CacheState
      <4>. QED
        BY <1>2, <2>1, <2>5, <4>1, <4>2, <4>3 DEF TypeOK, BuildState, CacheState
    <3>. QED
      BY <3>1, <3>2
  <2>. QED
    BY <1>2, <2>1, <2>2, <2>3, <2>4, <2>5, <2>6 DEF CurrentInv, NewerIsCurrent, CacheHasIt
<1>6. ASSUME NEW b \in Builders, RefuseBuild(b)
      PROVE  CurrentInv'
  <2>1. /\ InFlight(b) /\ build[b].bad
        /\ pc' = [pc EXCEPT ![b] = "idle"]
        /\ UNCHANGED <<build, cache>>
    BY <1>6 DEF RefuseBuild, Advance, InFlight
  <2>2. pc[Worker] # "begin"
    BY <2>1 DEF InFlight, TypeOK
  <2>3. \A c \in Builders : /\ InFlight(c)' => InFlight(c)
                            /\ c # b => (InFlight(c)' <=> InFlight(c))
                            /\ UpToDate(c)' <=> UpToDate(c)
    BY <1>2, <2>1 DEF InFlight, TypeOK, UpToDate
  <2>4. NewerIsCurrent /\ CacheHasIt
    BY <1>2, <2>2 DEF CurrentInv
  <2>5. NewerIsCurrent'
    <3>1. ASSUME NEW c \in Builders, InFlight(c)', build[Worker].gen <= build[c].gen
          PROVE  UpToDate(c)'
      BY <2>3, <2>4, <3>1 DEF NewerIsCurrent
    <3>. QED
      BY <1>2, <2>1, <2>4, <3>1 DEF NewerIsCurrent
  <2>6. CASE b = Worker
    <3>1. ~TreeValid /\ ~InFlight(Worker)'
      BY <2>1, <2>4, <2>6 DEF CacheHasIt, InFlight, TypeOK
    <3>. QED
      BY <1>2, <2>5, <3>1 DEF CurrentInv, CacheHasIt
  <2>7. CASE b # Worker
    <3>1. InFlight(Worker)' <=> InFlight(Worker)
      BY <2>3, <2>7
    <3>. QED
      BY <1>2, <2>1, <2>4, <2>5, <3>1 DEF CurrentInv, CacheHasIt
  <2>. QED
    BY <2>6, <2>7
<1>7. ASSUME \/ \E e \in Editors : UpdateReturns(e) \/ UpdateRebuildPanics(e)
             \/ WorkerStep
      PROVE  CurrentInv'
  <2>1. UNCHANGED <<build, cache>>
    BY <1>7 DEF UpdateReturns, UpdateRebuildPanics, WorkerStep, TakeFull, WorkerSettles,
         WorkerRebuildPanics, IndexUnit, DropUnit
  <2>2. ~WorkerRebuildPanics
    BY OwingStep
  <2>3. /\ \A c \in Builders : InFlight(c)' => InFlight(c)
        /\ InFlight(Worker)' <=> InFlight(Worker)
        /\ pc[Worker] # "begin"
    BY <1>1, <1>7, <2>2
       DEF UpdateReturns, UpdateRebuildPanics, WorkerStep, WorkerSettles, IndexUnit,
           DropUnit, Advance, InFlight, TypeOK
  <2>4. \A c \in Builders : UpToDate(c)' <=> UpToDate(c)
    BY <1>2, <2>1 DEF UpToDate
  <2>. QED
    BY <1>2, <2>1, <2>3, <2>4 DEF CurrentInv, NewerIsCurrent, CacheHasIt
<1>8. ~SweepFires
  BY OwingStep
<1>. QED
  BY <1>1, <1>3, <1>4, <1>5, <1>6, <1>7, <1>8 DEF RuleStep, BuildStep

\* While the schema tree is valid and no fault has left the cache to the sweep, a
\* cache that lags the disk has a reconcile coming to it, or the worker is just
\* bringing it up to date: no pull, write or overlapping rebuild strands it.
THEOREM StaleCacheIsHealed == Spec => []StaleCacheIsOwed
<1>1. Init => CurrentInv
  BY DEF Init, CurrentInv, Quiet
<1>2. TypeOK /\ ReadInv /\ CurrentInv /\ [Next]_vars => CurrentInv'
  <2> SUFFICES ASSUME TypeOK, ReadInv, CurrentInv, [Next]_vars PROVE CurrentInv'
    OBVIOUS
  <2>1. CASE Next
    BY <2>1, StepKinds, CurrentStep DEF ReadInv
  <2>2. CASE UNCHANGED vars
    BY <2>2 DEF vars, CurrentInv, NewerIsCurrent, CacheHasIt, Quiet, MarkPending, InFlight, UpToDate, TreeValid
  <2>. QED
    BY <2>1, <2>2
<1>3. TypeOK /\ CurrentInv => StaleCacheIsOwed
  <2> SUFFICES ASSUME TypeOK, CurrentInv, Quiet, TreeValid, pc[Worker] # "begin",
                      NEW f \in Files, cache.seen[f] # schema[f].rev
               PROVE  WorkerWillRead(f)
    BY DEF StaleCacheIsOwed, Quiet, WorkerWillRead
  <2>1. ~(build[Worker].gen <= cache.gen)
    BY DEF CurrentInv, NewerIsCurrent
  <2>2. InFlight(Worker)
    BY <2>1 DEF CurrentInv, CacheHasIt
  <2>3. Worker \in Builders /\ build[Worker].gen <= build[Worker].gen
    BY ActorKinds DEF TypeOK, BuildState
  <2>4. UpToDate(Worker)
    BY <2>2, <2>3 DEF CurrentInv, NewerIsCurrent
  <2>. QED
    BY <2>2, <2>4 DEF UpToDate, InFlight, WorkerWillRead
<1>. QED
  BY <1>1, <1>2, <1>3, TypeCorrect, ReadInvHolds, PTL DEF Spec

=============================================================================
