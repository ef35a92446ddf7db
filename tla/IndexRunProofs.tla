--------------------------- MODULE IndexRunProofs ---------------------------
(***************************************************************************)
(* Proofs about module IndexRun, for any documents, contents, schemas,     *)
(* chunkings, batch size, slack, faults and bounds.                        *)
(*                                                                         *)
(* RowTrust is not inductive: it says nothing of a document in doubt, so   *)
(* nothing would follow for it when its row is written.  FlushInv,         *)
(* RefreshInv and PurgeInv say what the points of such a document are, and *)
(* TypeInv and ListInv that the lists of the run name each document once.  *)
(*                                                                         *)
(* What the sweep needs is in SoundInv: rows are dated by the content they *)
(* are of (RowInv), metadata and links fit them (SideInv), and no document *)
(* is on two lists (PlaceInv).  SettledInv follows each document a run was *)
(* given to the end of the run.                                            *)
(***************************************************************************)
EXTENDS IndexRun, FiniteSetTheorems, TLAPS

Refreshing == {"payload", "remeta", "relinks", "rehash"}
Flushing == {"record", "meta", "links"}
BeforeScan == {"idle", "load", "clear", "drop"}
AfterScan == {"backfill", "backlinks", "purge", "unmeta", "unrow"}

\* The file in hand is what the next step takes it for.
CurInv ==
  /\ phase \in {"stat", "meta", "links"} \cup Refreshing => cur \in File
  /\ phase = "backlinks" => cur.doc \in Docs /\ cur.hash \in Contents
  /\ phase = "unrow" => cur.doc \in todo
  /\ phase \in Refreshing => rows[cur.doc] # None

TypeInv == TypeOK /\ CurInv

\* A document is in one place: still to be read, in hand, or pending with the
\* number of chunks its row gives it.
ListInv ==
  /\ phase \in BeforeScan \cup AfterScan => pending = {}
  /\ phase \in BeforeScan => emptied = {}
  /\ \A f, g \in pending : f.doc = g.doc => f = g
  /\ \A f \in pending : f.doc \notin todo
  /\ phase \in {"stat"} \cup Refreshing =>
       cur.doc \notin todo /\ \A f \in pending : f.doc # cur.doc
  /\ phase = "stat" => cur.old = OldCount(cur.doc)
  /\ phase \notin Flushing => \A f \in pending : f.old = OldCount(f.doc)
  /\ queue \subseteq pending

\* The points of a document whose row is about to be written.
FlushInv ==
  /\ phase = "trim" => \A f \in pending : f.doc \notin hurt =>
       IF f \in queue THEN points[f.doc] = Upserted(Recorded(rows[f.doc]), f.hash)
       ELSE points[f.doc] = Recorded(RowOf(f))
  /\ phase \in Flushing => \A f \in queue : f.doc \notin hurt =>
       points[f.doc] = Recorded(RowOf(f))

RefreshInv ==
  phase \in Refreshing \ {"payload"} /\ cur.doc \notin hurt =>
    points[cur.doc] = Recorded([rows[cur.doc] EXCEPT !.schema = under.schema])

\* What is being purged has no points left, and what is empty is purged first.
PurgeInv ==
  /\ phase \in {"unmeta", "unrow"} => \A d \in todo : points[d] = NoPoints
  /\ \A f \in emptied :
       /\ Count(f.hash) = 0
       /\ \/ f.doc \in unindexable
          \/ phase \in {"unmeta", "unrow"} /\ f.doc \in todo
          \/ phase \in {"purge", "unmeta", "unrow"} /\ OldCount(f.doc) = 0
  /\ phase = "drop" => \A d \in Docs : rows[d] = None

PointInv == RowTrust /\ FlushInv /\ RefreshInv /\ PurgeInv

IInv == TypeInv /\ ListInv /\ PointInv

-----------------------------------------------------------------------------
(* Types: what the model's helpers return.                                   *)

LEMMA OldCountType == ASSUME TypeOK, NEW d \in Docs PROVE OldCount(d) \in Nat
  BY DEF TypeOK, OldCount, Row

LEMMA StatType == ASSUME TypeOK, NEW d \in Docs PROVE Stat(d) \in Nat
  BY DEF TypeOK, Stat

LEMMA CountType ==
  ASSUME TypeOK, NEW c \in Contents
  PROVE  Count(c) \in 0 .. MaxChunks /\ Count(c) \in Nat
  BY ConstantsAssumption DEF TypeOK, Count, Conf

LEMMA RowOfType == ASSUME TypeOK, NEW f \in File PROVE RowOf(f) \in Row
<1>1. under.schema \in Schemas /\ under.chunking \in Chunkings
  BY DEF TypeOK, Conf
<1>2. f.hash \in Contents /\ f.mtime \in Nat
  BY DEF File
<1>. QED
  BY <1>1, <1>2, CountType DEF RowOf, Row

LEMMA MetaOfType == ASSUME TypeOK, NEW c \in Contents PROVE MetaOf(c) \in Meta
  BY DEF TypeOK, Conf, MetaOf, Meta

LEMMA PointOfType == ASSUME TypeOK, NEW c \in Contents PROVE PointOf(c) \in Point
  BY DEF TypeOK, Conf, PointOf, Point

Places == [Index -> Point \cup {None}]

LEMMA PlacesType ==
  ASSUME TypeOK, NEW p \in Places
  PROVE  /\ NoPoints \in Places
         /\ \A c \in Contents : Upserted(p, c) \in Places
         /\ \A new, old : Trimmed(p, new, old) \in Places
         /\ Repainted(p) \in Places
<1>1. NoPoints \in Places
  BY DEF NoPoints, Places
<1>2. ASSUME NEW c \in Contents PROVE Upserted(p, c) \in Places
  BY PointOfType DEF Upserted, Places
<1>3. ASSUME NEW new, NEW old PROVE Trimmed(p, new, old) \in Places
  BY DEF Trimmed, Places
<1>4. ASSUME NEW i \in Index, p[i] # None
      PROVE  [p[i] EXCEPT !.payload = Payload[under.schema]] \in Point
  <2>1. p[i] \in Point
    BY <1>4 DEF Places
  <2>. QED
    BY <2>1 DEF TypeOK, Conf, Point
<1>5. Repainted(p) \in Places
  BY <1>4 DEF Repainted, Places
<1>. QED
  BY <1>1, <1>2, <1>3, <1>5

LEMMA StopRunType == ASSUME TypeOK, StopRun PROVE
    /\ phase' = "idle" /\ full' \in BOOLEAN /\ todo' \subseteq Docs
    /\ cur' \in [doc : Docs \cup {None}, hash : Contents \cup {None}, old : Nat, mtime : Nat]
    /\ queue' \subseteq File /\ pending' \subseteq File /\ emptied' \subseteq File
    /\ backfill' \subseteq Docs /\ missing' \subseteq Docs /\ unindexable' \subseteq Docs
    /\ under' \in Conf
  BY DEF TypeOK, StopRun, NoFile

LEMMA StattedType ==
  ASSUME TypeInv, phase = "stat"
  PROVE  /\ Statted \in File /\ Statted.doc = cur.doc /\ Statted.hash = cur.hash
         /\ Statted.old = cur.old /\ cur.doc \in Docs /\ cur.hash \in Contents
<1>1. cur \in File
  BY DEF TypeInv, CurInv
<1>2. Stat(cur.doc) \in Nat
  BY <1>1, StatType DEF TypeInv, File
<1>. QED
  BY <1>1, <1>2 DEF Statted, File

-----------------------------------------------------------------------------
(* TypeInv: one lemma for each kind of step.                                 *)

LEMMA InitType == Init => TypeInv
<1>. SUFFICES ASSUME Init PROVE TypeInv
  OBVIOUS
<1>1. NoPoints \in [Index -> Point \cup {None}]
  BY DEF NoPoints
<1>2. NoFile \in [doc : Docs \cup {None}, hash : Contents \cup {None}, old : Nat,
                 mtime : Nat]
  BY DEF NoFile
<1>3. /\ rows \in [Docs -> Row \cup {None}] /\ meta \in [Docs -> Meta \cup {None}]
      /\ links \in [Docs -> Contents \cup {None}]
      /\ points \in [Docs -> [Index -> Point \cup {None}]]
      /\ mtime \in [Docs -> Nat]
  BY <1>1 DEF Init
<1>4. conf \in Conf /\ under \in Conf /\ changes \in 0 .. MaxChanges
      /\ faults \in 0 .. MaxFaults
  BY ConstantsAssumption DEF Init
<1>5. disk \in [Docs -> Contents \cup {None}]
  BY ConstantsAssumption DEF Init
<1>6. TypeOK
  BY <1>2, <1>3, <1>4, <1>5 DEF Init, TypeOK
<1>. QED
  BY <1>6 DEF Init, TypeInv, CurInv, Refreshing

LEMMA StrikeType == ASSUME TypeOK, NEW k, Strike(k) PROVE faults' \in 0 .. MaxFaults
  BY ConstantsAssumption DEF TypeOK, Strike

LEMMA BetweenRunsType ==
  ASSUME TypeInv
  PROVE  /\ Environment => TypeInv'
         /\ \A paths \in SUBSET Docs, force \in BOOLEAN : Begin(paths, force) => TypeInv'
         /\ Load \/ ClearState \/ DropCollection \/ Finish => TypeInv'
         /\ Crash \/ RunFails => TypeInv'
<1>. USE ConstantsAssumption
     DEF TypeInv, TypeOK, CurInv, File, Refreshing, source, stores, lists, run, ghosts
<1>1. ASSUME NEW d \in Docs, NEW c \in Contents \cup {None}, Edit(d, c) PROVE TypeInv'
  BY <1>1 DEF Edit
<1>2. ASSUME NEW c \in Configs, Reload(c) PROVE TypeInv'
  BY <1>2 DEF Reload
<1>3. ASSUME WipeQdrant PROVE TypeInv'
  BY <1>3 DEF WipeQdrant, Strike, NoPoints
<1>4. ASSUME NEW paths \in SUBSET Docs, NEW force \in BOOLEAN, Begin(paths, force)
      PROVE  TypeInv'
  BY <1>4 DEF Begin
<1>5. ASSUME Load PROVE TypeInv'
  <2>1. [under EXCEPT !.schema = conf.schema] \in Conf
    BY DEF Conf
  <2>. QED
    BY <1>5, <2>1 DEF Load
<1>6. ASSUME ClearState PROVE TypeInv'
  BY <1>6 DEF ClearState
<1>7. ASSUME DropCollection PROVE TypeInv'
  BY <1>7 DEF DropCollection, NoPoints
<1>8. ASSUME Finish PROVE TypeInv'
  BY <1>8 DEF Finish, StopRun, NoFile
<1>9. ASSUME Crash \/ RunFails PROVE TypeInv'
  <2>. HIDE DEF TypeOK
  <2>1. StopRun /\ UNCHANGED <<source, stores, blind>>
    BY <1>9 DEF Crash, RunFails
  <2>2. hurt' \subseteq Docs /\ settled' = {} /\ rejected' \subseteq Docs
    BY <1>9 DEF Crash, RunFails, HalfDoneDocs, TypeOK
  <2>3. faults' \in 0 .. MaxFaults
    BY <1>9, StrikeType DEF Crash, RunFails
  <2>4. TypeOK'
    BY <2>1, <2>2, <2>3, StopRunType DEF TypeOK
  <2>. QED
    BY <2>1, <2>4 DEF StopRun
<1>. QED
  BY <1>1, <1>2, <1>3, <1>4, <1>5, <1>6, <1>7, <1>8, <1>9 DEF Environment

LEMMA DecisionType ==
  ASSUME TypeInv
  PROVE  /\ \A d \in Docs : FindMissing(d) \/ ReadFails(d) \/ ReadFile(d) => TypeInv'
         /\ Skip \/ Reject \/ LintFails \/ FindInvalid => TypeInv'
         /\ Refresh \/ FindEmpty \/ Chunk \/ EndScan => TypeInv'
<1>. USE ConstantsAssumption
     DEF TypeInv, TypeOK, CurInv, File, Refreshing, source, stores, lists, run, ghosts
<1>1. ASSUME NEW d \in Docs, FindMissing(d) PROVE TypeInv'
  BY <1>1 DEF FindMissing, NextPath, Settle
<1>2. ASSUME NEW d \in Docs, ReadFails(d) PROVE TypeInv'
  BY <1>2 DEF ReadFails, NextPath, Strike
<1>3. ASSUME NEW d \in Docs, ReadFile(d) PROVE TypeInv'
  BY <1>3 DEF ReadFile, NextPath, Settle, OldCount, Row
<1>4. ASSUME Skip PROVE TypeInv'
  <2>1. cur.doc \in Docs /\ rows[cur.doc] \in Row
    BY <1>4 DEF Skip, Decided, Unchanged, SameChunks
  <2>2. [rows[cur.doc] EXCEPT !.mtime = Stat(cur.doc)] \in Row
    BY <2>1, StatType DEF Row
  <2>3. rows' \in [Docs -> Row \cup {None}]
    BY <1>4, <2>1, <2>2 DEF Skip
  <2>4. faults' \in 0 .. MaxFaults
    BY <1>4 DEF Skip, Strike
  <2>. QED
    BY <1>4, <2>1, <2>3, <2>4 DEF Skip, Decided, NoFile
<1>5. ASSUME Reject PROVE TypeInv'
  BY <1>5 DEF Reject, Decided, NoFile
<1>6. ASSUME LintFails PROVE TypeInv'
  BY <1>6 DEF LintFails, Decided, NoFile, Strike
<1>7. ASSUME FindInvalid PROVE TypeInv'
  BY <1>7 DEF FindInvalid, Decided, NoFile
<1>8. ASSUME Refresh PROVE TypeInv'
  BY <1>8 DEF Refresh, Accepted, Decided, Statted, Stat, MayRefresh, SameChunks
<1>9. ASSUME FindEmpty \/ Chunk PROVE TypeInv'
  <2>1. Statted \in File /\ cur.doc \in Docs
    BY <1>9, StattedType DEF FindEmpty, Chunk, Accepted, Decided
  <2>2. emptied' \subseteq File /\ pending' \subseteq File /\ unindexable' \subseteq Docs
    BY <1>9, <2>1 DEF FindEmpty, Chunk
  <2>. QED
    BY <1>9, <2>2 DEF FindEmpty, Chunk, Accepted, Decided, NoFile
<1>10. ASSUME EndScan PROVE TypeInv'
  BY <1>10 DEF EndScan
<1>. QED
  BY <1>1, <1>2, <1>3, <1>4, <1>5, <1>6, <1>7, <1>8, <1>9, <1>10

LEMMA RefreshType ==
  ASSUME TypeInv
  PROVE  /\ RefreshPayload \/ RefreshMeta \/ RefreshLinks => TypeInv'
         /\ RefreshRow \/ RefreshFails => TypeInv'
<1>. USE ConstantsAssumption
     DEF TypeInv, TypeOK, CurInv, File, Refreshing, source, stores, lists, run, ghosts
<1>1. ASSUME RefreshPayload PROVE TypeInv'
  <2>1. cur.doc \in Docs
    BY <1>1 DEF RefreshPayload
  <2>2. Repainted(points[cur.doc]) \in Places
    BY <2>1, PlacesType DEF Places
  <2>3. points' \in [Docs -> Places]
    BY <1>1, <2>1, <2>2 DEF RefreshPayload, Places
  <2>. QED
    BY <1>1, <2>3 DEF RefreshPayload, Places
<1>2. ASSUME RefreshMeta PROVE TypeInv'
  BY <1>2 DEF RefreshMeta, MetaOf, Meta, Conf
<1>3. ASSUME RefreshLinks PROVE TypeInv'
  <2>1. links' \in [Docs -> Contents \cup {None}]
    BY <1>3 DEF RefreshLinks, LinksFail
  <2>2. faults' \in 0 .. MaxFaults
    BY <1>3, StrikeType DEF RefreshLinks, LinksFail
  <2>3. hurt' \subseteq Docs
    BY <1>3 DEF RefreshLinks, LinksFail
  <2>. QED
    BY <1>3, <2>1, <2>2, <2>3 DEF RefreshLinks
<1>4. ASSUME RefreshRow PROVE TypeInv'
  <2>1. cur.doc \in Docs /\ rows[cur.doc] \in Row
    BY <1>4 DEF RefreshRow
  <2>2. under.schema \in Schemas /\ cur.mtime \in Nat
    BY DEF Conf
  <2>3. [rows[cur.doc] EXCEPT !.schema = under.schema, !.mtime = cur.mtime] \in Row
    BY <2>1, <2>2 DEF Row
  <2>4. rows' = [rows EXCEPT ![cur.doc] =
                   [rows[cur.doc] EXCEPT !.schema = under.schema, !.mtime = cur.mtime]]
    BY <1>4, <2>1 DEF RefreshRow, Row
  <2>5. rows' \in [Docs -> Row \cup {None}]
    BY <2>1, <2>3, <2>4
  <2>. QED
    BY <1>4, <2>1, <2>5 DEF RefreshRow, NoFile
<1>5. ASSUME RefreshFails PROVE TypeInv'
  BY <1>5 DEF RefreshFails, NoFile, Strike, HalfDoneDocs
<1>. QED
  BY <1>1, <1>2, <1>3, <1>4, <1>5

LEMMA FlushType ==
  ASSUME TypeInv
  PROVE  /\ \A f \in queue : TrimTail(f) \/ RecordRow(f) => TypeInv'
         /\ UpsertPoints \/ RecordMeta \/ RecordLinks \/ EndFlush => TypeInv'
<1>. USE ConstantsAssumption
     DEF TypeInv, TypeOK, CurInv, File, Refreshing, source, stores, lists, run, ghosts
<1>1. ASSUME UpsertPoints PROVE TypeInv'
  <2>1. ASSUME NEW d \in Docs, \E f \in pending : f.doc = d
        PROVE  Upserted(points[d], PendingFor(d).hash) \in Places
    <3>1. PendingFor(d).hash \in Contents
      BY <2>1 DEF PendingFor
    <3>. QED
      BY <3>1, PlacesType DEF Places
  <2>2. points' \in [Docs -> Places]
    BY <1>1, <2>1 DEF UpsertPoints, Places
  <2>. QED
    BY <1>1, <2>2 DEF UpsertPoints, Places
<1>2. ASSUME NEW f \in queue, TrimTail(f) PROVE TypeInv'
  <2>1. f.doc \in Docs
    OBVIOUS
  <2>2. Trimmed(points[f.doc], Count(f.hash), f.old) \in Places
    BY <2>1, PlacesType DEF Places
  <2>3. points' \in [Docs -> Places]
    BY <1>2, <2>1, <2>2 DEF TrimTail, Places
  <2>4. faults' \in 0 .. MaxFaults /\ hurt' \subseteq Docs /\ settled' \subseteq Docs
    BY <1>2, <2>1, StrikeType DEF TrimTail
  <2>5. /\ queue' \subseteq File
        /\ phase' \in {"trim", "record"}
    BY <1>2 DEF TrimTail
  <2>. QED
    BY <1>2, <2>3, <2>4, <2>5 DEF TrimTail, Places
<1>3. ASSUME NEW f \in queue, RecordRow(f) PROVE TypeInv'
  <2>1. f \in File /\ f.doc \in Docs
    OBVIOUS
  <2>2. rows' \in [Docs -> Row \cup {None}]
    BY <1>3, <2>1, RowOfType DEF RecordRow
  <2>3. faults' \in 0 .. MaxFaults /\ hurt' \subseteq Docs /\ settled' \subseteq Docs
    BY <1>3, <2>1, StrikeType DEF RecordRow
  <2>4. /\ \/ cur' = cur /\ phase' = phase
           \/ cur' = f /\ phase' = "meta"
        /\ queue' \subseteq queue /\ phase = "record"
    BY <1>3 DEF RecordRow
  <2>. QED
    BY <1>3, <2>1, <2>2, <2>3, <2>4 DEF RecordRow
<1>4. ASSUME RecordMeta PROVE TypeInv'
  <2>1. cur.doc \in Docs /\ cur.hash \in Contents
    BY <1>4 DEF RecordMeta
  <2>2. meta' \in [Docs -> Meta \cup {None}]
    BY <1>4, <2>1, MetaOfType DEF RecordMeta
  <2>3. faults' \in 0 .. MaxFaults /\ hurt' \subseteq Docs /\ settled' \subseteq Docs
    BY <1>4, <2>1, StrikeType DEF RecordMeta
  <2>4. \/ cur' = cur /\ phase' = "links"
        \/ cur' = NoFile /\ phase' = "record"
    BY <1>4 DEF RecordMeta
  <2>. QED
    BY <1>4, <2>1, <2>2, <2>3, <2>4 DEF RecordMeta, NoFile
<1>5. ASSUME RecordLinks PROVE TypeInv'
  BY <1>5 DEF RecordLinks, NoFile, LinksFail, Strike
<1>6. ASSUME EndFlush PROVE TypeInv'
  BY <1>6 DEF EndFlush
<1>. QED
  BY <1>1, <1>2, <1>3, <1>4, <1>5, <1>6

LEMMA CleanupType ==
  ASSUME TypeInv
  PROVE  Backfill \/ Purge => TypeInv'
<1>. USE ConstantsAssumption
     DEF TypeInv, TypeOK, CurInv, File, Refreshing, source, stores, lists, run, ghosts
<1>1. ASSUME NEW d \in backfill, BackfillMeta(d) PROVE TypeInv'
  <2>1. d \in Docs /\ phase = "backfill"
    BY <1>1 DEF BackfillMeta
  <2>2. faults' \in 0 .. MaxFaults /\ settled' \subseteq Docs
    BY <1>1, StrikeType DEF BackfillMeta
  <2>3. meta' \in [Docs -> Meta \cup {None}]
    BY <1>1, <2>1, MetaOfType DEF BackfillMeta
  <2>4. \/ cur' = cur /\ phase' = "backfill"
        \/ /\ disk[d] \in Contents
           /\ cur' = [NoFile EXCEPT !.doc = d, !.hash = disk[d]] /\ phase' = "backlinks"
    BY <1>1, <2>1 DEF BackfillMeta
  <2>5. /\ cur' \in [doc : Docs \cup {None}, hash : Contents \cup {None}, old : Nat,
                     mtime : Nat]
        /\ \/ phase' = "backfill"
           \/ phase' = "backlinks" /\ cur'.doc \in Docs /\ cur'.hash \in Contents
    <3>1. CASE disk[d] \in Contents /\ cur' = [NoFile EXCEPT !.doc = d, !.hash = disk[d]]
                /\ phase' = "backlinks"
      <4>1. cur' = [doc |-> d, hash |-> disk[d], old |-> 0, mtime |-> 0]
        BY <3>1 DEF NoFile
      <4>. QED
        BY <2>1, <3>1, <4>1
    <3>2. CASE cur' = cur /\ phase' = "backfill"
      BY <3>2
    <3>. QED
      BY <2>4, <3>1, <3>2
  <2>. QED
    BY <1>1, <2>2, <2>3, <2>5 DEF BackfillMeta
<1>2. ASSUME BackfillLinks PROVE TypeInv'
  BY <1>2 DEF BackfillLinks, NoFile, LinksFail, Strike
<1>3. ASSUME EndBackfill PROVE TypeInv'
  BY <1>3 DEF EndBackfill
<1>4. ASSUME PurgePoints PROVE TypeInv'
  BY <1>4 DEF PurgePoints, PurgeList, NoPoints
<1>5. ASSUME NEW d \in todo, PurgeMeta(d) PROVE TypeInv'
  BY <1>5 DEF PurgeMeta, NoFile
<1>6. ASSUME PurgeRow PROVE TypeInv'
  BY <1>6 DEF PurgeRow, NoFile
<1>7. ASSUME NEW d \in todo, PurgeFails(d) PROVE TypeInv'
  <2>1. meta' \in [Docs -> Meta \cup {None}]
    BY <1>7 DEF PurgeFails
  <2>2. faults' \in 0 .. MaxFaults
    BY <1>7, StrikeType DEF PurgeFails
  <2>. QED
    BY <1>7, <2>1, <2>2 DEF PurgeFails, NoFile
<1>8. ASSUME EndPurge PROVE TypeInv'
  BY <1>8 DEF EndPurge
<1>9. ASSUME NEW f \in emptied, RecordEmpty(f) PROVE TypeInv'
  <2>1. f \in File /\ f.doc \in Docs
    OBVIOUS
  <2>2. rows' \in [Docs -> Row \cup {None}]
    BY <1>9, <2>1, RowOfType DEF RecordEmpty
  <2>3. faults' \in 0 .. MaxFaults /\ settled' \subseteq Docs
    BY <1>9, StrikeType DEF RecordEmpty
  <2>. QED
    BY <1>9, <2>2, <2>3 DEF RecordEmpty
<1>. QED
  BY <1>1, <1>2, <1>3, <1>4, <1>5, <1>6, <1>7, <1>8, <1>9 DEF Backfill, Purge

LEMMA StutterType == ASSUME TypeInv, UNCHANGED vars PROVE TypeInv'
  BY DEF vars, TypeInv, TypeOK, CurInv, Refreshing, source, stores, lists, run, ghosts

LEMMA StepType == ASSUME TypeInv, [Next]_vars PROVE TypeInv'
<1>1. ASSUME NEW paths \in SUBSET Docs, ScopedRun(paths) PROVE TypeInv'
  BY <1>1, BetweenRunsType DEF ScopedRun
<1>2. CASE FullReindex \/ Sweep
  <2>1. Discovered \subseteq Docs /\ DirtyDocs \subseteq Docs
    BY DEF Discovered, DirtyDocs, Orphans, Unrecorded, ExcludedPresent
  <2>. QED
    BY <1>2, <2>1, BetweenRunsType DEF FullReindex, Sweep
<1>3. CASE Environment \/ Crash \/ RunFails
  BY <1>3, BetweenRunsType
<1>4. CASE RunStep
  BY <1>4, BetweenRunsType, DecisionType, RefreshType, FlushType, CleanupType
  DEF RunStep, Scan, Flush
<1>. QED
  BY <1>1, <1>2, <1>3, <1>4, StutterType DEF Next

\* The type invariant holds of every run, for any constants.
THEOREM TypeCorrect == Spec => []TypeOK
<1>1. Spec => []TypeInv
  BY InitType, StepType, PTL DEF Spec
<1>2. TypeInv => TypeOK
  BY DEF TypeInv
<1>. QED
  BY <1>1, <1>2, PTL

-----------------------------------------------------------------------------
(* ListInv.                                                                  *)

LEMMA InitList == Init => ListInv
  BY DEF Init, ListInv, BeforeScan, AfterScan, Refreshing, Flushing

LEMMA BetweenRunsList ==
  ASSUME TypeInv, ListInv
  PROVE  /\ Environment => ListInv'
         /\ \A paths \in SUBSET Docs, force \in BOOLEAN : Begin(paths, force) => ListInv'
         /\ Load \/ ClearState \/ DropCollection \/ Finish => ListInv'
         /\ Crash \/ RunFails => ListInv'
<1>. USE DEF TypeInv, TypeOK, CurInv, File, Refreshing, ListInv, BeforeScan, AfterScan,
     Flushing, OldCount, source, stores, lists, run, ghosts
<1>1. ASSUME NEW d \in Docs, NEW c \in Contents \cup {None}, Edit(d, c) PROVE ListInv'
  BY <1>1 DEF Edit
<1>2. ASSUME NEW c \in Configs, Reload(c) PROVE ListInv'
  BY <1>2 DEF Reload
<1>3. ASSUME WipeQdrant PROVE ListInv'
  BY <1>3 DEF WipeQdrant, Strike
<1>4. ASSUME NEW paths \in SUBSET Docs, NEW force \in BOOLEAN, Begin(paths, force) PROVE ListInv'
  BY <1>4 DEF Begin
<1>5. ASSUME Load PROVE ListInv'
  BY <1>5 DEF Load
<1>6. ASSUME ClearState PROVE ListInv'
  BY <1>6 DEF ClearState
<1>7. ASSUME DropCollection PROVE ListInv'
  BY <1>7 DEF DropCollection
<1>8. ASSUME Finish PROVE ListInv'
  BY <1>8 DEF Finish, StopRun, NoFile
<1>9. ASSUME Crash PROVE ListInv'
  BY <1>9 DEF Crash, StopRun, NoFile, Strike
<1>10. ASSUME RunFails PROVE ListInv'
  BY <1>10 DEF RunFails, StopRun, NoFile, Strike
<1>. QED
  BY <1>1, <1>2, <1>3, <1>4, <1>5, <1>6, <1>7, <1>8, <1>9, <1>10 DEF Environment

LEMMA DecisionList ==
  ASSUME TypeInv, ListInv
  PROVE  /\ \A d \in Docs : FindMissing(d) \/ ReadFails(d) \/ ReadFile(d) => ListInv'
         /\ Skip \/ Reject \/ LintFails \/ FindInvalid => ListInv'
         /\ Refresh \/ FindEmpty \/ Chunk \/ EndScan => ListInv'
<1>. USE DEF TypeInv, TypeOK, CurInv, File, Refreshing, ListInv, BeforeScan, AfterScan,
     Flushing, OldCount, source, stores, lists, run, ghosts
<1>1. ASSUME NEW d \in Docs, FindMissing(d) PROVE ListInv'
  BY <1>1 DEF FindMissing, NextPath
<1>2. ASSUME NEW d \in Docs, ReadFails(d) PROVE ListInv'
  BY <1>2 DEF ReadFails, NextPath, Strike
<1>3. ASSUME NEW d \in Docs, ReadFile(d) PROVE ListInv'
  BY <1>3 DEF ReadFile, NextPath, File
<1>4. ASSUME Skip PROVE ListInv'
  BY <1>4 DEF Skip, Decided, NoFile, Unchanged, SameChunks, Strike, File, Row
<1>5. ASSUME Reject PROVE ListInv'
  BY <1>5 DEF Reject, Decided, NoFile
<1>6. ASSUME LintFails PROVE ListInv'
  BY <1>6 DEF LintFails, Decided, NoFile, Strike
<1>7. ASSUME FindInvalid PROVE ListInv'
  BY <1>7 DEF FindInvalid, Decided, NoFile
<1>8. ASSUME Refresh PROVE ListInv'
  BY <1>8 DEF Refresh, Accepted, Decided, Statted, SameChunks
<1>9. ASSUME FindEmpty PROVE ListInv'
  BY <1>9 DEF FindEmpty, Accepted, Decided, NoFile, Statted
<1>10. ASSUME Chunk PROVE ListInv'
  BY <1>10 DEF Chunk, Accepted, Decided, NoFile, Statted
<1>11. ASSUME EndScan PROVE ListInv'
  BY <1>11 DEF EndScan
<1>. QED
  BY <1>1, <1>2, <1>3, <1>4, <1>5, <1>6, <1>7, <1>8, <1>9, <1>10, <1>11

LEMMA RefreshList ==
  ASSUME TypeInv, ListInv
  PROVE  /\ RefreshPayload \/ RefreshMeta \/ RefreshLinks => ListInv'
         /\ RefreshRow \/ RefreshFails => ListInv'
<1>. USE DEF TypeInv, TypeOK, CurInv, File, Refreshing, ListInv, BeforeScan, AfterScan,
     Flushing, OldCount, source, stores, lists, run, ghosts
<1>1. ASSUME RefreshPayload PROVE ListInv'
  BY <1>1 DEF RefreshPayload
<1>2. ASSUME RefreshMeta PROVE ListInv'
  BY <1>2 DEF RefreshMeta
<1>3. ASSUME RefreshLinks PROVE ListInv'
  BY <1>3 DEF RefreshLinks, LinksFail, Strike
<1>4. ASSUME RefreshRow PROVE ListInv'
  BY <1>4 DEF RefreshRow, NoFile, Row
<1>5. ASSUME RefreshFails PROVE ListInv'
  BY <1>5 DEF RefreshFails, NoFile, Strike
<1>. QED
  BY <1>1, <1>2, <1>3, <1>4, <1>5

LEMMA FlushList ==
  ASSUME TypeInv, ListInv
  PROVE  /\ \A f \in queue : TrimTail(f) \/ RecordRow(f) => ListInv'
         /\ UpsertPoints \/ RecordMeta \/ RecordLinks \/ EndFlush => ListInv'
<1>. USE DEF TypeInv, TypeOK, CurInv, File, Refreshing, ListInv, BeforeScan, AfterScan,
     Flushing, OldCount, source, stores, lists, run, ghosts
<1>1. ASSUME UpsertPoints PROVE ListInv'
  BY <1>1 DEF UpsertPoints
<1>2. ASSUME NEW f \in queue, TrimTail(f) PROVE ListInv'
  BY <1>2 DEF TrimTail, Strike
<1>3. ASSUME NEW f \in queue, RecordRow(f) PROVE ListInv'
  BY <1>3 DEF RecordRow, Strike
<1>4. ASSUME RecordMeta PROVE ListInv'
  BY <1>4 DEF RecordMeta, NoFile, Strike
<1>5. ASSUME RecordLinks PROVE ListInv'
  BY <1>5 DEF RecordLinks, NoFile, Strike, LinksFail
<1>6. ASSUME EndFlush PROVE ListInv'
  BY <1>6 DEF EndFlush
<1>. QED
  BY <1>1, <1>2, <1>3, <1>4, <1>5, <1>6

LEMMA CleanupList ==
  ASSUME TypeInv, ListInv
  PROVE  Backfill \/ Purge => ListInv'
<1>. USE DEF TypeInv, TypeOK, CurInv, File, Refreshing, ListInv, BeforeScan, AfterScan,
     Flushing, OldCount, source, stores, lists, run, ghosts
<1>1. ASSUME NEW d \in backfill, BackfillMeta(d) PROVE ListInv'
  BY <1>1 DEF BackfillMeta, NoFile, Strike
<1>2. ASSUME BackfillLinks PROVE ListInv'
  BY <1>2 DEF BackfillLinks, NoFile, Strike, LinksFail
<1>3. ASSUME EndBackfill PROVE ListInv'
  BY <1>3 DEF EndBackfill
<1>4. ASSUME PurgePoints PROVE ListInv'
  BY <1>4 DEF PurgePoints, PurgeList
<1>5. ASSUME PurgeRow PROVE ListInv'
  BY <1>5 DEF PurgeRow, NoFile
<1>6. ASSUME EndPurge PROVE ListInv'
  BY <1>6 DEF EndPurge
<1>7. ASSUME NEW d \in todo, PurgeMeta(d) PROVE ListInv'
  BY <1>7 DEF PurgeMeta, NoFile
<1>8. ASSUME NEW d \in todo, PurgeFails(d) PROVE ListInv'
  BY <1>8 DEF PurgeFails, NoFile, Strike
<1>9. ASSUME NEW f \in emptied, RecordEmpty(f) PROVE ListInv'
  BY <1>9 DEF RecordEmpty, Strike
<1>. QED
  BY <1>1, <1>2, <1>3, <1>4, <1>5, <1>6, <1>7, <1>8, <1>9 DEF Backfill, Purge

LEMMA StutterList == ASSUME ListInv, UNCHANGED vars PROVE ListInv'
  BY DEF vars, ListInv, BeforeScan, AfterScan, Refreshing, Flushing, OldCount, source,
         stores, lists, run, ghosts

LEMMA StepList == ASSUME TypeInv, ListInv, [Next]_vars PROVE ListInv'
<1>1. ASSUME NEW paths \in SUBSET Docs, ScopedRun(paths) PROVE ListInv'
  BY <1>1, BetweenRunsList DEF ScopedRun
<1>2. CASE FullReindex \/ Sweep
  <2>1. Discovered \subseteq Docs /\ DirtyDocs \subseteq Docs
    BY DEF Discovered, DirtyDocs, Orphans, Unrecorded, ExcludedPresent
  <2>. QED
    BY <1>2, <2>1, BetweenRunsList DEF FullReindex, Sweep
<1>3. CASE Environment \/ Crash \/ RunFails
  BY <1>3, BetweenRunsList
<1>4. CASE RunStep
  BY <1>4, BetweenRunsList, DecisionList, RefreshList, FlushList, CleanupList
  DEF RunStep, Scan, Flush
<1>. QED
  BY <1>1, <1>2, <1>3, <1>4, StutterList DEF Next

-----------------------------------------------------------------------------
(* What the writes to Qdrant make of the points a row stands for.            *)

LEMMA RecordedNone == Recorded(None) = NoPoints
  BY DEF Recorded

LEMMA RecordedNoChunks == ASSUME NEW r \in Row, r.count = 0 PROVE Recorded(r) = NoPoints
<1>1. r # None
  BY ConstantsAssumption
<1>2. \A i \in Index : ~(i < r.count)
  BY ConstantsAssumption DEF Index
<1>. QED
  BY <1>1, <1>2 DEF Recorded, NoPoints

LEMMA RecordedOldCount ==
  ASSUME TypeOK, NEW d \in Docs, OldCount(d) = 0
  PROVE  Recorded(rows[d]) = NoPoints
  BY RecordedNone, RecordedNoChunks DEF TypeOK, OldCount

LEMMA RecordedMtime ==
  ASSUME NEW r \in Row, NEW m \in Nat
  PROVE  Recorded([r EXCEPT !.mtime = m]) = Recorded(r)
<1>1. [r EXCEPT !.mtime = m] \in Row
  BY DEF Row
<1>2. r # None /\ [r EXCEPT !.mtime = m] # None
  BY <1>1, ConstantsAssumption
<1>. QED
  BY <1>2 DEF Recorded, Row

\* The schema of a row matters to its points through the payload alone.
LEMMA RecordedSchema ==
  ASSUME NEW r \in Row, NEW s \in Schemas, NEW m \in Nat
  PROVE  /\ Recorded([r EXCEPT !.schema = s, !.mtime = m]) = Recorded([r EXCEPT !.schema = s])
         /\ Payload[r.schema] = Payload[s] => Recorded([r EXCEPT !.schema = s]) = Recorded(r)
<1>1. [r EXCEPT !.schema = s] \in Row /\ [r EXCEPT !.schema = s, !.mtime = m] \in Row
  BY DEF Row
<1>2. r # None /\ [r EXCEPT !.schema = s] # None
      /\ [r EXCEPT !.schema = s, !.mtime = m] # None
  BY <1>1, ConstantsAssumption
<1>. QED
  BY <1>2 DEF Recorded, Row

LEMMA RepaintedRow ==
  ASSUME TypeOK, NEW r \in Row
  PROVE  Repainted(Recorded(r)) = Recorded([r EXCEPT !.schema = under.schema])
<1>. DEFINE n == [r EXCEPT !.schema = under.schema]
<1>1. r # None /\ n # None
  <2>1. n \in Row
    BY DEF TypeOK, Conf, Row
  <2>. QED
    BY <2>1, ConstantsAssumption
<1>2. n.count = r.count /\ n.hash = r.hash /\ n.chunking = r.chunking
      /\ n.schema = under.schema
  BY DEF Row
<1>3. [hash |-> r.hash, chunking |-> r.chunking, payload |-> Payload[r.schema]] # None
  BY ConstantsAssumption DEF Row, Point
<1>. HIDE DEF n
<1>4. ASSUME NEW i \in Index PROVE Repainted(Recorded(r))[i] = Recorded(n)[i]
  <2>1. CASE i < r.count
    BY <1>1, <1>2, <1>3, <2>1 DEF Repainted, Recorded
  <2>2. CASE ~(i < r.count)
    BY <1>1, <1>2, <2>2 DEF Repainted, Recorded
  <2>. QED
    BY <2>1, <2>2
<1>5. Recorded(n) = [i \in Index |-> Recorded(n)[i]]
  BY <1>1 DEF Recorded
<1>6. Repainted(Recorded(r)) = [i \in Index |-> Repainted(Recorded(r))[i]]
  BY DEF Repainted
<1>7. Repainted(Recorded(r)) = Recorded(n)
  BY <1>4, <1>5, <1>6
<1>. QED
  BY <1>7 DEF n

\* Upsert the new chunks, delete the old tail: what is left is what the new row says.
LEMMA ReplacedRow ==
  ASSUME TypeOK, NEW f \in File, NEW r \in Row \cup {None},
         f.old = IF r = None THEN 0 ELSE r.count
  PROVE  Trimmed(Upserted(Recorded(r), f.hash), Count(f.hash), f.old) = Recorded(RowOf(f))
<1>. DEFINE n == Count(f.hash)
<1>1. RowOf(f) # None
  BY RowOfType, ConstantsAssumption
<1>2. n \in Nat /\ f.old \in Nat
  BY CountType DEF File
<1>3. ASSUME NEW i \in Index, ~(i < n), ~(i < f.old) PROVE Recorded(r)[i] = None
  BY <1>3 DEF Recorded, NoPoints
<1>4. ASSUME NEW i \in Index
      PROVE  Trimmed(Upserted(Recorded(r), f.hash), n, f.old)[i] = Recorded(RowOf(f))[i]
  <2>1. i \in Nat
    BY DEF Index
  <2>2. CASE i < n
    BY <1>1, <1>2, <2>1, <2>2 DEF Trimmed, Upserted, Recorded, RowOf, PointOf
  <2>3. CASE ~(i < n)
    BY <1>1, <1>2, <1>3, <2>1, <2>3 DEF Trimmed, Upserted, Recorded, RowOf
  <2>. QED
    BY <2>2, <2>3
<1>. QED
  BY <1>1, <1>4 DEF Trimmed, Recorded, RowOf

LEMMA PointFrame ==
  ASSUME PointInv,
         UNCHANGED <<rows, points, phase, todo, under, cur, pending, queue, unindexable,
                     emptied, hurt>>
  PROVE  PointInv'
  BY DEF PointInv, RowTrust, InDoubt, FlushInv, RefreshInv, PurgeInv, Refreshing, Flushing,
         OldCount, RowOf, Count, Upserted, PointOf

LEMMA BetweenRunsPoints ==
  ASSUME TypeInv, ListInv, PointInv
  PROVE  /\ Environment => PointInv'
         /\ \A paths \in SUBSET Docs, force \in BOOLEAN : Begin(paths, force) => PointInv'
         /\ Load \/ ClearState \/ DropCollection \/ Finish => PointInv'
         /\ Crash \/ RunFails => PointInv'
<1>. USE DEF TypeInv, TypeOK, CurInv, File, Refreshing, ListInv, BeforeScan, AfterScan, Flushing,
     OldCount, source, stores, lists, run, ghosts, PointInv, RowTrust, FlushInv,
     RefreshInv, PurgeInv, RowOf, Count, Upserted, PointOf, InDoubt
<1>1. ASSUME NEW d \in Docs, NEW c \in Contents \cup {None}, Edit(d, c) PROVE PointInv'
  BY <1>1, PointFrame DEF Edit
<1>2. ASSUME NEW c \in Configs, Reload(c) PROVE PointInv'
  BY <1>2, PointFrame DEF Reload
<1>3. ASSUME WipeQdrant PROVE PointInv'
  BY <1>3 DEF WipeQdrant, Strike
<1>4. ASSUME NEW paths \in SUBSET Docs, NEW force \in BOOLEAN, Begin(paths, force) PROVE PointInv'
  BY <1>4 DEF Begin
<1>5. ASSUME Load PROVE PointInv'
  BY <1>5 DEF Load
<1>6. ASSUME ClearState PROVE PointInv'
  BY <1>6 DEF ClearState
<1>7. ASSUME DropCollection PROVE PointInv'
  BY <1>7, RecordedNone DEF DropCollection
<1>8. ASSUME Finish PROVE PointInv'
  BY <1>8 DEF Finish, StopRun, NoFile
<1>9. ASSUME Crash PROVE PointInv'
  BY <1>9 DEF Crash, StopRun, NoFile, Strike, HalfDoneDocs, HalfDone
<1>10. ASSUME RunFails PROVE PointInv'
  BY <1>10 DEF RunFails, StopRun, NoFile, Strike, HalfDoneDocs, HalfDone
<1>. QED
  BY <1>1, <1>2, <1>3, <1>4, <1>5, <1>6, <1>7, <1>8, <1>9, <1>10 DEF Environment

LEMMA DecisionPoints ==
  ASSUME TypeInv, ListInv, PointInv
  PROVE  /\ \A d \in Docs : FindMissing(d) \/ ReadFails(d) \/ ReadFile(d) => PointInv'
         /\ Skip \/ Reject \/ LintFails \/ FindInvalid => PointInv'
         /\ Refresh \/ FindEmpty \/ Chunk \/ EndScan => PointInv'
<1>. USE DEF TypeInv, TypeOK, CurInv, File, Refreshing, ListInv, BeforeScan, AfterScan, Flushing,
     OldCount, source, stores, lists, run, ghosts, PointInv, RowTrust, FlushInv,
     RefreshInv, PurgeInv, RowOf, Count, Upserted, PointOf, InDoubt
<1>1. ASSUME NEW d \in Docs, FindMissing(d) PROVE PointInv'
  BY <1>1 DEF FindMissing, NextPath
<1>2. ASSUME NEW d \in Docs, ReadFails(d) PROVE PointInv'
  BY <1>2 DEF ReadFails, NextPath, Strike
<1>3. ASSUME NEW d \in Docs, ReadFile(d) PROVE PointInv'
  BY <1>3 DEF ReadFile, NextPath
<1>4. ASSUME Skip PROVE PointInv'
  <2>. DEFINE d == cur.doc
  <2>1. d \in Docs /\ rows[d] \in Row /\ Stat(d) \in Nat
    BY <1>4, StatType DEF Skip, Decided, Unchanged, SameChunks
  <2>. DEFINE r == [rows[d] EXCEPT !.mtime = Stat(d)]
  <2>2. r \in Row /\ r.count = rows[d].count /\ Recorded(r) = Recorded(rows[d])
    BY <2>1, RecordedMtime DEF Row
  <2>3. rows' = rows \/ rows' = [rows EXCEPT ![d] = r]
    BY <1>4, <2>1 DEF Skip
  <2>. HIDE DEF r
  <2>4. \A e \in Docs : Recorded(rows'[e]) = Recorded(rows[e]) /\ OldCount(e)' = OldCount(e)
    BY <2>1, <2>2, <2>3, ConstantsAssumption
  <2>5. RowTrust'
    BY <1>4, <2>4 DEF Skip, Decided
  <2>6. FlushInv' /\ RefreshInv'
    BY <1>4 DEF Skip
  <2>7. PurgeInv'
    BY <1>4, <2>4 DEF Skip, Decided
  <2>. QED
    BY <2>5, <2>6, <2>7
<1>5. ASSUME Reject PROVE PointInv'
  BY <1>5 DEF Reject, Decided, NoFile
<1>6. ASSUME LintFails PROVE PointInv'
  BY <1>6 DEF LintFails, Decided, NoFile, Strike
<1>7. ASSUME FindInvalid PROVE PointInv'
  BY <1>7 DEF FindInvalid, Decided, NoFile
<1>8. ASSUME Refresh PROVE PointInv'
  <2>. DEFINE d == cur.doc
  <2>1. d \in Docs /\ rows[d] \in Row /\ cur'.doc = d /\ phase = "stat"
    BY <1>8, StattedType DEF Refresh, Accepted, Decided, MayRefresh, SameChunks
  <2>2. UNCHANGED <<rows, points, under, hurt, pending, queue, emptied, unindexable, todo>>
    BY <1>8 DEF Refresh, Accepted, Decided
  <2>3. CASE phase' = "payload"
    BY <2>1, <2>2, <2>3
  <2>4. CASE phase' = "remeta"
    <3>1. Payload[rows[d].schema] = Payload[under.schema] /\ under.schema \in Schemas
      BY <1>8, <2>4 DEF Refresh, Conf
    <3>2. Recorded([rows[d] EXCEPT !.schema = under.schema]) = Recorded(rows[d])
      BY <2>1, <3>1, RecordedSchema DEF Row
    <3>. QED
      BY <2>1, <2>2, <2>4, <3>2
  <2>. QED
    BY <1>8, <2>3, <2>4 DEF Refresh
<1>9. ASSUME FindEmpty PROVE PointInv'
  BY <1>9 DEF FindEmpty, Accepted, Decided, NoFile, Statted
<1>10. ASSUME Chunk PROVE PointInv'
  BY <1>10 DEF Chunk, Accepted, Decided, NoFile, Statted
<1>11. ASSUME EndScan PROVE PointInv'
  BY <1>11 DEF EndScan
<1>. QED
  BY <1>1, <1>2, <1>3, <1>4, <1>5, <1>6, <1>7, <1>8, <1>9, <1>10, <1>11

LEMMA RefreshPoints ==
  ASSUME TypeInv, ListInv, PointInv
  PROVE  /\ RefreshPayload \/ RefreshMeta \/ RefreshLinks => PointInv'
         /\ RefreshRow \/ RefreshFails => PointInv'
<1>. USE DEF TypeInv, TypeOK, CurInv, File, Refreshing, ListInv, BeforeScan, AfterScan, Flushing,
     OldCount, source, stores, lists, run, ghosts, PointInv, RowTrust, FlushInv,
     RefreshInv, PurgeInv, RowOf, Count, Upserted, PointOf, InDoubt
<1>1. ASSUME RefreshPayload PROVE PointInv'
  <2>. DEFINE d == cur.doc
  <2>1. d \in Docs /\ rows[d] \in Row
    BY <1>1 DEF RefreshPayload
  <2>2. points[d] = Recorded(rows[d]) =>
          points'[d] = Recorded([rows[d] EXCEPT !.schema = under.schema])
    BY <1>1, <2>1, RepaintedRow DEF RefreshPayload
  <2>3. \A e \in Docs \ {d} : points'[e] = points[e]
    BY <1>1 DEF RefreshPayload
  <2>4. /\ UNCHANGED <<rows, under, hurt, pending, queue, emptied, unindexable, todo, cur>>
        /\ phase = "payload" /\ phase' = "remeta"
    BY <1>1 DEF RefreshPayload
  <2>. QED
    BY <2>1, <2>2, <2>3, <2>4
<1>2. ASSUME RefreshMeta PROVE PointInv'
  BY <1>2 DEF RefreshMeta
<1>3. ASSUME RefreshLinks PROVE PointInv'
  BY <1>3 DEF RefreshLinks, LinksFail, Strike
<1>4. ASSUME RefreshRow PROVE PointInv'
  <2>. DEFINE d == cur.doc
              r == [rows[d] EXCEPT !.schema = under.schema, !.mtime = cur.mtime]
  <2>1. d \in Docs /\ rows[d] \in Row /\ under.schema \in Schemas /\ cur.mtime \in Nat
    BY <1>4 DEF RefreshRow, Conf
  <2>2. /\ r \in Row /\ r.count = rows[d].count
        /\ Recorded(r) = Recorded([rows[d] EXCEPT !.schema = under.schema])
    <3>1. r \in Row /\ r.count = rows[d].count
      BY <2>1 DEF Row
    <3>2. Recorded(r) = Recorded([rows[d] EXCEPT !.schema = under.schema])
      <4>. HIDE DEF TypeInv, ListInv, PointInv
      <4>. QED
        BY <2>1, RecordedSchema
    <3>. QED
      BY <3>1, <3>2
  <2>3. rows' = [rows EXCEPT ![d] = r]
    BY <1>4, <2>1 DEF RefreshRow, Row
  <2>4. d \notin hurt => points[d] = Recorded(r)
    BY <1>4, <2>2 DEF RefreshRow
  <2>. HIDE DEF r
  <2>5. \A e \in Docs : OldCount(e)' = OldCount(e)
    BY <2>1, <2>2, <2>3, ConstantsAssumption
  <2>6. /\ UNCHANGED <<points, under, hurt, pending, queue, emptied, unindexable, todo>>
        /\ phase = "rehash" /\ phase' = "scan"
    BY <1>4 DEF RefreshRow
  <2>7. RowTrust'
    BY <2>1, <2>3, <2>4, <2>6
  <2>8. PurgeInv'
    BY <2>5, <2>6
  <2>. QED
    BY <2>6, <2>7, <2>8
<1>5. ASSUME RefreshFails PROVE PointInv'
  BY <1>5 DEF RefreshFails, NoFile, Strike, HalfDoneDocs, HalfDone
<1>. QED
  BY <1>1, <1>2, <1>3, <1>4, <1>5

LEMMA FlushPoints ==
  ASSUME TypeInv, ListInv, PointInv
  PROVE  /\ \A f \in queue : TrimTail(f) \/ RecordRow(f) => PointInv'
         /\ UpsertPoints \/ RecordMeta \/ RecordLinks \/ EndFlush => PointInv'
<1>. USE DEF TypeInv, TypeOK, CurInv, File, Refreshing, ListInv, BeforeScan, AfterScan, Flushing,
     OldCount, source, stores, lists, run, ghosts, PointInv, RowTrust, FlushInv,
     RefreshInv, PurgeInv, RowOf, Count, Upserted, PointOf, InDoubt
<1>1. ASSUME UpsertPoints PROVE PointInv'
  <2>1. /\ UNCHANGED <<rows, under, hurt, pending, emptied, unindexable, todo, cur>>
        /\ phase = "scan" /\ phase' = "trim" /\ queue' = pending
    BY <1>1 DEF UpsertPoints
  <2>2. ASSUME NEW f \in pending PROVE PendingFor(f.doc) = f
    BY DEF PendingFor
  <2>3. ASSUME NEW f \in pending, f.doc \notin hurt
        PROVE  points'[f.doc] = Upserted(Recorded(rows[f.doc]), f.hash)
    BY <1>1, <2>1, <2>2, <2>3 DEF UpsertPoints
  <2>4. ASSUME NEW d \in Docs, \A f \in pending : f.doc # d PROVE points'[d] = points[d]
    BY <1>1, <2>4 DEF UpsertPoints
  <2>5. RowTrust'
    BY <2>1, <2>4
  <2>6. FlushInv'
    BY <2>1, <2>3
  <2>. QED
    BY <2>1, <2>5, <2>6
<1>2. ASSUME NEW f \in queue, TrimTail(f) PROVE PointInv'
  <2>1. /\ UNCHANGED <<rows, under, pending, emptied, unindexable, todo, cur>>
        /\ phase = "trim" /\ f \in pending /\ f.doc \in Docs
        /\ \A d \in Docs \ {f.doc} : points'[d] = points[d]
        /\ hurt \subseteq hurt'
    BY <1>2 DEF TrimTail
  <2>2. f.doc \notin hurt' => points'[f.doc] = Recorded(RowOf(f))
    <3>. SUFFICES ASSUME f.doc \notin hurt' PROVE points'[f.doc] = Recorded(RowOf(f))
      OBVIOUS
    <3>1. points' = [points EXCEPT ![f.doc] = Trimmed(@, Count(f.hash), f.old)]
      BY <1>2 DEF TrimTail
    <3>2. points[f.doc] = Upserted(Recorded(rows[f.doc]), f.hash)
      BY <2>1
    <3>3. rows[f.doc] \in Row \cup {None} /\ f.old = OldCount(f.doc) /\ f \in File
      BY <2>1
    <3>. HIDE DEF Upserted, RowOf, TypeOK
    <3>4. Trimmed(Upserted(Recorded(rows[f.doc]), f.hash), Count(f.hash), f.old)
            = Recorded(RowOf(f))
      BY <3>3, ReplacedRow DEF TypeInv
    <3>5. points'[f.doc] = Trimmed(points[f.doc], Count(f.hash), f.old)
      BY <2>1, <3>1 DEF TypeOK
    <3>. QED
      BY <3>2, <3>4, <3>5
  <2>3. RowOf(f)' = RowOf(f) /\ \A g \in pending : RowOf(g)' = RowOf(g)
    BY <2>1
  <2>4. /\ \A g \in pending \ {f} : g.doc # f.doc
        /\ \/ queue' = queue \ {f} /\ phase' = "trim"
           \/ queue = {f} /\ queue' = pending /\ phase' = "record"
    BY <1>2, <2>1 DEF TrimTail
  <2>5. RowTrust'
    BY <2>1, <2>4
  <2>6. ASSUME NEW g \in pending, g \notin queue \/ g = f, g.doc \notin hurt'
        PROVE  points'[g.doc] = Recorded(RowOf(g))
    <3>1. CASE g = f
      BY <2>2, <2>6, <3>1
    <3>2. CASE g # f
      <4>1. g.doc # f.doc /\ g.doc \in Docs /\ g.doc \notin hurt /\ g \notin queue
        BY <2>1, <2>4, <2>6, <3>2
      <4>. QED
        BY <2>1, <4>1
    <3>. QED
      BY <3>1, <3>2
  <2>7. ASSUME NEW g \in queue \ {f}, g.doc \notin hurt'
        PROVE  points'[g.doc] = Upserted(Recorded(rows[g.doc]), g.hash)
    <3>1. g \in pending /\ g.doc # f.doc /\ g.doc \in Docs /\ g.doc \notin hurt
      BY <2>1, <2>4, <2>7
    <3>. QED
      BY <2>1, <2>7, <3>1
  <2>8. FlushInv'
    <3>1. CASE queue' = queue \ {f} /\ phase' = "trim"
      BY <2>1, <2>6, <2>7, <3>1
    <3>2. CASE queue = {f} /\ queue' = pending /\ phase' = "record"
      BY <2>1, <2>6, <3>2
    <3>. QED
      BY <2>4, <3>1, <3>2
  <2>9. RefreshInv' /\ PurgeInv'
    BY <2>1, <2>4
  <2>. QED
    BY <2>5, <2>8, <2>9
<1>3. ASSUME NEW f \in queue, RecordRow(f) PROVE PointInv'
  <2>1. /\ UNCHANGED <<points, under, pending, emptied, unindexable, todo>>
        /\ phase = "record" /\ f \in pending /\ f \in File /\ f.doc \in Docs
        /\ queue' = queue \ {f}
        /\ \A d \in Docs \ {f.doc} : rows'[d] = rows[d]
        /\ hurt \subseteq hurt' /\ phase' \in {"record", "meta"}
    BY <1>3 DEF RecordRow
  <2>2. f.doc \notin hurt' => points[f.doc] = Recorded(rows'[f.doc])
    BY <1>3, <2>1 DEF RecordRow
  <2>3. \A g \in pending \ {f} : g.doc # f.doc
    BY <2>1
  <2>4. RowTrust'
    BY <2>1, <2>2, <2>3
  <2>5. FlushInv'
    BY <2>1
  <2>6. RefreshInv' /\ PurgeInv'
    BY <2>1
  <2>. QED
    BY <2>4, <2>5, <2>6
<1>4. ASSUME RecordMeta PROVE PointInv'
  BY <1>4 DEF RecordMeta, NoFile, Strike
<1>5. ASSUME RecordLinks PROVE PointInv'
  BY <1>5 DEF RecordLinks, NoFile, LinksFail, Strike
<1>6. ASSUME EndFlush PROVE PointInv'
  BY <1>6 DEF EndFlush
<1>. QED
  BY <1>1, <1>2, <1>3, <1>4, <1>5, <1>6

LEMMA CleanupPoints ==
  ASSUME TypeInv, ListInv, PointInv
  PROVE  Backfill \/ Purge => PointInv'
<1>. USE DEF TypeInv, TypeOK, CurInv, File, Refreshing, ListInv, BeforeScan, AfterScan, Flushing,
     OldCount, source, stores, lists, run, ghosts, PointInv, RowTrust, FlushInv,
     RefreshInv, PurgeInv, RowOf, Count, Upserted, PointOf, InDoubt
<1>1. ASSUME NEW d \in backfill, BackfillMeta(d) PROVE PointInv'
  BY <1>1 DEF BackfillMeta, NoFile, Strike
<1>2. ASSUME BackfillLinks PROVE PointInv'
  BY <1>2 DEF BackfillLinks, NoFile, LinksFail, Strike
<1>3. ASSUME EndBackfill PROVE PointInv'
  BY <1>3 DEF EndBackfill
<1>4. ASSUME PurgePoints PROVE PointInv'
  BY <1>4 DEF PurgePoints, PurgeList
<1>5. ASSUME PurgeRow PROVE PointInv'
  <2>. DEFINE d == cur.doc
  <2>1. /\ UNCHANGED <<points, under, pending, queue, emptied, unindexable>>
        /\ phase = "unrow" /\ phase' = "unmeta" /\ d \in Docs /\ d \in todo
        /\ todo' = todo \ {d} /\ hurt' = hurt \ {d} /\ pending = {} /\ queue = {}
        /\ rows' = [rows EXCEPT ![d] = None]
    BY <1>5 DEF PurgeRow
  <2>2. points[d] = NoPoints /\ rows'[d] = None /\ Recorded(rows'[d]) = NoPoints
    BY <2>1, RecordedNone
  <2>3. RowTrust'
    BY <2>1, <2>2
  <2>4. \A e \in Docs \ {d} : OldCount(e)' = OldCount(e)
    BY <2>1
  <2>5. PurgeInv'
    BY <2>1, <2>2, <2>4
  <2>. QED
    BY <2>1, <2>3, <2>5
<1>6. ASSUME EndPurge PROVE PointInv'
  BY <1>6 DEF EndPurge
<1>7. ASSUME NEW d \in todo, PurgeMeta(d) PROVE PointInv'
  BY <1>7 DEF PurgeMeta, NoFile
<1>8. ASSUME NEW d \in todo, PurgeFails(d) PROVE PointInv'
  BY <1>8 DEF PurgeFails, NoFile, Strike
<1>9. ASSUME NEW f \in emptied, RecordEmpty(f) PROVE PointInv'
  <2>. DEFINE d == f.doc
  <2>1. /\ UNCHANGED <<points, under, pending, queue, hurt, phase, todo, unindexable, cur>>
        /\ phase = "purge" /\ d \in Docs /\ f \in File
        /\ unindexable = {} /\ emptied' \subseteq emptied
        /\ rows' = rows \/ rows' = [rows EXCEPT ![d] = RowOf(f)]
    BY <1>9 DEF RecordEmpty, PurgeList
  <2>2. Recorded(rows[d]) = NoPoints /\ Count(f.hash) = 0
    BY <2>1, RecordedOldCount
  <2>3. RowOf(f) \in Row /\ RowOf(f).count = 0
    BY <2>1, <2>2, RowOfType
  <2>4. Recorded(RowOf(f)) = NoPoints /\ RowOf(f) # None
    BY <2>3, RecordedNoChunks, ConstantsAssumption
  <2>. HIDE DEF RowOf
  <2>5. /\ \A e \in Docs : Recorded(rows'[e]) = Recorded(rows[e])
        /\ \A e \in Docs : OldCount(e) = 0 => OldCount(e)' = 0
    BY <2>1, <2>2, <2>3, <2>4
  <2>6. RowTrust'
    BY <2>1, <2>5
  <2>7. PurgeInv'
    BY <2>1, <2>5
  <2>. QED
    BY <2>1, <2>6, <2>7
<1>. QED
  BY <1>1, <1>2, <1>3, <1>4, <1>5, <1>6, <1>7, <1>8, <1>9 DEF Backfill, Purge

LEMMA InitPoints == Init => PointInv
  BY RecordedNone, ConstantsAssumption
  DEF Init, PointInv, RowTrust, FlushInv, RefreshInv, PurgeInv, Refreshing, Flushing

LEMMA StepPoints == ASSUME TypeInv, ListInv, PointInv, [Next]_vars PROVE PointInv'
<1>1. ASSUME NEW paths \in SUBSET Docs, ScopedRun(paths) PROVE PointInv'
  BY <1>1, BetweenRunsPoints DEF ScopedRun
<1>2. CASE FullReindex \/ Sweep
  <2>1. Discovered \subseteq Docs /\ DirtyDocs \subseteq Docs
    BY DEF Discovered, DirtyDocs, Orphans, Unrecorded, ExcludedPresent
  <2>. QED
    BY <1>2, <2>1, BetweenRunsPoints DEF FullReindex, Sweep
<1>3. CASE Environment \/ Crash \/ RunFails
  BY <1>3, BetweenRunsPoints
<1>4. CASE RunStep
  BY <1>4, BetweenRunsPoints, DecisionPoints, RefreshPoints, FlushPoints, CleanupPoints
  DEF RunStep, Scan, Flush
<1>5. CASE UNCHANGED vars
  BY <1>5, PointFrame DEF vars, stores, run, lists, ghosts
<1>. QED
  BY <1>1, <1>2, <1>3, <1>4, <1>5 DEF Next

-----------------------------------------------------------------------------
(* The theorems.                                                             *)

\* The inductive invariant of the points holds in every reachable state.
THEOREM Invariance == Spec => []IInv
<1>1. Init => IInv
  BY InitType, InitList, InitPoints DEF IInv
<1>2. IInv /\ [Next]_vars => IInv'
  BY StepType, StepList, StepPoints DEF IInv
<1>. QED
  BY <1>1, <1>2, PTL DEF Spec

\* Every row can be trusted: whatever is edited, reloaded, interrupted or failed, in any
\* order, outside the writes of a run a document's points are the chunks its row claims,
\* unless one of the faults the README lists struck that document half way.
THEOREM RowsCanBeTrusted == Spec => []RowTrust
<1>1. IInv => RowTrust
  BY DEF IInv, PointInv
<1>. QED
  BY <1>1, Invariance, PTL

LEMMA TrustMakesTheCountsEqual ==
  ASSUME TypeOK, RowTrust, phase = "idle", hurt = {}
  PROVE  Claimed = Live
<1>1. ASSUME NEW d \in Docs PROVE points[d] = Recorded(rows[d])
  BY <1>1 DEF RowTrust, InDoubt
<1>2. ASSUME NEW d \in Docs, NEW i \in Index
      PROVE  i < OldCount(d) <=> points[d][i] # None
  <2>1. CASE rows[d] = None
    <3>1. i \in Nat /\ points[d] = NoPoints
      BY <1>1, <2>1, RecordedNone DEF Index
    <3>. QED
      BY <2>1, <3>1 DEF OldCount, NoPoints
  <2>2. CASE rows[d] # None
    <3>1. rows[d] \in Row
      BY <2>2 DEF TypeOK
    <3>2. [hash |-> rows[d].hash, chunking |-> rows[d].chunking,
           payload |-> Payload[rows[d].schema]] # None
      BY <3>1, ConstantsAssumption DEF Row, Point
    <3>3. Recorded(rows[d])[i] = IF i < rows[d].count
                                 THEN [hash |-> rows[d].hash, chunking |-> rows[d].chunking,
                                       payload |-> Payload[rows[d].schema]]
                                 ELSE None
      BY <2>2 DEF Recorded
    <3>4. points[d] = Recorded(rows[d]) /\ OldCount(d) = rows[d].count
      BY <1>1, <2>2 DEF OldCount
    <3>. QED
      BY <3>2, <3>3, <3>4
  <2>. QED
    BY <2>1, <2>2
<1>. QED
  BY <1>2 DEF Claimed, Live

\* A sweep never rebuilds a sound index: with no document left out of step by a fault,
\* the points Qdrant counts are those the rows claim, so the wipe detector, which drops
\* the collection, stays quiet for any slack and any number of documents.
THEOREM SweepNeverRebuildsSoundIndex == Spec => RebuildsOnlyDamage
<1>1. ASSUME IInv, Sweep, full' PROVE hurt # {}
  <2>. SUFFICES ASSUME hurt = {} PROVE FALSE
    OBVIOUS
  <2>1. phase = "idle" /\ WipeDetected
    BY <1>1 DEF Sweep, Begin
  <2>2. Claimed = Live
    BY <1>1, <2>1, TrustMakesTheCountsEqual DEF IInv, TypeInv, PointInv
  <2>3. Cardinality(Live) \in Nat
    <3>1. IsFiniteSet(Index)
      <4>1. 0 \in Int /\ MaxChunks - 1 \in Int
        BY ConstantsAssumption
      <4>. QED
        BY <4>1, FS_Interval DEF Index
    <3>2. IsFiniteSet(Docs \X Index)
      BY <3>1, FS_Product, ConstantsAssumption
    <3>3. IsFiniteSet(Live)
      BY <3>2, FS_Subset DEF Live
    <3>. QED
      BY <3>3, FS_CardinalityType
  <2>. QED
    BY <2>1, <2>2, <2>3, ConstantsAssumption DEF WipeDetected
<1>2. IInv => (Sweep /\ full' => hurt # {})
  BY <1>1
<1>. QED
  BY <1>2, Invariance, PTL DEF RebuildsOnlyDamage

-----------------------------------------------------------------------------
(***************************************************************************)
(* What the sweep and the queue rely on: the metadata and the links, the   *)
(* modification times, and the documents a run has dealt with.             *)
(***************************************************************************)
Purging == {"purge", "unmeta", "unrow"}

Listed(d) ==
  \/ d \in missing \cup unindexable \cup backfill
  \/ \E f \in emptied : f.doc = d

\* What is still to be read, in hand or pending is on no other list.
PlaceInv ==
  /\ phase \notin Purging => \A d \in todo : ~Listed(d)
  /\ phase \in {"stat"} \cup Refreshing => ~Listed(cur.doc)
  /\ \A f \in pending : ~Listed(f.doc)
  /\ phase \in {"meta", "links"} => cur \in pending
  /\ phase = "backlinks" => cur.doc \notin backfill
  /\ phase \in BeforeScan => missing = {} /\ unindexable = {}
  /\ phase \in BeforeScan \cup Purging => backfill = {}
  /\ full /\ phase \notin AfterScan => todo \subseteq under.walked

\* The modification time m was taken after the content h was read.
Fresh(d, h, m) ==
  /\ m <= mtime[d]
  /\ m = mtime[d] /\ disk[d] # None /\ Size[disk[d]] = Size[h] /\ d \notin blind
       => h = disk[d]

RowSound(d) ==
  rows[d] # None =>
    /\ rows[d].count = Chunks[<<rows[d].hash, rows[d].chunking>>]
    /\ <<rows[d].schema, rows[d].hash>> \notin Invalid
    /\ Fresh(d, rows[d].hash, rows[d].mtime)

\* Rows, and what is to become one, are of valid contents and dated by them.
RowInv ==
  /\ \A d \in Docs : mtime[d] > 0 /\ RowSound(d)
  /\ \A f \in pending : Valid(f.hash) /\ Count(f.hash) > 0 /\ Fresh(f.doc, f.hash, f.mtime)
  /\ \A f \in emptied : Valid(f.hash) /\ Fresh(f.doc, f.hash, f.mtime)
  /\ phase \in Refreshing =>
       /\ Valid(cur.hash) /\ Fresh(cur.doc, cur.hash, cur.mtime)
       /\ rows[cur.doc].hash = cur.hash /\ rows[cur.doc].chunking = under.chunking
       /\ rows[cur.doc].count > 0

\* The row of d is written and its metadata or links are not, or the reverse.
Between(d) ==
  phase \in {"relinks", "rehash", "meta", "links", "backlinks", "unrow"} /\ d = cur.doc

\* Metadata of the row's content is of its schema, and the links are of that content.
SideSound(d) ==
  /\ OldCount(d) = 0 => meta[d] = None /\ links[d] = None
  /\ rows[d] # None /\ meta[d] # None =>
       (meta[d].hash = rows[d].hash =>
          meta[d].schema = rows[d].schema /\ links[d] = rows[d].hash)

Lagging(d) ==
  /\ rows[d] # None /\ rows[d].count > 0
  /\ rows[d].schema = under.schema /\ rows[d].chunking = under.chunking

SideInv ==
  /\ \A d \in Docs \ hurt : Between(d) \/ SideSound(d)
  /\ phase = "drop" => \A d \in Docs : meta[d] = None /\ links[d] = None
  /\ phase \in {"relinks", "rehash", "links"} => meta[cur.doc] = MetaOf(cur.hash)
  /\ phase = "rehash" /\ cur.doc \notin hurt => links[cur.doc] = cur.hash
  /\ phase \in {"meta", "links"} => rows[cur.doc] = RowOf(cur)
  /\ phase = "unrow" => meta[cur.doc] = None /\ links[cur.doc] = None
  /\ \A d \in backfill :
       Lagging(d) /\ (meta[d] = None \/ meta[d].hash # rows[d].hash)
  /\ phase = "backlinks" =>
       /\ Lagging(cur.doc)
       /\ meta[cur.doc] # None /\ meta[cur.doc].hash = rows[cur.doc].hash =>
            meta[cur.doc] = MetaOf(cur.hash)

\* Not to be indexed as it is, and to be purged for it.
Gone(d) == ~Wanted(d) \/ (~Valid(disk[d]) /\ ~conf.strict)
Doomed(d) ==
  d \in missing \cup unindexable \/ (phase \in {"unmeta", "unrow"} /\ d \in todo)
Waiting == IF phase \in Flushing THEN queue ELSE pending
InHand(d) ==
  phase \in {"stat", "meta", "links", "backlinks"} \cup Refreshing /\ d = cur.doc
Busy(d) ==
  \/ Doomed(d) \/ d \in backfill \/ InHand(d)
  \/ \E f \in Waiting \cup emptied : f.doc = d

\* The row, the metadata and the links of d are what the file on disk asks for.
Matches(d) ==
  LET c == disk[d]
      r == rows[d]
      n == Chunks[<<c, conf.chunking>>]
  IN IF Gone(d) THEN r = None /\ meta[d] = None /\ links[d] = None
     ELSE /\ Valid(c)
          /\ r # None
          /\ r.hash = c /\ r.chunking = conf.chunking /\ r.schema = conf.schema /\ r.count = n
          /\ IF n = 0 THEN meta[d] = None /\ links[d] = None
             ELSE meta[d] = [hash |-> c, schema |-> conf.schema] /\ links[d] = c

\* A settled document is still on its way, for a reason that holds of its file, or done.
FateOf(d) ==
  /\ Doomed(d) => Gone(d) \/ \E f \in emptied : f.doc = d
  /\ \A f \in Waiting \cup emptied : f.doc = d => Wanted(d) /\ f.hash = disk[d]
  /\ InHand(d) => Wanted(d) /\ cur.hash = disk[d]
  /\ d \in backfill => Wanted(d) /\ rows[d].hash = disk[d]
  /\ phase = "backlinks" /\ cur.doc = d =>
       rows[d].hash = disk[d] /\ meta[d] = MetaOf(cur.hash)
  /\ Busy(d) \/ d \in hurt \/ Matches(d)

SettledInv ==
  /\ settled # {} => conf = under /\ phase \notin {"load", "clear", "drop"}
  /\ \A d \in settled : FateOf(d)

-----------------------------------------------------------------------------
(* PlaceInv.                                                                 *)

LEMMA InitPlace == Init => PlaceInv
  BY DEF Init, PlaceInv, Listed, BeforeScan, AfterScan, Refreshing, Purging

LEMMA BetweenRunsPlace ==
  ASSUME TypeInv, ListInv, PlaceInv
  PROVE  /\ Environment => PlaceInv'
         /\ Load \/ ClearState \/ DropCollection \/ Finish => PlaceInv'
         /\ Crash \/ RunFails => PlaceInv'
<1>. USE DEF TypeInv, TypeOK, File, Refreshing, ListInv, BeforeScan, AfterScan, Flushing,
     Purging, PlaceInv, Listed, source, stores, lists, run, ghosts
<1>1. ASSUME NEW d \in Docs, NEW c \in Contents \cup {None}, Edit(d, c) PROVE PlaceInv'
  BY <1>1 DEF Edit
<1>2. ASSUME NEW c \in Configs, Reload(c) PROVE PlaceInv'
  BY <1>2 DEF Reload
<1>3. ASSUME WipeQdrant PROVE PlaceInv'
  BY <1>3 DEF WipeQdrant, Strike
<1>4. ASSUME Load PROVE PlaceInv'
  BY <1>4 DEF Load, Conf
<1>5. ASSUME ClearState PROVE PlaceInv'
  BY <1>5 DEF ClearState
<1>6. ASSUME DropCollection PROVE PlaceInv'
  BY <1>6 DEF DropCollection
<1>7. ASSUME Finish PROVE PlaceInv'
  BY <1>7 DEF Finish, StopRun, NoFile
<1>8. ASSUME Crash \/ RunFails PROVE PlaceInv'
  BY <1>8 DEF Crash, RunFails, StopRun, NoFile, Strike
<1>. QED
  BY <1>1, <1>2, <1>3, <1>4, <1>5, <1>6, <1>7, <1>8 DEF Environment

LEMMA BeginPlace ==
  ASSUME TypeInv, ListInv, PlaceInv
  PROVE  /\ \A paths \in SUBSET Docs : ScopedRun(paths) => PlaceInv'
         /\ FullReindex \/ Sweep => PlaceInv'
<1>. USE DEF TypeInv, TypeOK, Begin, ListInv, BeforeScan, PlaceInv, Listed, source, stores,
     lists, run, ghosts
<1>1. ASSUME NEW paths \in SUBSET Docs, Begin(paths, FALSE) PROVE PlaceInv'
  BY <1>1 DEF Purging, Refreshing, AfterScan
<1>2. ASSUME Begin(Discovered, TRUE) PROVE PlaceInv'
  BY <1>2 DEF Purging, Refreshing, AfterScan, Discovered
<1>3. DirtyDocs \in SUBSET Docs
  BY DEF Discovered, DirtyDocs, Orphans, Unrecorded, ExcludedPresent
<1>. QED
  BY <1>1, <1>2, <1>3 DEF ScopedRun, FullReindex, Sweep

LEMMA ScanPlace ==
  ASSUME TypeInv, ListInv, PlaceInv, Scan
  PROVE  PlaceInv'
<1>. USE DEF TypeInv, TypeOK, CurInv, File, Refreshing, ListInv, BeforeScan, AfterScan,
     Flushing, Purging, PlaceInv, Listed, source, stores, lists, run, ghosts
<1>1. ASSUME NEW d \in Docs, FindMissing(d) \/ ReadFails(d) PROVE PlaceInv'
  BY <1>1 DEF FindMissing, ReadFails, NextPath, Strike
<1>2. ASSUME NEW d \in Docs, ReadFile(d) PROVE PlaceInv'
  BY <1>2 DEF ReadFile, NextPath
<1>3. ASSUME Skip \/ Reject \/ LintFails \/ FindInvalid PROVE PlaceInv'
  BY <1>3 DEF Skip, Reject, LintFails, FindInvalid, Decided, NoFile, Strike
<1>4. ASSUME Refresh PROVE PlaceInv'
  BY <1>4 DEF Refresh, Accepted, Decided, Statted
<1>5. ASSUME FindEmpty \/ Chunk PROVE PlaceInv'
  BY <1>5 DEF FindEmpty, Chunk, Accepted, Decided, NoFile, Statted
<1>6. ASSUME RefreshPayload \/ RefreshMeta \/ RefreshLinks PROVE PlaceInv'
  BY <1>6 DEF RefreshPayload, RefreshMeta, RefreshLinks, LinksFail, Strike
<1>7. ASSUME RefreshRow \/ RefreshFails PROVE PlaceInv'
  BY <1>7 DEF RefreshRow, RefreshFails, NoFile, Strike
<1>8. ASSUME EndScan PROVE PlaceInv'
  BY <1>8 DEF EndScan
<1>. QED
  BY <1>1, <1>2, <1>3, <1>4, <1>5, <1>6, <1>7, <1>8 DEF Scan

LEMMA FlushPlace ==
  ASSUME TypeInv, ListInv, PlaceInv, Flush
  PROVE  PlaceInv'
<1>. USE DEF TypeInv, TypeOK, CurInv, File, Refreshing, ListInv, BeforeScan, AfterScan,
     Flushing, Purging, PlaceInv, Listed, source, stores, lists, run, ghosts
<1>1. ASSUME UpsertPoints \/ EndFlush PROVE PlaceInv'
  BY <1>1 DEF UpsertPoints, EndFlush
<1>2. ASSUME NEW f \in queue, TrimTail(f) PROVE PlaceInv'
  BY <1>2 DEF TrimTail, Strike
<1>3. ASSUME NEW f \in queue, RecordRow(f) PROVE PlaceInv'
  BY <1>3 DEF RecordRow, Strike
<1>4. ASSUME RecordMeta \/ RecordLinks PROVE PlaceInv'
  BY <1>4 DEF RecordMeta, RecordLinks, LinksFail, NoFile, Strike
<1>. QED
  BY <1>1, <1>2, <1>3, <1>4 DEF Flush

LEMMA CleanupPlace ==
  ASSUME TypeInv, ListInv, PlaceInv, Backfill \/ Purge
  PROVE  PlaceInv'
<1>. USE DEF TypeInv, TypeOK, CurInv, File, Refreshing, ListInv, BeforeScan, AfterScan,
     Flushing, Purging, PlaceInv, Listed, source, stores, lists, run, ghosts
<1>1. ASSUME NEW d \in backfill, BackfillMeta(d) PROVE PlaceInv'
  BY <1>1 DEF BackfillMeta, NoFile, Strike
<1>2. ASSUME BackfillLinks \/ EndBackfill PROVE PlaceInv'
  BY <1>2 DEF BackfillLinks, EndBackfill, LinksFail, NoFile, Strike
<1>3. ASSUME PurgePoints \/ PurgeRow \/ EndPurge PROVE PlaceInv'
  BY <1>3 DEF PurgePoints, PurgeList, PurgeRow, EndPurge, NoFile
<1>4. ASSUME NEW d \in todo, PurgeMeta(d) \/ PurgeFails(d) PROVE PlaceInv'
  BY <1>4 DEF PurgeMeta, PurgeFails, NoFile, Strike
<1>5. ASSUME NEW f \in emptied, RecordEmpty(f) PROVE PlaceInv'
  BY <1>5 DEF RecordEmpty, Strike
<1>. QED
  BY <1>1, <1>2, <1>3, <1>4, <1>5 DEF Backfill, Purge

LEMMA StepPlace == ASSUME TypeInv, ListInv, PlaceInv, [Next]_vars PROVE PlaceInv'
<1>1. CASE UNCHANGED vars
  BY <1>1 DEF vars, PlaceInv, Listed, run, lists
<1>. QED
  BY <1>1, BetweenRunsPlace, BeginPlace, ScanPlace, FlushPlace, CleanupPlace
  DEF Next, RunStep

-----------------------------------------------------------------------------
(* RowInv.                                                                   *)

LEMMA StatIsFresh ==
  ASSUME TypeInv, RowInv, Decided,
         NEW d, d = cur.doc, NEW h, h = cur.hash, NEW m, m = Stat(d)
  PROVE  /\ d \in Docs /\ h \in Contents /\ m \in Nat
         /\ Fresh(d, h, m)'
         /\ UNCHANGED <<disk, mtime>> /\ blind \subseteq blind'
<1>1. d \in Docs /\ h \in Contents
  BY DEF Decided, TypeInv, CurInv, File
<1>2. UNCHANGED <<disk, mtime>> /\ blind \subseteq blind'
  BY DEF Decided, source
<1>3. CASE disk[d] = None
  <2>1. m = 0 /\ mtime[d] > 0 /\ mtime[d] \in Nat
    BY <1>1, <1>3 DEF Stat, TypeInv, TypeOK, RowInv
  <2>. QED
    BY <1>1, <1>2, <2>1 DEF Fresh
<1>4. CASE disk[d] # None
  <2>1. d \notin blind' => disk[d] = h \/ Size[disk[d]] # Size[h]
    BY <1>4 DEF Decided, StatMissesTheEdit
  <2>2. m = mtime[d] /\ mtime[d] \in Nat
    BY <1>1, <1>4 DEF Stat, TypeInv, TypeOK
  <2>. QED
    BY <1>1, <1>2, <2>1, <2>2 DEF Fresh
<1>. QED
  BY <1>3, <1>4

\* What is dated stays dated while its file does not change and blind only grows.
LEMMA FreshFrame ==
  ASSUME NEW d, NEW h, NEW m, Fresh(d, h, m), UNCHANGED <<disk, mtime>>, blind \subseteq blind'
  PROVE  Fresh(d, h, m)'
  BY DEF Fresh

LEMMA FreshAfterEdit ==
  ASSUME TypeInv, NEW d \in Docs, NEW c, Edit(d, c),
         NEW e \in Docs, NEW h, NEW m \in Nat, Fresh(e, h, m)
  PROVE  Fresh(e, h, m)'
<1>1. mtime[d] \in Nat /\ mtime' = [mtime EXCEPT ![d] = mtime[d] + 1]
      /\ disk' = [disk EXCEPT ![d] = c] /\ blind' = blind \ {d}
  BY DEF Edit, TypeInv, TypeOK
<1>2. CASE e = d
  <2>1. mtime'[d] = mtime[d] + 1
    BY <1>1 DEF TypeInv, TypeOK
  <2>. QED
    BY <1>1, <1>2, <2>1 DEF Fresh
<1>3. CASE e # d
  BY <1>1, <1>3 DEF Fresh, TypeInv, TypeOK
<1>. QED
  BY <1>2, <1>3

LEMMA InitRow == Init => RowInv
  BY ConstantsAssumption DEF Init, RowInv, RowSound, Refreshing

LEMMA RowFrame ==
  ASSUME RowInv,
         UNCHANGED <<disk, mtime, rows, pending, emptied, under>>, blind \subseteq blind',
         \/ UNCHANGED <<phase, cur>>
         \/ phase' \notin Refreshing
         \/ phase \in Refreshing /\ cur' = cur
  PROVE  RowInv'
<1>. USE DEF RowInv, RowSound, Valid, Count
<1>1. ASSUME NEW d, NEW h, NEW m, Fresh(d, h, m) PROVE Fresh(d, h, m)'
  BY <1>1, FreshFrame
<1>. QED
  BY <1>1

LEMMA BetweenRunsRow ==
  ASSUME TypeInv, ListInv, PointInv, RowInv
  PROVE  /\ Environment => RowInv'
         /\ \A paths \in SUBSET Docs, force \in BOOLEAN : Begin(paths, force) => RowInv'
         /\ Load \/ ClearState \/ DropCollection \/ Finish => RowInv'
         /\ Crash \/ RunFails => RowInv'
<1>. USE DEF source, stores, lists, run, ghosts
<1>1. ASSUME NEW d \in Docs, NEW c \in Contents \cup {None}, Edit(d, c) PROVE RowInv'
  <2>1. \A e \in Docs : \A h : \A m \in Nat : Fresh(e, h, m) => Fresh(e, h, m)'
    BY <1>1, FreshAfterEdit
  <2>2. \A e \in Docs : mtime'[e] > 0
    BY <1>1 DEF Edit, TypeInv, TypeOK, RowInv
  <2>3. UNCHANGED <<rows, pending, emptied, under, phase, cur>>
    BY <1>1 DEF Edit
  <2>4. \A e \in Docs : RowSound(e)'
    BY <2>1, <2>3 DEF RowInv, RowSound, TypeInv, TypeOK, Row
  <2>5. \A f \in pending \cup emptied : Fresh(f.doc, f.hash, f.mtime)'
    BY <2>1 DEF RowInv, TypeInv, TypeOK, File
  <2>6. phase \in Refreshing => Fresh(cur.doc, cur.hash, cur.mtime)'
    BY <2>1, <2>3 DEF RowInv, TypeInv, CurInv, File
  <2>. QED
    BY <2>2, <2>3, <2>4, <2>5, <2>6 DEF RowInv, Valid, Count
<1>2. ASSUME NEW c \in Configs, Reload(c) PROVE RowInv'
  BY <1>2, RowFrame DEF Reload
<1>3. ASSUME WipeQdrant PROVE RowInv'
  BY <1>3, RowFrame DEF WipeQdrant, Strike
<1>4. ASSUME Load \/ \E paths \in SUBSET Docs, force \in BOOLEAN : Begin(paths, force)
      PROVE  RowInv'
  <2>1. pending' = {} /\ emptied' = {} /\ UNCHANGED <<disk, mtime, rows, blind>>
        /\ phase' \notin Refreshing
    BY <1>4 DEF Load, Begin, ListInv, BeforeScan, Refreshing
  <2>. QED
    BY <2>1 DEF RowInv, RowSound, Fresh
<1>5. ASSUME ClearState \/ DropCollection PROVE RowInv'
  <2>1. pending' = {} /\ emptied' = {} /\ UNCHANGED <<disk, mtime, under>>
        /\ phase' \notin Refreshing
    BY <1>5 DEF ClearState, DropCollection, ListInv, BeforeScan, Refreshing
  <2>2. CASE ClearState
    BY <2>1, <2>2 DEF ClearState, RowInv, RowSound
  <2>. QED
    BY <1>5, <2>1, <2>2 DEF DropCollection, RowInv, RowSound, PointInv, PurgeInv
<1>6. ASSUME Crash \/ RunFails \/ Finish PROVE RowInv'
  <2>1. pending' = {} /\ emptied' = {} /\ UNCHANGED <<disk, mtime, rows, blind>>
        /\ phase' \notin Refreshing
    BY <1>6 DEF Crash, RunFails, Finish, StopRun, Refreshing
  <2>. QED
    BY <2>1 DEF RowInv, RowSound, Fresh
<1>. QED
  BY <1>1, <1>2, <1>3, <1>4, <1>5, <1>6 DEF Environment

LEMMA DecisionRow ==
  ASSUME TypeInv, ListInv, PlaceInv, RowInv
  PROVE  /\ \A d \in Docs : FindMissing(d) \/ ReadFails(d) \/ ReadFile(d) => RowInv'
         /\ Skip \/ Reject \/ LintFails \/ FindInvalid \/ EndScan => RowInv'
         /\ Refresh \/ FindEmpty \/ Chunk => RowInv'
<1>. USE DEF source, stores, lists, run, ghosts
<1>1. ASSUME NEW d \in Docs, FindMissing(d) \/ ReadFails(d) \/ ReadFile(d) PROVE RowInv'
  BY <1>1, RowFrame DEF FindMissing, ReadFails, ReadFile, NextPath, Strike, Refreshing
<1>2. ASSUME Reject \/ LintFails \/ FindInvalid \/ EndScan PROVE RowInv'
  BY <1>2, RowFrame DEF Reject, LintFails, FindInvalid, EndScan, Decided, Refreshing
<1>3. ASSUME Decided, NEW d, d = cur.doc, NEW h, h = cur.hash, NEW m, m = Stat(d),
             under' = under
      PROVE  /\ d \in Docs /\ h \in Contents /\ m \in Nat /\ UNCHANGED <<disk, mtime>>
             /\ Fresh(d, h, m)'
             /\ \A e, g, k : Fresh(e, g, k) => Fresh(e, g, k)'
             /\ \A e \in Docs : mtime'[e] > 0
             /\ \A f \in pending \cup emptied : Valid(f.hash)' /\ Fresh(f.doc, f.hash, f.mtime)'
             /\ \A f \in pending : (Count(f.hash) > 0)'
  <2>1. /\ d \in Docs /\ h \in Contents /\ m \in Nat
        /\ Fresh(d, h, m)'
        /\ UNCHANGED <<disk, mtime>> /\ blind \subseteq blind'
    BY <1>3, StatIsFresh
  <2>2. \A e, g, k : Fresh(e, g, k) => Fresh(e, g, k)'
    BY <2>1, FreshFrame
  <2>. QED
    BY <1>3, <2>1, <2>2 DEF RowInv, Valid, Count
<1>4. ASSUME Skip PROVE RowInv'
  <2>1. PICK d, h, m : d = cur.doc /\ h = cur.hash /\ m = Stat(d)
    OBVIOUS
  <2>2. Decided /\ UNCHANGED <<under, pending, emptied>> /\ phase' = "scan"
    BY <1>4 DEF Skip, Decided
  <2>3. rows[d] \in Row /\ rows[d].hash = h
    BY <1>3, <1>4, <2>1, <2>2 DEF Skip, Unchanged, SameChunks, TypeInv, TypeOK
  <2>4. rows' = rows \/ rows' = [rows EXCEPT ![d] = [rows[d] EXCEPT !.mtime = m]]
    BY <1>4, <2>1 DEF Skip
  <2>. DEFINE r == [rows[d] EXCEPT !.mtime = m]
  <2>5. r.hash = h /\ r.mtime = m /\ r.count = rows[d].count /\ r.schema = rows[d].schema
        /\ r.chunking = rows[d].chunking
    BY <2>3 DEF Row
  <2>. HIDE DEF r
  <2>6. /\ rows'[d] = rows[d] \/ rows'[d] = r
        /\ \A e \in Docs \ {d} : rows'[e] = rows[e]
    BY <1>3, <2>1, <2>2, <2>4 DEF TypeInv, TypeOK, r
  <2>7. ASSUME NEW e \in Docs PROVE RowSound(e)'
    <3>1. CASE rows'[e] = rows[e]
      BY <1>3, <2>1, <2>2, <3>1 DEF RowInv, RowSound
    <3>2. CASE e = d /\ rows'[e] = r
      <4>1. RowSound(d) /\ rows[d] # None /\ Fresh(d, h, m)'
        BY <1>3, <2>1, <2>2, <2>3, ConstantsAssumption DEF RowInv
      <4>2. rows'[e].hash = h /\ rows'[e].mtime = m
            /\ rows'[e].count = Chunks[<<rows'[e].hash, rows'[e].chunking>>]
            /\ <<rows'[e].schema, rows'[e].hash>> \notin Invalid
        BY <2>3, <2>5, <3>2, <4>1 DEF RowSound
      <4>. QED
        BY <3>2, <4>1, <4>2 DEF RowSound
    <3>. QED
      BY <2>6, <3>1, <3>2
  <2>. QED
    BY <1>3, <2>1, <2>2, <2>7 DEF RowInv, Refreshing
<1>5. ASSUME Refresh \/ FindEmpty \/ Chunk PROVE RowInv'
  <2>1. PICK d, h, m : d = cur.doc /\ h = cur.hash /\ m = Stat(d)
    OBVIOUS
  <2>2. Decided /\ Accepted /\ UNCHANGED <<under, rows>>
    BY <1>5 DEF Refresh, FindEmpty, Chunk, Accepted, Decided
  <2>3. \A e \in Docs : RowSound(e)'
    BY <1>3, <2>1, <2>2 DEF RowInv, RowSound
  <2>4. Valid(h)' /\ Statted \in File /\ Statted.doc = d /\ Statted.hash = h /\ Statted.mtime = m
    BY <2>1, <2>2, StattedType DEF Accepted, Decided, Valid, Statted, File
  <2>5. CASE Refresh
    <3>1. cur' = Statted /\ UNCHANGED <<pending, emptied, rows>>
      BY <2>5 DEF Refresh
    <3>2. rows[d].hash = h /\ rows[d].chunking = under.chunking /\ rows[d].count > 0
      BY <2>1, <2>5 DEF Refresh, MayRefresh, SameChunks
    <3>. QED
      BY <1>3, <2>1, <2>2, <2>3, <2>4, <3>1, <3>2 DEF RowInv
  <2>6. CASE FindEmpty
    BY <1>3, <2>1, <2>2, <2>3, <2>4, <2>6 DEF FindEmpty, RowInv, Refreshing
  <2>7. CASE Chunk
    BY <1>3, <2>1, <2>2, <2>3, <2>4, <2>7 DEF Chunk, RowInv, Refreshing, Count
  <2>. QED
    BY <1>5, <2>5, <2>6, <2>7
<1>. QED
  BY <1>1, <1>2, <1>4, <1>5

LEMMA RefreshRowInv ==
  ASSUME TypeInv, ListInv, PlaceInv, RowInv
  PROVE  /\ RefreshPayload \/ RefreshMeta \/ RefreshLinks => RowInv'
         /\ RefreshRow \/ RefreshFails => RowInv'
<1>. USE DEF source, stores, lists, run, ghosts
<1>1. ASSUME RefreshPayload \/ RefreshMeta \/ RefreshLinks \/ RefreshFails PROVE RowInv'
  BY <1>1, RowFrame
  DEF RefreshPayload, RefreshMeta, RefreshLinks, RefreshFails, LinksFail, Strike, Refreshing
<1>2. ASSUME RefreshRow PROVE RowInv'
  <2>. DEFINE d == cur.doc
              r == [rows[d] EXCEPT !.schema = under.schema, !.mtime = cur.mtime]
  <2>1. d \in Docs /\ rows[d] \in Row /\ under.schema \in Schemas /\ cur.mtime \in Nat
        /\ cur \in File /\ phase \in Refreshing
    BY <1>2 DEF RefreshRow, Conf, TypeInv, TypeOK, CurInv, Refreshing, File
  <2>2. /\ r.hash = rows[d].hash /\ r.mtime = cur.mtime /\ r.count = rows[d].count
        /\ r.schema = under.schema /\ r.chunking = rows[d].chunking
    BY <2>1 DEF Row
  <2>3. rows' = [rows EXCEPT ![d] = r]
    BY <1>2, <2>1 DEF RefreshRow, Row
  <2>4. UNCHANGED <<disk, mtime, blind, under, pending, emptied>> /\ phase' = "scan"
    BY <1>2 DEF RefreshRow
  <2>5. Valid(cur.hash) /\ rows[d].hash = cur.hash /\ Fresh(d, cur.hash, cur.mtime)
    BY <2>1 DEF RowInv
  <2>. HIDE DEF r
  <2>6. rows' \in [Docs -> Row \cup {None}] /\ rows'[d] = r
        /\ \A e \in Docs \ {d} : rows'[e] = rows[e]
    BY <1>2, <2>1, <2>3, RefreshType DEF TypeInv, TypeOK
  <2>7. ASSUME NEW e \in Docs PROVE RowSound(e)'
    <3>1. CASE e = d
      <4>1. RowSound(d) /\ rows[d] # None
        BY <2>1, ConstantsAssumption DEF RowInv
      <4>2. rows'[e].hash = cur.hash /\ rows'[e].mtime = cur.mtime
            /\ rows'[e].count = Chunks[<<rows'[e].hash, rows'[e].chunking>>]
            /\ <<rows'[e].schema, rows'[e].hash>> \notin Invalid
        BY <2>2, <2>5, <2>6, <3>1, <4>1 DEF RowSound, Valid
      <4>3. PICK h, m : h = cur.hash /\ m = cur.mtime
        OBVIOUS
      <4>4. Fresh(e, h, m)'
        BY <2>4, <2>5, <3>1, <4>3 DEF Fresh
      <4>. QED
        BY <4>2, <4>3, <4>4 DEF RowSound
    <3>2. CASE e # d
      BY <2>4, <2>6, <3>2 DEF RowInv, RowSound, Fresh
    <3>. QED
      BY <3>1, <3>2
  <2>. QED
    BY <2>4, <2>7 DEF RowInv, Fresh, Valid, Count, Refreshing
<1>. QED
  BY <1>1, <1>2

\* The row a pending or an empty file becomes.
LEMMA RowOfIsSound ==
  ASSUME TypeInv, RowInv, NEW f \in pending \cup emptied,
         rows' = [rows EXCEPT ![f.doc] = RowOf(f)], UNCHANGED <<disk, mtime, blind>>
  PROVE  \A d \in Docs : RowSound(d)'
<1>1. f \in File /\ f.doc \in Docs /\ f.hash \in Contents
  BY DEF TypeInv, TypeOK, File
<1>2. /\ RowOf(f).count = Count(f.hash) /\ RowOf(f).hash = f.hash /\ RowOf(f).mtime = f.mtime
      /\ RowOf(f).schema = under.schema /\ RowOf(f).chunking = under.chunking
  BY DEF RowOf
<1>3. rows'[f.doc] = RowOf(f) /\ \A e \in Docs \ {f.doc} : rows'[e] = rows[e]
  BY <1>1 DEF TypeInv, TypeOK
<1>4. RowSound(f.doc)'
  BY <1>2, <1>3 DEF RowInv, RowSound, Fresh, Valid, Count
<1>5. ASSUME NEW e \in Docs, e # f.doc PROVE RowSound(e)'
  BY <1>3, <1>5 DEF RowInv, RowSound, Fresh
<1>. QED
  BY <1>4, <1>5

LEMMA FlushRow ==
  ASSUME TypeInv, ListInv, RowInv, Flush
  PROVE  RowInv'
<1>. USE DEF source, stores, lists, run, ghosts
<1>1. ASSUME UpsertPoints \/ RecordMeta \/ RecordLinks PROVE RowInv'
  BY <1>1, RowFrame DEF UpsertPoints, RecordMeta, RecordLinks, LinksFail, Strike, Refreshing
<1>2. ASSUME EndFlush PROVE RowInv'
  BY <1>2 DEF EndFlush, RowInv, RowSound, Fresh, Valid, Count, Refreshing
<1>3. ASSUME NEW f \in queue, TrimTail(f) PROVE RowInv'
  BY <1>3, RowFrame DEF TrimTail, Strike, Refreshing
<1>4. ASSUME NEW f \in queue, RecordRow(f) PROVE RowInv'
  <2>1. /\ UNCHANGED <<disk, mtime, blind, under, pending, emptied>> /\ f \in pending
        /\ phase' \in {"record", "meta"}
    BY <1>4 DEF RecordRow, ListInv
  <2>2. rows' = rows \/ rows' = [rows EXCEPT ![f.doc] = RowOf(f)]
    BY <1>4 DEF RecordRow
  <2>3. \A d \in Docs : RowSound(d)'
    BY <2>1, <2>2, RowOfIsSound DEF RowInv, RowSound, Fresh
  <2>. QED
    BY <2>1, <2>3 DEF RowInv, Fresh, Valid, Count, Refreshing
<1>. QED
  BY <1>1, <1>2, <1>3, <1>4 DEF Flush

LEMMA CleanupRow ==
  ASSUME TypeInv, ListInv, RowInv, Backfill \/ Purge
  PROVE  RowInv'
<1>. USE DEF source, stores, lists, run, ghosts
<1>1. ASSUME NEW d \in backfill, BackfillMeta(d) PROVE RowInv'
  BY <1>1, RowFrame DEF BackfillMeta, Strike, Refreshing
<1>2. ASSUME BackfillLinks \/ EndBackfill \/ PurgePoints \/ EndPurge PROVE RowInv'
  BY <1>2, RowFrame
  DEF BackfillLinks, EndBackfill, PurgePoints, EndPurge, LinksFail, Strike, Refreshing
<1>3. ASSUME NEW d \in todo, PurgeMeta(d) PROVE RowInv'
  BY <1>3, RowFrame DEF PurgeMeta, Refreshing
<1>4. ASSUME NEW d \in todo, PurgeFails(d) PROVE RowInv'
  BY <1>4 DEF PurgeFails, RowInv, RowSound, Fresh, Valid, Count, Refreshing
<1>5. ASSUME PurgeRow PROVE RowInv'
  <2>1. /\ rows' = [rows EXCEPT ![cur.doc] = None] /\ phase' = "unmeta"
        /\ UNCHANGED <<disk, mtime, blind, under, pending, emptied>>
    BY <1>5 DEF PurgeRow
  <2>. QED
    BY <2>1 DEF RowInv, RowSound, Fresh, Valid, Count, Refreshing, TypeInv, TypeOK
<1>6. ASSUME NEW f \in emptied, RecordEmpty(f) PROVE RowInv'
  <2>1. /\ UNCHANGED <<disk, mtime, blind, under, pending>> /\ emptied' \subseteq emptied
        /\ phase' = "purge"
    BY <1>6 DEF RecordEmpty
  <2>2. rows' = rows \/ rows' = [rows EXCEPT ![f.doc] = RowOf(f)]
    BY <1>6 DEF RecordEmpty
  <2>3. \A d \in Docs : RowSound(d)'
    BY <2>1, <2>2, RowOfIsSound DEF RowInv, RowSound, Fresh
  <2>. QED
    BY <2>1, <2>3 DEF RowInv, Fresh, Valid, Count, Refreshing
<1>. QED
  BY <1>1, <1>2, <1>3, <1>4, <1>5, <1>6 DEF Backfill, Purge

LEMMA StepRow ==
  ASSUME TypeInv, ListInv, PointInv, PlaceInv, RowInv, [Next]_vars PROVE RowInv'
<1>1. ASSUME NEW paths \in SUBSET Docs, ScopedRun(paths) PROVE RowInv'
  BY <1>1, BetweenRunsRow DEF ScopedRun
<1>2. CASE FullReindex \/ Sweep
  <2>1. Discovered \subseteq Docs /\ DirtyDocs \subseteq Docs
    BY DEF Discovered, DirtyDocs, Orphans, Unrecorded, ExcludedPresent
  <2>. QED
    BY <1>2, <2>1, BetweenRunsRow DEF FullReindex, Sweep
<1>3. CASE Environment \/ Crash \/ RunFails
  BY <1>3, BetweenRunsRow
<1>4. CASE RunStep
  BY <1>4, BetweenRunsRow, DecisionRow, RefreshRowInv, FlushRow, CleanupRow DEF RunStep, Scan
<1>5. CASE UNCHANGED vars
  BY <1>5, RowFrame DEF vars, source, stores, run, lists, ghosts
<1>. QED
  BY <1>1, <1>2, <1>3, <1>4, <1>5 DEF Next

-----------------------------------------------------------------------------
(* SideInv.                                                                  *)

LEMMA InitSide == Init => SideInv
  BY ConstantsAssumption DEF Init, SideInv, SideSound, Between

Apart == {"relinks", "rehash", "meta", "links", "backlinks", "unrow"}

\* Steps that write nothing, and put nothing in hand that is written half way.
LEMMA SideFrame ==
  ASSUME SideInv, UNCHANGED <<rows, meta, links>>, hurt \subseteq hurt',
         \/ under' = under /\ backfill' \subseteq backfill
         \/ backfill' = {},
         \/ phase' \notin Apart \cup {"drop"} /\ \A d \in Docs : Between(d) => d \in hurt'
         \/ UNCHANGED <<phase, cur, under>>
  PROVE  SideInv'
<1>. USE DEF SideInv, SideSound, Between, Lagging, OldCount, MetaOf, RowOf, Count, Apart
<1>1. CASE phase' \notin Apart \cup {"drop"} /\ \A d \in Docs : Between(d) => d \in hurt'
  BY <1>1
<1>2. CASE UNCHANGED <<phase, cur, under>>
  BY <1>2
<1>. QED
  BY <1>1, <1>2

LEMMA BetweenRunsSide ==
  ASSUME TypeInv, ListInv, PointInv, PlaceInv, SideInv
  PROVE  /\ Environment => SideInv'
         /\ \A paths \in SUBSET Docs, force \in BOOLEAN : Begin(paths, force) => SideInv'
         /\ Load \/ ClearState \/ DropCollection \/ Finish => SideInv'
         /\ Crash \/ RunFails => SideInv'
<1>. USE DEF source, stores, lists, run, ghosts
<1>1. ASSUME Environment PROVE SideInv'
  <2>1. UNCHANGED <<rows, meta, links, under, backfill, phase, cur>>
    BY <1>1 DEF Environment, Edit, Reload, WipeQdrant
  <2>2. hurt \subseteq hurt'
    BY <1>1 DEF Environment, Edit, Reload, WipeQdrant, TypeInv, TypeOK
  <2>. QED
    BY <2>1, <2>2, SideFrame
<1>2. ASSUME Load \/ \E paths \in SUBSET Docs, force \in BOOLEAN : Begin(paths, force)
      PROVE  SideInv'
  <2>1. UNCHANGED <<rows, meta, links, hurt, cur>> /\ backfill' = {}
        /\ phase \notin Apart \cup {"drop"} /\ phase' \notin Apart \cup {"drop"}
    BY <1>2 DEF Load, Begin, Apart, PlaceInv, BeforeScan
  <2>. QED
    BY <2>1, SideFrame DEF Between, Apart
<1>3. ASSUME ClearState PROVE SideInv'
  <2>1. /\ rows' = [d \in Docs |-> None] /\ meta' = [d \in Docs |-> None]
        /\ links' = [d \in Docs |-> None] /\ backfill' = {} /\ phase' = "drop"
    BY <1>3 DEF ClearState, PlaceInv, BeforeScan
  <2>. QED
    BY <2>1 DEF SideInv, SideSound, Between
<1>4. ASSUME DropCollection PROVE SideInv'
  <2>1. /\ \A d \in Docs : rows'[d] = None /\ meta'[d] = None /\ links'[d] = None
        /\ backfill' = {} /\ phase' = "scan"
    BY <1>4 DEF DropCollection, PlaceInv, BeforeScan, SideInv, PointInv, PurgeInv
  <2>. QED
    BY <2>1 DEF SideInv, SideSound, Between
<1>5. ASSUME Finish PROVE SideInv'
  <2>1. UNCHANGED <<rows, meta, links, hurt>> /\ backfill' = {}
        /\ phase = "purge" /\ phase' = "idle"
    BY <1>5 DEF Finish, StopRun
  <2>. QED
    BY <2>1, SideFrame DEF Between, Apart
<1>6. ASSUME Crash \/ RunFails PROVE SideInv'
  <2>1. UNCHANGED <<rows, meta, links>> /\ backfill' = {} /\ phase' = "idle"
        /\ hurt' = hurt \cup HalfDoneDocs
    BY <1>6 DEF Crash, RunFails, StopRun
  <2>2. \A d \in Docs : Between(d) => d \in hurt'
    BY <2>1 DEF Between, HalfDoneDocs, HalfDone, InDoubt, TypeInv, CurInv
  <2>. QED
    BY <2>1, <2>2, SideFrame DEF Apart
<1>. QED
  BY <1>1, <1>2, <1>3, <1>4, <1>5, <1>6

LEMMA DecisionSide ==
  ASSUME TypeInv, ListInv, PlaceInv, RowInv, SideInv
  PROVE  /\ \A d \in Docs : FindMissing(d) \/ ReadFails(d) \/ ReadFile(d) => SideInv'
         /\ Skip \/ Reject \/ LintFails \/ FindInvalid \/ EndScan => SideInv'
         /\ Refresh \/ FindEmpty \/ Chunk => SideInv'
<1>. USE DEF source, stores, lists, run, ghosts
<1>1. ASSUME NEW d \in Docs, FindMissing(d) \/ ReadFails(d) \/ ReadFile(d) PROVE SideInv'
  BY <1>1, SideFrame DEF FindMissing, ReadFails, ReadFile, NextPath, Strike, Between, Apart
<1>2. ASSUME Reject \/ LintFails \/ FindInvalid \/ EndScan PROVE SideInv'
  BY <1>2, SideFrame DEF Reject, LintFails, FindInvalid, EndScan, Decided, Between, Apart
<1>3. ASSUME FindEmpty \/ Chunk PROVE SideInv'
  BY <1>3, SideFrame DEF FindEmpty, Chunk, Accepted, Decided, Between, Apart
<1>4. ASSUME Refresh PROVE SideInv'
  <2>1. /\ UNCHANGED <<rows, meta, links, hurt, under, backfill>>
        /\ phase = "stat" /\ phase' \in {"payload", "remeta"}
    BY <1>4 DEF Refresh, Accepted, Decided
  <2>. QED
    BY <2>1, SideFrame DEF Between, Apart
<1>5. ASSUME Skip PROVE SideInv'
  <2>. DEFINE d == cur.doc
              r == [rows[d] EXCEPT !.mtime = Stat(d)]
  <2>1. /\ UNCHANGED <<meta, links, hurt, under>> /\ phase = "stat" /\ phase' = "scan"
        /\ Unchanged
    BY <1>5 DEF Skip, Decided
  <2>2. d \in Docs /\ rows[d] \in Row /\ rows[d] # None
    BY <2>1, StattedType DEF Unchanged, SameChunks, TypeInv, TypeOK
  <2>3. /\ r \in Row /\ r.hash = rows[d].hash /\ r.count = rows[d].count
        /\ r.schema = rows[d].schema /\ r.chunking = rows[d].chunking
    BY <2>2, StatType DEF Row, TypeInv
  <2>4. rows' = rows \/ rows' = [rows EXCEPT ![d] = r]
    BY <1>5 DEF Skip
  <2>5. r # None
    BY <2>3, ConstantsAssumption
  <2>. HIDE DEF r
  <2>6. \A e \in Docs :
          /\ rows'[e] = None <=> rows[e] = None
          /\ rows[e] # None => /\ rows'[e].hash = rows[e].hash /\ rows'[e].count = rows[e].count
                               /\ rows'[e].schema = rows[e].schema
                               /\ rows'[e].chunking = rows[e].chunking
    BY <2>2, <2>3, <2>4, <2>5 DEF TypeInv, TypeOK
  <2>7. \A e \in Docs : SideSound(e) => SideSound(e)'
    BY <2>1, <2>6 DEF SideSound, OldCount
  <2>8. \A e \in Docs : Lagging(e) => Lagging(e)'
    BY <2>1, <2>6 DEF Lagging
  <2>9. d \in backfill' /\ d \notin backfill
          => Lagging(d) /\ (meta[d] = None \/ meta[d].hash # rows[d].hash)
    BY <1>5, <2>1, <2>2 DEF Skip, NeedsBackfill, Unchanged, SameChunks, Lagging
  <2>10. backfill' \subseteq backfill \cup {d} /\ backfill \subseteq Docs
    BY <1>5 DEF Skip, TypeInv, TypeOK
  <2>11. \A e \in backfill' : Lagging(e)' /\ (meta'[e] = None \/ meta'[e].hash # rows'[e].hash)
    BY <2>1, <2>2, <2>6, <2>8, <2>9, <2>10 DEF SideInv, Lagging
  <2>12. \A e \in Docs \ hurt : SideSound(e)
    BY <2>1 DEF SideInv, Between
  <2>. QED
    BY <2>1, <2>7, <2>11, <2>12 DEF SideInv
<1>. QED
  BY <1>1, <1>2, <1>3, <1>4, <1>5

LEMMA RefreshSide ==
  ASSUME TypeInv, ListInv, PlaceInv, RowInv, SideInv
  PROVE  /\ RefreshPayload \/ RefreshMeta \/ RefreshLinks => SideInv'
         /\ RefreshRow \/ RefreshFails => SideInv'
<1>. USE DEF source, stores, lists, run, ghosts
<1>1. ASSUME RefreshPayload PROVE SideInv'
  BY <1>1, SideFrame DEF RefreshPayload, Between, Apart
<1>2. ASSUME RefreshMeta PROVE SideInv'
  <2>1. /\ UNCHANGED <<rows, links, under, backfill, cur, hurt>> /\ cur.doc \in Docs
        /\ phase = "remeta" /\ phase' = "relinks" /\ cur.doc \notin backfill
        /\ meta' = [meta EXCEPT ![cur.doc] = MetaOf(cur.hash)]
    BY <1>2 DEF RefreshMeta, TypeInv, CurInv, Refreshing, File, PlaceInv, Listed
  <2>. QED
    BY <2>1 DEF SideInv, SideSound, Between, OldCount, Lagging, MetaOf, TypeInv, TypeOK
<1>3. ASSUME RefreshLinks PROVE SideInv'
  <2>1. /\ UNCHANGED <<rows, meta, under, backfill, cur>> /\ cur.doc \in Docs
        /\ phase = "relinks" /\ phase' = "rehash"
        /\ \/ links' = [links EXCEPT ![cur.doc] = cur.hash] /\ hurt' = hurt
           \/ links' = links /\ hurt' = IF links[cur.doc] = cur.hash THEN hurt
                                        ELSE hurt \cup {cur.doc}
    BY <1>3 DEF RefreshLinks, LinksFail, TypeInv, CurInv, Refreshing, File
  <2>. QED
    BY <2>1 DEF SideInv, SideSound, Between, OldCount, Lagging, MetaOf, TypeInv, TypeOK
<1>4. ASSUME RefreshRow PROVE SideInv'
  <2>0. PICK d : d = cur.doc
    OBVIOUS
  <2>. DEFINE r == [rows[d] EXCEPT !.schema = under.schema, !.mtime = cur.mtime]
  <2>1. d \in Docs /\ rows[d] \in Row /\ under.schema \in Schemas /\ cur.mtime \in Nat
        /\ phase = "rehash"
    BY <1>4, <2>0 DEF RefreshRow, Conf, TypeInv, TypeOK, CurInv, Refreshing, File
  <2>2. /\ r \in Row /\ r.hash = rows[d].hash /\ r.count = rows[d].count
        /\ r.schema = under.schema
    BY <2>0, <2>1 DEF Row
  <2>3. rows' = [rows EXCEPT ![d] = r]
    BY <1>4, <2>0, <2>1 DEF RefreshRow, Row
  <2>4. UNCHANGED <<meta, links, under, backfill, hurt>> /\ phase' = "scan" /\ d \notin backfill
    BY <1>4, <2>0, <2>1 DEF RefreshRow, PlaceInv, Listed, Refreshing
  <2>5. rows[d].hash = cur.hash /\ rows[d].count > 0
    BY <2>0, <2>1 DEF RowInv, Refreshing
  <2>6. meta[d] = MetaOf(cur.hash) /\ (d \notin hurt => links[d] = cur.hash)
    BY <2>0, <2>1 DEF SideInv
  <2>7. r # None
    BY <2>2, ConstantsAssumption
  <2>. HIDE DEF r
  <2>8. d \notin hurt => SideSound(d)'
    BY <2>0, <2>1, <2>2, <2>3, <2>4, <2>5, <2>6, <2>7 DEF SideSound, OldCount, MetaOf, TypeInv, TypeOK
  <2>9. \A e \in Docs \ hurt : e # d => SideSound(e)'
    BY <2>0, <2>1, <2>3, <2>4 DEF SideInv, SideSound, Between, OldCount, TypeInv, TypeOK
  <2>10. \A e \in backfill :
          Lagging(e)' /\ (meta'[e] = None \/ meta'[e].hash # rows'[e].hash)
    BY <2>0, <2>1, <2>3, <2>4 DEF SideInv, Lagging, TypeInv, TypeOK
  <2>. QED
    BY <2>4, <2>8, <2>9, <2>10 DEF SideInv
<1>5. ASSUME RefreshFails PROVE SideInv'
  <2>1. UNCHANGED <<rows, meta, links, under, backfill>> /\ phase' = "scan"
        /\ hurt' = hurt \cup HalfDoneDocs
    BY <1>5 DEF RefreshFails
  <2>2. \A d \in Docs : Between(d) => d \in hurt'
    BY <2>1 DEF Between, HalfDoneDocs, HalfDone, InDoubt, TypeInv, CurInv
  <2>. QED
    BY <2>1, <2>2, SideFrame DEF Apart
<1>. QED
  BY <1>1, <1>2, <1>3, <1>4, <1>5

\* A row that stands for f takes the place of the old one.
LEMMA RowOfCount ==
  ASSUME TypeInv, NEW f \in File
  PROVE  RowOf(f) # None /\ RowOf(f).count = Count(f.hash) /\ RowOf(f).hash = f.hash
         /\ RowOf(f).schema = under.schema /\ RowOf(f).chunking = under.chunking
  BY RowOfType, ConstantsAssumption DEF TypeInv, RowOf

LEMMA FlushSide ==
  ASSUME TypeInv, ListInv, PlaceInv, RowInv, SideInv, Flush
  PROVE  SideInv'
<1>. USE DEF source, stores, lists, run, ghosts
<1>1. ASSUME UpsertPoints \/ EndFlush PROVE SideInv'
  BY <1>1, SideFrame DEF UpsertPoints, EndFlush, Between, Apart
<1>2. ASSUME NEW f \in queue, TrimTail(f) PROVE SideInv'
  <2>1. hurt \subseteq hurt' /\ UNCHANGED <<rows, meta, links, under, backfill>>
        /\ phase = "trim" /\ phase' \in {"trim", "record"}
    BY <1>2 DEF TrimTail
  <2>. QED
    BY <2>1, SideFrame DEF Between, Apart
<1>3. ASSUME NEW f \in queue, RecordRow(f) PROVE SideInv'
  <2>1. /\ UNCHANGED <<meta, links, under, backfill>> /\ phase = "record"
        /\ f \in pending /\ f \in File /\ f.doc \in Docs /\ f.doc \notin backfill
    BY <1>3 DEF RecordRow, ListInv, TypeInv, TypeOK, File, PlaceInv, Listed
  <2>2. CASE rows' = [rows EXCEPT ![f.doc] = RowOf(f)] /\ cur' = f /\ phase' = "meta"
             /\ hurt' = hurt
    <3>1. rows'[f.doc] = RowOf(f) /\ \A d \in Docs \ {f.doc} : rows'[d] = rows[d]
      BY <2>1, <2>2 DEF TypeInv, TypeOK
    <3>2. \A d \in Docs \ hurt : d = f.doc \/ SideSound(d)'
      BY <2>1, <2>2, <3>1 DEF SideInv, Between, SideSound, OldCount
    <3>3. \A d \in backfill : Lagging(d)' /\ (meta'[d] = None \/ meta'[d].hash # rows'[d].hash)
      BY <2>1, <2>2, <3>1 DEF SideInv, Lagging, TypeInv, TypeOK
    <3>. QED
      BY <2>1, <2>2, <3>1, <3>2, <3>3 DEF SideInv, Between, RowOf, Count
  <2>3. CASE UNCHANGED <<rows, cur, phase>> /\ hurt' = hurt \cup {f.doc}
    BY <2>1, <2>3, SideFrame DEF Between, Apart
  <2>. QED
    BY <1>3, <2>2, <2>3 DEF RecordRow
<1>4. ASSUME RecordMeta PROVE SideInv'
  <2>0. PICK f : f = cur
    OBVIOUS
  <2>1. /\ UNCHANGED <<rows, links, under, backfill>> /\ phase = "meta"
        /\ f \in File /\ f.doc \in Docs /\ f \in pending /\ f.doc \notin backfill
        /\ rows[f.doc] = RowOf(f) /\ Count(f.hash) > 0
    BY <1>4, <2>0 DEF RecordMeta, TypeInv, CurInv, File, PlaceInv, Listed, SideInv, RowInv
  <2>2. \A d \in Docs \ hurt : d = f.doc \/ SideSound(d)
    BY <2>0, <2>1 DEF SideInv, Between
  <2>3. CASE meta' = [meta EXCEPT ![f.doc] = MetaOf(f.hash)] /\ phase' = "links"
             /\ UNCHANGED <<cur, hurt>>
    <3>1. meta'[f.doc] = MetaOf(f.hash) /\ \A d \in Docs \ {f.doc} : meta'[d] = meta[d]
      BY <2>1, <2>3 DEF TypeInv, TypeOK
    <3>2. \A d \in Docs \ hurt : d = f.doc \/ SideSound(d)'
      BY <2>1, <2>2, <3>1 DEF SideSound, OldCount
    <3>3. \A d \in backfill : Lagging(d)' /\ (meta'[d] = None \/ meta'[d].hash # rows'[d].hash)
      BY <2>1, <2>3, <3>1 DEF SideInv, Lagging, TypeInv, TypeOK
    <3>. QED
      BY <2>0, <2>1, <2>3, <3>1, <3>2, <3>3 DEF SideInv, Between, RowOf, MetaOf, Count
  <2>4. CASE /\ hurt' = IF meta[f.doc] = None THEN hurt
                        ELSE IF meta[f.doc].hash # f.hash THEN hurt ELSE hurt \cup {f.doc}
             /\ phase' = "record" /\ meta' = meta
    <3>1. f.doc \notin hurt' => SideSound(f.doc)
      BY <2>1, <2>4, RowOfCount DEF SideSound, OldCount
    <3>2. \A d \in Docs \ hurt' : SideSound(d)
      BY <2>2, <2>4, <3>1
    <3>3. \A d \in Docs \ hurt' : SideSound(d)'
      BY <2>1, <2>4, <3>2 DEF SideSound, OldCount
    <3>. QED
      BY <2>1, <2>4, <3>3 DEF SideInv, Lagging
  <2>. QED
    BY <1>4, <2>0, <2>3, <2>4 DEF RecordMeta
<1>5. ASSUME RecordLinks PROVE SideInv'
  <2>0. PICK f : f = cur
    OBVIOUS
  <2>1. /\ UNCHANGED <<rows, meta, under, backfill>> /\ phase = "links" /\ phase' = "record"
        /\ f \in File /\ f.doc \in Docs
        /\ rows[f.doc] = RowOf(f) /\ Count(f.hash) > 0 /\ meta[f.doc] = MetaOf(f.hash)
    BY <1>5, <2>0 DEF RecordLinks, TypeInv, CurInv, File, PlaceInv, SideInv, RowInv
  <2>2. \/ links' = [links EXCEPT ![f.doc] = f.hash] /\ hurt' = hurt
        \/ links' = links /\ hurt' = IF links[f.doc] = f.hash THEN hurt
                                     ELSE hurt \cup {f.doc}
    BY <1>5, <2>0 DEF RecordLinks, LinksFail
  <2>3. /\ f.doc \in hurt' \/ links'[f.doc] = f.hash
        /\ \A d \in Docs \ {f.doc} : links'[d] = links[d]
        /\ hurt \subseteq hurt'
    BY <2>1, <2>2 DEF TypeInv, TypeOK
  <2>4. f.doc \notin hurt' => SideSound(f.doc)'
    BY <2>1, <2>3, RowOfCount DEF SideSound, OldCount, MetaOf
  <2>5. \A d \in Docs \ hurt' : d = f.doc \/ SideSound(d)'
    BY <2>0, <2>1, <2>3 DEF SideInv, Between, SideSound, OldCount
  <2>. QED
    BY <2>1, <2>4, <2>5 DEF SideInv, Lagging
<1>. QED
  BY <1>1, <1>2, <1>3, <1>4, <1>5 DEF Flush

LEMMA BackfillSide ==
  ASSUME TypeInv, ListInv, PlaceInv, SideInv, Backfill
  PROVE  SideInv'
<1>. USE DEF source, stores, lists, run, ghosts
<1>1. ASSUME NEW d \in backfill, BackfillMeta(d) PROVE SideInv'
  <2>1. /\ UNCHANGED <<rows, links, under, hurt>> /\ phase = "backfill"
        /\ backfill' = backfill \ {d} /\ d \in Docs
    BY <1>1 DEF BackfillMeta, TypeInv, TypeOK
  <2>2. Lagging(d) /\ (meta[d] = None \/ meta[d].hash # rows[d].hash)
    BY DEF SideInv
  <2>3. \A e \in Docs \ hurt : SideSound(e)
    BY <2>1 DEF SideInv, Between
  <2>4. CASE UNCHANGED <<meta, cur, phase>>
    BY <2>1, <2>4, SideFrame DEF Between, Apart
  <2>5. CASE /\ meta' = meta \/ meta' = [meta EXCEPT ![d] = MetaOf(disk[d])]
             /\ cur' = [NoFile EXCEPT !.doc = d, !.hash = disk[d]] /\ phase' = "backlinks"
    <3>1. cur'.doc = d /\ cur'.hash = disk[d]
      BY <2>5 DEF NoFile
    <3>2. /\ meta'[d] = meta[d] \/ meta'[d] = MetaOf(disk[d])
          /\ \A e \in Docs \ {d} : meta'[e] = meta[e]
      BY <2>1, <2>5 DEF TypeInv, TypeOK
    <3>3. \A e \in Docs \ hurt : e = d \/ SideSound(e)'
      BY <2>1, <2>3, <3>2 DEF SideSound, OldCount
    <3>4. \A e \in Docs : Lagging(e) => Lagging(e)'
      BY <2>1 DEF Lagging
    <3>5. \A e \in backfill' : Lagging(e)' /\ (meta'[e] = None \/ meta'[e].hash # rows'[e].hash)
      BY <2>1, <3>2, <3>4 DEF SideInv, TypeInv, TypeOK
    <3>6. MetaOf(disk[d]) = [hash |-> disk[d], schema |-> under.schema]
      BY DEF MetaOf
    <3>7. meta'[d] # None /\ meta'[d].hash = rows'[d].hash => meta'[d] = MetaOf(cur.hash)'
      BY <2>1, <2>2, <3>1, <3>2, <3>6 DEF MetaOf
    <3>. QED
      BY <2>1, <2>2, <2>5, <3>1, <3>3, <3>4, <3>5, <3>7 DEF SideInv, Between
  <2>. QED
    BY <1>1, <2>4, <2>5 DEF BackfillMeta
<1>2. ASSUME BackfillLinks PROVE SideInv'
  <2>0. PICK d, h : d = cur.doc /\ h = cur.hash
    OBVIOUS
  <2>1. /\ UNCHANGED <<rows, meta, under, backfill>> /\ phase = "backlinks"
        /\ phase' = "backfill" /\ d \in Docs /\ Lagging(d)
        /\ meta[d] # None /\ meta[d].hash = rows[d].hash => meta[d] = MetaOf(h)
    BY <1>2, <2>0 DEF BackfillLinks, TypeInv, CurInv, SideInv
  <2>2. \/ links' = [links EXCEPT ![d] = h] /\ hurt' = hurt
        \/ links' = links /\ hurt' = IF links[d] = h THEN hurt ELSE hurt \cup {d}
    BY <1>2, <2>0 DEF BackfillLinks, LinksFail
  <2>3. /\ d \in hurt' \/ links'[d] = h
        /\ \A e \in Docs \ {d} : links'[e] = links[e]
        /\ hurt \subseteq hurt'
    BY <2>1, <2>2 DEF TypeInv, TypeOK
  <2>4. d \notin hurt' => SideSound(d)'
    BY <2>1, <2>3 DEF SideSound, OldCount, MetaOf, Lagging
  <2>5. \A e \in Docs \ hurt' : e = d \/ SideSound(e)'
    BY <2>0, <2>1, <2>3 DEF SideInv, Between, SideSound, OldCount
  <2>. QED
    BY <2>1, <2>4, <2>5 DEF SideInv, Lagging
<1>3. ASSUME EndBackfill PROVE SideInv'
  BY <1>3, SideFrame DEF EndBackfill, Between, Apart
<1>. QED
  BY <1>1, <1>2, <1>3 DEF Backfill

LEMMA PurgeSide ==
  ASSUME TypeInv, ListInv, PointInv, PlaceInv, SideInv, Purge
  PROVE  SideInv'
<1>. USE DEF source, stores, lists, run, ghosts
<1>1. ASSUME PurgePoints \/ EndPurge PROVE SideInv'
  BY <1>1, SideFrame DEF PurgePoints, EndPurge, Between, Apart
<1>2. ASSUME NEW d \in todo, PurgeMeta(d) PROVE SideInv'
  <2>1. /\ UNCHANGED <<rows, under, backfill, hurt>> /\ phase = "unmeta" /\ phase' = "unrow"
        /\ backfill = {} /\ cur'.doc = d /\ d \in Docs
        /\ meta' = [meta EXCEPT ![d] = None] /\ links' = [links EXCEPT ![d] = None]
    BY <1>2 DEF PurgeMeta, PlaceInv, Purging, NoFile, TypeInv, TypeOK
  <2>. QED
    BY <2>1 DEF SideInv, SideSound, Between, OldCount, TypeInv, TypeOK
<1>3. ASSUME PurgeRow PROVE SideInv'
  <2>0. PICK d : d = cur.doc
    OBVIOUS
  <2>1. /\ UNCHANGED <<meta, links, under, backfill>> /\ phase = "unrow" /\ phase' = "unmeta"
        /\ backfill = {} /\ d \in Docs /\ rows' = [rows EXCEPT ![d] = None]
        /\ meta[d] = None /\ links[d] = None /\ hurt' = hurt \ {d}
    BY <1>3, <2>0 DEF PurgeRow, PlaceInv, Purging, TypeInv, TypeOK, CurInv, SideInv
  <2>. QED
    BY <2>0, <2>1 DEF SideInv, SideSound, Between, OldCount, TypeInv, TypeOK
<1>4. ASSUME NEW d \in todo, PurgeFails(d) PROVE SideInv'
  <2>1. /\ UNCHANGED <<rows, links, under, backfill>> /\ phase' = "unmeta"
        /\ \/ phase = "unmeta"
           \/ phase = "unrow" /\ d = cur.doc
        /\ backfill = {} /\ d \in Docs /\ hurt' = hurt \cup {d}
        /\ \A e \in Docs \ {d} : meta'[e] = meta[e]
    BY <1>4 DEF PurgeFails, PlaceInv, Purging, TypeInv, TypeOK
  <2>. QED
    BY <2>1 DEF SideInv, SideSound, Between, OldCount
<1>5. ASSUME NEW f \in emptied, RecordEmpty(f) PROVE SideInv'
  <2>1. /\ UNCHANGED <<meta, links, under, backfill, hurt, phase>> /\ phase = "purge"
        /\ f \in File /\ f.doc \in Docs /\ backfill = {} /\ OldCount(f.doc) = 0
        /\ Count(f.hash) = 0
    BY <1>5 DEF RecordEmpty, PlaceInv, Purging, TypeInv, TypeOK, File, PointInv, PurgeInv,
       PurgeList
  <2>2. rows' = rows \/ rows' = [rows EXCEPT ![f.doc] = RowOf(f)]
    BY <1>5 DEF RecordEmpty
  <2>3. \A d \in Docs \ hurt : SideSound(d)
    BY <2>1 DEF SideInv, Between
  <2>4. RowOf(f) # None /\ RowOf(f).count = 0
    BY <2>1, RowOfCount
  <2>5. \A d \in Docs \ hurt : SideSound(d)'
    BY <2>1, <2>2, <2>3, <2>4 DEF SideSound, OldCount, TypeInv, TypeOK
  <2>. QED
    BY <2>1, <2>5 DEF SideInv
<1>. QED
  BY <1>1, <1>2, <1>3, <1>4, <1>5 DEF Purge

LEMMA StepSide ==
  ASSUME TypeInv, ListInv, PointInv, PlaceInv, RowInv, SideInv, [Next]_vars PROVE SideInv'
<1>1. ASSUME NEW paths \in SUBSET Docs, ScopedRun(paths) PROVE SideInv'
  BY <1>1, BetweenRunsSide DEF ScopedRun
<1>2. CASE FullReindex \/ Sweep
  <2>1. Discovered \subseteq Docs /\ DirtyDocs \subseteq Docs
    BY DEF Discovered, DirtyDocs, Orphans, Unrecorded, ExcludedPresent
  <2>. QED
    BY <1>2, <2>1, BetweenRunsSide DEF FullReindex, Sweep
<1>3. CASE Environment \/ Crash \/ RunFails
  BY <1>3, BetweenRunsSide
<1>4. CASE RunStep
  BY <1>4, BetweenRunsSide, DecisionSide, RefreshSide, FlushSide, BackfillSide, PurgeSide
  DEF RunStep, Scan
<1>5. CASE UNCHANGED vars
  BY <1>5, SideFrame DEF vars, source, stores, run, lists, ghosts
<1>. QED
  BY <1>1, <1>2, <1>3, <1>4, <1>5 DEF Next

SoundInv == PlaceInv /\ RowInv /\ SideInv

\* The inductive invariant of rows, metadata and links holds in every reachable state.
THEOREM SoundInvariance == Spec => []SoundInv
<1>1. Init => SoundInv
  BY InitPlace, InitRow, InitSide DEF SoundInv
<1>2. IInv /\ SoundInv /\ [Next]_vars => SoundInv'
  BY StepPlace, StepRow, StepSide DEF IInv, SoundInv
<1>. QED
  BY <1>1, <1>2, Invariance, PTL DEF Spec

LEMMA NotDirtyIsUpToDate ==
  ASSUME IInv, SoundInv, phase = "idle",
         NEW d \in Docs \ (hurt \cup blind \cup Withheld), d \notin DirtyDocs
  PROVE  UpToDate(d)
<1>1. points[d] = Recorded(rows[d]) /\ SideSound(d) /\ RowSound(d)
  BY DEF IInv, PointInv, RowTrust, InDoubt, SoundInv, SideInv, Between, RowInv
<1>2. CASE rows[d] = None
  <2>1. Absent(d)
    BY <1>1, <1>2, RecordedNone DEF Absent, SideSound, OldCount
  <2>2. ~Wanted(d)
    <3>1. d \notin Unrecorded
      BY DEF DirtyDocs
    <3>2. disk[d] = None \/ d \notin conf.walked
      BY <1>2, <3>1 DEF Unrecorded, Discovered
    <3>3. CASE disk[d] # None /\ d \notin conf.walked
      <4>1. ~WalkIsSuspect
        BY <3>3 DEF Withheld
      <4>2. conf.walked # {}
        BY <4>1 DEF WalkIsSuspect, Discovered
      <4>3. conf.purges
        BY <4>2 DEF IInv, TypeInv, TypeOK, Conf
      <4>. QED
        BY <3>3, <4>3 DEF Wanted
    <3>. QED
      BY <3>2, <3>3 DEF Wanted
  <2>. QED
    BY <2>1, <2>2 DEF UpToDate
<1>3. CASE rows[d] # None
  <2>1. disk[d] # None
    BY <1>3 DEF DirtyDocs, Orphans
  <2>2. d \in Discovered
    <3>. SUFFICES ASSUME d \notin Discovered PROVE FALSE
      OBVIOUS
    <3>1. d \notin conf.walked
      BY <2>1 DEF Discovered
    <3>2. d \in ExcludedPresent
      BY <1>3, <2>1 DEF ExcludedPresent
    <3>3. WalkIsSuspect
      BY <3>2 DEF DirtyDocs
    <3>. QED
      BY <2>1, <3>1, <3>3 DEF Withheld
  <2>3. ~RowIsStale(d) /\ Wanted(d)
    BY <1>3, <2>1, <2>2 DEF DirtyDocs, Unrecorded, Discovered, Wanted
  <2>4. rows[d] \in Row
    BY <1>3 DEF IInv, TypeInv, TypeOK
  <2>5. /\ rows[d].chunking = conf.chunking /\ rows[d].schema = conf.schema
        /\ rows[d].hash = disk[d]
    BY <1>1, <1>3, <2>1, <2>3 DEF RowIsStale, RowSound, Fresh
  <2>6. /\ rows[d].count = Chunks[<<disk[d], conf.chunking>>]
        /\ <<conf.schema, disk[d]>> \notin Invalid
    BY <1>1, <1>3, <2>5 DEF RowSound
  <2>. DEFINE r == [hash |-> disk[d], chunking |-> conf.chunking, schema |-> conf.schema,
                    count |-> Chunks[<<disk[d], conf.chunking>>],
                    mtime |-> IF rows[d] = None THEN 0 ELSE rows[d].mtime]
  <2>7. rows[d] = r
    BY <1>3, <2>4, <2>5, <2>6 DEF Row
  <2>8. rows[d].count = 0 => meta[d] = None /\ links[d] = None
    BY <1>1, <1>3 DEF SideSound, OldCount
  <2>9. rows[d].count # 0
          => meta[d] = [hash |-> disk[d], schema |-> conf.schema] /\ links[d] = disk[d]
    <3>. SUFFICES ASSUME rows[d].count # 0
                  PROVE  meta[d] = [hash |-> disk[d], schema |-> conf.schema]
                         /\ links[d] = disk[d]
      OBVIOUS
    <3>1. rows[d].count > 0
      BY <2>4 DEF Row
    <3>2. meta[d] # None /\ meta[d].hash = rows[d].hash
      BY <2>3, <3>1 DEF RowIsStale
    <3>3. meta[d] \in Meta
      BY <3>2 DEF IInv, TypeInv, TypeOK
    <3>. QED
      BY <1>1, <1>3, <2>5, <3>2, <3>3 DEF SideSound, Meta
  <2>. QED
    BY <1>1, <2>3, <2>6, <2>7, <2>8, <2>9 DEF UpToDate
<1>. QED
  BY <1>2, <1>3

\* The reconcile scan needs no file's content: whatever was edited, excluded, reloaded,
\* interrupted or failed before, a document the index is wrong about and the scan does not
\* report is one a fault struck half way, one edited between its read and its stat, or one
\* a suspect walk did not come upon.
THEOREM SweepMissesNothingHolds == Spec => []SweepMissesNothing
<1>1. IInv /\ SoundInv => SweepMissesNothing
  BY NotDirtyIsUpToDate DEF SweepMissesNothing
<1>. QED
  BY <1>1, Invariance, SoundInvariance, PTL

-----------------------------------------------------------------------------
(* SettledInv.                                                               *)

\* The fate of a document a step leaves alone.
LEMMA FateFrame ==
  ASSUME NEW d, FateOf(d), UNCHANGED <<disk, conf, under>>,
         rows'[d] = rows[d], meta'[d] = meta[d], links'[d] = links[d],
         d \in hurt => d \in hurt',
         ~InHand(d), ~InHand(d)',
         Doomed(d)' <=> Doomed(d), d \in backfill' <=> d \in backfill,
         \A f : f.doc = d => (f \in emptied' <=> f \in emptied) /\ (f \in Waiting' <=> f \in Waiting)
  PROVE  FateOf(d)'
<1>1. /\ Gone(d)' <=> Gone(d)
      /\ Wanted(d)' <=> Wanted(d)
      /\ Matches(d)' <=> Matches(d)
  BY DEF Gone, Wanted, Matches, Valid
<1>2. ~(phase = "backlinks" /\ cur.doc = d)' /\ (Busy(d)' <=> Busy(d))
  BY DEF InHand, Busy
<1>. QED
  BY <1>1, <1>2 DEF FateOf

LEMMA InitSettled == Init => SettledInv
  BY DEF Init, SettledInv

LEMMA BetweenRunsSettled ==
  ASSUME TypeInv, ListInv, PlaceInv, SettledInv
  PROVE  /\ Environment => SettledInv'
         /\ \A paths \in SUBSET Docs, force \in BOOLEAN : Begin(paths, force) => SettledInv'
         /\ Load \/ ClearState \/ DropCollection \/ Finish => SettledInv'
         /\ Crash \/ RunFails => SettledInv'
<1>. USE DEF source, stores, lists, run, ghosts
<1>1. ASSUME NEW d \in Docs, NEW c \in Contents \cup {None}, Edit(d, c) PROVE SettledInv'
  <2>1. UNCHANGED <<conf, stores, run, hurt>> /\ settled' = settled \ {d}
        /\ \A e \in Docs \ {d} : disk'[e] = disk[e]
    BY <1>1 DEF Edit, TypeInv, TypeOK
  <2>2. ASSUME NEW e \in settled' PROVE FateOf(e)'
    <3>1. disk'[e] = disk[e] /\ FateOf(e)
      BY <2>1, <2>2 DEF TypeInv, TypeOK, SettledInv
    <3>2. /\ Gone(e)' <=> Gone(e)
          /\ Wanted(e)' <=> Wanted(e)
          /\ Matches(e)' <=> Matches(e)
      BY <2>1, <3>1 DEF Gone, Wanted, Matches, Valid
    <3>3. (InHand(e)' <=> InHand(e)) /\ (Doomed(e)' <=> Doomed(e)) /\ Waiting' = Waiting
          /\ (Busy(e)' <=> Busy(e)) /\ \A h : MetaOf(h)' = MetaOf(h)
      BY <2>1 DEF InHand, Doomed, Waiting, Busy, MetaOf
    <3>. QED
      BY <2>1, <3>1, <3>2, <3>3 DEF FateOf
  <2>. QED
    BY <2>1, <2>2 DEF SettledInv
<1>2. ASSUME NEW c \in Configs, Reload(c) PROVE SettledInv'
  BY <1>2 DEF Reload, SettledInv
<1>3. ASSUME WipeQdrant PROVE SettledInv'
  <2>1. UNCHANGED <<source, rows, meta, links, run, settled>> /\ hurt' = Docs
    BY <1>3 DEF WipeQdrant
  <2>2. ASSUME NEW e \in settled PROVE FateOf(e)'
    <3>1. FateOf(e) /\ e \in hurt'
      BY <2>1, <2>2 DEF TypeInv, TypeOK, SettledInv
    <3>. QED
      BY <2>1, <3>1 DEF FateOf, Gone, Wanted, Valid, InHand, Doomed, Waiting, Busy, MetaOf
  <2>. QED
    BY <2>1, <2>2 DEF SettledInv
<1>4. ASSUME NEW paths, NEW force, Load \/ Begin(paths, force) PROVE SettledInv'
  BY <1>4 DEF Load, Begin, SettledInv
<1>5. ASSUME ClearState \/ DropCollection PROVE SettledInv'
  BY <1>5 DEF ClearState, DropCollection, SettledInv
<1>6. ASSUME Finish PROVE SettledInv'
  <2>1. /\ UNCHANGED <<source, stores, hurt, settled, under>>
        /\ phase = "purge" /\ phase' = "idle" /\ missing = {} /\ unindexable = {}
        /\ emptied = {} /\ emptied' = {} /\ pending' = {} /\ backfill' = {}
        /\ missing' = {} /\ unindexable' = {} /\ todo' = {}
    BY <1>6 DEF Finish, StopRun, PurgeList
  <2>2. pending = {} /\ backfill = {}
    BY <2>1 DEF ListInv, AfterScan, PlaceInv, Purging
  <2>3. ASSUME NEW e \in settled PROVE FateOf(e)'
    BY <2>1, <2>2, <2>3, FateFrame DEF SettledInv, InHand, Refreshing, Doomed, Waiting, Flushing
  <2>. QED
    BY <2>1, <2>3 DEF SettledInv
<1>7. ASSUME Crash \/ RunFails PROVE SettledInv'
  BY <1>7 DEF Crash, RunFails, SettledInv
<1>. QED
  BY <1>1, <1>2, <1>3, <1>4, <1>5, <1>6, <1>7 DEF Environment

\* From the fates of the documents to SettledInv.
LEMMA SettledStep ==
  ASSUME SettledInv, UNCHANGED <<conf, under>>, phase' \notin {"load", "clear", "drop"},
         settled' # {} => conf = under,
         \A d \in settled' : FateOf(d)'
  PROVE  SettledInv'
  BY DEF SettledInv

LEMMA ReadSettled ==
  ASSUME TypeInv, ListInv, PlaceInv, SettledInv, NEW d \in Docs
  PROVE  FindMissing(d) \/ ReadFails(d) \/ ReadFile(d) => SettledInv'
<1>. USE DEF source, stores, lists, run, ghosts
<1>1. ASSUME NextPath(d), UNCHANGED <<disk, conf, under, rows, meta, links, hurt, backfill,
                                    pending, emptied, unindexable>>,
             NEW e \in Docs, FateOf(e), e # d, missing' \subseteq missing \cup {d},
             missing \subseteq missing', phase' \in {"scan", "stat"},
             phase' = "stat" => cur'.doc = d
      PROVE  FateOf(e)'
  <2>1. phase = "scan"
    BY <1>1 DEF NextPath
  <2>. QED
    BY <1>1, <2>1, FateFrame DEF InHand, Refreshing, Doomed, Waiting, Flushing
<1>2. ASSUME NextPath(d)
      PROVE  d \notin missing \cup unindexable \cup backfill
             /\ \A f \in pending \cup emptied : f.doc # d
  BY <1>2 DEF NextPath, PlaceInv, Purging, Listed, ListInv
<1>3. ASSUME settled' = Settle(d)
      PROVE  /\ settled' # {} => conf = under
             /\ \A e \in settled' : e = d \/ (e \in Docs /\ FateOf(e))
  BY <1>3 DEF Settle, SettledInv, TypeInv, TypeOK
<1>4. ASSUME FindMissing(d) PROVE SettledInv'
  <2>1. /\ NextPath(d) /\ settled' = Settle(d) /\ phase = "scan" /\ phase' = "scan"
        /\ UNCHANGED <<disk, conf, under, rows, meta, links, hurt, backfill, pending, emptied,
                       unindexable>>
        /\ missing' = missing \cup {d} /\ (disk[d] = None \/ Excluded(d))
    BY <1>4 DEF FindMissing, NextPath
  <2>2. ASSUME conf = under PROVE FateOf(d)'
    <3>1. Gone(d)' /\ Doomed(d)'
      BY <2>1, <2>2 DEF Gone, Doomed, Wanted, Excluded
    <3>2. ~InHand(d)' /\ d \notin backfill' /\ \A f \in Waiting' \cup emptied' : f.doc # d
      BY <1>2, <2>1 DEF InHand, Refreshing, Waiting, Flushing
    <3>. QED
      BY <2>1, <3>1, <3>2 DEF FateOf, Busy
  <2>3. \A e \in settled' : FateOf(e)'
    BY <1>1, <1>3, <2>1, <2>2
  <2>. QED
    BY <1>3, <2>1, <2>3, SettledStep
<1>5. ASSUME ReadFile(d) PROVE SettledInv'
  <2>1. /\ NextPath(d) /\ settled' = Settle(d) /\ phase = "scan" /\ phase' = "stat"
        /\ UNCHANGED <<disk, conf, under, rows, meta, links, hurt, backfill, pending, emptied,
                       missing, unindexable, full>>
        /\ cur'.doc = d /\ cur'.hash = disk[d] /\ disk[d] # None /\ ~Excluded(d)
    BY <1>5 DEF ReadFile, NextPath
  <2>2. ASSUME conf = under PROVE FateOf(d)'
    <3>1. full => d \in under.walked
      BY <2>1 DEF NextPath, PlaceInv, AfterScan
    <3>2. Wanted(d)' /\ InHand(d)'
      BY <2>1, <2>2, <3>1 DEF Wanted, Excluded, InHand
    <3>3. ~Doomed(d)' /\ d \notin backfill' /\ \A f \in Waiting' \cup emptied' : f.doc # d
      BY <1>2, <2>1 DEF Doomed, Waiting, Flushing
    <3>. QED
      BY <2>1, <3>2, <3>3 DEF FateOf, Busy
  <2>3. \A e \in settled' : FateOf(e)'
    BY <1>1, <1>3, <2>1, <2>2
  <2>. QED
    BY <1>3, <2>1, <2>3, SettledStep
<1>6. ASSUME ReadFails(d) PROVE SettledInv'
  <2>1. /\ phase = "scan" /\ phase' = "scan"
        /\ UNCHANGED <<disk, conf, under, rows, meta, links, hurt, backfill, pending, emptied,
                       missing, unindexable, settled>>
    BY <1>6 DEF ReadFails, NextPath
  <2>2. ASSUME NEW e \in settled PROVE FateOf(e)'
    BY <2>1, <2>2, FateFrame DEF SettledInv, InHand, Refreshing, Doomed, Waiting, Flushing
  <2>. QED
    BY <2>1, <2>2, SettledStep DEF SettledInv
<1>. QED
  BY <1>4, <1>5, <1>6

\* The other documents, when the file in hand is decided upon or done.
LEMMA OthersKeepTheirFate ==
  ASSUME SettledInv, settled \subseteq Docs, NEW d, d = cur.doc,
         UNCHANGED <<disk, conf, under>>,
         hurt \subseteq hurt',
         phase \in {"stat", "meta", "links", "backlinks"} \cup Refreshing,
         phase' \in {"scan", "record", "backfill"} \/ cur'.doc = d,
         phase' \notin {"unmeta", "unrow"},
         \A e \in Docs : e # d =>
            /\ rows'[e] = rows[e] /\ meta'[e] = meta[e] /\ links'[e] = links[e]
            /\ (e \in missing' \cup unindexable' <=> e \in missing \cup unindexable)
            /\ (e \in backfill' <=> e \in backfill)
            /\ \A f : f.doc = e => (f \in emptied' <=> f \in emptied)
                                   /\ (f \in Waiting' <=> f \in Waiting)
  PROVE  \A e \in settled : e # d => FateOf(e)'
<1>. SUFFICES ASSUME NEW e \in settled, e # d PROVE FateOf(e)'
  OBVIOUS
<1>1. FateOf(e) /\ ~InHand(e) /\ ~InHand(e)'
  BY DEF SettledInv, InHand, Refreshing
<1>2. Doomed(e)' <=> Doomed(e)
  BY DEF Doomed, Refreshing
<1>. QED
  BY <1>1, <1>2, FateFrame

LEMMA DecisionSettled ==
  ASSUME TypeInv, ListInv, PlaceInv, RowInv, SideInv, SettledInv
  PROVE  /\ Skip \/ Reject \/ LintFails \/ FindInvalid \/ EndScan => SettledInv'
         /\ Refresh \/ FindEmpty \/ Chunk => SettledInv'
<1>. USE DEF source, stores, lists, run, ghosts
<1>1. PICK d : d = cur.doc
  OBVIOUS
\* What all the decisions share.
<1>2. ASSUME Decided, UNCHANGED hurt, phase' \in {"scan", "payload", "remeta"},
             phase' = "scan" \/ cur'.doc = d,
             \A e \in Docs : e # d => rows'[e] = rows[e],
             backfill \subseteq backfill' /\ backfill' \subseteq backfill \cup {d},
             unindexable \subseteq unindexable' /\ unindexable' \subseteq unindexable \cup {d},
             pending \subseteq pending' /\ emptied \subseteq emptied',
             \A f \in (pending' \ pending) \cup (emptied' \ emptied) : f.doc = d
      PROVE  \A e \in settled : e # d => FateOf(e)'
  <2>1. UNCHANGED <<disk, conf, under, meta, links, missing>> /\ phase = "stat"
    BY <1>2 DEF Decided
  <2>2. Waiting = pending /\ Waiting' = pending'
    BY <1>2, <2>1 DEF Waiting, Flushing
  <2>. QED
    BY <1>1, <1>2, <2>1, <2>2, OthersKeepTheirFate DEF Refreshing, TypeInv, TypeOK
<1>3. ASSUME Decided
      PROVE  /\ UNCHANGED <<disk, conf, under, meta, links, missing>> /\ phase = "stat"
             /\ d \in Docs /\ cur \in File
             /\ d \notin missing \cup unindexable \cup backfill
             /\ \A f \in pending \cup emptied : f.doc # d
             /\ d \in settled => conf = under /\ Wanted(d) /\ cur.hash = disk[d]
             /\ settled # {} => conf = under
  BY <1>1, <1>3 DEF Decided, TypeInv, CurInv, File, PlaceInv, Listed, ListInv, SettledInv, FateOf,
     InHand
<1>4. ASSUME Reject \/ LintFails PROVE SettledInv'
  <2>1. /\ Decided /\ UNCHANGED <<hurt, rows, backfill, unindexable, pending, emptied>>
        /\ phase' = "scan" /\ settled' = settled \ {d}
    BY <1>1, <1>4 DEF Reject, LintFails
  <2>. QED
    BY <1>2, <1>3, <2>1, SettledStep
<1>5. ASSUME FindInvalid PROVE SettledInv'
  <2>1. /\ Decided /\ UNCHANGED <<hurt, rows, backfill, pending, emptied, settled>>
        /\ phase' = "scan" /\ ~Valid(cur.hash) /\ ~under.strict
        /\ unindexable' = IF rows[d] # None \/ meta[d] # None THEN unindexable \cup {d}
                          ELSE unindexable
    BY <1>1, <1>5 DEF FindInvalid
  <2>2. ASSUME d \in settled PROVE FateOf(d)'
    <3>1. Gone(d)'
      BY <1>3, <2>1, <2>2 DEF Gone, Valid
    <3>2. ~InHand(d)' /\ d \notin backfill' /\ Waiting' = pending
      BY <1>3, <2>1 DEF InHand, Refreshing, Waiting, Flushing
    <3>3. CASE d \in unindexable'
      BY <1>3, <2>1, <3>1, <3>2, <3>3 DEF FateOf, Busy, Doomed
    <3>4. CASE d \notin unindexable'
      <4>1. rows[d] = None /\ meta[d] = None
        BY <2>1, <3>4
      <4>2. d \notin hurt => links[d] = None
        BY <1>3, <2>1, <4>1, ConstantsAssumption DEF SideInv, Between, SideSound, OldCount
      <4>3. d \in hurt' \/ Matches(d)'
        BY <1>3, <2>1, <3>1, <4>1, <4>2 DEF Matches
      <4>. QED
        BY <1>3, <2>1, <3>1, <3>2, <4>3 DEF FateOf
    <3>. QED
      BY <3>3, <3>4
  <2>. QED
    BY <1>2, <1>3, <2>1, <2>2, SettledStep
<1>6. ASSUME FindEmpty \/ Chunk PROVE SettledInv'
  <2>1. /\ Decided /\ UNCHANGED <<hurt, rows, backfill, settled>> /\ phase' = "scan"
        /\ \/ /\ emptied' = emptied \cup {Statted} /\ unindexable' = unindexable \cup {d}
              /\ pending' = pending
           \/ pending' = pending \cup {Statted} /\ UNCHANGED <<emptied, unindexable>>
    BY <1>1, <1>6 DEF FindEmpty, Chunk, Accepted
  <2>2. Statted.doc = d /\ Statted.hash = cur.hash
    BY <1>1, <1>3, <2>1 DEF Statted, File
  <2>3. ASSUME d \in settled PROVE FateOf(d)'
    <3>1. Wanted(d)' /\ cur.hash = disk'[d]
      BY <1>3, <2>1, <2>3 DEF Wanted
    <3>2. ~InHand(d)' /\ d \notin backfill' /\ Waiting' = pending'
      BY <1>3, <2>1 DEF InHand, Refreshing, Waiting, Flushing
    <3>3. /\ Doomed(d)' => \E f \in emptied' : f.doc = d
          /\ \A f \in pending' \cup emptied' : f.doc = d => f.hash = cur.hash
          /\ \E f \in pending' \cup emptied' : f.doc = d
      BY <1>3, <2>1, <2>2 DEF Doomed
    <3>4. Busy(d)'
      BY <3>2, <3>3 DEF Busy
    <3>. QED
      BY <2>1, <3>1, <3>2, <3>3, <3>4 DEF FateOf
  <2>. QED
    BY <1>2, <1>3, <2>1, <2>2, <2>3, SettledStep
<1>7. ASSUME Refresh PROVE SettledInv'
  <2>1. /\ Decided /\ UNCHANGED <<hurt, rows, backfill, unindexable, pending, emptied, settled>>
        /\ phase' \in {"payload", "remeta"} /\ cur' = Statted
    BY <1>7 DEF Refresh, Accepted
  <2>2. cur'.doc = d /\ cur'.hash = cur.hash
    BY <1>1, <1>3, <2>1 DEF Statted, File
  <2>3. ASSUME d \in settled PROVE FateOf(d)'
    <3>1. Wanted(d)' /\ cur'.hash = disk'[d] /\ InHand(d)'
      BY <1>3, <2>1, <2>2, <2>3 DEF Wanted, InHand, Refreshing
    <3>2. ~Doomed(d)' /\ d \notin backfill' /\ Waiting' = pending'
      BY <1>3, <2>1 DEF Doomed, Waiting, Flushing
    <3>. QED
      BY <1>3, <2>1, <3>1, <3>2 DEF FateOf, Busy
  <2>. QED
    BY <1>2, <1>3, <2>1, <2>2, <2>3, SettledStep
<1>8. ASSUME Skip PROVE SettledInv'
  <2>1. /\ Decided /\ UNCHANGED <<hurt, unindexable, pending, emptied, settled>>
        /\ phase' = "scan" /\ Unchanged
        /\ rows' = rows \/ rows' = [rows EXCEPT ![d].mtime = Stat(d)]
        /\ backfill' = IF NeedsBackfill THEN backfill \cup {d} ELSE backfill
    BY <1>1, <1>8 DEF Skip
  <2>2. \A e \in Docs : e # d => rows'[e] = rows[e]
    BY <2>1 DEF TypeInv, TypeOK
  <2>3. /\ rows[d] # None /\ rows[d] \in Row /\ rows[d].hash = cur.hash
        /\ rows[d].chunking = under.chunking /\ rows[d].schema = under.schema
    BY <1>1, <1>3, <2>1 DEF Unchanged, SameChunks, TypeInv, TypeOK
  <2>4. /\ rows'[d] # None /\ rows'[d].hash = cur.hash /\ rows'[d].count = rows[d].count
        /\ rows'[d].chunking = under.chunking /\ rows'[d].schema = under.schema
    <3>1. [rows[d] EXCEPT !.mtime = Stat(d)] \in Row
      BY <1>3, <2>1, <2>3, StatType DEF Row, TypeInv
    <3>2. [rows[d] EXCEPT !.mtime = Stat(d)] # None
      BY <3>1, ConstantsAssumption
    <3>. QED
      BY <1>3, <2>1, <2>3, <3>2 DEF TypeInv, TypeOK, Row
  <2>5. ASSUME d \in settled PROVE FateOf(d)'
    <3>1. Wanted(d)' /\ cur.hash = disk[d] /\ conf = under
      BY <1>3, <2>1, <2>5 DEF Wanted
    <3>2. ~InHand(d)' /\ ~Doomed(d)' /\ Waiting' = pending /\ phase' # "backlinks"
      BY <1>3, <2>1 DEF InHand, Refreshing, Waiting, Flushing, Doomed
    <3>3. CASE NeedsBackfill
      <4>1. d \in backfill' /\ Busy(d)'
        BY <2>1, <3>3 DEF Busy
      <4>. QED
        BY <1>3, <2>1, <2>4, <3>1, <3>2, <4>1 DEF FateOf
    <3>4. CASE ~NeedsBackfill
      <4>1. RowSound(d) /\ rows[d].count \in Nat
        BY <1>3, <2>1, <2>3 DEF RowInv, Row
      <4>2. Valid(disk[d])' /\ rows[d].count = Chunks[<<disk[d], conf.chunking>>]
        BY <1>3, <2>1, <2>3, <3>1, <4>1 DEF RowSound, Valid
      <4>3. rows[d].count = 0 \/ (meta[d] # None /\ meta[d].hash = cur.hash)
        BY <1>1, <3>4, <4>1 DEF NeedsBackfill
      <4>4. meta[d] # None => meta[d] \in Meta
        BY <1>3, <2>1 DEF TypeInv, TypeOK
      <4>5. d \notin hurt => SideSound(d)
        BY <1>3, <2>1 DEF SideInv, Between
      <4>6. d \notin hurt =>
              IF rows[d].count = 0 THEN meta[d] = None /\ links[d] = None
              ELSE meta[d] = [hash |-> disk[d], schema |-> conf.schema] /\ links[d] = disk[d]
        BY <2>3, <3>1, <4>3, <4>4, <4>5 DEF SideSound, OldCount, Meta
      <4>7. d \in hurt' \/ Matches(d)'
        BY <1>3, <2>1, <2>4, <3>1, <4>2, <4>6 DEF Matches, Gone
      <4>8. d \notin backfill'
        BY <1>3, <2>1, <3>4
      <4>. QED
        BY <1>3, <2>1, <3>1, <3>2, <4>7, <4>8 DEF FateOf
    <3>. QED
      BY <3>3, <3>4
  <2>. QED
    BY <1>2, <1>3, <2>1, <2>2, <2>5, SettledStep
<1>9. ASSUME EndScan PROVE SettledInv'
  <2>1. /\ phase = "scan" /\ phase' = "backfill"
        /\ UNCHANGED <<disk, conf, under, rows, meta, links, hurt, backfill, pending, emptied,
                       missing, unindexable, settled>>
    BY <1>9 DEF EndScan
  <2>2. ASSUME NEW e \in settled PROVE FateOf(e)'
    BY <2>1, <2>2, FateFrame DEF SettledInv, InHand, Refreshing, Doomed, Waiting, Flushing
  <2>. QED
    BY <2>1, <2>2, SettledStep DEF SettledInv
<1>. QED
  BY <1>4, <1>5, <1>6, <1>7, <1>8, <1>9


\* The file a refresh has in hand.
LEMMA RefreshedFile ==
  ASSUME TypeInv, ListInv, PlaceInv, RowInv, SettledInv, phase \in Refreshing,
         NEW d, d = cur.doc
  PROVE  /\ d \in Docs /\ cur \in File
         /\ d \notin missing \cup unindexable \cup backfill
         /\ \A f \in pending \cup emptied : f.doc # d
         /\ Valid(cur.hash) /\ RowSound(d) /\ rows[d] # None
         /\ rows[d].hash = cur.hash /\ rows[d].chunking = under.chunking /\ rows[d].count > 0
         /\ d \in settled => conf = under /\ Wanted(d) /\ cur.hash = disk[d]
         /\ settled # {} => conf = under
  BY DEF TypeInv, CurInv, File, PlaceInv, Listed, ListInv, RowInv, SettledInv, FateOf, InHand

\* A document in hand that stays in hand.
LEMMA StaysInHand ==
  ASSUME NEW d, FateOf(d), InHand(d), InHand(d)', UNCHANGED <<disk, conf>>, cur'.hash = cur.hash,
         phase' # "backlinks", Doomed(d)' <=> Doomed(d), under' = under,
         d \in backfill' <=> d \in backfill, UNCHANGED <<rows, emptied>>, Waiting' = Waiting
  PROVE  FateOf(d)'
<1>1. (Gone(d)' <=> Gone(d)) /\ (Wanted(d)' <=> Wanted(d)) /\ Busy(d)'
  BY DEF Gone, Wanted, Valid, Busy
<1>. QED
  BY <1>1 DEF FateOf

LEMMA RefreshSettled ==
  ASSUME TypeInv, ListInv, PlaceInv, RowInv, SideInv, SettledInv
  PROVE  /\ RefreshPayload \/ RefreshMeta \/ RefreshLinks => SettledInv'
         /\ RefreshRow \/ RefreshFails => SettledInv'
<1>. USE DEF source, stores, lists, run, ghosts
<1>1. PICK d : d = cur.doc
  OBVIOUS
<1>2. settled \subseteq Docs
  BY DEF TypeInv, TypeOK
\* The three writes before the row's.
<1>3. ASSUME phase \in Refreshing, phase' \in Refreshing, settled' = settled,
             UNCHANGED <<disk, conf, under, rows, cur, pending, emptied, missing, unindexable,
                         backfill>>,
             hurt \subseteq hurt',
             \A e \in Docs : e # d => meta'[e] = meta[e] /\ links'[e] = links[e]
      PROVE  SettledInv'
  <2>1. Waiting' = Waiting
    BY <1>3 DEF Waiting, Flushing, Refreshing
  <2>2. \A e \in settled : e # d => FateOf(e)'
    BY <1>1, <1>2, <1>3, <2>1, OthersKeepTheirFate DEF Refreshing
  <2>3. ASSUME d \in settled PROVE FateOf(d)'
    <3>1. FateOf(d) /\ InHand(d) /\ InHand(d)' /\ (Doomed(d)' <=> Doomed(d))
          /\ phase' # "backlinks"
      BY <1>1, <1>3, <2>3 DEF SettledInv, InHand, Doomed, Refreshing
    <3>. QED
      BY <1>3, <2>1, <3>1, StaysInHand
  <2>4. phase' \notin {"load", "clear", "drop"}
    BY <1>3 DEF Refreshing
  <2>5. settled' # {} => conf = under
    BY <1>3 DEF SettledInv
  <2>. QED
    BY <1>3, <2>2, <2>3, <2>4, <2>5, SettledStep
<1>4. ASSUME RefreshPayload PROVE SettledInv'
  BY <1>3, <1>4 DEF RefreshPayload, Refreshing
<1>5. ASSUME RefreshMeta PROVE SettledInv'
  <2>1. \A e \in Docs : e # d => meta'[e] = meta[e]
    BY <1>1, <1>5 DEF RefreshMeta, TypeInv, TypeOK
  <2>. QED
    BY <1>3, <1>5, <2>1 DEF RefreshMeta, Refreshing
<1>6. ASSUME RefreshLinks PROVE SettledInv'
  <2>1. \A e \in Docs : e # d => links'[e] = links[e]
    BY <1>1, <1>6 DEF RefreshLinks, LinksFail, TypeInv, TypeOK
  <2>2. hurt \subseteq hurt'
    BY <1>6 DEF RefreshLinks, LinksFail
  <2>. QED
    BY <1>3, <1>6, <2>1, <2>2 DEF RefreshLinks, Refreshing
<1>7. ASSUME RefreshRow PROVE SettledInv'
  <2>1. /\ UNCHANGED <<disk, conf, under, meta, links, hurt, pending, emptied, missing,
                       unindexable, backfill, settled>>
        /\ phase = "rehash" /\ phase' = "scan" /\ phase \in Refreshing
    BY <1>7 DEF RefreshRow, Refreshing
  <2>2. /\ d \in Docs /\ cur \in File
        /\ d \notin missing \cup unindexable \cup backfill
        /\ \A f \in pending \cup emptied : f.doc # d
        /\ Valid(cur.hash) /\ RowSound(d) /\ rows[d] # None
        /\ rows[d].hash = cur.hash /\ rows[d].chunking = under.chunking /\ rows[d].count > 0
        /\ d \in settled => conf = under /\ Wanted(d) /\ cur.hash = disk[d]
        /\ settled # {} => conf = under
    BY <1>1, <2>1, RefreshedFile
  <2>3. Waiting = pending /\ Waiting' = pending
    BY <2>1 DEF Waiting, Flushing
  <2>. DEFINE r == [rows[d] EXCEPT !.schema = under.schema, !.mtime = cur.mtime]
  <2>4. rows[d] \in Row /\ under.schema \in Schemas /\ cur.mtime \in Nat
    BY <2>2 DEF TypeInv, TypeOK, Conf, File
  <2>5. /\ r \in Row /\ r.hash = rows[d].hash /\ r.count = rows[d].count
        /\ r.schema = under.schema /\ r.chunking = rows[d].chunking
    BY <2>4 DEF Row
  <2>6. rows' = [rows EXCEPT ![d] = r]
    BY <1>1, <1>7, <2>4 DEF RefreshRow, Row
  <2>7. r # None
    BY <2>5, ConstantsAssumption
  <2>. HIDE DEF r
  <2>8. rows'[d] = r /\ \A e \in Docs : e # d => rows'[e] = rows[e]
    BY <2>2, <2>6 DEF TypeInv, TypeOK
  <2>9. \A e \in settled : e # d => FateOf(e)'
    BY <1>1, <1>2, <2>1, <2>3, <2>8, OthersKeepTheirFate DEF Refreshing
  <2>10. ASSUME d \in settled PROVE FateOf(d)'
    <3>1. Wanted(d)' /\ ~Gone(d)' /\ Valid(disk[d])'
      BY <2>1, <2>2, <2>10 DEF Wanted, Gone, Valid
    <3>2. meta[d] = MetaOf(cur.hash) /\ (d \notin hurt => links[d] = cur.hash)
      BY <1>1, <2>1 DEF SideInv
    <3>3. r.count = Chunks[<<disk[d], conf.chunking>>] /\ r.count # 0
      BY <2>2, <2>5, <2>10 DEF RowSound
    <3>4. d \in hurt' \/ Matches(d)'
      BY <2>1, <2>2, <2>5, <2>7, <2>8, <2>10, <3>1, <3>2, <3>3 DEF Matches, MetaOf
    <3>5. ~InHand(d)' /\ ~Doomed(d)' /\ d \notin backfill'
          /\ (\A f \in Waiting' \cup emptied' : f.doc # d) /\ phase' # "backlinks"
      BY <2>1, <2>2, <2>3 DEF InHand, Doomed, Refreshing
    <3>. QED
      BY <3>4, <3>5 DEF FateOf
  <2>. QED
    BY <2>1, <2>2, <2>9, <2>10, SettledStep
<1>8. ASSUME RefreshFails PROVE SettledInv'
  <2>1. /\ UNCHANGED <<disk, conf, under, rows, meta, links, pending, emptied, missing,
                       unindexable, backfill>>
        /\ phase \in Refreshing /\ phase' = "scan" /\ settled' = settled \ {d}
        /\ hurt \subseteq hurt'
    BY <1>1, <1>8 DEF RefreshFails, Refreshing
  <2>2. Waiting' = Waiting
    BY <2>1 DEF Waiting, Flushing, Refreshing
  <2>3. \A e \in settled : e # d => FateOf(e)'
    BY <1>1, <1>2, <2>1, <2>2, OthersKeepTheirFate DEF Refreshing
  <2>4. settled' # {} => conf = under
    BY <2>1 DEF SettledInv
  <2>. QED
    BY <2>1, <2>3, <2>4, SettledStep
<1>. QED
  BY <1>4, <1>5, <1>6, <1>7, <1>8

\* Every step after the reads is taken with the settings the run works under.
LEMMA FlushSettled ==
  ASSUME TypeInv, ListInv, PlaceInv, RowInv, SideInv, SettledInv, Flush
  PROVE  SettledInv'
<1>. USE DEF source, stores, lists, run, ghosts
<1>1. settled \subseteq Docs /\ (settled # {} => conf = under)
  BY DEF TypeInv, TypeOK, SettledInv
<1>2. ASSUME UpsertPoints PROVE SettledInv'
  <2>1. /\ UNCHANGED <<disk, conf, under, rows, meta, links, hurt, pending, emptied, missing,
                       unindexable, backfill, settled>>
        /\ phase = "scan" /\ phase' = "trim"
    BY <1>2 DEF UpsertPoints
  <2>2. ASSUME NEW e \in settled PROVE FateOf(e)'
    BY <2>1, <2>2, FateFrame DEF SettledInv, InHand, Refreshing, Doomed, Waiting, Flushing
  <2>. QED
    BY <1>1, <2>1, <2>2, SettledStep
<1>3. ASSUME NEW f \in queue, TrimTail(f) PROVE SettledInv'
  <2>1. /\ UNCHANGED <<disk, conf, under, rows, meta, links, pending, emptied, missing,
                       unindexable, backfill>>
        /\ phase = "trim" /\ hurt \subseteq hurt' /\ settled' \subseteq settled
        /\ \/ phase' = "trim"
           \/ phase' = "record" /\ queue' = pending
    BY <1>3 DEF TrimTail
  <2>2. ASSUME NEW e \in settled' PROVE FateOf(e)'
    BY <2>1, <2>2, FateFrame DEF SettledInv, InHand, Refreshing, Doomed, Waiting, Flushing
  <2>. QED
    BY <1>1, <2>1, <2>2, SettledStep
<1>4. ASSUME NEW f \in queue, RecordRow(f) PROVE SettledInv'
  <2>. DEFINE d == f.doc
  <2>1. /\ UNCHANGED <<disk, conf, under, meta, links, pending, emptied, missing, unindexable,
                       backfill>>
        /\ phase = "record" /\ queue' = queue \ {f} /\ hurt \subseteq hurt'
        /\ \/ /\ rows' = [rows EXCEPT ![d] = RowOf(f)] /\ cur' = f /\ phase' = "meta"
              /\ settled' = settled
           \/ rows' = rows /\ phase' = "record" /\ settled' = settled \ {d}
    BY <1>4 DEF RecordRow
  <2>2. f \in pending /\ d \in Docs /\ \A g \in queue : g.doc = d => g = f
    BY DEF ListInv, TypeInv, TypeOK, File
  <2>3. d \notin missing \cup unindexable \cup backfill /\ \A g \in emptied : g.doc # d
    BY <2>2 DEF PlaceInv, Listed
  <2>4. Waiting = queue /\ Waiting' = queue \ {f}
    BY <2>1 DEF Waiting, Flushing
  <2>5. \A e \in Docs : e # d => rows'[e] = rows[e]
    BY <2>1 DEF TypeInv, TypeOK
  <2>6. ASSUME NEW e \in settled', e # d PROVE FateOf(e)'
    <3>1. FateOf(e) /\ rows'[e] = rows[e]
      BY <1>1, <2>1, <2>5, <2>6 DEF SettledInv
    <3>2. ~InHand(e) /\ ~InHand(e)' /\ (Doomed(e)' <=> Doomed(e))
      BY <2>1, <2>6 DEF InHand, Refreshing, Doomed
    <3>. QED
      BY <2>1, <2>4, <2>6, <3>1, <3>2, FateFrame
  <2>7. ASSUME d \in settled' PROVE FateOf(d)'
    <3>1. cur' = f /\ phase' = "meta" /\ FateOf(d)
      BY <2>1, <2>7 DEF SettledInv
    <3>2. Wanted(d)' /\ cur'.hash = disk'[d] /\ InHand(d)'
      BY <2>1, <2>4, <3>1 DEF FateOf, Wanted, InHand
    <3>3. ~Doomed(d)' /\ d \notin backfill' /\ \A g \in Waiting' \cup emptied' : g.doc # d
      BY <2>1, <2>2, <2>3, <2>4, <3>1 DEF Doomed
    <3>. QED
      BY <3>1, <3>2, <3>3 DEF FateOf, Busy
  <2>8. phase' \notin {"load", "clear", "drop"} /\ (settled' # {} => conf = under)
    BY <1>1, <2>1
  <2>. QED
    BY <2>1, <2>6, <2>7, <2>8, SettledStep
<1>5. ASSUME RecordMeta PROVE SettledInv'
  <2>0. PICK d : d = cur.doc
    OBVIOUS
  <2>1. /\ UNCHANGED <<disk, conf, under, rows, links, pending, emptied, missing, unindexable,
                       backfill, queue>>
        /\ phase = "meta" /\ hurt \subseteq hurt'
        /\ \/ phase' = "links" /\ cur' = cur /\ settled' = settled
           \/ phase' = "record" /\ settled' = settled \ {d}
        /\ \A e \in Docs : e # d => meta'[e] = meta[e]
    BY <1>5, <2>0 DEF RecordMeta, TypeInv, TypeOK
  <2>2. Waiting' = Waiting
    BY <2>1 DEF Waiting, Flushing
  <2>3. phase' \in {"scan", "record", "backfill"} \/ cur'.doc = d
    BY <2>0, <2>1
  <2>4. \A e \in settled : e # d => FateOf(e)'
    BY <1>1, <2>0, <2>1, <2>2, <2>3, OthersKeepTheirFate
  <2>5. ASSUME d \in settled' PROVE FateOf(d)'
    <3>1. phase' = "links" /\ cur' = cur /\ FateOf(d)
      BY <2>1, <2>5 DEF SettledInv
    <3>2. InHand(d) /\ InHand(d)' /\ (Doomed(d)' <=> Doomed(d))
      BY <2>0, <2>1, <3>1 DEF InHand, Doomed
    <3>. QED
      BY <2>1, <2>2, <3>1, <3>2, StaysInHand
  <2>6. phase' \notin {"load", "clear", "drop"} /\ (settled' # {} => conf = under)
    BY <1>1, <2>1
  <2>7. settled' \subseteq settled
    BY <2>1
  <2>. QED
    BY <2>1, <2>4, <2>5, <2>6, <2>7, SettledStep
<1>6. ASSUME RecordLinks PROVE SettledInv'
  <2>0. PICK d : d = cur.doc
    OBVIOUS
  <2>1. /\ UNCHANGED <<disk, conf, under, rows, meta, pending, emptied, missing, unindexable,
                       backfill, queue, settled>>
        /\ phase = "links" /\ phase' = "record" /\ hurt \subseteq hurt'
        /\ \/ links' = [links EXCEPT ![d] = cur.hash]
           \/ links' = links /\ (links[d] = cur.hash \/ d \in hurt')
    BY <1>6, <2>0 DEF RecordLinks, LinksFail
  <2>2. Waiting' = Waiting
    BY <2>1 DEF Waiting, Flushing
  <2>3. cur \in pending /\ cur \in File /\ d \in Docs
    BY <2>0, <2>1 DEF PlaceInv, TypeInv, CurInv, File
  <2>4. d \notin missing \cup unindexable \cup backfill /\ \A g \in emptied : g.doc # d
    BY <2>0, <2>3 DEF PlaceInv, Listed
  <2>5. /\ \A e \in Docs : e # d => links'[e] = links[e]
        /\ d \in hurt' \/ links'[d] = cur.hash
    BY <2>1, <2>3 DEF TypeInv, TypeOK
  <2>6. \A e \in settled : e # d => FateOf(e)'
    BY <1>1, <2>0, <2>1, <2>2, <2>5, OthersKeepTheirFate
  <2>7. ASSUME d \in settled PROVE FateOf(d)'
    <3>1. FateOf(d) /\ InHand(d) /\ conf = under
      BY <1>1, <2>0, <2>1, <2>7 DEF SettledInv, InHand
    <3>2. Wanted(d) /\ cur.hash = disk[d]
      BY <3>1 DEF FateOf
    <3>3. Valid(cur.hash) /\ Count(cur.hash) > 0
      BY <2>3 DEF RowInv
    <3>4. rows[d] = RowOf(cur) /\ meta[d] = MetaOf(cur.hash)
      BY <2>0, <2>1 DEF SideInv
    <3>5. /\ RowOf(cur) # None /\ RowOf(cur).count = Count(cur.hash) /\ RowOf(cur).hash = cur.hash
          /\ RowOf(cur).schema = under.schema /\ RowOf(cur).chunking = under.chunking
      BY <2>3, RowOfCount
    <3>6. Wanted(d)' /\ Valid(disk[d])' /\ ~Gone(d)'
      BY <2>1, <3>2, <3>3 DEF Wanted, Valid, Gone
    <3>7. d \in hurt' \/ Matches(d)'
      BY <2>1, <2>5, <3>1, <3>2, <3>3, <3>4, <3>5, <3>6 DEF Matches, Count, MetaOf
    <3>8. ~InHand(d)' /\ ~Doomed(d)' /\ d \notin backfill' /\ phase' # "backlinks"
      BY <2>1, <2>4 DEF InHand, Doomed, Refreshing
    <3>9. \A f \in Waiting' \cup emptied' : f.doc = d => Wanted(d)' /\ f.hash = disk'[d]
      BY <2>1, <2>2, <3>1, <3>6 DEF FateOf
    <3>. QED
      BY <3>7, <3>8, <3>9 DEF FateOf
  <2>. QED
    BY <1>1, <2>1, <2>6, <2>7, SettledStep
<1>7. ASSUME EndFlush PROVE SettledInv'
  <2>1. /\ UNCHANGED <<disk, conf, under, rows, meta, links, hurt, emptied, missing,
                       unindexable, backfill, settled>>
        /\ phase = "record" /\ phase' = "scan" /\ queue = {} /\ pending' = {}
    BY <1>7 DEF EndFlush
  <2>2. ASSUME NEW e \in settled PROVE FateOf(e)'
    BY <2>1, <2>2, FateFrame DEF SettledInv, InHand, Refreshing, Doomed, Waiting, Flushing
  <2>. QED
    BY <1>1, <2>1, <2>2, SettledStep
<1>. QED
  BY <1>2, <1>3, <1>4, <1>5, <1>6, <1>7 DEF Flush

LEMMA BackfillSettled ==
  ASSUME TypeInv, ListInv, PlaceInv, RowInv, SideInv, SettledInv, Backfill
  PROVE  SettledInv'
<1>. USE DEF source, stores, lists, run, ghosts
<1>1. settled \subseteq Docs /\ (settled # {} => conf = under)
  BY DEF TypeInv, TypeOK, SettledInv
<1>2. ASSUME NEW d \in backfill, BackfillMeta(d) PROVE SettledInv'
  <2>1. /\ UNCHANGED <<disk, conf, under, rows, links, hurt, pending, emptied, missing,
                       unindexable>>
        /\ phase = "backfill" /\ backfill' = backfill \ {d} /\ d \in Docs
        /\ \/ phase' = "backfill" /\ meta' = meta
              /\ (disk[d] = None \/ settled' = settled \ {d})
           \/ phase' = "backlinks" /\ cur'.doc = d /\ cur'.hash = disk[d]
              /\ \/ meta' = [meta EXCEPT ![d] = MetaOf(disk[d])]
                 \/ meta' = meta /\ settled' = settled \ {d}
        /\ settled' \subseteq settled
    BY <1>2 DEF BackfillMeta, NoFile, TypeInv, TypeOK
  <2>2. Waiting = pending /\ Waiting' = pending
    BY <2>1 DEF Waiting, Flushing
  <2>3. \A e \in Docs : e # d => meta'[e] = meta[e]
    BY <2>1 DEF TypeInv, TypeOK
  <2>4. ASSUME NEW e \in settled', e # d PROVE FateOf(e)'
    <3>1. FateOf(e) /\ meta'[e] = meta[e]
      BY <1>1, <2>1, <2>3, <2>4 DEF SettledInv
    <3>2. ~InHand(e) /\ ~InHand(e)' /\ (Doomed(e)' <=> Doomed(e))
      BY <2>1, <2>4 DEF InHand, Refreshing, Doomed
    <3>3. e \in backfill' <=> e \in backfill
      BY <2>1, <2>4
    <3>. QED
      BY <2>1, <2>2, <3>1, <3>2, <3>3, FateFrame
  <2>5. ASSUME d \in settled' PROVE FateOf(d)'
    <3>1. FateOf(d) /\ Wanted(d) /\ rows[d].hash = disk[d] /\ disk[d] # None
      BY <2>1, <2>5 DEF SettledInv, FateOf, Wanted
    <3>2. /\ phase' = "backlinks" /\ cur'.doc = d /\ cur'.hash = disk[d]
          /\ meta' = [meta EXCEPT ![d] = MetaOf(disk[d])]
      BY <2>1, <2>5, <3>1
    <3>3. PICK h : h = disk[d]
      OBVIOUS
    <3>4. meta'[d] = MetaOf(h)' /\ cur'.hash = h
      BY <2>1, <3>2, <3>3 DEF TypeInv, TypeOK, MetaOf
    <3>5. Wanted(d)' /\ InHand(d)' /\ d \notin backfill' /\ (Gone(d)' <=> Gone(d))
          /\ (Doomed(d)' <=> Doomed(d))
      BY <2>1, <3>1, <3>2 DEF Wanted, InHand, Gone, Valid, Doomed
    <3>. QED
      BY <2>1, <2>2, <3>1, <3>2, <3>3, <3>4, <3>5 DEF FateOf, Busy
  <2>6. phase' \notin {"load", "clear", "drop"} /\ (settled' # {} => conf = under)
    BY <1>1, <2>1
  <2>. QED
    BY <2>1, <2>4, <2>5, <2>6, SettledStep
<1>3. ASSUME BackfillLinks PROVE SettledInv'
  <2>0. PICK d : d = cur.doc
    OBVIOUS
  <2>1. /\ UNCHANGED <<disk, conf, under, rows, meta, pending, emptied, missing, unindexable,
                       backfill, settled>>
        /\ phase = "backlinks" /\ phase' = "backfill" /\ hurt \subseteq hurt'
        /\ \/ links' = [links EXCEPT ![d] = cur.hash]
           \/ links' = links /\ (links[d] = cur.hash \/ d \in hurt')
    BY <1>3, <2>0 DEF BackfillLinks, LinksFail
  <2>2. Waiting' = Waiting
    BY <2>1 DEF Waiting, Flushing
  <2>3. d \in Docs /\ d \notin backfill
    BY <2>0, <2>1 DEF PlaceInv, TypeInv, CurInv
  <2>4. /\ \A e \in Docs : e # d => links'[e] = links[e]
        /\ d \in hurt' \/ links'[d] = cur.hash
    BY <2>1, <2>3 DEF TypeInv, TypeOK
  <2>5. \A e \in settled : e # d => FateOf(e)'
    BY <1>1, <2>0, <2>1, <2>2, <2>4, OthersKeepTheirFate
  <2>6. ASSUME d \in settled PROVE FateOf(d)'
    <3>1. FateOf(d) /\ InHand(d) /\ conf = under
      BY <1>1, <2>0, <2>1, <2>6 DEF SettledInv, InHand
    <3>2. Wanted(d) /\ cur.hash = disk[d] /\ rows[d].hash = disk[d] /\ meta[d] = MetaOf(cur.hash)
      BY <2>0, <2>1, <3>1 DEF FateOf
    <3>3. /\ rows[d] # None /\ rows[d].count > 0
          /\ rows[d].schema = under.schema /\ rows[d].chunking = under.chunking
      BY <2>0, <2>1 DEF SideInv, Lagging
    <3>4. RowSound(d)
      BY <2>3 DEF RowInv
    <3>5. Valid(disk[d]) /\ rows[d].count = Chunks[<<disk[d], conf.chunking>>]
      BY <3>1, <3>2, <3>3, <3>4 DEF RowSound, Valid
    <3>6. Wanted(d)' /\ Valid(disk[d])' /\ ~Gone(d)'
      BY <2>1, <3>2, <3>5 DEF Wanted, Valid, Gone
    <3>7. d \in hurt' \/ Matches(d)'
      BY <2>1, <2>4, <3>1, <3>2, <3>3, <3>5, <3>6 DEF Matches, MetaOf
    <3>8. ~InHand(d)' /\ d \notin backfill' /\ phase' # "backlinks"
          /\ (Doomed(d)' <=> Doomed(d)) /\ (Gone(d)' <=> Gone(d))
      BY <2>1, <2>3 DEF InHand, Doomed, Refreshing, Gone, Wanted, Valid
    <3>9. \A f \in Waiting' \cup emptied' : f.doc = d => Wanted(d)' /\ f.hash = disk'[d]
      BY <2>1, <2>2, <3>1, <3>6 DEF FateOf
    <3>. QED
      BY <2>1, <3>1, <3>7, <3>8, <3>9 DEF FateOf
  <2>. QED
    BY <1>1, <2>1, <2>5, <2>6, SettledStep
<1>4. ASSUME EndBackfill PROVE SettledInv'
  <2>1. /\ UNCHANGED <<disk, conf, under, rows, meta, links, hurt, pending, emptied, missing,
                       unindexable, backfill, settled>>
        /\ phase = "backfill" /\ phase' = "purge"
    BY <1>4 DEF EndBackfill
  <2>2. ASSUME NEW e \in settled PROVE FateOf(e)'
    BY <2>1, <2>2, FateFrame DEF SettledInv, InHand, Refreshing, Doomed, Waiting, Flushing
  <2>. QED
    BY <1>1, <2>1, <2>2, SettledStep
<1>. QED
  BY <1>2, <1>3, <1>4 DEF Backfill

LEMMA PurgeSettled ==
  ASSUME TypeInv, ListInv, PointInv, PlaceInv, RowInv, SideInv, SettledInv, Purge
  PROVE  SettledInv'
<1>. USE DEF source, stores, lists, run, ghosts
<1>1. settled \subseteq Docs /\ (settled # {} => conf = under)
  BY DEF TypeInv, TypeOK, SettledInv
\* Between two steps of a purge nothing is in hand.
<1>2. ASSUME phase \in Purging, phase' \in Purging, UNCHANGED <<disk, conf, under, pending, backfill>>,
             NEW e, FateOf(e), rows'[e] = rows[e], meta'[e] = meta[e], links'[e] = links[e],
             e \in hurt => e \in hurt', Doomed(e)' <=> Doomed(e),
             \A f : f.doc = e => (f \in emptied' <=> f \in emptied)
      PROVE  FateOf(e)'
  <2>1. ~InHand(e) /\ ~InHand(e)' /\ Waiting = pending /\ Waiting' = pending
    BY <1>2 DEF InHand, Refreshing, Purging, Waiting, Flushing
  <2>. QED
    BY <1>2, <2>1, FateFrame
<1>3. ASSUME PurgePoints PROVE SettledInv'
  <2>1. /\ UNCHANGED <<disk, conf, under, rows, meta, links, hurt, pending, emptied, backfill,
                       settled>>
        /\ phase = "purge" /\ phase' = "unmeta" /\ todo' = PurgeList /\ missing' = {}
        /\ unindexable' = IF missing # {} THEN unindexable ELSE {}
    BY <1>3 DEF PurgePoints
  <2>2. \A e : Doomed(e)' <=> Doomed(e)
    BY <2>1 DEF Doomed, PurgeList
  <2>3. \A e \in settled : FateOf(e)'
    BY <1>2, <2>1, <2>2 DEF SettledInv, Purging
  <2>. QED
    BY <1>1, <2>1, <2>3, SettledStep
<1>4. ASSUME EndPurge PROVE SettledInv'
  <2>1. /\ UNCHANGED <<disk, conf, under, rows, meta, links, hurt, pending, emptied, backfill,
                       missing, unindexable, todo, settled>>
        /\ phase = "unmeta" /\ phase' = "purge" /\ todo = {}
    BY <1>4 DEF EndPurge
  <2>2. \A e : Doomed(e)' <=> Doomed(e)
    BY <2>1 DEF Doomed
  <2>3. \A e \in settled : FateOf(e)'
    BY <1>2, <2>1, <2>2 DEF SettledInv, Purging
  <2>. QED
    BY <1>1, <2>1, <2>3, SettledStep
<1>5. ASSUME NEW d \in todo, PurgeMeta(d) PROVE SettledInv'
  <2>1. /\ UNCHANGED <<disk, conf, under, rows, hurt, pending, emptied, backfill, missing,
                       unindexable, todo, settled>>
        /\ phase = "unmeta" /\ phase' = "unrow"
        /\ \A e \in Docs : e # d => meta'[e] = meta[e] /\ links'[e] = links[e]
    BY <1>5 DEF PurgeMeta, TypeInv, TypeOK
  <2>2. \A e : Doomed(e)' <=> Doomed(e)
    BY <2>1 DEF Doomed
  <2>3. \A e \in settled : e # d => FateOf(e)'
    BY <1>1, <1>2, <2>1, <2>2 DEF SettledInv, Purging
  <2>4. ASSUME d \in settled PROVE FateOf(d)'
    <3>1. FateOf(d) /\ Doomed(d)' /\ Busy(d)'
      BY <2>1, <2>2, <2>4 DEF SettledInv, Doomed, Busy
    <3>2. /\ (Gone(d)' <=> Gone(d)) /\ (Wanted(d)' <=> Wanted(d))
          /\ ~InHand(d)' /\ Waiting' = Waiting /\ phase' # "backlinks"
      BY <2>1 DEF Gone, Wanted, Valid, InHand, Refreshing, Waiting, Flushing
    <3>. QED
      BY <2>1, <2>2, <3>1, <3>2 DEF FateOf
  <2>. QED
    BY <1>1, <2>1, <2>3, <2>4, SettledStep
<1>6. ASSUME PurgeRow PROVE SettledInv'
  <2>0. PICK d : d = cur.doc
    OBVIOUS
  <2>1. /\ UNCHANGED <<disk, conf, under, meta, links, pending, emptied, backfill, missing,
                       unindexable, settled>>
        /\ phase = "unrow" /\ phase' = "unmeta" /\ hurt' = hurt \ {d} /\ todo' = todo \ {d}
        /\ rows' = [rows EXCEPT ![d] = None]
    BY <1>6, <2>0 DEF PurgeRow
  <2>2. d \in todo /\ d \in Docs /\ meta[d] = None /\ links[d] = None /\ backfill = {}
    BY <2>0, <2>1 DEF TypeInv, TypeOK, CurInv, SideInv, PlaceInv, Purging
  <2>3. rows'[d] = None /\ \A e \in Docs : e # d => rows'[e] = rows[e]
    BY <2>1, <2>2 DEF TypeInv, TypeOK
  <2>4. \A e : e # d => (Doomed(e)' <=> Doomed(e))
    BY <2>1 DEF Doomed
  <2>5. \A e \in settled : e # d => FateOf(e)'
    BY <1>1, <1>2, <2>1, <2>3, <2>4 DEF SettledInv, Purging
  <2>6. ASSUME d \in settled PROVE FateOf(d)'
    <3>1. FateOf(d) /\ Doomed(d)
      BY <2>1, <2>2, <2>6 DEF SettledInv, Doomed
    <3>2. /\ (Gone(d)' <=> Gone(d)) /\ (Wanted(d)' <=> Wanted(d))
          /\ ~InHand(d)' /\ Waiting' = Waiting /\ phase' # "backlinks"
      BY <2>1 DEF Gone, Wanted, Valid, InHand, Refreshing, Waiting, Flushing
    <3>3. Gone(d) \/ \E f \in emptied : f.doc = d
      BY <3>1 DEF FateOf
    <3>4. Busy(d)' \/ Matches(d)'
      BY <2>1, <2>2, <2>3, <3>2, <3>3 DEF Busy, Matches
    <3>. QED
      BY <2>1, <2>2, <3>1, <3>2, <3>3, <3>4 DEF FateOf
  <2>. QED
    BY <1>1, <2>1, <2>5, <2>6, SettledStep
<1>7. ASSUME NEW d \in todo, PurgeFails(d) PROVE SettledInv'
  <2>1. /\ UNCHANGED <<disk, conf, under, rows, links, pending, backfill, missing, unindexable>>
        /\ phase \in {"unmeta", "unrow"} /\ phase' = "unmeta" /\ hurt' = hurt \cup {d}
        /\ todo' = todo \ {d} /\ settled' = settled \ {d}
        /\ emptied' = {f \in emptied : f.doc # d}
        /\ \A e \in Docs : e # d => meta'[e] = meta[e]
    BY <1>7 DEF PurgeFails, TypeInv, TypeOK
  <2>2. \A e : e # d => (Doomed(e)' <=> Doomed(e))
    BY <2>1 DEF Doomed
  <2>3. \A e \in settled' : FateOf(e)'
    BY <1>1, <1>2, <2>1, <2>2 DEF SettledInv, Purging
  <2>. QED
    BY <1>1, <2>1, <2>3, SettledStep
<1>8. ASSUME NEW f \in emptied, RecordEmpty(f) PROVE SettledInv'
  <2>. DEFINE d == f.doc
  <2>1. /\ UNCHANGED <<disk, conf, under, meta, links, pending, backfill, missing, unindexable,
                       todo, hurt>>
        /\ phase = "purge" /\ phase' = "purge" /\ missing = {} /\ unindexable = {}
        /\ emptied' = emptied \ {f}
        /\ \/ rows' = [rows EXCEPT ![d] = RowOf(f)] /\ settled' = settled
           \/ rows' = rows /\ settled' = settled \ {d}
    BY <1>8 DEF RecordEmpty, PurgeList
  <2>2. f \in File /\ d \in Docs /\ Valid(f.hash) /\ Count(f.hash) = 0 /\ OldCount(d) = 0
    BY <2>1 DEF TypeInv, TypeOK, File, RowInv, PointInv, PurgeInv
  <2>3. \A e \in Docs : e # d => rows'[e] = rows[e]
    BY <2>1 DEF TypeInv, TypeOK
  <2>4. \A e : Doomed(e)' <=> Doomed(e)
    BY <2>1 DEF Doomed
  <2>5. ASSUME NEW e \in settled', e # d PROVE FateOf(e)'
    <3>1. FateOf(e) /\ rows'[e] = rows[e]
      BY <1>1, <2>1, <2>3, <2>5 DEF SettledInv
    <3>2. \A g : g.doc = e => (g \in emptied' <=> g \in emptied)
      BY <2>1, <2>5
    <3>. QED
      BY <1>2, <2>1, <2>4, <3>1, <3>2 DEF Purging
  <2>6. ASSUME d \in settled' PROVE FateOf(d)'
    <3>1. rows' = [rows EXCEPT ![d] = RowOf(f)] /\ FateOf(d) /\ conf = under
      BY <1>1, <2>1, <2>6 DEF SettledInv
    <3>2. /\ Wanted(d) /\ f.hash = disk[d]
          /\ \A g \in Waiting \cup emptied : g.doc = d => Wanted(d) /\ g.hash = disk[d]
      BY <3>1 DEF FateOf
    <3>3. rows'[d] = RowOf(f)
      BY <2>2, <3>1 DEF TypeInv, TypeOK
    <3>4. /\ RowOf(f) # None /\ RowOf(f).count = 0 /\ RowOf(f).hash = f.hash
          /\ RowOf(f).schema = under.schema /\ RowOf(f).chunking = under.chunking
      BY <2>2, RowOfCount
    <3>5. d \notin hurt => meta[d] = None /\ links[d] = None
      BY <2>1, <2>2 DEF SideInv, Between, SideSound
    <3>6. Wanted(d)' /\ Valid(disk[d])' /\ ~Gone(d)'
      BY <2>1, <2>2, <3>2 DEF Wanted, Valid, Gone
    <3>7. d \in hurt' \/ Matches(d)'
      BY <2>1, <2>2, <3>1, <3>2, <3>3, <3>4, <3>5, <3>6 DEF Matches, Count
    <3>8. backfill = {} /\ Waiting' = Waiting
      BY <2>1 DEF PlaceInv, Purging, Waiting, Flushing
    <3>9. ~InHand(d)' /\ ~Doomed(d)' /\ d \notin backfill' /\ phase' # "backlinks"
      BY <2>1, <3>8 DEF InHand, Doomed, Refreshing
    <3>. QED
      BY <2>1, <3>2, <3>6, <3>7, <3>8, <3>9 DEF FateOf
  <2>7. phase' \notin {"load", "clear", "drop"} /\ (settled' # {} => conf = under)
    BY <1>1, <2>1
  <2>. QED
    BY <2>1, <2>5, <2>6, <2>7, SettledStep
<1>. QED
  BY <1>3, <1>4, <1>5, <1>6, <1>7, <1>8 DEF Purge

LEMMA StepSettled ==
  ASSUME TypeInv, ListInv, PointInv, PlaceInv, RowInv, SideInv, SettledInv, [Next]_vars
  PROVE  SettledInv'
<1>1. ASSUME NEW paths \in SUBSET Docs, ScopedRun(paths) PROVE SettledInv'
  BY <1>1, BetweenRunsSettled DEF ScopedRun
<1>2. CASE FullReindex \/ Sweep
  <2>1. Discovered \subseteq Docs /\ DirtyDocs \subseteq Docs
    BY DEF Discovered, DirtyDocs, Orphans, Unrecorded, ExcludedPresent
  <2>. QED
    BY <1>2, <2>1, BetweenRunsSettled DEF FullReindex, Sweep
<1>3. CASE Environment \/ Crash \/ RunFails
  BY <1>3, BetweenRunsSettled
<1>4. CASE RunStep
  BY <1>4, BetweenRunsSettled, ReadSettled, DecisionSettled, RefreshSettled, FlushSettled,
     BackfillSettled, PurgeSettled
  DEF RunStep, Scan
<1>5. CASE UNCHANGED vars
  <2>1. ASSUME NEW d \in settled PROVE FateOf(d)'
    <3>1. FateOf(d)
      BY DEF SettledInv
    <3>2. /\ (Gone(d)' <=> Gone(d)) /\ (Wanted(d)' <=> Wanted(d)) /\ (Matches(d)' <=> Matches(d))
          /\ (InHand(d)' <=> InHand(d)) /\ (Doomed(d)' <=> Doomed(d)) /\ Waiting' = Waiting
          /\ \A h : MetaOf(h)' = MetaOf(h)
      BY <1>5 DEF vars, source, stores, run, lists, ghosts, Gone, Wanted, Valid, Matches, InHand,
         Doomed, Waiting, MetaOf
    <3>. QED
      BY <1>5, <3>1, <3>2 DEF vars, source, stores, run, lists, ghosts, FateOf, Busy
  <2>. QED
    BY <1>5, <2>1 DEF vars, source, run, ghosts, SettledInv
<1>. QED
  BY <1>1, <1>2, <1>3, <1>4, <1>5 DEF Next

\* The inductive invariant of what a run has dealt with holds in every reachable state.
THEOREM SettledInvariance == Spec => []SettledInv
<1>1. IInv /\ SoundInv /\ SettledInv /\ [Next]_vars => SettledInv'
  BY StepSettled DEF IInv, SoundInv
<1>. QED
  BY <1>1, InitSettled, Invariance, SoundInvariance, PTL DEF Spec

LEMMA SettledIsUpToDate ==
  ASSUME IInv, SoundInv, SettledInv, phase = "idle", NEW d \in settled \ hurt
  PROVE  UpToDate(d)
<1>1. Matches(d) /\ conf = under /\ d \in Docs
  <2>1. /\ pending = {} /\ emptied = {} /\ missing = {} /\ unindexable = {} /\ backfill = {}
    BY DEF IInv, ListInv, SoundInv, PlaceInv, BeforeScan
  <2>2. ~Busy(d)
    BY <2>1 DEF Busy, Doomed, InHand, Refreshing, Waiting, Flushing
  <2>. QED
    BY <2>2 DEF SettledInv, FateOf, IInv, TypeInv, TypeOK
<1>2. points[d] = Recorded(rows[d])
  BY <1>1 DEF IInv, PointInv, RowTrust, InDoubt
<1>3. CASE Gone(d)
  <2>1. Absent(d)
    BY <1>1, <1>2, <1>3, RecordedNone DEF Matches, Absent
  <2>. QED
    BY <1>1, <1>3, <2>1 DEF Gone, Valid, UpToDate
<1>4. CASE ~Gone(d)
  <2>. DEFINE n == Chunks[<<disk[d], conf.chunking>>]
              r == [hash |-> disk[d], chunking |-> conf.chunking, schema |-> conf.schema,
                    count |-> n, mtime |-> IF rows[d] = None THEN 0 ELSE rows[d].mtime]
  <2>1. /\ Valid(disk[d]) /\ rows[d] # None
        /\ rows[d].hash = disk[d] /\ rows[d].chunking = conf.chunking
        /\ rows[d].schema = conf.schema /\ rows[d].count = n
        /\ IF n = 0 THEN meta[d] = None /\ links[d] = None
           ELSE meta[d] = [hash |-> disk[d], schema |-> conf.schema] /\ links[d] = disk[d]
    BY <1>1, <1>4 DEF Matches
  <2>2. rows[d] \in Row
    BY <1>1, <2>1 DEF IInv, TypeInv, TypeOK
  <2>3. rows[d] = r
    BY <2>1, <2>2 DEF Row
  <2>4. Wanted(d) /\ <<conf.schema, disk[d]>> \notin Invalid
    BY <1>1, <1>4, <2>1 DEF Gone, Valid
  <2>. QED
    BY <1>2, <2>1, <2>3, <2>4 DEF UpToDate
<1>. QED
  BY <1>3, <1>4

\* What ReindexQueue assumes of an indexing run: when it ends, however many edits, reloads
\* and faults it met on the way, every path it was given is in the index as it is on disk
\* and as the settings in force ask for, or the file or the settings changed since it was
\* read, or a failure was logged for it.
THEOREM RunBringsUpToDateHolds == Spec => []RunBringsUpToDate
<1>1. IInv /\ SoundInv /\ SettledInv => RunBringsUpToDate
  BY SettledIsUpToDate DEF RunBringsUpToDate
<1>. QED
  BY <1>1, Invariance, SoundInvariance, SettledInvariance, PTL
=============================================================================
