------------------------------ MODULE IndexRun ------------------------------
(***************************************************************************)
(* One indexing run of src/ingest.rs: what module ReindexQueue takes as    *)
(* the single step IndexDoc, opened up into its reads of the working tree  *)
(* and its writes to the two stores.                                       *)
(*                                                                         *)
(* Qdrant holds points (a document's numbered chunks); the state database  *)
(* holds a row per indexed file, the document's metadata and its outgoing  *)
(* links.  Nothing makes a write to one atomic with a write to the other:  *)
(* a run can fail or the process die between any two, and some failures    *)
(* are only logged.  The working tree and the configuration change under   *)
(* the run.  The row is what later runs go by, so the question is when it  *)
(* can be believed.                                                        *)
(*                                                                         *)
(* A file's content is an opaque value that stands for its hash.  A schema *)
(* stands for its full fingerprint, Payload for the part that reaches the  *)
(* points.  The semantic edges are left out, and so are a second process's *)
(* concurrent runs.                                                        *)
(***************************************************************************)
EXTENDS Naturals, FiniteSets

CONSTANTS
  Docs,        \* paths of the knowledge base
  Contents,    \* what a file can contain
  Size,        \* length in bytes of each content
  Chunkings,   \* chunking fingerprints a configuration can have
  Chunks,      \* how many chunks a content has under a chunking
  Schemas,     \* fingerprints the schema tree can have
  Payload,     \* the payload fingerprint of each schema
  Invalid,     \* pairs <<schema, content>> that fail validation
  MaxChunks,   \* bound: chunks of a document
  FlushBatch,  \* PENDING_FLUSH_BATCH_SIZE (200 in the code)
  Initial,     \* the configuration and schemas of the first start
  Start,       \* bound: what the files can hold, or None, before the first run
  Configs,     \* bound: the configurations and schemas a reload can bring
  Slack,       \* QDRANT_WIPE_DEFICIT_SLACK (50 in the code)
  None,        \* no file, no row, no point
  Faults,      \* the kinds of fault that can strike
  MaxChanges,  \* bound: edits of the tree and of the configuration
  MaxFaults    \* bound: faults

FaultKinds == {"crash", "error", "read", "lint", "stat", "trim", "row", "meta",
               "links", "hashes", "purge", "wipe"}

Index == 0 .. MaxChunks - 1
\* walked: the documents that include, exclude and exclude_files let through; purges:
\* the filter may be trusted with the removal of the others (for_exclusion_purge), as it
\* is unless no include pattern is valid, when it lets nothing through.
Conf == {c \in [schema : Schemas, chunking : Chunkings, strict : BOOLEAN,
                walked : SUBSET Docs, purges : BOOLEAN] : c.purges \/ c.walked = {}}
Row == [hash : Contents, chunking : Chunkings, schema : Schemas, count : Nat,
        mtime : Nat]
Meta == [hash : Contents, schema : Schemas]
Point == [hash : Contents, chunking : Chunkings, payload : {Payload[s] : s \in Schemas}]
File == [doc : Docs, hash : Contents, old : Nat, mtime : Nat]

ASSUME ConstantsAssumption ==
  /\ IsFiniteSet(Docs)
  /\ Size \in [Contents -> Nat]
  /\ Chunks \in [Contents \X Chunkings -> 0 .. MaxChunks]
  /\ Payload \in [Schemas -> {Payload[s] : s \in Schemas}]
  /\ MaxChunks \in Nat /\ FlushBatch \in Nat \ {0} /\ Slack \in Nat
  /\ MaxChanges \in Nat /\ MaxFaults \in Nat
  /\ Initial \in Conf /\ Configs \subseteq Conf
  /\ Start \subseteq Contents \cup {None}
  /\ Faults \subseteq FaultKinds
  /\ None \notin Contents \cup Row \cup Meta \cup Point

VARIABLES
  disk,         \* content of each file in the working tree, None when absent
  mtime,        \* its modification time
  conf,         \* the configuration and the schema tree in force
  rows,         \* indexed_files
  meta,         \* documents and its field projection
  links,        \* document_links: the content a file's links were read from
  points,       \* the Qdrant collection: chunks of each document
  rejected,     \* IndexStatus.strict_rejected_files
  phase,        \* what the run is about to do
  full,         \* is it a full reindex
  todo,         \* paths it has still to read
  under,        \* the configuration and schemas it works under
  cur,          \* the file in hand
  pending,      \* files chunked and waiting for the flush
  queue,        \* files or paths the current loop has still to visit
  backfill,     \* unchanged files whose metadata is to be refreshed
  missing,      \* paths to purge: not on disk
  unindexable,  \* paths to purge: invalid
  emptied,      \* files to purge and to record with no chunks
  changes,      \* edits and reloads so far
  faults,       \* faults so far
  hurt,         \* ghost: documents a fault has left out of step with their row
  blind,        \* ghost: documents changed between their read and their stat
  settled       \* ghost: documents this run has read and nothing changed since

source == <<disk, mtime, conf, changes>>
stores == <<rows, meta, links, points>>
lists == <<pending, backfill, missing, unindexable, emptied>>
run == <<phase, full, todo, under, cur, queue, lists>>
ghosts == <<faults, hurt, blind, settled>>
vars == <<source, stores, rejected, run, ghosts>>

-----------------------------------------------------------------------------
NoFile == [doc |-> None, hash |-> None, old |-> 0, mtime |-> 0]
NoPoints == [i \in Index |-> None]

Stat(d) == IF disk[d] = None THEN 0 ELSE mtime[d]
Valid(c) == <<under.schema, c>> \notin Invalid
Count(c) == Chunks[<<c, under.chunking>>]
\* Mutant: a path without a row has no count either.
OldCountUnset(d) == IF rows[d] = None THEN None ELSE rows[d].count
OldCount(d) == IF rows[d] = None THEN 0 ELSE rows[d].count

RowOf(f) == [hash |-> f.hash, chunking |-> under.chunking, schema |-> under.schema,
             count |-> Count(f.hash), mtime |-> f.mtime]
MetaOf(c) == [hash |-> c, schema |-> under.schema]
PointOf(c) == [hash |-> c, chunking |-> under.chunking,
               payload |-> Payload[under.schema]]

\* The points a row says there are.
Recorded(r) ==
  IF r = None THEN NoPoints
  ELSE [i \in Index |-> IF i < r.count
                        THEN [hash |-> r.hash, chunking |-> r.chunking,
                              payload |-> Payload[r.schema]]
                        ELSE None]

Upserted(p, c) == [i \in Index |-> IF i < Count(c) THEN PointOf(c) ELSE p[i]]
\* Mutant: the first stale chunk is kept.
TrimmedLate(p, new, old) == [i \in Index |-> IF new < i /\ i < old THEN None ELSE p[i]]
Trimmed(p, new, old) == [i \in Index |-> IF new <= i /\ i < old THEN None ELSE p[i]]
Repainted(p) ==
  [i \in Index |-> IF p[i] = None THEN None
                   ELSE [p[i] EXCEPT !.payload = Payload[under.schema]]]

\* detect_qdrant_wipe: chunks the rows claim against points there are.
Claimed == {p \in Docs \X Index : p[2] < OldCount(p[1])}
Live == {p \in Docs \X Index : points[p[1]][p[2]] # None}
\* Mutant: a gap as large as the slack is a wipe, too.
WipeDetectedAtSlack ==
  /\ \E d \in Docs : rows[d] # None
  /\ Cardinality(Claimed) >= Cardinality(Live) + Slack
WipeDetected ==
  /\ \E d \in Docs : rows[d] # None
  /\ Cardinality(Claimed) > Cardinality(Live) + Slack

\* Mutant: metadata that lags its row is not looked for.
RowIsStaleByFile(d) ==
  LET r == rows[d]
  IN \/ r.chunking # conf.chunking
     \/ r.schema # conf.schema
     \/ r.mtime # mtime[d]
     \/ Size[r.hash] # Size[disk[d]]

\* scan_for_dirty: the row alone decides, the file is not read.
RowIsStale(d) ==
  LET r == rows[d]
  IN \/ r.chunking # conf.chunking
     \/ r.schema # conf.schema
     \/ r.mtime # mtime[d]
     \/ Size[r.hash] # Size[disk[d]]
     \/ r.count > 0 /\ (IF meta[d] = None THEN TRUE ELSE meta[d].hash # r.hash)
Discovered == {d \in Docs : d \in conf.walked /\ disk[d] # None}
Orphans == {d \in Docs : disk[d] = None /\ rows[d] # None}
Unrecorded == {d \in Discovered : rows[d] = None}
ExcludedPresent == {d \in Docs \ Discovered : disk[d] # None /\ rows[d] # None}
\* The bulk-purge guard: such a walk says more about itself than about the files.
WalkIsSuspect ==
  \/ Discovered = {}
  \/ 2 * Cardinality(ExcludedPresent) > Cardinality({d \in Docs : rows[d] # None})
DirtyDocs == Orphans \cup Unrecorded
             \cup {d \in Discovered \ Unrecorded : RowIsStale(d)}
             \cup (IF WalkIsSuspect THEN {} ELSE ExcludedPresent)

TypeOK ==
  /\ disk \in [Docs -> Contents \cup {None}]
  /\ mtime \in [Docs -> Nat]
  /\ conf \in Conf /\ under \in Conf
  /\ rows \in [Docs -> Row \cup {None}]
  /\ meta \in [Docs -> Meta \cup {None}]
  /\ links \in [Docs -> Contents \cup {None}]
  /\ points \in [Docs -> [Index -> Point \cup {None}]]
  /\ phase \in {"idle", "load", "clear", "drop", "scan", "stat", "payload", "remeta",
                "relinks", "rehash", "trim", "record", "meta", "links", "backfill",
                "backlinks", "purge", "unmeta", "unrow"}
  /\ full \in BOOLEAN
  /\ cur \in [doc : Docs \cup {None}, hash : Contents \cup {None}, old : Nat, mtime : Nat]
  /\ pending \subseteq File /\ emptied \subseteq File /\ queue \subseteq File
  /\ todo \subseteq Docs /\ backfill \subseteq Docs /\ missing \subseteq Docs
  /\ unindexable \subseteq Docs /\ rejected \subseteq Docs /\ hurt \subseteq Docs
  /\ blind \subseteq Docs /\ settled \subseteq Docs
  /\ changes \in 0 .. MaxChanges /\ faults \in 0 .. MaxFaults

Init ==
  /\ disk \in [Docs -> Start]
  /\ mtime = [d \in Docs |-> 1]
  /\ conf = Initial /\ under = conf
  /\ rows = [d \in Docs |-> None] /\ meta = [d \in Docs |-> None]
  /\ links = [d \in Docs |-> None] /\ points = [d \in Docs |-> NoPoints]
  /\ rejected = {}
  /\ phase = "idle" /\ full = FALSE /\ todo = {} /\ cur = NoFile /\ queue = {}
  /\ pending = {} /\ backfill = {} /\ missing = {} /\ unindexable = {} /\ emptied = {}
  /\ changes = 0 /\ faults = 0 /\ hurt = {} /\ blind = {} /\ settled = {}

-----------------------------------------------------------------------------
(***************************************************************************)
(* The working tree and the configuration.                                 *)
(***************************************************************************)
Edit(d, c) ==
  /\ changes < MaxChanges
  /\ changes' = changes + 1
  /\ disk' = [disk EXCEPT ![d] = c]
  /\ mtime' = [mtime EXCEPT ![d] = @ + 1]
  /\ blind' = blind \ {d} /\ settled' = settled \ {d}
  /\ UNCHANGED <<conf, stores, rejected, run, faults, hurt>>

Reload(c) ==
  /\ changes < MaxChanges /\ c # conf
  /\ changes' = changes + 1
  /\ conf' = c
  /\ settled' = {}
  /\ UNCHANGED <<disk, mtime, stores, rejected, run, faults, hurt, blind>>

-----------------------------------------------------------------------------
(***************************************************************************)
(* Faults.  hurt' records whom a fault strikes half way: everything else   *)
(* is to be repaired by the next run or sweep.                             *)
(***************************************************************************)
Strike(kind) == kind \in Faults /\ faults < MaxFaults /\ faults' = faults + 1

\* The points of d were changed and its row was not yet.
InDoubt(d) ==
  \/ phase = "drop"
  \/ phase = "trim" /\ \E f \in pending : f.doc = d
  \/ phase \in {"record", "meta", "links"} /\ \E f \in queue : f.doc = d
  \/ phase \in {"remeta", "relinks", "rehash"} /\ d = cur.doc
  \/ phase \in {"unmeta", "unrow"} /\ d \in todo

\* d is between the first and the last write of a change in progress.
HalfDone(d) == InDoubt(d) \/ (phase \in {"meta", "links", "backlinks"} /\ d = cur.doc)
HalfDoneDocs == {d \in Docs : HalfDone(d)}

StopRun ==
  /\ phase' = "idle" /\ full' = FALSE /\ todo' = {} /\ cur' = NoFile /\ queue' = {}
  /\ pending' = {} /\ backfill' = {} /\ missing' = {} /\ unindexable' = {}
  /\ emptied' = {}
  /\ UNCHANGED under

Crash ==
  /\ phase # "idle" /\ Strike("crash")
  /\ StopRun
  /\ rejected' = {}
  /\ hurt' = hurt \cup HalfDoneDocs
  /\ settled' = {}
  /\ UNCHANGED <<source, stores, blind>>

FlushIsDue == pending # {} /\ (todo = {} \/ Cardinality(pending) >= FlushBatch)

\* The calls whose failure ends the run: build_run_schemas, clear, drop and
\* ensure_collection, embed_texts, upsert_points, refresh_file_payload and
\* delete_by_files.
RunFails ==
  /\ \/ phase \in {"load", "clear", "drop", "payload"}
     \/ phase = "scan" /\ FlushIsDue
     \/ phase = "purge" /\ missing \cup unindexable # {}
  /\ Strike("error")
  /\ StopRun
  /\ hurt' = hurt \cup HalfDoneDocs
  /\ settled' = {}
  /\ UNCHANGED <<source, stores, rejected, blind>>

WipeQdrant ==
  /\ Strike("wipe")
  /\ points' = [d \in Docs |-> NoPoints]
  /\ hurt' = Docs
  /\ UNCHANGED <<source, rows, meta, links, rejected, run, blind, settled>>

-----------------------------------------------------------------------------
(***************************************************************************)
(* The start of a run: its configuration is the one in force, its schemas   *)
(* are read later.                                                         *)
(***************************************************************************)
Begin(paths, force) ==
  /\ phase = "idle"
  /\ phase' = "load" /\ full' = force /\ todo' = paths /\ settled' = {}
  /\ under' = conf
  /\ UNCHANGED <<source, stores, rejected, cur, queue, lists, faults, hurt, blind>>

\* The worker's unit, or the index CLI, with the paths it was given.
ScopedRun(paths) == paths # {} /\ Begin(paths, FALSE)
FullReindex == Begin(Discovered, TRUE)

\* scan_and_index: rebuild everything when Qdrant looks wiped, else index what
\* the scan finds.
Sweep ==
  \/ WipeDetected /\ Begin(Discovered, TRUE)
  \/ ~WipeDetected /\ DirtyDocs # {} /\ Begin(DirtyDocs, FALSE)

\* build_run_schemas, and for a scoped run the rows of its paths.  The run is
\* their only writer and visits a path once, so they are read where used.
Load ==
  /\ phase = "load"
  /\ under' = [under EXCEPT !.schema = conf.schema]
  /\ phase' = IF full THEN "clear" ELSE "scan"
  /\ settled' = {}
  /\ UNCHANGED <<source, stores, rejected, full, todo, cur, queue, lists, faults, hurt,
                 blind>>

ClearState ==
  /\ phase = "clear"
  /\ rows' = [d \in Docs |-> None] /\ meta' = [d \in Docs |-> None]
  /\ links' = [d \in Docs |-> None]
  /\ phase' = "drop"
  /\ UNCHANGED <<source, points, rejected, full, todo, under, cur, queue, lists, ghosts>>

\* drop_collection and ensure_collection: every trace of earlier faults goes.
DropCollection ==
  /\ phase = "drop"
  /\ points' = [d \in Docs |-> NoPoints]
  /\ phase' = "scan"
  /\ hurt' = {} /\ blind' = {}
  /\ UNCHANGED <<source, rows, meta, links, rejected, full, todo, under, cur, queue,
                 lists, faults, settled>>

-----------------------------------------------------------------------------
(***************************************************************************)
(* The loop over the paths: read, then stat, then decide.                  *)
(***************************************************************************)
NextPath(d) == phase = "scan" /\ ~FlushIsDue /\ d \in todo /\ todo' = todo \ {d}

Settle(d) == IF conf = under THEN settled \cup {d} ELSE settled

\* Only a scoped run meets paths the walk does not.
Excluded(d) == ~full /\ under.purges /\ d \notin under.walked

\* Not on disk, or there and now excluded: both are purged.
FindMissing(d) ==
  /\ NextPath(d) /\ (disk[d] = None \/ Excluded(d))
  /\ missing' = missing \cup {d}
  /\ settled' = Settle(d)
  /\ UNCHANGED <<source, stores, rejected, phase, full, under, cur, queue, pending,
                 backfill, unindexable, emptied, faults, hurt, blind>>

ReadFails(d) ==
  /\ NextPath(d) /\ disk[d] # None
  /\ Strike("read")
  /\ UNCHANGED <<source, stores, rejected, phase, full, under, cur, queue, lists, hurt,
                 blind, settled>>

ReadFile(d) ==
  /\ NextPath(d) /\ disk[d] # None /\ ~Excluded(d)
  /\ cur' = [doc |-> d, hash |-> disk[d], old |-> OldCount(d), mtime |-> 0]
  /\ phase' = "stat"
  /\ settled' = Settle(d)
  /\ UNCHANGED <<source, stores, rejected, full, under, queue, lists, faults, hurt,
                 blind>>

\* process_file takes the modification time now, after the content was read.
Statted == [cur EXCEPT !.mtime = Stat(cur.doc)]
StatMissesTheEdit ==
  /\ disk[cur.doc] # None /\ disk[cur.doc] # cur.hash
  /\ Size[disk[cur.doc]] = Size[cur.hash]
Decided ==
  /\ phase = "stat"
  /\ blind' = IF StatMissesTheEdit THEN blind \cup {cur.doc} ELSE blind
  /\ UNCHANGED <<source, points, meta, links, full, todo, under, queue, missing>>

SameChunks ==
  LET r == rows[cur.doc]
  IN ~full /\ r # None /\ r.hash = cur.hash /\ r.chunking = under.chunking
\* Mutant: the schema is not part of the comparison.
UnchangedBytes == SameChunks
Unchanged == SameChunks /\ rows[cur.doc].schema = under.schema
MayRefresh == SameChunks /\ ~Unchanged /\ rows[cur.doc].count > 0 /\ meta[cur.doc] # None

NeedsBackfill ==
  /\ rows[cur.doc].count > 0
  /\ IF meta[cur.doc] = None THEN TRUE ELSE meta[cur.doc].hash # cur.hash

\* The stat baseline is refreshed (update_stat), unless that write fails.
Skip ==
  /\ Decided /\ Unchanged
  /\ \/ rows' = [rows EXCEPT ![cur.doc].mtime = Stat(cur.doc)] /\ UNCHANGED faults
     \/ rows[cur.doc].mtime # Stat(cur.doc) /\ Strike("stat") /\ UNCHANGED rows
  /\ backfill' = IF NeedsBackfill THEN backfill \cup {cur.doc} ELSE backfill
  /\ phase' = "scan" /\ cur' = NoFile
  /\ UNCHANGED <<rejected, pending, unindexable, emptied, hurt, settled>>

Reject ==
  /\ Decided /\ ~Unchanged /\ ~Valid(cur.hash) /\ under.strict
  /\ rejected' = rejected \cup {cur.doc}
  /\ settled' = settled \ {cur.doc}
  /\ phase' = "scan" /\ cur' = NoFile
  /\ UNCHANGED <<rows, pending, backfill, unindexable, emptied, faults, hurt>>

\* A lint command that fails or times out: nothing is known of the document.
LintFails ==
  /\ Decided /\ ~Unchanged /\ (under.strict \/ Valid(cur.hash)) /\ Strike("lint")
  /\ rejected' = IF under.strict THEN rejected \cup {cur.doc} ELSE rejected
  /\ settled' = settled \ {cur.doc}
  /\ phase' = "scan" /\ cur' = NoFile
  /\ UNCHANGED <<rows, pending, backfill, unindexable, emptied, hurt>>

FindInvalid ==
  /\ Decided /\ ~Unchanged /\ ~Valid(cur.hash) /\ ~under.strict
  /\ unindexable' = IF rows[cur.doc] # None \/ meta[cur.doc] # None
                    THEN unindexable \cup {cur.doc} ELSE unindexable
  /\ phase' = "scan" /\ cur' = NoFile
  /\ UNCHANGED <<rows, rejected, pending, backfill, emptied, faults, hurt, settled>>

Accepted == Decided /\ ~Unchanged /\ Valid(cur.hash) /\ rejected' = rejected \ {cur.doc}

\* Only the schema moved: no chunking, no embedding.
Refresh ==
  /\ Accepted /\ MayRefresh
  /\ cur' = Statted
  /\ phase' = IF Payload[rows[cur.doc].schema] # Payload[under.schema]
              THEN "payload" ELSE "remeta"
  /\ UNCHANGED <<rows, pending, backfill, unindexable, emptied, faults, hurt, settled>>

\* refresh_plan may send a candidate for Refresh here: a description to prepend
\* changed, or the stored metadata could not be read.
FindEmpty ==
  /\ Accepted /\ Count(cur.hash) = 0
  /\ emptied' = emptied \cup {Statted}
  /\ unindexable' = unindexable \cup {cur.doc}
  /\ phase' = "scan" /\ cur' = NoFile
  /\ UNCHANGED <<rows, pending, backfill, faults, hurt, settled>>

Chunk ==
  /\ Accepted /\ Count(cur.hash) > 0
  /\ pending' = pending \cup {Statted}
  /\ phase' = "scan" /\ cur' = NoFile
  /\ UNCHANGED <<rows, backfill, unindexable, emptied, faults, hurt, settled>>

-----------------------------------------------------------------------------
(***************************************************************************)
(* refresh_document: payload, metadata, links, then the row.               *)
(***************************************************************************)
RefreshPayload ==
  /\ phase = "payload"
  /\ points' = [points EXCEPT ![cur.doc] = Repainted(@)]
  /\ phase' = "remeta"
  /\ UNCHANGED <<source, rows, meta, links, rejected, full, todo, under, cur, queue,
                 lists, ghosts>>

RefreshMeta ==
  /\ phase = "remeta"
  /\ meta' = [meta EXCEPT ![cur.doc] = MetaOf(cur.hash)]
  /\ phase' = "relinks"
  /\ UNCHANGED <<source, rows, links, points, rejected, full, todo, under, cur, queue,
                 lists, ghosts>>

\* Links that could not be replaced stay until the content changes again.
LinksFail ==
  /\ Strike("links")
  /\ hurt' = IF links[cur.doc] = cur.hash THEN hurt ELSE hurt \cup {cur.doc}
  /\ UNCHANGED links

RefreshLinks ==
  /\ phase = "relinks"
  /\ \/ links' = [links EXCEPT ![cur.doc] = cur.hash] /\ UNCHANGED <<faults, hurt>>
     \/ LinksFail
  /\ phase' = "rehash"
  /\ UNCHANGED <<source, rows, meta, points, rejected, full, todo, under, cur, queue,
                 lists, blind, settled>>

\* update_schema_hashes.
RefreshRow ==
  /\ phase = "rehash"
  /\ rows' = [rows EXCEPT ![cur.doc].schema = under.schema,
                          ![cur.doc].mtime = cur.mtime]
  /\ phase' = "scan" /\ cur' = NoFile
  /\ UNCHANGED <<source, meta, links, points, rejected, full, todo, under, queue, lists,
                 ghosts>>

\* A refresh whose metadata or row could not be written is left for a later run.
RefreshFails ==
  /\ \/ phase = "remeta" /\ Strike("meta")
     \/ phase = "rehash" /\ Strike("hashes")
  /\ hurt' = hurt \cup HalfDoneDocs
  /\ settled' = settled \ {cur.doc}
  /\ phase' = "scan" /\ cur' = NoFile
  /\ UNCHANGED <<source, stores, rejected, full, todo, under, queue, lists, blind>>

-----------------------------------------------------------------------------
(***************************************************************************)
(* flush_pending_batch and upsert_pending: all points of the batch, then   *)
(* every tail, then file by file the row, the metadata and the links.      *)
(***************************************************************************)
PendingFor(d) == CHOOSE f \in pending : f.doc = d

UpsertPoints ==
  /\ phase = "scan" /\ FlushIsDue
  /\ points' = [d \in Docs |-> IF \E f \in pending : f.doc = d
                               THEN Upserted(points[d], PendingFor(d).hash)
                               ELSE points[d]]
  /\ queue' = pending
  /\ phase' = "trim"
  /\ UNCHANGED <<source, rows, meta, links, rejected, full, todo, under, cur, lists,
                 ghosts>>

\* A tail that could not be deleted is only logged, and the row still written.
TrimTail(f) ==
  /\ phase = "trim" /\ f \in queue
  /\ \/ /\ points' = [points EXCEPT ![f.doc] = Trimmed(@, Count(f.hash), f.old)]
        /\ UNCHANGED <<faults, hurt, settled>>
     \/ /\ f.old > Count(f.hash) /\ Strike("trim")
        /\ hurt' = hurt \cup {f.doc} /\ settled' = settled \ {f.doc}
        /\ UNCHANGED points
  /\ queue' = IF queue = {f} THEN pending ELSE queue \ {f}
  /\ phase' = IF queue = {f} THEN "record" ELSE "trim"
  /\ UNCHANGED <<source, rows, meta, links, rejected, full, todo, under, cur, lists,
                 blind>>

RecordRow(f) ==
  /\ phase = "record" /\ f \in queue
  /\ queue' = queue \ {f}
  /\ \/ /\ rows' = [rows EXCEPT ![f.doc] = RowOf(f)]
        /\ cur' = f /\ phase' = "meta"
        /\ UNCHANGED <<faults, hurt, settled>>
     \/ /\ Strike("row")
        /\ hurt' = hurt \cup {f.doc} /\ settled' = settled \ {f.doc}
        /\ UNCHANGED <<rows, cur, phase>>
  /\ UNCHANGED <<source, meta, links, points, rejected, full, todo, under, lists, blind>>

\* Old metadata with the same hash hides its age from every later run.
RecordMeta ==
  /\ phase = "meta"
  /\ \/ /\ meta' = [meta EXCEPT ![cur.doc] = MetaOf(cur.hash)]
        /\ phase' = "links" /\ UNCHANGED <<cur, faults, hurt, settled>>
     \/ /\ Strike("meta")
        /\ hurt' = IF meta[cur.doc] = None THEN hurt
                   ELSE IF meta[cur.doc].hash # cur.hash THEN hurt
                   ELSE hurt \cup {cur.doc}
        /\ settled' = settled \ {cur.doc}
        /\ phase' = "record" /\ cur' = NoFile
        /\ UNCHANGED meta
  /\ UNCHANGED <<source, rows, links, points, rejected, full, todo, under, queue, lists,
                 blind>>

RecordLinks ==
  /\ phase = "links"
  /\ \/ links' = [links EXCEPT ![cur.doc] = cur.hash] /\ UNCHANGED <<faults, hurt>>
     \/ LinksFail
  /\ phase' = "record" /\ cur' = NoFile
  /\ UNCHANGED <<source, rows, meta, points, rejected, full, todo, under, queue, lists,
                 blind, settled>>

EndFlush ==
  /\ phase = "record" /\ queue = {}
  /\ pending' = {}
  /\ phase' = "scan"
  /\ UNCHANGED <<source, stores, rejected, full, todo, under, cur, queue, backfill,
                 missing, unindexable, emptied, ghosts>>

-----------------------------------------------------------------------------
(***************************************************************************)
(* backfill_document_metadata: the file is read a second time.             *)
(***************************************************************************)
EndScan ==
  /\ phase = "scan" /\ todo = {} /\ pending = {}
  /\ phase' = "backfill"
  /\ UNCHANGED <<source, stores, rejected, full, todo, under, cur, queue, lists, ghosts>>

BackfillMeta(d) ==
  /\ phase = "backfill" /\ d \in backfill
  /\ backfill' = backfill \ {d}
  /\ \/ disk[d] = None /\ UNCHANGED <<meta, cur, phase, faults, settled>>
     \/ disk[d] # None /\ Strike("read") /\ settled' = settled \ {d}
        /\ UNCHANGED <<meta, cur, phase>>
     \/ /\ disk[d] # None
        /\ \/ meta' = [meta EXCEPT ![d] = MetaOf(disk[d])] /\ UNCHANGED <<faults, settled>>
           \/ Strike("meta") /\ settled' = settled \ {d} /\ UNCHANGED meta
        /\ cur' = [NoFile EXCEPT !.doc = d, !.hash = disk[d]]
        /\ phase' = "backlinks"
  /\ UNCHANGED <<source, rows, links, points, rejected, full, todo, under, queue, pending,
                 missing, unindexable, emptied, hurt, blind>>

BackfillLinks ==
  /\ phase = "backlinks"
  /\ \/ links' = [links EXCEPT ![cur.doc] = cur.hash] /\ UNCHANGED <<faults, hurt>>
     \/ LinksFail
  /\ phase' = "backfill" /\ cur' = NoFile
  /\ UNCHANGED <<source, rows, meta, points, rejected, full, todo, under, queue, lists,
                 blind, settled>>

-----------------------------------------------------------------------------
(***************************************************************************)
(* remove_orphans, once for the missing paths and once for those that are  *)
(* no longer indexable: all points, then path by path metadata (with the   *)
(* links) and row.                                                         *)
(***************************************************************************)
EndBackfill ==
  /\ phase = "backfill" /\ backfill = {}
  /\ phase' = "purge"
  /\ UNCHANGED <<source, stores, rejected, full, todo, under, cur, queue, lists, ghosts>>

PurgeList == IF missing # {} THEN missing ELSE unindexable

PurgePoints ==
  /\ phase = "purge" /\ PurgeList # {}
  /\ points' = [d \in Docs |-> IF d \in PurgeList THEN NoPoints ELSE points[d]]
  /\ todo' = PurgeList
  /\ missing' = {}
  /\ unindexable' = IF missing # {} THEN unindexable ELSE {}
  /\ phase' = "unmeta"
  /\ UNCHANGED <<source, rows, meta, links, rejected, full, under, cur, queue, pending,
                 backfill, emptied, ghosts>>

PurgeMeta(d) ==
  /\ phase = "unmeta" /\ d \in todo
  /\ meta' = [meta EXCEPT ![d] = None]
  /\ links' = [links EXCEPT ![d] = None]
  /\ cur' = [NoFile EXCEPT !.doc = d]
  /\ phase' = "unrow"
  /\ UNCHANGED <<source, rows, points, rejected, full, todo, under, queue, lists, ghosts>>

\* A path with no index left has no earlier fault to show for.
PurgeRow ==
  /\ phase = "unrow"
  /\ rows' = [rows EXCEPT ![cur.doc] = None]
  /\ rejected' = rejected \ {cur.doc}
  /\ hurt' = hurt \ {cur.doc}
  /\ todo' = todo \ {cur.doc}
  /\ phase' = "unmeta" /\ cur' = NoFile
  /\ UNCHANGED <<source, meta, links, points, full, under, queue, lists, faults, blind,
                 settled>>

\* A deletion fails (metadata, links or row): the path keeps its row, and is not
\* recorded as empty.
PurgeFails(d) ==
  /\ \/ phase = "unmeta" /\ d \in todo /\ meta' \in {meta, [meta EXCEPT ![d] = None]}
     \/ phase = "unrow" /\ d = cur.doc /\ UNCHANGED meta
  /\ Strike("purge")
  /\ hurt' = hurt \cup {d} /\ settled' = settled \ {d}
  /\ todo' = todo \ {d}
  /\ emptied' = {f \in emptied : f.doc # d}
  /\ phase' = "unmeta" /\ cur' = NoFile
  /\ UNCHANGED <<source, rows, links, points, rejected, full, under, queue, pending,
                 backfill, missing, unindexable, blind>>

EndPurge ==
  /\ phase = "unmeta" /\ todo = {}
  /\ phase' = "purge"
  /\ UNCHANGED <<source, stores, rejected, full, todo, under, cur, queue, lists, ghosts>>

RecordEmpty(f) ==
  /\ phase = "purge" /\ PurgeList = {} /\ f \in emptied
  /\ emptied' = emptied \ {f}
  /\ \/ rows' = [rows EXCEPT ![f.doc] = RowOf(f)] /\ UNCHANGED <<faults, settled>>
     \/ Strike("row") /\ settled' = settled \ {f.doc} /\ UNCHANGED rows
  /\ UNCHANGED <<source, meta, links, points, rejected, phase, full, todo, under, cur,
                 queue, pending, backfill, missing, unindexable, hurt, blind>>

Finish ==
  /\ phase = "purge" /\ PurgeList = {} /\ emptied = {}
  /\ StopRun
  /\ UNCHANGED <<source, stores, rejected, ghosts>>

-----------------------------------------------------------------------------
Environment ==
  \/ \E d \in Docs, c \in Contents \cup {None} : Edit(d, c)
  \/ \E c \in Configs : Reload(c)
  \/ WipeQdrant

Scan ==
  \/ \E d \in Docs : FindMissing(d) \/ ReadFails(d) \/ ReadFile(d)
  \/ Skip \/ Reject \/ LintFails \/ FindInvalid \/ Refresh \/ FindEmpty \/ Chunk
  \/ RefreshPayload \/ RefreshMeta \/ RefreshLinks \/ RefreshRow \/ RefreshFails
  \/ EndScan

Flush ==
  \/ UpsertPoints
  \/ \E f \in queue : TrimTail(f) \/ RecordRow(f)
  \/ RecordMeta \/ RecordLinks \/ EndFlush

Backfill ==
  \/ \E d \in backfill : BackfillMeta(d)
  \/ BackfillLinks \/ EndBackfill

Purge ==
  \/ PurgePoints \/ PurgeRow \/ EndPurge
  \/ \E d \in todo : PurgeMeta(d) \/ PurgeFails(d)
  \/ \E f \in emptied : RecordEmpty(f)

RunStep == Load \/ ClearState \/ DropCollection \/ Scan \/ Flush \/ Backfill \/ Purge \/ Finish

Next ==
  \/ Environment
  \/ \E paths \in SUBSET Docs : ScopedRun(paths)
  \/ FullReindex \/ Sweep
  \/ RunStep \/ Crash \/ RunFails

Spec == Init /\ [][Next]_vars

-----------------------------------------------------------------------------
(***************************************************************************)
(* Properties.                                                             *)
(***************************************************************************)
\* A row never claims what Qdrant does not hold, nor hides what it does: outside the
\* writes of a run in progress, a document's points are exactly the chunks its
\* indexed_files row stands for, unless one of the named faults struck it half way.
\* Every later decision (skip, tail trim, wipe detection) reads the row and trusts it.
RowTrust == \A d \in Docs \ hurt : InDoubt(d) \/ points[d] = Recorded(rows[d])

Absent(d) == rows[d] = None /\ meta[d] = None /\ links[d] = None /\ points[d] = NoPoints

\* A filter nobody trusts keeps no path a run is given out of the index.
Wanted(d) == disk[d] # None /\ (d \in conf.walked \/ ~conf.purges)

\* The index holds of d what the configuration in force makes of the file on disk.
UpToDate(d) ==
  LET c == disk[d]
      n == Chunks[<<c, conf.chunking>>]
      r == [hash |-> c, chunking |-> conf.chunking, schema |-> conf.schema,
            count |-> n, mtime |-> IF rows[d] = None THEN 0 ELSE rows[d].mtime]
  IN IF ~Wanted(d) THEN Absent(d)
     ELSE IF <<conf.schema, c>> \in Invalid THEN ~conf.strict /\ Absent(d)
     ELSE /\ rows[d] = r
          /\ points[d] = Recorded(r)
          /\ IF n = 0 THEN meta[d] = None /\ links[d] = None
             ELSE meta[d] = [hash |-> c, schema |-> conf.schema] /\ links[d] = c

\* What ReindexQueue takes an index run to do in one step: when a run ends well, each
\* path it was given is in the index as it is on disk, unless the file or the settings
\* changed since the run read it or began, or a failure was logged for it.
RunBringsUpToDate == phase = "idle" => \A d \in settled \ hurt : UpToDate(d)

\* The reconcile scan reads no file, yet it reports every document the index is wrong
\* about, whatever was edited, excluded, reloaded or went wrong before: all but those a
\* fault left out of step with their row, those edited between their read and their stat,
\* and, while the walk is suspect, those on disk that it did not come upon.
Withheld == {d \in Docs : WalkIsSuspect /\ disk[d] # None /\ d \notin conf.walked}
SweepMissesNothing ==
  phase = "idle" =>
    \A d \in Docs \ (hurt \cup blind \cup Withheld) : UpToDate(d) \/ d \in DirtyDocs

\* The destructive rebuild is kept for damage: no run of edits, reloads and scans ever
\* makes the points fall short of the rows, so a sweep drops the collection only after a
\* wipe or a fault in the middle of a change.
RebuildsOnlyDamage == [][Sweep /\ full' => hurt # {}]_vars
=============================================================================
