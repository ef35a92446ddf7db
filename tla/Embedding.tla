------------------------------ MODULE Embedding -----------------------------
(***************************************************************************)
(* The embedding of a corpus (src/src/embed.rs): texts are cut into        *)
(* batches, a bounded number of requests is in flight, answers come in any *)
(* order, and the vectors have to come out in the order of the texts.      *)
(* A vector is the text it was computed from.  A call that is tried again  *)
(* (embed_backoff) is one that has not answered yet.                       *)
(***************************************************************************)
EXTENDS Integers, Sequences, FiniteSets, SequencesExt

CONSTANTS
    BatchSize,    \* embedding.batch_size
    Concurrency,  \* embedding.batch_concurrency
    ServerFaults  \* "error": a call fails for good; "short": an answer lacks a vector

ASSUME BatchAssumption == BatchSize \in Nat \ {0} /\ Concurrency \in Nat

VARIABLES
    texts,     \* all_texts
    phase,     \* "idle", "running", "done" or "failed"
    next,      \* the first batch not yet spawned
    inFlight,  \* the JoinSet: batches asked for
    slots,     \* slots[b]: the vectors of batch b, once it answered
    embedded,  \* chunks_embedded of /status
    vectors    \* what embed_texts returns

embedVars == <<texts, phase, next, inFlight, slots, embedded, vectors>>

\* document_batches.
Batches == (Len(texts) + BatchSize - 1) \div BatchSize
Batch(b) == SubSeq(texts, (b - 1) * BatchSize + 1,
                   IF b * BatchSize < Len(texts) THEN b * BatchSize ELSE Len(texts))
Window == IF Concurrency = 0 THEN 1 ELSE Concurrency
NotAnswered == [answered |-> FALSE, vectors |-> <<>>]

EmbedInit ==
    /\ texts = <<>> /\ phase = "idle" /\ next = 1 /\ inFlight = {}
    /\ slots = <<>> /\ embedded = 0 /\ vectors = <<>>

\* embed_texts is called; the first requests go out.  set_chunks_total has put
\* the progress back to zero.
Embed(input) ==
    /\ phase = "idle"
    /\ texts' = input
    /\ phase' = "running"
    /\ LET count == (Len(input) + BatchSize - 1) \div BatchSize
           first == IF count < Window THEN count ELSE Window
       IN /\ inFlight' = 1 .. first
          /\ next' = first + 1
          /\ slots' = [b \in 1 .. count |-> NotAnswered]
    /\ embedded' = 0 /\ vectors' = <<>>

\* embed_batch: the items of the answer, in whatever order they come, sorted
\* by their index.
Orders(n) == {o \in [1 .. n -> 1 .. n] : \A i, j \in 1 .. n : o[i] = o[j] => i = j}
Sorted(items) == [k \in 1 .. Len(items) |->
    (CHOOSE i \in 1 .. Len(items) :
        Cardinality({j \in 1 .. Len(items) : items[j].index < items[i].index}) = k - 1)]
ByIndex(items) == [k \in 1 .. Len(items) |-> items[Sorted(items)[k]].vector]

\* Mutant: they go after those that came before them.
PlaceNext(b) == Cardinality({c \in DOMAIN slots : slots[c].answered}) + 1

\* Where the vectors of a batch go.
Place(b) == b

\* The batches spawned when one is done: the next, if there is one.
Spawned == {next} \cap (1 .. Batches)

Answer ==
    /\ phase = "running"
    /\ \E b \in inFlight :
         /\ \E n \in {Len(Batch(b))} \cup (IF "short" \in ServerFaults
                                           THEN {Len(Batch(b)) - 1} ELSE {}) :
              \E o \in Orders(n) :
                LET items == [k \in 1 .. n |-> [index |-> o[k], vector |-> Batch(b)[o[k]]]]
                IN slots' = [slots EXCEPT ![Place(b)] =
                               [answered |-> TRUE, vectors |-> ByIndex(items)]]
         /\ embedded' = embedded + Len(Batch(b))
         /\ inFlight' = (inFlight \ {b}) \cup Spawned
    /\ next' = IF Spawned = {} THEN next ELSE next + 1
    /\ UNCHANGED <<texts, phase, vectors>>

\* A permanent error, an error after the last try, or a panic of the task: the
\* requests still out are dropped with the set.
CallFails ==
    /\ phase = "running" /\ inFlight # {} /\ "error" \in ServerFaults
    /\ phase' = "failed" /\ inFlight' = {}
    /\ UNCHANGED <<texts, next, slots, embedded, vectors>>

\* All answered: the slots in order.  The caller refuses a wrong number of
\* vectors (upsert_pending).
Collect ==
    /\ phase = "running" /\ inFlight = {}
    /\ vectors' = FlattenSeq([b \in 1 .. Len(slots) |-> slots[b].vectors])
    /\ phase' = IF Len(vectors') = Len(texts) THEN "done" ELSE "failed"
    /\ UNCHANGED <<texts, next, inFlight, slots, embedded>>

EmbedNext == Answer \/ CallFails \/ Collect
=============================================================================
