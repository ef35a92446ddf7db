---------------------------- MODULE ChunkAndEmbed ---------------------------
(***************************************************************************)
(* One flush of an index run (upsert_pending, src/src/ingest.rs): the      *)
(* chunks of several documents are embedded as one list of texts, and the  *)
(* vectors are dealt out again to the documents they came from.            *)
(***************************************************************************)
EXTENDS Chunking, Embedding

VARIABLE points    \* points[f][k]: the vector stored for chunk k of document f

vars == <<chunkVars, embedVars, points>>

\* A text is known by its document and its place there.
AllTexts == FlattenSeq([f \in 1 .. Len(made) |->
                           [k \in 1 .. Len(made[f]) |-> <<f, k>>]])

\* file_boundaries: how many texts come before those of document f.
Start(f) ==
    LET count[g \in 0 .. Len(made)] == IF g = 0 THEN 0 ELSE count[g - 1] + Len(made[g])
    IN count[f - 1]

Init == ChunkInit /\ EmbedInit /\ points = <<>>

Chunk == ChunkNext /\ UNCHANGED <<embedVars, points>>

BeginEmbedding ==
    /\ ~Chunking /\ Embed(AllTexts)
    /\ UNCHANGED <<chunkVars, points>>

Embedded == EmbedNext /\ UNCHANGED <<chunkVars, points>>

Upsert ==
    /\ phase = "done" /\ points = <<>>
    /\ points' = [f \in 1 .. Len(made) |->
                     [k \in 1 .. Len(made[f]) |-> vectors[Start(f) + k]]]
    /\ UNCHANGED <<chunkVars, embedVars>>

\* The flush has ended, with points or with an error; it ends no other way.
Ended ==
    /\ phase = "failed" \/ points # <<>>
    /\ UNCHANGED vars

Next == Chunk \/ BeginEmbedding \/ Embedded \/ Upsert \/ Ended

Spec == Init /\ [][Next]_vars

----------------------------------------------------------------------------
\* What is stored has each chunk of each document, with the vector of its own
\* text, in whatever order requests and items were answered.
EveryChunkItsVector ==
    points # <<>> =>
        /\ Len(points) = Len(made)
        /\ \A f \in 1 .. Len(made) :
             /\ Len(points[f]) = Len(made[f])
             /\ \A k \in 1 .. Len(made[f]) : points[f][k] = <<f, k>>
=============================================================================
