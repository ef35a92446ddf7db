----------------------------- MODULE MCIndexRun -----------------------------
(* Instances of IndexRun for TLC.                                          *)
EXTENDS IndexRun, TLC

CONSTANTS big, small, empty, s1, s2, s3, k1, k2

MCSize == [c \in Contents |-> IF c = empty THEN 1 ELSE 2]
MCChunks == [x \in Contents \X Chunkings |->
               CASE x[1] = empty -> 0
                 [] x[1] = big /\ x[2] = k1 -> 2
                 [] OTHER -> 1]
MCPayload == [s \in Schemas |-> IF s = s3 THEN s1 ELSE s]
MCInitial == [schema |-> s1, chunking |-> k1, strict |-> FALSE, walked |-> Docs, purges |-> TRUE]
MCInvalid == {<<s2, small>>}
MCConfigs == {MCInitial, [MCInitial EXCEPT !.schema = s2, !.strict = TRUE],
              [MCInitial EXCEPT !.schema = s2, !.chunking = k2],
              [MCInitial EXCEPT !.schema = s3],
              [MCInitial EXCEPT !.walked = {}, !.purges = FALSE]}
             \cup {[MCInitial EXCEPT !.walked = {d}] : d \in Docs}
Symm == Permutations(Docs)
=============================================================================
