------------------------ MODULE ContradictionsProofs ------------------------
(***************************************************************************)
(* Proofs about Contradictions, for any documents, texts, similarities,    *)
(* caps, unjudgeable pairs and faults: what counts as analysed is covered, *)
(* a pair is judged once, and, unless the process stops between the last   *)
(* two transactions of a run, no outdated row is forgotten.                *)
(***************************************************************************)
EXTENDS Contradictions, FiniteSetTheorems, TLAPS

----------------------------------------------------------------------------
(***************************************************************************)
(* The inductive invariant.                                                *)
(***************************************************************************)
Running == job.phase \in {"scan", "judge"}
HashesOf(p) == <<job.hashes[p[1]], job.hashes[p[2]]>>

\* What the run found when it began is what it finds, but for the rows it wrote and those
\* that went with their documents.
RunInv ==
    Running =>
        /\ job.phase = "scan" => job.settled = {}
        /\ \A d \in job.changed \cup job.scanned : job.hashes[d] # Gone
        /\ \A p \in job.work :
              /\ job.hashes[p[1]] # Gone /\ job.hashes[p[2]] # Gone
              /\ ~PairIsSettled(job.stored[p], job.hashes[p[1]], job.hashes[p[2]], judge)
        /\ \A p \in Pairs :
              /\ p \notin job.settled => pairs[p] \in {job.stored[p], NoRow}
              /\ p[1] \notin job.left /\ p[2] \notin job.left =>
                    IF p \in job.settled THEN pairs[p] # NoRow /\ pairs[p].hash = HashesOf(p)
                    ELSE pairs[p] = job.stored[p]

\* The neighbours of a scanned document have their pair settled or on the list.
ListInv ==
    Running => \A d \in Docs :
        /\ job.lists[d] \subseteq Docs \ (job.left \cup {d})
        /\ d \in job.scanned => \A e \in job.lists[d] :
              \/ Pair(d, e) \in job.needs[d]
              \/ /\ job.stored[Pair(d, e)] # NoRow
                 /\ job.stored[Pair(d, e)].hash = HashesOf(Pair(d, e))

\* The documents of a run that ends are marked at the text the run goes by.
EndInv ==
    job.phase = "drop" => \A d \in job.done : analyzed[d] \in {Gone, job.hashes[d]}

\* A marker vouches for the rows of the neighbours found with it, whatever text the
\* document has now: it may come back to the one it was marked at.
Side(d, e) == IF d < e THEN 1 ELSE 2
Carries(p, i) == pairs[p] # NoRow /\ pairs[p].hash[i] = analyzed[p[i]]
CoverInv ==
    \A d \in Docs \ astray :
        analyzed[d] # Gone => \A e \in listed[d] : Carries(Pair(d, e), Side(d, e))
NeighboursInv == \A d \in Docs : listed[d] \subseteq Docs \ {d}

\* Every row of a marked document carries the hash of its marker, but for those the end
\* of the run is about to delete.
FreshRows ==
    \A p \in Pairs : \A i \in 1 .. 2 :
        /\ pairs[p] # NoRow /\ analyzed[p[i]] # Gone /\ p[i] \notin astray
        /\ job.phase = "drop" => p[i] \notin job.done
        => pairs[p].hash[i] = analyzed[p[i]]

\* Without FreshRows: it is all but the process dying in the middle of a run's end keeps.
JobInv == TypeOK /\ RunInv /\ ListInv /\ EndInv /\ NeighboursInv /\ CoverInv

----------------------------------------------------------------------------
(***************************************************************************)
(* Pairs and rows.                                                         *)
(***************************************************************************)
LEMMA PairFacts ==
    ASSUME NEW d \in Docs, NEW e \in Docs, d # e
    PROVE  /\ Pair(d, e) \in Pairs
           /\ Side(d, e) \in 1 .. 2 /\ Pair(d, e)[Side(d, e)] = d
           /\ {Pair(d, e)[1], Pair(d, e)[2]} = {d, e}
<1>1. d \in Nat /\ e \in Nat
    BY DocsAssumption
<1>2. CASE d < e
    BY <1>1, <1>2 DEF Pair, Pairs, Side
<1>3. CASE ~(d < e)
    <2>1. e < d
        BY <1>1, <1>3
    <2> QED BY <2>1, <1>1, <1>3 DEF Pair, Pairs, Side
<1> QED BY <1>2, <1>3

LEMMA PairSides ==
    ASSUME NEW p \in Pairs
    PROVE  p[1] \in Docs /\ p[2] \in Docs /\ p[1] # p[2] /\ p = <<p[1], p[2]>>
<1>1. p \in Docs \X Docs /\ p[1] < p[2]
    BY DEF Pairs
<1>2. p[1] \in Nat /\ p[2] \in Nat
    BY <1>1, DocsAssumption
<1>3. p[1] # p[2]
    BY <1>1, <1>2
<1> QED BY <1>1, <1>3

LEMMA RowFacts ==
    /\ NoRow \notin Rows
    /\ \A r \in Rows : r.hash \in [1 .. 2 -> Texts] /\ r # NoRow
BY DEF NoRow, Rows

LEMMA NoJobFacts ==
    /\ NoJob.phase = "idle"
    /\ \A d \in Docs : NoJob.hashes[d] = Gone
BY DEF NoJob

\* A non-empty set of documents has a first one.
LEMMA FirstIn ==
    ASSUME NEW s \in SUBSET Docs, s # {}
    PROVE  First(s) \in s /\ \A t \in s : First(s) <= t
<1> DEFINE Before_(x) == {y \in s : y < x}
           F == {Before_(x) : x \in s}
<1>0. s \subseteq Nat /\ IsFiniteSet(s)
    BY DocsAssumption, FS_Subset
<1>1. IsWellFoundedOn(StrictSubsetOrdering(s), SUBSET s)
    BY <1>0, FS_StrictSubsetOrderingWellFounded, FS_FiniteSubsetsOfFinite
<1>2. F \subseteq SUBSET s /\ F # {}
    OBVIOUS
<1>3. PICK U \in F : \A V \in F : <<V, U>> \notin StrictSubsetOrdering(s)
    <2> HIDE DEF F
    <2> QED BY <1>1, <1>2, WFMin, Zenon
<1>4. PICK m \in s : U = Before_(m)
    BY <1>3
<1>5. ASSUME NEW t \in s, t < m PROVE FALSE
    <2>1. t \in Before_(m) /\ t \notin Before_(t)
        BY <1>0, <1>5
    <2>2. \A y \in s : y < t => y < m
        <3> SUFFICES ASSUME NEW y \in s, y < t PROVE y < m
            OBVIOUS
        <3>1. y \in Nat /\ t \in Nat /\ m \in Nat
            BY <1>0
        <3> QED BY <3>1, <1>5
    <2>3. Before_(t) \subseteq Before_(m) /\ Before_(t) # Before_(m)
        BY <2>1, <2>2
    <2>4. <<Before_(t), U>> \in StrictSubsetOrdering(s)
        BY <2>3, <1>4 DEF StrictSubsetOrdering
    <2> QED BY <2>4, <1>3, <1>5
<1>6. \A t \in s : m <= t
    <2> SUFFICES ASSUME NEW t \in s PROVE m <= t
        OBVIOUS
    <2>1. m \in Nat /\ t \in Nat
        BY <1>0
    <2> QED BY <2>1, <1>5
<1> QED BY <1>6 DEF First

LEMMA FirstPairIn ==
    ASSUME NEW s \in SUBSET Pairs, s # {}
    PROVE  FirstPair(s) \in s
<1> DEFINE A == {p[1] : p \in s}
           a == First(A)
           B == {p[2] : p \in {q \in s : q[1] = a}}
           b == First(B)
<1>1. \A p \in s : p[1] \in Docs /\ p[2] \in Docs /\ p = <<p[1], p[2]>>
    BY PairSides
<1>2. A \in SUBSET Docs /\ A # {}
    BY <1>1
<1>3. a \in A /\ \A t \in A : a <= t
    <2> HIDE DEF A
    <2> QED BY <1>2, FirstIn
<1>4. B \in SUBSET Docs /\ B # {}
    <2> HIDE DEF a
    <2> QED BY <1>1, <1>3
<1>5. b \in B /\ \A t \in B : b <= t
    <2> HIDE DEF B
    <2> QED BY <1>4, FirstIn
<1> HIDE DEF a, b
<1>6. PICK p \in s : p[1] = a /\ p[2] = b
    BY <1>5
<1>7. \A q \in s \ {p} : Before(p, q)
    <2> SUFFICES ASSUME NEW q \in s \ {p} PROVE Before(p, q)
        OBVIOUS
    <2>1. a <= q[1]
        BY <1>3
    <2>2. q[1] = a => b <= q[2]
        BY <1>5
    <2>3. q[1] # a \/ q[2] # b
        BY <1>1, <1>6
    <2>4. {q[1], q[2], a, b} \subseteq Nat
        BY <1>1, <1>6, DocsAssumption
    <2> QED BY <2>1, <2>2, <2>3, <2>4, <1>6 DEF Before
<1> QED BY <1>7 DEF FirstPair
----------------------------------------------------------------------------
LEMMA InitKeeps == Init => JobInv /\ FreshRows
<1> SUFFICES ASSUME Init PROVE JobInv /\ FreshRows
    OBVIOUS
<1>1. TypeOK
    BY BoundsAssumption, SetsAssumption DEF Init, TypeOK, Job, NoJob, Gone, Texts
<1>2. RunInv /\ ListInv /\ EndInv
    BY NoJobFacts DEF Init, RunInv, ListInv, EndInv, Running
<1>3. NeighboursInv /\ CoverInv
    BY DEF Init, NeighboursInv, CoverInv
<1>4. FreshRows
    BY DEF Init, FreshRows
<1> QED BY <1>1, <1>2, <1>3, <1>4 DEF JobInv

\* The invariant looks at no text, no file, no row of `documents`: what is written, removed
\* or indexed while a run goes on is nothing to it.
LEMMA OutsideKeeps ==
    ASSUME JobInv, TypeOK', UNCHANGED <<analyzed, pairs, job, listed, astray>>,
           Idle \/ judge' = judge
    PROVE  JobInv' /\ (FreshRows => FreshRows')
<1>1. RunInv'
    BY DEF JobInv, RunInv, Running, HashesOf, Idle
<1>2. ListInv' /\ EndInv'
    BY DEF JobInv, ListInv, EndInv, Running, HashesOf, Pair
<1>3. NeighboursInv' /\ CoverInv'
    BY DEF JobInv, NeighboursInv, CoverInv, Carries, Pair
<1>4. FreshRows => FreshRows'
    BY DEF FreshRows
<1> QED BY <1>1, <1>2, <1>3, <1>4 DEF JobInv

LEMMA EnvironmentKeeps ==
    ASSUME JobInv, Environment \/ \E d \in Docs : Index(d)
    PROVE  JobInv' /\ (FreshRows => FreshRows')
<1>1. CASE Restart
    <2>1. TypeOK'
        BY <1>1, BoundsAssumption, SetsAssumption DEF Restart, Edit, docs, history, JobInv, TypeOK
    <2> QED BY <1>1, <2>1, OutsideKeeps DEF Restart, history
<1>2. ASSUME NEW d \in Docs, NEW v \in Texts, Write(d, v)
      PROVE  JobInv' /\ (FreshRows => FreshRows')
    <2>1. TypeOK'
        BY <1>2, BoundsAssumption DEF Write, Edit, history, JobInv, TypeOK
    <2> QED BY <1>2, <2>1, OutsideKeeps DEF Write, history
<1>3. ASSUME NEW d \in Docs, Remove(d)
      PROVE  JobInv' /\ (FreshRows => FreshRows')
    <2>1. TypeOK'
        BY <1>3, BoundsAssumption DEF Remove, Fault, history, JobInv, TypeOK
    <2> QED BY <1>3, <2>1, OutsideKeeps DEF Remove, history
<1>4. ASSUME NEW d \in Docs, Index(d)
      PROVE  JobInv' /\ (FreshRows => FreshRows')
    <2>1. text[d] \in 0 .. MaxText
        BY BoundsAssumption DEF JobInv, TypeOK, Texts
    <2>2. TypeOK'
        BY <1>4, <2>1 DEF Index, history, JobInv, TypeOK
    <2> QED BY <1>4, <2>2, OutsideKeeps DEF Index, history
<1> QED BY <1>1, <1>2, <1>3, <1>4 DEF Environment

LEMMA DeleteKeeps ==
    ASSUME JobInv, NEW d \in Docs, DeleteDocument(d)
    PROVE  JobInv' /\ (FreshRows => FreshRows')
<1>0. UNCHANGED <<judge, text, exists, astray, edits>>
    BY DEF DeleteDocument
<1>1. /\ row' = [row EXCEPT ![d] = Gone]
      /\ \A e \in Docs : listed'[e] = listed[e] \ {d}
      /\ \A e \in Docs : analyzed'[e] = analyzed[e] \/ analyzed'[e] = Gone
      /\ \A p \in Pairs : \/ pairs'[p] = pairs[p]
                          \/ d \in {p[1], p[2]} /\ pairs'[p] = NoRow /\ analyzed'[d] = Gone
    BY DEF DeleteDocument, JobInv, TypeOK
<1>2. /\ analyzed' \in [Docs -> 0 .. MaxText] /\ pairs' \in [Pairs -> Rows \cup {NoRow}]
      /\ faults' \in 0 .. MaxFaults /\ listed' \in [Docs -> SUBSET Docs]
    <2>1. Gone \in 0 .. MaxText
        BY BoundsAssumption DEF Gone
    <2>2. listed' \in [Docs -> SUBSET Docs]
        BY DEF DeleteDocument, JobInv, TypeOK
    <2>3. analyzed' \in [Docs -> 0 .. MaxText] /\ pairs' \in [Pairs -> Rows \cup {NoRow}]
        BY <2>1 DEF DeleteDocument, JobInv, TypeOK
    <2>4. faults' \in 0 .. MaxFaults
        BY BoundsAssumption DEF DeleteDocument, Fault, JobInv, TypeOK
    <2> QED BY <2>2, <2>3, <2>4
<1>3. job' = IF Idle THEN job
             ELSE [job EXCEPT !.lists = [e \in Docs |-> job.lists[e] \ {d}],
                              !.left = job.left \cup {d}]
    BY DEF DeleteDocument
<1>4. /\ job'.phase = job.phase /\ job'.hashes = job.hashes
      /\ job'.stored = job.stored /\ job'.changed = job.changed /\ job'.needs = job.needs
      /\ job'.scanned = job.scanned /\ job'.work = job.work
      /\ job'.settled = job.settled /\ job'.done = job.done
      /\ ~Idle => /\ job'.left = job.left \cup {d}
                  /\ job'.lists = [e \in Docs |-> job.lists[e] \ {d}]
    BY <1>3 DEF JobInv, TypeOK, Job
<1>5. TypeOK'
    <2>1. row' \in [Docs -> 0 .. MaxText]
        BY <1>1, BoundsAssumption DEF JobInv, TypeOK, Gone
    <2>2. job' \in Job
        BY <1>3 DEF JobInv, TypeOK, Job
    <2> QED BY <1>0, <1>2, <1>4, <2>1, <2>2 DEF JobInv, TypeOK
<1>6. RunInv'
    <2> SUFFICES ASSUME Running PROVE RunInv'
        BY <1>4 DEF RunInv, Running
    <2>1. ~Idle
        BY DEF Running, Idle
    <2>2. \A p \in Pairs : HashesOf(p)' = HashesOf(p)
        BY <1>4 DEF HashesOf
    <2>3. \A p \in Pairs : /\ p \notin job.settled => pairs'[p] \in {job.stored[p], NoRow}
                           /\ p[1] \notin job'.left /\ p[2] \notin job'.left =>
                                IF p \in job.settled
                                THEN pairs'[p] # NoRow /\ pairs'[p].hash = HashesOf(p)
                                ELSE pairs'[p] = job.stored[p]
        BY <1>1, <1>4, <2>1 DEF JobInv, RunInv
    <2>4. /\ \A e \in job.changed \cup job.scanned : job.hashes[e] # Gone
          /\ \A p \in job.work :
              /\ job.hashes[p[1]] # Gone /\ job.hashes[p[2]] # Gone
              /\ ~PairIsSettled(job.stored[p], job.hashes[p[1]], job.hashes[p[2]], judge)
        BY DEF JobInv, RunInv
    <2>5. job.phase = "scan" => job.settled = {}
        BY DEF JobInv, RunInv
    <2> QED BY <1>0, <1>4, <2>2, <2>3, <2>4, <2>5 DEF RunInv
<1>7. ListInv'
    <2> SUFFICES ASSUME Running, NEW e \in Docs
                 PROVE  /\ job'.lists[e] \subseteq Docs \ (job'.left \cup {e})
                        /\ e \in job.scanned => \A f \in job'.lists[e] :
                              \/ Pair(e, f) \in job.needs[e]
                              \/ /\ job.stored[Pair(e, f)] # NoRow
                                 /\ job.stored[Pair(e, f)].hash = HashesOf(Pair(e, f))
        <3>1. \A p : HashesOf(p)' = HashesOf(p)
            BY <1>4 DEF HashesOf
        <3>2. Running' = Running
            BY <1>4 DEF Running
        <3> QED BY <3>1, <3>2, <1>4 DEF ListInv
    <2>1. ~Idle
        BY DEF Running, Idle
    <2>2. job'.lists[e] = job.lists[e] \ {d} /\ job'.left = job.left \cup {d}
        BY <1>4, <2>1
    <2> QED BY <2>2 DEF JobInv, ListInv
<1>8. EndInv'
    <2>1. \A e \in job.done : e \in Docs
        BY DEF JobInv, TypeOK, Job
    <2> QED BY <1>1, <1>4, <2>1 DEF JobInv, EndInv
<1>9. NeighboursInv'
    BY <1>1 DEF JobInv, NeighboursInv
<1>10. CoverInv'
    <2> SUFFICES ASSUME NEW e \in Docs \ astray, analyzed'[e] # Gone, NEW f \in listed'[e]
                 PROVE  Carries(Pair(e, f), Side(e, f))'
        BY <1>0 DEF CoverInv, Pair, Side
    <2>1. f \in listed[e] /\ f # d /\ analyzed'[e] = analyzed[e] /\ analyzed[e] # Gone
        BY <1>1
    <2>2. f \in Docs /\ f # e
        BY <2>1 DEF JobInv, NeighboursInv
    <2>3. PICK p \in Pairs : p = Pair(e, f) /\ p[Side(e, f)] = e /\ {p[1], p[2]} = {e, f}
        BY <2>2, PairFacts
    <2>4. pairs[p] # NoRow /\ pairs[p].hash[Side(e, f)] = analyzed[e]
        BY <2>1, <2>3 DEF JobInv, CoverInv, Carries
    <2>5. pairs'[p] = pairs[p]
        BY <1>1, <2>1, <2>3
    <2> QED BY <2>1, <2>3, <2>4, <2>5 DEF Carries, Side, Pair
<1>11. ASSUME FreshRows PROVE FreshRows'
    <2> SUFFICES ASSUME NEW p \in Pairs, NEW i \in 1 .. 2, pairs'[p] # NoRow,
                        analyzed'[p[i]] # Gone, p[i] \notin astray,
                        job.phase = "drop" => p[i] \notin job.done
                 PROVE  pairs'[p].hash[i] = analyzed'[p[i]]
        BY <1>0, <1>4 DEF FreshRows
    <2>1. p[i] \in Docs
        BY PairSides
    <2> QED BY <2>1, <1>1, <1>11 DEF FreshRows
<1> QED BY <1>5, <1>6, <1>7, <1>8, <1>9, <1>10, <1>11 DEF JobInv

LEMMA StartKeeps ==
    ASSUME JobInv, Start
    PROVE  JobInv' /\ (FreshRows => FreshRows')
<1>0. UNCHANGED <<judge, text, exists, row, astray, edits, faults>> /\ Idle
    BY DEF Start, docs
<1>1. /\ analyzed' \in [Docs -> 0 .. MaxText]
      /\ \A d \in Docs : analyzed'[d] \in {analyzed[d], Gone}
      /\ \A d \in Docs : analyzed'[d] # Gone => Known = {} \/ d \in Known
    BY BoundsAssumption DEF Start, PrunedMarkers, JobInv, TypeOK, Gone
<1>2. /\ pairs' \in [Pairs -> Rows \cup {NoRow}]
      /\ \A p \in Pairs : /\ pairs'[p] \in {pairs[p], NoRow}
                          /\ Known = {} \/ {p[1], p[2]} \subseteq Known =>
                                pairs'[p] = pairs[p]
    BY DEF Start, PrunedPairs, JobInv, TypeOK
<1>3. /\ job'.phase = "scan" /\ job'.hashes = row
      /\ job'.stored = pairs' /\ job'.changed \subseteq Known /\ job'.work = {}
      /\ job'.scanned = {} /\ job'.settled = {} /\ job'.left = {}
      /\ job'.lists = [d \in Docs |-> {}] /\ job'.done = {}
    BY DEF Start, NoJob
<1>4. /\ listed' \in [Docs -> SUBSET Docs]
      /\ \A d \in Docs : /\ listed'[d] \subseteq listed[d]
                         /\ Known # {} => listed'[d] \subseteq Known
    BY DEF Start, JobInv, TypeOK
<1>5. TypeOK'
    <2>1. PICK changed \in SUBSET Docs : changed = job'.changed
        BY <1>3 DEF Known
    <2>2. job' = [phase |-> "scan", cancelled |-> FALSE, hashes |-> row,
                  stored |-> pairs', changed |-> changed,
                  needs |-> [d \in Docs |-> {}], scanned |-> {},
                  lists |-> [d \in Docs |-> {}], work |-> {}, settled |-> {},
                  left |-> {}, attempted |-> 0, failures |-> 0, done |-> {}]
        BY <2>1 DEF Start, NoJob
    <2>3. row \in [Docs -> 0 .. MaxText] /\ 0 \in 0 .. MaxPairs /\ 0 \in 0 .. MaxFailures
        BY BoundsAssumption DEF JobInv, TypeOK
    <2>4. job' \in Job
        BY <1>2, <2>2, <2>3 DEF Job
    <2>5. job'.settled \cap job'.work = {} /\ job'.done \subseteq job'.scanned
        BY <2>2
    <2> QED BY <1>0, <1>1, <1>2, <1>4, <2>4, <2>5 DEF JobInv, TypeOK
<1>6. RunInv'
    <2>1. \A d \in job'.changed \cup job'.scanned : job'.hashes[d] # Gone
        BY <1>3 DEF Known
    <2> QED BY <2>1, <1>3 DEF RunInv
<1>7. ListInv' /\ EndInv'
    BY <1>3 DEF ListInv, EndInv
<1>8. NeighboursInv'
    BY <1>4 DEF JobInv, NeighboursInv
<1>9. CoverInv'
    <2> SUFFICES ASSUME NEW e \in Docs \ astray, analyzed'[e] # Gone, NEW f \in listed'[e]
                 PROVE  Carries(Pair(e, f), Side(e, f))'
        BY <1>0 DEF CoverInv, Pair, Side
    <2>1. f \in listed[e] /\ analyzed'[e] = analyzed[e] /\ analyzed[e] # Gone
        BY <1>1, <1>4
    <2>2. f \in Docs /\ f # e
        BY <2>1 DEF JobInv, NeighboursInv
    <2>3. PICK p \in Pairs : p = Pair(e, f) /\ p[Side(e, f)] = e /\ {p[1], p[2]} = {e, f}
        BY <2>2, PairFacts
    <2>4. pairs[p] # NoRow /\ pairs[p].hash[Side(e, f)] = analyzed[e]
        BY <2>1, <2>3 DEF JobInv, CoverInv, Carries
    <2>5. Known = {} \/ {p[1], p[2]} \subseteq Known
        BY <1>1, <1>4, <2>3
    <2> QED BY <1>2, <2>1, <2>3, <2>4, <2>5 DEF Carries, Side, Pair
<1>10. ASSUME FreshRows PROVE FreshRows'
    <2> SUFFICES ASSUME NEW p \in Pairs, NEW i \in 1 .. 2, pairs'[p] # NoRow,
                        analyzed'[p[i]] # Gone, p[i] \notin astray
                 PROVE  pairs'[p].hash[i] = analyzed'[p[i]]
        BY <1>0 DEF FreshRows
    <2>1. p[i] \in Docs
        BY PairSides
    <2> QED BY <2>1, <1>0, <1>1, <1>2, <1>10 DEF FreshRows, Idle
<1> QED BY <1>5, <1>6, <1>7, <1>8, <1>9, <1>10 DEF JobInv

----------------------------------------------------------------------------
(***************************************************************************)
(* Steps of a run that write nothing.                                      *)
(***************************************************************************)
LEMMA QuietKeeps ==
    ASSUME JobInv, Running, Running', TypeOK', ListInv',
           UNCHANGED <<judge, text, exists, row, analyzed, pairs, listed, astray, edits>>,
           UNCHANGED <<job.hashes, job.stored, job.left, job.settled>>,
           job'.phase = "scan" => job.phase = "scan",
           job'.changed \cup job'.scanned \subseteq job.changed \cup job.scanned,
           \A p \in job'.work :
              \/ p \in job.work
              \/ /\ job.hashes[p[1]] # Gone /\ job.hashes[p[2]] # Gone
                 /\ ~PairIsSettled(job.stored[p], job.hashes[p[1]], job.hashes[p[2]], judge)
    PROVE  JobInv' /\ (FreshRows => FreshRows')
<1>1. EndInv'
    BY DEF EndInv, Running
<1>4. RunInv'
    <2>1. \A p \in job'.work :
              /\ job.hashes[p[1]] # Gone /\ job.hashes[p[2]] # Gone
              /\ ~PairIsSettled(job.stored[p], job.hashes[p[1]], job.hashes[p[2]], judge)
        BY DEF JobInv, RunInv
    <2>2. \A d \in job'.changed \cup job'.scanned : job.hashes[d] # Gone
        BY DEF JobInv, RunInv
    <2>3. \A p : HashesOf(p)' = HashesOf(p)
        BY DEF HashesOf
    <2>4. \A p \in Pairs :
              /\ p \notin job.settled => pairs[p] \in {job.stored[p], NoRow}
              /\ p[1] \notin job.left /\ p[2] \notin job.left =>
                    IF p \in job.settled THEN pairs[p] # NoRow /\ pairs[p].hash = HashesOf(p)
                    ELSE pairs[p] = job.stored[p]
        BY DEF JobInv, RunInv
    <2>5. job'.phase = "scan" => job.settled = {}
        BY DEF JobInv, RunInv
    <2> QED BY <2>1, <2>2, <2>3, <2>4, <2>5 DEF RunInv
<1>5. NeighboursInv' /\ CoverInv'
    BY DEF JobInv, NeighboursInv, CoverInv, Carries, Pair
<1>6. FreshRows => FreshRows'
    BY DEF FreshRows, Running
<1> QED BY <1>1, <1>4, <1>5, <1>6 DEF JobInv

\* The pairs a scanned document needs, and the neighbours it has.
LEMMA ScanFacts ==
    ASSUME JobInv, NEW d \in Docs, job.hashes[d] # Gone
    PROVE  /\ Ranked(d) \subseteq Docs \ {d}
           /\ Required(d, Ranked(d)) \subseteq Pairs
           /\ \A p \in Required(d, Ranked(d)) :
                /\ job.hashes[p[1]] # Gone /\ job.hashes[p[2]] # Gone
                /\ ~PairIsSettled(job.stored[p], job.hashes[p[1]], job.hashes[p[2]], judge)
           /\ \A e \in Ranked(d) :
                \/ Pair(d, e) \in Required(d, Ranked(d))
                \/ /\ job.stored[Pair(d, e)] # NoRow
                   /\ job.stored[Pair(d, e)].hash = HashesOf(Pair(d, e))
<1>1. \A e \in Ranked(d) : e \in Known \ {d} /\ e \in Docs /\ job.hashes[e] # Gone
    BY DEF Ranked, Close, Known
<1>2. \A e \in Ranked(d) : Pair(d, e) \in Pairs /\ {Pair(d, e)[1], Pair(d, e)[2]} = {d, e}
    BY <1>1, PairFacts
<1>3. \A p \in Required(d, Ranked(d)) :
         /\ \E e \in Ranked(d) : p = Pair(d, e)
         /\ ~PairIsSettled(job.stored[p], job.hashes[p[1]], job.hashes[p[2]], judge)
    BY DEF Required
<1>4. \A p \in Required(d, Ranked(d)) : job.hashes[p[1]] # Gone /\ job.hashes[p[2]] # Gone
    <2> SUFFICES ASSUME NEW p \in Required(d, Ranked(d))
                 PROVE  job.hashes[p[1]] # Gone /\ job.hashes[p[2]] # Gone
        OBVIOUS
    <2>1. PICK e \in Ranked(d) : p = Pair(d, e)
        BY <1>3
    <2>2. p[1] \in {d, e} /\ p[2] \in {d, e}
        BY <2>1, <1>2
    <2> QED BY <2>2, <1>1
<1>5. \A e \in Ranked(d) :
         \/ Pair(d, e) \in Required(d, Ranked(d))
         \/ PairIsSettled(job.stored[Pair(d, e)], job.hashes[Pair(d, e)[1]],
                          job.hashes[Pair(d, e)[2]], judge)
    BY DEF Required
<1> QED BY <1>1, <1>2, <1>3, <1>4, <1>5 DEF PairIsSettled, HashesOf

LEMMA ScanKeeps ==
    ASSUME JobInv, Scan
    PROVE  JobInv' /\ (FreshRows => FreshRows')
<1>0. Running /\ UNCHANGED <<judge, text, exists, row, analyzed, pairs, listed, astray, edits, faults>>
    BY DEF Scan, docs, history, Running
<1>1. PICK d \in job.changed : d = First(job.changed)
    BY FirstIn DEF Scan, JobInv, TypeOK, Job
<1>2. d \in Docs /\ job.hashes[d] # Gone
    BY <1>0, <1>1 DEF JobInv, TypeOK, Job, RunInv
<1>3. PICK near, needs : near = Ranked(d) /\ needs = Required(d, near)
    OBVIOUS
<1>4. /\ near \subseteq Docs \ {d} /\ needs \subseteq Pairs
      /\ \A p \in needs :
           /\ job.hashes[p[1]] # Gone /\ job.hashes[p[2]] # Gone
           /\ ~PairIsSettled(job.stored[p], job.hashes[p[1]], job.hashes[p[2]], judge)
      /\ \A e \in near : \/ Pair(d, e) \in needs
                         \/ /\ job.stored[Pair(d, e)] # NoRow
                            /\ job.stored[Pair(d, e)].hash = HashesOf(Pair(d, e))
    BY <1>2, <1>3, ScanFacts
<1>5. job' = [job EXCEPT !.changed = job.changed \ {d}, !.scanned = job.scanned \cup {d},
                         !.needs = [job.needs EXCEPT ![d] = needs],
                         !.lists = [job.lists EXCEPT ![d] = near \ job.left],
                         !.work = job.work \cup needs]
    BY <1>1, <1>3 DEF Scan
<1>6. /\ job'.changed = job.changed \ {d} /\ job'.scanned = job.scanned \cup {d}
      /\ job'.needs = [job.needs EXCEPT ![d] = needs]
      /\ job'.lists = [job.lists EXCEPT ![d] = near \ job.left]
      /\ job'.work = job.work \cup needs
      /\ job'.phase = job.phase /\ job'.hashes = job.hashes
      /\ job'.stored = job.stored /\ job'.settled = job.settled /\ job'.left = job.left
      /\ job'.done = job.done
    BY <1>5 DEF JobInv, TypeOK, Job
<1>7. TypeOK'
    <2>1. job' \in Job
        BY <1>2, <1>4, <1>5 DEF JobInv, TypeOK, Job
    <2>2. job'.settled \cap job'.work = {}
        BY <1>0, <1>6 DEF JobInv, RunInv, Scan
    <2>3. job'.done \subseteq job'.scanned
        BY <1>6 DEF JobInv, TypeOK
    <2> QED BY <1>0, <2>1, <2>2, <2>3 DEF JobInv, TypeOK
<1>8. ListInv'
    <2> SUFFICES ASSUME NEW e \in Docs
                 PROVE  /\ job'.lists[e] \subseteq Docs \ (job.left \cup {e})
                        /\ e \in job'.scanned => \A f \in job'.lists[e] :
                              \/ Pair(e, f) \in job'.needs[e]
                              \/ /\ job.stored[Pair(e, f)] # NoRow
                                 /\ job.stored[Pair(e, f)].hash = HashesOf(Pair(e, f))
        <3>1. \A p : HashesOf(p)' = HashesOf(p)
            BY <1>6 DEF HashesOf
        <3>2. job'.left = job.left /\ job'.stored = job.stored
            BY <1>6
        <3> QED BY <3>1, <3>2 DEF ListInv
    <2>1. CASE e = d
        BY <2>1, <1>4, <1>6 DEF JobInv, TypeOK, Job
    <2>2. CASE e # d
        <3>1. job'.lists[e] = job.lists[e] /\ job'.needs[e] = job.needs[e]
            BY <2>2, <1>6 DEF JobInv, TypeOK, Job
        <3>2. e \in job'.scanned => e \in job.scanned
            BY <2>2, <1>6
        <3> QED BY <1>0, <3>1, <3>2 DEF JobInv, ListInv
    <2> QED BY <2>1, <2>2
<1>9. job'.phase = "scan" /\ job.phase = "scan" /\ Running'
    BY <1>6 DEF Scan, Running
<1>10. job'.changed \cup job'.scanned \subseteq job.changed \cup job.scanned
    BY <1>1, <1>6
<1>11. \A p \in job'.work :
          \/ p \in job.work
          \/ /\ job.hashes[p[1]] # Gone /\ job.hashes[p[2]] # Gone
             /\ ~PairIsSettled(job.stored[p], job.hashes[p[1]], job.hashes[p[2]], judge)
    BY <1>4, <1>6
<1> QED BY <1>0, <1>6, <1>7, <1>8, <1>9, <1>10, <1>11, QuietKeeps

\* What a step that forgets a document or a pair, or ends a phase, leaves as it was.
LEMMA ListsKept ==
    ASSUME JobInv, Running,
           UNCHANGED <<job.lists, job.left, job.needs, job.stored, job.hashes>>,
           job'.scanned \subseteq job.scanned
    PROVE  ListInv'
<1>1. \A p : HashesOf(p)' = HashesOf(p)
    BY DEF HashesOf
<1> QED BY <1>1 DEF JobInv, ListInv

LEMMA ScanFailsKeeps ==
    ASSUME JobInv, ScanFails
    PROVE  JobInv' /\ (FreshRows => FreshRows')
<1>0. Running /\ UNCHANGED <<judge, text, exists, row, analyzed, pairs, listed, astray, edits>>
    BY DEF ScanFails, docs, history, Running
<1>1. job' = [job EXCEPT !.changed = job.changed \ {First(job.changed)}]
    BY DEF ScanFails
<1>2. /\ job'.changed \subseteq job.changed /\ job'.phase = job.phase
      /\ UNCHANGED <<job.scanned, job.needs, job.lists, job.work, job.hashes,
                     job.stored, job.settled, job.left, job.done>>
    BY <1>1 DEF JobInv, TypeOK, Job
<1>3. TypeOK'
    <2>1. job' \in Job
        BY <1>1 DEF JobInv, TypeOK, Job
    <2>2. faults' \in 0 .. MaxFaults
        BY BoundsAssumption DEF ScanFails, Fault, JobInv, TypeOK
    <2> QED BY <1>0, <1>2, <2>1, <2>2 DEF JobInv, TypeOK
<1>4. ListInv' /\ Running'
    BY <1>0, <1>2, ListsKept DEF Running
<1> QED BY <1>0, <1>2, <1>3, <1>4, QuietKeeps

LEMMA GatherKeeps ==
    ASSUME JobInv, Gather
    PROVE  JobInv' /\ (FreshRows => FreshRows')
<1>0. Running /\ UNCHANGED <<judge, text, exists, row, analyzed, pairs, listed, astray, edits, faults>>
    BY DEF Gather, docs, history, Running
<1>1. job' = [job EXCEPT !.phase = "judge", !.work = job.work \cup Retried]
    BY DEF Gather
<1>2. /\ job'.phase = "judge" /\ job'.work = job.work \cup Retried
      /\ UNCHANGED <<job.changed, job.scanned, job.needs, job.lists, job.hashes,
                     job.stored, job.settled, job.left, job.done>>
    BY <1>1 DEF JobInv, TypeOK, Job
<1>3. /\ Retried \subseteq Pairs
      /\ \A p \in Retried : /\ job.hashes[p[1]] # Gone /\ job.hashes[p[2]] # Gone
                            /\ ~PairIsSettled(job.stored[p], job.hashes[p[1]],
                                              job.hashes[p[2]], judge)
    <2>1. Retried \subseteq Pairs
        BY DEF Retried
    <2> SUFFICES ASSUME NEW p \in Retried
                 PROVE  /\ job.hashes[p[1]] # Gone /\ job.hashes[p[2]] # Gone
                        /\ ~PairIsSettled(job.stored[p], job.hashes[p[1]],
                                          job.hashes[p[2]], judge)
        BY <2>1
    <2>2. /\ p \in Pairs /\ judge /\ job.stored[p] # NoRow
          /\ job.stored[p].verdict = "candidate"
          /\ job.stored[p].hash = <<job.hashes[p[1]], job.hashes[p[2]]>>
        BY DEF Retried
    <2>3. job.stored[p].hash \in [1 .. 2 -> Texts]
        BY <2>2, RowFacts DEF JobInv, TypeOK, Job
    <2>4. job.stored[p].hash[1] # Gone /\ job.stored[p].hash[2] # Gone
        BY <2>3 DEF Texts, Gone
    <2> QED BY <2>2, <2>4 DEF PairIsSettled
<1>4. TypeOK'
    <2>1. job' \in Job
        BY <1>1, <1>3 DEF JobInv, TypeOK, Job
    <2>2. job'.settled \cap job'.work = {}
        BY <1>0, <1>2 DEF JobInv, RunInv, Gather
    <2> QED BY <1>0, <1>2, <2>1, <2>2 DEF JobInv, TypeOK
<1>5. ListInv' /\ Running'
    BY <1>0, <1>2, ListsKept DEF Running
<1> QED BY <1>0, <1>2, <1>3, <1>4, <1>5, QuietKeeps

LEMMA SkippedKeeps ==
    ASSUME JobInv, Skipped
    PROVE  JobInv' /\ (FreshRows => FreshRows')
<1>0. Running /\ UNCHANGED <<judge, text, exists, row, analyzed, pairs, listed, astray, edits>>
    BY DEF Skipped, Goes, docs, history, Running
<1>1. job' = [job EXCEPT !.work = job.work \ {FirstPair(job.work)}]
    BY DEF Skipped
<1>2. /\ job'.work \subseteq job.work /\ job'.phase = job.phase
      /\ UNCHANGED <<job.changed, job.scanned, job.needs, job.lists, job.hashes,
                     job.stored, job.settled, job.left, job.done>>
    BY <1>1 DEF JobInv, TypeOK, Job
<1>3. TypeOK'
    <2>1. job' \in Job
        BY <1>1 DEF JobInv, TypeOK, Job
    <2>2. faults' \in 0 .. MaxFaults
        <3>1. faults' = faults \/ Fault("read")
            BY DEF Skipped
        <3> QED BY <3>1, BoundsAssumption DEF Fault, JobInv, TypeOK
    <2> QED BY <1>0, <1>2, <2>1, <2>2 DEF JobInv, TypeOK
<1>4. ListInv' /\ Running'
    BY <1>0, <1>2, ListsKept DEF Running
<1> QED BY <1>0, <1>2, <1>3, <1>4, QuietKeeps

LEMMA CancelKeeps ==
    ASSUME JobInv, Cancel
    PROVE  JobInv' /\ (FreshRows => FreshRows')
<1>0. Running /\ UNCHANGED <<judge, text, exists, row, analyzed, pairs, listed, astray, edits>>
    BY DEF Cancel, docs, history, Running
<1>1. job' = [job EXCEPT !.cancelled = TRUE]
    BY DEF Cancel
<1>2. /\ job'.phase = job.phase
      /\ UNCHANGED <<job.work, job.changed, job.scanned, job.needs, job.lists,
                     job.hashes, job.stored, job.settled, job.left, job.done>>
    BY <1>1 DEF JobInv, TypeOK, Job
<1>3. TypeOK'
    <2>1. job' \in Job
        BY <1>1 DEF JobInv, TypeOK, Job
    <2>2. faults' \in 0 .. MaxFaults
        BY BoundsAssumption DEF Cancel, Fault, JobInv, TypeOK
    <2> QED BY <1>0, <1>2, <2>1, <2>2 DEF JobInv, TypeOK
<1>4. ListInv' /\ Running'
    BY <1>0, <1>2, ListsKept DEF Running
<1> QED BY <1>0, <1>2, <1>3, <1>4, QuietKeeps

----------------------------------------------------------------------------
(***************************************************************************)
(* A row is stored, with or without a verdict.                             *)
(***************************************************************************)
StoresNext(verdict, failures) ==
    /\ Goes /\ Stored(FirstPair(job.work), verdict, failures)
    /\ verdict \in {"candidate", "final"} /\ failures \in 0 .. MaxFailures
    /\ UNCHANGED <<judge, docs, analyzed, listed, edits>> /\ faults' \in 0 .. MaxFaults

LEMMA WorkStores ==
    ASSUME JobInv, Judged \/ JudgeFails \/ NoVerdict
    PROVE  \E verdict \in {"candidate", "final"}, failures \in 0 .. MaxFailures :
              StoresNext(verdict, failures)
<1>0. faults \in 0 .. MaxFaults /\ MaxFaults \in Nat /\ MaxFailures \in Nat
      /\ job.failures \in 0 .. MaxFailures /\ 0 \in 0 .. MaxFailures
    BY BoundsAssumption DEF JobInv, TypeOK, Job
<1>1. ASSUME Judged PROVE StoresNext("final", 0)
    BY <1>0, <1>1 DEF Judged, StoresNext, docs
<1>2. ASSUME NoVerdict PROVE StoresNext("candidate", 0)
    BY <1>0, <1>2 DEF NoVerdict, StoresNext, docs
<1>3. ASSUME JudgeFails PROVE StoresNext("candidate", job.failures + 1)
                              /\ job.failures + 1 \in 0 .. MaxFailures
    <2>1. /\ Goes /\ Stored(FirstPair(job.work), "candidate", job.failures + 1)
          /\ UNCHANGED <<judge, docs, analyzed, listed, edits>> /\ (faults' = faults \/ Fault("judge"))
        BY <1>3 DEF JudgeFails
    <2>2. faults' \in 0 .. MaxFaults
        BY <1>0, <2>1 DEF Fault
    <2>3. job.failures + 1 \in 0 .. MaxFailures
        BY <1>0, <2>1 DEF Goes
    <2> QED BY <2>1, <2>2, <2>3 DEF StoresNext
<1> QED BY <1>0, <1>1, <1>2, <1>3

LEMMA StoresKeeps ==
    ASSUME JobInv, NEW verdict, NEW failures, StoresNext(verdict, failures)
    PROVE  JobInv' /\ (FreshRows => FreshRows')
<1>0. /\ Running /\ job.phase = "judge" /\ ~Idle
      /\ UNCHANGED <<judge, text, exists, row, analyzed, listed, edits>>
    BY DEF StoresNext, Goes, docs, Running, Idle
<1>1. PICK p \in job.work : p = FirstPair(job.work)
    BY FirstPairIn DEF StoresNext, Goes, JobInv, TypeOK, Job
<1>2. p \in Pairs /\ p[1] \in Docs /\ p[2] \in Docs /\ p \notin job.settled
    BY <1>1, PairSides DEF JobInv, TypeOK, Job
<1>3. PICK new : new = [hash |-> HashesOf(p), verdict |-> verdict]
    OBVIOUS
<1>4. pairs' = [pairs EXCEPT ![p] = new]
    BY <1>1, <1>3 DEF StoresNext, Stored, HashesOf
<1>5. job' = [job EXCEPT !.work = job.work \ {p}, !.settled = job.settled \cup {p},
                         !.attempted = job.attempted + 1, !.failures = failures]
    BY <1>1 DEF StoresNext, Stored
<1>6. /\ job'.work = job.work \ {p} /\ job'.settled = job.settled \cup {p}
      /\ UNCHANGED <<job.phase, job.changed, job.scanned, job.needs, job.lists,
                     job.hashes, job.stored, job.left, job.done>>
    BY <1>5 DEF JobInv, TypeOK, Job
<1>7. new \in Rows /\ new # NoRow
    <2>1. job.hashes[p[1]] \in Texts /\ job.hashes[p[2]] \in Texts
        BY <1>0, <1>1, <1>2, BoundsAssumption
           DEF JobInv, TypeOK, Job, RunInv, Texts, Gone
    <2>2. HashesOf(p) \in [1 .. 2 -> Texts]
        BY <2>1 DEF HashesOf
    <2>3. verdict \in {"candidate", "final"}
        BY DEF StoresNext
    <2>4. new \in Rows
        BY <1>3, <2>2, <2>3 DEF Rows
    <2> QED BY <2>4, RowFacts
<1>8. TypeOK'
    <2>1. pairs' \in [Pairs -> Rows \cup {NoRow}]
        BY <1>2, <1>4, <1>7 DEF JobInv, TypeOK
    <2>2. job.attempted + 1 \in 0 .. MaxPairs /\ failures \in 0 .. MaxFailures
        BY BoundsAssumption DEF StoresNext, Goes, JobInv, TypeOK, Job
    <2>3. job' \in Job
        BY <1>2, <1>5, <2>2 DEF JobInv, TypeOK, Job
    <2>4. job'.settled \cap job'.work = {}
        BY <1>6 DEF JobInv, TypeOK
    <2>5. faults' \in 0 .. MaxFaults /\ astray' \subseteq Docs
        BY <1>1, <1>2 DEF StoresNext, Stored, MarkedElsewhere, JobInv, TypeOK
    <2> QED BY <1>0, <1>6, <2>1, <2>3, <2>4, <2>5 DEF JobInv, TypeOK
<1>9. \A q : HashesOf(q)' = HashesOf(q)
    BY <1>6 DEF HashesOf
<1>10. \A q \in Pairs : pairs'[q] = IF q = p THEN new ELSE pairs[q]
    BY <1>4 DEF JobInv, TypeOK
<1>11. EndInv'
    BY <1>0, <1>6 DEF EndInv
<1>12. RunInv'
    <2>1. /\ \A d \in job'.changed \cup job'.scanned : job'.hashes[d] # Gone
          /\ \A q \in job'.work :
               /\ job.hashes[q[1]] # Gone /\ job.hashes[q[2]] # Gone
               /\ ~PairIsSettled(job.stored[q], job.hashes[q[1]], job.hashes[q[2]], judge)
        BY <1>0, <1>6 DEF JobInv, RunInv
    <2>2. \A q \in Pairs :
              /\ q \notin job'.settled => pairs'[q] \in {job.stored[q], NoRow}
              /\ q[1] \notin job.left /\ q[2] \notin job.left =>
                    IF q \in job'.settled
                    THEN pairs'[q] # NoRow /\ pairs'[q].hash = HashesOf(q)
                    ELSE pairs'[q] = job.stored[q]
        BY <1>0, <1>3, <1>6, <1>7, <1>10 DEF JobInv, RunInv
    <2> QED BY <1>0, <1>6, <1>9, <2>1, <2>2 DEF RunInv
<1>13. ListInv'
    <2>1. job'.scanned \subseteq job.scanned
        BY <1>6
    <2> QED BY <1>0, <1>6, <2>1, ListsKept
<1>14. NeighboursInv'
    BY <1>0 DEF JobInv, NeighboursInv
<1>15. /\ \A d : d \notin astray' => d \notin astray
       /\ \A i \in 1 .. 2 : p[i] \notin astray' /\ analyzed[p[i]] # Gone =>
             new.hash[i] = analyzed[p[i]]
    <2>1. astray' = astray \cup MarkedElsewhere(p)
        BY <1>1 DEF StoresNext, Stored
    <2>2. \A i \in 1 .. 2 : p[i] \in {p[1], p[2]} /\ new.hash[i] = job.hashes[p[i]]
        <3>1. new.hash[1] = job.hashes[p[1]] /\ new.hash[2] = job.hashes[p[2]]
            BY <1>3 DEF HashesOf
        <3> QED BY <3>1
    <2> QED BY <2>1, <2>2 DEF MarkedElsewhere
<1>16. CoverInv'
    <2> SUFFICES ASSUME NEW e \in Docs \ astray', analyzed[e] # Gone, NEW f \in listed[e]
                 PROVE  Carries(Pair(e, f), Side(e, f))'
        BY <1>0 DEF CoverInv, Pair, Side
    <2>1. e \notin astray
        BY <1>15
    <2>2. f \in Docs /\ f # e
        BY DEF JobInv, NeighboursInv
    <2>3. PICK q \in Pairs : q = Pair(e, f) /\ q[Side(e, f)] = e /\ Side(e, f) \in 1 .. 2
        BY <2>2, PairFacts
    <2>4. pairs[q] # NoRow /\ pairs[q].hash[Side(e, f)] = analyzed[e]
        BY <2>1, <2>3 DEF JobInv, CoverInv, Carries
    <2>5. CASE q = p
        BY <2>3, <2>5, <1>0, <1>2, <1>7, <1>10, <1>15 DEF Carries, Side, Pair
    <2>6. CASE q # p
        BY <2>3, <2>4, <2>6, <1>0, <1>10 DEF Carries, Side, Pair
    <2> QED BY <2>5, <2>6
<1>17. ASSUME FreshRows PROVE FreshRows'
    <2> SUFFICES ASSUME NEW q \in Pairs, NEW i \in 1 .. 2, pairs'[q] # NoRow,
                        analyzed[q[i]] # Gone, q[i] \notin astray'
                 PROVE  pairs'[q].hash[i] = analyzed[q[i]]
        BY <1>0 DEF FreshRows
    <2> QED BY <1>0, <1>10, <1>15, <1>17 DEF FreshRows
<1> QED BY <1>8, <1>11, <1>12, <1>13, <1>14, <1>16, <1>17 DEF JobInv

----------------------------------------------------------------------------
(***************************************************************************)
(* The end of a run.                                                       *)
(***************************************************************************)
\* A pair of a document that is marked was settled by this run, or was before it began,
\* and is still there, if the document is.
LEMMA MarkedIsCovered ==
    ASSUME JobInv, Running, NEW d \in job.scanned, Settled(d), d \notin job.left,
           NEW e \in job.lists[d]
    PROVE  LET r == pairs[Pair(d, e)]
           IN r # NoRow /\ r.hash[Side(d, e)] = job.hashes[d]
<1>1. d \in Docs
    BY DEF JobInv, TypeOK, Job
<1>2. e \in Docs /\ e # d /\ e \notin job.left
    BY <1>1 DEF JobInv, ListInv
<1>3. PICK p \in Pairs : p = Pair(d, e)
    BY <1>1, <1>2, PairFacts
<1>4. /\ p[Side(d, e)] = d /\ Side(d, e) \in 1 .. 2
      /\ p[1] \notin job.left /\ p[2] \notin job.left
    BY <1>1, <1>2, <1>3, PairFacts
<1>5. \/ p \in job.settled
      \/ job.stored[p] # NoRow /\ job.stored[p].hash = HashesOf(p)
    BY <1>1, <1>3 DEF JobInv, ListInv, Settled
<1>6. pairs[p] # NoRow /\ pairs[p].hash = HashesOf(p)
    BY <1>4, <1>5 DEF JobInv, RunInv
<1>7. HashesOf(p)[Side(d, e)] = job.hashes[d]
    BY <1>4 DEF HashesOf
<1> QED BY <1>3, <1>6, <1>7

LEMMA MarkKeeps ==
    ASSUME JobInv, MarkDocumentsAnalyzed
    PROVE  JobInv' /\ (FreshRows => FreshRows')
<1>0. Running /\ UNCHANGED <<judge, text, exists, row, pairs, edits, faults>>
    BY DEF MarkDocumentsAnalyzed, docs, Running
<1>1. PICK done : done = {d \in job.scanned : Settled(d)}
    OBVIOUS
<1>2. /\ analyzed' = [d \in Docs |-> IF d \in done THEN job.hashes[d] ELSE analyzed[d]]
      /\ listed' = [d \in Docs |-> IF d \in done THEN job.lists[d] ELSE listed[d]]
      /\ astray' = (astray \ done) \cup (done \cap job.left)
      /\ job' = [NoJob EXCEPT !.phase = "drop", !.hashes = job.hashes, !.done = done,
                              !.scanned = done]
    BY <1>1 DEF MarkDocumentsAnalyzed, HashAnalyzed
<1>3. done \subseteq job.scanned /\ done \subseteq Docs
    BY <1>1 DEF JobInv, TypeOK, Job
<1>4. job' = [phase |-> "drop", cancelled |-> FALSE, hashes |-> job.hashes,
              stored |-> [p \in Pairs |-> NoRow], changed |-> {},
              needs |-> [d \in Docs |-> {}], scanned |-> done,
              lists |-> [d \in Docs |-> {}], work |-> {}, settled |-> {},
              left |-> {}, attempted |-> 0, failures |-> 0, done |-> done]
    BY <1>2 DEF NoJob
<1>5. ~Running' /\ job'.hashes = job.hashes /\ job'.done = done /\ job'.phase = "drop"
    BY <1>4 DEF Running
<1>6. TypeOK'
    <2>1. job' \in Job
        <3>1. /\ job.hashes \in [Docs -> 0 .. MaxText]
              /\ 0 \in 0 .. MaxPairs /\ 0 \in 0 .. MaxFailures
            BY BoundsAssumption DEF JobInv, TypeOK, Job
        <3> QED BY <1>3, <1>4, <3>1 DEF Job
    <2>2. /\ analyzed' \in [Docs -> 0 .. MaxText] /\ listed' \in [Docs -> SUBSET Docs]
          /\ astray' \subseteq Docs
        BY <1>2, <1>3 DEF JobInv, TypeOK, Job
    <2>3. job'.settled \cap job'.work = {} /\ job'.done \subseteq job'.scanned
        BY <1>4
    <2> QED BY <1>0, <2>1, <2>2, <2>3 DEF JobInv, TypeOK
<1>7. \A d \in Docs : /\ analyzed'[d] = IF d \in done THEN job.hashes[d] ELSE analyzed[d]
                      /\ listed'[d] = IF d \in done THEN job.lists[d] ELSE listed[d]
    BY <1>2
<1>8. RunInv' /\ ListInv' /\ EndInv'
    BY <1>3, <1>5, <1>7 DEF RunInv, ListInv, EndInv
<1>9. NeighboursInv'
    BY <1>0, <1>7 DEF JobInv, ListInv, NeighboursInv
<1>10. CoverInv'
    <2> SUFFICES ASSUME NEW e \in Docs \ astray', analyzed'[e] # Gone, NEW f \in listed'[e]
                 PROVE  Carries(Pair(e, f), Side(e, f))'
        BY DEF CoverInv, Pair, Side
    <2>1. f \in Docs /\ f # e
        BY <1>9 DEF NeighboursInv
    <2>2. PICK q \in Pairs : q = Pair(e, f) /\ q[Side(e, f)] = e
        BY <2>1, PairFacts
    <2>3. pairs[q] # NoRow /\ pairs[q].hash[Side(e, f)] = analyzed'[e]
        <3>1. CASE e \in done
            <4>1. e \in job.scanned /\ Settled(e) /\ e \notin job.left /\ f \in job.lists[e]
                BY <1>1, <1>2, <1>7, <3>1
            <4> QED BY <1>0, <1>7, <2>2, <3>1, <4>1, MarkedIsCovered
        <3>2. CASE e \notin done
            BY <1>2, <1>7, <2>2, <3>2 DEF JobInv, CoverInv, Carries
        <3> QED BY <3>1, <3>2
    <2> QED BY <1>0, <2>2, <2>3 DEF Carries, Side, Pair
<1>11. ASSUME FreshRows PROVE FreshRows'
    <2> SUFFICES ASSUME NEW p \in Pairs, NEW i \in 1 .. 2, pairs[p] # NoRow,
                        analyzed'[p[i]] # Gone, p[i] \notin astray', p[i] \notin done
                 PROVE  pairs[p].hash[i] = analyzed'[p[i]]
        BY <1>0, <1>5 DEF FreshRows
    <2>1. p[i] \in Docs
        BY PairSides
    <2>2. analyzed'[p[i]] = analyzed[p[i]] /\ p[i] \notin astray
        BY <1>2, <1>7, <2>1
    <2> QED BY <1>0, <1>11, <2>1, <2>2 DEF FreshRows, Running
<1> QED BY <1>6, <1>8, <1>9, <1>10, <1>11 DEF JobInv

\* What holds of the run in hand holds of none.
LEMMA IdleKeeps ==
    ASSUME job' = NoJob
    PROVE  /\ job' \in Job /\ RunInv' /\ ListInv' /\ EndInv'
           /\ job'.settled \cap job'.work = {} /\ job'.done \subseteq job'.scanned
<1>1. RunInv' /\ ListInv' /\ EndInv'
    BY NoJobFacts DEF RunInv, ListInv, EndInv, Running
<1>2. job' \in Job
    BY BoundsAssumption DEF NoJob, Job, Gone
<1>3. job'.settled \cap job'.work = {} /\ job'.done \subseteq job'.scanned
    BY DEF NoJob
<1> QED BY <1>1, <1>2, <1>3

LEMMA AbortKeeps ==
    ASSUME JobInv, Abort
    PROVE  /\ JobInv'
           /\ "drop" \notin Faults /\ FreshRows => FreshRows'
<1>0. UNCHANGED <<judge, text, exists, row, analyzed, pairs, listed, astray, edits>>
      /\ job' = NoJob
    BY DEF Abort, docs, history
<1>1. /\ job' \in Job /\ RunInv' /\ ListInv' /\ EndInv'
      /\ job'.settled \cap job'.work = {} /\ job'.done \subseteq job'.scanned
    BY <1>0, IdleKeeps
<1>2. faults' \in 0 .. MaxFaults
    BY BoundsAssumption DEF Abort, Fault, JobInv, TypeOK
<1>3. TypeOK'
    BY <1>0, <1>1, <1>2 DEF JobInv, TypeOK
<1>4. NeighboursInv' /\ CoverInv'
    BY <1>0 DEF JobInv, NeighboursInv, CoverInv, Carries, Pair
<1>5. ASSUME "drop" \notin Faults, FreshRows PROVE FreshRows'
    <2>1. job.phase # "drop"
        BY <1>5 DEF Abort, Fault
    <2> QED BY <1>0, <1>5, <2>1 DEF FreshRows
<1> QED BY <1>1, <1>3, <1>4, <1>5 DEF JobInv

LEMMA DropKeeps ==
    ASSUME JobInv, DeleteStalePairs
    PROVE  JobInv' /\ (FreshRows => FreshRows')
<1>0. UNCHANGED <<judge, text, exists, row, listed, astray, edits, faults>>
      /\ job' = NoJob /\ job.phase = "drop"
    BY DEF DeleteStalePairs, docs, history
<1>1. /\ analyzed' = [d \in Docs |-> IF Loses(d) THEN Gone ELSE analyzed[d]]
      /\ pairs' = [p \in Pairs |-> IF Outdated(p, 1) \/ Outdated(p, 2) THEN NoRow
                                   ELSE pairs[p]]
    BY DEF DeleteStalePairs
<1>2. /\ job' \in Job /\ RunInv' /\ ListInv' /\ EndInv'
      /\ job'.settled \cap job'.work = {} /\ job'.done \subseteq job'.scanned
    BY <1>0, IdleKeeps
<1>3. TypeOK'
    <2>1. analyzed' \in [Docs -> 0 .. MaxText] /\ pairs' \in [Pairs -> Rows \cup {NoRow}]
        BY <1>1, BoundsAssumption DEF JobInv, TypeOK, Gone
    <2> QED BY <1>0, <1>2, <2>1 DEF JobInv, TypeOK
<1>4. NeighboursInv'
    BY <1>0 DEF JobInv, NeighboursInv
\* A row that carries the hash of a marker is not outdated on that side.
<1>5. \A p \in Pairs : \A i \in 1 .. 2 :
         analyzed[p[i]] # Gone /\ pairs[p].hash[i] = analyzed[p[i]] => ~Outdated(p, i)
    BY <1>0 DEF JobInv, EndInv, Outdated
<1>6. CoverInv'
    <2> SUFFICES ASSUME NEW e \in Docs \ astray, analyzed'[e] # Gone, NEW f \in listed[e]
                 PROVE  Carries(Pair(e, f), Side(e, f))'
        BY <1>0 DEF CoverInv, Pair, Side
    <2>1. f \in Docs /\ f # e
        BY DEF JobInv, NeighboursInv
    <2>2. ~Loses(e) /\ analyzed'[e] = analyzed[e] /\ analyzed[e] # Gone
        BY <1>1
    <2>3. PICK p \in Pairs : p = Pair(e, f) /\ p[Side(e, f)] = e
        BY <2>1, PairFacts
    <2>4. pairs[p] # NoRow /\ pairs[p].hash[Side(e, f)] = analyzed[e]
        BY <2>2, <2>3 DEF JobInv, CoverInv, Carries
    <2>5. Side(e, f) \in 1 .. 2
        BY DEF Side
    <2>6. ~Outdated(p, Side(e, f))
        BY <1>5, <2>2, <2>3, <2>4, <2>5
    <2>7. ~Outdated(p, 1) /\ ~Outdated(p, 2)
        <3>1. CASE Side(e, f) = 1
            BY <3>1, <2>2, <2>3, <2>6 DEF Loses
        <3>2. CASE Side(e, f) = 2
            BY <3>2, <2>2, <2>3, <2>6 DEF Loses
        <3> QED BY <3>1, <3>2, <2>5
    <2>8. pairs'[p] = pairs[p]
        BY <1>1, <2>7
    <2> QED BY <2>2, <2>3, <2>4, <2>8 DEF Carries, Pair, Side
<1>7. ASSUME FreshRows PROVE FreshRows'
    <2> SUFFICES ASSUME NEW p \in Pairs, NEW i \in 1 .. 2, pairs'[p] # NoRow,
                        analyzed'[p[i]] # Gone, p[i] \notin astray
                 PROVE  pairs'[p].hash[i] = analyzed'[p[i]]
        BY <1>0 DEF FreshRows
    <2>1. p[i] \in Docs
        BY PairSides
    <2>2. analyzed'[p[i]] = analyzed[p[i]] /\ pairs'[p] = pairs[p] /\ ~Outdated(p, i)
        BY <1>1, <2>1
    <2>3. CASE p[i] \in job.done
        <3>1. pairs[p].hash[i] = job.hashes[p[i]]
            BY <2>2, <2>3 DEF Outdated
        <3>2. analyzed[p[i]] = job.hashes[p[i]]
            BY <1>0, <2>2, <2>3 DEF JobInv, EndInv
        <3> QED BY <2>2, <3>1, <3>2
    <2>4. CASE p[i] \notin job.done
        BY <2>2, <2>4, <1>7 DEF FreshRows
    <2> QED BY <2>3, <2>4
<1> QED BY <1>2, <1>3, <1>4, <1>6, <1>7 DEF JobInv

LEMMA NextKeeps ==
    /\ JobInv /\ [Next]_vars => JobInv'
    /\ "drop" \notin Faults /\ JobInv /\ FreshRows /\ [Next]_vars => FreshRows'
<1> SUFFICES ASSUME JobInv, [Next]_vars
             PROVE  JobInv' /\ ("drop" \notin Faults /\ FreshRows => FreshRows')
    OBVIOUS
<1>1. CASE Environment
    BY <1>1, EnvironmentKeeps
<1>2. CASE Indexing
    BY <1>2, EnvironmentKeeps, DeleteKeeps DEF Indexing
<1>3. CASE Start
    BY <1>3, StartKeeps
<1>4. CASE RunStep
    <2>1. CASE Scan
        BY <2>1, ScanKeeps
    <2>2. CASE ScanFails
        BY <2>2, ScanFailsKeeps
    <2>3. CASE Gather
        BY <2>3, GatherKeeps
    <2>4. CASE Judged \/ JudgeFails \/ NoVerdict
        BY <2>4, WorkStores, StoresKeeps
    <2>5. CASE Skipped
        BY <2>5, SkippedKeeps
    <2>6. CASE MarkDocumentsAnalyzed
        BY <2>6, MarkKeeps
    <2>7. CASE DeleteStalePairs
        BY <2>7, DropKeeps
    <2> QED BY <1>4, <2>1, <2>2, <2>3, <2>4, <2>5, <2>6, <2>7 DEF RunStep, Work
<1>5. CASE Cancel
    BY <1>5, CancelKeeps
<1>6. CASE Abort
    BY <1>6, AbortKeeps
<1>7. CASE UNCHANGED vars
    <2>1. UNCHANGED <<judge, text, exists, row, analyzed, pairs, job, listed, astray, edits,
                      faults>>
        BY <1>7 DEF vars, docs, history
    <2>2. TypeOK'
        BY <2>1 DEF JobInv, TypeOK
    <2> QED BY <2>1, <2>2, OutsideKeeps
<1> QED BY <1>1, <1>2, <1>3, <1>4, <1>5, <1>6, <1>7 DEF Next

\* The inductive invariant holds in every reachable state.
THEOREM JobInvHolds == Spec => []JobInv
<1>1. Init => JobInv
    BY InitKeeps
<1>2. JobInv /\ [Next]_vars => JobInv'
    BY NextKeeps
<1> QED BY <1>1, <1>2, PTL DEF Spec

----------------------------------------------------------------------------
\* Types: what the tables, the run and the history hold.
THEOREM ContradictionsTypeOK == Spec => []TypeOK
<1>1. JobInv => TypeOK
    BY DEF JobInv
<1> QED BY <1>1, JobInvHolds, PTL

\* mark_documents_analyzed: a document counts as analysed only while every neighbour it had
\* then, and that is still there, has a row of the text the document has, whatever cap,
\* failure, cancellation or crash ended the run, and whatever texts the document had in
\* between; but for the documents gone astray.
THEOREM AnalysedIsCoveredHolds == Spec => []AnalysedIsCovered
<1>1. JobInv => AnalysedIsCovered
    <2> SUFFICES ASSUME JobInv, NEW d \in Known \ astray, analyzed[d] = row[d],
                        NEW e \in listed[d]
                 PROVE  LET r == pairs[Pair(d, e)]
                        IN r # NoRow /\ r.hash[IF d < e THEN 1 ELSE 2] = row[d]
        BY DEF AnalysedIsCovered, CoveredNow
    <2>1. d \in Docs /\ analyzed[d] # Gone
        BY DEF Known
    <2>2. Carries(Pair(d, e), Side(d, e))
        BY <2>1 DEF JobInv, CoverInv
    <2>3. e \in Docs /\ e # d
        BY <2>1 DEF JobInv, NeighboursInv
    <2>4. Pair(d, e)[Side(d, e)] = d
        BY <2>1, <2>3, PairFacts
    <2> QED BY <2>2, <2>4 DEF Carries, Side
<1> QED BY <1>1, JobInvHolds, PTL

\* Between runs no row with an outdated hash is left that no later run would look at, but
\* for the documents gone astray, if nothing stops a run between marking its documents and
\* deleting their outdated rows (run_once: the two transactions at its end).
THEOREM NoStrandedRowHolds ==
    ASSUME "drop" \notin Faults
    PROVE  Spec => []NoStrandedRow
<1>1. Init => JobInv /\ FreshRows
    BY InitKeeps
<1>2. JobInv /\ FreshRows /\ [Next]_vars => (JobInv /\ FreshRows)'
    BY NextKeeps
<1>3. JobInv /\ FreshRows => NoStrandedRow
    <2> SUFFICES ASSUME JobInv, FreshRows, Idle, NEW p \in Pairs, pairs[p] # NoRow,
                        {p[1], p[2]} \subseteq Known, NEW i \in 1 .. 2,
                        pairs[p].hash[i] # row[p[i]], p[i] \notin astray,
                        analyzed[p[i]] = row[p[i]]
                 PROVE  FALSE
        BY DEF NoStrandedRow
    <2>1. row[p[i]] # Gone /\ job.phase # "drop"
        BY DEF Known, Idle
    <2> QED BY <2>1 DEF FreshRows
<1> QED BY <1>1, <1>2, <1>3, PTL DEF Spec

\* "A pair is evaluated once per version of its two documents": what a run evaluates has
\* no verdict yet for the two texts it goes by.
THEOREM JudgedOnceHolds == Spec => JudgedOnce
<1>1. JobInv /\ [Next]_vars =>
        [\A p \in Pairs :
           (p \in job.work /\ p \in job'.settled) =>
              ~PairIsSettled(pairs[p], job.hashes[p[1]], job.hashes[p[2]], judge)]_vars
    <2> SUFFICES ASSUME JobInv, Next, NEW p \in Pairs, p \in job.work, p \in job'.settled
                 PROVE  ~PairIsSettled(pairs[p], job.hashes[p[1]], job.hashes[p[2]], judge)
        OBVIOUS
    <2>1. p \notin job.settled
        BY DEF JobInv, TypeOK
    <2>2. CASE Running
        <3>1. pairs[p] \in {job.stored[p], NoRow}
            BY <2>1, <2>2 DEF JobInv, RunInv
        <3>2. ~PairIsSettled(job.stored[p], job.hashes[p[1]], job.hashes[p[2]], judge)
            BY <2>2 DEF JobInv, RunInv
        <3> QED BY <3>1, <3>2 DEF PairIsSettled
    <2>3. CASE ~Running
        <3>1. UNCHANGED job \/ job'.settled = {} \/ job'.settled = job.settled
            <4>1. CASE Start
                BY <4>1 DEF Start, NoJob
            <4>2. CASE RunStep
                <5>1. ~Goes
                    BY <2>3 DEF Goes, Running
                <5>2. ~Work
                    BY <5>1 DEF Work, Judged, JudgeFails, NoVerdict, Skipped
                <5>3. ~Scan /\ ~ScanFails /\ ~Gather /\ ~MarkDocumentsAnalyzed
                    BY <2>3 DEF Scan, ScanFails, Gather, MarkDocumentsAnalyzed, Running
                <5>4. DeleteStalePairs
                    BY <4>2, <5>2, <5>3 DEF RunStep
                <5> QED BY <5>4 DEF DeleteStalePairs, NoJob
            <4>3. CASE Cancel \/ Abort
                BY <2>3, <4>3 DEF Cancel, Abort, NoJob, Running
            <4>4. CASE Environment
                BY <4>4 DEF Environment, Restart, Write, Remove
            <4>5. CASE Indexing
                <5>1. job' = job \/ job' = [job EXCEPT !.lists = job'.lists, !.left = job'.left]
                    BY <4>5 DEF Indexing, Index, DeleteDocument, JobInv, TypeOK, Job
                <5> QED BY <5>1 DEF JobInv, TypeOK, Job
            <4> QED BY <4>1, <4>2, <4>3, <4>4, <4>5 DEF Next
        <3> QED BY <2>1, <3>1
    <2> QED BY <2>2, <2>3
<1> QED BY <1>1, JobInvHolds, PTL DEF Spec, JudgedOnce
=============================================================================
