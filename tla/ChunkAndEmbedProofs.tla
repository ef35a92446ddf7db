------------------------- MODULE ChunkAndEmbedProofs -------------------------
(***************************************************************************)
(* Proofs about chunking and embedding, for any documents, lengths,        *)
(* chunking configurations, batch sizes and faults.  What the model        *)
(* defines by recursion is first shown to exist and then to be what the    *)
(* properties compare it with.                                             *)
(***************************************************************************)
EXTENDS ChunkAndEmbed, FiniteSetTheorems, SequenceTheorems, TLAPS

-----------------------------------------------------------------------------
(***************************************************************************)
(* Sets of numbers, and recursion and induction along them.                *)
(***************************************************************************)
LEMMA Greatest ==
  ASSUME NEW n \in Nat, NEW T \in SUBSET (0 .. n), T # {}
  PROVE  \E m \in T : \A t \in T : t <= m
<1> DEFINE Above(x) == {y \in T : y > x}
           F == {Above(x) : x \in T}
<1>0. IsFiniteSet(T)
  <2>1. IsFiniteSet(0 .. n)
    BY FS_Interval
  <2> QED BY <2>1, FS_Subset
<1>1. IsWellFoundedOn(StrictSubsetOrdering(T), SUBSET T)
  BY <1>0, FS_StrictSubsetOrderingWellFounded, FS_FiniteSubsetsOfFinite
<1>2. F \subseteq SUBSET T /\ F # {}
  OBVIOUS
<1>3. PICK U \in F : \A V \in F : <<V, U>> \notin StrictSubsetOrdering(T)
  <2> HIDE DEF F
  <2> QED BY <1>1, <1>2, WFMin, Zenon
<1>4. PICK m \in T : U = Above(m)
  BY <1>3
<1>5. ASSUME NEW t \in T, t > m PROVE FALSE
  <2>1. t \in Above(m) /\ t \notin Above(t)
    BY <1>5
  <2>2. Above(t) \subseteq Above(m)
    <3> SUFFICES ASSUME NEW y \in T, y > t PROVE y > m
      OBVIOUS
    <3>1. y \in Nat /\ t \in Nat /\ m \in Nat
      OBVIOUS
    <3> QED BY <1>5, <3>1
  <2>3. <<Above(t), U>> \in StrictSubsetOrdering(T)
    BY <2>1, <2>2, <1>4 DEF StrictSubsetOrdering
  <2> QED BY <2>3, <1>3, <1>5
<1> QED BY <1>5

LEMMA Least ==
  ASSUME NEW n \in Nat, NEW T \in SUBSET (0 .. n), T # {}
  PROVE  \E m \in T : \A t \in T : m <= t
<1> DEFINE U == {n - t : t \in T}
<1>1. U \in SUBSET (0 .. n) /\ U # {}
  <2>1. ASSUME NEW t \in T PROVE n - t \in 0 .. n
    <3>1. t \in 0 .. n
      OBVIOUS
    <3> QED BY <3>1
  <2> QED BY <2>1
<1>2. PICK u \in U : \A t \in U : t <= u
  <2> HIDE DEF U
  <2> QED BY <1>1, Greatest
<1>3. PICK m \in T : u = n - m
  OBVIOUS
<1>4. \A t \in T : n - t <= n - m
  BY <1>2, <1>3
<1>5. ASSUME NEW t \in T PROVE m <= t
  <2>1. t \in 0 .. n /\ m \in 0 .. n /\ n - t <= n - m
    BY <1>4
  <2> QED BY <2>1
<1> QED BY <1>5

\* Induction: a set that holds 0 and with each number the next holds them all.
LEMMA Climb ==
  ASSUME NEW n \in Nat, NEW S, 0 \in S, \A k \in 0 .. n - 1 : k \in S => k + 1 \in S
  PROVE  \A k \in 0 .. n : k \in S
<1> DEFINE T == {k \in 0 .. n : k \notin S}
<1>1. ASSUME T # {} PROVE FALSE
  <2>1. PICK m \in T : \A t \in T : m <= t
    <3>1. T \in SUBSET (0 .. n)
      OBVIOUS
    <3> HIDE DEF T
    <3> QED BY <1>1, <3>1, Least
  <2>2. m # 0 /\ m - 1 \in 0 .. n - 1 /\ m - 1 \notin T
    BY <2>1
  <2> QED BY <2>1, <2>2
<1> QED BY <1>1

\* Recursion: a step for every number gives a function.
Steps(n, S) == [1 .. n -> [S -> S]]
IsRun(f, n, S, b, step) ==
  f \in [0 .. n -> S] /\ f[0] = b /\ \A k \in 1 .. n : f[k] = step[k][f[k - 1]]

LEMMA Recursion ==
  ASSUME NEW n \in Nat, NEW S, NEW b \in S, NEW step \in Steps(n, S)
  PROVE  \E f : IsRun(f, n, S, b, step)
<1> DEFINE Upto(m) == {f \in [0 .. m -> S] :
                         f[0] = b /\ \A k \in 1 .. m : f[k] = step[k][f[k - 1]]}
           T == {m \in 0 .. n : Upto(m) # {}}
<1>1. 0 \in T
  <2>1. [k \in 0 .. 0 |-> b] \in Upto(0)
    OBVIOUS
  <2> QED BY <2>1
<1>2. ASSUME NEW m \in 0 .. n - 1, m \in T PROVE m + 1 \in T
  <2>1. PICK f \in Upto(m) : TRUE
    BY <1>2
  <2> DEFINE g == [k \in 0 .. m + 1 |-> IF k = m + 1 THEN step[m + 1][f[m]] ELSE f[k]]
  <2>2. f[m] \in S /\ step[m + 1][f[m]] \in S
    BY <2>1 DEF Steps
  <2>3. g \in [0 .. m + 1 -> S]
    BY <2>1, <2>2
  <2>4. g[0] = b
    BY <2>1
  <2>5. ASSUME NEW k \in 1 .. m + 1 PROVE g[k] = step[k][g[k - 1]]
    <3>1. CASE k = m + 1
      <4>1. k - 1 = m /\ m # m + 1 /\ m \in 0 .. m + 1 /\ m + 1 \in 0 .. m + 1
        BY <3>1
      <4>2. g[m] = f[m] /\ g[m + 1] = step[m + 1][f[m]]
        BY <4>1
      <4> HIDE DEF g
      <4> QED BY <3>1, <4>1, <4>2
    <3>2. CASE k # m + 1
      <4>1. k \in 1 .. m /\ k - 1 \in 0 .. m /\ k - 1 # m + 1
        BY <3>2
      <4>2. f[k] = step[k][f[k - 1]]
        BY <4>1, <2>1
      <4>3. g[k] = f[k] /\ g[k - 1] = f[k - 1]
        BY <4>1
      <4> HIDE DEF g
      <4> QED BY <4>2, <4>3
    <3> QED BY <3>1, <3>2
  <2>6. g \in Upto(m + 1)
    <3> HIDE DEF g
    <3> QED BY <2>3, <2>4, <2>5
  <2>7. m + 1 \in 0 .. n
    OBVIOUS
  <2> QED BY <2>6, <2>7
<1>3. n \in T
  <2> HIDE DEF T
  <2>1. \A k \in 0 .. n : k \in T
    BY <1>1, <1>2, Climb
  <2> QED BY <2>1
<1> QED BY <1>3 DEF IsRun

-----------------------------------------------------------------------------
(***************************************************************************)
(* Flattened sequences.                                                    *)
(***************************************************************************)
\* The sequence of the first one, the first two and so on, flattened.
IsFlattening(f, s, S) ==
  /\ f \in [1 .. Len(s) -> Seq(S)]
  /\ f[1] = s[1]
  /\ \A k \in 2 .. Len(s) : f[k] = f[k - 1] \o s[k]

LEMMA FlattenIs ==
  ASSUME NEW S, NEW s \in Seq(Seq(S)), Len(s) > 0
  PROVE  \E f : IsFlattening(f, s, S) /\ FlattenSeq(s) = f[Len(s)]
<1> DEFINE step == [k \in 1 .. Len(s) |-> [t \in Seq(S) |-> t \o s[k]]]
<1>1. Len(s) \in Nat /\ <<>> \in Seq(S) /\ \A k \in 1 .. Len(s) : s[k] \in Seq(S)
  OBVIOUS
<1>2. step \in Steps(Len(s), Seq(S))
  <2> SUFFICES ASSUME NEW k \in 1 .. Len(s), NEW t \in Seq(S) PROVE t \o s[k] \in Seq(S)
    BY DEF Steps
  <2> QED BY <1>1, ConcatProperties
<1>3. PICK h : IsRun(h, Len(s), Seq(S), <<>>, step)
  <2> HIDE DEF step
  <2> QED BY <1>1, <1>2, Recursion
<1> DEFINE f == [k \in 1 .. Len(s) |-> h[k]]
<1>4. ASSUME NEW k \in 1 .. Len(s) PROVE h[k] = h[k - 1] \o s[k]
  <2>1. k - 1 \in 0 .. Len(s)
    OBVIOUS
  <2>2. h[k - 1] \in Seq(S)
    BY <2>1, <1>3 DEF IsRun
  <2> QED BY <2>2, <1>3 DEF IsRun
<1>5. f[1] = s[1]
  <2>1. 1 \in 1 .. Len(s)
    OBVIOUS
  <2>2. h[1] = h[1 - 1] \o s[1]
    BY <2>1, <1>4
  <2>3. h[1 - 1] = <<>>
    BY <1>3 DEF IsRun
  <2> QED BY <2>1, <2>2, <2>3, <1>1, ConcatEmptySeq
<1>6. f = [k \in 1 .. Len(s) |-> IF k = 1 THEN s[k] ELSE f[k - 1] \o s[k]]
  <2>1. ASSUME NEW k \in 1 .. Len(s), k # 1 PROVE f[k] = f[k - 1] \o s[k]
    <3>1. k - 1 \in 1 .. Len(s)
      BY <2>1
    <3>2. f[k] = h[k] /\ f[k - 1] = h[k - 1]
      BY <3>1
    <3> HIDE DEF f
    <3> QED BY <3>2, <1>4
  <2> QED BY <2>1, <1>5
<1>7. PICK g : /\ g = [k \in 1 .. Len(s) |-> IF k = 1 THEN s[k] ELSE g[k - 1] \o s[k]]
               /\ FlattenSeq(s) = g[Len(s)]
  <2> HIDE DEF f
  <2>1. Len(s) # 0
    OBVIOUS
  <2> QED BY <1>6, <2>1, Zenon DEF FlattenSeq
<1>8. \A k \in 1 .. Len(s) : g[k] = IF k = 1 THEN s[k] ELSE g[k - 1] \o s[k]
  BY <1>7
<1> DEFINE T == {k \in 0 .. Len(s) : k > 0 => g[k] \in Seq(S)}
<1>9. 0 \in T
  OBVIOUS
<1>10. ASSUME NEW k \in 0 .. Len(s) - 1, k \in T PROVE k + 1 \in T
  <2>1. k + 1 \in 1 .. Len(s) /\ s[k + 1] \in Seq(S) /\ (k + 1 # 1 => k > 0)
    BY <1>1
  <2>2. g[k + 1] = IF k + 1 = 1 THEN s[k + 1] ELSE g[k] \o s[k + 1]
    BY <2>1, <1>8
  <2>3. k + 1 # 1 => g[k] \in Seq(S)
    BY <2>1, <1>10
  <2>4. g[k + 1] \in Seq(S)
    BY <2>1, <2>2, <2>3, ConcatProperties
  <2> QED BY <2>1, <2>4
<1>11. \A k \in 0 .. Len(s) : k \in T
  <2> HIDE DEF T
  <2> QED BY <1>1, <1>9, <1>10, Climb
<1>12. g \in [1 .. Len(s) -> Seq(S)]
  <2>1. \A k \in 1 .. Len(s) : g[k] \in Seq(S)
    BY <1>11
  <2> QED BY <1>7, <2>1
<1>13. g[1] = s[1]
  <2>1. 1 \in 1 .. Len(s)
    OBVIOUS
  <2> QED BY <1>8, <2>1
<1>14. ASSUME NEW k \in 2 .. Len(s) PROVE g[k] = g[k - 1] \o s[k]
  <2>1. k \in 1 .. Len(s) /\ k # 1
    OBVIOUS
  <2> QED BY <1>8, <2>1
<1> QED BY <1>7, <1>12, <1>13, <1>14 DEF IsFlattening

LEMMA FlattenEmpty == FlattenSeq(<<>>) = <<>>
  BY DEF FlattenSeq

LEMMA FlattenAppend ==
  ASSUME NEW S, NEW s \in Seq(Seq(S)), NEW x \in Seq(S)
  PROVE  /\ FlattenSeq(s) \in Seq(S)
         /\ FlattenSeq(Append(s, x)) = FlattenSeq(s) \o x
<1> DEFINE r == Append(s, x)
<1>1. r \in Seq(Seq(S)) /\ Len(r) = Len(s) + 1 /\ r[Len(s) + 1] = x /\ Len(s) \in Nat
      /\ \A k \in 1 .. Len(s) : r[k] = s[k]
  BY AppendProperties
<1> HIDE DEF r
<1>2. PICK g : IsFlattening(g, r, S) /\ FlattenSeq(r) = g[Len(r)]
  <2>1. Len(r) > 0
    BY <1>1
  <2> QED BY <1>1, <2>1, FlattenIs
<1>3. CASE Len(s) = 0
  <2>1. s = <<>> /\ FlattenSeq(s) = <<>>
    BY <1>3, FlattenEmpty
  <2>2. FlattenSeq(r) = x
    BY <1>1, <1>2, <1>3 DEF IsFlattening
  <2>3. <<>> \o x = x /\ <<>> \in Seq(S)
    BY ConcatEmptySeq
  <2> QED BY <2>1, <2>2, <2>3 DEF r
<1>4. CASE Len(s) > 0
  <2>1. PICK f : IsFlattening(f, s, S) /\ FlattenSeq(s) = f[Len(s)]
    BY <1>4, FlattenIs
  <2> DEFINE T == {k \in 0 .. Len(s) : k > 0 => f[k] = g[k]}
  <2>2. 0 \in T
    OBVIOUS
  <2>3. ASSUME NEW k \in 0 .. Len(s) - 1, k \in T PROVE k + 1 \in T
    <3> HIDE DEF T
    <3>0. k \in Nat /\ k + 1 \in 1 .. Len(s) /\ k + 1 \in 1 .. Len(r)
      BY <1>1
    <3>1. k + 1 \in 1 .. Len(s) /\ k + 1 \in 1 .. Len(r) /\ r[k + 1] = s[k + 1]
      BY <1>1, <3>0
    <3> USE DEF T
    <3>2. CASE k = 0
      <4>1. f[k + 1] = g[k + 1]
        BY <3>1, <3>2, <1>2, <2>1 DEF IsFlattening
      <4> QED BY <3>1, <4>1
    <3>3. CASE k > 0
      <4>0. f[k] = g[k]
        BY <2>3, <3>3
      <4>1. k + 1 \in 2 .. Len(s) /\ k + 1 \in 2 .. Len(r) /\ f[k] = g[k] /\ (k + 1) - 1 = k
        <5> HIDE DEF T
        <5>1. k + 1 \in 2 .. Len(s) /\ k + 1 \in 2 .. Len(r) /\ (k + 1) - 1 = k
          BY <3>0, <3>3, <1>1
        <5> QED BY <4>0, <5>1
      <4>2. f[k + 1] = f[k] \o s[k + 1] /\ g[k + 1] = g[k] \o r[k + 1]
        BY <4>1, <1>2, <2>1 DEF IsFlattening
      <4>3. f[k + 1] = g[k + 1]
        BY <3>1, <4>1, <4>2
      <4> QED BY <3>1, <4>3
    <3>4. k = 0 \/ k > 0
      OBVIOUS
    <3> QED BY <3>2, <3>3, <3>4
  <2>4. \A k \in 0 .. Len(s) : k \in T
    <3> HIDE DEF T
    <3> QED BY <1>1, <2>2, <2>3, Climb
  <2>5. f[Len(s)] = g[Len(s)] /\ f[Len(s)] \in Seq(S)
    <3>1. Len(s) \in 0 .. Len(s) /\ Len(s) \in 1 .. Len(s)
      BY <1>1, <1>4
    <3>2. Len(s) \in T
      BY <3>1, <2>4
    <3> QED BY <3>1, <3>2, <2>1, <1>4 DEF IsFlattening
  <2>6. g[Len(r)] = g[Len(s)] \o x
    <3>1. Len(r) \in 2 .. Len(r) /\ Len(r) - 1 = Len(s)
      BY <1>1, <1>4
    <3> QED BY <3>1, <1>1, <1>2 DEF IsFlattening
  <2> QED BY <2>1, <2>5, <2>6, <1>2 DEF r
<1> QED BY <1>1, <1>3, <1>4

LEMMA LastOne ==
  ASSUME NEW S, NEW s \in Seq(S), s # <<>>
  PROVE  /\ Front(s) \in Seq(S) /\ Last(s) \in S /\ s = Append(Front(s), Last(s))
         /\ Len(Front(s)) = Len(s) - 1
<1>1. Len(s) \in Nat \ {0} /\ \A k \in 1 .. Len(s) : s[k] \in S
  BY EmptySeq
<1>2. /\ Front(s) \in Seq(S) /\ Len(Front(s)) = Len(s) - 1
      /\ \A k \in 1 .. Len(s) - 1 : Front(s)[k] = s[k]
  <2>1. /\ 1 \in Int /\ Len(s) - 1 \in Int
        /\ \A k \in 1 .. Len(s) - 1 : s[k] \in S
    BY <1>1
  <2> DEFINE u == SubSeq(s, 1, Len(s) - 1)
  <2>2. /\ u \in Seq(S)
        /\ Len(u) = IF 1 <= Len(s) - 1 THEN (Len(s) - 1) - 1 + 1 ELSE 0
        /\ \A i \in 1 .. (Len(s) - 1) - 1 + 1 : u[i] = s[1 + i - 1]
    BY <2>1, SubSeqProperties
  <2> HIDE DEF u
  <2>3. Len(u) = Len(s) - 1
    <3>1. ASSUME NEW n \in Nat \ {0}
          PROVE  (IF 1 <= n - 1 THEN (n - 1) - 1 + 1 ELSE 0) = n - 1
      OBVIOUS
    <3> QED BY <1>1, <2>2, <3>1
  <2>4. ASSUME NEW k \in 1 .. Len(s) - 1 PROVE u[k] = s[k]
    <3>1. k \in 1 .. (Len(s) - 1) - 1 + 1 /\ 1 + k - 1 = k
      BY <1>1
    <3> QED BY <2>2, <3>1
  <2>5. Front(s) = u
    BY DEF Front, u
  <2> QED BY <2>2, <2>3, <2>4, <2>5
<1>3. Last(s) \in S
  BY <1>1 DEF Last
<1>4. s = Append(Front(s), Last(s))
  <2>1. Append(Front(s), Last(s)) \in Seq(S) /\ Len(Append(Front(s), Last(s))) = Len(s)
    BY <1>1, <1>2, <1>3, AppendProperties
  <2>2. ASSUME NEW k \in 1 .. Len(s) PROVE s[k] = Append(Front(s), Last(s))[k]
    <3>1. CASE k = Len(s)
      BY <3>1, <1>1, <1>2, <1>3, AppendProperties DEF Last
    <3>2. CASE k < Len(s)
      <4>1. k \in 1 .. Len(s) - 1 /\ k \in 1 .. Len(Front(s))
        BY <3>2, <1>1, <1>2
      <4>2. Append(Front(s), Last(s))[k] = Front(s)[k]
        BY <4>1, <1>2, <1>3, AppendProperties
      <4> QED BY <4>1, <4>2, <1>2
    <3>3. k = Len(s) \/ k < Len(s)
      BY <1>1
    <3> QED BY <3>1, <3>2, <3>3
  <2> QED BY <2>1, <2>2, SeqEqual
<1> QED BY <1>2, <1>3, <1>4

-----------------------------------------------------------------------------
(***************************************************************************)
(* Chunks, and the pieces they tell.                                       *)
(***************************************************************************)
Piece == Nat \X Nat
RawChunk == [pieces : Seq(Piece), lead : 0 .. MaxBlank, size : Nat, trail : 0 .. MaxBlank,
             crumb : Nat, section : Nat]
PieceLists(s) == [k \in 1 .. Len(s) |-> s[k].pieces]
Told(s) == FlattenSeq(PieceLists(s))

\* Three lists of pieces, one after the other.
LEMMA Concats ==
  ASSUME NEW s \in Seq(Piece), NEW t \in Seq(Piece), NEW u \in Seq(Piece)
  PROVE  /\ s \o t \in Seq(Piece) /\ (s \o t) \o u = s \o (t \o u)
         /\ s \o <<>> = s /\ <<>> \o s = s
BY ConcatProperties, ConcatAssociative, ConcatEmptySeq

LEMMA Regroup == \A x, y, z \in Seq(Piece) : (x \o y) \o z = x \o (y \o z)
<1> TAKE x, y, z \in Seq(Piece)
<1> QED BY ConcatAssociative

LEMMA ToldEmpty == Told(<<>>) = <<>>
<1>1. PieceLists(<<>>) = <<>>
  BY DEF PieceLists
<1> QED BY <1>1, FlattenEmpty DEF Told

LEMMA ToldAppend ==
  ASSUME NEW s \in Seq(RawChunk), NEW c \in RawChunk
  PROVE  Told(s) \in Seq(Piece) /\ Told(Append(s, c)) = Told(s) \o c.pieces
<1>1. PieceLists(s) \in Seq(Seq(Piece)) /\ c.pieces \in Seq(Piece)
  <2>1. ASSUME NEW k \in 1 .. Len(s) PROVE s[k].pieces \in Seq(Piece)
    <3>1. s[k] \in RawChunk
      BY ElementOfSeq
    <3> QED BY <3>1 DEF RawChunk
  <2>2. c.pieces \in Seq(Piece) /\ Len(s) \in Nat
    BY DEF RawChunk
  <2>3. [k \in 1 .. Len(s) |-> s[k].pieces] \in Seq(Seq(Piece))
    <3> DEFINE Z == Seq(Piece)
    <3> HIDE DEF Z
    <3>1. \A k \in 1 .. Len(s) : s[k].pieces \in Z
      BY <2>1 DEF Z
    <3>2. [k \in 1 .. Len(s) |-> s[k].pieces] \in Seq(Z)
      BY <3>1, <2>2
    <3> QED BY <3>2 DEF Z
  <2> QED BY <2>2, <2>3 DEF PieceLists
<1>2. PieceLists(Append(s, c)) = Append(PieceLists(s), c.pieces)
  BY DEF PieceLists
<1> QED BY <1>1, <1>2, FlattenAppend DEF Told

-----------------------------------------------------------------------------
(***************************************************************************)
(* A document, its sections and sizes.                                     *)
(***************************************************************************)
Formed ==
  /\ Len(doc) \in Nat
  /\ \A i \in Sections :
       /\ Level(i) \in Nat /\ (i > 1 => Level(i) > 0)
       /\ Pieces(i) \in Seq(Nat) /\ Len(Pieces(i)) \in Nat \ {0}
       /\ doc[i].lead \in 0 .. MaxBlank /\ doc[i].trail \in 0 .. MaxBlank
       /\ \A k \in 1 .. Len(Pieces(i)) :
             Pieces(i)[k] \in Nat /\ Pieces(i)[k] <= Width * EffectiveMax

LEMMA DocumentIsFormed ==
  ASSUME files \in Corpora, config \in Configs, at \in Nat \ {0}, Chunking
  PROVE  Formed
<1>1. files \in Seq(Document) /\ at \in 1 .. Len(files)
  BY CorporaAssumption DEF Chunking
<1>2. doc \in Document
  BY <1>1, ElementOfSeq DEF doc
<1>3. Len(doc) \in Nat
  BY <1>2 DEF Document
<1>4. ASSUME NEW i \in Sections
      PROVE  /\ Level(i) \in Nat /\ (i > 1 => Level(i) > 0)
             /\ Pieces(i) \in Seq(Nat) /\ Len(Pieces(i)) \in Nat \ {0}
             /\ doc[i].lead \in 0 .. MaxBlank /\ doc[i].trail \in 0 .. MaxBlank
             /\ \A k \in 1 .. Len(Pieces(i)) :
                   Pieces(i)[k] \in Nat /\ Pieces(i)[k] <= Width * EffectiveMax
  <2>1. doc[i] \in [level : Nat, lead : 0 .. MaxBlank, trail : 0 .. MaxBlank,
                    frags : Seq(Nat) \ {<<>>}]
    BY <1>2, ElementOfSeq DEF Document, Sections
  <2>2. /\ Level(i) \in Nat /\ Pieces(i) \in Seq(Nat) /\ Pieces(i) # <<>>
        /\ doc[i].lead \in 0 .. MaxBlank /\ doc[i].trail \in 0 .. MaxBlank
    BY <2>1 DEF Level, Pieces
  <2>3. i > 1 => Level(i) > 0
    BY <1>1, CorporaAssumption DEF Level, doc, Sections
  <2>4. ASSUME NEW k \in 1 .. Len(Pieces(i)) PROVE Pieces(i)[k] <= Width * EffectiveMax
    BY <1>1, CorporaAssumption DEF Pieces, doc, Sections, EffectiveMax, HeadingReserve
  <2>5. Len(Pieces(i)) \in Nat \ {0}
    BY <2>2, EmptySeq
  <2>6. \A k \in 1 .. Len(Pieces(i)) : Pieces(i)[k] \in Nat
    BY <2>2, ElementOfSeq
  <2> QED BY <2>2, <2>3, <2>4, <2>5, <2>6
<1> QED BY <1>3, <1>4 DEF Formed

LEMMA SizesFit ==
  ASSUME config \in Configs
  PROVE  /\ HeadingReserve \in Nat /\ EffectiveMax \in Nat /\ EffectiveTarget \in Nat
         /\ EffectiveMax + HeadingReserve = config.max
         /\ EffectiveTarget <= EffectiveMax
         /\ config.max \in Nat /\ config.isolate \in BOOLEAN /\ config.prepend \in BOOLEAN
<1>1. /\ config.max \in Nat /\ config.target \in Nat /\ config.target <= config.max
      /\ config.isolate \in BOOLEAN /\ config.prepend \in BOOLEAN
  BY ConfigsAssumption
<1>2. MaxPath \in Nat
  BY LengthsAssumption
<1>3. \A m \in Nat : m \div 4 \in Nat /\ m \div 4 <= m
  OBVIOUS
<1>4. HeadingReserve \in Nat /\ HeadingReserve <= config.max
  BY <1>1, <1>2, <1>3 DEF HeadingReserve, Reserve, Lesser
<1> QED BY <1>1, <1>4 DEF EffectiveMax, EffectiveTarget, Monus

\* What is cut by characters, in bytes.
LEMMA WideIs ==
  ASSUME NEW n \in Nat
  PROVE  /\ Width * n \in Nat /\ n <= Width * n
         /\ \A m \in Nat : m <= n => Width * m <= Width * n
         /\ \A m \in Nat : m + 2 = n => Width * m + 2 <= Width * n
<1>1. Width \in Nat /\ Width >= 1
  BY LengthsAssumption
<1>2. PICK w \in Nat : Width = w + 1
  <2>1. Width - 1 \in Nat /\ Width = (Width - 1) + 1
    BY <1>1
  <2> QED BY <2>1
<1>3. \A m \in Nat : Width * m = w * m + m /\ w * m \in Nat
  BY <1>2
<1>4. \A m \in Nat : m <= n => w * m <= w * n
  <2> SUFFICES ASSUME NEW m \in Nat, m <= n PROVE w * m <= w * n
    OBVIOUS
  <2>1. PICK k \in Nat : n = m + k
    <3>1. n - m \in Nat /\ n = m + (n - m)
      OBVIOUS
    <3> QED BY <3>1
  <2>2. w * n = w * m + w * k /\ w * k \in Nat /\ w * m \in Nat
    BY <2>1
  <2> QED BY <2>2
<1>5. ASSUME NEW m \in Nat, m <= n PROVE Width * m <= Width * n
  <2>1. w * m \in Nat /\ w * n \in Nat /\ w * m <= w * n
    BY <1>3, <1>4, <1>5
  <2> QED BY <1>3, <1>5, <2>1
<1>6. ASSUME NEW m \in Nat, m + 2 = n PROVE Width * m + 2 <= Width * n
  <2>1. m <= n
    BY <1>6
  <2>2. w * m \in Nat /\ w * n \in Nat /\ w * m <= w * n
    BY <1>3, <1>4, <2>1
  <2> QED BY <1>3, <1>6, <2>2
<1>7. Width * n \in Nat /\ n <= Width * n
  <2>1. w * n \in Nat /\ Width * n = w * n + n
    BY <1>3
  <2> QED BY <2>1
<1> QED BY <1>5, <1>6, <1>7

-----------------------------------------------------------------------------
(***************************************************************************)
(* Pieces in the order of the document.                                    *)
(***************************************************************************)
TellsUpTo(t, i, k) ==
  /\ \A m \in 1 .. Len(t) : t[m] \in PiecesBefore(i, k)
  /\ \A p \in PiecesBefore(i, k) : \E m \in 1 .. Len(t) : t[m] = p
  /\ \A m, n \in 1 .. Len(t) : m < n => Earlier(t[m], t[n])

LEMMA PiecesAre ==
  ASSUME NEW i, NEW k, NEW p
  PROVE  p \in PiecesBefore(i, k) <=>
           \E j \in Sections : \E m \in 1 .. Len(Pieces(j)) :
              p = <<j, m>> /\ (j < i \/ (j = i /\ m < k))
BY DEF PiecesBefore, PiecesOf, Sections, Pieces

LEMMA AddPiece ==
  ASSUME Formed, NEW i \in Sections, NEW k \in 1 .. Len(Pieces(i)),
         NEW t \in Seq(Piece), TellsUpTo(t, i, k)
  PROVE  TellsUpTo(t \o << <<i, k>> >>, i, k + 1)
<1> DEFINE u == t \o << <<i, k>> >>
<1>1. i \in Nat /\ k \in Nat /\ <<i, k>> \in Piece /\ Len(t) \in Nat
  BY DEF Sections, Piece, Formed
<1>2. /\ u \in Seq(Piece) /\ Len(u) = Len(t) + 1
      /\ \A m \in 1 .. Len(t) : u[m] = t[m]
      /\ u[Len(t) + 1] = <<i, k>>
  BY <1>1
<1> HIDE DEF u
<1>3. PiecesBefore(i, k + 1) = PiecesBefore(i, k) \cup {<<i, k>>}
  <2>1. ASSUME NEW p, p \in PiecesBefore(i, k + 1) PROVE p \in PiecesBefore(i, k) \cup {<<i, k>>}
    <3>1. PICK j, m : /\ j \in Sections /\ m \in 1 .. Len(Pieces(j))
                      /\ p = <<j, m>> /\ (j < i \/ (j = i /\ m < k + 1))
      BY <2>1, PiecesAre
    <3>2. m \in Nat /\ j \in Nat
      BY <3>1 DEF Sections
    <3>3. j < i \/ (j = i /\ m < k) \/ (j = i /\ m = k)
      BY <1>1, <3>1, <3>2
    <3> QED BY <3>1, <3>3, PiecesAre
  <2>2. ASSUME NEW p, p \in PiecesBefore(i, k) \cup {<<i, k>>} PROVE p \in PiecesBefore(i, k + 1)
    <3>1. PICK j, m : /\ j \in Sections /\ m \in 1 .. Len(Pieces(j))
                      /\ p = <<j, m>> /\ (j < i \/ (j = i /\ m < k) \/ (j = i /\ m = k))
      BY <2>2, PiecesAre
    <3>2. m \in Nat /\ j \in Nat
      BY <3>1 DEF Sections
    <3>3. j < i \/ (j = i /\ m < k + 1)
      BY <1>1, <3>1, <3>2
    <3> QED BY <3>1, <3>3, PiecesAre
  <2> QED BY <2>1, <2>2
<1>4. ASSUME NEW m \in 1 .. Len(t) PROVE Earlier(t[m], <<i, k>>)
  <2>1. t[m] \in PiecesBefore(i, k)
    BY DEF TellsUpTo
  <2>2. PICK j, l : /\ j \in Sections /\ l \in 1 .. Len(Pieces(j))
                    /\ t[m] = <<j, l>> /\ (j < i \/ (j = i /\ l < k))
    BY <2>1, PiecesAre
  <2> QED BY <2>2 DEF Earlier
<1>5. ASSUME NEW m \in 1 .. Len(u), NEW n \in 1 .. Len(u), m < n PROVE Earlier(u[m], u[n])
  <2>1. m \in 1 .. Len(t)
    BY <1>1, <1>2, <1>5
  <2>2. CASE n \in 1 .. Len(t)
    BY <1>2, <1>5, <2>1, <2>2 DEF TellsUpTo
  <2>3. CASE n = Len(t) + 1
    BY <1>2, <1>4, <2>1, <2>3
  <2> QED BY <1>1, <1>2, <2>2, <2>3
<1>6. ASSUME NEW m \in 1 .. Len(u) PROVE u[m] \in PiecesBefore(i, k + 1)
  <2>1. \A l \in 1 .. Len(t) : t[l] \in PiecesBefore(i, k)
    BY DEF TellsUpTo
  <2>2. m \in 1 .. Len(t) \/ m = Len(t) + 1
    BY <1>1, <1>2
  <2> QED BY <1>2, <1>3, <2>1, <2>2
<1>7. ASSUME NEW p \in PiecesBefore(i, k + 1) PROVE \E m \in 1 .. Len(u) : u[m] = p
  <2>1. CASE p = <<i, k>>
    BY <1>1, <1>2, <2>1
  <2>2. CASE p \in PiecesBefore(i, k)
    <3>1. PICK m \in 1 .. Len(t) : t[m] = p
      BY <2>2 DEF TellsUpTo
    <3> QED BY <1>1, <1>2, <3>1
  <2> QED BY <1>3, <2>1, <2>2
<1> QED BY <1>5, <1>6, <1>7 DEF TellsUpTo, u

LEMMA SectionEnds ==
  ASSUME Formed, NEW i \in Sections
  PROVE  PiecesBefore(i, Len(Pieces(i)) + 1) = PiecesBefore(i + 1, 1)
<1>1. ASSUME NEW j \in Sections, NEW m \in 1 .. Len(Pieces(j))
      PROVE  (j < i \/ (j = i /\ m < Len(Pieces(i)) + 1)) <=> (j < i + 1 \/ (j = i + 1 /\ m < 1))
  <2>1. j \in Nat /\ i \in Nat /\ m \in Nat /\ m >= 1 /\ Len(Pieces(i)) \in Nat
    BY DEF Sections, Formed
  <2>2. j = i => m <= Len(Pieces(i))
    OBVIOUS
  <2> QED BY <2>1, <2>2
<1>2. ASSUME NEW p
      PROVE  p \in PiecesBefore(i, Len(Pieces(i)) + 1) <=> p \in PiecesBefore(i + 1, 1)
  BY <1>1, PiecesAre
<1> QED BY <1>2

LEMMA NoPiecesYet == ASSUME Formed PROVE TellsUpTo(<<>>, 1, 1)
<1>1. ASSUME NEW p \in PiecesBefore(1, 1) PROVE FALSE
  <2>1. PICK j, m : /\ j \in Sections /\ m \in 1 .. Len(Pieces(j))
                    /\ j < 1 \/ (j = 1 /\ m < 1)
    BY PiecesAre
  <2>2. j \in Nat /\ j >= 1 /\ m \in Nat /\ m >= 1
    BY <2>1 DEF Sections
  <2> QED BY <2>1, <2>2
<1> QED BY <1>1, EmptySeq DEF TellsUpTo

LEMMA AddSection ==
  ASSUME Formed, NEW i \in Sections, NEW t \in Seq(Piece), TellsUpTo(t, i, 1)
  PROVE  /\ WholeSection(i).pieces \in Seq(Piece)
         /\ TellsUpTo(t \o WholeSection(i).pieces, i + 1, 1)
<1> DEFINE n == Len(Pieces(i))
           first(k) == [m \in 1 .. k |-> <<i, m>>]
           T == {k \in 0 .. n : TellsUpTo(t \o first(k), i, k + 1)}
<1>1. n \in Nat /\ i \in Nat
  BY DEF Formed, Sections
<1>2. ASSUME NEW k \in Nat PROVE first(k) \in Seq(Piece) /\ Len(first(k)) = k
  BY <1>1, <1>2 DEF Piece
<1>3. 0 \in T
  <2>1. first(0) = <<>>
    BY <1>2, EmptySeq
  <2>2. t \o <<>> = t
    BY ConcatEmptySeq
  <2>3. TellsUpTo(t \o first(0), i, 0 + 1)
    BY <2>1, <2>2
  <2> HIDE DEF n, first
  <2> QED BY <1>1, <2>3
<1>4. ASSUME NEW k \in 0 .. n - 1, k \in T PROVE k + 1 \in T
  <2>1. k \in Nat /\ k + 1 \in 1 .. n /\ k + 1 \in 0 .. n
    BY <1>1
  <2>2. first(k + 1) = first(k) \o << <<i, k + 1>> >>
    BY <1>1, <2>1
  <2>3. << <<i, k + 1>> >> \in Seq(Piece)
    BY <1>1, <2>1 DEF Piece
  <2>4. first(k) \in Seq(Piece) /\ TellsUpTo(t \o first(k), i, k + 1)
    BY <1>2, <1>4, <2>1
  <2> HIDE DEF first
  <2>5. t \o first(k + 1) = (t \o first(k)) \o << <<i, k + 1>> >>
    <3> DEFINE e == << <<i, k + 1>> >>
               h == first(k)
    <3>1. e \in Seq(Piece) /\ h \in Seq(Piece)
      BY <2>3, <2>4
    <3> HIDE DEF e, h
    <3>2. t \o (h \o e) = (t \o h) \o e
      BY <3>1, Regroup
    <3> QED BY <2>2, <3>2 DEF e, h
  <2>6. t \o first(k) \in Seq(Piece)
    BY <2>4, ConcatProperties
  <2>7. TellsUpTo(t \o first(k + 1), i, (k + 1) + 1)
    BY <2>1, <2>4, <2>5, <2>6, AddPiece
  <2> QED BY <2>1, <2>7
<1>5. n \in T
  <2>1. \A k \in 0 .. n : k \in T
    <3> HIDE DEF T, n
    <3> QED BY <1>1, <1>3, <1>4, Climb
  <2> HIDE DEF T, n
  <2> QED BY <1>1, <2>1
<1>6. WholeSection(i).pieces = first(n)
  BY DEF WholeSection
<1>7. TellsUpTo(t \o first(n), i, n + 1)
  BY <1>5
<1>8. PiecesBefore(i, n + 1) = PiecesBefore(i + 1, 1)
  BY SectionEnds
<1>9. TellsUpTo(t \o first(n), i + 1, 1)
  <2> HIDE DEF n, first
  <2> QED BY <1>7, <1>8 DEF TellsUpTo
<1> QED BY <1>1, <1>2, <1>6, <1>9

LEMMA SectionSizeNat ==
  ASSUME Formed, NEW i \in Sections
  PROVE  SectionSize(i) \in Nat
<1> DEFINE n == Len(Pieces(i))
           more(k) == Pieces(i)[k] + (IF k > 1 THEN 1 ELSE 0)
           step == [k \in 1 .. n |-> [t \in Nat |-> t + Pieces(i)[k] + (IF k > 1 THEN 1 ELSE 0)]]
<1>1. n \in Nat /\ \A k \in 1 .. n : Pieces(i)[k] \in Nat
  BY DEF Formed
<1>2. step \in Steps(n, Nat)
  BY <1>1 DEF Steps
<1>3. PICK f : IsRun(f, n, Nat, 0, step)
  <2> HIDE DEF step, n
  <2> QED BY <1>1, <1>2, Recursion
<1>4. f = [k \in 0 .. n |-> IF k = 0 THEN 0 ELSE f[k - 1] + Pieces(i)[k] + (IF k > 1 THEN 1 ELSE 0)]
  <2>1. ASSUME NEW k \in 1 .. n
        PROVE  f[k] = f[k - 1] + Pieces(i)[k] + (IF k > 1 THEN 1 ELSE 0)
    <3>1. f[k - 1] \in Nat
      <4>1. k - 1 \in 0 .. n /\ f \in [0 .. n -> Nat]
        BY <1>1, <1>3 DEF IsRun
      <4> QED BY <4>1
    <3> QED BY <1>3, <3>1 DEF IsRun
  <2> HIDE DEF n, step
  <2> QED BY <1>1, <1>3, <2>1 DEF IsRun
<1>5. PICK g : /\ g = [k \in 0 .. n |-> IF k = 0 THEN 0
                         ELSE g[k - 1] + Pieces(i)[k] + (IF k > 1 THEN 1 ELSE 0)]
               /\ SectionSize(i) = g[n]
  BY <1>4, Zenon DEF SectionSize
<1> DEFINE T == {k \in 0 .. n : g[k] \in Nat}
<1>6. 0 \in T
  BY <1>1, <1>5
<1>7. ASSUME NEW k \in 0 .. n - 1, k \in T PROVE k + 1 \in T
  <2>1. k + 1 \in 0 .. n /\ k + 1 # 0 /\ (k + 1) - 1 = k /\ Pieces(i)[k + 1] \in Nat /\ g[k] \in Nat
    BY <1>1, <1>7
  <2>2. g[k + 1] = g[k] + Pieces(i)[k + 1] + (IF k + 1 > 1 THEN 1 ELSE 0)
    BY <1>5, <2>1
  <2> QED BY <2>1, <2>2
<1>8. n \in T
  <2>1. \A k \in 0 .. n : k \in T
    <3> HIDE DEF T, n
    <3> QED BY <1>1, <1>6, <1>7, Climb
  <2> HIDE DEF T, n
  <2> QED BY <1>1, <2>1
<1> QED BY <1>5, <1>8

-----------------------------------------------------------------------------
(***************************************************************************)
(* The headings a section is under: itself and every earlier heading with  *)
(* nothing as shallow in between.                                          *)
(***************************************************************************)
OpenAt(i) == {j \in 1 .. i : Level(j) > 0 /\ \A k \in j + 1 .. i : Level(k) > Level(j)}
Nodes == 0 .. Len(doc)
IsNearest(p, T) == IF T = {} THEN p = 0 ELSE p \in T /\ \A t \in T : t <= p

LEMMA SectionsAre ==
  ASSUME Formed
  PROVE  /\ Len(doc) \in Nat /\ Sections \subseteq Nodes /\ Nodes \subseteq Nat
         /\ \A i \in Nodes : i = 0 \/ i \in Sections
         /\ \A i \in Sections : i >= 1 /\ i - 1 \in Nodes
         /\ \A i \in Nodes : \A j \in 1 .. i : j \in Sections
         /\ \A i \in Sections : Level(i) \in Nat /\ (i > 1 => Level(i) > 0)
BY DEF Formed, Sections, Nodes

LEMMA OpenZero == OpenAt(0) = {}
BY DEF OpenAt

LEMMA OpenSelf ==
  ASSUME Formed, NEW i \in Sections
  PROVE  IF Level(i) > 0 THEN i \in OpenAt(i) ELSE OpenAt(i) = {}
<1>1. i \in Nat /\ i >= 1 /\ Level(i) \in Nat /\ (i > 1 => Level(i) > 0)
  BY SectionsAre
<1>2. CASE Level(i) > 0
  BY <1>1, <1>2 DEF OpenAt
<1>3. CASE ~(Level(i) > 0)
  <2>1. i = 1
    BY <1>1, <1>3
  <2> QED BY <1>3, <2>1 DEF OpenAt
<1> QED BY <1>2, <1>3

LEMMA OpenChain ==
  ASSUME Formed, NEW i \in Nodes, NEW j \in OpenAt(i)
  PROVE  /\ j \in Sections /\ j <= i /\ Level(j) > 0
         /\ OpenAt(j) = {h \in OpenAt(i) : h <= j}
<1>1. i \in Nat /\ j \in 1 .. i /\ j \in Sections /\ Level(j) > 0
      /\ \A k \in j + 1 .. i : Level(k) > Level(j)
  BY SectionsAre DEF OpenAt
<1>2. \A k \in 1 .. i : Level(k) \in Nat
  BY SectionsAre
<1>3. ASSUME NEW h \in OpenAt(j) PROVE h \in OpenAt(i) /\ h <= j
  <2>1. h \in 1 .. j /\ Level(h) > 0 /\ \A k \in h + 1 .. j : Level(k) > Level(h)
    BY DEF OpenAt
  <2>2. ASSUME NEW k \in h + 1 .. i PROVE Level(k) > Level(h)
    <3>1. CASE k <= j
      BY <1>1, <2>1, <3>1
    <3>2. CASE k > j
      <4>1. Level(k) > Level(j)
        BY <1>1, <2>1, <3>2
      <4>2. h = j \/ Level(j) > Level(h)
        BY <1>1, <2>1
      <4>3. Level(h) \in Nat /\ Level(j) \in Nat /\ Level(k) \in Nat
        BY <1>1, <1>2, <2>1
      <4> QED BY <4>1, <4>2, <4>3
    <3> QED BY <1>1, <2>1, <3>1, <3>2
  <2> QED BY <1>1, <2>1, <2>2 DEF OpenAt
<1>4. ASSUME NEW h \in OpenAt(i), h <= j PROVE h \in OpenAt(j)
  BY <1>1, <1>4 DEF OpenAt
<1>5. OpenAt(j) = {h \in OpenAt(i) : h <= j}
  BY <1>3, <1>4, Zenon
<1>6. j <= i
  BY <1>1
<1> QED BY <1>1, <1>5, <1>6

LEMMA OpenLevels ==
  ASSUME Formed, NEW i \in Nodes, NEW h \in OpenAt(i), NEW j \in OpenAt(i), h < j
  PROVE  Level(h) < Level(j)
<1>1. j \in h + 1 .. i /\ Level(h) \in Nat /\ Level(j) \in Nat
  BY SectionsAre, OpenChain DEF OpenAt
<1> QED BY <1>1 DEF OpenAt

LEMMA OpenStep ==
  ASSUME Formed, NEW i \in Sections, Level(i) > 0
  PROVE  OpenAt(i) = {i} \cup {j \in OpenAt(i - 1) : Level(j) < Level(i)}
<1>1. i \in Nat /\ i >= 1
  BY SectionsAre
<1>2. ASSUME NEW j \in OpenAt(i), j # i PROVE j \in OpenAt(i - 1) /\ Level(j) < Level(i)
  <2>1. j \in 1 .. i - 1
    BY <1>1, <1>2 DEF OpenAt
  <2>2. i \in j + 1 .. i /\ \A k \in j + 1 .. i - 1 : k \in j + 1 .. i
    BY <1>1, <2>1
  <2>3. Level(i) > Level(j) /\ Level(j) \in Nat /\ Level(i) \in Nat
    BY <2>1, <2>2, SectionsAre DEF OpenAt
  <2> QED BY <2>1, <2>2, <2>3 DEF OpenAt
<1>3. ASSUME NEW j \in OpenAt(i - 1), Level(j) < Level(i) PROVE j \in OpenAt(i)
  <2>1. j \in 1 .. i - 1 /\ j \in Sections /\ Level(j) \in Nat /\ Level(i) \in Nat
    BY <1>1, SectionsAre DEF OpenAt
  <2>2. ASSUME NEW k \in j + 1 .. i PROVE Level(k) > Level(j)
    <3>1. k = i \/ k \in j + 1 .. i - 1
      BY <1>1, <2>1
    <3> QED BY <1>3, <2>1, <3>1 DEF OpenAt
  <2> QED BY <1>1, <2>1, <2>2 DEF OpenAt
<1>4. i \in OpenAt(i)
  BY OpenSelf
<1> QED BY <1>2, <1>3, <1>4

LEMMA NearestIs ==
  ASSUME Formed, NEW T \in SUBSET Sections
  PROVE  /\ \E p \in Nodes : IsNearest(p, T)
         /\ \A p, q : IsNearest(p, T) /\ IsNearest(q, T) => p = q
<1>1. T \in SUBSET (0 .. Len(doc)) /\ Len(doc) \in Nat /\ T \subseteq Nat
  BY SectionsAre DEF Nodes
<1>2. \E p \in Nodes : IsNearest(p, T)
  <2>1. CASE T = {}
    BY <2>1, <1>1 DEF IsNearest, Nodes
  <2>2. CASE T # {}
    <3>1. PICK m \in T : \A t \in T : t <= m
      BY <1>1, <2>2, Greatest
    <3> QED BY <1>1, <2>2, <3>1 DEF IsNearest, Nodes
  <2> QED BY <2>1, <2>2
<1>3. ASSUME NEW p, NEW q, IsNearest(p, T), IsNearest(q, T) PROVE p = q
  <2>1. CASE T = {}
    BY <1>3, <2>1 DEF IsNearest
  <2>2. CASE T # {}
    <3>1. p \in T /\ q \in T /\ p <= q /\ q <= p
      BY <1>3, <2>2 DEF IsNearest
    <3> QED BY <1>1, <3>1
  <2> QED BY <2>1, <2>2
<1> QED BY <1>2, <1>3

\* The nearest heading over a section is under all the others over it.
LEMMA UpOne ==
  ASSUME Formed, NEW i \in Sections, NEW p, IsNearest(p, OpenAt(i) \ {i})
  PROVE  /\ p \in Nodes /\ p < i
         /\ OpenAt(p) = OpenAt(i) \ {i}
         /\ p > 0 => p \in Sections /\ p \in OpenAt(i) /\ Level(p) > 0
<1>1. i \in Nat /\ i >= 1 /\ i \in Nodes /\ 0 \in Nodes
  BY SectionsAre DEF Nodes
<1>2. CASE OpenAt(i) \ {i} = {}
  BY <1>1, <1>2, OpenZero DEF IsNearest
<1>3. CASE OpenAt(i) \ {i} # {}
  <2>1. p \in OpenAt(i) /\ p # i /\ \A t \in OpenAt(i) \ {i} : t <= p
    BY <1>3 DEF IsNearest
  <2>2. /\ p \in Sections /\ p <= i /\ Level(p) > 0
        /\ OpenAt(p) = {h \in OpenAt(i) : h <= p}
    BY <1>1, <2>1, OpenChain
  <2>3. p \in Nat /\ p \in Nodes /\ p < i
    BY <1>1, <2>1, <2>2, SectionsAre
  <2>4. OpenAt(p) = OpenAt(i) \ {i}
    <3>1. ~(i <= p)
      BY <1>1, <2>3
    <3>2. {h \in OpenAt(i) : h <= p} = OpenAt(i) \ {i}
      BY <2>1, <3>1, Zenon
    <3> QED BY <2>2, <3>2
  <2> QED BY <2>1, <2>2, <2>3, <2>4
<1> QED BY <1>2, <1>3

-----------------------------------------------------------------------------
(***************************************************************************)
(* The stack of the parser holds the open headings, in order.              *)
(***************************************************************************)
IsStack(st, i) ==
  /\ st \in Seq(Sections)
  /\ \A k \in 1 .. Len(st) : st[k] \in OpenAt(i)
  /\ \A j \in OpenAt(i) : \E k \in 1 .. Len(st) : st[k] = j
  /\ \A a, b \in 1 .. Len(st) : a < b => st[a] < st[b]

LEMMA StillOpenIs ==
  ASSUME Formed, NEW st \in Seq(Sections), NEW l \in Nat
  PROVE  LET x == StillOpen(st, l) IN
         /\ x \in Seq(Sections) /\ Len(x) <= Len(st)
         /\ \A k \in 1 .. Len(x) : x[k] = st[k]
         /\ Len(x) = 0 \/ Level(st[Len(x)]) < l
         /\ \A k \in Len(x) + 1 .. Len(st) : Level(st[k]) >= l
<1> DEFINE n == Len(st)
           T == {k \in 0 .. n : k = 0 \/ Level(st[k]) < l}
<1>1. n \in Nat /\ \A k \in 1 .. n : st[k] \in Sections /\ Level(st[k]) \in Nat
  <2>1. \A k \in 1 .. n : st[k] \in Sections
    BY ElementOfSeq
  <2>2. n \in Nat
    BY LenProperties
  <2> HIDE DEF n
  <2> QED BY <2>1, <2>2, SectionsAre
<1>2. T \in SUBSET (0 .. n) /\ T # {}
  BY <1>1
<1>3. PICK m \in T : \A k \in T : k <= m
  <2> HIDE DEF T, n
  <2> QED BY <1>1, <1>2, Greatest
<1>4. /\ m \in 0 .. n /\ (m = 0 \/ Level(st[m]) < l)
      /\ \A k \in m + 1 .. n : Level(st[k]) >= l
  <2>1. m \in 0 .. n /\ (m = 0 \/ Level(st[m]) < l)
    OBVIOUS
  <2>2. ASSUME NEW k \in m + 1 .. n PROVE Level(st[k]) >= l
    <3>1. k \in 1 .. n /\ k \in 0 .. n /\ ~(k <= m)
      BY <1>1, <2>1
    <3>2. k \notin T
      BY <1>3, <3>1
    <3>3. ~(Level(st[k]) < l)
      BY <3>1, <3>2
    <3> QED BY <1>1, <3>1, <3>3
  <2> QED BY <2>1, <2>2
<1> DEFINE Is(k) == (k = 0 \/ Level(st[k]) < l) /\ \A j \in k + 1 .. n : Level(st[j]) >= l
           top == CHOOSE k \in 0 .. n : Is(k)
<1>5. top \in 0 .. n /\ Is(top)
  <2> HIDE DEF Is, n
  <2>1. Is(m) /\ m \in 0 .. n
    BY <1>4 DEF Is
  <2> QED BY <2>1
<1>6. StillOpen(st, l) = SubSeq(st, 1, top)
  BY DEF StillOpen
<1> HIDE DEF top
<1>7. /\ SubSeq(st, 1, top) \in Seq(Sections)
      /\ Len(SubSeq(st, 1, top)) = top
      /\ \A k \in 1 .. top : SubSeq(st, 1, top)[k] = st[k]
  <2>1. 1 \in Int /\ top \in Int /\ \A k \in 1 .. top : st[k] \in Sections
    BY <1>1, <1>5
  <2> DEFINE u == SubSeq(st, 1, top)
  <2>2. /\ u \in Seq(Sections)
        /\ Len(u) = IF 1 <= top THEN top - 1 + 1 ELSE 0
        /\ \A i \in 1 .. top - 1 + 1 : u[i] = st[1 + i - 1]
    BY <2>1, SubSeqProperties
  <2> HIDE DEF u
  <2>3. Len(u) = top
    BY <1>1, <1>5, <2>2
  <2>4. ASSUME NEW k \in 1 .. top PROVE u[k] = st[k]
    <3>1. k \in 1 .. top - 1 + 1 /\ 1 + k - 1 = k
      BY <1>1, <1>5
    <3> QED BY <2>2, <3>1
  <2> QED BY <2>2, <2>3, <2>4 DEF u
<1> DEFINE x == SubSeq(st, 1, top)
<1> HIDE DEF x
<1>8. x \in Seq(Sections) /\ Len(x) = top /\ \A k \in 1 .. top : x[k] = st[k]
  BY <1>7 DEF x
<1>9. /\ Len(x) <= n /\ (Len(x) = 0 \/ Level(st[Len(x)]) < l)
      /\ \A k \in Len(x) + 1 .. n : Level(st[k]) >= l
  BY <1>1, <1>5, <1>8
<1>10. StillOpen(st, l) = x
  BY <1>6 DEF x
<1> QED BY <1>8, <1>9, <1>10

LEMMA StackStep ==
  ASSUME Formed, NEW i \in Sections, Level(i) > 0, NEW st, IsStack(st, i - 1)
  PROVE  LET x == StillOpen(st, Level(i)) IN
         /\ x \in Seq(Sections)
         /\ \A j : (\E k \in 1 .. Len(x) : x[k] = j) <=> j \in OpenAt(i) \ {i}
         /\ \A a, b \in 1 .. Len(x) : a < b => x[a] < x[b]
         /\ IsStack(Append(x, i), i)
<1> DEFINE x == StillOpen(st, Level(i))
<1>1. /\ st \in Seq(Sections) /\ Len(st) \in Nat
      /\ i \in Nat /\ i >= 1 /\ i - 1 \in Nodes /\ Level(i) \in Nat
  BY SectionsAre DEF IsStack
<1>2. /\ x \in Seq(Sections) /\ Len(x) \in Nat /\ Len(x) <= Len(st)
      /\ \A k \in 1 .. Len(x) : x[k] = st[k]
      /\ Len(x) = 0 \/ Level(st[Len(x)]) < Level(i)
      /\ \A k \in Len(x) + 1 .. Len(st) : Level(st[k]) >= Level(i)
  BY <1>1, StillOpenIs
<1> HIDE DEF x
<1>3. \A k \in 1 .. Len(st) : st[k] \in OpenAt(i - 1) /\ st[k] \in Sections /\ Level(st[k]) \in Nat
  BY <1>1, SectionsAre, ElementOfSeq DEF IsStack
<1>4. OpenAt(i) = {i} \cup {j \in OpenAt(i - 1) : Level(j) < Level(i)}
  BY OpenStep
<1>5. ASSUME NEW k \in 1 .. Len(x) PROVE Level(st[k]) < Level(i)
  <2>1. k \in 1 .. Len(st) /\ Len(x) \in 1 .. Len(st) /\ Len(x) # 0 /\ k <= Len(x)
    BY <1>1, <1>2
  <2>2. CASE k = Len(x)
    BY <1>2, <2>1, <2>2
  <2>3. CASE k < Len(x)
    <3>1. st[k] < st[Len(x)]
      BY <2>1, <2>3 DEF IsStack
    <3>2. Level(st[k]) < Level(st[Len(x)])
      BY <1>1, <1>3, <2>1, <3>1, OpenLevels
    <3> QED BY <1>1, <1>2, <1>3, <2>1, <3>2
  <2> QED BY <1>2, <2>1, <2>2, <2>3
<1>6. \A k \in 1 .. Len(st) : st[k] < i
  BY <1>1, <1>3 DEF OpenAt
<1>7. ASSUME NEW k \in 1 .. Len(x) PROVE x[k] \in OpenAt(i) /\ x[k] < i /\ x[k] # i
  <2>1. k \in 1 .. Len(st) /\ x[k] = st[k]
    BY <1>1, <1>2
  <2>2. x[k] < i /\ x[k] \in Nat
    BY <1>3, <1>6, <2>1, SectionsAre
  <2>3. x[k] # i
    BY <1>1, <2>2
  <2> QED BY <1>3, <1>4, <1>5, <2>1, <2>2, <2>3
<1>8. ASSUME NEW j \in OpenAt(i) \ {i} PROVE \E k \in 1 .. Len(x) : x[k] = j
  <2>1. j \in OpenAt(i - 1) /\ Level(j) < Level(i)
    BY <1>4
  <2>2. PICK k \in 1 .. Len(st) : st[k] = j
    BY <2>1 DEF IsStack
  <2>3. ~(Level(st[k]) >= Level(i))
    BY <1>1, <1>3, <2>1, <2>2
  <2>4. ~(k \in Len(x) + 1 .. Len(st))
    BY <1>2, <2>3
  <2>5. k \in 1 .. Len(x)
    BY <1>1, <1>2, <2>4
  <2> QED BY <1>2, <2>2, <2>5
<1>9. ASSUME NEW a \in 1 .. Len(x), NEW b \in 1 .. Len(x), a < b PROVE x[a] < x[b]
  <2>1. a \in 1 .. Len(st) /\ b \in 1 .. Len(st)
    BY <1>1, <1>2
  <2>2. st[a] < st[b]
    BY <1>9, <2>1 DEF IsStack
  <2> QED BY <1>2, <2>2
<1> DEFINE y == Append(x, i)
<1>10. /\ y \in Seq(Sections) /\ Len(y) = Len(x) + 1
       /\ \A k \in 1 .. Len(x) : y[k] = x[k]
       /\ y[Len(x) + 1] = i
  BY <1>2, AppendProperties
<1> HIDE DEF y
<1>11. ASSUME NEW k \in 1 .. Len(y) PROVE k \in 1 .. Len(x) \/ k = Len(x) + 1
  BY <1>2, <1>10
<1>12. \A k \in 1 .. Len(y) : y[k] \in OpenAt(i)
  BY <1>4, <1>7, <1>10, <1>11
<1>13. ASSUME NEW j \in OpenAt(i) PROVE \E k \in 1 .. Len(y) : y[k] = j
  <2>1. CASE j = i
    BY <1>2, <1>10, <2>1
  <2>2. CASE j # i
    <3>1. PICK k \in 1 .. Len(x) : x[k] = j
      BY <1>8, <2>2
    <3>2. k \in 1 .. Len(y) /\ y[k] = j
      BY <1>2, <1>10, <3>1
    <3> QED BY <3>2
  <2> QED BY <2>1, <2>2
<1>14. ASSUME NEW a \in 1 .. Len(y), NEW b \in 1 .. Len(y), a < b PROVE y[a] < y[b]
  <2>1. a \in 1 .. Len(x)
    BY <1>2, <1>10, <1>11, <1>14
  <2>2. CASE b \in 1 .. Len(x)
    BY <1>9, <1>10, <1>14, <2>1, <2>2
  <2>3. CASE b = Len(x) + 1
    BY <1>7, <1>10, <2>1, <2>3
  <2> QED BY <1>11, <2>2, <2>3
<1>15. IsStack(y, i)
  BY <1>10, <1>12, <1>13, <1>14 DEF IsStack
<1>16. \A j : (\E k \in 1 .. Len(x) : x[k] = j) <=> j \in OpenAt(i) \ {i}
  BY <1>7, <1>8
<1> QED BY <1>2, <1>9, <1>15, <1>16 DEF x, y

LEMMA StackIs ==
  ASSUME Formed
  PROVE  /\ \A i \in Nodes : IsStack(OpenAfter[i], i)
         /\ \A i \in Sections : Level(i) > 0 =>
               OpenAfter[i] = Append(StillOpen(OpenAfter[i - 1], Level(i)), i)
<1> DEFINE n == Len(doc)
           push(i, t) == IF Level(i) = 0 THEN <<>> ELSE Append(StillOpen(t, Level(i)), i)
           step == [i \in 1 .. n |-> [t \in Seq(Sections) |-> push(i, t)]]
<1>1. n \in Nat /\ <<>> \in Seq(Sections) /\ \A i \in 1 .. n : i \in Sections /\ Level(i) \in Nat
  BY SectionsAre DEF Sections
<1>2. step \in Steps(n, Seq(Sections))
  <2>1. ASSUME NEW i \in 1 .. n, NEW t \in Seq(Sections) PROVE push(i, t) \in Seq(Sections)
    <3>1. StillOpen(t, Level(i)) \in Seq(Sections)
      BY <1>1, StillOpenIs
    <3>2. Append(StillOpen(t, Level(i)), i) \in Seq(Sections)
      BY <1>1, <3>1, AppendProperties
    <3> QED BY <1>1, <3>2
  <2> HIDE DEF push, n
  <2> QED BY <2>1 DEF Steps
<1>3. PICK f : IsRun(f, n, Seq(Sections), <<>>, step)
  <2> HIDE DEF step, n
  <2> QED BY <1>1, <1>2, Recursion
<1>4. f = [i \in 0 .. Len(doc) |->
             IF i = 0 \/ Level(i) = 0 THEN <<>> ELSE Append(StillOpen(f[i - 1], Level(i)), i)]
  <2>1. ASSUME NEW i \in 1 .. n PROVE f[i] = push(i, f[i - 1])
    <3>1. f[i - 1] \in Seq(Sections)
      BY <1>1, <1>3 DEF IsRun
    <3> HIDE DEF push
    <3> QED BY <1>3, <3>1 DEF IsRun
  <2>2. f[0] = <<>> /\ f \in [0 .. n -> Seq(Sections)]
    BY <1>3 DEF IsRun
  <2>3. ASSUME NEW i \in 0 .. n
        PROVE  f[i] = IF i = 0 \/ Level(i) = 0 THEN <<>>
                      ELSE Append(StillOpen(f[i - 1], Level(i)), i)
    <3>1. i = 0 \/ i \in 1 .. n
      BY <1>1
    <3> QED BY <2>1, <2>2, <3>1
  <2> QED BY <2>2, <2>3
<1>5. PICK g : /\ g = [i \in 0 .. Len(doc) |->
                        IF i = 0 \/ Level(i) = 0 THEN <<>>
                        ELSE Append(StillOpen(g[i - 1], Level(i)), i)]
               /\ OpenAfter = g
  BY <1>4, Zenon DEF OpenAfter
<1>6. ASSUME NEW i \in 0 .. n
      PROVE  OpenAfter[i] = IF i = 0 \/ Level(i) = 0 THEN <<>>
                            ELSE Append(StillOpen(OpenAfter[i - 1], Level(i)), i)
  <2>1. g[i] = IF i = 0 \/ Level(i) = 0 THEN <<>> ELSE Append(StillOpen(g[i - 1], Level(i)), i)
    BY <1>5
  <2> QED BY <1>5, <2>1
<1> DEFINE T == {i \in 0 .. n : IsStack(OpenAfter[i], i)}
<1>7. ASSUME NEW i \in Nodes, OpenAt(i) = {} PROVE IsStack(<<>>, i)
  BY <1>7, EmptySeq DEF IsStack
<1>8. 0 \in T
  BY <1>1, <1>6, <1>7, OpenZero DEF Nodes
<1>9. ASSUME NEW k \in 0 .. n - 1, k \in T PROVE k + 1 \in T
  <2>1. k + 1 \in 0 .. n /\ k + 1 \in Sections /\ k + 1 \in Nodes /\ k + 1 # 0 /\ (k + 1) - 1 = k
        /\ Level(k + 1) \in Nat
    BY <1>1 DEF Nodes
  <2>2. IsStack(OpenAfter[k], k)
    BY <1>9
  <2>3. OpenAfter[k + 1] = IF Level(k + 1) = 0 THEN <<>>
                           ELSE Append(StillOpen(OpenAfter[k], Level(k + 1)), k + 1)
    BY <1>6, <2>1
  <2>4. CASE Level(k + 1) = 0
    <3>1. OpenAt(k + 1) = {}
      BY <2>1, <2>4, OpenSelf
    <3> QED BY <1>7, <2>1, <2>3, <2>4, <3>1
  <2>5. CASE Level(k + 1) > 0
    <3>1. IsStack(OpenAfter[k], (k + 1) - 1)
      BY <2>1, <2>2
    <3>2. IsStack(Append(StillOpen(OpenAfter[k], Level(k + 1)), k + 1), k + 1)
      BY <2>1, <2>5, <3>1, StackStep
    <3> QED BY <2>1, <2>3, <2>5, <3>2
  <2> QED BY <2>1, <2>4, <2>5
<1>10. \A k \in 0 .. n : k \in T
  <2> HIDE DEF T, n
  <2> QED BY <1>1, <1>8, <1>9, Climb
<1>11. \A i \in Nodes : IsStack(OpenAfter[i], i)
  BY <1>10 DEF Nodes
<1>12. ASSUME NEW i \in Sections, Level(i) > 0
       PROVE  OpenAfter[i] = Append(StillOpen(OpenAfter[i - 1], Level(i)), i)
  <2>1. i \in 0 .. n /\ i # 0 /\ Level(i) # 0
    BY <1>1, <1>12 DEF Sections
  <2> QED BY <1>6, <2>1
<1> QED BY <1>11, <1>12

LEMMA ParentIs ==
  ASSUME Formed, NEW i \in Sections
  PROVE  IsNearest(Parents[i], OpenAt(i) \ {i})
<1>1. i \in Nat /\ i >= 1 /\ i - 1 \in Nodes /\ Level(i) \in Nat
  BY SectionsAre
<1>2. CASE Level(i) = 0
  <2>1. Parents[i] = 0 /\ OpenAt(i) = {}
    BY <1>1, <1>2, OpenSelf DEF Parents, NoHeading
  <2> QED BY <2>1 DEF IsNearest
<1>3. CASE Level(i) > 0
  <2> DEFINE x == StillOpen(OpenAfter[i - 1], Level(i))
  <2>1. IsStack(OpenAfter[i - 1], i - 1)
    BY <1>1, StackIs
  <2>2. /\ x \in Seq(Sections)
        /\ \A j : (\E k \in 1 .. Len(x) : x[k] = j) <=> j \in OpenAt(i) \ {i}
        /\ \A a, b \in 1 .. Len(x) : a < b => x[a] < x[b]
    BY <1>3, <2>1, StackStep
  <2>3. OpenAfter[i] = Append(x, i)
    BY <1>3, StackIs
  <2> HIDE DEF x
  <2>4. Front(OpenAfter[i]) = x
    <3>1. Append(x, i) \in Seq(Sections) /\ Append(x, i) # <<>>
      BY <2>2, AppendProperties
    <3>2. /\ Front(Append(x, i)) \in Seq(Sections) /\ Last(Append(x, i)) \in Sections
          /\ Append(x, i) = Append(Front(Append(x, i)), Last(Append(x, i)))
      BY <3>1, LastOne
    <3>3. x = Front(Append(x, i))
      BY <2>2, <3>2, AppendInjective
    <3> QED BY <2>3, <3>3
  <2>5. Parents[i] = IF x = <<>> THEN 0 ELSE Last(x)
    BY <1>3, <2>4 DEF Parents, Top, NoHeading
  <2>6. CASE x = <<>>
    <3>1. OpenAt(i) \ {i} = {}
      BY <2>2, <2>6, EmptySeq
    <3> QED BY <2>5, <2>6, <3>1 DEF IsNearest
  <2>7. CASE x # <<>>
    <3>1. Len(x) \in Nat \ {0} /\ Last(x) = x[Len(x)]
      BY <2>2, <2>7, EmptySeq DEF Last
    <3>2. Len(x) \in 1 .. Len(x)
      BY <3>1
    <3>3. Last(x) \in OpenAt(i) \ {i}
      BY <2>2, <3>1, <3>2
    <3>4. ASSUME NEW t \in OpenAt(i) \ {i} PROVE t <= Last(x)
      <4>1. PICK k \in 1 .. Len(x) : x[k] = t
        BY <2>2
      <4>2. CASE k = Len(x)
        <5>1. t = Last(x) /\ t \in Nat
          BY <3>1, <4>1, <4>2, SectionsAre DEF OpenAt
        <5> QED BY <5>1
      <4>3. CASE k < Len(x)
        <5>1. x[k] < x[Len(x)]
          BY <2>2, <3>2, <4>3
        <5>2. t \in Nat /\ Last(x) \in Nat
          BY <1>1, <3>3 DEF OpenAt
        <5> QED BY <3>1, <4>1, <5>1, <5>2
      <4>4. k = Len(x) \/ k < Len(x)
        BY <3>1
      <4> QED BY <4>2, <4>3, <4>4
    <3> QED BY <2>5, <2>7, <3>3, <3>4 DEF IsNearest
  <2> QED BY <2>6, <2>7
<1> QED BY <1>1, <1>2, <1>3

\* The reference the properties use: the nearest earlier heading that is shallower.
LEMMA OverIs ==
  ASSUME Formed, NEW i \in Sections
  PROVE  IsNearest(Over(i), OpenAt(i) \ {i})
<1> DEFINE s == {j \in 1 .. i - 1 : Level(j) \in 1 .. Level(i) - 1}
<1>1. i \in Nat /\ i >= 1 /\ i \in Nodes /\ Level(i) \in Nat
  BY SectionsAre
<1>2. \A j \in 1 .. i : j \in Sections /\ Level(j) \in Nat /\ (j > 1 => Level(j) > 0)
  BY <1>1, SectionsAre
<1>3. OpenAt(i) \ {i} \subseteq s
  <2> SUFFICES ASSUME NEW j \in OpenAt(i), j # i PROVE j \in s
    OBVIOUS
  <2>1. j \in 1 .. i /\ Level(j) > 0 /\ \A k \in j + 1 .. i : Level(k) > Level(j)
    BY DEF OpenAt
  <2>2. i \in j + 1 .. i /\ j \in 1 .. i - 1
    BY <1>1, <2>1
  <2>3. Level(j) > 0 /\ Level(i) > Level(j) /\ Level(j) \in Nat
    BY <1>2, <2>1, <2>2
  <2> QED BY <1>1, <2>2, <2>3
<1>4. CASE s = {}
  BY <1>3, <1>4 DEF Over, IsNearest, NoHeading
<1>5. CASE s # {}
  <2>1. s \in SUBSET (0 .. i)
    BY <1>1
  <2>2. PICK m \in s : \A k \in s : k <= m
    <3> HIDE DEF s
    <3> QED BY <1>1, <1>5, <2>1, Greatest
  <2>3. Over(i) \in s /\ \A k \in s : k <= Over(i)
    <3>1. Over(i) = CHOOSE j \in s : \A k \in s : k <= j
      BY <1>5 DEF Over
    <3> HIDE DEF s
    <3> QED BY <2>2, <3>1
  <2> DEFINE p == Over(i)
  <2> HIDE DEF p
  <2>4. p \in s /\ \A k \in s : k <= p
    BY <2>3 DEF p
  <2>5. p \in 1 .. i - 1 /\ Level(p) > 0 /\ Level(p) < Level(i) /\ Level(p) \in Nat
    BY <1>1, <1>2, <2>4
  <2>6. ASSUME NEW k \in p + 1 .. i PROVE Level(k) > Level(p)
    <3>1. CASE k = i
      BY <2>5, <3>1, <1>1
    <3>2. CASE k # i
      <4>1. k \in 1 .. i - 1 /\ ~(k <= p) /\ k \in 1 .. i /\ k > 1
        BY <1>1, <2>5, <3>2
      <4>2. k \notin s
        BY <2>4, <4>1
      <4>3. Level(k) \in Nat /\ Level(k) > 0
        BY <1>2, <4>1
      <4>4. ~(Level(k) <= Level(i) - 1)
        BY <1>1, <4>1, <4>2, <4>3
      <4> QED BY <1>1, <2>5, <4>3, <4>4
    <3> QED BY <3>1, <3>2
  <2>7. p \in OpenAt(i) \ {i}
    BY <1>1, <2>5, <2>6 DEF OpenAt
  <2>8. \A t \in OpenAt(i) \ {i} : t <= p
    BY <1>3, <2>4
  <2> QED BY <2>7, <2>8 DEF IsNearest, p
<1> QED BY <1>4, <1>5

-----------------------------------------------------------------------------
(***************************************************************************)
(* What is computed along parents: ancestors, paths, common ancestors.     *)
(***************************************************************************)
LEMMA OneUp ==
  ASSUME Formed, NEW i \in Sections, NEW p, p = Parents[i] \/ p = Over(i)
  PROVE  /\ p \in Nodes /\ p < i /\ IsNearest(p, OpenAt(i) \ {i})
         /\ OpenAt(p) = OpenAt(i) \ {i}
         /\ p > 0 => p \in Sections /\ p \in OpenAt(i) /\ Level(p) > 0
<1>1. IsNearest(p, OpenAt(i) \ {i})
  BY ParentIs, OverIs
<1> QED BY <1>1, UpOne

LEMMA AncestorsAre ==
  ASSUME Formed, NEW i \in Nodes
  PROVE  Ancestors(i) = IF i = 0 THEN {} ELSE {i} \cup OpenAt(i)
<1> DEFINE n == Len(doc)
           f == [j \in 0 .. n |-> IF j = 0 THEN {} ELSE {j} \cup OpenAt(j)]
<1>1. n \in Nat /\ Nodes = 0 .. n /\ \A j \in 1 .. n : j \in Sections
  BY SectionsAre DEF Nodes, Sections
<1>2. ASSUME NEW j \in 1 .. n
      PROVE  Over(j) \in 0 .. n /\ Over(j) < j /\ {j} \cup OpenAt(j) = {j} \cup f[Over(j)]
  <2> DEFINE o == Over(j)
  <2>1. /\ o \in Nodes /\ o < j /\ OpenAt(o) = OpenAt(j) \ {j}
        /\ o > 0 => o \in Sections /\ Level(o) > 0
    BY <1>1, OneUp
  <2> HIDE DEF o
  <2>2. CASE o = 0
    <3>1. f[o] = {} /\ OpenAt(o) = {}
      BY <1>1, <2>1, <2>2, OpenZero
    <3> QED BY <1>1, <2>1, <3>1 DEF o
  <2>3. CASE o > 0
    <3>1. f[o] = {o} \cup OpenAt(o)
      BY <1>1, <2>1, <2>3
    <3>2. o \in OpenAt(o)
      BY <2>1, <2>3, OpenSelf
    <3>3. {j} \cup f[o] = {j} \cup OpenAt(j)
      BY <2>1, <3>1, <3>2
    <3> QED BY <1>1, <2>1, <3>3 DEF o
  <2>4. o = 0 \/ o > 0
    BY <2>1, SectionsAre
  <2> QED BY <2>2, <2>3, <2>4
<1>3. f = [j \in 0 .. Len(doc) |-> IF j = 0 THEN {} ELSE {j} \cup f[Over(j)]]
  <2>1. ASSUME NEW j \in 0 .. n PROVE f[j] = IF j = 0 THEN {} ELSE {j} \cup f[Over(j)]
    <3>1. j = 0 \/ j \in 1 .. n
      BY <1>1
    <3>2. CASE j = 0
      BY <3>2
    <3>3. CASE j \in 1 .. n
      <4>1. f[j] = {j} \cup OpenAt(j) /\ j # 0
        BY <3>3
      <4> HIDE DEF f
      <4> QED BY <1>2, <3>3, <4>1
    <3> QED BY <3>1, <3>2, <3>3
  <2> QED BY <2>1
<1>4. PICK g : /\ g = [j \in 0 .. Len(doc) |-> IF j = 0 THEN {} ELSE {j} \cup g[Over(j)]]
               /\ Ancestors(i) = g[i]
  <2> HIDE DEF f
  <2> QED BY <1>3, Zenon DEF Ancestors
<1> DEFINE T == {m \in 0 .. n : \A j \in 0 .. m : g[j] = f[j]}
<1>5. 0 \in T
  BY <1>1, <1>4
<1>6. ASSUME NEW k \in 0 .. n - 1, k \in T PROVE k + 1 \in T
  <2>1. k + 1 \in 1 .. n /\ k + 1 \in 0 .. n /\ k + 1 # 0
    BY <1>1
  <2>2. Over(k + 1) \in 0 .. k /\ Over(k + 1) \in 0 .. n
    BY <1>1, <1>2, <2>1
  <2>3. g[Over(k + 1)] = f[Over(k + 1)]
    BY <1>6, <2>2
  <2>4. g[k + 1] = {k + 1} \cup g[Over(k + 1)]
    BY <1>4, <2>1
  <2>5. f[k + 1] = {k + 1} \cup f[Over(k + 1)]
    <3> HIDE DEF f
    <3> QED BY <1>3, <2>1
  <2>6. g[k + 1] = f[k + 1]
    <3> HIDE DEF f
    <3> QED BY <2>3, <2>4, <2>5
  <2>7. ASSUME NEW j \in 0 .. k + 1 PROVE g[j] = f[j]
    <3> HIDE DEF f
    <3>1. j \in 0 .. k \/ j = k + 1
      BY <1>1
    <3> QED BY <1>6, <2>6, <3>1
  <2> QED BY <2>1, <2>7
<1>7. \A k \in 0 .. n : k \in T
  <2> HIDE DEF T, n
  <2> QED BY <1>1, <1>5, <1>6, Climb
<1>8. g[i] = f[i]
  <2>1. i \in 0 .. n /\ i \in 0 .. i
    BY <1>1
  <2>2. i \in T
    <3> HIDE DEF T, n
    <3> QED BY <1>7, <2>1
  <2> HIDE DEF f
  <2> QED BY <2>1, <2>2
<1> QED BY <1>1, <1>4, <1>8

LEMMA PathLenNat ==
  ASSUME Formed, NEW i \in Nodes
  PROVE  PathLen(i) \in Nat
<1> DEFINE n == Len(doc)
           up(j) == IF j = 0 THEN {} ELSE {j} \cup OpenAt(j)
           f == [j \in 0 .. n |-> Cardinality(up(j))]
<1>1. n \in Nat /\ Nodes = 0 .. n /\ \A j \in 1 .. n : j \in Sections /\ j \in Nat
  BY SectionsAre DEF Nodes, Sections
<1>2. ASSUME NEW j \in Nodes PROVE IsFiniteSet(up(j))
  <2>1. IsFiniteSet(1 .. n) /\ IsFiniteSet({})
    BY <1>1, FS_Interval, FS_EmptySet
  <2>2. up(j) \subseteq 1 .. n
    BY <1>1 DEF OpenAt
  <2> HIDE DEF up
  <2> QED BY <2>1, <2>2, FS_Subset
<1>3. ASSUME NEW j \in 1 .. n
      PROVE  Parents[j] \in 0 .. n /\ Parents[j] < j /\ f[j] = 1 + f[Parents[j]]
  <2> DEFINE p == Parents[j]
  <2>1. /\ p \in Nodes /\ p < j /\ OpenAt(p) = OpenAt(j) \ {j}
        /\ p > 0 => p \in Sections /\ Level(p) > 0
    BY <1>1, OneUp
  <2> HIDE DEF p
  <2>2. up(j) = up(p) \cup {j} /\ j \notin up(p)
    <3>1. CASE p = 0
      <4>1. OpenAt(j) \ {j} = {} /\ j # 0
        BY <1>1, <2>1, <3>1, OpenZero
      <4> QED BY <3>1, <4>1
    <3>2. CASE p > 0
      <4>1. p \in OpenAt(p)
        BY <2>1, <3>2, OpenSelf
      <4>2. p # 0 /\ j # 0 /\ j # p
        BY <1>1, <2>1, <3>2
      <4> QED BY <2>1, <4>1, <4>2
    <3>3. p = 0 \/ p > 0
      BY <2>1, SectionsAre
    <3> QED BY <3>1, <3>2, <3>3
  <2>3. IsFiniteSet(up(p))
    BY <1>2, <2>1
  <2>4. Cardinality(up(j)) = Cardinality(up(p)) + 1 /\ Cardinality(up(p)) \in Nat
    <3> HIDE DEF up
    <3> QED BY <2>2, <2>3, FS_AddElement, FS_CardinalityType
  <2>5. f[j] = Cardinality(up(j)) /\ f[p] = Cardinality(up(p))
    <3>1. j \in 0 .. n /\ p \in 0 .. n
      BY <1>1, <2>1
    <3> HIDE DEF up
    <3> QED BY <3>1
  <2> HIDE DEF f, up
  <2> QED BY <1>1, <2>1, <2>4, <2>5 DEF p
<1>4. f[0] = 0
  BY <1>1, FS_EmptySet
<1>5. f = [x \in 0 .. Len(doc) |-> IF x = NoHeading THEN 0 ELSE 1 + f[Parents[x]]]
  <2>1. ASSUME NEW j \in 0 .. n PROVE f[j] = IF j = NoHeading THEN 0 ELSE 1 + f[Parents[j]]
    <3>1. j = 0 \/ (j \in 1 .. n /\ j # 0)
      BY <1>1
    <3> HIDE DEF f
    <3> QED BY <1>3, <1>4, <3>1 DEF NoHeading
  <2> QED BY <2>1
<1>6. PICK g : /\ g = [x \in 0 .. Len(doc) |-> IF x = NoHeading THEN 0 ELSE 1 + g[Parents[x]]]
               /\ PathLen(i) = g[i]
  <2> HIDE DEF f
  <2> QED BY <1>5, Zenon DEF PathLen
<1> DEFINE T == {m \in 0 .. n : \A j \in 0 .. m : g[j] \in Nat}
<1>7. 0 \in T
  BY <1>1, <1>6 DEF NoHeading
<1>8. ASSUME NEW k \in 0 .. n - 1, k \in T PROVE k + 1 \in T
  <2>1. k + 1 \in 1 .. n /\ k + 1 \in 0 .. n /\ k + 1 # 0
    BY <1>1
  <2>2. Parents[k + 1] \in 0 .. k
    <3>1. Parents[k + 1] \in 0 .. n /\ Parents[k + 1] < k + 1
      <4> HIDE DEF f
      <4> QED BY <1>3, <2>1
    <3>2. k \in Nat /\ Parents[k + 1] \in Nat
      BY <1>1, <3>1
    <3> HIDE DEF n, f
    <3> QED BY <3>1, <3>2
  <2>3. g[k + 1] = 1 + g[Parents[k + 1]]
    BY <1>6, <2>1 DEF NoHeading
  <2>4. g[k + 1] \in Nat
    BY <1>8, <2>2, <2>3
  <2>5. ASSUME NEW j \in 0 .. k + 1 PROVE g[j] \in Nat
    <3>1. j \in 0 .. k \/ j = k + 1
      BY <1>1
    <3> QED BY <1>8, <2>4, <3>1
  <2> QED BY <2>1, <2>5
<1>9. \A k \in 0 .. n : k \in T
  <2> HIDE DEF T, n
  <2> QED BY <1>1, <1>7, <1>8, Climb
<1>10. i \in 0 .. n /\ i \in 0 .. i
  BY <1>1
<1>11. i \in T
  <2> HIDE DEF T, n
  <2> QED BY <1>9, <1>10
<1> QED BY <1>6, <1>10, <1>11

\* The nearest heading two sections are both under; a section and itself: it.
Meet(x, y) == IF x = y THEN x
              ELSE CHOOSE p \in Nodes : IsNearest(p, OpenAt(x) \cap OpenAt(y))

LEMMA MeetIs ==
  ASSUME Formed, NEW x \in Nodes, NEW y \in Nodes
  PROVE  /\ Meet(x, y) \in Nodes /\ Meet(x, y) = Meet(y, x)
         /\ x # y => IsNearest(Meet(x, y), OpenAt(x) \cap OpenAt(y))
         /\ \A p \in Nodes : x # y /\ IsNearest(p, OpenAt(x) \cap OpenAt(y)) => Meet(x, y) = p
<1> DEFINE T == OpenAt(x) \cap OpenAt(y)
<1>1. T \in SUBSET Sections
  BY OpenChain
<1>2. OpenAt(y) \cap OpenAt(x) = T
  OBVIOUS
<1> HIDE DEF T
<1>3. /\ \E p \in Nodes : IsNearest(p, T)
      /\ \A p, q : IsNearest(p, T) /\ IsNearest(q, T) => p = q
  BY <1>1, NearestIs
<1>4. CASE x = y
  BY <1>4 DEF Meet
<1>5. CASE x # y
  <2> DEFINE c == CHOOSE p \in Nodes : IsNearest(p, T)
  <2>1. c \in Nodes /\ IsNearest(c, T)
    BY <1>3
  <2>2. Meet(x, y) = c /\ Meet(y, x) = c
    BY <1>2, <1>5 DEF Meet, T
  <2> HIDE DEF c
  <2> QED BY <1>3, <1>5, <2>1, <2>2 DEF T
<1> QED BY <1>4, <1>5

LEMMA MeetUp ==
  ASSUME Formed, NEW x \in Sections, NEW y \in Sections, y < x
  PROVE  Meet(x, y) = Meet(Parents[x], y)
<1> DEFINE p == Parents[x]
<1>1. /\ p \in Nodes /\ p < x /\ OpenAt(p) = OpenAt(x) \ {x}
      /\ p > 0 => p \in Sections /\ p \in OpenAt(x) /\ Level(p) > 0
  BY OneUp
<1> HIDE DEF p
<1>2. x \in Nodes /\ y \in Nodes /\ x # y /\ x \in Nat /\ y \in Nat /\ y > 0
  BY SectionsAre
<1>3. OpenAt(p) \cap OpenAt(y) = OpenAt(x) \cap OpenAt(y)
  <2>1. x \notin OpenAt(y)
    BY <1>2 DEF OpenAt
  <2> QED BY <1>1, <2>1
<1>4. CASE p # y
  BY <1>1, <1>2, <1>3, <1>4, MeetIs DEF p
<1>5. CASE p = y
  <2>1. y \in OpenAt(y) /\ y \in OpenAt(x)
    BY <1>1, <1>2, <1>5, OpenSelf
  <2>2. \A t \in OpenAt(x) \cap OpenAt(y) : t <= y
    BY <1>2, OpenChain
  <2>3. IsNearest(y, OpenAt(x) \cap OpenAt(y))
    BY <2>1, <2>2 DEF IsNearest
  <2>4. Meet(x, y) = y
    BY <1>2, <2>3, MeetIs
  <2>5. Meet(p, y) = y
    BY <1>5 DEF Meet
  <2> QED BY <2>4, <2>5 DEF p
<1> QED BY <1>4, <1>5

LEMMA CommonAncestorIs ==
  ASSUME Formed, NEW a \in Nodes, NEW b \in Nodes
  PROVE  CommonAncestor(a, b) = Meet(a, b)
<1> DEFINE n == Len(doc)
           f == [p \in (0 .. n) \X (0 .. n) |-> Meet(p[1], p[2])]
<1>1. n \in Nat /\ Nodes = 0 .. n /\ \A i \in Nodes : i = 0 \/ (i \in Sections /\ i > 0)
  BY SectionsAre DEF Nodes
<1>2. ASSUME NEW x \in Nodes, NEW y \in Nodes
      PROVE  /\ x = 0 \/ y = 0 => Meet(x, y) = 0
             /\ x = y => Meet(x, y) = x
             /\ x # 0 /\ y # 0 /\ y < x =>
                  Parents[x] \in Nodes /\ Parents[x] < x /\ Meet(x, y) = Meet(Parents[x], y)
             /\ x # 0 /\ y # 0 /\ x < y =>
                  Parents[y] \in Nodes /\ Parents[y] < y /\ Meet(x, y) = Meet(x, Parents[y])
  <2>1. ASSUME x = 0 \/ y = 0 PROVE Meet(x, y) = 0
    <3>1. CASE x = y
      BY <2>1, <3>1 DEF Meet
    <3>2. CASE x # y
      <4>1. OpenAt(x) \cap OpenAt(y) = {}
        BY <2>1, OpenZero
      <4> QED BY <3>2, <4>1, MeetIs DEF IsNearest
    <3> QED BY <3>1, <3>2
  <2>2. ASSUME x # 0, y # 0, y < x
        PROVE  Parents[x] \in Nodes /\ Parents[x] < x /\ Meet(x, y) = Meet(Parents[x], y)
    <3>1. x \in Sections /\ y \in Sections
      BY <1>1, <2>2
    <3> QED BY <2>2, <3>1, OneUp, MeetUp
  <2>3. ASSUME x # 0, y # 0, x < y
        PROVE  Parents[y] \in Nodes /\ Parents[y] < y /\ Meet(x, y) = Meet(x, Parents[y])
    <3>1. x \in Sections /\ y \in Sections
      BY <1>1, <2>3
    <3>2. Parents[y] \in Nodes /\ Parents[y] < y /\ Meet(y, x) = Meet(Parents[y], x)
      BY <2>3, <3>1, OneUp, MeetUp
    <3>3. Meet(y, x) = Meet(x, y) /\ Meet(Parents[y], x) = Meet(x, Parents[y])
      BY <3>2, MeetIs
    <3> QED BY <3>2, <3>3
  <2> QED BY <2>1, <2>2, <2>3 DEF Meet
<1> DEFINE Rec(g) ==
      [p \in (0 .. Len(doc)) \X (0 .. Len(doc)) |->
          IF p[1] = NoHeading \/ p[2] = NoHeading THEN NoHeading
          ELSE IF p[1] = p[2] THEN p[1]
          ELSE IF p[1] > p[2] THEN g[<<Parents[p[1]], p[2]>>]
          ELSE g[<<p[1], Parents[p[2]]>>]]
<1>3. \A x, y \in Nodes : f[<<x, y>>] = Meet(x, y)
  BY <1>1
<1>4. f = Rec(f)
  <2>1. ASSUME NEW p \in (0 .. n) \X (0 .. n) PROVE f[p] = Rec(f)[p]
    <3>1. PICK x \in Nodes, y \in Nodes : p = <<x, y>>
      BY <1>1
    <3>2. x = 0 \/ y = 0 \/ x = y \/ (x # 0 /\ y # 0 /\ (x > y \/ x < y))
      BY <1>1
    <3>3. Rec(f)[p] = IF x = 0 \/ y = 0 THEN 0 ELSE IF x = y THEN x
                      ELSE IF x > y THEN f[<<Parents[x], y>>] ELSE f[<<x, Parents[y]>>]
      <4> HIDE DEF f
      <4> QED BY <3>1 DEF NoHeading
    <3> HIDE DEF f, Rec
    <3>4. x \in Nat /\ y \in Nat
      BY <1>1
    <3>5. f[p] = Meet(x, y)
      BY <1>3, <3>1
    <3>6. CASE x = 0 \/ y = 0
      BY <1>2, <3>3, <3>5, <3>6
    <3>7. CASE x # 0 /\ y # 0 /\ x = y
      BY <1>2, <3>3, <3>5, <3>7
    <3>8. CASE x # 0 /\ y # 0 /\ x > y
      <4>1. y < x /\ x # y
        BY <3>4, <3>8
      <4>2. Parents[x] \in Nodes /\ Meet(x, y) = Meet(Parents[x], y)
        BY <1>2, <3>8, <4>1
      <4>3. f[<<Parents[x], y>>] = Meet(Parents[x], y)
        BY <1>3, <4>2
      <4> QED BY <3>3, <3>5, <3>8, <4>1, <4>2, <4>3
    <3>9. CASE x # 0 /\ y # 0 /\ x < y
      <4>1. ~(x > y) /\ x # y
        BY <3>4, <3>9
      <4>2. Parents[y] \in Nodes /\ Meet(x, y) = Meet(x, Parents[y])
        BY <1>2, <3>9, <4>1
      <4>3. f[<<x, Parents[y]>>] = Meet(x, Parents[y])
        BY <1>3, <4>2
      <4> QED BY <3>3, <3>5, <3>9, <4>1, <4>2, <4>3
    <3> QED BY <3>2, <3>6, <3>7, <3>8, <3>9
  <2>2. /\ f = [p \in (0 .. n) \X (0 .. n) |-> f[p]]
        /\ Rec(f) = [p \in (0 .. n) \X (0 .. n) |-> Rec(f)[p]]
    OBVIOUS
  <2> HIDE DEF f, Rec
  <2> QED BY <2>1, <2>2
<1>5. PICK g : g = Rec(g) /\ CommonAncestor(a, b) = g[<<a, b>>]
  <2> HIDE DEF f
  <2> QED BY <1>4, Zenon DEF CommonAncestor
<1> DEFINE T == {m \in 0 .. n + n : \A x, y \in Nodes : x + y <= m => g[<<x, y>>] = Meet(x, y)}
<1>6. ASSUME NEW x \in Nodes, NEW y \in Nodes
      PROVE g[<<x, y>>] = IF x = 0 \/ y = 0 THEN 0 ELSE IF x = y THEN x
                    ELSE IF x > y THEN g[<<Parents[x], y>>] ELSE g[<<x, Parents[y]>>]
  <2>1. <<x, y>> \in (0 .. Len(doc)) \X (0 .. Len(doc))
    BY <1>1
  <2>2. g[<<x, y>>] = Rec(g)[<<x, y>>]
    <3> HIDE DEF Rec
    <3> QED BY <1>5
  <2> QED BY <2>1, <2>2 DEF NoHeading
<1>6a. ASSUME NEW x \in Nodes, NEW y \in Nodes, x = 0 \/ y = 0 \/ x = y
       PROVE  g[<<x, y>>] = Meet(x, y)
  <2>1. CASE x = 0 \/ y = 0
    <3>1. Meet(x, y) = 0
      BY <1>2, <2>1
    <3>2. g[<<x, y>>] = 0
      BY <1>6, <2>1
    <3> QED BY <3>1, <3>2
  <2>2. CASE x = y
    <3>1. Meet(x, y) = x
      BY <1>2, <2>2
    <3>2. g[<<x, y>>] = x
      BY <1>6, <2>2
    <3> QED BY <3>1, <3>2
  <2> QED BY <1>6a, <2>1, <2>2
<1>7. 0 \in T
  <2>1. ASSUME NEW x \in Nodes, NEW y \in Nodes, x + y <= 0
        PROVE  g[<<x, y>>] = Meet(x, y)
    <3>1. x = 0
      BY <1>1, <2>1
    <3> QED BY <1>6a, <3>1
  <2>2. 0 \in 0 .. n + n
    BY <1>1
  <2> QED BY <2>1, <2>2
<1>8. ASSUME NEW k \in 0 .. n + n - 1, k \in T PROVE k + 1 \in T
  <2>1. ASSUME NEW x \in Nodes, NEW y \in Nodes, x + y <= k + 1
        PROVE  g[<<x, y>>] = Meet(x, y)
    <3>0. x \in Nat /\ y \in Nat /\ k \in Nat
      BY <1>1
    <3>1. CASE x = 0 \/ y = 0 \/ x = y
      BY <1>6a, <3>1
    <3>2. CASE x # 0 /\ y # 0 /\ x > y
      <4>1. Parents[x] \in Nodes /\ Parents[x] < x /\ Meet(x, y) = Meet(Parents[x], y)
        BY <1>2, <3>0, <3>2
      <4>2. Parents[x] \in Nat
        BY <1>1, <4>1
      <4>3. Parents[x] + y <= k
        BY <2>1, <3>0, <4>1, <4>2
      <4>4. g[<<Parents[x], y>>] = Meet(Parents[x], y)
        BY <1>8, <4>1, <4>3
      <4>5. x # y
        BY <3>0, <3>2
      <4> QED BY <1>6, <3>2, <4>1, <4>4, <4>5
    <3>3. CASE x # 0 /\ y # 0 /\ x < y
      <4>1. Parents[y] \in Nodes /\ Parents[y] < y /\ Meet(x, y) = Meet(x, Parents[y])
        BY <1>2, <3>0, <3>3
      <4>2. Parents[y] \in Nat
        BY <1>1, <4>1
      <4>3. x + Parents[y] <= k
        BY <2>1, <3>0, <4>1, <4>2
      <4>4. g[<<x, Parents[y]>>] = Meet(x, Parents[y])
        BY <1>8, <4>1, <4>3
      <4>5. x # y /\ ~(x > y)
        BY <3>0, <3>3
      <4> QED BY <1>6, <3>3, <4>1, <4>4, <4>5
    <3> QED BY <3>0, <3>1, <3>2, <3>3
  <2>2. k + 1 \in 0 .. n + n
    BY <1>1
  <2> QED BY <2>1, <2>2
<1>9. a + b \in 0 .. n + n /\ n + n \in Nat
  BY <1>1
<1>10. a + b \in T
  <2>1. \A k \in 0 .. n + n : k \in T
    <3> DEFINE N == n + n
    <3>1. \A k \in 0 .. N - 1 : k \in T => k + 1 \in T
      BY <1>8
    <3> HIDE DEF T, N, n
    <3> QED BY <1>7, <1>9, <3>1, Climb DEF N
  <2> HIDE DEF T, n
  <2> QED BY <1>9, <2>1
<1>11. a + b <= a + b
  BY <1>1
<1> QED BY <1>5, <1>10, <1>11
\* A heading's range holds the sections under it.
LEMMA SubtreeEndIs ==
  ASSUME Formed, NEW i \in Sections, NEW h \in OpenAt(i)
  PROVE  i \in h .. SubtreeEnd(h)
<1> DEFINE popping == {j \in Sections : j > h /\ ~Contains(OpenAfter[j], h)}
           m == CHOOSE j \in popping : \A k \in popping : j <= k
<1>1. /\ i \in Nodes /\ h \in Sections /\ h <= i /\ Len(doc) \in Nat /\ i <= Len(doc)
      /\ popping \in SUBSET (0 .. Len(doc)) /\ i \in Int /\ h \in Int
  <2>1. i \in Nodes
    BY SectionsAre
  <2>2. h \in Sections /\ h <= i
    BY <2>1, OpenChain
  <2> QED BY <2>1, <2>2, SectionsAre DEF Sections, Nodes
<1>2. SubtreeEnd(h) = IF popping = {} THEN Len(doc) ELSE m - 1
  BY DEF SubtreeEnd
<1>3. ASSUME popping # {} PROVE m \in popping
  <2> HIDE DEF popping
  <2>1. \E j \in popping : \A k \in popping : j <= k
    BY <1>1, <1>3, Least
  <2> QED BY <2>1
<1>4. ASSUME NEW j \in popping, j <= i PROVE FALSE
  <2>1. j \in Sections /\ j \in Nodes /\ j > h /\ ~Contains(OpenAfter[j], h) /\ j \in Int
    BY SectionsAre
  <2>2. h \in OpenAt(j)
    BY <1>1, <1>4, <2>1 DEF OpenAt
  <2>3. IsStack(OpenAfter[j], j)
    BY <2>1, StackIs
  <2>4. \E k \in 1 .. Len(OpenAfter[j]) : OpenAfter[j][k] = h
    BY <2>2, <2>3 DEF IsStack
  <2> QED BY <2>1, <2>4 DEF Contains
<1>5. CASE popping = {}
  BY <1>1, <1>2, <1>5
<1>6. CASE popping # {}
  <2>1. m \in popping /\ m \in Int
    BY <1>1, <1>3, <1>6
  <2>2. ~(m <= i)
    BY <1>4, <2>1
  <2> HIDE DEF m, popping
  <2> QED BY <1>1, <1>2, <1>6, <2>1, <2>2
<1> QED BY <1>5, <1>6
-----------------------------------------------------------------------------
(***************************************************************************)
(* Chunks: the sections they are of, and what joining them keeps.          *)
(***************************************************************************)
LEMMA UnderIs ==
  ASSUME NEW c \in RawChunk
  PROVE  /\ \A i : i \in Under(c) <=> \E m \in 1 .. Len(c.pieces) : c.pieces[m][1] = i
         /\ \A i : i \in Leading(c) <=>
               \E m \in 1 .. Len(c.pieces) : c.pieces[m][1] = i /\ c.pieces[m][2] = 1
<1>1. c.pieces \in Seq(Piece) /\ DOMAIN c.pieces = 1 .. Len(c.pieces)
  BY DEF RawChunk
<1>2. \A q : q \in Range(c.pieces) <=> \E m \in 1 .. Len(c.pieces) : c.pieces[m] = q
  BY <1>1 DEF Range
<1> QED BY <1>2 DEF Under, Leading

LEMMA PiecesJoined ==
  ASSUME NEW c \in RawChunk, NEW d \in RawChunk
  PROVE  LET e == Joined(c, d) IN
         /\ e.pieces \in Seq(Piece) /\ Len(e.pieces) = Len(c.pieces) + Len(d.pieces)
         /\ Len(c.pieces) \in Nat /\ Len(d.pieces) \in Nat
         /\ \A m \in 1 .. Len(c.pieces) : e.pieces[m] = c.pieces[m]
         /\ \A m \in 1 .. Len(d.pieces) : e.pieces[Len(c.pieces) + m] = d.pieces[m]
         /\ \A m \in 1 .. Len(e.pieces) : m \in 1 .. Len(c.pieces) \/
               (m - Len(c.pieces) \in 1 .. Len(d.pieces) /\
                e.pieces[m] = d.pieces[m - Len(c.pieces)])
<1>1. c.pieces \in Seq(Piece) /\ d.pieces \in Seq(Piece)
  BY DEF RawChunk
<1>2. Joined(c, d).pieces = c.pieces \o d.pieces
  BY DEF Joined
<1> DEFINE s == c.pieces
           t == d.pieces
           u == Joined(c, d).pieces
<1> HIDE DEF s, t, u
<1>3. s \in Seq(Piece) /\ t \in Seq(Piece) /\ u = s \o t
  BY <1>1, <1>2 DEF s, t, u
<1>4. /\ u \in Seq(Piece) /\ Len(u) = Len(s) + Len(t)
      /\ Len(s) \in Nat /\ Len(t) \in Nat
  BY <1>3
<1>5. \A m \in 1 .. Len(s) : u[m] = s[m]
  BY <1>3, <1>4
<1>6. \A m \in 1 .. Len(t) : u[Len(s) + m] = t[m]
  BY <1>3, <1>4
<1>7. ASSUME NEW m \in 1 .. Len(u), m \notin 1 .. Len(s)
      PROVE  m - Len(s) \in 1 .. Len(t) /\ u[m] = t[m - Len(s)]
  <2>1. m - Len(s) \in 1 .. Len(t) /\ Len(s) + (m - Len(s)) = m
    BY <1>4, <1>7
  <2> QED BY <1>6, <2>1
<1> QED BY <1>4, <1>5, <1>6, <1>7 DEF s, t, u

LEMMA UnderJoined ==
  ASSUME NEW c \in RawChunk, NEW d \in RawChunk, Joined(c, d) \in RawChunk
  PROVE  /\ Under(Joined(c, d)) = Under(c) \cup Under(d)
         /\ Leading(Joined(c, d)) = Leading(c) \cup Leading(d)
<1> DEFINE e == Joined(c, d)
           n == Len(c.pieces)
<1>1. /\ n \in Nat /\ Len(d.pieces) \in Nat /\ Len(e.pieces) = n + Len(d.pieces)
      /\ \A m \in 1 .. n : e.pieces[m] = c.pieces[m]
      /\ \A m \in 1 .. Len(d.pieces) : e.pieces[n + m] = d.pieces[m]
      /\ \A m \in 1 .. Len(e.pieces) : m \in 1 .. n \/
            (m - n \in 1 .. Len(d.pieces) /\ e.pieces[m] = d.pieces[m - n])
  BY PiecesJoined
<1>2. \A q : (\E m \in 1 .. Len(e.pieces) : e.pieces[m] = q) <=>
             \/ \E m \in 1 .. n : c.pieces[m] = q
             \/ \E m \in 1 .. Len(d.pieces) : d.pieces[m] = q
  <2> TAKE q
  <2> HIDE DEF e, n
  <2>1. ASSUME NEW m \in 1 .. n PROVE m \in 1 .. Len(e.pieces)
    BY <1>1
  <2>2. ASSUME NEW m \in 1 .. Len(d.pieces) PROVE n + m \in 1 .. Len(e.pieces)
    BY <1>1
  <2> HIDE DEF e, n
  <2> QED BY <1>1, <2>1, <2>2
<1>3. \A q : q \in Range(e.pieces) <=> q \in Range(c.pieces) \cup Range(d.pieces)
  <2>1. /\ DOMAIN e.pieces = 1 .. Len(e.pieces)
        /\ DOMAIN c.pieces = 1 .. Len(c.pieces) /\ DOMAIN d.pieces = 1 .. Len(d.pieces)
    BY DEF RawChunk
  <2> HIDE DEF e
  <2> QED BY <1>2, <2>1 DEF Range
<1>4. Range(e.pieces) = Range(c.pieces) \cup Range(d.pieces)
  BY <1>3
<1> HIDE DEF e
<1>5. Under(e) = Under(c) \cup Under(d)
  BY <1>4 DEF Under
<1>6. Leading(e) = Leading(c) \cup Leading(d)
  BY <1>4 DEF Leading
<1> QED BY <1>5, <1>6 DEF e

\* The section of a chunk is under exactly the headings its pieces share, and
\* its breadcrumb under exactly those of them whose line it does not hold.
Attributed(c) ==
  /\ c.section \in Nodes /\ c.crumb \in Nodes
  /\ Under(c) \subseteq Sections
  /\ \A h : h \in OpenAt(c.section) <=> \A i \in Under(c) : h \in OpenAt(i)
  /\ c.section > 0 /\ Level(c.section) = 0 => Under(c) = {c.section}
  /\ config.isolate => Under(c) = {c.section}
  /\ c.crumb > 0 => \A i \in Under(c) : c.crumb \in OpenAt(i)
  /\ c.crumb > 0 => \A i \in Leading(c) : i \notin OpenAt(c.crumb)
  /\ \A h : h \in OpenAt(c.crumb) <=> h \notin Leading(c) /\ \A i \in Under(c) : h \in OpenAt(i)

LEMMA MeetOpen ==
  ASSUME Formed, NEW x \in Nodes, NEW y \in Nodes
  PROVE  /\ OpenAt(Meet(x, y)) = OpenAt(x) \cap OpenAt(y)
         /\ x # y /\ Meet(x, y) > 0 => Level(Meet(x, y)) > 0
<1> DEFINE z == Meet(x, y)
           T == OpenAt(x) \cap OpenAt(y)
<1>1. CASE x = y
  BY <1>1 DEF Meet
<1>2. CASE x # y
  <2>1. z \in Nodes /\ IsNearest(z, T)
    BY <1>2, MeetIs
  <2> HIDE DEF z
  <2>2. CASE T = {}
    <3>1. z = 0 /\ OpenAt(0) = {}
      BY <2>1, <2>2, OpenZero DEF IsNearest
    <3> QED BY <2>2, <3>1 DEF z
  <2>3. CASE T # {}
    <3>1. z \in OpenAt(x) /\ z \in OpenAt(y) /\ \A t \in T : t <= z
      BY <2>1, <2>3 DEF IsNearest
    <3>2. /\ OpenAt(z) = {h \in OpenAt(x) : h <= z} /\ Level(z) > 0
          /\ OpenAt(z) = {h \in OpenAt(y) : h <= z}
      BY <3>1, OpenChain
    <3>3. OpenAt(z) = T
      <4> HIDE DEF T
      <4>1. \A t \in OpenAt(z) : t \in OpenAt(x) /\ t \in OpenAt(y)
        BY <3>2
      <4>2. \A t \in T : t \in OpenAt(z)
        BY <3>1, <3>2 DEF T
      <4> QED BY <4>1, <4>2 DEF T
    <3> QED BY <3>2, <3>3 DEF z
  <2> QED BY <2>2, <2>3
<1> QED BY <1>1, <1>2

LEMMA AttributedJoined ==
  ASSUME Formed, NEW c \in RawChunk, NEW d \in RawChunk, Joined(c, d) \in RawChunk,
         Attributed(c), Attributed(d), config.isolate => c.section = d.section
  PROVE  Attributed(Joined(c, d))
<1> DEFINE e == Joined(c, d)
<1>1. /\ c.section \in Nodes /\ d.section \in Nodes
      /\ c.crumb \in Nodes /\ d.crumb \in Nodes
  BY DEF Attributed
<1>2. e.section = Meet(c.section, d.section) /\ e.crumb = Meet(c.crumb, d.crumb)
  <2>1. \A x, y \in Nodes : CommonAncestor(x, y) = Meet(x, y)
    BY CommonAncestorIs
  <2>2. c.section = d.section => Meet(c.section, d.section) = c.section
    BY DEF Meet
  <2>3. /\ e.section = MergeSections(c.section, d.section)
        /\ e.crumb = CommonAncestor(c.crumb, d.crumb)
    BY DEF Joined
  <2> HIDE DEF e
  <2> QED BY <1>1, <2>1, <2>2, <2>3 DEF MergeSections
<1>3. Under(e) = Under(c) \cup Under(d) /\ Leading(e) = Leading(c) \cup Leading(d)
  BY UnderJoined
<1> HIDE DEF e
<1>4. e.section \in Nodes /\ e.crumb \in Nodes
  <2>1. \A x, y \in Nodes : Meet(x, y) \in Nodes
    BY MeetIs
  <2> QED BY <1>1, <1>2, <2>1
<1>5. /\ OpenAt(e.section) = OpenAt(c.section) \cap OpenAt(d.section)
      /\ OpenAt(e.crumb) = OpenAt(c.crumb) \cap OpenAt(d.crumb)
  BY <1>1, <1>2, MeetOpen
<1>6. \A h : h \in OpenAt(e.section) <=> \A i \in Under(e) : h \in OpenAt(i)
  BY <1>3, <1>5 DEF Attributed
<1>7. c.section = d.section => e.section = c.section
  BY <1>2 DEF Meet
<1>8. ASSUME e.section > 0, Level(e.section) = 0 PROVE Under(e) = {e.section}
  <2>1. c.section = d.section
    BY <1>1, <1>2, <1>8, MeetOpen, MeetIs, SectionsAre
  <2> QED BY <1>3, <1>7, <1>8, <2>1 DEF Attributed
<1>9. config.isolate => Under(e) = {e.section}
  BY <1>3, <1>7 DEF Attributed
<1>10. ASSUME e.crumb > 0
       PROVE  /\ c.crumb > 0 /\ d.crumb > 0 /\ e.crumb \in OpenAt(c.crumb)
              /\ e.crumb \in OpenAt(d.crumb)
  <2>1. e.crumb \in Sections /\ e.crumb # 0
    BY <1>4, <1>10, SectionsAre
  <2>2. c.crumb # 0 /\ d.crumb # 0
    <3>1. CASE c.crumb = d.crumb
      BY <1>2, <2>1, <3>1 DEF Meet
    <3>2. CASE c.crumb # d.crumb
      <4>1. IsNearest(e.crumb, OpenAt(c.crumb) \cap OpenAt(d.crumb))
        BY <1>1, <1>2, <3>2, MeetIs
      <4> QED BY <2>1, <4>1, OpenZero DEF IsNearest
    <3> QED BY <3>1, <3>2
  <2>3. c.crumb \in Sections /\ c.crumb > 0 /\ d.crumb > 0
    BY <1>1, <2>2, SectionsAre
  <2>4. CASE c.crumb = d.crumb
    <3>1. e.crumb = c.crumb
      BY <1>2, <2>4 DEF Meet
    <3>2. \E i : i \in Under(c)
      <4>1. ASSUME Under(c) = {} PROVE FALSE
        <5>1. \A h : h \in OpenAt(c.section)
          BY <4>1 DEF Attributed
        <5>2. 0 \in OpenAt(c.section)
          BY <5>1
        <5> QED BY <1>1, <5>2, SectionsAre DEF OpenAt
      <4> QED BY <4>1
    <3>3. PICK i : i \in Under(c)
      BY <3>2
    <3>4. c.crumb \in OpenAt(i)
      BY <2>3, <3>3 DEF Attributed
    <3>5. Level(c.crumb) > 0
      BY <3>4 DEF OpenAt
    <3> QED BY <2>3, <2>4, <3>1, <3>5, OpenSelf
  <2>5. CASE c.crumb # d.crumb
    <3>1. IsNearest(e.crumb, OpenAt(c.crumb) \cap OpenAt(d.crumb))
      BY <1>1, <1>2, <2>5, MeetIs
    <3> QED BY <2>1, <2>3, <3>1 DEF IsNearest
  <2> QED BY <2>3, <2>4, <2>5
<1>11. ASSUME e.crumb > 0, NEW i \in Under(e), i \in Nodes PROVE e.crumb \in OpenAt(i)
  <2>1. c.crumb \in OpenAt(i) \/ d.crumb \in OpenAt(i)
    BY <1>3, <1>10, <1>11 DEF Attributed
  <2>2. OpenAt(c.crumb) \subseteq OpenAt(i) \/ OpenAt(d.crumb) \subseteq OpenAt(i)
    BY <1>11, <2>1, OpenChain
  <2>3. e.crumb \in OpenAt(c.crumb) /\ e.crumb \in OpenAt(d.crumb)
    BY <1>10, <1>11
  <2> QED BY <2>2, <2>3
<1>12. Under(e) \subseteq Sections /\ Under(e) \subseteq Nodes
  BY <1>3, SectionsAre DEF Attributed
<1>13. ASSUME e.crumb > 0, NEW i \in Leading(e) PROVE i \notin OpenAt(e.crumb)
  BY <1>3, <1>5, <1>10, <1>13 DEF Attributed
<1>14. \A h : h \in OpenAt(e.crumb) <=>
               h \notin Leading(e) /\ \A i \in Under(e) : h \in OpenAt(i)
  BY <1>3, <1>5 DEF Attributed
<1> QED BY <1>4, <1>6, <1>8, <1>9, <1>11, <1>12, <1>13, <1>14 DEF Attributed, e

LEMMA AttributedAlone ==
  ASSUME Formed, NEW c \in RawChunk, NEW i \in Sections, c.section = i, Under(c) = {i},
         \/ c.crumb = LeadingCrumb(i) /\ Leading(c) = {i}
         \/ c.crumb = ContinuationCrumb(i) /\ Leading(c) = {}
  PROVE  Attributed(c)
<1>1. i \in Nodes /\ 0 \in Nodes
  BY SectionsAre DEF Nodes
<1>2. CASE c.crumb = LeadingCrumb(i) /\ Leading(c) = {i}
  <2>1. /\ c.crumb \in Nodes /\ OpenAt(c.crumb) = OpenAt(i) \ {i}
        /\ c.crumb > 0 => c.crumb \in OpenAt(i)
    BY <1>2, OneUp DEF LeadingCrumb
  <2> QED BY <1>1, <1>2, <2>1 DEF Attributed
<1>3. CASE c.crumb = ContinuationCrumb(i) /\ Leading(c) = {}
  <2>1. CASE Level(i) = 0
    <3>1. OpenAt(i) = {} /\ OpenAt(0) = {}
      BY <2>1, OpenSelf, OpenZero
    <3>2. c.crumb = 0 /\ Leading(c) = {}
      BY <1>3, <2>1 DEF ContinuationCrumb, NoHeading
    <3> QED BY <1>1, <3>1, <3>2 DEF Attributed
  <2>2. CASE Level(i) # 0
    <3>1. Level(i) > 0
      BY <2>2, SectionsAre
    <3>2. i \in OpenAt(i)
      BY <3>1, OpenSelf
    <3> QED BY <1>1, <1>3, <2>2, <3>2 DEF Attributed, ContinuationCrumb
  <2> QED BY <2>1, <2>2
<1> QED BY <1>2, <1>3

LEMMA WholeSectionIs ==
  ASSUME Formed, NEW i \in Sections
  PROVE  /\ WholeSection(i) \in RawChunk /\ WholeSection(i).pieces # <<>>
         /\ Attributed(WholeSection(i)) /\ Under(WholeSection(i)) = {i}
<1> DEFINE w == WholeSection(i)
<1>1. /\ w.pieces = [k \in 1 .. Len(Pieces(i)) |-> <<i, k>>] /\ w.size = SectionSize(i)
      /\ w.lead = doc[i].lead /\ w.trail = doc[i].trail
      /\ w.crumb = LeadingCrumb(i) /\ w.section = i
      /\ w = [pieces |-> w.pieces, lead |-> w.lead, size |-> w.size, trail |-> w.trail,
              crumb |-> w.crumb, section |-> w.section]
  BY DEF WholeSection
<1>2. Len(Pieces(i)) \in Nat \ {0}
  BY DEF Formed
<1> HIDE DEF w
<1>3. /\ w.pieces \in Seq(Piece) /\ Len(w.pieces) = Len(Pieces(i))
      /\ \A m \in 1 .. Len(w.pieces) : w.pieces[m] = <<i, m>>
  <2>1. w.pieces \in Seq(Piece)
    BY <1>1, <1>2, SectionsAre DEF Piece
  <2> QED BY <1>1, <1>2, <2>1
<1>4. /\ w.size \in Nat /\ i \in Nat /\ w.crumb \in Nat
      /\ w.lead \in 0 .. MaxBlank /\ w.trail \in 0 .. MaxBlank
  BY <1>1, SectionSizeNat, OneUp, SectionsAre DEF LeadingCrumb, Formed
<1>5. w \in RawChunk
  BY <1>1, <1>3, <1>4 DEF RawChunk
<1>6. 1 \in 1 .. Len(w.pieces)
  BY <1>2, <1>3
<1>7. Under(w) = {i} /\ Leading(w) = {i}
  <2>1. \A j : j \in Under(w) <=> j = i
    BY <1>3, <1>5, <1>6, UnderIs
  <2>2. \A j : j \in Leading(w) <=> j = i
    BY <1>3, <1>5, <1>6, UnderIs
  <2> QED BY <2>1, <2>2
<1>8. Attributed(w)
  BY <1>1, <1>5, <1>7, AttributedAlone
<1> QED BY <1>5, <1>6, <1>7, <1>8 DEF w

LEMMA FragmentIs ==
  ASSUME Formed, NEW i \in Sections, NEW k \in 1 .. Len(Pieces(i))
  PROVE  /\ Fragment(i, k) \in RawChunk /\ Fragment(i, k).pieces = << <<i, k>> >>
         /\ Fragment(i, k).size <= Width * EffectiveMax /\ Fragment(i, k).section = i
         /\ Fragment(i, k).lead = 0 /\ Fragment(i, k).trail = 0
         /\ Attributed(Fragment(i, k)) /\ Under(Fragment(i, k)) = {i}
<1> DEFINE w == Fragment(i, k)
<1>1. /\ w.pieces = << <<i, k>> >> /\ w.size = Pieces(i)[k] /\ w.section = i
      /\ w.lead = 0 /\ w.trail = 0
      /\ w.crumb = IF k = 1 THEN LeadingCrumb(i) ELSE ContinuationCrumb(i)
      /\ w = [pieces |-> w.pieces, lead |-> w.lead, size |-> w.size, trail |-> w.trail,
              crumb |-> w.crumb, section |-> w.section]
  BY DEF Fragment
<1>2. /\ Len(Pieces(i)) \in Nat \ {0} /\ w.size \in Nat /\ w.size <= Width * EffectiveMax
      /\ i \in Nat /\ k \in Nat /\ w.lead \in 0 .. MaxBlank /\ w.trail \in 0 .. MaxBlank
  BY <1>1, SectionsAre, LengthsAssumption DEF Formed
<1> HIDE DEF w
<1>3. w.pieces \in Seq(Piece) /\ Len(w.pieces) = 1 /\ w.pieces[1] = <<i, k>>
  BY <1>1, <1>2 DEF Piece
<1>4. w.crumb \in Nat
  <2>1. Parents[i] \in Nat
    BY OneUp, SectionsAre
  <2> QED BY <1>1, <1>2, <2>1 DEF LeadingCrumb, ContinuationCrumb, NoHeading
<1>5. w \in RawChunk
  BY <1>1, <1>2, <1>3, <1>4 DEF RawChunk
<1>6. \A m \in 1 .. Len(w.pieces) : m = 1
  BY <1>3
<1>7. Under(w) = {i} /\ (IF k = 1 THEN Leading(w) = {i} ELSE Leading(w) = {})
  <2>1. \A j : j \in Under(w) <=> j = i
    BY <1>3, <1>5, <1>6, UnderIs
  <2>2. \A j : j \in Leading(w) <=> j = i /\ k = 1
    BY <1>3, <1>5, <1>6, UnderIs
  <2> QED BY <2>1, <2>2
<1>8. Attributed(w)
  <2>1. \/ w.crumb = LeadingCrumb(i) /\ Leading(w) = {i}
        \/ w.crumb = ContinuationCrumb(i) /\ Leading(w) = {}
    BY <1>1, <1>7
  <2> QED BY <1>1, <1>5, <1>7, <2>1, AttributedAlone
<1> QED BY <1>1, <1>2, <1>5, <1>7, <1>8 DEF w

\* What that says of a chunk is what the property says of it.
LEMMA AttributedSays ==
  ASSUME Formed, NEW c \in RawChunk, Attributed(c)
  PROVE  LET common == CommonHeadings(c)
             over == common \ Leading(c)
         IN /\ config.isolate => Under(c) = {c.section}
            /\ IF common = {}
               THEN c.section = NoHeading \/ (Under(c) = {c.section} /\ Level(c.section) = 0)
               ELSE /\ Deepest(c.section, common)
                    /\ Under(c) \subseteq c.section .. SubtreeEnd(c.section)
            /\ IF over = {} THEN c.crumb = NoHeading ELSE Deepest(c.crumb, over)
            /\ c.crumb # NoHeading => Ancestors(c.crumb) \cap Leading(c) = {}
<1> DEFINE common == CommonHeadings(c)
           s == c.section
<1>1. /\ s \in Nodes /\ c.crumb \in Nodes /\ Under(c) \subseteq Sections
      /\ \A h : h \in OpenAt(s) <=> \A i \in Under(c) : h \in OpenAt(i)
      /\ s > 0 /\ Level(s) = 0 => Under(c) = {s}
      /\ config.isolate => Under(c) = {s}
      /\ c.crumb > 0 => \A i \in Under(c) : c.crumb \in OpenAt(i)
      /\ c.crumb > 0 => \A i \in Leading(c) : i \notin OpenAt(c.crumb)
      /\ \A h : h \in OpenAt(c.crumb) <=>
               h \notin Leading(c) /\ \A i \in Under(c) : h \in OpenAt(i)
  BY DEF Attributed
<1>2. ASSUME NEW i \in Sections, NEW h \in Sections, Level(h) > 0
      PROVE  h \in Ancestors(i) <=> h \in OpenAt(i)
  <2>1. i \in Nodes /\ i # 0
    BY SectionsAre
  <2>2. Ancestors(i) = {i} \cup OpenAt(i)
    BY <2>1, AncestorsAre
  <2>3. h = i => h \in OpenAt(i)
    BY <1>2, OpenSelf
  <2> QED BY <2>2, <2>3
<1>3. \A h \in OpenAt(s) : h \in Sections /\ Level(h) > 0 /\ h <= s
  BY <1>1, OpenChain
<1>4. common = OpenAt(s)
  <2>1. ASSUME NEW h \in common PROVE h \in OpenAt(s)
    BY <1>1, <1>2 DEF CommonHeadings
  <2>2. ASSUME NEW h \in OpenAt(s) PROVE h \in common
    BY <1>1, <1>2, <1>3 DEF CommonHeadings
  <2> QED BY <2>1, <2>2
<1> HIDE DEF common, s
<1>5. ASSUME common = {}
      PROVE  s = NoHeading \/ (Under(c) = {s} /\ Level(s) = 0)
  <2>1. s = 0 \/ (s > 0 /\ Level(s) = 0)
    <3>1. s = 0 \/ (s \in Sections /\ s \in Nat /\ s > 0 /\ Level(s) \in Nat)
      <4>1. s = 0 \/ s \in Sections
        BY <1>1, SectionsAre
      <4> QED BY <4>1, SectionsAre
    <3>2. s \in Sections /\ Level(s) > 0 => s \in OpenAt(s)
      <4> QED BY OpenSelf
    <3> QED BY <1>4, <1>5, <3>1, <3>2
  <2> QED BY <1>1, <1>5, <2>1 DEF NoHeading
<1>6. ASSUME common # {}
      PROVE  s \in common /\ (\A h \in common : h <= s) /\ Under(c) \subseteq s .. SubtreeEnd(s)
  <2>1. s \in Sections
    BY <1>1, <1>4, <1>6, OpenZero, SectionsAre
  <2>2. s \in OpenAt(s)
    BY <1>4, <1>6, <2>1, OpenSelf, SectionsAre
  <2>3. ASSUME NEW i \in Under(c) PROVE i \in s .. SubtreeEnd(s)
    <3>1. i \in Sections /\ s \in OpenAt(i)
      BY <1>1, <2>2
    <3> QED BY <3>1, SubtreeEndIs
  <2> QED BY <1>3, <1>4, <1>6, <2>2, <2>3
<1>7. ASSUME c.crumb # NoHeading
      PROVE  /\ c.crumb \in OpenAt(c.crumb) /\ \A h \in OpenAt(c.crumb) : h <= c.crumb
             /\ Ancestors(c.crumb) \cap Leading(c) = {}
  <2>1. c.crumb > 0 /\ c.crumb # 0
    BY <1>1, <1>7, SectionsAre DEF NoHeading
  <2>2. c.crumb \in OpenAt(s)
    BY <1>1, <2>1
  <2>3. c.crumb \in Sections /\ Level(c.crumb) > 0
    BY <1>3, <2>2
  <2>4. c.crumb \in OpenAt(c.crumb)
    BY <2>3, OpenSelf
  <2>5. Ancestors(c.crumb) = {c.crumb} \cup OpenAt(c.crumb)
    BY <1>1, <2>1, AncestorsAre
  <2>6. \A h \in OpenAt(c.crumb) : h <= c.crumb
    BY <1>1, OpenChain
  <2> QED BY <1>1, <2>1, <2>4, <2>5, <2>6
<1>8. common \ Leading(c) = OpenAt(c.crumb)
  BY <1>1, <1>4
<1>9. c.crumb = NoHeading => OpenAt(c.crumb) = {}
  BY OpenZero DEF NoHeading
<1>10. IF common \ Leading(c) = {} THEN c.crumb = NoHeading
       ELSE Deepest(c.crumb, common \ Leading(c))
  BY <1>7, <1>8, <1>9 DEF Deepest
<1>11. common # {} => Deepest(s, common)
  BY <1>6 DEF Deepest
<1> QED BY <1>1, <1>5, <1>6, <1>7, <1>10, <1>11 DEF common, s

\* A chunk's text is within the size left for it, but for what its last joint,
\* characters of several bytes and a cut section add; the fragments of a cut
\* section are trimmed.
Bounded(c) ==
  /\ c.size <= Longest(c)
  /\ \A i : Under(c) = {i} /\ Oversized(i) => c.lead = 0 /\ c.trail = 0

\* The breadcrumb is within its reserve.
LEMMA PrefixFits ==
  ASSUME Formed, config \in Configs, NEW c, Attributed(c)
  PROVE  PrefixSize(c) \in Nat /\ PrefixSize(c) <= Width * HeadingReserve
<1> DEFINE path == PathLen(c.crumb)
           budget == Monus(HeadingReserve, 2)
           long == path * HeadingText + 3 * (path - 1)
           n == Lesser(long, budget)
<1>1. HeadingReserve \in Nat /\ HeadingReserve <= MaxPath
  <2>1. config.max \div 4 \in Nat
    BY ConfigsAssumption
  <2> QED BY <2>1, LengthsAssumption DEF HeadingReserve, Reserve, Lesser
<1>2. path \in Nat
  BY PathLenNat DEF Attributed
<1>3. /\ budget \in Nat /\ (budget # 0 => budget + 2 = HeadingReserve)
      /\ budget <= HeadingReserve
  BY <1>1 DEF Monus
<1>4. path # 0 => long \in Nat
  BY <1>2, LengthsAssumption
<1>5. PrefixSize(c) = IF ~config.prepend \/ path = 0 \/ budget = 0 THEN 0
                      ELSE CrumbBytes[n] + 2
  BY DEF PrefixSize
<1>6. path # 0 => n \in Nat /\ n <= budget
  <2> HIDE DEF long, budget, path
  <2> QED BY <1>3, <1>4 DEF Lesser
<1> HIDE DEF path, budget, long, n
<1>7. Width * HeadingReserve \in Nat
  BY <1>1, WideIs
<1>8. CASE ~config.prepend \/ path = 0 \/ budget = 0
  BY <1>5, <1>7, <1>8
<1>9. CASE ~(~config.prepend \/ path = 0 \/ budget = 0)
  <2>1. n \in Nat /\ n <= budget /\ budget + 2 = HeadingReserve
    BY <1>3, <1>6, <1>9
  <2>2. n \in 0 .. MaxPath
    BY <1>1, <1>3, <2>1, LengthsAssumption
  <2>3. CrumbBytes[n] \in Nat /\ CrumbBytes[n] <= Width * n
    BY <2>2, CrumbBytesAssumption
  <2>4. Width * n <= Width * budget /\ Width * n \in Nat /\ Width * budget \in Nat
    BY <1>3, <2>1, WideIs
  <2>5. Width * budget + 2 <= Width * HeadingReserve
    BY <1>1, <1>3, <2>1, WideIs
  <2>6. PrefixSize(c) = CrumbBytes[n] + 2
    BY <1>5, <1>9
  <2> QED BY <1>7, <2>3, <2>4, <2>5, <2>6
<1> QED BY <1>8, <1>9

\* What the parts of the bound are.
LEMMA LongestIs ==
  ASSUME Formed, config \in Configs, NEW c
  PROVE  /\ EffectiveMax \in Nat /\ Width * EffectiveMax \in Nat
         /\ EffectiveMax <= Width * EffectiveMax
         /\ MinMerge - 1 + Sep \in Nat /\ MinMerge \in Nat /\ Sep \in Nat
         /\ MaxBlank \in Nat /\ 2 * MaxBlank \in Nat
         /\ Longest(c) \in Nat /\ EffectiveMax <= Longest(c)
         /\ Crosses(c) => EffectiveMax + 2 * MaxBlank <= Longest(c)
         /\ HasCut(c) => Width * EffectiveMax <= Longest(c)
         /\ HasCut(c) /\ Len(c.pieces) > 1 =>
              Width * EffectiveMax + (MinMerge - 1 + Sep) <= Longest(c)
         /\ HasCut(c) /\ Len(c.pieces) > 1 /\ Crosses(c) =>
              Width * EffectiveMax + (MinMerge - 1 + Sep) + 2 * MaxBlank <= Longest(c)
<1> DEFINE wide == Width * EffectiveMax
           more == MinMerge - 1 + Sep
           blank == 2 * MaxBlank
<1>1. EffectiveMax \in Nat
  BY SizesFit
<1>2. wide \in Nat /\ EffectiveMax <= wide
  BY <1>1, WideIs
<1>3. more \in Nat /\ blank \in Nat /\ MinMerge \in Nat /\ Sep \in Nat /\ MaxBlank \in Nat
  BY LengthsAssumption
<1>4. Longest(c) = (IF HasCut(c) THEN wide ELSE EffectiveMax)
                   + (IF HasCut(c) /\ Len(c.pieces) > 1 THEN more ELSE 0)
                   + (IF Crosses(c) THEN blank ELSE 0)
  BY DEF Longest
<1> HIDE DEF wide, more, blank
<1>5. /\ Longest(c) \in Nat /\ EffectiveMax <= Longest(c)
      /\ Crosses(c) => EffectiveMax + blank <= Longest(c)
      /\ HasCut(c) => wide <= Longest(c)
      /\ HasCut(c) /\ Len(c.pieces) > 1 => wide + more <= Longest(c)
      /\ HasCut(c) /\ Len(c.pieces) > 1 /\ Crosses(c) => wide + more + blank <= Longest(c)
  BY <1>1, <1>2, <1>3, <1>4
<1> QED BY <1>1, <1>2, <1>3, <1>5 DEF wide, more, blank

LEMMA BoundedSays ==
  ASSUME Formed, config \in Configs, NEW c \in RawChunk, Attributed(c), Bounded(c)
  PROVE  TextSize(c) <= Longest(c) + Width * HeadingReserve
            + (IF PrefixSize(c) > 0 THEN MaxBlank ELSE 0)
<1>1. PrefixSize(c) \in Nat /\ PrefixSize(c) <= Width * HeadingReserve
  BY PrefixFits
<1>2. Width * HeadingReserve \in Nat
  BY SizesFit, WideIs
<1>3. c.size \in Nat /\ c.lead \in 0 .. MaxBlank /\ c.size <= Longest(c)
  BY DEF RawChunk, Bounded
<1>4. Longest(c) \in Nat /\ MaxBlank \in Nat
  BY LongestIs
<1> DEFINE w == Width * HeadingReserve
<1> HIDE DEF w
<1>5. TextSize(c) = IF PrefixSize(c) = 0 THEN c.size ELSE PrefixSize(c) + c.lead + c.size
  BY DEF TextSize
<1>6. w \in Nat /\ PrefixSize(c) <= w
  BY <1>1, <1>2 DEF w
<1>7. TextSize(c) <= Longest(c) + w + (IF PrefixSize(c) > 0 THEN MaxBlank ELSE 0)
  BY <1>1, <1>3, <1>4, <1>5, <1>6
<1> QED BY <1>7 DEF w

\* The chunks that are made are sound: attributed and bounded.
Sound(c) == c \in RawChunk /\ c.pieces # <<>> /\ Attributed(c) /\ Bounded(c)
AllSound(cs) == cs \in Seq(RawChunk) /\ \A k \in 1 .. Len(cs) : Sound(cs[k])

\* A section that is whole, and a fragment.
LEMMA BoundWhole ==
  ASSUME Formed, config \in Configs, NEW i \in Sections, ~Oversized(i)
  PROVE  Bounded(WholeSection(i))
<1>1. WholeSection(i).size = SectionSize(i) /\ SectionSize(i) \in Nat
  BY SectionSizeNat DEF WholeSection
<1>2. SectionSize(i) <= EffectiveMax
  BY <1>1, SizesFit DEF Oversized
<1>3. Under(WholeSection(i)) = {i}
  BY WholeSectionIs
<1>4. WholeSection(i).size <= Longest(WholeSection(i))
  <2> DEFINE w == WholeSection(i)
  <2>1. EffectiveMax \in Nat /\ Longest(w) \in Nat /\ EffectiveMax <= Longest(w)
    BY LongestIs
  <2> HIDE DEF w
  <2>2. w.size \in Nat /\ w.size <= EffectiveMax
    BY <1>1, <1>2 DEF w
  <2>3. w.size <= Longest(w)
    BY <2>1, <2>2
  <2> QED BY <2>3 DEF w
<1> QED BY <1>3, <1>4 DEF Bounded

LEMMA BoundFragment ==
  ASSUME Formed, config \in Configs, NEW i \in Sections, Oversized(i),
         NEW k \in 1 .. Len(Pieces(i))
  PROVE  Bounded(Fragment(i, k)) /\ HasCut(Fragment(i, k))
<1> DEFINE w == Fragment(i, k)
<1>1. /\ w \in RawChunk /\ w.size <= Width * EffectiveMax
      /\ w.lead = 0 /\ w.trail = 0 /\ Under(w) = {i}
  BY FragmentIs
<1> HIDE DEF w
<1>2. HasCut(w)
  BY <1>1 DEF HasCut
<1>3. /\ Width * EffectiveMax \in Nat /\ Longest(w) \in Nat
      /\ Width * EffectiveMax <= Longest(w)
  BY <1>2, LongestIs
<1>4. w.size <= Longest(w)
  <2> DEFINE x == Width * EffectiveMax
  <2>1. x \in Nat /\ x <= Longest(w) /\ w.size <= x /\ w.size \in Nat
    BY <1>1, <1>3 DEF RawChunk
  <2> HIDE DEF x
  <2> QED BY <1>3, <2>1
<1> QED BY <1>1, <1>2, <1>4 DEF Bounded, w

\* Chunks that are joined after the comparison of their trimmed lengths, or
\* because the first is small, which happens within a cut section.
LEMMA SoundJoined ==
  ASSUME Formed, config \in Configs, NEW c, NEW d, Sound(c), Sound(d),
         config.isolate => c.section = d.section,
         Under(c) = Under(d) => HasCut(d),
         \/ c.size + Sep + d.size <= EffectiveMax
         \/ Small(c) /\ d.size <= Width * EffectiveMax /\ HasCut(d)
  PROVE  Sound(Joined(c, d))
<1> DEFINE e == Joined(c, d)
<1>1. /\ c \in RawChunk /\ d \in RawChunk /\ c.pieces # <<>> /\ d.pieces # <<>>
      /\ c.pieces \in Seq(Piece) /\ d.pieces \in Seq(Piece)
      /\ c.size \in Nat /\ d.size \in Nat /\ Attributed(c) /\ Attributed(d)
      /\ c.lead \in 0 .. MaxBlank /\ d.lead \in 0 .. MaxBlank
      /\ c.trail \in 0 .. MaxBlank /\ d.trail \in 0 .. MaxBlank
  BY DEF Sound, RawChunk
<1>2. /\ e.pieces = c.pieces \o d.pieces
      /\ e.size = c.size + c.trail + Sep + d.lead + d.size
      /\ e.lead = c.lead /\ e.trail = d.trail
      /\ e.crumb = CommonAncestor(c.crumb, d.crumb)
      /\ e.section = MergeSections(c.section, d.section)
      /\ e = [pieces |-> e.pieces, lead |-> e.lead, size |-> e.size, trail |-> e.trail,
              crumb |-> e.crumb, section |-> e.section]
  BY DEF Joined, Body
<1> HIDE DEF e
<1>3. e.crumb \in Nat /\ e.section \in Nat
  <2>1. ASSUME NEW x \in Nodes, NEW y \in Nodes PROVE CommonAncestor(x, y) \in Nodes
    <3>1. CommonAncestor(x, y) = Meet(x, y)
      BY CommonAncestorIs
    <3>2. Meet(x, y) \in Nodes
      BY MeetIs
    <3> QED BY <3>1, <3>2
  <2> QED BY <1>1, <1>2, <2>1, SectionsAre DEF Attributed, MergeSections
<1>4. /\ e.pieces \in Seq(Piece) /\ Len(e.pieces) > 1
  <2>1. Len(c.pieces) > 0 /\ Len(d.pieces) > 0
    BY <1>1, EmptySeq
  <2>2. /\ e.pieces \in Seq(Piece)
        /\ Len(e.pieces) = Len(c.pieces) + Len(d.pieces)
    BY <1>1, <1>2, ConcatProperties
  <2>3. Len(c.pieces) \in Nat /\ Len(d.pieces) \in Nat
    BY <1>1
  <2>4. \A a, b \in Nat : a > 0 /\ b > 0 => a + b > 1
    OBVIOUS
  <2> QED BY <2>1, <2>2, <2>3, <2>4
<1>5. e \in RawChunk /\ e.pieces # <<>>
  <2> DEFINE a == c.size
             b == d.size
             t == c.trail
             l == d.lead
  <2>1. e.size \in Nat
    <3>1. a \in Nat /\ b \in Nat /\ t \in Nat /\ l \in Nat /\ Sep \in Nat
      BY <1>1, LengthsAssumption
    <3>2. e.size = a + t + Sep + l + b
      BY <1>2
    <3> HIDE DEF a, b, t, l
    <3> QED BY <3>1, <3>2
  <2>2. e.lead \in 0 .. MaxBlank /\ e.trail \in 0 .. MaxBlank
    BY <1>1, <1>2
  <2>3. e \in RawChunk
    <3>1. \A x, y, z, u, v, w : x \in Seq(Piece) /\ y \in 0 .. MaxBlank /\ z \in Nat /\
            u \in 0 .. MaxBlank /\ v \in Nat /\ w \in Nat =>
            [pieces |-> x, lead |-> y, size |-> z, trail |-> u, crumb |-> v, section |-> w]
               \in RawChunk
      BY DEF RawChunk
    <3>2. [pieces |-> e.pieces, lead |-> e.lead, size |-> e.size, trail |-> e.trail,
           crumb |-> e.crumb, section |-> e.section] \in RawChunk
      BY <1>3, <1>4, <2>1, <2>2, <3>1
    <3> QED BY <1>2, <3>2
  <2> QED BY <1>4, <2>3, EmptySeq
<1>6. Attributed(e)
  BY <1>1, <1>5, AttributedJoined DEF e
<1>7. Under(e) = Under(c) \cup Under(d)
  BY <1>1, <1>5, UnderJoined DEF e
<1>8. ASSUME NEW i, Under(e) = {i}
      PROVE  /\ Under(c) = {i} /\ Under(d) = {i} /\ Oversized(i)
             /\ c.lead = 0 /\ c.trail = 0 /\ d.lead = 0 /\ d.trail = 0
  <2>1. \A x \in RawChunk : x.pieces # <<>> => Under(x) # {}
    <3> SUFFICES ASSUME NEW x \in RawChunk, x.pieces # <<>> PROVE Under(x) # {}
      OBVIOUS
    <3>1. 1 \in 1 .. Len(x.pieces)
      BY EmptySeq DEF RawChunk
    <3> QED BY <3>1, UnderIs
  <2>2. Under(c) = {i} /\ Under(d) = {i}
    BY <1>1, <1>7, <1>8, <2>1
  <2>3. Oversized(i)
    BY <2>2 DEF HasCut
  <2> QED BY <2>2, <2>3 DEF Sound, Bounded
<1>9. Bounded(e)
  <2>1. \A i : Under(e) = {i} /\ Oversized(i) => e.lead = 0 /\ e.trail = 0
    BY <1>2, <1>8
  <2>2. c.trail + d.lead = 0 \/ Crosses(e)
    BY <1>8 DEF Crosses
  <2> DEFINE a == c.size
             b == d.size
             blank == c.trail + d.lead
  <2>3. /\ a \in Nat /\ b \in Nat /\ blank \in Nat /\ blank <= 2 * MaxBlank
        /\ Sep \in Nat /\ MinMerge \in Nat /\ e.size = a + Sep + b + blank
    <3> DEFINE t == c.trail
               l == d.lead
    <3>1. /\ a \in Nat /\ b \in Nat /\ Sep \in Nat /\ MinMerge \in Nat /\ MaxBlank \in Nat
          /\ t \in 0 .. MaxBlank /\ l \in 0 .. MaxBlank
      BY <1>1, LengthsAssumption
    <3>2. e.size = a + t + Sep + l + b
      BY <1>2
    <3> HIDE DEF a, b, t, l
    <3>3. t + l \in Nat /\ t + l <= 2 * MaxBlank /\ e.size = a + Sep + b + (t + l)
      BY <3>1, <3>2
    <3> QED BY <3>1, <3>3 DEF t, l
  <2>4. CASE c.size + Sep + d.size <= EffectiveMax
    <3>1. /\ EffectiveMax \in Nat /\ MaxBlank \in Nat /\ Longest(e) \in Nat
          /\ EffectiveMax <= Longest(e)
          /\ Crosses(e) => EffectiveMax + 2 * MaxBlank <= Longest(e)
      BY LongestIs
    <3>2. e.size <= Longest(e)
      <4>1. a + Sep + b <= EffectiveMax /\ (blank = 0 \/ Crosses(e))
        BY <2>2, <2>4
      <4> HIDE DEF a, b, blank
      <4> QED BY <2>3, <3>1, <4>1
    <3> QED BY <2>1, <3>2 DEF Bounded
  <2>5. CASE Small(c) /\ d.size <= Width * EffectiveMax /\ HasCut(d)
    <3>1. HasCut(e)
      BY <1>7, <2>5 DEF HasCut
    <3> DEFINE wide == Width * EffectiveMax
               more == MinMerge - 1 + Sep
    <3>2. /\ wide \in Nat /\ more \in Nat /\ MaxBlank \in Nat /\ Longest(e) \in Nat
          /\ wide + more <= Longest(e)
          /\ Crosses(e) => wide + more + 2 * MaxBlank <= Longest(e)
      BY <1>4, <3>1, LongestIs
    <3>3. b <= wide /\ a + Sep <= more /\ (blank = 0 \/ Crosses(e))
      <4>1. a < MinMerge /\ b <= wide
        BY <2>5 DEF Small
      <4> HIDE DEF a
      <4> QED BY <2>2, <2>3, <4>1
    <3> HIDE DEF wide, more, a, b, blank
    <3>4. e.size <= Longest(e)
      BY <2>3, <3>2, <3>3
    <3> QED BY <2>1, <3>4 DEF Bounded
  <2> QED BY <2>4, <2>5
<1> QED BY <1>5, <1>6, <1>9 DEF e, Sound

LEMMA NoneIs ==
  /\ None.pieces = <<>> /\ ~Sound(None) /\ None \in RawChunk
BY LengthsAssumption DEF None, Sound, RawChunk, NoHeading

LEMMA SoundAppend ==
  ASSUME NEW cs, AllSound(cs), NEW c, Sound(c)
  PROVE  /\ AllSound(Append(cs, c))
         /\ Told(cs) \in Seq(Piece) /\ Told(Append(cs, c)) = Told(cs) \o c.pieces
<1>1. cs \in Seq(RawChunk) /\ c \in RawChunk
  BY DEF AllSound, Sound
<1>2. AllSound(Append(cs, c))
  <2>1. /\ Append(cs, c) \in Seq(RawChunk) /\ Len(Append(cs, c)) = Len(cs) + 1
        /\ \A i \in 1 .. Len(cs) : Append(cs, c)[i] = cs[i]
        /\ Append(cs, c)[Len(cs) + 1] = c /\ Len(cs) \in Nat
    BY <1>1, AppendProperties
  <2>2. ASSUME NEW k \in 1 .. Len(cs) + 1 PROVE Sound(Append(cs, c)[k])
    <3>1. k \in 1 .. Len(cs) \/ k = Len(cs) + 1
      BY <2>1
    <3> QED BY <2>1, <3>1 DEF AllSound
  <2> QED BY <2>1, <2>2 DEF AllSound
<1> QED BY <1>1, <1>2, ToldAppend
LEMMA SoundFlushed ==
  ASSUME NEW cs, AllSound(cs), NEW c, c = None \/ Sound(c)
  PROVE  LET f == IF c = None THEN cs ELSE Append(cs, c) IN
         /\ AllSound(f) /\ Told(f) \in Seq(Piece) /\ Told(f) = Told(cs) \o c.pieces
         /\ Told(cs) \in Seq(Piece) /\ c.pieces \in Seq(Piece)
<1>1. Told(cs) \in Seq(Piece)
  <2>1. None \in RawChunk
    BY NoneIs
  <2> QED BY <2>1, ToldAppend DEF AllSound
<1>2. CASE c = None
  <2>1. c.pieces = <<>> /\ c.pieces \in Seq(Piece)
    BY <1>2, NoneIs
  <2>2. Told(cs) \o c.pieces = Told(cs)
    BY <1>1, <2>1, ConcatEmptySeq
  <2> QED BY <1>1, <1>2, <2>1, <2>2
<1>3. CASE c # None
  <2>1. c \in RawChunk /\ c.pieces \in Seq(Piece)
    BY <1>3 DEF Sound, RawChunk
  <2>2. AllSound(Append(cs, c)) /\ Told(Append(cs, c)) = Told(cs) \o c.pieces
    BY <1>3, SoundAppend
  <2>3. Told(cs) \o c.pieces \in Seq(Piece)
    BY <1>1, <2>1, ConcatProperties
  <2> QED BY <1>1, <1>3, <2>1, <2>2, <2>3
<1> QED BY <1>2, <1>3

\* Where the chunker stands in a document, with these chunks, these two that
\* are under way, at this section and fragment.
Stands(cs, cur, pend, p, fr) ==
  /\ p \in 1 .. Len(doc) + 1 /\ fr \in Nat
  /\ AllSound(cs)
  /\ cur = None \/ Sound(cur)
  /\ pend = None \/ (Sound(pend) /\ Small(pend) /\ pend.section = p /\ HasCut(pend))
  /\ fr = 0 => pend = None
  /\ fr > 0 => cur = None /\ p \in Sections /\ Oversized(p) /\ fr <= Len(Pieces(p)) + 1
  /\ TellsUpTo((Told(cs) \o cur.pieces) \o pend.pieces, p, IF fr = 0 THEN 1 ELSE fr)

LEMMA StandsFirst ==
  ASSUME Formed
  PROVE  Stands(<<>>, None, None, 1, 0)
<1>1. Len(doc) \in Nat /\ 1 \in 1 .. Len(doc) + 1
  BY DEF Formed
<1>2. AllSound(<<>>)
  BY DEF AllSound
<1>3. (Told(<<>>) \o None.pieces) \o None.pieces = <<>>
  <2>1. <<>> \in Seq(Piece)
    OBVIOUS
  <2> QED BY <2>1, ToldEmpty, NoneIs, Concats
<1>4. TellsUpTo((Told(<<>>) \o None.pieces) \o None.pieces, 1, IF 0 = 0 THEN 1 ELSE 0)
  BY <1>3, NoPiecesYet
<1>5. 0 \in Nat /\ ~(0 > 0)
  OBVIOUS
<1> QED BY <1>1, <1>2, <1>4, <1>5, Zenon DEF Stands

\* The chunk that ends a text told up to a section is not that section's.
LEMMA Behind ==
  ASSUME Formed, NEW t \in Seq(Piece), NEW c \in RawChunk, c.pieces # <<>>, NEW i \in Nat,
         TellsUpTo(t \o c.pieces, i, 1)
  PROVE  Under(c) # {i}
<1> DEFINE u == t \o c.pieces
<1>1. c.pieces \in Seq(Piece) /\ 1 \in 1 .. Len(c.pieces) /\ Len(t) \in Nat
  BY EmptySeq DEF RawChunk
<1>2. Len(t) + 1 \in 1 .. Len(u) /\ u[Len(t) + 1] = c.pieces[1]
  BY <1>1
<1> HIDE DEF u
<1>3. c.pieces[1] \in PiecesBefore(i, 1)
  BY <1>2 DEF TellsUpTo, u
<1>4. PICK j, m : /\ j \in Sections /\ m \in 1 .. Len(Pieces(j))
                  /\ c.pieces[1] = <<j, m>> /\ (j < i \/ (j = i /\ m < 1))
  BY <1>3, PiecesAre
<1>5. j # i
  BY <1>4 DEF Sections, Formed
<1>6. j \in Under(c)
  <2>1. c.pieces[1][1] = j
    BY <1>4
  <2> QED BY <1>1, <2>1, UnderIs
<1> QED BY <1>5, <1>6

LEMMA AccumulateStands ==
  ASSUME Formed, config \in Configs, Stands(chunks, current, pending, pos, frag), Accumulate
  PROVE  Stands(chunks', current', pending', pos', frag')
<1> DEFINE w == WholeSection(pos)
           T == Told(chunks)
<1>1. /\ pos \in Sections /\ frag = 0 /\ pending = None /\ AllSound(chunks)
      /\ current = None \/ Sound(current)
      /\ TellsUpTo((T \o current.pieces) \o <<>>, pos, 1)
      /\ ~Oversized(pos) /\ pos + 1 \in 1 .. Len(doc) + 1
      /\ chunks' = chunks /\ pending' = None /\ pos' = pos + 1 /\ frag' = 0
  <2>1. /\ frag = 0 /\ ~Oversized(pos) /\ pos <= Len(doc) /\ pos' = pos + 1
        /\ UNCHANGED <<frag, pending, chunks>>
    BY DEF Accumulate, AtSection
  <2>2. /\ pos \in 1 .. Len(doc) + 1 /\ pending = None /\ AllSound(chunks)
        /\ current = None \/ Sound(current)
        /\ TellsUpTo((T \o current.pieces) \o pending.pieces, pos, 1)
    BY <2>1 DEF Stands
  <2>3. pos \in Sections /\ pos + 1 \in 1 .. Len(doc) + 1
    BY <2>1, <2>2 DEF Sections, Formed
  <2>4. pending.pieces = <<>>
    BY <2>2, NoneIs
  <2> HIDE DEF T
  <2> QED BY <2>1, <2>2, <2>3, <2>4
<1>2. /\ Sound(w) /\ w.size = SectionSize(pos) /\ w.section = pos
      /\ w.pieces \in Seq(Piece)
  <2>1. w \in RawChunk /\ w.pieces # <<>> /\ Attributed(w)
    BY <1>1, WholeSectionIs
  <2>2. w.size = SectionSize(pos) /\ w.section = pos
    BY DEF WholeSection
  <2>3. Bounded(w)
    BY <1>1, BoundWhole
  <2> HIDE DEF w
  <2> QED BY <2>1, <2>2, <2>3 DEF Sound, RawChunk
<1>3. T \in Seq(Piece) /\ current.pieces \in Seq(Piece) /\ None.pieces = <<>>
  BY <1>1, SoundFlushed, NoneIs
<1>4. TellsUpTo((T \o current.pieces) \o w.pieces, pos + 1, 1)
  <2>1. (T \o current.pieces) \o <<>> = T \o current.pieces /\ T \o current.pieces \in Seq(Piece)
    BY <1>3, Concats
  <2> QED BY <1>1, <2>1, AddSection
<1>5. CASE current = None
  <2>1. current' = w
    BY <1>5 DEF Accumulate
  <2>2. (T \o current.pieces) \o w.pieces = (T \o w.pieces) \o None.pieces
    <3> HIDE DEF w, T
    <3>1. T \o w.pieces \in Seq(Piece)
      BY <1>2, <1>3, Concats
    <3>2. (T \o w.pieces) \o <<>> = T \o w.pieces
      BY <3>1, ConcatEmptySeq
    <3>3. T \o <<>> = T
      BY <1>3, ConcatEmptySeq
    <3> QED BY <1>3, <1>5, <3>2, <3>3
  <2> HIDE DEF w
  <2> QED BY <1>1, <1>2, <1>4, <2>1, <2>2 DEF Stands
<1>6. CASE current # None
  <2>1. /\ current' = Joined(current, w) /\ ~config.isolate
        /\ SectionSize(pos) + (current.size + Sep) <= EffectiveTarget
    BY <1>6 DEF Accumulate, Fits
  <2>2. current.size + Sep + w.size <= EffectiveMax
    <3>1. current.size \in Nat /\ w.size \in Nat
      BY <1>1, <1>2, <1>6 DEF Sound, RawChunk
    <3> HIDE DEF w
    <3> QED BY <1>2, <2>1, <3>1, SizesFit, LengthsAssumption
  <2>3. Sound(current')
    <3>1. Under(w) = {pos}
      BY <1>1, WholeSectionIs
    <3>2. Under(current) # {pos}
      <4>1. current \in RawChunk /\ current.pieces # <<>>
        BY <1>1, <1>6 DEF Sound
      <4>2. TellsUpTo(T \o current.pieces, pos, 1)
        <5>1. (T \o current.pieces) \o <<>> = T \o current.pieces
          BY <1>3, Concats
        <5> QED BY <1>1, <5>1
      <4>3. pos \in Nat
        BY <1>1 DEF Sections
      <4> HIDE DEF T
      <4> QED BY <1>3, <4>1, <4>2, <4>3, Behind
    <3> HIDE DEF w
    <3> QED BY <1>1, <1>2, <1>6, <2>1, <2>2, <3>1, <3>2, SoundJoined
  <2>4. current'.pieces = current.pieces \o w.pieces
    BY <2>1 DEF Joined
  <2>5. (T \o current.pieces) \o w.pieces = (T \o current'.pieces) \o None.pieces
    <3> HIDE DEF w, T
    <3>1. current.pieces \o w.pieces \in Seq(Piece)
      BY <1>2, <1>3, Concats
    <3>2. T \o (current.pieces \o w.pieces) \in Seq(Piece)
      BY <1>2, <1>3, <3>1, Concats
    <3>3. (T \o current.pieces) \o w.pieces = T \o (current.pieces \o w.pieces)
      <4>1. \A s, t, u \in Seq(Piece) : (s \o t) \o u = s \o (t \o u)
        BY Regroup
      <4>2. T \in Seq(Piece) /\ current.pieces \in Seq(Piece) /\ w.pieces \in Seq(Piece)
        BY <1>2, <1>3
      <4> DEFINE cp == current.pieces
                 wp == w.pieces
      <4> HIDE DEF cp, wp
      <4>3. (T \o cp) \o wp = T \o (cp \o wp)
        BY <4>1, <4>2 DEF cp, wp
      <4> QED BY <4>3 DEF cp, wp
    <3>4. (T \o (current.pieces \o w.pieces)) \o <<>> = T \o (current.pieces \o w.pieces)
      BY <3>2, ConcatEmptySeq
    <3> QED BY <1>3, <2>4, <3>3, <3>4
  <2> HIDE DEF w
  <2> QED BY <1>1, <1>4, <2>3, <2>5 DEF Stands
<1> QED BY <1>5, <1>6
\* What the steps that close a chunk at a section use.
LEMMA AtSectionStands ==
  ASSUME Formed, Stands(chunks, current, pending, pos, frag), AtSection
  PROVE  /\ pos \in Sections /\ frag = 0 /\ pending = None /\ pos + 1 \in 1 .. Len(doc) + 1
         /\ AllSound(Flushed) /\ Told(Flushed) \in Seq(Piece)
         /\ TellsUpTo(Told(Flushed), pos, 1)
<1>1. /\ frag = 0 /\ pos <= Len(doc) /\ pos \in 1 .. Len(doc) + 1 /\ pending = None
      /\ AllSound(chunks) /\ (current = None \/ Sound(current))
      /\ TellsUpTo((Told(chunks) \o current.pieces) \o pending.pieces, pos, 1)
  BY DEF AtSection, Stands
<1>2. pos \in Sections /\ pos + 1 \in 1 .. Len(doc) + 1
  BY <1>1 DEF Sections, Formed
<1>3. /\ AllSound(Flushed) /\ Told(Flushed) \in Seq(Piece)
      /\ Told(Flushed) = Told(chunks) \o current.pieces
  BY <1>1, SoundFlushed DEF Flushed
<1>4. Told(Flushed) \o pending.pieces = Told(Flushed)
  BY <1>1, <1>3, NoneIs, ConcatEmptySeq
<1>5. TellsUpTo(Told(Flushed) \o pending.pieces, pos, 1)
  BY <1>1, <1>3
<1> QED BY <1>1, <1>2, <1>3, <1>4, <1>5

LEMMA StartChunkStands ==
  ASSUME Formed, config \in Configs, Stands(chunks, current, pending, pos, frag), StartChunk
  PROVE  Stands(chunks', current', pending', pos', frag')
<1> DEFINE w == WholeSection(pos)
           T == Told(Flushed)
<1>1. /\ pos \in Sections /\ frag = 0 /\ pending = None /\ pos + 1 \in 1 .. Len(doc) + 1
      /\ AllSound(Flushed) /\ T \in Seq(Piece) /\ TellsUpTo(T, pos, 1)
  BY AtSectionStands DEF StartChunk
<1>2. /\ Sound(w) /\ w.pieces \in Seq(Piece)
  <2>1. w \in RawChunk /\ w.pieces # <<>> /\ Attributed(w)
    BY <1>1, WholeSectionIs
  <2>2. Bounded(w)
    BY <1>1, BoundWhole DEF StartChunk
  <2> HIDE DEF w
  <2> QED BY <2>1, <2>2 DEF Sound, RawChunk
<1>3. TellsUpTo(T \o w.pieces, pos + 1, 1)
  BY <1>1, AddSection
<1>4. (T \o w.pieces) \o None.pieces = T \o w.pieces
  <2> HIDE DEF w, T
  <2>1. T \o w.pieces \in Seq(Piece)
    BY <1>1, <1>2, Concats
  <2> QED BY <2>1, NoneIs, ConcatEmptySeq
<1>5. TellsUpTo((T \o w.pieces) \o None.pieces, pos + 1, IF 0 = 0 THEN 1 ELSE 0)
  BY <1>3, <1>4
<1>6. /\ chunks' = Flushed /\ current' = w /\ pos' = pos + 1 /\ frag' = 0 /\ pending' = None
  BY <1>1 DEF StartChunk
<1>7. 0 \in Nat /\ ~(0 > 0)
  OBVIOUS
<1>8. Stands(Flushed, w, None, pos + 1, 0)
  <2> HIDE DEF w
  <2> QED BY <1>1, <1>2, <1>5, <1>7, Zenon DEF Stands
<1> HIDE DEF w
<1> QED BY <1>6, <1>8

LEMMA BeginSplitStands ==
  ASSUME Formed, config \in Configs, Stands(chunks, current, pending, pos, frag), BeginSplit
  PROVE  Stands(chunks', current', pending', pos', frag')
<1> DEFINE T == Told(Flushed)
<1>1. /\ pos \in Sections /\ frag = 0 /\ pending = None
      /\ AllSound(Flushed) /\ T \in Seq(Piece) /\ TellsUpTo(T, pos, 1)
  BY AtSectionStands DEF BeginSplit
<1>2. (T \o None.pieces) \o None.pieces = T
  <2> HIDE DEF T
  <2> QED BY <1>1, NoneIs, ConcatEmptySeq
<1>3. TellsUpTo((T \o None.pieces) \o None.pieces, pos, IF 1 = 0 THEN 1 ELSE 1)
  BY <1>1, <1>2
<1>4. /\ chunks' = Flushed /\ current' = None /\ pos' = pos /\ frag' = 1 /\ pending' = None
      /\ Oversized(pos)
  BY <1>1 DEF BeginSplit
<1>5. 1 \in Nat /\ ~(1 = 0) /\ 1 <= Len(Pieces(pos)) + 1 /\ pos \in 1 .. Len(doc) + 1
  BY <1>1 DEF Sections, Formed
<1>6. Stands(Flushed, None, None, pos, 1)
  BY <1>1, <1>3, <1>4, <1>5, Zenon DEF Stands
<1> QED BY <1>4, <1>6

\* What the steps of a split use: the fragment they look at is told next.
LEMMA AtFragmentStands ==
  ASSUME Formed, config \in Configs, Stands(chunks, current, pending, pos, frag), AtFragment
  PROVE  LET d == Fragment(pos, frag) IN
         /\ pos \in Sections /\ pos \in 1 .. Len(doc) + 1 /\ current = None /\ Oversized(pos)
         /\ frag + 1 \in Nat /\ frag + 1 # 0 /\ frag + 1 <= Len(Pieces(pos)) + 1
         /\ AllSound(chunks) /\ Told(chunks) \in Seq(Piece) /\ pending.pieces \in Seq(Piece)
         /\ pending = None \/ (Sound(pending) /\ Small(pending) /\ pending.section = pos /\ HasCut(pending))
         /\ Sound(d) /\ d.size <= Width * EffectiveMax /\ d.section = pos
         /\ d.pieces \in Seq(Piece) /\ HasCut(d)
         /\ TellsUpTo((Told(chunks) \o pending.pieces) \o d.pieces, pos, frag + 1)
<1> DEFINE d == Fragment(pos, frag)
           T == Told(chunks)
<1>1. /\ frag > 0 /\ frag <= Len(Pieces(pos)) /\ frag \in Nat /\ pos \in 1 .. Len(doc) + 1
      /\ pos \in Sections /\ current = None /\ Oversized(pos) /\ AllSound(chunks)
      /\ pending = None \/ (Sound(pending) /\ Small(pending) /\ pending.section = pos /\ HasCut(pending))
      /\ TellsUpTo((T \o current.pieces) \o pending.pieces, pos, frag)
  BY DEF AtFragment, Stands
<1>2. Len(Pieces(pos)) \in Nat /\ frag \in 1 .. Len(Pieces(pos))
  BY <1>1 DEF Formed
<1>3. frag + 1 \in Nat /\ frag + 1 # 0 /\ frag + 1 <= Len(Pieces(pos)) + 1
  BY <1>1, <1>2
<1>4. /\ d \in RawChunk /\ d.pieces = << <<pos, frag>> >> /\ d.size <= Width * EffectiveMax
      /\ d.section = pos /\ Attributed(d) /\ Bounded(d) /\ HasCut(d)
  BY <1>1, <1>2, FragmentIs, BoundFragment
<1> HIDE DEF d
<1>5. Sound(d) /\ d.pieces \in Seq(Piece)
  <2>1. d.size \in Nat /\ d.pieces \in Seq(Piece) /\ Len(d.pieces) = 1
    BY <1>4 DEF RawChunk
  <2> QED BY <1>4, <2>1, EmptySeq DEF Sound
<1>6. T \in Seq(Piece) /\ pending.pieces \in Seq(Piece) /\ T \o current.pieces = T
  BY <1>1, SoundFlushed, NoneIs, ConcatEmptySeq
<1>7. TellsUpTo((T \o pending.pieces) \o d.pieces, pos, frag + 1)
  <2> DEFINE t == T \o pending.pieces
  <2>1. t \in Seq(Piece) /\ TellsUpTo(t, pos, frag)
    BY <1>1, <1>6, Concats
  <2> HIDE DEF t
  <2>2. TellsUpTo(t \o << <<pos, frag>> >>, pos, frag + 1)
    BY <1>1, <1>2, <2>1, AddPiece
  <2> QED BY <1>4, <2>2 DEF t
<1> QED BY <1>1, <1>3, <1>4, <1>5, <1>6, <1>7 DEF d
LEMMA MergePendingStands ==
  ASSUME Formed, config \in Configs, Stands(chunks, current, pending, pos, frag), MergePending
  PROVE  Stands(chunks', current', pending', pos', frag')
<1> DEFINE d == Fragment(pos, frag)
           T == Told(chunks)
           sum == Joined(pending, d)
           pp == pending.pieces
           dp == d.pieces
<1>1. /\ pos \in Sections /\ pos \in 1 .. Len(doc) + 1 /\ current = None /\ Oversized(pos)
      /\ frag + 1 \in Nat /\ frag + 1 # 0 /\ frag + 1 <= Len(Pieces(pos)) + 1
      /\ AllSound(chunks) /\ T \in Seq(Piece) /\ pp \in Seq(Piece)
      /\ pending = None \/ (Sound(pending) /\ Small(pending) /\ pending.section = pos /\ HasCut(pending))
      /\ Sound(d) /\ d.size <= Width * EffectiveMax /\ d.section = pos /\ dp \in Seq(Piece)
      /\ HasCut(d)
      /\ TellsUpTo((T \o pp) \o dp, pos, frag + 1)
  BY AtFragmentStands DEF MergePending
<1>2. /\ pending # None
      /\ IF Small(sum) THEN pending' = sum /\ UNCHANGED chunks
         ELSE pending' = None /\ chunks' = Append(chunks, sum)
      /\ frag' = frag + 1 /\ pos' = pos /\ current' = None
  BY <1>1 DEF MergePending, NextFragment
<1>3. sum.pieces = pp \o dp /\ sum.section = pos
  <2>1. sum.pieces = pp \o dp /\ sum.section = MergeSections(pending.section, d.section)
    BY DEF Joined
  <2> HIDE DEF sum, d
  <2> QED BY <1>1, <1>2, <2>1 DEF MergeSections
<1> HIDE DEF d, T, pp, dp
<1>4. Sound(sum) /\ HasCut(sum)
  <2>1. Sound(sum)
    <3>1. MayJoin(pending, d)
      BY <1>2 DEF MergePending, d
    <3> QED BY <1>1, <1>2, <3>1, SoundJoined DEF MayJoin
  <2>2. Under(d) \subseteq Under(sum)
    BY <1>1, <1>2, <2>1, UnderJoined DEF Sound
  <2> HIDE DEF sum
  <2> QED BY <1>1, <2>1, <2>2 DEF HasCut
<1> HIDE DEF sum
<1>5. pp \o dp \in Seq(Piece) /\ T \o (pp \o dp) \in Seq(Piece) /\ T \o <<>> = T
      /\ (T \o pp) \o dp = T \o (pp \o dp)
  <2>1. pp \o dp \in Seq(Piece)
    BY <1>1, Concats
  <2>2. T \o (pp \o dp) \in Seq(Piece)
    BY <1>1, <2>1, Concats
  <2>3. T \o <<>> = T
    BY <1>1, ConcatEmptySeq
  <2>4. (T \o pp) \o dp = T \o (pp \o dp)
    <3>1. \A x, y, z \in Seq(Piece) : (x \o y) \o z = x \o (y \o z)
      BY Regroup
    <3> QED BY <1>1, <3>1
  <2> QED BY <2>1, <2>2, <2>3, <2>4
<1>6. frag + 1 > 0 /\ ~(frag + 1 = 0)
  BY <1>1
<1>7. CASE Small(sum)
  <2>1. (T \o None.pieces) \o sum.pieces = (T \o pp) \o dp
    BY <1>3, <1>5, NoneIs
  <2>2. TellsUpTo((T \o None.pieces) \o sum.pieces, pos, IF frag + 1 = 0 THEN 1 ELSE frag + 1)
    BY <1>1, <2>1
  <2>3. Stands(chunks, None, sum, pos, frag + 1)
    BY <1>1, <1>3, <1>4, <1>6, <1>7, <2>2, Zenon DEF Stands, T
  <2> QED BY <1>2, <1>7, <2>3
<1>8. CASE ~Small(sum)
  <2>1. AllSound(Append(chunks, sum)) /\ Told(Append(chunks, sum)) = T \o sum.pieces
    BY <1>1, <1>4, SoundAppend DEF T
  <2>2. (Told(Append(chunks, sum)) \o None.pieces) \o None.pieces = (T \o pp) \o dp
    BY <1>3, <1>5, <2>1, NoneIs, ConcatEmptySeq
  <2>3. TellsUpTo((Told(Append(chunks, sum)) \o None.pieces) \o None.pieces, pos,
                  IF frag + 1 = 0 THEN 1 ELSE frag + 1)
    BY <1>1, <2>2
  <2>4. Stands(Append(chunks, sum), None, None, pos, frag + 1)
    BY <1>1, <1>6, <2>1, <2>3, Zenon DEF Stands
  <2> QED BY <1>2, <1>8, <2>4
<1> QED BY <1>7, <1>8

LEMMA TakeFragmentStands ==
  ASSUME Formed, config \in Configs, Stands(chunks, current, pending, pos, frag), TakeFragment
  PROVE  Stands(chunks', current', pending', pos', frag')
<1> DEFINE d == Fragment(pos, frag)
           before == IF pending = None THEN chunks ELSE Append(chunks, pending)
           B == Told(before)
           dp == d.pieces
<1>1. /\ pos \in Sections /\ pos \in 1 .. Len(doc) + 1 /\ current = None /\ Oversized(pos)
      /\ frag + 1 \in Nat /\ frag + 1 # 0 /\ frag + 1 <= Len(Pieces(pos)) + 1
      /\ AllSound(chunks) /\ (pending = None \/ Sound(pending))
      /\ Sound(d) /\ HasCut(d) /\ d.section = pos /\ dp \in Seq(Piece)
      /\ TellsUpTo((Told(chunks) \o pending.pieces) \o dp, pos, frag + 1)
  BY AtFragmentStands DEF TakeFragment
<1>2. /\ IF Small(d) THEN pending' = d /\ chunks' = before
         ELSE pending' = None /\ chunks' = Append(before, d)
      /\ frag' = frag + 1 /\ pos' = pos /\ current' = None
  BY <1>1 DEF TakeFragment, NextFragment
<1>3. /\ AllSound(chunks) /\ (pending = None \/ Sound(pending))
  <2>1. AllSound(chunks) /\ (pending = None \/ Sound(pending))
    BY AtFragmentStands DEF TakeFragment
  <2> QED BY <2>1
<1>4. AllSound(before) /\ B \in Seq(Piece) /\ B = Told(chunks) \o pending.pieces
  BY <1>3, SoundFlushed
<1> HIDE DEF d, before, B, dp
<1>5. TellsUpTo(B \o dp, pos, frag + 1) /\ B \o dp \in Seq(Piece) /\ B \o <<>> = B
  BY <1>1, <1>4, Concats
<1>6. frag + 1 > 0 /\ ~(frag + 1 = 0)
  BY <1>1
<1>7. CASE Small(d)
  <2>1. TellsUpTo((B \o None.pieces) \o dp, pos, IF frag + 1 = 0 THEN 1 ELSE frag + 1)
    BY <1>1, <1>5, NoneIs
  <2>2. Stands(before, None, d, pos, frag + 1)
    BY <1>1, <1>4, <1>6, <1>7, <2>1, Zenon DEF Stands, B, dp
  <2> QED BY <1>2, <1>7, <2>2
<1>8. CASE ~Small(d)
  <2>1. AllSound(Append(before, d)) /\ Told(Append(before, d)) = B \o dp
    BY <1>1, <1>4, SoundAppend DEF B, dp
  <2>2. (Told(Append(before, d)) \o None.pieces) \o None.pieces = B \o dp
    BY <1>5, <2>1, NoneIs, ConcatEmptySeq
  <2>3. TellsUpTo((Told(Append(before, d)) \o None.pieces) \o None.pieces, pos,
                  IF frag + 1 = 0 THEN 1 ELSE frag + 1)
    BY <1>1, <1>5, <2>2
  <2>4. Stands(Append(before, d), None, None, pos, frag + 1)
    BY <1>1, <1>6, <2>1, <2>3, Zenon DEF Stands
  <2> QED BY <1>2, <1>8, <2>4
<1> QED BY <1>7, <1>8

LEMMA TailStands ==
  ASSUME Formed, config \in Configs, AllSound(chunks), Sound(pending), HasCut(pending)
  PROVE  AllSound(WithTail) /\ Told(WithTail) = Told(chunks) \o pending.pieces
<1>1. CASE ~TailFits
  BY <1>1, SoundAppend DEF WithTail
<1>2. CASE TailFits
  <2> DEFINE f == Front(chunks)
             l == Last(chunks)
             j == Joined(l, pending)
  <2>1. /\ chunks # <<>> /\ l.size + Sep + pending.size <= EffectiveMax
        /\ config.isolate => l.section = pending.section
        /\ WithTail = Append(f, j)
    BY <1>2 DEF TailFits, WithTail
  <2>2. /\ f \in Seq(RawChunk) /\ l \in RawChunk /\ chunks = Append(f, l)
        /\ Len(f) = Len(chunks) - 1 /\ chunks \in Seq(RawChunk)
    BY <2>1, LastOne DEF AllSound
  <2>3. l = chunks[Len(chunks)] /\ \A k \in 1 .. Len(f) : f[k] = chunks[k]
    <3>1. \A k \in 1 .. Len(f) : Append(f, l)[k] = f[k]
      <4> HIDE DEF f, l
      <4> QED BY <2>2, AppendProperties
    <3> QED BY <2>2, <3>1 DEF Last
  <2> HIDE DEF f, l
  <2>4. Len(chunks) \in Nat \ {0} /\ Len(f) \in Nat
    BY <2>1, <2>2, EmptySeq
  <2>5. AllSound(f) /\ Sound(l)
    <3>1. Len(chunks) \in 1 .. Len(chunks) /\ \A k \in 1 .. Len(f) : k \in 1 .. Len(chunks)
      BY <2>2, <2>4
    <3> QED BY <2>2, <2>3, <3>1 DEF AllSound
  <2>6. Sound(j) /\ j.pieces = l.pieces \o pending.pieces
    <3>1. Sound(j)
      BY <2>1, <2>5, SoundJoined
    <3> QED BY <3>1 DEF Joined
  <2> HIDE DEF j
  <2>7. /\ AllSound(WithTail) /\ Told(WithTail) = Told(f) \o j.pieces
        /\ Told(chunks) = Told(f) \o l.pieces /\ Told(f) \in Seq(Piece)
    BY <2>1, <2>2, <2>5, <2>6, SoundAppend
  <2>8. Told(f) \o (l.pieces \o pending.pieces) = (Told(f) \o l.pieces) \o pending.pieces
    <3> DEFINE a == Told(f)
               lp == l.pieces
               pp == pending.pieces
    <3>1. a \in Seq(Piece) /\ lp \in Seq(Piece) /\ pp \in Seq(Piece)
      BY <2>5, <2>7 DEF Sound, RawChunk
    <3> HIDE DEF a, lp, pp
    <3>2. a \o (lp \o pp) = (a \o lp) \o pp
      BY <3>1, Concats
    <3> QED BY <3>2 DEF a, lp, pp
  <2> QED BY <2>6, <2>7, <2>8
<1> QED BY <1>1, <1>2

LEMMA EndSplitStands ==
  ASSUME Formed, config \in Configs, Stands(chunks, current, pending, pos, frag), EndSplit
  PROVE  Stands(chunks', current', pending', pos', frag')
<1> DEFINE cs == IF pending = None THEN chunks ELSE WithTail
           C == Told(cs)
           T == Told(chunks)
<1>1. /\ frag \in Nat /\ frag > 0 /\ frag > Len(Pieces(pos)) /\ frag <= Len(Pieces(pos)) + 1
      /\ pos \in 1 .. Len(doc) + 1 /\ pos \in Sections /\ current = None /\ AllSound(chunks)
      /\ (pending = None \/ (Sound(pending) /\ HasCut(pending)))
      /\ TellsUpTo((T \o current.pieces) \o pending.pieces, pos, frag)
  BY DEF EndSplit, Stands
<1>2. /\ frag = Len(Pieces(pos)) + 1 /\ pos + 1 \in 1 .. Len(doc) + 1
  BY <1>1 DEF Formed, Sections
<1>3. /\ chunks' = cs /\ pending' = None /\ frag' = 0 /\ pos' = pos + 1 /\ current' = None
  BY <1>1 DEF EndSplit
<1>4. T \in Seq(Piece) /\ pending.pieces \in Seq(Piece) /\ T \o current.pieces = T
  BY <1>1, SoundFlushed, NoneIs, ConcatEmptySeq
<1>5. AllSound(cs) /\ C = T \o pending.pieces
  <2>1. CASE pending = None
    BY <1>1, <1>4, <2>1, NoneIs, ConcatEmptySeq
  <2>2. CASE pending # None
    BY <1>1, <2>2, TailStands
  <2> QED BY <2>1, <2>2
<1> HIDE DEF cs, C, T
<1>6. TellsUpTo(C, pos + 1, 1)
  <2>1. TellsUpTo(C, pos, Len(Pieces(pos)) + 1)
    BY <1>1, <1>2, <1>4, <1>5
  <2>2. PiecesBefore(pos, Len(Pieces(pos)) + 1) = PiecesBefore(pos + 1, 1)
    BY <1>1, SectionEnds
  <2> QED BY <2>1, <2>2, Zenon DEF TellsUpTo
<1>7. (C \o None.pieces) \o None.pieces = C
  <2>1. C \in Seq(Piece)
    BY <1>4, <1>5, Concats
  <2> QED BY <2>1, NoneIs, ConcatEmptySeq
<1>8. TellsUpTo((C \o None.pieces) \o None.pieces, pos + 1, IF 0 = 0 THEN 1 ELSE 0)
  BY <1>6, <1>7
<1>9. 0 \in Nat /\ ~(0 > 0)
  OBVIOUS
<1>10. Stands(cs, None, None, pos + 1, 0)
  BY <1>2, <1>5, <1>8, <1>9, Zenon DEF Stands, C
<1> QED BY <1>3, <1>10
\* The chunks a property looks at: those made, and the two under way.
LEMMA SoFarIs ==
  ASSUME Stands(chunks, current, pending, pos, frag)
  PROVE  /\ AllSound(SoFar) /\ Told(SoFar) \in Seq(Piece)
         /\ Told(SoFar) = (Told(chunks) \o current.pieces) \o pending.pieces
<1>1. /\ AllSound(chunks) /\ (current = None \/ Sound(current))
      /\ (pending = None \/ Sound(pending))
  BY DEF Stands
<1>2. AllSound(Flushed) /\ Told(Flushed) = Told(chunks) \o current.pieces
  BY <1>1, SoundFlushed DEF Flushed
<1>3. SoFar = IF pending = None THEN Flushed ELSE Append(Flushed, pending)
  <2>1. Flushed \in Seq(RawChunk)
    BY <1>2 DEF AllSound
  <2>2. CASE pending = None
    BY <2>1, <2>2, ConcatEmptySeq DEF SoFar
  <2>3. CASE pending # None
    <3>1. pending \in RawChunk
      BY <1>1, <2>3 DEF Sound
    <3>2. Append(Flushed, pending) = Flushed \o <<pending>>
      BY <2>1, <3>1, AppendIsConcat
    <3> QED BY <2>3, <3>2 DEF SoFar
  <2> QED BY <2>2, <2>3
<1> QED BY <1>1, <1>2, <1>3, SoundFlushed

-----------------------------------------------------------------------------
(***************************************************************************)
(* The invariant of the chunker.                                           *)
(***************************************************************************)
ChunkerInv ==
  /\ files \in Corpora /\ config \in Configs /\ at \in Nat \ {0}
  /\ Chunking => Stands(chunks, current, pending, pos, frag)

\* What stands speaks of the document and the configuration alone.
LEMMA SizesSteady ==
  ASSUME UNCHANGED <<files, config, at>>, NEW i
  PROVE  /\ SectionSize(i)' = SectionSize(i) /\ Oversized(i)' = Oversized(i)
         /\ Sections' = Sections /\ Nodes' = Nodes /\ doc' = doc
         /\ Level(i)' = Level(i) /\ Pieces(i)' = Pieces(i)
         /\ EffectiveMax' = EffectiveMax /\ HasCut(i)' = HasCut(i)
<1>1. SectionSize(i)' = SectionSize(i)
  BY DEF SectionSize, Pieces, doc
<1>2. EffectiveMax' = EffectiveMax
  BY DEF EffectiveMax, HeadingReserve
<1>3. Oversized(i)' = Oversized(i)
  BY <1>1, <1>2 DEF Oversized
<1>4. HasCut(i)' = HasCut(i)
  <2>1. \A j : Oversized(j)' = Oversized(j)
    BY <1>2 DEF Oversized, SectionSize, Pieces, doc
  <2> QED BY <2>1 DEF HasCut
<1> QED BY <1>1, <1>2, <1>3, <1>4 DEF Sections, Nodes, Level, Pieces, doc

LEMMA OpenSteady ==
  ASSUME UNCHANGED <<files, config, at>>, NEW i
  PROVE  OpenAt(i)' = OpenAt(i)
BY DEF OpenAt, Level, doc

LEMMA SoundSteady ==
  ASSUME UNCHANGED <<files, config, at>>, NEW c
  PROVE  Sound(c)' = Sound(c) /\ AllSound(c)' = AllSound(c)
<1>1. ASSUME NEW d PROVE Sound(d)' = Sound(d)
  <2>1. /\ \A i : OpenAt(i)' = OpenAt(i)
        /\ \A i : Oversized(i)' = Oversized(i) /\ Level(i)' = Level(i)
        /\ Sections' = Sections /\ Nodes' = Nodes /\ EffectiveMax' = EffectiveMax
        /\ config' = config /\ HasCut(d)' = HasCut(d)
    BY OpenSteady, SizesSteady
  <2>2. Attributed(d)' = Attributed(d)
    BY <2>1 DEF Attributed
  <2>3. Bounded(d)' = Bounded(d)
    BY <2>1 DEF Bounded, Longest, Crosses
  <2> QED BY <2>2, <2>3 DEF Sound
<1> QED BY <1>1 DEF AllSound

LEMMA StandsSteady ==
  ASSUME UNCHANGED <<files, config, at>>, NEW cs, NEW cur, NEW pend, NEW p, NEW fr
  PROVE  Stands(cs, cur, pend, p, fr)' = Stands(cs, cur, pend, p, fr)
<1>1. /\ \A c : Sound(c)' = Sound(c) /\ AllSound(c)' = AllSound(c)
      /\ \A i : Oversized(i)' = Oversized(i) /\ Pieces(i)' = Pieces(i) /\ HasCut(i)' = HasCut(i)
      /\ Sections' = Sections /\ doc' = doc
  BY SoundSteady, SizesSteady
<1>2. \A t, i, k : TellsUpTo(t, i, k)' = TellsUpTo(t, i, k)
  <2>1. \A i, k : PiecesBefore(i, k)' = PiecesBefore(i, k)
    BY DEF PiecesBefore, PiecesOf, doc
  <2> QED BY <2>1 DEF TellsUpTo
<1> QED BY <1>1, <1>2 DEF Stands

LEMMA FirstAgain ==
  ASSUME files' \in Corpora, at' \in Nat \ {0}, Chunking'
  PROVE  Stands(<<>>, None, None, 1, 0)'
<1>1. doc' \in Document /\ Len(doc') \in Nat
  <2>1. files' \in Seq(Document) /\ at' \in 1 .. Len(files')
    BY CorporaAssumption DEF Chunking
  <2> QED BY <2>1 DEF doc, Document
<1>2. AllSound(<<>>)'
  BY DEF AllSound
<1>3. (Told(<<>>) \o None.pieces) \o None.pieces = <<>>
  <2>1. <<>> \in Seq(Piece)
    OBVIOUS
  <2> QED BY <2>1, ToldEmpty, NoneIs, Concats
<1>4. TellsUpTo(<<>>, 1, 1)'
  <2>1. ASSUME NEW p \in PiecesBefore(1, 1)' PROVE FALSE
    <3>1. PICK j \in 1 .. Len(doc') : p \in {j} \X (1 .. Len(doc'[j].frags))
      BY DEF PiecesBefore, PiecesOf
    <3>2. p[1] \in Nat /\ p[1] >= 1 /\ p[2] \in Nat /\ p[2] >= 1
      BY <1>1, <3>1
    <3>3. p[1] < 1 \/ (p[1] = 1 /\ p[2] < 1)
      BY DEF PiecesBefore
    <3> QED BY <3>2, <3>3
  <2>2. 1 .. Len(<<>>) = {}
    OBVIOUS
  <2> QED BY <2>1, <2>2 DEF TellsUpTo
<1>5. TellsUpTo((Told(<<>>) \o None.pieces) \o None.pieces, 1, IF 0 = 0 THEN 1 ELSE 0)'
  BY <1>3, <1>4
<1>6. 0 \in Nat /\ ~(0 > 0) /\ 1 \in 1 .. Len(doc') + 1
  BY <1>1
<1> QED BY <1>2, <1>5, <1>6 DEF Stands
LEMMA ChunkerInit == Init => ChunkerInv
<1> SUFFICES ASSUME Init PROVE ChunkerInv
  OBVIOUS
<1>1. /\ files \in Corpora /\ config \in Configs /\ at = 1 /\ pos = 1 /\ frag = 0
      /\ current = None /\ pending = None /\ chunks = <<>>
  BY DEF Init, ChunkInit
<1>2. ASSUME Chunking PROVE Stands(<<>>, None, None, 1, 0)
  <2>1. Formed
    BY <1>1, <1>2, DocumentIsFormed
  <2> QED BY <2>1, StandsFirst
<1> QED BY <1>1, <1>2 DEF ChunkerInv

LEMMA ChunkerStep == ChunkerInv /\ [Next]_vars => ChunkerInv'
<1> SUFFICES ASSUME ChunkerInv, [Next]_vars PROVE ChunkerInv'
  OBVIOUS
<1>1. /\ files \in Corpora /\ config \in Configs /\ at \in Nat \ {0}
      /\ Chunking => Stands(chunks, current, pending, pos, frag)
  BY DEF ChunkerInv
<1>2. Chunking => Formed
  BY <1>1, DocumentIsFormed
<1>3. ASSUME Chunking, UNCHANGED <<files, config, at>>,
             Stands(chunks', current', pending', pos', frag')
      PROVE  ChunkerInv'
  <2>1. \A cs, cur, pend, p, fr : Stands(cs, cur, pend, p, fr)' = Stands(cs, cur, pend, p, fr)
    BY <1>3, StandsSteady
  <2>2. Stands(chunks, current, pending, pos, frag)'
    BY <1>3, <2>1
  <2> QED BY <1>1, <1>3, <2>2 DEF ChunkerInv
<1>4. CASE Accumulate
  BY <1>1, <1>2, <1>3, <1>4, AccumulateStands DEF Accumulate, AtSection
<1>5. CASE StartChunk
  BY <1>1, <1>2, <1>3, <1>5, StartChunkStands DEF StartChunk, AtSection
<1>6. CASE BeginSplit
  BY <1>1, <1>2, <1>3, <1>6, BeginSplitStands DEF BeginSplit, AtSection
<1>7. CASE MergePending
  BY <1>1, <1>2, <1>3, <1>7, MergePendingStands DEF MergePending, AtFragment, NextFragment
<1>8. CASE TakeFragment
  BY <1>1, <1>2, <1>3, <1>8, TakeFragmentStands DEF TakeFragment, AtFragment, NextFragment
<1>9. CASE EndSplit
  BY <1>1, <1>2, <1>3, <1>9, EndSplitStands DEF EndSplit
<1>10. CASE FinishFile
  <2>1. /\ files' = files /\ config' = config /\ at' = at + 1 /\ pos' = 1 /\ frag' = frag
        /\ chunks' = <<>> /\ current' = None /\ pending' = pending
        /\ Chunking /\ pos > Len(doc)
    BY <1>10 DEF FinishFile
  <2>2. frag = 0 /\ pending = None
    <3>1. Stands(chunks, current, pending, pos, frag) /\ Len(doc) \in Nat
      BY <1>1, <1>2, <2>1 DEF Formed
    <3>2. pos \notin Sections
      BY <2>1, <3>1 DEF Sections
    <3>3. frag \in Nat /\ ~(frag > 0)
      BY <3>1, <3>2 DEF Stands
    <3> QED BY <3>1, <3>3 DEF Stands
  <2>3. files' \in Corpora /\ config' \in Configs /\ at' \in Nat \ {0}
    BY <1>1, <2>1
  <2>4. ASSUME Chunking' PROVE Stands(chunks, current, pending, pos, frag)'
    <3>1. Stands(<<>>, None, None, 1, 0)'
      BY <2>3, <2>4, FirstAgain
    <3> QED BY <2>1, <2>2, <3>1 DEF None, NoHeading
  <2> QED BY <2>3, <2>4 DEF ChunkerInv
<1>11. ASSUME UNCHANGED chunkVars PROVE ChunkerInv'
  <2>1. /\ UNCHANGED <<files, config, at>>
        /\ UNCHANGED <<chunks, current, pending, pos, frag>>
    BY <1>11 DEF chunkVars
  <2>2. CASE Chunking
    <3>1. Stands(chunks', current', pending', pos', frag')
      BY <1>1, <2>1, <2>2
    <3> QED BY <1>3, <2>1, <2>2, <3>1
  <2>3. CASE ~Chunking
    BY <1>1, <2>1, <2>3 DEF ChunkerInv, Chunking
  <2> QED BY <2>2, <2>3
<1>12. ChunkNext \/ UNCHANGED chunkVars
  BY DEF Next, Chunk, BeginEmbedding, Embedded, Upsert, Ended, vars
<1> QED BY <1>4, <1>5, <1>6, <1>7, <1>8, <1>9, <1>10, <1>11, <1>12 DEF ChunkNext

\* The chunker stands as described in every reachable state.
THEOREM ChunkerInvariant == Spec => []ChunkerInv
BY ChunkerInit, ChunkerStep, PTL DEF Spec

-----------------------------------------------------------------------------
(***************************************************************************)
(* What holds of the chunks.                                               *)
(***************************************************************************)
\* What stands of a text of pieces is what the property says of chunks.
LEMMA TellIs ==
  ASSUME NEW cs, Told(cs) \in Seq(Piece), NEW i, NEW k, TellsUpTo(Told(cs), i, k)
  PROVE  Tell(cs, PiecesBefore(i, k))
<1> DEFINE t == Told(cs)
<1>1. t = FlattenSeq([m \in 1 .. Len(cs) |-> cs[m].pieces])
  BY DEF Told, PieceLists
<1> HIDE DEF t
<1>2. t \in Seq(Piece) /\ TellsUpTo(t, i, k) /\ DOMAIN t = 1 .. Len(t)
  BY DEF t
<1>3. Range(t) = PiecesBefore(i, k)
  BY <1>2 DEF TellsUpTo, Range
<1>4. \A m, n \in 1 .. Len(t) : m < n => Earlier(t[m], t[n])
  BY <1>2 DEF TellsUpTo
<1> QED BY <1>1, <1>3, <1>4 DEF Tell

\* Each document done has been given chunks that are the whole of it.
MadeFile == Seq([body : RawChunk, prefix : Nat])
Bodies(cs) == [k \in 1 .. Len(cs) |-> cs[k].body]
MadeInv ==
  /\ made \in Seq(MadeFile) /\ at = Len(made) + 1
  /\ \A f \in 1 .. Len(made) : Tell(Bodies(made[f]), PiecesOf(files[f]))

LEMMA MadeGrows ==
  ASSUME ChunkerInv, FinishFile, made \in Seq(MadeFile)
  PROVE  /\ made' \in Seq(MadeFile) /\ Len(made') = Len(made) + 1
         /\ \A f \in 1 .. Len(made) : made'[f] = made[f]
         /\ Bodies(made'[Len(made) + 1]) = Flushed
         /\ Told(Flushed) \in Seq(Piece) /\ TellsUpTo(Told(Flushed), Len(doc) + 1, 1)
<1>1. /\ Formed /\ config \in Configs
      /\ Stands(chunks, current, pending, pos, frag)
  BY DocumentIsFormed DEF ChunkerInv, FinishFile
<1>2. /\ AllSound(Flushed) /\ Told(Flushed) \in Seq(Piece)
      /\ Told(Flushed) = Told(chunks) \o current.pieces
  BY <1>1, SoundFlushed DEF Stands, Flushed
<1>3. Len(Flushed) \in Nat /\ \A k \in 1 .. Len(Flushed) : Sound(Flushed[k])
  BY <1>2 DEF AllSound
<1> DEFINE x == [k \in 1 .. Len(Flushed) |->
                   [body |-> Flushed[k], prefix |-> PrefixSize(Flushed[k])]]
<1>4. x \in MadeFile
  <2>1. \A k \in 1 .. Len(Flushed) : Flushed[k] \in RawChunk /\ PrefixSize(Flushed[k]) \in Nat
    BY <1>1, <1>3, PrefixFits DEF Sound
  <2> QED BY <1>3, <2>1 DEF MadeFile
<1>5. Bodies(x) = Flushed
  <2>1. Len(x) = Len(Flushed) /\ \A k \in 1 .. Len(Flushed) : x[k].body = Flushed[k]
    BY <1>3
  <2>2. Flushed \in Seq(RawChunk)
    BY <1>2 DEF AllSound
  <2> HIDE DEF x
  <2>3. Bodies(x) = [k \in 1 .. Len(Flushed) |-> Flushed[k]]
    BY <2>1 DEF Bodies
  <2> QED BY <2>2, <2>3
<1>6. made' = Append(made, x)
  BY DEF FinishFile
<1> HIDE DEF x
<1>7. /\ made' \in Seq(MadeFile) /\ Len(made') = Len(made) + 1 /\ Len(made) \in Nat
      /\ \A f \in 1 .. Len(made) : made'[f] = made[f]
      /\ made'[Len(made) + 1] = x
  BY <1>4, <1>6, AppendProperties
<1>8. pos = Len(doc) + 1 /\ frag = 0 /\ pending = None
  <2>1. /\ pos \in 1 .. Len(doc) + 1 /\ pos > Len(doc) /\ Len(doc) \in Nat /\ frag \in Nat
        /\ (frag > 0 => pos \in Sections) /\ (frag = 0 => pending = None)
    BY <1>1 DEF Stands, FinishFile, Formed
  <2>2. pos = Len(doc) + 1 /\ pos \notin Sections
    BY <2>1 DEF Sections
  <2> QED BY <2>1, <2>2
<1>9. TellsUpTo(Told(Flushed), Len(doc) + 1, 1)
  <2>1. TellsUpTo(Told(Flushed) \o pending.pieces, Len(doc) + 1, 1)
    BY <1>1, <1>2, <1>8 DEF Stands
  <2>2. Told(Flushed) \o pending.pieces = Told(Flushed)
    BY <1>2, <1>8, NoneIs, ConcatEmptySeq
  <2> QED BY <2>1, <2>2
<1> QED BY <1>2, <1>5, <1>7, <1>9

LEMMA MadeInit == Init => MadeInv
BY DEF Init, ChunkInit, MadeInv

LEMMA MadeStep == ChunkerInv /\ MadeInv /\ [Next]_vars => MadeInv'
<1> SUFFICES ASSUME ChunkerInv, MadeInv, [Next]_vars PROVE MadeInv'
  OBVIOUS
<1>1. /\ made \in Seq(MadeFile) /\ at = Len(made) + 1 /\ Len(made) \in Nat
      /\ \A f \in 1 .. Len(made) : Tell(Bodies(made[f]), PiecesOf(files[f]))
  BY DEF MadeInv
<1>2. CASE FinishFile
  <2>1. /\ made' \in Seq(MadeFile) /\ Len(made') = Len(made) + 1
        /\ \A f \in 1 .. Len(made) : made'[f] = made[f]
        /\ Bodies(made'[Len(made) + 1]) = Flushed
        /\ Told(Flushed) \in Seq(Piece) /\ TellsUpTo(Told(Flushed), Len(doc) + 1, 1)
    BY <1>1, <1>2, MadeGrows
  <2>2. at' = at + 1 /\ files' = files /\ doc = files[Len(made) + 1]
    BY <1>1, <1>2 DEF FinishFile, doc
  <2>3. PiecesBefore(Len(doc) + 1, 1) = PiecesOf(doc)
    <3>1. Len(doc) \in Nat
      BY <1>2, DocumentIsFormed DEF ChunkerInv, FinishFile, Formed
    <3>2. ASSUME NEW p \in PiecesOf(doc) PROVE p[1] < Len(doc) + 1
      <4>1. PICK j \in 1 .. Len(doc) : p \in {j} \X (1 .. Len(doc[j].frags))
        BY DEF PiecesOf
      <4>2. p[1] = j
        BY <4>1
      <4> QED BY <3>1, <4>1, <4>2
    <3> QED BY <3>2 DEF PiecesBefore
  <2>4. Tell(Flushed, PiecesOf(doc))
    BY <2>1, <2>3, TellIs
  <2>5. ASSUME NEW f \in 1 .. Len(made') PROVE Tell(Bodies(made'[f]), PiecesOf(files'[f]))
    <3>1. CASE f \in 1 .. Len(made)
      BY <1>1, <2>1, <2>2, <3>1
    <3>2. CASE f = Len(made) + 1
      <4>1. Bodies(made'[f]) = Flushed /\ files'[f] = doc
        BY <2>1, <2>2, <3>2
      <4> QED BY <2>4, <4>1
    <3> QED BY <1>1, <2>1, <3>1, <3>2
  <2>6. \A f \in 1 .. Len(made') : Tell(Bodies(made[f])', PiecesOf(files[f])')
    BY <2>5 DEF Bodies, PiecesOf
  <2>7. at' = Len(made') + 1 /\ made' \in Seq(MadeFile)
    BY <1>1, <2>1, <2>2
  <2> QED BY <2>5, <2>7 DEF MadeInv, Tell, Bodies, PiecesOf
<1>3. CASE ~FinishFile
  <2>1. UNCHANGED <<made, at, files>>
    BY <1>3 DEF Next, Chunk, ChunkNext, Accumulate, StartChunk, BeginSplit, MergePending,
                TakeFragment, EndSplit, NextFragment, BeginEmbedding, Embedded, Upsert, Ended,
                vars, chunkVars
  <2> QED BY <1>1, <2>1 DEF MadeInv
<1> QED BY <1>2, <1>3

\* At every moment the chunks so far tell each piece of the document up to
\* where the chunker stands, once and in order: chunk_markdown loses, repeats
\* and moves no text, however sections are joined, cut and their tails moved.
THEOREM ChunksTellTheDocument == Spec => []NothingIsLost
<1>1. ChunkerInv /\ MadeInv => NothingIsLost
  <2> SUFFICES ASSUME ChunkerInv, MadeInv PROVE NothingIsLost
    OBVIOUS
  <2>1. ASSUME Chunking PROVE Tell(SoFar, PiecesBefore(pos, IF frag = 0 THEN 1 ELSE frag))
    <3>1. Stands(chunks, current, pending, pos, frag)
      BY <2>1 DEF ChunkerInv
    <3> DEFINE k == IF frag = 0 THEN 1 ELSE frag
    <3>2. Told(SoFar) \in Seq(Piece) /\ TellsUpTo(Told(SoFar), pos, k)
      <4>1. /\ Told(SoFar) \in Seq(Piece)
            /\ Told(SoFar) = (Told(chunks) \o current.pieces) \o pending.pieces
        BY <3>1, SoFarIs
      <4> QED BY <3>1, <4>1 DEF Stands
    <3> HIDE DEF k
    <3> QED BY <3>2, TellIs DEF k
  <2> QED BY <2>1 DEF NothingIsLost, MadeInv, Bodies
<1> QED BY <1>1, MadeInit, MadeStep, ChunkerInvariant, PTL DEF Spec

\* Every chunk is under the deepest heading its pieces share, inside the range
\* of that heading, and its breadcrumb names no heading whose line it holds:
\* RawChunk::append and HeadingTree keep it so through every join.
THEOREM ChunksAreUnderTheirHeadings == Spec => []ChunksAreAttributed
<1>1. ChunkerInv => ChunksAreAttributed
  <2> SUFFICES ASSUME ChunkerInv, Chunking, NEW k \in 1 .. Len(SoFar)
               PROVE  LET c == SoFar[k]
                          common == CommonHeadings(c)
                          over == common \ Leading(c)
                      IN /\ config.isolate => Under(c) = {c.section}
                         /\ IF common = {}
                            THEN c.section = NoHeading \/
                                 (Under(c) = {c.section} /\ Level(c.section) = 0)
                            ELSE /\ Deepest(c.section, common)
                                 /\ Under(c) \subseteq c.section .. SubtreeEnd(c.section)
                         /\ IF over = {} THEN c.crumb = NoHeading ELSE Deepest(c.crumb, over)
                         /\ c.crumb # NoHeading => Ancestors(c.crumb) \cap Leading(c) = {}
    BY DEF ChunksAreAttributed
  <2>1. Formed /\ AllSound(SoFar)
    BY DocumentIsFormed, SoFarIs DEF ChunkerInv
  <2> DEFINE c == SoFar[k]
  <2>2. c \in RawChunk /\ Attributed(c)
    BY <2>1 DEF AllSound, Sound
  <2> HIDE DEF c
  <2>3. LET common == CommonHeadings(c)
            over == common \ Leading(c)
        IN /\ config.isolate => Under(c) = {c.section}
           /\ IF common = {}
              THEN c.section = NoHeading \/
                   (Under(c) = {c.section} /\ Level(c.section) = 0)
              ELSE /\ Deepest(c.section, common)
                   /\ Under(c) \subseteq c.section .. SubtreeEnd(c.section)
           /\ IF over = {} THEN c.crumb = NoHeading ELSE Deepest(c.crumb, over)
           /\ c.crumb # NoHeading => Ancestors(c.crumb) \cap Leading(c) = {}
    BY <2>1, <2>2, AttributedSays
  <2> QED BY <2>3 DEF c
<1> QED BY <1>1, ChunkerInvariant, PTL

\* How far a chunk with its breadcrumb can be beyond max_chunk_size: the white
\* space at its last joint and before its body, which the code does not compare,
\* the bytes of what was cut by characters, and one small fragment joined to a
\* full one.  Nothing adds up over the joins, and the reserve for the breadcrumb
\* is enough for it whatever the heading path.
THEOREM ChunksFit == Spec => []SizesAreBounded
<1>1. ChunkerInv => SizesAreBounded
  <2> SUFFICES ASSUME ChunkerInv, Chunking, NEW k \in 1 .. Len(SoFar)
               PROVE  TextSize(SoFar[k]) <= Longest(SoFar[k]) + Width * HeadingReserve
                         + (IF PrefixSize(SoFar[k]) > 0 THEN MaxBlank ELSE 0)
    BY DEF SizesAreBounded
  <2>1. Formed /\ AllSound(SoFar) /\ config \in Configs
    BY DocumentIsFormed, SoFarIs DEF ChunkerInv
  <2>2. SoFar[k] \in RawChunk /\ Attributed(SoFar[k]) /\ Bounded(SoFar[k])
    BY <2>1 DEF AllSound, Sound
  <2> QED BY <2>1, <2>2, BoundedSays
<1> QED BY <1>1, ChunkerInvariant, PTL

-----------------------------------------------------------------------------
(***************************************************************************)
(* Batches, and the answers put back in order.                             *)
(***************************************************************************)
Text == Nat \X Nat
Upto(b) == IF b * BatchSize < Len(texts) THEN b * BatchSize ELSE Len(texts)

LEMMA Divided ==
  ASSUME NEW n \in Nat
  PROVE  LET q == (n + BatchSize - 1) \div BatchSize IN
         /\ q \in Nat /\ n <= q * BatchSize
         /\ \A m \in Nat : m < q => m * BatchSize < n
<1> DEFINE B == BatchSize
           q == (n + B - 1) \div B
<1>1. B \in Nat \ {0} /\ n + B - 1 \in Nat
  BY BatchAssumption
<1>2. /\ q \in Nat /\ B * q <= n + B - 1 /\ n + B - 1 < B * q + B
  <2>1. \A k \in Nat, c \in Nat \ {0} :
           k \div c \in Nat /\ c * (k \div c) <= k /\ k < c * (k \div c) + c
    OBVIOUS
  <2> HIDE DEF B
  <2> QED BY <1>1, <2>1
<1> HIDE DEF B, q
<1>3. ASSUME NEW m \in Nat, m < q PROVE m * B < n
  <2> DEFINE d == q - m - 1
  <2>1. d \in Nat /\ q = m + 1 + d
    BY <1>2, <1>3
  <2> HIDE DEF d
  <2>2. B * q = B * m + B + B * d /\ B * d \in Nat /\ B * m \in Nat
    BY <1>1, <2>1
  <2>3. B * m < n
    BY <1>1, <1>2, <2>2
  <2> QED BY <1>1, <2>3
<1>4. n <= q * B
  BY <1>1, <1>2
<1> QED BY <1>2, <1>3, <1>4 DEF B, q

LEMMA BatchIs ==
  ASSUME texts \in Seq(Text)
  PROVE  /\ Len(texts) \in Nat /\ Batches \in Nat
         /\ Upto(0) = 0 /\ Upto(Batches) = Len(texts)
         /\ \A b \in 1 .. Batches :
              /\ Upto(b - 1) \in 0 .. Len(texts) /\ Upto(b) \in Upto(b - 1) .. Len(texts)
              /\ Batch(b) = SubSeq(texts, Upto(b - 1) + 1, Upto(b))
              /\ Batch(b) \in Seq(Text) /\ Len(Batch(b)) = Upto(b) - Upto(b - 1)
              /\ Len(Batch(b)) > 0
<1> DEFINE n == Len(texts)
           B == BatchSize
<1>1. n \in Nat /\ B \in Nat \ {0} /\ \A i \in 1 .. n : texts[i] \in Text
  BY BatchAssumption
<1>2. /\ Batches \in Nat /\ n <= Batches * B /\ \A m \in Nat : m < Batches => m * B < n
  BY <1>1, Divided DEF Batches
<1>3. Upto(0) = 0 /\ Upto(Batches) = n
  <2>1. 0 * B = 0
    BY <1>1
  <2>2. ~(Batches * B < n)
    BY <1>1, <1>2
  <2> HIDE DEF B
  <2> QED BY <1>1, <2>1, <2>2 DEF Upto, B
<1>4. ASSUME NEW b \in 1 .. Batches
      PROVE  /\ Upto(b - 1) = (b - 1) * B /\ Upto(b - 1) \in 0 .. n - 1
             /\ Upto(b) \in Upto(b - 1) + 1 .. n
  <2> DEFINE m == b - 1
  <2>1. m \in Nat /\ m < Batches /\ b = m + 1
    BY <1>2
  <2> HIDE DEF m
  <2>2. m * B < n /\ m * B \in Nat /\ b * B = m * B + B
    BY <1>1, <1>2, <2>1
  <2>3. Upto(m) = m * B
    BY <2>2 DEF Upto
  <2>4. Upto(b) \in Upto(m) + 1 .. n
    <3>1. Upto(b) = IF b * B < n THEN b * B ELSE n
      BY DEF Upto
    <3>2. \A x, y \in Nat : x < n /\ y \in Nat \ {0} =>
             (IF x + y < n THEN x + y ELSE n) \in x + 1 .. n
      BY <1>1
    <3> HIDE DEF B, n
    <3> QED BY <1>1, <2>2, <2>3, <3>1, <3>2
  <2>5. Upto(m) \in 0 .. n - 1
    BY <1>1, <2>2, <2>3
  <2> QED BY <2>3, <2>4, <2>5 DEF m
<1>5. ASSUME NEW b \in 1 .. Batches
      PROVE  /\ Batch(b) = SubSeq(texts, Upto(b - 1) + 1, Upto(b))
             /\ Batch(b) \in Seq(Text) /\ Len(Batch(b)) = Upto(b) - Upto(b - 1)
  <2> DEFINE x == Upto(b - 1)
             y == Upto(b)
  <2>1. x \in 0 .. n - 1 /\ y \in x + 1 .. n /\ x = (b - 1) * B
    BY <1>4
  <2>2. Batch(b) = SubSeq(texts, x + 1, y)
    BY <2>1 DEF Batch, Upto
  <2> HIDE DEF x, y
  <2>3. /\ SubSeq(texts, x + 1, y) \in Seq(Text)
        /\ Len(SubSeq(texts, x + 1, y)) = IF x + 1 <= y THEN y - (x + 1) + 1 ELSE 0
    <3>1. x + 1 \in Int /\ y \in Int /\ \A i \in x + 1 .. y : texts[i] \in Text
      BY <1>1, <2>1
    <3> QED BY <3>1, SubSeqProperties
  <2>4. (IF x + 1 <= y THEN y - (x + 1) + 1 ELSE 0) = y - x
    BY <1>1, <2>1
  <2> QED BY <2>2, <2>3, <2>4 DEF x, y
<1>6. ASSUME NEW b \in 1 .. Batches
      PROVE  /\ Upto(b - 1) \in 0 .. n /\ Upto(b) \in Upto(b - 1) .. n
             /\ Upto(b) - Upto(b - 1) > 0
  BY <1>1, <1>4
<1> QED BY <1>1, <1>2, <1>3, <1>5, <1>6

\* Batches one after the other are the texts, and an answer that is short of a
\* vector leaves the whole short.
LEMMA CollectIs ==
  ASSUME texts \in Seq(Text), NEW s \in Seq(Seq(Text)), Len(s) = Batches,
         \A b \in 1 .. Batches : s[b] = Batch(b) \/ Len(s[b]) < Len(Batch(b))
  PROVE  Len(FlattenSeq(s)) = Len(texts) => FlattenSeq(s) = texts
<1> DEFINE n == Batches
           Full(b) == SubSeq(texts, 1, Upto(b))
<1>1. /\ n \in Nat /\ Len(texts) \in Nat /\ Upto(0) = 0 /\ Upto(n) = Len(texts)
      /\ \A b \in 1 .. n :
           /\ Upto(b - 1) \in 0 .. Len(texts) /\ Upto(b) \in Upto(b - 1) .. Len(texts)
           /\ Batch(b) = SubSeq(texts, Upto(b - 1) + 1, Upto(b))
           /\ Batch(b) \in Seq(Text) /\ Len(Batch(b)) = Upto(b) - Upto(b - 1)
      /\ Len(s) = n /\ \A b \in 1 .. n : s[b] = Batch(b) \/ Len(s[b]) < Len(Batch(b))
  BY BatchIs
<1> HIDE DEF n
<1>2. ASSUME n = 0 PROVE FlattenSeq(s) = texts
  <2>1. s = <<>> /\ Len(texts) = 0
    BY <1>1, <1>2, EmptySeq
  <2> QED BY <2>1, FlattenEmpty, EmptySeq
<1>3. ASSUME n > 0 PROVE Len(FlattenSeq(s)) = Len(texts) => FlattenSeq(s) = texts
  <2>1. PICK f : IsFlattening(f, s, Text) /\ FlattenSeq(s) = f[n]
    BY <1>1, <1>3, FlattenIs
  <2>2. /\ f[1] = s[1] /\ \A b \in 2 .. n : f[b] = f[b - 1] \o s[b]
        /\ \A b \in 1 .. n : f[b] \in Seq(Text) /\ s[b] \in Seq(Text)
    <3>1. f \in [1 .. n -> Seq(Text)] /\ \A b \in 1 .. n : s[b] \in Seq(Text)
      <4>1. f \in [1 .. Len(s) -> Seq(Text)]
        BY <2>1 DEF IsFlattening
      <4>2. \A b \in 1 .. Len(s) : s[b] \in Seq(Text)
        OBVIOUS
      <4>3. Len(s) = n
        BY <1>1
      <4> QED BY <4>1, <4>2, <4>3
    <3>2. f[1] = s[1] /\ \A b \in 2 .. n : f[b] = f[b - 1] \o s[b]
      BY <1>1, <2>1 DEF IsFlattening
    <3> QED BY <3>1, <3>2
  <2> DEFINE Good(b) == f[b] = Full(b) \/ Len(f[b]) < Upto(b)
             T == {m \in 0 .. n : m > 0 => Good(m)}
  <2>3. \A b \in 1 .. n : Upto(b) \in Nat
    <3> SUFFICES ASSUME NEW b \in 1 .. n PROVE Upto(b) \in Nat
      OBVIOUS
    <3>1. Upto(b - 1) \in 0 .. Len(texts) /\ Upto(b) \in Upto(b - 1) .. Len(texts)
      BY <1>1
    <3> QED BY <1>1, <3>1
  <2>4. ASSUME NEW b \in 1 .. n, b = 1 \/ Good(b - 1) PROVE Good(b)
    <3>1. CASE b = 1
      <4>1. Batch(b) = Full(b) /\ Len(Batch(b)) = Upto(b) /\ f[b] = s[b]
        <5>1. 1 \in 1 .. n /\ b - 1 = 0 /\ Upto(1) \in Nat
          BY <2>3, <3>1
        <5>2. /\ Batch(1) = SubSeq(texts, Upto(0) + 1, Upto(1))
              /\ Len(Batch(1)) = Upto(1) - Upto(0)
          <6>1. 1 - 1 = 0
            OBVIOUS
          <6>2. \A c \in 1 .. n : /\ Batch(c) = SubSeq(texts, Upto(c - 1) + 1, Upto(c))
                                   /\ Len(Batch(c)) = Upto(c) - Upto(c - 1)
            BY <1>1
          <6>3. /\ Batch(1) = SubSeq(texts, Upto(1 - 1) + 1, Upto(1))
                /\ Len(Batch(1)) = Upto(1) - Upto(1 - 1)
            BY <5>1, <6>2
          <6> QED BY <6>1, <6>3
        <5>3. Upto(0) + 1 = 1 /\ Upto(1) - Upto(0) = Upto(1)
          BY <1>1, <5>1
        <5> QED BY <2>2, <3>1, <5>2, <5>3
      <4>2. s[b] = Batch(b) \/ Len(s[b]) < Len(Batch(b))
        BY <1>1
      <4> QED BY <4>1, <4>2
    <3>2. CASE b # 1
      <4> DEFINE x == Upto(b - 1)
                 y == Upto(b)
                 u == f[b - 1]
                 v == s[b]
      <4>1. /\ b \in 2 .. n /\ b - 1 \in 1 .. n /\ f[b] = u \o v
            /\ u \in Seq(Text) /\ v \in Seq(Text)
        <5>1. b \in 2 .. n /\ b - 1 \in 1 .. n
          BY <1>1, <3>2
        <5> QED BY <2>2, <5>1
      <4>2. /\ x \in 0 .. Len(texts) /\ y \in x .. Len(texts)
            /\ Batch(b) = SubSeq(texts, x + 1, y) /\ Len(Batch(b)) = y - x
            /\ u = SubSeq(texts, 1, x) \/ Len(u) < x
            /\ v = Batch(b) \/ Len(v) < y - x
        BY <1>1, <2>4, <3>2
      <4> HIDE DEF x, y, u, v
      <4>3. CASE u = SubSeq(texts, 1, x) /\ v = Batch(b)
        <5>1. SubSeq(texts, 1, x) \o SubSeq(texts, x + 1, y) = SubSeq(texts, 1, y)
          <6>1. 1 \in 1 .. Len(texts) + 1 /\ x \in 1 - 1 .. Len(texts) /\ y \in x .. Len(texts)
            BY <1>1, <4>2
          <6> QED BY <6>1, ConcatAdjacentSubSeq
        <5> QED BY <4>1, <4>2, <4>3, <5>1 DEF y
      <4>4. CASE ~(u = SubSeq(texts, 1, x) /\ v = Batch(b))
        <5>1. Len(u) <= x /\ Len(v) <= y - x /\ (Len(u) < x \/ Len(v) < y - x)
          <6>1. Len(SubSeq(texts, 1, x)) = x
            <7>1. \A i \in 1 .. x : texts[i] \in Text
              BY <1>1, <4>2
            <7>2. Len(SubSeq(texts, 1, x)) = IF 1 <= x THEN x - 1 + 1 ELSE 0
              <8>1. 1 \in Int /\ x \in Int
                BY <4>2
              <8> QED BY <7>1, <8>1, SubSeqProperties
            <7> QED BY <1>1, <4>2, <7>2
          <6>2. Len(u) \in Nat /\ Len(v) \in Nat
            BY <4>1
          <6>3. x \in Nat /\ y \in Nat /\ y - x \in Nat
            BY <1>1, <4>2
          <6> QED BY <4>2, <4>4, <6>1, <6>2, <6>3
        <5>2. Len(f[b]) = Len(u) + Len(v) /\ Len(u) \in Nat /\ Len(v) \in Nat
          BY <4>1, ConcatProperties
        <5>3. Len(f[b]) < y
          <6>1. x \in Nat /\ y \in Nat
            BY <1>1, <4>2
          <6>2. \A a, c \in Nat : a <= x /\ c <= y - x /\ (a < x \/ c < y - x) => a + c < y
            BY <6>1
          <6> QED BY <5>1, <5>2, <6>2
        <5> QED BY <5>3 DEF y
      <4> QED BY <4>3, <4>4
    <3> QED BY <3>1, <3>2
  <2>5. ASSUME NEW k \in 0 .. n - 1, k \in T PROVE k + 1 \in T
    <3>1. k + 1 \in 1 .. n /\ (k + 1) - 1 = k /\ (k + 1 = 1 \/ k > 0) /\ k + 1 \in 0 .. n
      BY <1>1
    <3>2. Good(k + 1)
      <4>1. k + 1 = 1 \/ Good((k + 1) - 1)
        BY <2>5, <3>1
      <4> HIDE DEF Good, n
      <4> QED BY <2>4, <3>1, <4>1
    <3> HIDE DEF Good
    <3> QED BY <3>1, <3>2
  <2>6. 0 \in T
    BY <1>1
  <2>7. \A k \in 0 .. n : k \in T
    <3> HIDE DEF T, n
    <3> QED BY <1>1, <2>5, <2>6, Climb
  <2>8. n \in T /\ n > 0 /\ n \in 1 .. n
    <3>1. n \in 0 .. n /\ n \in 1 .. n
      BY <1>1, <1>3
    <3> HIDE DEF T
    <3> QED BY <1>3, <2>7, <3>1
  <2>9. f[n] = SubSeq(texts, 1, Len(texts)) \/ Len(f[n]) < Len(texts)
    BY <1>1, <2>8
  <2>10. SubSeq(texts, 1, Len(texts)) = texts
    OBVIOUS
  <2>11. Len(f[n]) \in Nat
    <3>1. f[n] \in Seq(Text)
      BY <2>2, <2>8
    <3> QED BY <3>1
  <2>12. Len(texts) \in Nat
    BY <1>1
  <2> QED BY <2>1, <2>9, <2>10, <2>11, <2>12
<1> QED BY <1>1, <1>2, <1>3
\* In any order of 1 .. n, an index has as many below it as it says.
LEMMA RankIs ==
  ASSUME NEW n \in Nat, NEW o \in Orders(n)
  PROVE  /\ \A k \in 1 .. n : \E i \in 1 .. n : o[i] = k
         /\ \A i \in 1 .. n : Cardinality({j \in 1 .. n : o[j] < o[i]}) = o[i] - 1
<1> DEFINE N == 1 .. n
<1>1. /\ o \in [N -> N] /\ \A i, j \in N : o[i] = o[j] => i = j
      /\ N \subseteq Nat /\ \A i \in N : i >= 1
  BY DEF Orders
<1>2. IsFiniteSet(N)
  BY FS_Interval
<1> HIDE DEF N
<1>3. o \in Injection(N, N)
  BY <1>1 DEF Injection, IsInjective
<1>4. o \in Surjection(N, N)
  BY <1>2, <1>3, FS_Injection
<1>5. \A k \in N : \E i \in N : o[i] = k
  BY <1>4 DEF Surjection
<1>6. ASSUME NEW i \in N PROVE Cardinality({j \in N : o[j] < o[i]}) = o[i] - 1
  <2> DEFINE S == {j \in N : o[j] < o[i]}
             R == 1 .. o[i] - 1
             g == [j \in S |-> o[j]]
  <2>1. o[i] \in N /\ o[i] \in Nat /\ o[i] >= 1 /\ o[i] <= n
    BY <1>1 DEF N
  <2>2. \A k : k \in R <=> k \in N /\ k < o[i]
    BY <2>1 DEF N
  <2>3. g \in [S -> R]
    <3>1. \A j \in S : o[j] \in N /\ o[j] < o[i]
      BY <1>1
    <3> HIDE DEF S, R
    <3> QED BY <2>2, <3>1
  <2>4. \A a, b \in S : g[a] = g[b] => a = b
    BY <1>1
  <2>5. \A k \in R : \E a \in S : g[a] = k
    <3> SUFFICES ASSUME NEW k \in R PROVE \E a \in S : g[a] = k
      OBVIOUS
    <3>1. k \in N /\ k < o[i]
      BY <2>2
    <3>2. PICK a \in N : o[a] = k
      BY <1>5, <3>1
    <3> HIDE DEF R
    <3> QED BY <3>1, <3>2
  <2>6. IsFiniteSet(R) /\ Cardinality(R) = o[i] - 1
    <3>1. 1 \in Int /\ o[i] - 1 \in Int
      BY <2>1
    <3>2. (IF 1 > o[i] - 1 THEN 0 ELSE (o[i] - 1) - 1 + 1) = o[i] - 1
      BY <2>1
    <3> QED BY <3>1, <3>2, FS_Interval
  <2> HIDE DEF S, R, g
  <2>7. IsFiniteSet(S)
    BY <1>2, FS_Subset DEF S
  <2>8. g \in Bijection(S, R)
    BY <2>3, <2>4, <2>5 DEF Bijection, Injection, Surjection, IsInjective
  <2>9. Cardinality(R) = Cardinality(S)
    BY <2>7, <2>8, FS_Bijection DEF ExistsBijection
  <2> QED BY <2>6, <2>9 DEF S
<1> QED BY <1>5, <1>6 DEF N

\* Sorted by index, the vectors come in the order of the batch.
LEMMA ByIndexIs ==
  ASSUME NEW t \in Seq(Text), NEW n \in 0 .. Len(t), NEW o \in Orders(n)
  PROVE  LET items == [k \in 1 .. n |-> [index |-> o[k], vector |-> t[o[k]]]]
         IN /\ ByIndex(items) \in Seq(Text) /\ Len(ByIndex(items)) = n
            /\ n = Len(t) => ByIndex(items) = t
<1> DEFINE items == [k \in 1 .. n |-> [index |-> o[k], vector |-> t[o[k]]]]
           Below(i) == {j \in 1 .. Len(items) : items[j].index < items[i].index}
<1>1. /\ n \in Nat /\ Len(items) = n
      /\ \A k \in 1 .. n : items[k].index = o[k] /\ items[k].vector = t[o[k]]
      /\ o \in [1 .. n -> 1 .. n] /\ \A i, j \in 1 .. n : o[i] = o[j] => i = j
      /\ \A k \in 1 .. n : t[k] \in Text
  BY DEF Orders
<1>2. ASSUME NEW i \in 1 .. n PROVE Cardinality(Below(i)) = o[i] - 1
  <2>1. Below(i) = {j \in 1 .. n : o[j] < o[i]}
    <3> HIDE DEF items
    <3> QED BY <1>1
  <2>2. Cardinality({j \in 1 .. n : o[j] < o[i]}) = o[i] - 1
    <3>1. n \in Nat
      OBVIOUS
    <3> QED BY <3>1, RankIs
  <2> HIDE DEF Below
  <2> QED BY <2>1, <2>2
<1>3. ASSUME NEW k \in 1 .. n
      PROVE  Sorted(items)[k] \in 1 .. n /\ o[Sorted(items)[k]] = k
  <2> DEFINE c == CHOOSE i \in 1 .. Len(items) : Cardinality(Below(i)) = k - 1
  <2>1. PICK i \in 1 .. n : o[i] = k
    BY <1>1, RankIs
  <2>2. i \in 1 .. Len(items) /\ Cardinality(Below(i)) = k - 1
    <3> HIDE DEF items, Below
    <3> QED BY <1>1, <1>2, <2>1
  <2>3. c \in 1 .. Len(items) /\ Cardinality(Below(c)) = k - 1
    <3> HIDE DEF items, Below
    <3> QED BY <2>2
  <2>4. Sorted(items)[k] = c
    <3>1. k \in 1 .. Len(items)
      BY <1>1
    <3> HIDE DEF items
    <3> QED BY <3>1 DEF Sorted, Below
  <2> HIDE DEF c, items, Below
  <2>5. c \in 1 .. n /\ o[c] - 1 = k - 1
    BY <1>1, <1>2, <2>3
  <2>6. o[c] \in Nat /\ k \in Nat
    BY <1>1, <2>5
  <2> QED BY <2>4, <2>5, <2>6
<1>4. ByIndex(items) = [k \in 1 .. n |-> t[k]]
  <2> HIDE DEF items
  <2>1. ByIndex(items) = [k \in 1 .. n |-> items[Sorted(items)[k]].vector]
    BY <1>1 DEF ByIndex
  <2>2. ASSUME NEW k \in 1 .. n PROVE items[Sorted(items)[k]].vector = t[k]
    BY <1>1, <1>3
  <2> QED BY <2>1, <2>2
<1> HIDE DEF items
<1>5. /\ [k \in 1 .. n |-> t[k]] \in Seq(Text) /\ Len([k \in 1 .. n |-> t[k]]) = n
      /\ n = Len(t) => [k \in 1 .. n |-> t[k]] = t
  <2>1. n \in Nat /\ \A k \in 1 .. n : t[k] \in Text
    BY <1>1
  <2>2. [k \in 1 .. n |-> t[k]] \in Seq(Text) /\ Len([k \in 1 .. n |-> t[k]]) = n
    BY <2>1
  <2>3. [k \in 1 .. Len(t) |-> t[k]] = t
    OBVIOUS
  <2> QED BY <2>2, <2>3
<1> QED BY <1>4, <1>5 DEF items
-----------------------------------------------------------------------------
(***************************************************************************)
(* The texts of several documents as one list.                             *)
(***************************************************************************)
TextsOf(f) == [k \in 1 .. Len(made[f]) |-> <<f, k>>]
TextLists == [f \in 1 .. Len(made) |-> TextsOf(f)]

LEMMA TextListsAre ==
  ASSUME made \in Seq(MadeFile)
  PROVE  /\ Len(made) \in Nat /\ TextLists \in Seq(Seq(Text)) /\ Len(TextLists) = Len(made)
         /\ \A f \in 1 .. Len(made) :
              /\ Len(made[f]) \in Nat /\ TextLists[f] = TextsOf(f)
              /\ TextsOf(f) \in Seq(Text) /\ Len(TextsOf(f)) = Len(made[f])
              /\ \A k \in 1 .. Len(made[f]) : TextsOf(f)[k] = <<f, k>>
         /\ AllTexts = FlattenSeq(TextLists)
<1>1. Len(made) \in Nat /\ \A f \in 1 .. Len(made) : Len(made[f]) \in Nat
  BY DEF MadeFile
<1>2. ASSUME NEW f \in 1 .. Len(made)
      PROVE  /\ TextsOf(f) \in Seq(Text) /\ Len(TextsOf(f)) = Len(made[f])
             /\ \A k \in 1 .. Len(made[f]) : TextsOf(f)[k] = <<f, k>>
  BY <1>1 DEF TextsOf, Text
<1>3. /\ TextLists \in Seq(Seq(Text)) /\ Len(TextLists) = Len(made)
      /\ \A f \in 1 .. Len(made) : TextLists[f] = TextsOf(f)
  BY <1>1, <1>2 DEF TextLists
<1>4. AllTexts = FlattenSeq(TextLists)
  BY DEF AllTexts, TextLists, TextsOf
<1> QED BY <1>1, <1>2, <1>3, <1>4

\* A text is found where the texts of the documents before it end.
LEMMA AllTextsAre ==
  ASSUME made \in Seq(MadeFile)
  PROVE  /\ AllTexts \in Seq(Text)
         /\ \A f \in 1 .. Len(made) : \A k \in 1 .. Len(made[f]) :
               AllTexts[Start(f) + k] = <<f, k>>
<1> DEFINE n == Len(made)
           s == TextLists
<1>1. /\ n \in Nat /\ s \in Seq(Seq(Text)) /\ Len(s) = n /\ AllTexts = FlattenSeq(s)
      /\ \A f \in 1 .. n : /\ Len(made[f]) \in Nat /\ s[f] = TextsOf(f)
                           /\ s[f] \in Seq(Text) /\ Len(s[f]) = Len(made[f])
                           /\ \A k \in 1 .. Len(made[f]) : s[f][k] = <<f, k>>
  BY TextListsAre
<1> HIDE DEF n, s
<1>2. CASE n = 0
  <2>1. s = <<>>
    BY <1>1, <1>2, EmptySeq
  <2>2. AllTexts = <<>> /\ 1 .. n = {}
    BY <1>1, <1>2, <2>1, FlattenEmpty
  <2> QED BY <2>2 DEF n
<1>3. CASE n > 0
  <2>1. PICK fl : IsFlattening(fl, s, Text) /\ FlattenSeq(s) = fl[n]
    BY <1>1, <1>3, FlattenIs
  <2>2. /\ fl \in [1 .. n -> Seq(Text)] /\ fl[1] = s[1]
        /\ \A f \in 2 .. n : fl[f] = fl[f - 1] \o s[f]
    BY <1>1, <2>1 DEF IsFlattening
  <2> DEFINE C == [g \in 0 .. n |-> IF g = 0 THEN 0 ELSE Len(fl[g])]
  <2>3. C[0] = 0 /\ \A g \in 1 .. n : C[g] = Len(fl[g]) /\ C[g] \in Nat
    BY <1>1, <2>2
  <2>4. ASSUME NEW g \in 1 .. n
        PROVE  /\ C[g] = C[g - 1] + Len(made[g]) /\ C[g - 1] \in Nat
               /\ \A k \in 1 .. Len(made[g]) : fl[g][C[g - 1] + k] = <<g, k>>
               /\ g > 1 => \A i \in 1 .. Len(fl[g - 1]) : fl[g][i] = fl[g - 1][i]
    <3>1. CASE g = 1
      <4>1. C[g - 1] = 0 /\ fl[g] = s[g] /\ C[g] = Len(fl[g]) /\ ~(g > 1)
        BY <2>2, <2>3, <3>1
      <4>2. /\ Len(made[g]) \in Nat /\ Len(s[g]) = Len(made[g])
            /\ \A k \in 1 .. Len(made[g]) : s[g][k] = <<g, k>>
        BY <1>1
      <4>3. \A k \in 1 .. Len(made[g]) : 0 + k = k
        BY <4>2
      <4> HIDE DEF C
      <4> QED BY <4>1, <4>2, <4>3
    <3>2. CASE g # 1
      <4> DEFINE u == fl[g - 1]
                 v == s[g]
      <4>1. g \in 2 .. n /\ g - 1 \in 1 .. n /\ g > 1
        BY <1>1, <3>2
      <4>2. /\ u \in Seq(Text) /\ v \in Seq(Text) /\ fl[g] = u \o v
            /\ C[g - 1] = Len(u) /\ C[g] = Len(fl[g])
        <5> HIDE DEF C
        <5> QED BY <1>1, <2>2, <2>3, <4>1
      <4>3. /\ Len(made[g]) \in Nat /\ Len(v) = Len(made[g])
            /\ \A k \in 1 .. Len(made[g]) : v[k] = <<g, k>>
        BY <1>1
      <4> HIDE DEF C, u, v
      <4>4. /\ Len(u) \in Nat /\ Len(u \o v) = Len(u) + Len(v)
            /\ \A i \in 1 .. Len(u) : (u \o v)[i] = u[i]
            /\ \A k \in 1 .. Len(v) : (u \o v)[Len(u) + k] = v[k]
        <5>1. Len(u) \in Nat /\ Len(v) \in Nat /\ Len(u \o v) = Len(u) + Len(v)
          BY <4>2
        <5>2. \A i \in 1 .. Len(u) : (u \o v)[i] = u[i]
          BY <4>2, <5>1
        <5>3. \A k \in 1 .. Len(v) : (u \o v)[Len(u) + k] = v[k]
          BY <4>2, <5>1
        <5> QED BY <5>1, <5>2, <5>3
      <4> QED BY <4>2, <4>3, <4>4 DEF u
    <3> QED BY <3>1, <3>2
  <2>5. C = [g \in 0 .. Len(made) |-> IF g = 0 THEN 0 ELSE C[g - 1] + Len(made[g])]
    <3>1. ASSUME NEW g \in 0 .. n PROVE C[g] = IF g = 0 THEN 0 ELSE C[g - 1] + Len(made[g])
      <4>1. g = 0 \/ (g # 0 /\ g \in 1 .. n)
        BY <1>1
      <4> HIDE DEF C
      <4> QED BY <2>3, <2>4, <4>1
    <3>2. C = [g \in 0 .. n |-> C[g]]
      OBVIOUS
    <3> HIDE DEF C
    <3> QED BY <3>1, <3>2 DEF n
  <2>6. ASSUME NEW f \in 1 .. n PROVE Start(f) = C[f - 1]
    <3>1. PICK c : /\ c = [g \in 0 .. Len(made) |-> IF g = 0 THEN 0 ELSE c[g - 1] + Len(made[g])]
                   /\ Start(f) = c[f - 1]
      <4> HIDE DEF C
      <4> QED BY <2>5, Zenon DEF Start
    <3> DEFINE T == {m \in 0 .. n : c[m] = C[m]}
    <3> HIDE DEF C
    <3>2. c[0] = 0 /\ \A g \in 1 .. n : c[g] = c[g - 1] + Len(made[g])
      <4>1. \A g \in 0 .. n : c[g] = IF g = 0 THEN 0 ELSE c[g - 1] + Len(made[g])
        BY <3>1 DEF n
      <4>2. 0 \in 0 .. n /\ \A g \in 1 .. n : g \in 0 .. n /\ g # 0
        BY <1>1
      <4> QED BY <4>1, <4>2
    <3>3. 0 \in T
      BY <1>1, <2>3, <3>2
    <3>4. ASSUME NEW k \in 0 .. n - 1, k \in T PROVE k + 1 \in T
      <4>1. k + 1 \in 1 .. n /\ (k + 1) - 1 = k /\ k + 1 \in 0 .. n /\ c[k] = C[k]
        BY <1>1, <3>4
      <4>2. c[k + 1] = c[(k + 1) - 1] + Len(made[k + 1])
        BY <3>2, <4>1
      <4>3. C[k + 1] = C[(k + 1) - 1] + Len(made[k + 1])
        BY <2>4, <4>1
      <4> QED BY <4>1, <4>2, <4>3
    <3>5. \A k \in 0 .. n : k \in T
      <4> HIDE DEF T
      <4> QED BY <1>1, <3>3, <3>4, Climb
    <3>6. f - 1 \in 0 .. n
      BY <1>1
    <3>7. f - 1 \in T
      <4> HIDE DEF T
      <4> QED BY <3>5, <3>6
    <3> QED BY <3>1, <3>7
  <2> HIDE DEF C
  <2>7. ASSUME NEW f \in 1 .. n
        PROVE  \A i \in 1 .. Len(fl[f]) : fl[n][i] = fl[f][i]
    <3> DEFINE Keeps(m) == /\ Len(fl[m]) >= Len(fl[f])
                           /\ \A i \in 1 .. Len(fl[f]) : fl[m][i] = fl[f][i]
               T == {m \in 0 .. n : m >= f => Keeps(m)}
    <3>0. \A m \in 1 .. n : Len(fl[m]) \in Nat
      BY <2>2
    <3>1. 0 \in T
      BY <1>1
    <3>2. ASSUME NEW k \in 0 .. n - 1, k \in T PROVE k + 1 \in T
      <4>1. k + 1 \in 0 .. n /\ k \in Nat /\ f \in Nat
        BY <1>1
      <4>2. CASE k + 1 < f
        <5>1. ~(k + 1 >= f)
          BY <4>1, <4>2
        <5> HIDE DEF Keeps
        <5> QED BY <4>1, <5>1
      <4>3. CASE k + 1 = f
        <5>1. Keeps(k + 1)
          BY <3>0, <4>3
        <5> HIDE DEF Keeps
        <5> QED BY <4>1, <5>1
      <4>4. CASE k >= f
        <5>1. k \in 1 .. n /\ k + 1 \in 1 .. n /\ k + 1 > 1 /\ (k + 1) - 1 = k
          BY <1>1, <4>1, <4>4
        <5>2. Keeps(k)
          BY <3>2, <4>4
        <5>3. /\ \A i \in 1 .. Len(fl[k]) : fl[k + 1][i] = fl[k][i]
              /\ Len(fl[k + 1]) >= Len(fl[k])
          <6>1. /\ C[k + 1] = C[k] + Len(made[k + 1])
                /\ \A i \in 1 .. Len(fl[k]) : fl[k + 1][i] = fl[k][i]
            BY <2>4, <5>1
          <6>2. Len(made[k + 1]) \in Nat
            BY <1>1, <5>1
          <6>3. C[k + 1] = Len(fl[k + 1]) /\ C[k] = Len(fl[k]) /\ C[k] \in Nat
            BY <2>3, <5>1
          <6>4. C[k + 1] >= C[k]
            <7>1. \A x, y \in Nat : x + y >= x
              OBVIOUS
            <7>2. C[k + 1] = C[k] + Len(made[k + 1])
              BY <6>1
            <7>3. C[k] \in Nat
              BY <6>3
            <7> QED BY <6>2, <7>1, <7>2, <7>3
          <6> QED BY <6>1, <6>3, <6>4
        <5>4. Keeps(k + 1)
          <6>1. Len(fl[k]) \in Nat /\ Len(fl[k + 1]) \in Nat /\ Len(fl[f]) \in Nat
            BY <3>0, <5>1
          <6>2. \A i \in 1 .. Len(fl[f]) : i \in 1 .. Len(fl[k])
            BY <5>2, <6>1
          <6> QED BY <5>2, <5>3, <6>1, <6>2
        <5> HIDE DEF Keeps
        <5> QED BY <4>1, <5>4
      <4> QED BY <4>1, <4>2, <4>3, <4>4
    <3>3. \A k \in 0 .. n : k \in T
      <4> HIDE DEF T
      <4> QED BY <1>1, <3>1, <3>2, Climb
    <3>4. n \in T
      <4>1. n \in 0 .. n
        BY <1>1
      <4> HIDE DEF T
      <4> QED BY <3>3, <4>1
    <3>5. n >= f
      BY <1>1
    <3> QED BY <3>4, <3>5
  <2>8. AllTexts = fl[n] /\ AllTexts \in Seq(Text)
    <3>1. n \in 1 .. n
      BY <1>1, <1>3
    <3> QED BY <1>1, <2>1, <2>2, <3>1
  <2>9. ASSUME NEW f \in 1 .. n, NEW k \in 1 .. Len(made[f])
        PROVE  AllTexts[Start(f) + k] = <<f, k>>
    <3>1. /\ Start(f) = C[f - 1] /\ C[f - 1] \in Nat /\ C[f] = C[f - 1] + Len(made[f])
          /\ fl[f][C[f - 1] + k] = <<f, k>> /\ C[f] = Len(fl[f]) /\ Len(made[f]) \in Nat
      BY <1>1, <2>3, <2>4, <2>6
    <3>2. C[f - 1] + k \in 1 .. Len(fl[f])
      <4>1. \A x, y \in Nat : \A m \in 1 .. y : x + m \in 1 .. x + y
        OBVIOUS
      <4> QED BY <3>1, <4>1
    <3>3. fl[n][C[f - 1] + k] = fl[f][C[f - 1] + k]
      BY <2>7, <3>2
    <3> QED BY <2>8, <3>1, <3>3
  <2> QED BY <2>8, <2>9 DEF n
<1> QED BY <1>1, <1>2, <1>3
-----------------------------------------------------------------------------
(***************************************************************************)
(* The invariant of the flush.                                             *)
(***************************************************************************)
Slot == [answered : BOOLEAN, vectors : Seq(Text)]

\* A batch that answered has its own vectors in their order, or too few.
Answers(s) == \A b \in 1 .. Batches :
                 s[b].vectors = Batch(b) \/ Len(s[b].vectors) < Len(Batch(b))

FlushInv ==
  /\ made \in Seq(MadeFile)
  /\ phase # "idle" => ~Chunking /\ texts = AllTexts
  /\ phase = "running" =>
       slots \in [1 .. Batches -> Slot] /\ Answers(slots) /\ inFlight \subseteq 1 .. Batches
  /\ phase = "done" => vectors = texts
  /\ phase # "done" => points = <<>>
  /\ EveryChunkItsVector

LEMMA AnswerKeeps ==
  ASSUME texts \in Seq(Text), slots \in [1 .. Batches -> Slot], Answers(slots),
         inFlight \subseteq 1 .. Batches, Answer
  PROVE  /\ slots' \in [1 .. Batches -> Slot] /\ Answers(slots')
         /\ inFlight' \subseteq 1 .. Batches
<1>1. PICK b \in inFlight :
         /\ \E n \in {Len(Batch(b))} \cup (IF "short" \in ServerFaults
                                           THEN {Len(Batch(b)) - 1} ELSE {}) :
              \E o \in Orders(n) :
                slots' = [slots EXCEPT ![b] =
                  [answered |-> TRUE,
                   vectors |-> ByIndex([k \in 1 .. n |->
                                  [index |-> o[k], vector |-> Batch(b)[o[k]]]])]]
         /\ inFlight' = (inFlight \ {b}) \cup Spawned
  BY DEF Answer, Place
<1>2. b \in 1 .. Batches /\ Batch(b) \in Seq(Text) /\ Len(Batch(b)) > 0 /\ Len(Batch(b)) \in Nat
  <2>1. b \in 1 .. Batches
    BY <1>1
  <2>2. Batch(b) \in Seq(Text) /\ Len(Batch(b)) > 0
    BY <2>1, BatchIs
  <2> QED BY <2>1, <2>2
<1>3. PICK n, o :
         /\ n \in 0 .. Len(Batch(b)) /\ o \in Orders(n)
         /\ slots' = [slots EXCEPT ![b] =
              [answered |-> TRUE,
               vectors |-> ByIndex([k \in 1 .. n |-> [index |-> o[k], vector |-> Batch(b)[o[k]]]])]]
  <2>1. PICK n \in {Len(Batch(b))} \cup (IF "short" \in ServerFaults
                                        THEN {Len(Batch(b)) - 1} ELSE {}) :
           \E o \in Orders(n) :
              slots' = [slots EXCEPT ![b] =
                [answered |-> TRUE,
                 vectors |-> ByIndex([k \in 1 .. n |->
                                [index |-> o[k], vector |-> Batch(b)[o[k]]]])]]
    BY <1>1
  <2>2. n \in 0 .. Len(Batch(b))
    BY <1>2, <2>1
  <2>3. PICK o \in Orders(n) :
           slots' = [slots EXCEPT ![b] =
             [answered |-> TRUE,
              vectors |-> ByIndex([k \in 1 .. n |->
                             [index |-> o[k], vector |-> Batch(b)[o[k]]]])]]
    BY <2>1
  <2> QED BY <2>2, <2>3
<1> DEFINE v == ByIndex([k \in 1 .. n |-> [index |-> o[k], vector |-> Batch(b)[o[k]]]])
<1>4. v \in Seq(Text) /\ Len(v) = n /\ (n = Len(Batch(b)) => v = Batch(b))
  BY <1>2, <1>3, ByIndexIs
<1> HIDE DEF v
<1>5. slots' = [slots EXCEPT ![b] = [answered |-> TRUE, vectors |-> v]]
  BY <1>3 DEF v
<1>6. slots' \in [1 .. Batches -> Slot]
  BY <1>2, <1>4, <1>5 DEF Slot
<1>7. v = Batch(b) \/ Len(v) < Len(Batch(b))
  BY <1>2, <1>3, <1>4
<1>8. Answers(slots')
  <2>1. slots'[b].vectors = v
    BY <1>2, <1>5
  <2>2. \A c \in 1 .. Batches : c # b => slots'[c] = slots[c]
    BY <1>5
  <2> QED BY <1>7, <2>1, <2>2 DEF Answers
<1>9. inFlight' \subseteq 1 .. Batches
  BY <1>1 DEF Spawned
<1> QED BY <1>6, <1>8, <1>9

LEMMA CollectKeeps ==
  ASSUME texts \in Seq(Text), slots \in [1 .. Batches -> Slot], Answers(slots), Collect,
         phase' = "done"
  PROVE  vectors' = texts
<1> DEFINE s == [b \in 1 .. Len(slots) |-> slots[b].vectors]
<1>1. Batches \in Nat
  BY BatchIs
<1>2. Len(slots) = Batches
  BY <1>1
<1>3. /\ s \in Seq(Seq(Text)) /\ Len(s) = Batches
      /\ \A b \in 1 .. Batches : s[b] = slots[b].vectors
  BY <1>1, <1>2 DEF Slot
<1>4. vectors' = FlattenSeq(s) /\ Len(vectors') = Len(texts)
  BY DEF Collect
<1> HIDE DEF s
<1>5. \A b \in 1 .. Batches : s[b] = Batch(b) \/ Len(s[b]) < Len(Batch(b))
  BY <1>3 DEF Answers
<1> QED BY <1>3, <1>4, <1>5, CollectIs

LEMMA EmbedStarts ==
  ASSUME texts' \in Seq(Text), Embed(texts')
  PROVE  slots' \in [1 .. Batches' -> Slot] /\ Answers(slots)' /\ inFlight' \subseteq 1 .. Batches'
<1> DEFINE count == (Len(texts') + BatchSize - 1) \div BatchSize
           first == IF count < Window THEN count ELSE Window
<1>1. /\ inFlight' = 1 .. first /\ slots' = [b \in 1 .. count |-> NotAnswered]
      /\ Batches' = count
  BY DEF Embed, Batches
<1>2. Len(texts') \in Nat /\ \A i \in 1 .. Len(texts') : texts'[i] \in Text
  OBVIOUS
<1>3. count \in Nat /\ \A m \in Nat : m < count => m * BatchSize < Len(texts')
  BY <1>2, Divided
<1> HIDE DEF count
<1>4. inFlight' \subseteq 1 .. count
  <2>1. Window \in Nat
    BY BatchAssumption DEF Window
  <2>2. first \in Nat /\ first <= count
    BY <1>3, <2>1
  <2> HIDE DEF first
  <2> QED BY <1>1, <1>3, <2>2
<1>5. slots' \in [1 .. Batches' -> Slot]
  BY <1>1 DEF NotAnswered, Slot
<1>6. ASSUME NEW b \in 1 .. count PROVE Len(<<>>) < Len(Batch(b)')
  <2> DEFINE x == (b - 1) * BatchSize
             y == IF b * BatchSize < Len(texts') THEN b * BatchSize ELSE Len(texts')
  <2>1. b - 1 \in Nat /\ b - 1 < count
    BY <1>3
  <2>2. x \in Nat /\ x < Len(texts')
    <3>1. \A m, c \in Nat : m * c \in Nat
      OBVIOUS
    <3>2. BatchSize \in Nat
      BY BatchAssumption
    <3> QED BY <1>3, <2>1, <3>1, <3>2
  <2>3. b * BatchSize = x + BatchSize
    <3>1. \A m, c \in Nat : (m + 1) * c = m * c + c
      OBVIOUS
    <3>2. b = (b - 1) + 1
      BY <2>1
    <3> QED BY <2>1, <3>1, <3>2, BatchAssumption
  <2> HIDE DEF x
  <2>4. y \in Nat /\ y >= x + 1 /\ y <= Len(texts')
    BY <1>2, <2>2, <2>3, BatchAssumption
  <2>5. Batch(b)' = SubSeq(texts', x + 1, y)
    BY DEF Batch, x
  <2> HIDE DEF y
  <2>6. Len(SubSeq(texts', x + 1, y)) = IF x + 1 <= y THEN y - (x + 1) + 1 ELSE 0
    <3>1. x + 1 \in Int /\ y \in Int /\ \A i \in x + 1 .. y : texts'[i] \in Text
      BY <1>2, <2>2, <2>4
    <3> QED BY <3>1, SubSeqProperties
  <2>7. Len(Batch(b)') > 0
    BY <2>2, <2>4, <2>5, <2>6
  <2> QED BY <2>7, EmptySeq
<1>7. Answers(slots)'
  <2>1. \A b \in 1 .. count : slots'[b].vectors = <<>>
    BY <1>1 DEF NotAnswered
  <2> QED BY <1>1, <1>6, <2>1 DEF Answers
<1> QED BY <1>1, <1>4, <1>5, <1>7
LEMMA BatchesSteady ==
  ASSUME texts' = texts
  PROVE  Batches' = Batches /\ \A s : Answers(s)' = Answers(s)
<1>1. Batches' = Batches /\ \A b : Batch(b)' = Batch(b)
  BY DEF Batches, Batch
<1> QED BY <1>1 DEF Answers

LEMMA FlushInit == Init => FlushInv
BY DEF Init, ChunkInit, EmbedInit, FlushInv, EveryChunkItsVector

LEMMA FlushStep == ChunkerInv /\ FlushInv /\ [Next]_vars => FlushInv'
<1> SUFFICES ASSUME ChunkerInv, FlushInv, [Next]_vars PROVE FlushInv'
  OBVIOUS
<1>1. /\ made \in Seq(MadeFile)
      /\ phase # "idle" => ~Chunking /\ texts = AllTexts
      /\ phase = "running" =>
           slots \in [1 .. Batches -> Slot] /\ Answers(slots) /\ inFlight \subseteq 1 .. Batches
      /\ phase = "done" => vectors = texts
      /\ phase # "done" => points = <<>>
      /\ EveryChunkItsVector
  BY DEF FlushInv
<1>2. AllTexts \in Seq(Text)
  BY <1>1, AllTextsAre
<1>3. ASSUME UNCHANGED chunkVars
      PROVE  /\ AllTexts' = AllTexts /\ made' \in Seq(MadeFile) /\ Chunking' = Chunking
             /\ \A f : Start(f)' = Start(f)
  BY <1>1, <1>3 DEF chunkVars, AllTexts, Chunking, Start
<1>4. ASSUME points' = points, made' = made \/ phase # "done" PROVE EveryChunkItsVector'
  BY <1>1, <1>4 DEF EveryChunkItsVector
<1>5. CASE Chunk
  <2>1. ChunkNext /\ UNCHANGED embedVars /\ points' = points
    BY <1>5 DEF Chunk
  <2>2. Chunking
    BY <2>1 DEF ChunkNext, Accumulate, StartChunk, BeginSplit, MergePending, TakeFragment,
                EndSplit, FinishFile, AtSection, AtFragment
  <2>3. phase = "idle" /\ phase' = "idle"
    BY <1>1, <2>1, <2>2 DEF embedVars
  <2>4. made' \in Seq(MadeFile)
    <3>1. CASE FinishFile
      BY <1>1, <3>1, MadeGrows
    <3>2. CASE ~FinishFile
      <4>1. made' = made
        BY <2>1, <3>2 DEF ChunkNext, Accumulate, StartChunk, BeginSplit, MergePending,
                          TakeFragment, EndSplit, NextFragment
      <4> QED BY <1>1, <4>1
    <3> QED BY <3>1, <3>2
  <2>5. points = <<>> /\ EveryChunkItsVector'
    BY <1>1, <1>4, <2>1, <2>3
  <2> QED BY <2>1, <2>3, <2>4, <2>5 DEF FlushInv
<1>6. CASE BeginEmbedding
  <2>1. /\ ~Chunking /\ Embed(AllTexts) /\ UNCHANGED chunkVars /\ points' = points
        /\ texts' = AllTexts /\ phase = "idle" /\ phase' = "running"
    BY <1>6 DEF BeginEmbedding, Embed
  <2>2. texts' \in Seq(Text) /\ Embed(texts')
    BY <1>2, <2>1
  <2>3. slots' \in [1 .. Batches' -> Slot] /\ Answers(slots)' /\ inFlight' \subseteq 1 .. Batches'
    BY <2>2, EmbedStarts
  <2>4. points' = <<>> /\ EveryChunkItsVector'
    BY <1>1, <1>4, <2>1
  <2> QED BY <1>3, <2>1, <2>3, <2>4 DEF FlushInv
<1>7. CASE Embedded
  <2>1. EmbedNext /\ UNCHANGED chunkVars /\ points' = points
    BY <1>7 DEF Embedded
  <2>2. phase = "running" /\ texts' = texts
    BY <2>1 DEF EmbedNext, Answer, CallFails, Collect
  <2>3. /\ texts = AllTexts /\ texts \in Seq(Text) /\ ~Chunking
        /\ slots \in [1 .. Batches -> Slot] /\ Answers(slots) /\ inFlight \subseteq 1 .. Batches
    BY <1>1, <1>2, <2>2
  <2>4. /\ texts' = AllTexts' /\ ~Chunking' /\ made' \in Seq(MadeFile)
        /\ points' = <<>> /\ EveryChunkItsVector'
    BY <1>1, <1>3, <1>4, <2>1, <2>2, <2>3
  <2>5. CASE Answer
    <3>1. /\ slots' \in [1 .. Batches -> Slot] /\ Answers(slots')
          /\ inFlight' \subseteq 1 .. Batches
      BY <2>3, <2>5, AnswerKeeps
    <3>2. Batches' = Batches /\ \A s : Answers(s)' = Answers(s)
      BY <2>2, BatchesSteady
    <3>3. Answers(slots)'
      BY <3>1, <3>2
    <3>4. phase' = "running"
      BY <2>2, <2>5 DEF Answer
    <3> QED BY <2>4, <3>1, <3>2, <3>3, <3>4 DEF FlushInv
  <2>6. CASE CallFails
    <3>1. phase' = "failed"
      BY <2>6 DEF CallFails
    <3> QED BY <2>4, <3>1 DEF FlushInv
  <2>7. CASE Collect
    <3>1. phase' = "done" \/ phase' = "failed"
      BY <2>7 DEF Collect
    <3>2. phase' = "done" => vectors' = texts'
      BY <2>2, <2>3, <2>7, CollectKeeps
    <3> QED BY <2>4, <3>1, <3>2 DEF FlushInv
  <2> QED BY <2>1, <2>5, <2>6, <2>7 DEF EmbedNext
<1>8. CASE Upsert
  <2>1. /\ phase = "done" /\ UNCHANGED chunkVars /\ UNCHANGED embedVars
        /\ points' = [f \in 1 .. Len(made) |->
                        [k \in 1 .. Len(made[f]) |-> vectors[Start(f) + k]]]
    BY <1>8 DEF Upsert
  <2>2. vectors = AllTexts
    BY <1>1, <2>1
  <2>3. EveryChunkItsVector'
    <3>1. Len(made) \in Nat /\ \A f \in 1 .. Len(made) : Len(made[f]) \in Nat
      BY <1>1 DEF MadeFile
    <3>2. /\ Len(points') = Len(made)
          /\ \A f \in 1 .. Len(made) :
               points'[f] = [k \in 1 .. Len(made[f]) |-> vectors[Start(f) + k]]
      BY <2>1, <3>1
    <3>3. ASSUME NEW f \in 1 .. Len(made)
          PROVE  /\ Len(points'[f]) = Len(made[f])
                 /\ \A k \in 1 .. Len(made[f]) : points'[f][k] = <<f, k>>
      <4>1. Len(points'[f]) = Len(made[f])
        <5> DEFINE p == [i \in 1 .. Len(made[f]) |-> vectors[Start(f) + i]]
        <5>1. DOMAIN p = 1 .. Len(made[f]) /\ Len(made[f]) \in Nat
          BY <3>1
        <5>2. points'[f] = p
          BY <3>2
        <5>3. Len(p) = Len(made[f])
          BY <5>1
        <5> QED BY <5>2, <5>3
      <4>2. ASSUME NEW k \in 1 .. Len(made[f]) PROVE points'[f][k] = <<f, k>>
        <5>1. points'[f][k] = vectors[Start(f) + k]
          BY <3>2
        <5> QED BY <1>1, <2>2, <5>1, AllTextsAre
      <4> QED BY <4>1, <4>2
    <3>4. made' = made
      BY <2>1 DEF chunkVars
    <3> QED BY <3>2, <3>3, <3>4 DEF EveryChunkItsVector
  <2>4. /\ phase' = phase /\ texts' = texts /\ slots' = slots /\ inFlight' = inFlight
        /\ vectors' = vectors
    BY <2>1 DEF embedVars
  <2> QED BY <1>1, <1>3, <2>1, <2>3, <2>4 DEF FlushInv
<1>9. CASE UNCHANGED vars
  <2>1. UNCHANGED chunkVars /\ UNCHANGED embedVars /\ points' = points /\ made' = made
    BY <1>9 DEF vars, chunkVars
  <2>2. /\ phase' = phase /\ texts' = texts /\ slots' = slots /\ inFlight' = inFlight
        /\ vectors' = vectors
    BY <2>1 DEF embedVars
  <2>3. Batches' = Batches /\ \A s : Answers(s)' = Answers(s)
    BY <2>2, BatchesSteady
  <2>4. phase = "running" => Answers(slots)'
    BY <1>1, <2>2, <2>3
  <2>5. EveryChunkItsVector'
    BY <1>4, <2>1
  <2> QED BY <1>1, <1>3, <2>1, <2>2, <2>3, <2>4, <2>5 DEF FlushInv
<1> QED BY <1>5, <1>6, <1>7, <1>8, <1>9 DEF Next, Ended

\* Every chunk of every document is stored with the vector of its own text,
\* whatever batches are in flight, in whatever order they and their items are
\* answered, and with answers that lack a vector: upsert_pending deals out what
\* embed_texts put back in order, or stores nothing.
THEOREM ChunksGetTheirVectors == Spec => []EveryChunkItsVector
<1>1. FlushInv => EveryChunkItsVector
  BY DEF FlushInv
<1> QED BY <1>1, FlushInit, FlushStep, ChunkerInvariant, PTL DEF Spec
=============================================================================
