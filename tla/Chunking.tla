------------------------------ MODULE Chunking ------------------------------
(***************************************************************************)
(* How a document becomes chunks: the heading tree (src/src/heading.rs)    *)
(* and chunk_markdown (src/src/chunk.rs).                                  *)
(*                                                                         *)
(* A document is the sequence of its sections, the preamble first if there *)
(* is one.  A section has the level of its heading (0: the preamble), the  *)
(* lengths of the fragments MarkdownSplitter would cut it into and of the  *)
(* white space before the first and after the last, which a whole section  *)
(* keeps.  Lengths are of bytes, as the code compares them; the splitter   *)
(* and the cut of a breadcrumb count characters.  A heading is named by    *)
(* its position.                                                           *)
(***************************************************************************)
EXTENDS Integers, Sequences, FiniteSets, SequencesExt

CONSTANTS
    Corpora,     \* the sequences of documents considered
    Configs,     \* chunking: [max, target, isolate, prepend]
    MinMerge,    \* MIN_MERGE_SIZE
    Sep,         \* length of the blank line between two pieces
    MaxPath,     \* MAX_HEADING_PATH_CHARS
    HeadingText, \* characters of a heading's text in a breadcrumb
    Width,       \* the most bytes of a character (4 in UTF-8)
    CrumbBytes,  \* CrumbBytes[n]: the bytes of n characters of a breadcrumb
    MaxBlank     \* the longest white space at an end of a section

ASSUME LengthsAssumption ==
    /\ MinMerge \in Nat \ {0} /\ Sep \in Nat /\ MaxPath \in Nat /\ HeadingText \in Nat
    /\ Width \in Nat \ {0} /\ MaxBlank \in Nat
ASSUME CrumbBytesAssumption ==
    /\ CrumbBytes \in [0 .. MaxPath -> Nat]
    /\ \A n \in 0 .. MaxPath : CrumbBytes[n] <= Width * n
ASSUME ConfigsAssumption ==
    Configs \subseteq {c \in [max : Nat, target : Nat, isolate : BOOLEAN, prepend : BOOLEAN] :
                          c.target <= c.max}

VARIABLES
    files,    \* the documents of the batch
    config,   \* config.chunking
    at,       \* the document being chunked
    pos,      \* its section being chunked
    frag,     \* the fragment of that section, or 0
    current,  \* the chunk small sections accumulate in, or None
    pending,  \* the small fragment that waits for the next, or None
    chunks,   \* the chunks of the document so far
    made      \* the chunks of the documents done

chunkVars == <<files, config, at, pos, frag, current, pending, chunks, made>>

NoHeading == 0   \* no heading; as a section: the whole document (SectionId::Root)
doc == files[at]
Level(i) == doc[i].level
Sections == 1 .. Len(doc)
Monus(a, b) == IF a > b THEN a - b ELSE 0
Lesser(a, b) == IF a < b THEN a ELSE b

----------------------------------------------------------------------------
(***************************************************************************)
(* HeadingTree::parse.  The stack of open headings, whose levels increase  *)
(* from bottom to top, after each section.                                 *)
(***************************************************************************)
\* What stays open when a heading of level l comes: everything deeper or as
\* deep is popped.
StillOpen(stack, l) ==
    LET top == CHOOSE k \in 0 .. Len(stack) :
                  /\ k = 0 \/ Level(stack[k]) < l
                  /\ \A j \in k + 1 .. Len(stack) : Level(stack[j]) >= l
    IN SubSeq(stack, 1, top)

OpenAfter ==
    LET open[i \in 0 .. Len(doc)] ==
          IF i = 0 \/ Level(i) = 0 THEN <<>>
          ELSE Append(StillOpen(open[i - 1], Level(i)), i)
    IN open

Top(stack) == IF stack = <<>> THEN NoHeading ELSE Last(stack)
Parents == [i \in Sections |->
              IF Level(i) = 0 THEN NoHeading ELSE Top(Front(OpenAfter[i]))]

\* subtree_end: up to the section before the one that pops the heading.
SubtreeEnd(i) ==
    LET popping == {j \in Sections : j > i /\ ~Contains(OpenAfter[j], i)}
    IN IF popping = {} THEN Len(doc)
       ELSE (CHOOSE j \in popping : \A k \in popping : j <= k) - 1

\* common_ancestor: the later of the two steps up until they meet.
CommonAncestor(a, b) ==
    LET parent == Parents
        meet[p \in (0 .. Len(doc)) \X (0 .. Len(doc))] ==
          IF p[1] = NoHeading \/ p[2] = NoHeading THEN NoHeading
          ELSE IF p[1] = p[2] THEN p[1]
          ELSE IF p[1] > p[2] THEN meet[<<parent[p[1]], p[2]>>]
          ELSE meet[<<p[1], parent[p[2]]>>]
    IN meet[<<a, b>>]

PathLen(i) ==
    LET parent == Parents
        len[x \in 0 .. Len(doc)] == IF x = NoHeading THEN 0 ELSE 1 + len[parent[x]]
    IN len[i]

\* SectionId::merge.
MergeSections(a, b) == IF a = b THEN a ELSE CommonAncestor(a, b)

----------------------------------------------------------------------------
(***************************************************************************)
(* chunk_markdown.                                                         *)
(***************************************************************************)
\* A RawChunk: the trimmed length of its text, and the white space around it.
None == [pieces |-> <<>>, lead |-> 0, size |-> 0, trail |-> 0,
         crumb |-> NoHeading, section |-> NoHeading]

Reserve(c) == IF c.prepend THEN Lesser(MaxPath, c.max \div 4) ELSE 0
HeadingReserve == Reserve(config)
EffectiveMax == Monus(config.max, HeadingReserve)
EffectiveTarget == Monus(config.target, HeadingReserve)

\* No section is empty, only the preamble is without a heading, and the
\* splitter cuts no fragment of more characters than it is told.
Document == Seq([level : Nat, lead : 0 .. MaxBlank, trail : 0 .. MaxBlank,
                 frags : Seq(Nat) \ {<<>>}])
ASSUME CorporaAssumption ==
    /\ Corpora \subseteq Seq(Document)
    /\ \A fs \in Corpora : \A f \in 1 .. Len(fs) : \A i \in 1 .. Len(fs[f]) :
          /\ i > 1 => fs[f][i].level > 0
          /\ \A k \in 1 .. Len(fs[f][i].frags) : \A c \in Configs :
                fs[f][i].frags[k] <= Width * Monus(c.max, Reserve(c))

Pieces(i) == doc[i].frags
SectionSize(i) ==
    LET total[k \in 0 .. Len(Pieces(i))] ==
          IF k = 0 THEN 0 ELSE total[k - 1] + Pieces(i)[k] + (IF k > 1 THEN 1 ELSE 0)
    IN total[Len(Pieces(i))]
Oversized(i) == SectionSize(i) > EffectiveMax

\* A piece that starts with its heading line is under the heading's parent.
LeadingCrumb(i) == Parents[i]
ContinuationCrumb(i) == IF Level(i) = 0 THEN NoHeading ELSE i

WholeSection(i) ==
    [pieces |-> [k \in 1 .. Len(Pieces(i)) |-> <<i, k>>],
     lead |-> doc[i].lead, size |-> SectionSize(i), trail |-> doc[i].trail,
     crumb |-> LeadingCrumb(i), section |-> i]
\* The splitter trims.
Fragment(i, k) ==
    [pieces |-> << <<i, k>> >>, lead |-> 0, size |-> Pieces(i)[k], trail |-> 0,
     crumb |-> IF k = 1 THEN LeadingCrumb(i) ELSE ContinuationCrumb(i), section |-> i]

\* RawChunk::append: the texts are joined as they are, white space included.
Body(c, d) == c.size + c.trail + Sep + d.lead + d.size

\* Mutant: the chunk takes over the breadcrumb of the piece that joins it.
JoinedTakingCrumb(c, d) ==
    [pieces |-> c.pieces \o d.pieces, lead |-> c.lead, size |-> Body(c, d), trail |-> d.trail,
     crumb |-> d.crumb, section |-> MergeSections(c.section, d.section)]

Joined(c, d) ==
    [pieces |-> c.pieces \o d.pieces, lead |-> c.lead, size |-> Body(c, d), trail |-> d.trail,
     crumb |-> CommonAncestor(c.crumb, d.crumb),
     section |-> MergeSections(c.section, d.section)]

Flushed == IF current = None THEN chunks ELSE Append(chunks, current)

ChunkInit ==
    /\ files \in Corpora /\ config \in Configs
    /\ at = 1 /\ pos = 1 /\ frag = 0
    /\ current = None /\ pending = None /\ chunks = <<>> /\ made = <<>>

Chunking == at <= Len(files)
AtSection == Chunking /\ pos <= Len(doc) /\ frag = 0

\* Mutant: the section alone is compared.
FitsAlone == ~config.isolate /\ SectionSize(pos) <= EffectiveTarget

\* A section that fits joins the current chunk up to the target size, unless
\* sections are kept apart; the lengths compared are the trimmed ones.
Fits == /\ ~config.isolate
        /\ SectionSize(pos) + (IF current = None THEN 0 ELSE current.size + Sep)
             <= EffectiveTarget
Accumulate ==
    /\ AtSection /\ ~Oversized(pos) /\ Fits
    /\ current' = IF current = None THEN WholeSection(pos)
                  ELSE Joined(current, WholeSection(pos))
    /\ pos' = pos + 1
    /\ UNCHANGED <<files, config, at, frag, pending, chunks, made>>

StartChunk ==
    /\ AtSection /\ ~Oversized(pos) /\ ~Fits
    /\ chunks' = Flushed
    /\ current' = WholeSection(pos)
    /\ pos' = pos + 1
    /\ UNCHANGED <<files, config, at, frag, pending, made>>

BeginSplit ==
    /\ AtSection /\ Oversized(pos)
    /\ chunks' = Flushed /\ current' = None
    /\ frag' = 1
    /\ UNCHANGED <<files, config, at, pos, pending, made>>

\* A small fragment waits, a larger one is a chunk.
Small(c) == c.size < MinMerge
AtFragment == Chunking /\ frag > 0 /\ frag <= Len(Pieces(pos))
NextFragment == frag' = frag + 1 /\ UNCHANGED <<files, config, at, pos, current, made>>

\* The waiting fragment joins this one, whatever the sum if it is small.
MayJoin(c, d) == c.size + Sep + d.size <= EffectiveMax \/ Small(c)

MergePending ==
    /\ AtFragment /\ pending # None
    /\ LET next == Fragment(pos, frag)
           sum == Joined(pending, next)
       IN /\ MayJoin(pending, next)
          /\ IF Small(sum) THEN pending' = sum /\ UNCHANGED chunks
             ELSE pending' = None /\ chunks' = Append(chunks, sum)
    /\ NextFragment

\* Otherwise the one that waited is a chunk, and this one is looked at alone.
TakeFragment ==
    /\ AtFragment
    /\ LET next == Fragment(pos, frag)
           before == IF pending = None THEN chunks ELSE Append(chunks, pending)
       IN /\ pending # None => ~MayJoin(pending, next)
          /\ IF Small(next) THEN pending' = next /\ chunks' = before
             ELSE pending' = None /\ chunks' = Append(before, next)
    /\ NextFragment

\* The last small fragment goes to the chunk before it if it fits there, and
\* if that is of the same section where sections are kept apart.
TailFits ==
    /\ chunks # <<>>
    /\ Last(chunks).size + Sep + pending.size <= EffectiveMax
    /\ config.isolate => Last(chunks).section = pending.section

WithTail == IF TailFits THEN Append(Front(chunks), Joined(Last(chunks), pending))
            ELSE Append(chunks, pending)

EndSplit ==
    /\ Chunking /\ frag > 0 /\ frag > Len(Pieces(pos))
    /\ chunks' = IF pending = None THEN chunks ELSE WithTail
    /\ pending' = None /\ frag' = 0 /\ pos' = pos + 1
    /\ UNCHANGED <<files, config, at, current, made>>

\* The breadcrumb of a chunk, cut to its budget, and the blank line after it.
PrefixSize(c) ==
    LET budget == Monus(HeadingReserve, 2)
        path == PathLen(c.crumb)
    IN IF ~config.prepend \/ path = 0 \/ budget = 0 THEN 0
       ELSE CrumbBytes[Lesser(path * HeadingText + 3 * (path - 1), budget)] + 2

\* The text of a chunk, trimmed: the body's leading white space comes after
\* the breadcrumb.
TextSize(c) == IF PrefixSize(c) = 0 THEN c.size ELSE PrefixSize(c) + c.lead + c.size

\* Mutant: the chunk that accumulates is not flushed at the end.
FinishFileUnflushed ==
    /\ Chunking /\ pos > Len(doc)
    /\ made' = Append(made, [k \in 1 .. Len(chunks) |->
                  [body |-> chunks[k], prefix |-> PrefixSize(chunks[k])]])
    /\ at' = at + 1 /\ pos' = 1 /\ chunks' = <<>> /\ current' = None
    /\ UNCHANGED <<files, config, frag, pending>>

FinishFile ==
    /\ Chunking /\ pos > Len(doc)
    /\ made' = Append(made, [k \in 1 .. Len(Flushed) |->
                  [body |-> Flushed[k], prefix |-> PrefixSize(Flushed[k])]])
    /\ at' = at + 1 /\ pos' = 1 /\ chunks' = <<>> /\ current' = None
    /\ UNCHANGED <<files, config, frag, pending>>

ChunkNext == \/ Accumulate \/ StartChunk \/ BeginSplit
             \/ MergePending \/ TakeFragment \/ EndSplit \/ FinishFile

----------------------------------------------------------------------------
\* The pieces of a document, those up to a place in it, and their order.
PiecesOf(d) == UNION {{j} \X (1 .. Len(d[j].frags)) : j \in 1 .. Len(d)}
PiecesBefore(i, k) ==
    {p \in PiecesOf(doc) : p[1] < i \/ (p[1] = i /\ p[2] < k)}
SoFar == Flushed \o (IF pending = None THEN <<>> ELSE <<pending>>)
Earlier(p, q) == p[1] < q[1] \/ (p[1] = q[1] /\ p[2] < q[2])

\* Chunks read one after the other are these pieces, each once and in order.
Tell(cs, whole) ==
    LET pieces == FlattenSeq([k \in 1 .. Len(cs) |-> cs[k].pieces])
    IN /\ Range(pieces) = whole
       /\ \A m, n \in 1 .. Len(pieces) : m < n => Earlier(pieces[m], pieces[n])

\* No text is lost, told twice or moved: at every moment the chunks so far are
\* the document up to where the chunker stands, and the chunks a finished
\* document is given are the whole of it.
NothingIsLost ==
    /\ Chunking => Tell(SoFar, PiecesBefore(pos, IF frag = 0 THEN 1 ELSE frag))
    /\ \A f \in 1 .. Len(made) :
          Tell([k \in 1 .. Len(made[f]) |-> made[f][k].body], PiecesOf(files[f]))

\* The reference for ancestors: the nearest earlier heading that is shallower,
\* and so on up.
Over(i) == LET s == {j \in 1 .. i - 1 : Level(j) \in 1 .. Level(i) - 1 }
           IN IF s = {} THEN NoHeading ELSE CHOOSE j \in s : \A k \in s : k <= j
Ancestors(i) ==
    LET up[j \in 0 .. Len(doc)] == IF j = 0 THEN {} ELSE {j} \cup up[Over(j)]
    IN up[i]

\* A chunk is attributed to the deepest heading all its pieces are under, and
\* the range of that section holds them; its breadcrumb is the deepest heading
\* over every piece whose own line is not in the chunk, and names no heading
\* that is.  With chunking.heading_metadata no chunk crosses a heading.
Under(c) == {p[1] : p \in Range(c.pieces)}
CommonHeadings(c) ==
    {h \in Sections : Level(h) > 0 /\ \A i \in Under(c) : h \in Ancestors(i)}
Leading(c) == {p[1] : p \in {q \in Range(c.pieces) : q[2] = 1}}
Deepest(h, hs) == h \in hs /\ \A g \in hs : g <= h
ChunksAreAttributed ==
    Chunking => \A k \in 1 .. Len(SoFar) :
        LET c == SoFar[k]
            common == CommonHeadings(c)
            over == common \ Leading(c)
        IN /\ config.isolate => Under(c) = {c.section}
           /\ IF common = {}
              THEN c.section = NoHeading \/ (Under(c) = {c.section} /\ Level(c.section) = 0)
              ELSE /\ Deepest(c.section, common)
                   /\ Under(c) \subseteq c.section .. SubtreeEnd(c.section)
           /\ IF over = {} THEN c.crumb = NoHeading ELSE Deepest(c.crumb, over)
           /\ c.crumb # NoHeading => Ancestors(c.crumb) \cap Leading(c) = {}

\* How far a chunk with its breadcrumb can be beyond max_chunk_size: by the
\* white space at the last joint of its sections, which the code does not
\* count when it compares, and by that between the breadcrumb and the body;
\* by the bytes of a breadcrumb cut by characters; and, when a section too
\* long to be whole is in it, by the bytes of a fragment cut by characters and
\* a small fragment joined to a full one all the same.  Nothing adds up over
\* the sections a chunk is joined of.
Crosses(c) == Under(c) # {c.section}
HasCut(c) == \E i \in Under(c) : Oversized(i)
Longest(c) ==
    (IF HasCut(c) THEN Width * EffectiveMax ELSE EffectiveMax)
    + (IF HasCut(c) /\ Len(c.pieces) > 1 THEN MinMerge - 1 + Sep ELSE 0)
    + (IF Crosses(c) THEN 2 * MaxBlank ELSE 0)
SizesAreBounded ==
    Chunking => \A k \in 1 .. Len(SoFar) :
        TextSize(SoFar[k]) <= Longest(SoFar[k]) + Width * HeadingReserve
            + (IF PrefixSize(SoFar[k]) > 0 THEN MaxBlank ELSE 0)

\* What the documentation says of max_chunk_size, "Hard upper limit.", where no
\* section had to be cut: the text of a chunk, trimmed, is no longer.
WholeSectionsFit ==
    Chunking => \A k \in 1 .. Len(SoFar) :
        ~HasCut(SoFar[k]) => TextSize(SoFar[k]) <= config.max
=============================================================================
