--------------------------- MODULE MCChunkAndEmbed --------------------------
(* ChunkAndEmbed for TLC: lengths are small numbers, a fragment is tiny,     *)
(* small or nearly full, or longer in bytes than the limit of characters.    *)
EXTENDS ChunkAndEmbed

Cuts == {<<1>>, <<4>>, <<9>>, <<1, 8>>, <<8, 1>>, <<4, 7, 1>>, <<1, 1, 7>>, <<6, 6>>, <<2, 2, 8, 2>>}
FewCuts == {<<1>>, <<4>>, <<8, 1>>}
WideCuts == {<<14>>, <<1, 17>>}
Section(levels, cuts, leads, trails) ==
    [level : levels, lead : leads, trail : trails, frags : cuts]
Plain(levels, cuts) == Section(levels, cuts, {0}, {0})

\* One document of up to three sections, or a preamble and two; or two short
\* documents.  A section may end in a blank line or start indented.
Small3 == {<<a, b, c>> : a \in Section({0, 1, 2}, FewCuts, {0}, {0, 1}),
                         b \in Section({1, 2, 3}, FewCuts, {0}, {1}),
                         c \in Plain({1, 2, 3}, Cuts)}
Two == {<<a, b>> : a \in Section({0, 1}, Cuts \cup WideCuts, {0, 1}, {0, 1}),
                   b \in Section({1, 2}, Cuts \cup WideCuts, {0, 1}, {0})}
Pairs == {<<<<a>>, <<b, c>>>> : a \in Plain({0, 1}, FewCuts),
             b \in Plain({1}, FewCuts), c \in Plain({1, 2}, FewCuts)}
MCCorpora == {<<d>> : d \in Small3 \cup Two} \cup Pairs

MCConfigs == [max : {12}, target : {8, 12}, isolate : BOOLEAN, prepend : BOOLEAN]
PlainConfigs == {c \in MCConfigs : ~c.prepend}
MCCrumbBytes == [n \in 0 .. 5 |-> 2 * n]
OneByte == [n \in 0 .. 5 |-> n]
BlankLines == {<<<<a, b>>>> : a \in Section({0, 1}, FewCuts, {0}, {0, 1}),
                              b \in Plain({1, 2}, {<<1>>, <<6>>, <<9>>})}
=============================================================================
