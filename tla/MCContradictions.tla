-------------------------- MODULE MCContradictions --------------------------
(* Contradictions for TLC: three documents, all close to one another, each *)
(* closest to the one before it; a second version of the first is far from  *)
(* the third.                                                               *)
EXTENDS Contradictions

MCScore(d, v, e, w) ==
    IF {d, e} = {1, 2} THEN 3
    ELSE IF {d, e} = {2, 3} THEN 2
    ELSE IF v + w = 2 THEN 2 ELSE 0
MCPoison == {<<1, 2>>}
MCMorePoison == {<<1, 2>>, <<1, 3>>}
=============================================================================
