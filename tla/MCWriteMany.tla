----------------------------- MODULE MCWriteMany -----------------------------
(* A directory of two documents, its destination, and a document outside of  *)
(* it; one document inside links to the other, the one outside to the first. *)
EXTENDS WriteMany, TLC

CONSTANTS a, b, newA, newB, r

MCDest == [p \in Paths |-> CASE p = a -> newA [] p = b -> newB [] OTHER -> None]
MCFirst ==
  [p \in Paths |-> CASE p = a -> [by |-> {}, to |-> b]
                     [] p = b -> [by |-> {}, to |-> b]
                     [] p = r -> [by |-> {}, to |-> a]
                     [] OTHER -> None]
Wishing(kind, paths, idle) == [kind |-> kind, paths |-> paths, idle |-> idle]
MCWishes ==
  {Wishing("batch", {a, newA}, {}), Wishing("batch", {a, b}, {b}), Wishing("batch", {r}, {r}), Wishing("batch", {r}, {}),
   Wishing("move", {a}, {}), Wishing("archive", {a}, {}), Wishing("delete", {a}, {}),
   Wishing("delete", {newA}, {}), Wishing("directory", {a, b}, {}), Wishing("directory", {b}, {})}
=============================================================================
