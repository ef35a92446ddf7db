---------------------------- MODULE AtomicWrites ----------------------------
(***************************************************************************)
(* What a call that changes several documents promises its caller: all of  *)
(* the change is in the knowledge base, or none of it is.  WriteMany shows *)
(* that the batch, the moves and the unlinking delete of src/write.rs keep *)
(* the promise.                                                            *)
(*                                                                         *)
(* A content carries the names of the calls that had a part in it.         *)
(***************************************************************************)
CONSTANTS
  Paths,  \* paths of the knowledge base
  Dest,   \* where a move takes each path
  Calls,  \* calls of the write tools
  None    \* no document, no request

VARIABLES
  store,  \* the document at each path
  ask,    \* what each call asks for
  reply   \* and what it was told

vars == <<store, ask, reply>>

Moves == {"move", "archive", "directory"}
Marks(c) == IF c = None THEN {} ELSE c.by \cap Calls

Init ==
  /\ \A p \in Paths : Marks(store[p]) = {}
  /\ ask = [w \in Calls |-> None]
  /\ reply = [w \in Calls |-> "none"]

\* A caller makes up its mind.
Ask(w) ==
  /\ reply[w] = "none"
  /\ reply' = [reply EXCEPT ![w] = "asked"]
  /\ \A v \in Calls \ {w} : ask'[v] = ask[v]
  /\ UNCHANGED store

\* Calls that may have left their mark: those that are done, and those that died or could
\* not undo what they did and left files a later call builds on.  A delete answers only for
\* the document it deletes.
Shown ==
  {v \in Calls : \/ reply[v] \in {"saved", "unknown", "torn", "failed"}
                 \/ reply[v] = "undone" /\ ask[v].kind = "delete"}
NothingElse(w) == \A p \in Paths : Marks(store'[p]) \subseteq Shown \cup {w}

\* All of it: every document of a batch says what was asked, every document moved is at
\* its new path and no longer at its old one, a document deleted is gone.  (A file that is
\* in no commit leaves nothing behind in the commits.)
Done(w) ==
  /\ \A p \in ask[w].paths :
       /\ ask[w].kind = "batch" /\ p \notin ask[w].idle => w \in Marks(store'[p])
       /\ ask[w].kind \in Moves => w \in Marks(store'[Dest[p]])
       /\ ask[w].kind # "batch" => store'[p] = None \/ store[p] = None
  /\ NothingElse(w)

Save(w) ==
  /\ reply[w] = "asked"
  /\ Done(w)
  /\ reply' = [reply EXCEPT ![w] = "saved"]
  /\ UNCHANGED ask

Unmarked == \A p \in Paths : Marks(store'[p]) \subseteq Marks(store[p])

\* None of it.
Leave(w) ==
  /\ reply[w] = "asked"
  /\ reply' \in {[reply EXCEPT ![w] = r] : r \in {"refused", "undone", "torn", "failed"}}
  /\ Unmarked
  /\ UNCHANGED ask

\* The process dies: each call that was under way is done or not begun.
Die ==
  /\ \A w \in Calls : reply'[w] = IF reply[w] = "asked" THEN "unknown" ELSE reply[w]
  /\ \/ UNCHANGED store
     \/ \E w \in Calls : reply[w] = "asked" /\ Done(w)
  /\ UNCHANGED ask

\* Other clones change documents; they have no part in any call's.
Elsewhere == Unmarked /\ UNCHANGED <<ask, reply>>

Next == Die \/ Elsewhere \/ \E w \in Calls : Ask(w) \/ Save(w) \/ Leave(w)

Spec == Init /\ [][Next]_vars
=============================================================================
