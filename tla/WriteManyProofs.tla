--------------------------- MODULE WriteManyProofs ---------------------------
(***************************************************************************)
(* Proofs about WriteMany for any documents, calls, edits by others and    *)
(* faults.  The inductive invariant says, phase by phase, which files may  *)
(* differ from the commit the clone is at, and that these are exactly the  *)
(* ones the roll-back that would follow has on its lists.                  *)
(***************************************************************************)
EXTENDS WriteMany, FiniteSetTheorems, TLAPS

Resting == {"free", "sync", "check"}
Working == {"write", "remove", "query", "links", "commit", "restore", "discard"}

\* What a call asks for hangs together.
Sound(a) ==
  /\ a.kind \in Moves => \A p \in a.paths : Dest[p] # None
  /\ a.kind = "directory" => a.paths \subseteq Dir
  /\ a.kind \in {"move", "archive", "delete"} => \E p \in a.paths : a.paths = {p}
  /\ a.kind # "batch" => \A p \in a.paths : a.seen[p] # None

AskInv ==
  /\ \A w \in Calls : ask[w] # None => Sound(ask[w])
  /\ \A w \in Calls : reply[w] = "asked" => ask[w] # None
  /\ Me # None => reply[Me] = "asked"

\* Where a call writes: where its documents go, or the documents of a batch.
Room == IF Removing THEN Targets ELSE Sources

\* The lists of the call at work.
ListInv ==
  phase \in Working =>
    /\ job.pre = head
    /\ Removing => \A p \in Sources : job.was[p] # None
    /\ \A q \in Targets : job.was[q] = None
    /\ job.written \subseteq Room
    /\ phase \in {"write", "remove", "query", "links", "commit"} => job.why = "io" /\ job.ok
    /\ phase = "restore" => job.ok
    /\ phase = "write" => /\ job.todo # {}
                          /\ job.todo \subseteq Room
                          /\ job.todo \cap job.written = {}
                          /\ Asked.kind # "delete"
                          /\ Moving => Targets \subseteq job.written \cup job.todo
    /\ phase = "remove" => job.todo # {} /\ job.todo \subseteq Sources
    /\ phase \in {"remove", "query", "links"} => Removing
    /\ Moving /\ (job.why = "commit" \/ phase \in {"remove", "query", "links", "commit"})
         => job.written = Targets
    /\ phase \in {"write", "remove", "query"} => job.refs = {}
    /\ phase \in {"restore", "discard"} /\ Asked.kind = "batch" /\ job.why = "io"
         => phase = "discard"

\* What the call at work may have changed.
Touching == job.written \cup IF Removing THEN Sources \cup job.refs ELSE {}

RestInv ==
  phase \in Resting =>
    /\ job.written = {} /\ job.refs = {} /\ job.why = "io" /\ job.ok
    /\ \A p \in Paths \ left : tree[p] = head[p] /\ index[p] = head[p] /\ told[p] = head[p]

FilesInv ==
  phase \in Working =>
    \A p \in Paths \ left :
      /\ job.was[p] = head[p] /\ told[p] = head[p]
      /\ p \notin Touching => tree[p] = head[p]
      /\ job.why = "io" \/ p \notin Touching => index[p] = head[p]
      /\ phase = "write" /\ p \notin job.written => tree[p] = head[p]
      /\ phase = "remove" /\ p \in job.todo => tree[p] = head[p]
      /\ phase = "discard" /\ p \notin ToDiscard => tree[p] = head[p] /\ index[p] = head[p]
      /\ phase = "restore" /\ Moving /\ job.written # Targets /\ p \in Sources
           => tree[p] = head[p]

PublishInv ==
  phase = "publish" =>
    /\ \A p \in Paths \ left :
         /\ tree[p] = head[p] /\ index[p] = head[p] /\ told[p] = job.pre[p]
         /\ p \notin Changed => head[p] = job.pre[p]
    /\ \A q \in Targets : head[q] # None /\ head[q].to \notin Sources
    /\ Moving => \A q \in job.known : head[q] = None \/ head[q].to \notin Sources

\* What is at the new places, and in the documents that were rewritten.
ThereInv ==
  /\ phase \in Working \ {"discard"} =>
       /\ \A q \in job.written \cap Targets : tree[q] = NewAt(q)
       /\ \A q \in job.written \cup job.refs : tree[q] # None
  /\ phase = "discard" /\ Asked.kind = "batch" /\ job.why = "io" =>
       \A q \in job.written : tree[q] # None

\* The documents whose links are still to be rewritten, and those that are.
LinksInv ==
  /\ phase = "links" => \A q \in job.todo : LinksHere(q)
  /\ phase \in {"links", "commit"} /\ Moving =>
       /\ job.known \subseteq job.refs \cup IF phase = "links" THEN job.todo ELSE {}
       /\ \A q \in job.refs : tree[q].to \notin Sources

\* What the answer will say of the roll-back.
OkInv ==
  phase = "discard" /\ job.why = "commit" /\ job.ok =>
    \A p \in ToRestore \cap Promised : tree[p] = head[p] /\ index[p] = head[p]

WriteInv ==
  /\ TypeOK /\ AskInv /\ ListInv /\ RestInv /\ FilesInv /\ PublishInv /\ ThereInv
  /\ LinksInv /\ OkInv
-----------------------------------------------------------------------------
(***************************************************************************)
(* Requests and contents.                                                  *)
(***************************************************************************)
\* Every call has a request that hangs together, nobody's request is empty.
LEMMA AskedFacts ==
  ASSUME TypeOK, AskInv
  PROVE  /\ Asked \in Request /\ Sound(Asked) /\ Sources \subseteq Paths
         /\ Me # None => Me \in Calls /\ Asked = ask[Me]
         /\ Me = None => Sources = {} /\ Asked.kind = "batch"
<1>0. NoTree \in Tree /\ NoRequest \in Request
  BY DEF NoTree, Tree, NoRequest, Request, Kinds
<1>1. Me \in Calls \cup {None} /\ ask \in [Calls -> Request \cup {None}]
  BY DEF TypeOK, Job, Me
<1>2. CASE Me = None
  <2>1. Asked = NoRequest
    BY <1>2 DEF Asked
  <2>2. Sound(NoRequest) /\ NoRequest.paths = {} /\ NoRequest.kind = "batch"
    BY DEF Sound, NoRequest, Moves
  <2> QED BY <2>1, <2>2, <1>0, <1>2, <1>1 DEF Sources
<1>3. CASE Me # None
  <2>1. Me \in Calls /\ ask[Me] # None /\ Asked = ask[Me]
    BY <1>1, <1>3 DEF AskInv, Asked
  <2>2. Asked \in Request /\ Sound(Asked)
    BY <2>1, <1>1 DEF AskInv
  <2> QED BY <2>1, <2>2, <1>3 DEF Sources, Request
<1> QED BY <1>2, <1>3

\* Where a move takes its documents: to other places, one each.
LEMMA TargetFacts ==
  ASSUME TypeOK, AskInv
  PROVE  /\ Targets \subseteq Paths /\ Targets \cap Sources = {}
         /\ ~Moving => Targets = {}
         /\ \A q \in Targets : Origin(q) \in Sources /\ Dest[Origin(q)] = q
         /\ Moving => \A p \in Sources : /\ Dest[p] \in Targets /\ Dest[p] \notin Sources
                                         /\ Origin(Dest[p]) = p
<1>1. Sound(Asked) /\ Sources \subseteq Paths
  BY AskedFacts
<1>2. CASE ~Moving
  BY <1>2 DEF Targets
<1>3. CASE Moving
  <2>1. \A p \in Sources : Dest[p] \in Paths /\ Dest[p] # None /\ Dest[p] # p
    BY <1>1, <1>3, ConstantsAssumption DEF Sound, Moving, Sources
  <2>2. \A p, q \in Sources : Dest[p] = Dest[q] => p = q
    BY <2>1, <1>1, ConstantsAssumption
  <2>3. \A p \in Sources : Dest[p] \notin Sources
    <3>1. CASE Asked.kind = "directory"
      BY <3>1, <1>1, ConstantsAssumption DEF Sound, Sources
    <3>2. CASE Asked.kind \in {"move", "archive"}
      <4>1. PICK p \in Sources : Sources = {p}
        BY <3>2, <1>1 DEF Sound, Sources
      <4> QED BY <4>1, <2>1
    <3> QED BY <3>1, <3>2, <1>3 DEF Moving, Moves
  <2>4. \A q \in Targets : Origin(q) \in Sources /\ Dest[Origin(q)] = q
    BY <1>3 DEF Targets, Origin
  <2>5. \A p \in Sources : Origin(Dest[p]) = p
    BY <2>2, <2>4, <1>3 DEF Targets
  <2> QED BY <2>1, <2>3, <2>4, <2>5, <1>3 DEF Targets
<1> QED BY <1>2, <1>3

\* A step of a call at work leaves what it works for as it is.
LEMMA SameRequest ==
  ASSUME job'.call = job.call, ask' = ask
  PROVE  /\ Me' = Me /\ Asked' = Asked /\ Sources' = Sources /\ Targets' = Targets
         /\ Room' = Room
         /\ (Moving <=> Moving') /\ (Removing <=> Removing') /\ (Strict <=> Strict')
<1>1. Me' = Me /\ Asked' = Asked
  BY DEF Me, Asked
<1> QED BY <1>1 DEF Sources, Targets, Moving, Removing, Strict, Room

\* Trees are made from trees.
LEMMA PutFacts ==
  ASSUME NEW f \in Tree, NEW S, NEW g,
         \A p \in Paths : p \in S => g[p] \in Content \cup {None}
  PROVE  /\ Put(f, S, g) \in Tree
         /\ \A p \in Paths : Put(f, S, g)[p] = IF p \in S THEN g[p] ELSE f[p]
BY DEF Put, Tree

\* A call that marks a document makes a document of it.
LEMMA MineFacts ==
  ASSUME NEW c \in Content, Me \in Calls
  PROVE  /\ Mine(c) \in Content /\ Mine(c).to = c.to /\ Mine(c).by = c.by \cup {Me}
         /\ \A to \in Paths \cup {None} :
              LET d == [Mine(c) EXCEPT !.to = to]
              IN d \in Content /\ d.to = to /\ d.by = c.by \cup {Me}
BY DEF Content, Mine

\* What a call writes: a document of its own, that links to nothing that has moved away.
LEMMA NewAtFacts ==
  ASSUME WriteInv, phase \in Working, Me # None,
         NEW p \in Room, Asked.kind # "delete"
  PROVE  /\ NewAt(p) \in Content /\ Me \in NewAt(p).by
         /\ Moving => /\ NewAt(p).to \notin Sources
                      /\ job.was[Origin(p)] \in Content
                      /\ NewAt(p).by = job.was[Origin(p)].by \cup {Me}
<1>1. job.was \in Tree /\ Me \in Calls /\ p \in IF Moving THEN Targets ELSE Sources
  BY AskedFacts DEF WriteInv, TypeOK, Job, Request, Kinds, Moving, Moves, Removing, Room
<1>2. CASE Moving
  <2>1. Origin(p) \in Sources /\ Origin(p) \in Paths /\ Sources \subseteq Paths
    BY <1>1, <1>2, TargetFacts, AskedFacts DEF WriteInv
  <2>2. job.was[Origin(p)] # None
    BY <2>1, <1>2 DEF WriteInv, ListInv, Moving, Moves, Removing
  <2>3. job.was[Origin(p)] \in Content
    BY <1>1, <2>1, <2>2 DEF Tree
  <2> DEFINE c == job.was[Origin(p)]
             to == Followed(c.to)
  <2>4. c.to \in Paths \cup {None}
    BY <2>3 DEF Content
  <2>5. to \in Paths \cup {None} /\ to \notin Sources
    BY <2>4, <1>2, <2>1, TargetFacts DEF Followed, WriteInv
  <2>6. NewAt(p) = [Mine(c) EXCEPT !.to = to]
    <3>1. Mine(c).to = c.to /\ Mine(c) \in Content
      BY <2>3, <1>1, MineFacts
    <3>2. [Mine(c) EXCEPT !.to = Followed(@)] = [Mine(c) EXCEPT !.to = to]
      BY <3>1 DEF Content
    <3> QED BY <3>2, <1>2 DEF NewAt
  <2>7. NewAt(p) \in Content /\ NewAt(p).to = to /\ NewAt(p).by = c.by \cup {Me}
    BY <2>3, <2>5, <2>6, <1>1, MineFacts
  <2> QED BY <2>3, <2>5, <2>7
<1>3. CASE ~Moving
  <2>1. p \in Paths
    BY <1>1, <1>3, AskedFacts DEF WriteInv
  <2>2. CASE job.was[p] = None
    <3>1. NewAt(p) = [by |-> {Me}, to |-> None]
      BY <1>3, <2>2 DEF NewAt
    <3> QED BY <3>1, <1>1, <1>3 DEF Content
  <2>3. CASE job.was[p] # None
    <3>1. job.was[p] \in Content
      BY <2>1, <2>3, <1>1 DEF Tree
    <3>2. NewAt(p) = Mine(job.was[p])
      BY <1>3, <2>3 DEF NewAt
    <3> QED BY <3>1, <3>2, <1>1, <1>3, MineFacts
  <2> QED BY <2>2, <2>3
<1> QED BY <1>2, <1>3

LEMMA CutFacts == Cut \in Content /\ Cut # None
BY ConstantsAssumption DEF Cut, Content

\* What is at a place is nothing, or a document.
LEMMA TreeFacts ==
  ASSUME NEW f \in Tree, NEW p \in Paths, NEW c \in Content \cup {None}
  PROVE  /\ f[p] # None => f[p] \in Content
         /\ [f EXCEPT ![p] = c] \in Tree
         /\ \A q \in Paths : [f EXCEPT ![p] = c][q] = IF q = p THEN c ELSE f[q]
BY DEF Tree

-----------------------------------------------------------------------------
(***************************************************************************)
(* The beginning.                                                          *)
(***************************************************************************)
LEMMA NoJobFacts ==
  /\ NoJob \in Job /\ NoJob.call = None
  /\ NoJob.written = {} /\ NoJob.refs = {} /\ NoJob.why = "io" /\ NoJob.ok
<1>1. NoTree \in Tree
  BY DEF NoTree, Tree
<1> QED BY <1>1 DEF NoJob, Job

LEMMA InitInv == Init => WriteInv
<1> SUFFICES ASSUME Init PROVE WriteInv
  OBVIOUS
<1>1. First \in Tree /\ NoNews \in [Paths -> Content \cup {None, Same}]
  <2>1. [by : {{}}, to : Paths \cup {None}] \subseteq Content
    BY DEF Content
  <2> QED BY <2>1, ConstantsAssumption DEF Tree, NoNews
<1>2. TypeOK
  <2>1. 0 \in 0 .. MaxFaults
    BY ConstantsAssumption
  <2> QED BY <1>1, <2>1, NoJobFacts DEF Init, TypeOK, Me
<1>3. AskInv
  BY NoJobFacts DEF Init, AskInv, Me
<1>4. RestInv
  BY NoJobFacts DEF Init, RestInv
<1>5. ListInv /\ FilesInv /\ PublishInv /\ ThereInv /\ LinksInv /\ OkInv
  BY DEF Init, ListInv, FilesInv, PublishInv, ThereInv, LinksInv, OkInv, Working
<1> QED BY <1>2, <1>3, <1>4, <1>5 DEF WriteInv

-----------------------------------------------------------------------------
(***************************************************************************)
(* Outside the lock, and at rest.                                          *)
(***************************************************************************)
\* Where nobody has files under way, only the files have to be as they should.
LEMMA AtRest ==
  ASSUME phase' \in Resting, TypeOK', AskInv', RestInv'
  PROVE  WriteInv'
<1>1. phase' \notin Working /\ phase' # "publish"
  BY DEF Resting, Working
<1>2. ListInv' /\ FilesInv' /\ PublishInv' /\ ThereInv' /\ LinksInv' /\ OkInv'
  BY <1>1 DEF ListInv, FilesInv, PublishInv, ThereInv, LinksInv, OkInv, Working
<1> QED BY <1>2 DEF WriteInv

\* A step that leaves the files, and whoever is at work, as they are.
LEMMA SameFiles ==
  ASSUME WriteInv, TypeOK', AskInv', Asked' = Asked,
         UNCHANGED <<tree, index, head, told, left, phase, job>>
  PROVE  WriteInv'
<1>1. /\ Sources' = Sources /\ Targets' = Targets /\ (Moving <=> Moving')
      /\ (Removing <=> Removing') /\ Me' = Me /\ Room' = Room
  BY DEF Sources, Targets, Moving, Removing, Me, Room
<1>2. Changed' = Changed /\ Touching' = Touching /\ ToDiscard' = ToDiscard
      /\ ToRestore' = ToRestore
  BY <1>1 DEF Changed, Touching, ToDiscard, ToRestore
<1>2a. Promised' = Promised
  BY <1>1, <1>2 DEF Promised
<1>3. ListInv' /\ RestInv' /\ FilesInv' /\ PublishInv' /\ OkInv'
  <2>1. ListInv'
    BY <1>1 DEF WriteInv, ListInv
  <2>2. RestInv' /\ FilesInv'
    BY <1>1, <1>2 DEF WriteInv, RestInv, FilesInv
  <2>3. PublishInv' /\ OkInv'
    BY <1>1, <1>2, <1>2a DEF WriteInv, PublishInv, OkInv
  <2> QED BY <2>1, <2>2, <2>3
<1>4. \A q : NewAt(q)' = NewAt(q)
  BY <1>1 DEF NewAt, Mine, Origin, Followed
<1>5. ThereInv'
  BY <1>1, <1>4 DEF WriteInv, ThereInv
<1>6. \A q : LinksHere(q)' <=> LinksHere(q)
  BY <1>1 DEF LinksHere
<1>7. LinksInv'
  BY <1>1, <1>6 DEF WriteInv, LinksInv
<1> QED BY <1>3, <1>5, <1>7 DEF WriteInv

\* What others push is a document, or the end of one.
LEMMA NewsIsTyped ==
  ASSUME TypeOK, NEW p \in Paths, NEW e \in Others, phase = "publish" => job.pre \in Tree,
         NEW base, base = IF phase = "publish" THEN job.pre[p] ELSE head[p]
  PROVE  (IF base = None THEN [by |-> {e}, to |-> None]
          ELSE [base EXCEPT !.by = @ \cup {e}]) \in Content
<1>1. base \in Content \cup {None}
  BY DEF TypeOK, Tree
<1>2. CASE base = None
  BY <1>2 DEF Content
<1>3. CASE base # None
  <2>1. base \in Content
    BY <1>1, <1>3
  <2>2. [base EXCEPT !.by = @ \cup {e}] \in Content
    BY <2>1 DEF Content
  <2> QED BY <2>2, <1>3
<1> QED BY <1>2, <1>3

\* OtherPush, OtherDelete: only what the remote has is new.
LEMMA OthersKeep ==
  ASSUME WriteInv,
         \/ \E e \in Others, p \in Paths : OtherPush(e, p)
         \/ \E p \in Paths : OtherDelete(p)
  PROVE  WriteInv'
<1>1. UNCHANGED <<tree, index, head, ahead, phase, job, ask, reply, told, faults, left>>
  BY DEF OtherPush, OtherDelete, files, calls, ghosts
<1>2. news' \in [Paths -> Content \cup {None, Same}]
  <2>1. ASSUME NEW e \in Others, NEW p \in Paths, OtherPush(e, p)
        PROVE  news' \in [Paths -> Content \cup {None, Same}]
    <3> DEFINE base == IF phase = "publish" THEN job.pre[p] ELSE head[p]
               theirs == IF base = None THEN [by |-> {e}, to |-> None]
                         ELSE [base EXCEPT !.by = @ \cup {e}]
    <3>1. theirs \in Content
      <4>1. job.pre \in Tree
        BY DEF WriteInv, TypeOK, Job
      <4> QED BY <4>1, NewsIsTyped DEF WriteInv
    <3>2. news' = [news EXCEPT ![p] = theirs]
      BY <2>1 DEF OtherPush
    <3> QED BY <3>1, <3>2 DEF WriteInv, TypeOK
  <2>2. ASSUME NEW p \in Paths, OtherDelete(p)
        PROVE  news' \in [Paths -> Content \cup {None, Same}]
    BY <2>2 DEF OtherDelete, WriteInv, TypeOK
  <2> QED BY <2>1, <2>2
<1>3. Asked' = Asked /\ Me' = Me
  BY <1>1 DEF Asked, Me
<1>4. TypeOK'
  BY <1>1, <1>2, <1>3 DEF WriteInv, TypeOK
<1>5. AskInv'
  BY <1>1, <1>3 DEF WriteInv, AskInv, Sound
<1> QED BY <1>1, <1>3, <1>4, <1>5, SameFiles

\* Ask: the request of a call that has none yet.
LEMMA AskKeeps ==
  ASSUME WriteInv, NEW w \in Calls, NEW wish \in Wishes, Ask(w, wish)
  PROVE  WriteInv'
<1> DEFINE asked == [kind |-> wish.kind, paths |-> wish.paths, idle |-> wish.idle,
                     seen |-> tree]
<1>1. /\ ask' = [ask EXCEPT ![w] = asked] /\ reply' = [reply EXCEPT ![w] = "asked"]
      /\ UNCHANGED <<tree, index, head, news, ahead, phase, job, told, faults, left>>
  BY DEF Ask, files, remote, ghosts
<1>2. wish \in Wish /\ tree \in Tree
  BY ConstantsAssumption DEF WriteInv, TypeOK
<1>3. asked \in Request
  BY <1>2 DEF Wish, Request
<1>4. Sound(asked)
  <2>1. asked.kind = wish.kind /\ asked.paths = wish.paths
    OBVIOUS
  <2>2. /\ wish.kind \in Moves => \A p \in wish.paths : Dest[p] # None
        /\ wish.kind = "directory" => wish.paths \subseteq Dir
        /\ wish.kind \in {"move", "archive", "delete"} =>
             \E p \in wish.paths : wish.paths = {p} /\ tree[p] # None
        /\ wish.kind = "directory" => \A p \in wish.paths : tree[p] # None
    BY DEF Ask
  <2>3. wish.kind # "batch" => \A p \in wish.paths : tree[p] # None
    BY <1>2, <2>2 DEF Wish, Kinds, Moves
  <2> QED BY <2>1, <2>2, <2>3 DEF Sound
<1>5. Me # w
  <2>1. w # None /\ reply[w] = "none"
    BY ConstantsAssumption DEF Ask
  <2> QED BY <2>1 DEF WriteInv, AskInv
<1>6. Asked' = Asked /\ Me' = Me /\ Me \in Calls \cup {None}
  BY <1>1, <1>5, AskedFacts DEF Asked, Me, WriteInv, TypeOK
<1>7. TypeOK'
  BY <1>1, <1>3, <1>6 DEF WriteInv, TypeOK
<1>8. AskInv'
  <2>1. \A v \in Calls : v # w => ask'[v] = ask[v] /\ reply'[v] = reply[v]
    BY <1>1 DEF WriteInv, TypeOK
  <2>2. ask'[w] = asked /\ reply'[w] = "asked" /\ asked # None
    BY <1>1, <1>3, ConstantsAssumption DEF WriteInv, TypeOK
  <2>3. \A v \in Calls : ask'[v] # None => Sound(ask'[v])
    BY <2>1, <2>2, <1>4 DEF WriteInv, AskInv, Sound
  <2> QED BY <2>1, <2>2, <2>3, <1>5, <1>6 DEF WriteInv, AskInv
<1> QED BY <1>1, <1>6, <1>7, <1>8, SameFiles

-----------------------------------------------------------------------------
(***************************************************************************)
(* The answer, the sync, and what is done at rest.                         *)
(***************************************************************************)
LEMMA StrikeFacts ==
  ASSUME TypeOK, NEW kind, Strike(kind) \/ faults' = faults
  PROVE  faults' \in 0 .. MaxFaults
<1>1. faults \in 0 .. MaxFaults /\ MaxFaults \in Nat
  BY ConstantsAssumption DEF TypeOK
<1> QED BY <1>1 DEF Strike

\* Return: nobody is at work, and the call is answered.
LEMMA ReturnFacts ==
  ASSUME WriteInv, phase # "free", ask' = ask,
         NEW answer \in {"saved", "refused", "undone", "torn", "failed"}, Return(answer)
  PROVE  /\ AskInv' /\ phase' = "free" /\ phase' \in Resting /\ Me' = None /\ job' = NoJob
         /\ job' \in Job
         /\ reply' \in [Calls -> {"none", "asked", "saved", "refused", "undone", "torn",
                                  "failed", "unknown"}]
<1>1. Me # None /\ Me \in Calls
  <2>1. Me # None
    BY DEF WriteInv, TypeOK
  <2> QED BY <2>1, AskedFacts DEF WriteInv
<1>2. /\ reply' = [reply EXCEPT ![Me] = answer]
      /\ phase' = "free" /\ job' = NoJob /\ job' \in Job /\ Me' = None
  BY NoJobFacts DEF Return, Me
<1>3. reply' \in [Calls -> {"none", "asked", "saved", "refused", "undone", "torn", "failed",
                            "unknown"}]
  BY <1>2 DEF WriteInv, TypeOK
<1>4. \A w \in Calls : reply'[w] = "asked" => reply[w] = "asked"
  BY <1>1, <1>2 DEF WriteInv, TypeOK
<1>5. AskInv'
  BY <1>2, <1>4 DEF WriteInv, AskInv, Sound
<1> QED BY <1>2, <1>3, <1>5 DEF Resting

\* AcceptUnchanged, Refuse: nothing is done.
LEMMA NothingDoneKeeps ==
  ASSUME WriteInv, AcceptUnchanged \/ Refuse
  PROVE  WriteInv'
<1>1. /\ phase = "check" /\ UNCHANGED <<tree, index, head, news, ahead, ask, told, faults, left>>
      /\ \E answer \in {"saved", "refused"} : Return(answer)
  BY DEF AcceptUnchanged, Refuse, files, remote, ghosts
<1>2. /\ AskInv' /\ phase' = "free" /\ phase' \in Resting /\ Me' = None
      /\ job' \in Job /\ job' = NoJob
      /\ reply' \in [Calls -> {"none", "asked", "saved", "refused", "undone", "torn", "failed",
                               "unknown"}]
  BY <1>1, ReturnFacts
<1>3. TypeOK'
  BY <1>1, <1>2 DEF WriteInv, TypeOK
<1>4. RestInv'
  BY <1>1, <1>2, NoJobFacts DEF WriteInv, RestInv, Resting
<1> QED BY <1>2, <1>3, <1>4, AtRest

\* Lock: a call begins with the sync.
LEMMA LockKeeps ==
  ASSUME WriteInv, NEW w \in Calls, Lock(w)
  PROVE  WriteInv'
<1>1. /\ phase = "free" /\ phase' = "sync" /\ reply[w] = "asked"
      /\ job' = [NoJob EXCEPT !.call = w, !.attempt = 1]
      /\ UNCHANGED <<tree, index, head, news, ahead, ask, reply, told, faults, left>>
  BY DEF Lock, files, remote, calls, ghosts
<1>2. /\ job' \in Job /\ Me' = w /\ w # None
      /\ job'.written = {} /\ job'.refs = {} /\ job'.why = "io" /\ job'.ok
  <2>1. /\ job' \in Job /\ job'.call = w
        /\ job'.written = {} /\ job'.refs = {} /\ job'.why = "io" /\ job'.ok
    BY <1>1, NoJobFacts DEF Job
  <2> QED BY <2>1, ConstantsAssumption DEF Me
<1>3. TypeOK'
  BY <1>1, <1>2 DEF WriteInv, TypeOK
<1>4. AskInv'
  BY <1>1, <1>2 DEF WriteInv, AskInv, Sound
<1>5. RestInv' /\ phase' \in Resting
  BY <1>1, <1>2 DEF WriteInv, RestInv, Resting
<1> QED BY <1>3, <1>4, <1>5, AtRest

\* Sync: what others pushed comes into files, index and commit alike, and is told.
LEMMA SyncKeeps ==
  ASSUME WriteInv, Sync
  PROVE  WriteInv'
<1>1. phase = "sync" /\ UNCHANGED <<ahead, ask, left>>
  BY DEF Sync
<1>2. /\ tree' \in Tree /\ index' \in Tree /\ head' \in Tree /\ told' \in Tree
      /\ news' \in [Paths -> Content \cup {None, Same}] /\ faults' \in 0 .. MaxFaults
      /\ \A p \in Paths \ left : tree'[p] = head'[p] /\ index'[p] = head'[p]
                                 /\ told'[p] = head'[p]
  <2>1. \A p \in Paths \ left : tree[p] = head[p] /\ index[p] = head[p] /\ told[p] = head[p]
    BY <1>1 DEF WriteInv, RestInv, Resting
  <2>2. CASE /\ tree' = Put(tree, Fresh, news) /\ index' = Put(index, Fresh, news)
             /\ head' = Put(head, Fresh, news) /\ told' = Put(told, Fresh, news)
             /\ news' = NoNews /\ faults' = faults
    <3>1. \A p \in Paths : p \in Fresh => news[p] \in Content \cup {None}
      BY DEF Fresh, WriteInv, TypeOK
    <3>2. /\ tree \in Tree /\ index \in Tree /\ head \in Tree /\ told \in Tree
          /\ faults \in 0 .. MaxFaults
      BY DEF WriteInv, TypeOK
    <3>3. news' \in [Paths -> Content \cup {None, Same}]
      BY <2>2 DEF NoNews
    <3>4. /\ tree' \in Tree
          /\ \A p \in Paths : tree'[p] = IF p \in Fresh THEN news[p] ELSE tree[p]
      BY <2>2, <3>1, <3>2, PutFacts
    <3>5. /\ index' \in Tree
          /\ \A p \in Paths : index'[p] = IF p \in Fresh THEN news[p] ELSE index[p]
      BY <2>2, <3>1, <3>2, PutFacts
    <3>6. /\ head' \in Tree
          /\ \A p \in Paths : head'[p] = IF p \in Fresh THEN news[p] ELSE head[p]
      BY <2>2, <3>1, <3>2, PutFacts
    <3>7. /\ told' \in Tree
          /\ \A p \in Paths : told'[p] = IF p \in Fresh THEN news[p] ELSE told[p]
      BY <2>2, <3>1, <3>2, PutFacts
    <3> QED BY <2>1, <2>2, <3>2, <3>3, <3>4, <3>5, <3>6, <3>7
  <2>3. CASE /\ Strike("fetch") \/ faults' = faults
             /\ UNCHANGED <<tree, index, head, news, told>>
    <3>1. faults' \in 0 .. MaxFaults
      BY <2>3, StrikeFacts DEF WriteInv
    <3> QED BY <2>1, <2>3, <3>1 DEF WriteInv, TypeOK
  <2> QED BY <2>2, <2>3 DEF Sync, files
<1>3. CASE phase' = "check" /\ UNCHANGED <<job, reply>>
  <2>1. TypeOK'
    BY <1>1, <1>2, <1>3 DEF WriteInv, TypeOK, Me
  <2>2. AskInv'
    BY <1>1, <1>3 DEF WriteInv, AskInv, Sound, Me
  <2>3. RestInv' /\ phase' \in Resting
    BY <1>1, <1>2, <1>3 DEF WriteInv, RestInv, Resting
  <2> QED BY <2>1, <2>2, <2>3, AtRest
<1>4. CASE Return("refused")
  <2>1. /\ AskInv' /\ phase' = "free" /\ phase' \in Resting /\ Me' = None
        /\ job' \in Job /\ job' = NoJob
        /\ reply' \in [Calls -> {"none", "asked", "saved", "refused", "undone", "torn",
                                 "failed", "unknown"}]
    BY <1>1, <1>4, ReturnFacts
  <2>2. TypeOK'
    BY <1>1, <1>2, <2>1 DEF WriteInv, TypeOK
  <2>3. RestInv'
    BY <1>1, <1>2, <2>1, NoJobFacts DEF RestInv
  <2> QED BY <2>1, <2>2, <2>3, AtRest
<1> QED BY <1>3, <1>4 DEF Sync

\* Crash: what is left as it was found belongs to the fault.
LEMMA CrashKeeps ==
  ASSUME WriteInv, Crash
  PROVE  WriteInv'
<1>1. /\ phase' = "free" /\ job' = NoJob /\ told' = tree
      /\ reply' = [w \in Calls |-> IF reply[w] = "asked" THEN "unknown" ELSE reply[w]]
      /\ ahead' = IF phase = "publish" THEN ahead \cup Touched ELSE ahead
      /\ left' = left \cup {p \in Paths : tree[p] # head[p] \/ index[p] # head[p]}
      /\ UNCHANGED <<tree, index, head, news, ask>>
  BY DEF Crash, files
<1>2. job' \in Job /\ Me' = None
  BY <1>1, NoJobFacts DEF Me
<1>3. faults' \in 0 .. MaxFaults
  BY StrikeFacts DEF Crash, WriteInv
<1>4. ahead' \subseteq Paths /\ left' \subseteq Paths
  BY <1>1 DEF WriteInv, TypeOK, Touched
<1>5. reply' \in [Calls -> {"none", "asked", "saved", "refused", "undone", "torn", "failed",
                            "unknown"}]
  BY <1>1 DEF WriteInv, TypeOK
<1>6. TypeOK'
  BY <1>1, <1>2, <1>3, <1>4, <1>5 DEF WriteInv, TypeOK
<1>7. AskInv'
  <2>1. \A w \in Calls : reply'[w] # "asked"
    BY <1>1
  <2> QED BY <1>1, <1>2, <2>1 DEF WriteInv, AskInv, Sound
<1>8. RestInv' /\ phase' \in Resting
  BY <1>1, NoJobFacts DEF RestInv, Resting
<1> QED BY <1>6, <1>7, <1>8, AtRest

-----------------------------------------------------------------------------
(***************************************************************************)
(* After the commit.                                                       *)
(***************************************************************************)
LEMMA WithFacts ==
  ASSUME TypeOK, NEW c \in Content, NEW p \in Paths, news[p] \notin {None, Same}
  PROVE  With(c, p) \in Content
<1>1. news[p] \in Content
  BY DEF TypeOK
<1> QED BY <1>1 DEF With, Content

\* What a rebase makes of both sides' changes is documents.
LEMMA MergedFacts ==
  ASSUME WriteInv, phase = "publish", Mergeable
  PROVE  Merged \in Tree
<1>1. head \in Tree /\ news \in [Paths -> Content \cup {None, Same}]
  BY DEF WriteInv, TypeOK
<1>2. \A p \in Both : news[p] \notin {None, Same} /\ p \in Paths
  BY DEF Mergeable, Both, Fresh
<1>3. \A q \in Targets : head[q] # None /\ Origin(q) \in Sources
  BY TargetFacts DEF WriteInv, PublishInv
<1>4. ASSUME NEW p \in Paths PROVE Merged[p] \in Content \cup {None}
  <2>1. head[p] # None => head[p] \in Content
    BY <1>1 DEF Tree
  <2>2. CASE p \in Both
    <3>1. Merged[p] = IF head[p] = None THEN None ELSE With(head[p], p)
      BY <2>2 DEF Merged
    <3> QED BY <3>1, <2>1, <2>2, <1>2, WithFacts DEF WriteInv
  <2>3. CASE p \notin Both /\ p \in Fresh
    <3>1. Merged[p] = news[p] /\ news[p] # Same
      BY <2>3 DEF Merged, Fresh
    <3> QED BY <3>1, <1>1
  <2>4. CASE p \notin Fresh /\ p \in Targets /\ Origin(p) \in Both
    <3>1. Merged[p] = With(head[p], Origin(p))
      BY <2>4 DEF Merged, Both
    <3> QED BY <3>1, <2>1, <2>4, <1>2, <1>3, WithFacts DEF WriteInv
  <2>5. CASE p \notin Fresh /\ ~(p \in Targets /\ Origin(p) \in Both)
    <3>1. Merged[p] = head[p]
      BY <2>5 DEF Merged, Both
    <3> QED BY <3>1, <2>1
  <2> QED BY <2>2, <2>3, <2>4, <2>5
<1>5. Merged = [p \in Paths |-> Merged[p]]
  BY DEF Merged
<1> QED BY <1>4, <1>5 DEF Tree

\* Push: files, index and commit go together to what the rebase made, and all of it is told.
LEMMA PushKeeps ==
  ASSUME WriteInv, Push
  PROVE  WriteInv'
<1>1. /\ phase = "publish" /\ Mergeable /\ Return("saved")
      /\ head' = Merged /\ index' = Merged
      /\ tree' = [p \in Paths |-> IF Merged[p] # head[p] THEN Merged[p] ELSE tree[p]]
      /\ told' = Put(told, Marked \cup {p \in Paths : Merged[p] # head[p]}, tree')
      /\ news' = NoNews /\ ahead' = {}
      /\ UNCHANGED <<ask, faults, left>>
  BY DEF Push, ghosts
<1>2. Merged \in Tree /\ tree \in Tree /\ told \in Tree
  BY <1>1, MergedFacts DEF WriteInv, TypeOK
<1>3. tree' \in Tree /\ \A p \in Paths : tree'[p] \in Content \cup {None}
  <2>1. \A p \in Paths : Merged[p] \in Content \cup {None} /\ tree[p] \in Content \cup {None}
    BY <1>2 DEF Tree
  <2> QED BY <1>1, <2>1 DEF Tree
<1>4. /\ told' \in Tree
      /\ \A p \in Paths :
           told'[p] = IF p \in Marked \/ Merged[p] # head[p] THEN tree'[p] ELSE told[p]
  <2> DEFINE S == Marked \cup {p \in Paths : Merged[p] # head[p]}
  <2>1. /\ Put(told, S, tree') \in Tree
        /\ \A p \in Paths : Put(told, S, tree')[p] = IF p \in S THEN tree'[p] ELSE told[p]
    BY <1>2, <1>3, PutFacts
  <2> QED BY <1>1, <2>1
<1>5. /\ AskInv' /\ phase' = "free" /\ phase' \in Resting /\ Me' = None
      /\ job' \in Job /\ job' = NoJob
      /\ reply' \in [Calls -> {"none", "asked", "saved", "refused", "undone", "torn",
                               "failed", "unknown"}]
  BY <1>1, ReturnFacts
<1>6. news' \in [Paths -> Content \cup {None, Same}] /\ ahead' \subseteq Paths
  BY <1>1 DEF NoNews
<1>7. TypeOK'
  BY <1>1, <1>2, <1>3, <1>4, <1>5, <1>6 DEF WriteInv, TypeOK
<1>8. RestInv'
  <2>1. SUFFICES ASSUME NEW p \in Paths \ left
                 PROVE  tree'[p] = head'[p] /\ index'[p] = head'[p] /\ told'[p] = head'[p]
    BY <1>1, <1>5, NoJobFacts DEF RestInv
  <2>2. /\ tree[p] = head[p] /\ told[p] = job.pre[p]
        /\ p \notin Marked => head[p] = job.pre[p]
    BY <1>1 DEF WriteInv, PublishInv, Marked
  <2> QED BY <1>1, <1>4, <2>2
<1> QED BY <1>5, <1>7, <1>8, AtRest

\* PushPending: the commit stays, and what it changed is told.
LEMMA PushPendingKeeps ==
  ASSUME WriteInv, PushPending
  PROVE  WriteInv'
<1>1. /\ phase = "publish" /\ Return("saved")
      /\ Strike("push") \/ faults' = faults
      /\ told' = Put(told, Marked, tree) /\ ahead' = ahead \cup Touched
      /\ UNCHANGED <<tree, index, head, news, ask, left>>
  BY DEF PushPending, files
<1>2. tree \in Tree /\ told \in Tree /\ \A p \in Paths : tree[p] \in Content \cup {None}
  BY DEF WriteInv, TypeOK, Tree
<1>3. told' \in Tree /\ \A p \in Paths : told'[p] = IF p \in Marked THEN tree[p] ELSE told[p]
  BY <1>1, <1>2, PutFacts
<1>4. /\ AskInv' /\ phase' = "free" /\ phase' \in Resting /\ Me' = None
      /\ job' \in Job /\ job' = NoJob
      /\ reply' \in [Calls -> {"none", "asked", "saved", "refused", "undone", "torn",
                               "failed", "unknown"}]
  BY <1>1, ReturnFacts
<1>5. faults' \in 0 .. MaxFaults /\ ahead' \subseteq Paths
  BY <1>1, StrikeFacts DEF WriteInv, TypeOK, Touched
<1>6. TypeOK'
  BY <1>1, <1>3, <1>4, <1>5 DEF WriteInv, TypeOK
<1>7. RestInv'
  BY <1>1, <1>3, <1>4, NoJobFacts DEF RestInv, WriteInv, PublishInv, Marked
<1> QED BY <1>4, <1>6, <1>7, AtRest

\* Conflict: back to the commit the call found, with the files as they were.
LEMMA ConflictKeeps ==
  ASSUME WriteInv, Conflict
  PROVE  WriteInv'
<1>1. /\ phase = "publish" /\ phase' = "sync" /\ job' = NextAttempt
      /\ head' = job.pre /\ index' = job.pre
      /\ tree' = [p \in Paths |-> IF index[p] = None /\ job.pre[p] = None THEN tree[p]
                                  ELSE job.pre[p]]
      /\ UNCHANGED <<news, ahead, ask, reply, told, faults, left>>
  BY DEF Conflict, Checkout, remote, calls, ghosts
<1>2. job.pre \in Tree /\ tree \in Tree /\ job \in Job
  BY DEF WriteInv, TypeOK, Job
<1>3. tree' \in Tree
  <2>1. \A p \in Paths : job.pre[p] \in Content \cup {None} /\ tree[p] \in Content \cup {None}
    BY <1>2 DEF Tree
  <2> QED BY <1>1, <2>1 DEF Tree
<1>4. /\ job' \in Job /\ Me' = Me /\ Me # None
      /\ job'.written = {} /\ job'.refs = {} /\ job'.why = "io" /\ job'.ok
  <2>1. job.attempt + 1 \in Nat /\ Me \in Calls \cup {None}
    BY <1>2 DEF Job, Me
  <2>2. /\ NextAttempt \in Job /\ NextAttempt.call = Me
        /\ NextAttempt.written = {} /\ NextAttempt.refs = {} /\ NextAttempt.why = "io"
        /\ NextAttempt.ok
    BY <2>1, NoJobFacts DEF NextAttempt, Job
  <2> QED BY <1>1, <2>2 DEF Me, WriteInv, TypeOK
<1>5. TypeOK'
  BY <1>1, <1>2, <1>3, <1>4 DEF WriteInv, TypeOK
<1>6. AskInv'
  BY <1>1, <1>4 DEF WriteInv, AskInv, Sound
<1>7. RestInv' /\ phase' \in Resting
  <2>1. SUFFICES ASSUME NEW p \in Paths \ left
                 PROVE  tree'[p] = head'[p] /\ index'[p] = head'[p] /\ told'[p] = head'[p]
    BY <1>1, <1>4 DEF RestInv, Resting
  <2>2. tree[p] = head[p] /\ index[p] = head[p] /\ told[p] = job.pre[p]
    BY <1>1 DEF WriteInv, PublishInv
  <2> QED BY <1>1, <2>2
<1> QED BY <1>5, <1>6, <1>7, AtRest

-----------------------------------------------------------------------------
(***************************************************************************)
(* A call at work, up to its commit.                                       *)
(***************************************************************************)
\* While files are under way, the parts about rest and commit say nothing.
LEMMA AtWork ==
  ASSUME phase' \in Working, TypeOK', AskInv', ListInv', FilesInv', ThereInv', LinksInv',
         OkInv'
  PROVE  WriteInv'
<1>1. phase' \notin Resting /\ phase' # "publish"
  BY DEF Resting, Working
<1>2. RestInv' /\ PublishInv'
  BY <1>1 DEF RestInv, PublishInv
<1> QED BY <1>2 DEF WriteInv

\* The steps that neither begin nor end a call's work.
LEMMA SameCall ==
  ASSUME TypeOK, AskInv, phase # "free", phase' \in Working \cup {"publish"},
         job' \in Job, job'.call = job.call,
         tree' \in Tree, index' \in Tree, head' \in Tree, told' \in Tree,
         faults' \in 0 .. MaxFaults, left' \subseteq Paths,
         UNCHANGED <<news, ahead, ask, reply>>
  PROVE  TypeOK' /\ AskInv'
<1>1. Me' = Me
  BY DEF Me
<1>2. phase' # "free" /\ phase' \in {"write", "remove", "query", "links", "commit", "restore",
                                     "discard", "publish"}
  BY DEF Working
<1>3. TypeOK'
  BY <1>1, <1>2 DEF TypeOK
<1>4. AskInv'
  BY <1>1 DEF AskInv, Sound
<1> QED BY <1>3, <1>4

\* Accept: nothing is touched yet, and the files are as the commit has them.
LEMMA AcceptKeeps ==
  ASSUME WriteInv, Accept
  PROVE  WriteInv'
<1>1. PICK changed \in SUBSET Sources :
        /\ changed # {}
        /\ job' = [job EXCEPT !.was = tree, !.pre = head, !.todo = FirstStep(changed)[2]]
        /\ phase' = FirstStep(changed)[1]
  BY DEF Accept
<1>2. /\ phase = "check" /\ Acceptable
      /\ UNCHANGED <<tree, index, head, news, ahead, ask, reply, told, faults, left>>
  BY DEF Accept, files, remote, calls, ghosts
<1>3. /\ job \in Job /\ tree \in Tree /\ head \in Tree /\ Sources \subseteq Paths
      /\ Targets \subseteq Paths /\ Asked.kind \in Kinds
      /\ job.written = {} /\ job.refs = {} /\ job.why = "io" /\ job.ok
  BY <1>2, AskedFacts, TargetFacts DEF WriteInv, TypeOK, RestInv, Resting, Request
<1>4. /\ phase' = "write" \/ phase' = "remove"
      /\ phase' = "write" => /\ Asked.kind # "delete"
                             /\ FirstStep(changed)[2] = IF Moving THEN Targets ELSE changed
                             /\ FirstStep(changed)[2] \subseteq Room
      /\ phase' = "remove" => Asked.kind = "delete" /\ FirstStep(changed)[2] = Sources
  <2>1. CASE Moving
    BY <2>1, <1>1 DEF FirstStep, Moving, Moves, Removing, Room
  <2>2. CASE ~Moving
    BY <2>2, <1>1, <1>3 DEF FirstStep, Removing, Room, Moving, Moves, Kinds
  <2> QED BY <2>1, <2>2
<1>5. FirstStep(changed)[2] \subseteq Paths /\ FirstStep(changed)[2] # {}
  <2>1. Moving => Targets # {}
    BY <1>1, TargetFacts DEF WriteInv
  <2> QED BY <1>1, <1>3, <1>4, <2>1
<1>6. /\ job' \in Job /\ job'.call = job.call /\ job'.was = tree /\ job'.pre = head
      /\ job'.todo = FirstStep(changed)[2]
      /\ job'.written = {} /\ job'.refs = {} /\ job'.why = "io" /\ job'.ok
  BY <1>1, <1>3, <1>5 DEF Job
<1>7. phase' \in Working
  BY <1>4 DEF Working
<1>8. TypeOK' /\ AskInv'
  BY <1>2, <1>6, <1>7, SameCall DEF WriteInv, TypeOK
<1>9. /\ Asked' = Asked /\ Sources' = Sources /\ Targets' = Targets /\ (Moving <=> Moving')
      /\ (Removing <=> Removing') /\ Room' = Room
  BY <1>2, <1>6, SameRequest
<1>10. ListInv'
  <2>1. Removing => \A p \in Sources : tree[p] # None
    <3>1. Removing => \A p \in Sources : Asked.seen[p] # None
      BY AskedFacts DEF WriteInv, Sound, Removing, Sources
    <3> QED BY <1>2, <3>1 DEF Acceptable, Removing
  <2>2. \A q \in Targets : tree[q] = None
    BY <1>2, TargetFacts DEF WriteInv, Acceptable, Moving, Moves
  <2>3. Asked.kind = "delete" => Removing /\ ~Moving
    BY DEF Removing, Moving, Moves
  <2> QED BY <1>1, <1>2, <1>3, <1>4, <1>5, <1>6, <1>9, <2>1, <2>2, <2>3 DEF ListInv
<1>11. FilesInv'
  <2>1. \A p \in Paths \ left : tree[p] = head[p] /\ index[p] = head[p] /\ told[p] = head[p]
    BY <1>2 DEF WriteInv, RestInv, Resting
  <2> QED BY <1>2, <1>6, <2>1 DEF FilesInv
<1>12. ThereInv' /\ LinksInv' /\ OkInv'
  BY <1>4, <1>6 DEF ThereInv, LinksInv, OkInv
<1> QED BY <1>7, <1>8, <1>10, <1>11, <1>12, AtWork

\* WriteFile: what is written is on the list of what would be undone.
LEMMA WriteFileKeeps ==
  ASSUME WriteInv, NEW p \in Paths, WriteFile(p)
  PROVE  WriteInv'
<1>1. /\ phase = "write" /\ p \in job.todo
      /\ tree' = [tree EXCEPT ![p] = NewAt(p)]
      /\ job' = [job EXCEPT !.written = @ \cup {p},
                            !.todo = IF job.todo # {p} THEN @ \ {p}
                                     ELSE IF Moving THEN Sources ELSE {}]
      /\ phase' = IF job.todo = {p} THEN AfterWrite ELSE "write"
      /\ UNCHANGED <<index, head, news, ahead, ask, reply, told, faults, left>>
  BY DEF WriteFile, remote, calls, ghosts
<1>2. /\ job \in Job /\ tree \in Tree /\ Sources \subseteq Paths /\ Me # None
      /\ Targets \subseteq Paths /\ phase \in Working
  BY <1>1, AskedFacts, TargetFacts DEF WriteInv, TypeOK, Working
<1>3. p \in Room /\ Asked.kind # "delete"
  BY <1>1, <1>2 DEF WriteInv, ListInv
<1>4. NewAt(p) \in Content /\ NewAt(p) # None
  BY <1>2, <1>3, NewAtFacts, ConstantsAssumption
<1>5. tree' \in Tree /\ \A q \in Paths : tree'[q] = IF q = p THEN NewAt(p) ELSE tree[q]
  <2>1. PICK c \in Content : c = NewAt(p)
    BY <1>4
  <2>2. tree' = [tree EXCEPT ![p] = c]
    BY <1>1, <2>1
  <2> QED BY <1>2, <2>1, <2>2 DEF Tree
<1>6. /\ job' \in Job /\ job'.call = job.call /\ job'.was = job.was /\ job'.pre = job.pre
      /\ job'.todo = IF job.todo # {p} THEN job.todo \ {p}
                     ELSE IF Moving THEN Sources ELSE {}
      /\ job'.written = job.written \cup {p} /\ job'.refs = job.refs
      /\ job'.why = job.why /\ job'.ok = job.ok
  BY <1>1, <1>2 DEF Job
<1>7. /\ phase' = "write" <=> job.todo # {p}
      /\ phase' = "remove" <=> job.todo = {p} /\ Moving
      /\ phase' = "commit" <=> job.todo = {p} /\ ~Moving
      /\ phase' \in {"write", "remove", "commit"} /\ phase' \in Working
  BY <1>1 DEF AfterWrite, Working
<1>8. TypeOK' /\ AskInv'
  BY <1>1, <1>5, <1>6, <1>7, SameCall DEF WriteInv, TypeOK
<1>9. /\ Me' = Me /\ Asked' = Asked /\ Sources' = Sources /\ Targets' = Targets
      /\ (Moving <=> Moving') /\ (Removing <=> Removing') /\ Room' = Room
  BY <1>1, <1>6, SameRequest
<1>10. /\ job.pre = head
       /\ Removing => \A q \in Sources : job.was[q] # None
       /\ \A q \in Targets : job.was[q] = None
       /\ job.written \subseteq Room
       /\ job.why = "io" /\ job.ok /\ job.refs = {} /\ Asked.kind # "delete"
       /\ job.todo \subseteq Room
       /\ job.todo \cap job.written = {}
       /\ Moving => Targets \subseteq job.written \cup job.todo
  BY <1>1, <1>2 DEF WriteInv, ListInv
<1>11. Moving <=> Removing
  BY <1>10, AskedFacts DEF WriteInv, Moving, Removing, Moves, Kinds, Request
<1>11a. Moving => Room = Targets
  BY <1>11 DEF Room
<1>12. ListInv'
  <2>1. Moving => Sources # {}
    BY <1>3, <1>11a, TargetFacts DEF WriteInv
  <2>2. job.todo = {p} /\ Moving => job'.written = Targets
    BY <1>3, <1>6, <1>10, <1>11a
  <2>3. phase' = "write" =>
          /\ job'.todo # {} /\ job'.todo \cap job'.written = {}
          /\ job'.todo \subseteq Room /\ (Moving => Targets \subseteq job'.written \cup job'.todo)
    BY <1>1, <1>6, <1>7, <1>10
  <2>4. phase' = "remove" => job'.todo = Sources /\ Sources # {}
    BY <1>6, <1>7, <2>1
  <2> QED BY <1>1, <1>3, <1>6, <1>7, <1>9, <1>10, <1>11, <2>2, <2>3, <2>4 DEF ListInv
<1>13. FilesInv'
  <2>1. SUFFICES ASSUME NEW q \in Paths \ left
                 PROVE  /\ job'.was[q] = head'[q] /\ told'[q] = head'[q]
                        /\ q \notin Touching' => tree'[q] = head'[q]
                        /\ index'[q] = head'[q]
                        /\ q \notin job'.written => tree'[q] = head'[q]
                        /\ phase' = "remove" /\ q \in Sources => tree'[q] = head'[q]
    BY <1>1, <1>6, <1>7, <1>9 DEF FilesInv
  <2>2. /\ job.was[q] = head[q] /\ told[q] = head[q] /\ index[q] = head[q]
        /\ q \notin job.written => tree[q] = head[q]
    BY <1>1, <1>2, <1>10 DEF WriteInv, FilesInv
  <2>3. q \notin job'.written => tree'[q] = head'[q]
    BY <1>1, <1>5, <1>6, <2>2
  <2>4. Moving => job'.written \cap Sources = {}
    BY <1>3, <1>6, <1>10, <1>11a, TargetFacts DEF WriteInv
  <2> QED BY <1>1, <1>6, <1>7, <2>2, <2>3, <2>4 DEF Touching
<1>14. ThereInv'
  <2>1. \A q : NewAt(q)' = NewAt(q)
    BY <1>6, <1>9 DEF NewAt, Mine, Origin, Followed
  <2>2. /\ \A q \in job.written \cap Targets : tree[q] = NewAt(q)
        /\ \A q \in job.written \cup job.refs : tree[q] # None
    BY <1>1, <1>2 DEF WriteInv, ThereInv
  <2>3. job.written \subseteq Paths /\ job.refs \subseteq Paths
    BY <1>2 DEF Job
  <2> QED BY <1>4, <1>5, <1>6, <1>7, <1>9, <2>1, <2>2, <2>3 DEF ThereInv
<1>15. LinksInv' /\ OkInv'
  BY <1>7, <1>9 DEF LinksInv, OkInv
<1> QED BY <1>7, <1>8, <1>12, <1>13, <1>14, <1>15, AtWork

\* WriteFails: the file that was cut short is on the list of what is undone, or, in a
\* directory move, it is the fault's.
LEMMA WriteFailsKeeps ==
  ASSUME WriteInv, NEW p \in Paths, WriteFails(p)
  PROVE  WriteInv'
<1>1. /\ phase = "write" /\ p \in job.todo /\ Strike("write") /\ phase' = UndoFiles
      /\ \/ UNCHANGED <<tree, left>> /\ job' = [job EXCEPT !.todo = {}]
         \/ /\ tree' = [tree EXCEPT ![p] = Cut]
            /\ job' = [job EXCEPT !.written = UndoneBy(p), !.todo = {}]
            /\ left' = IF Asked.kind = "directory" THEN left \cup {p} ELSE left
      /\ UNCHANGED <<index, head, news, ahead, ask, reply, told>>
  BY DEF WriteFails, remote, calls
<1>2. /\ job \in Job /\ tree \in Tree /\ phase \in Working /\ faults' \in 0 .. MaxFaults
      /\ Sources \subseteq Paths /\ Targets \subseteq Paths
  BY <1>1, AskedFacts, TargetFacts, StrikeFacts DEF WriteInv, TypeOK, Working
<1>3. /\ job.pre = head
      /\ Removing => \A q \in Sources : job.was[q] # None
      /\ \A q \in Targets : job.was[q] = None
      /\ job.written \subseteq Room /\ p \in Room /\ p \notin job.written
      /\ job.why = "io" /\ job.ok /\ job.refs = {} /\ Asked.kind # "delete"
  BY <1>1, <1>2 DEF WriteInv, ListInv
<1>4. /\ job' \in Job /\ job'.call = job.call /\ job'.was = job.was /\ job'.pre = job.pre
      /\ job'.refs = {} /\ job'.why = "io" /\ job'.ok
      /\ tree' \in Tree /\ \A q \in Paths : q # p => tree'[q] = tree[q]
      /\ left' \subseteq Paths /\ left \subseteq left'
      /\ \/ tree' = tree /\ job'.written = job.written
         \/ /\ tree'[p] = Cut
            /\ \/ Asked.kind = "directory" /\ job'.written = job.written /\ p \in left'
               \/ Asked.kind # "directory" /\ job'.written = job.written \cup {p}
  <2>1. CASE UNCHANGED <<tree, left>> /\ job' = [job EXCEPT !.todo = {}]
    BY <2>1, <1>2, <1>3 DEF Job, WriteInv, TypeOK
  <2>2. CASE /\ tree' = [tree EXCEPT ![p] = Cut]
             /\ job' = [job EXCEPT !.written = UndoneBy(p), !.todo = {}]
             /\ left' = IF Asked.kind = "directory" THEN left \cup {p} ELSE left
    <3>1. UndoneBy(p) = IF Asked.kind = "directory" THEN job.written ELSE job.written \cup {p}
      BY DEF UndoneBy
    <3>2. UndoneBy(p) \subseteq Paths
      BY <3>1, <1>2 DEF Job
    <3>3. /\ job' \in Job /\ job'.call = job.call /\ job'.was = job.was /\ job'.pre = job.pre
          /\ job'.refs = {} /\ job'.why = "io" /\ job'.ok /\ job'.written = UndoneBy(p)
      BY <2>2, <3>2, <1>2, <1>3 DEF Job
    <3>4. /\ tree' \in Tree /\ tree'[p] = Cut
          /\ \A q \in Paths : q # p => tree'[q] = tree[q]
      BY <2>2, <1>2, CutFacts DEF Tree
    <3>5. left' \subseteq Paths /\ left \subseteq left'
      BY <2>2 DEF WriteInv, TypeOK
    <3> QED BY <2>2, <3>1, <3>3, <3>4, <3>5
  <2> QED BY <1>1, <2>1, <2>2
<1>5. /\ phase' = IF Asked.kind = "directory" THEN "restore" ELSE "discard"
      /\ phase' \in Working
  BY <1>1 DEF UndoFiles, Working
<1>6. TypeOK' /\ AskInv'
  BY <1>1, <1>2, <1>4, <1>5, SameCall DEF WriteInv, TypeOK
<1>7. /\ Me' = Me /\ Asked' = Asked /\ Sources' = Sources /\ Targets' = Targets
      /\ (Moving <=> Moving') /\ (Removing <=> Removing') /\ Room' = Room
  BY <1>1, <1>4, SameRequest
<1>8. ListInv'
  <2>1. job'.written \subseteq Room
    BY <1>3, <1>4
  <2> QED BY <1>1, <1>3, <1>4, <1>5, <1>7, <2>1 DEF ListInv
<1>9. FilesInv'
  <2>0. Moving' => job'.written \cap Sources' = {}
    BY <1>3, <1>4, <1>7, TargetFacts DEF WriteInv, Room, Moving, Moves, Removing
  <2>1. SUFFICES ASSUME NEW q \in Paths \ left'
                 PROVE  /\ job'.was[q] = head'[q] /\ told'[q] = head'[q] /\ index'[q] = head'[q]
                        /\ q \notin job'.written => tree'[q] = head'[q]
    BY <1>4, <1>5, <2>0 DEF FilesInv, Touching, ToDiscard
  <2>2. /\ job.was[q] = head[q] /\ told[q] = head[q] /\ index[q] = head[q]
        /\ q \notin job.written => tree[q] = head[q]
    BY <1>1, <1>2, <1>3, <1>4, <2>1 DEF WriteInv, FilesInv
  <2> QED BY <1>1, <1>3, <1>4, <2>1, <2>2
<1>10. ThereInv'
  <2>1. \A q : NewAt(q)' = NewAt(q)
    BY <1>4, <1>7 DEF NewAt, Mine, Origin, Followed
  <2>2. /\ \A q \in job.written \cap Targets : tree[q] = NewAt(q)
        /\ \A q \in job.written : tree[q] # None
    BY <1>1, <1>2 DEF WriteInv, ThereInv
  <2>3. job.written \subseteq Paths
    BY <1>2 DEF Job
  <2>4. \A q \in job'.written : tree'[q] # None
    BY <1>3, <1>4, <2>2, <2>3, CutFacts
  <2>5. phase' # "discard" => job'.written = job.written /\ \A q \in job.written : tree'[q] = tree[q]
    BY <1>3, <1>4, <1>5, <2>3
  <2> QED BY <1>4, <1>7, <2>1, <2>2, <2>4, <2>5 DEF ThereInv
<1>11. LinksInv' /\ OkInv'
  BY <1>4, <1>5 DEF LinksInv, OkInv
<1> QED BY <1>5, <1>6, <1>8, <1>9, <1>10, <1>11, AtWork

\* RemoveFile: a source goes when every destination is there.
LEMMA RemoveFileKeeps ==
  ASSUME WriteInv, NEW p \in Paths, RemoveFile(p)
  PROVE  WriteInv'
<1>1. /\ phase = "remove" /\ p \in job.todo
      /\ tree' = [tree EXCEPT ![p] = None] /\ job' = [job EXCEPT !.todo = @ \ {p}]
      /\ phase' = IF job.todo = {p} THEN "query" ELSE "remove"
      /\ UNCHANGED <<index, head, news, ahead, ask, reply, told, faults, left>>
  BY DEF RemoveFile, remote, calls, ghosts
<1>2. /\ job \in Job /\ tree \in Tree /\ phase \in Working
      /\ Sources \subseteq Paths /\ Targets \subseteq Paths /\ Targets \cap Sources = {}
  BY <1>1, AskedFacts, TargetFacts DEF WriteInv, TypeOK, Working
<1>3. /\ job.pre = head /\ Removing
      /\ \A q \in Sources : job.was[q] # None
      /\ \A q \in Targets : job.was[q] = None
      /\ job.written \subseteq Targets /\ job.todo \subseteq Sources
      /\ Moving => job.written = Targets
      /\ job.why = "io" /\ job.ok /\ job.refs = {}
  BY <1>1, <1>2 DEF WriteInv, ListInv, Room
<1>4. /\ job' \in Job /\ job'.call = job.call /\ job'.was = job.was /\ job'.pre = job.pre
      /\ job'.written = job.written /\ job'.todo = job.todo \ {p}
      /\ job'.refs = {} /\ job'.why = "io" /\ job'.ok
  BY <1>1, <1>2, <1>3 DEF Job
<1>5. tree' \in Tree /\ tree'[p] = None /\ \A q \in Paths : q # p => tree'[q] = tree[q]
  BY <1>1, <1>2 DEF Tree
<1>6. phase' \in {"query", "remove"} /\ phase' \in Working
  BY <1>1 DEF Working
<1>7. TypeOK' /\ AskInv'
  BY <1>1, <1>4, <1>5, <1>6, SameCall DEF WriteInv, TypeOK
<1>8. /\ Me' = Me /\ Asked' = Asked /\ Sources' = Sources /\ Targets' = Targets
      /\ (Moving <=> Moving') /\ (Removing <=> Removing') /\ Room' = Room
  BY <1>1, <1>4, SameRequest
<1>9. ListInv'
  <2>1. phase' = "remove" => job'.todo # {} /\ job'.todo \subseteq Sources
    BY <1>1, <1>3, <1>4
  <2>2. job'.written \subseteq Room
    BY <1>3, <1>4 DEF Room
  <2> QED BY <1>1, <1>3, <1>4, <1>6, <1>8, <2>1, <2>2 DEF ListInv
<1>10. FilesInv'
  <2>1. SUFFICES ASSUME NEW q \in Paths \ left
                 PROVE  /\ job'.was[q] = head'[q] /\ told'[q] = head'[q] /\ index'[q] = head'[q]
                        /\ q \notin Touching' => tree'[q] = head'[q]
                        /\ q \in job'.todo => tree'[q] = head'[q]
    BY <1>1, <1>4, <1>6 DEF FilesInv
  <2>2. /\ job.was[q] = head[q] /\ told[q] = head[q] /\ index[q] = head[q]
        /\ q \notin Touching => tree[q] = head[q]
        /\ q \in job.todo => tree[q] = head[q]
    BY <1>1, <1>2, <1>3 DEF WriteInv, FilesInv
  <2>3. Touching' = Touching /\ p \in Touching
    BY <1>1, <1>3, <1>4, <1>8 DEF Touching
  <2> QED BY <1>1, <1>4, <1>5, <2>2, <2>3
<1>11. ThereInv'
  <2>1. \A q : NewAt(q)' = NewAt(q)
    BY <1>4, <1>8 DEF NewAt, Mine, Origin, Followed
  <2>2. /\ \A q \in job.written \cap Targets : tree[q] = NewAt(q)
        /\ \A q \in job.written : tree[q] # None
    BY <1>1, <1>2 DEF WriteInv, ThereInv
  <2>3. \A q \in job.written : tree'[q] = tree[q]
    BY <1>1, <1>2, <1>3, <1>5
  <2> QED BY <1>4, <1>6, <1>8, <2>1, <2>2, <2>3 DEF ThereInv
<1>12. LinksInv' /\ OkInv'
  BY <1>6 DEF LinksInv, OkInv
<1> QED BY <1>6, <1>7, <1>9, <1>10, <1>11, <1>12, AtWork

\* RemoveFails: a single document is still in its place.
LEMMA RemoveFailsKeeps ==
  ASSUME WriteInv, RemoveFails
  PROVE  WriteInv'
<1>1. /\ phase = "remove" /\ Strike("remove") /\ phase' = UndoFiles
      /\ UNCHANGED <<tree, index, head, news, ahead, job, ask, reply, told, left>>
  BY DEF RemoveFails, files, remote, calls
<1>2. /\ job \in Job /\ phase \in Working /\ faults' \in 0 .. MaxFaults
      /\ Sources \subseteq Paths /\ phase' \in Working
      /\ phase' = IF Asked.kind = "directory" THEN "restore" ELSE "discard"
  BY <1>1, AskedFacts, StrikeFacts DEF WriteInv, TypeOK, Working, UndoFiles
<1>3. /\ job.pre = head /\ Removing
      /\ job.todo \subseteq Sources /\ job.todo # {}
      /\ Moving => job.written = Targets
      /\ job.why = "io" /\ job.ok /\ job.refs = {}
  BY <1>1, <1>2 DEF WriteInv, ListInv
<1>4. TypeOK' /\ AskInv'
  BY <1>1, <1>2, SameCall DEF WriteInv, TypeOK
<1>5. /\ Me' = Me /\ Asked' = Asked /\ Sources' = Sources /\ Targets' = Targets
      /\ (Moving <=> Moving') /\ (Removing <=> Removing') /\ Room' = Room
  BY <1>1, SameRequest
<1>6. ListInv'
  BY <1>1, <1>2, <1>3, <1>5 DEF WriteInv, ListInv, Removing
<1>7. FilesInv'
  <2>1. SUFFICES ASSUME NEW q \in Paths \ left
                 PROVE  /\ job.was[q] = head[q] /\ told[q] = head[q] /\ index[q] = head[q]
                        /\ q \notin Touching => tree[q] = head[q]
                        /\ phase' = "discard" /\ q \notin job.written => tree[q] = head[q]
    BY <1>1, <1>2, <1>3, <1>5 DEF FilesInv, Touching, ToDiscard
  <2>2. /\ job.was[q] = head[q] /\ told[q] = head[q] /\ index[q] = head[q]
        /\ q \notin Touching => tree[q] = head[q]
        /\ q \in job.todo => tree[q] = head[q]
    BY <1>1, <1>2, <1>3 DEF WriteInv, FilesInv
  <2>3. Asked.kind # "directory" => job.todo = Sources
    <3>1. Asked.kind # "directory" => \E x \in Sources : Sources = {x}
      BY <1>3, AskedFacts DEF WriteInv, Sound, Removing, Sources, Request, Kinds, Moves
    <3> QED BY <1>3, <3>1
  <2>4. q \in Touching => q \in job.written \/ q \in Sources
    BY <1>3 DEF Touching
  <2> QED BY <1>2, <2>2, <2>3, <2>4
<1>8. ThereInv' /\ LinksInv' /\ OkInv'
  <2>1. \A q : NewAt(q)' = NewAt(q)
    BY <1>1, <1>5 DEF NewAt, Mine, Origin, Followed
  <2>2. ThereInv'
    BY <1>1, <1>2, <1>3, <1>5, <2>1 DEF WriteInv, ThereInv, Removing
  <2>3. LinksInv' /\ OkInv'
    BY <1>1, <1>2, <1>3 DEF LinksInv, OkInv
  <2> QED BY <2>2, <2>3
<1> QED BY <1>2, <1>4, <1>6, <1>7, <1>8, AtWork

\* FindLinks: nothing is touched.
LEMMA FindLinksKeeps ==
  ASSUME WriteInv, FindLinks
  PROVE  WriteInv'
<1>1. /\ phase = "query"
      /\ \/ \E known \in SUBSET {q \in Paths : LinksHere(q)} :
              /\ job' = [job EXCEPT !.todo = known, !.known = known]
              /\ phase' = IF known = {} THEN "commit" ELSE "links"
              /\ faults' = faults
         \/ Strike("query") /\ phase' = "restore" /\ job' = job
      /\ UNCHANGED <<tree, index, head, news, ahead, ask, reply, told, left>>
  BY DEF FindLinks, files, remote, calls
<1>2. /\ job \in Job /\ phase \in Working /\ faults' \in 0 .. MaxFaults
      /\ phase' \in {"commit", "links", "restore"} /\ phase' \in Working
  BY <1>1, StrikeFacts DEF WriteInv, TypeOK, Working
<1>3. /\ job.pre = head /\ Removing
      /\ \A q \in Sources : job.was[q] # None
      /\ \A q \in Targets : job.was[q] = None
      /\ job.written \subseteq Room
      /\ Moving => job.written = Targets
      /\ job.why = "io" /\ job.ok /\ job.refs = {}
  BY <1>1, <1>2 DEF WriteInv, ListInv
<1>4. /\ job' \in Job /\ job'.call = job.call /\ job'.was = job.was /\ job'.pre = job.pre
      /\ job'.written = job.written /\ job'.refs = {} /\ job'.why = "io" /\ job'.ok
      /\ phase' # "restore" =>
           /\ job'.known = job'.todo /\ \A q \in job'.todo : LinksHere(q)
           /\ phase' = "commit" => job'.todo = {}
  <2>1. CASE \E known \in SUBSET {q \in Paths : LinksHere(q)} :
               /\ job' = [job EXCEPT !.todo = known, !.known = known]
               /\ phase' = IF known = {} THEN "commit" ELSE "links"
    <3>1. PICK known \in SUBSET {q \in Paths : LinksHere(q)} :
               /\ job' = [job EXCEPT !.todo = known, !.known = known]
               /\ phase' = IF known = {} THEN "commit" ELSE "links"
      BY <2>1
    <3>2. /\ job' \in Job /\ job'.call = job.call /\ job'.was = job.was /\ job'.pre = job.pre
          /\ job'.written = job.written /\ job'.refs = job.refs /\ job'.why = job.why
          /\ job'.ok = job.ok /\ job'.known = known /\ job'.todo = known
      BY <3>1, <1>2 DEF Job
    <3> QED BY <1>3, <3>1, <3>2
  <2>2. CASE phase' = "restore" /\ job' = job
    BY <2>2, <1>2, <1>3
  <2> QED BY <1>1, <2>1, <2>2
<1>5. TypeOK' /\ AskInv'
  BY <1>1, <1>2, <1>4, SameCall DEF WriteInv, TypeOK
<1>6. /\ Me' = Me /\ Asked' = Asked /\ Sources' = Sources /\ Targets' = Targets
      /\ (Moving <=> Moving') /\ (Removing <=> Removing') /\ Room' = Room
  BY <1>1, <1>4, SameRequest
<1>7. ListInv'
  BY <1>1, <1>2, <1>3, <1>4, <1>6 DEF ListInv, Removing
<1>8. FilesInv'
  <2>1. SUFFICES ASSUME NEW q \in Paths \ left
                 PROVE  /\ job.was[q] = head[q] /\ told[q] = head[q] /\ index[q] = head[q]
                        /\ q \notin Touching => tree[q] = head[q]
    <3>1. Touching' = Touching
      BY <1>3, <1>4, <1>6 DEF Touching
    <3>2. Moving' => job'.written = Targets'
      BY <1>3, <1>4, <1>6
    <3> QED BY <1>1, <1>2, <1>4, <3>1, <3>2 DEF FilesInv
  <2> QED BY <1>1, <1>2, <1>3 DEF WriteInv, FilesInv
<1>9. ThereInv' /\ LinksInv' /\ OkInv'
  <2>1. \A q : NewAt(q)' = NewAt(q)
    BY <1>4, <1>6 DEF NewAt, Mine, Origin, Followed
  <2>2. ThereInv'
    BY <1>1, <1>2, <1>3, <1>4, <1>6, <2>1 DEF WriteInv, ThereInv
  <2>3. \A q : LinksHere(q)' <=> LinksHere(q)
    BY <1>1, <1>6 DEF LinksHere
  <2>4. LinksInv'
    BY <1>2, <1>4, <2>3 DEF LinksInv
  <2>5. OkInv'
    BY <1>2 DEF OkInv
  <2> QED BY <2>2, <2>4, <2>5
<1> QED BY <1>2, <1>5, <1>7, <1>8, <1>9, AtWork

\* A document whose link is rewritten is none of those that moved.
LEMMA LinkersStay ==
  ASSUME WriteInv, phase = "links", NEW q \in job.todo
  PROVE  /\ LinksHere(q) /\ q \in Paths /\ q \notin Targets /\ tree[q] \in Content
         /\ Removing /\ (Moving => job.written = Targets)
<1>1. phase \in Working /\ Me # None /\ tree \in Tree /\ job.todo \subseteq Paths
  BY DEF WriteInv, TypeOK, Job, Working
<1>2. Removing /\ (Moving => job.written = Targets)
  BY <1>1 DEF WriteInv, ListInv
<1>3. LinksHere(q) /\ q \in Paths
  BY <1>1 DEF WriteInv, LinksInv
<1>4. tree[q] # None /\ tree[q].to \in Sources
  BY <1>3 DEF LinksHere
<1>5. ASSUME q \in Targets PROVE FALSE
  <2>1. Moving /\ q \in job.written /\ q \in Room /\ Asked.kind # "delete"
    BY <1>2, <1>5, TargetFacts DEF WriteInv, Room, Moving, Moves
  <2>2. tree[q] = NewAt(q)
    BY <1>1, <1>5, <2>1 DEF WriteInv, ThereInv
  <2>3. NewAt(q).to \notin Sources
    BY <1>1, <2>1, NewAtFacts
  <2> QED BY <1>4, <2>2, <2>3
<1> QED BY <1>1, <1>2, <1>3, <1>4, <1>5 DEF Tree

\* RewriteLink: the document is on the list of what would be restored.
LEMMA RewriteLinkKeeps ==
  ASSUME WriteInv, NEW q \in Paths, RewriteLink(q)
  PROVE  WriteInv'
<1>1. PICK to \in NewTargets(q) : tree' = [tree EXCEPT ![q] = [Mine(@) EXCEPT !.to = to]]
  BY DEF RewriteLink
<1>2. /\ phase = "links" /\ q \in job.todo
      /\ job' = [job EXCEPT !.refs = @ \cup {q}, !.todo = @ \ {q}]
      /\ phase' = IF job.todo = {q} THEN "commit" ELSE "links"
      /\ UNCHANGED <<index, head, news, ahead, ask, reply, told, faults, left>>
  BY DEF RewriteLink, remote, calls, ghosts
<1>3. /\ LinksHere(q) /\ q \notin Targets /\ tree[q] \in Content
      /\ Removing /\ (Moving => job.written = Targets)
  BY <1>2, LinkersStay
<1>4. /\ job \in Job /\ tree \in Tree /\ phase \in Working /\ Me \in Calls
      /\ Sources \subseteq Paths /\ Targets \subseteq Paths
      /\ phase' \in {"commit", "links"} /\ phase' \in Working
  BY <1>2, AskedFacts, TargetFacts DEF WriteInv, TypeOK, Working
<1>5. /\ job.pre = head
      /\ \A p \in Sources : job.was[p] # None
      /\ \A p \in Targets : job.was[p] = None
      /\ job.written \subseteq Room /\ job.why = "io" /\ job.ok
  BY <1>2, <1>3, <1>4 DEF WriteInv, ListInv
<1>6. to \in Paths \cup {None} /\ (Moving => to \notin Sources)
  <2>1. tree[q].to \in Sources
    BY <1>3 DEF LinksHere
  <2>2. Moving => Dest[tree[q].to] \in Paths /\ Dest[tree[q].to] \notin Sources
    BY <1>4, <2>1, TargetFacts DEF WriteInv
  <2>3. None \notin Sources
    BY <1>4, ConstantsAssumption
  <2>4. Asked.kind = "delete" \/ Moving
    BY <1>3, AskedFacts DEF WriteInv, Removing, Moving, Moves, Request, Kinds
  <2>5. Asked.kind = "delete" => to = None
    BY DEF NewTargets
  <2>6. Asked.kind # "delete" => to \in {None, Dest[tree[q].to]}
    BY DEF NewTargets
  <2> QED BY <2>2, <2>3, <2>4, <2>5, <2>6
<1>7. PICK c \in Content : c = [Mine(tree[q]) EXCEPT !.to = to] /\ c.to = to
  <2> DEFINE d == [Mine(tree[q]) EXCEPT !.to = to]
  <2>1. d \in Content /\ d.to = to
    BY <1>3, <1>4, <1>6, MineFacts
  <2> QED BY <2>1
<1>8. /\ tree' \in Tree /\ tree'[q] = c /\ c # None
      /\ \A p \in Paths : p # q => tree'[p] = tree[p]
  <2>1. tree' = [tree EXCEPT ![q] = c]
    BY <1>1, <1>4, <1>7 DEF Tree
  <2> QED BY <2>1, <1>4, ConstantsAssumption DEF Tree
<1>9. /\ job' \in Job /\ job'.call = job.call /\ job'.was = job.was /\ job'.pre = job.pre
      /\ job'.written = job.written /\ job'.refs = job.refs \cup {q}
      /\ job'.todo = job.todo \ {q} /\ job'.known = job.known
      /\ job'.why = "io" /\ job'.ok
  BY <1>2, <1>4, <1>5 DEF Job
<1>10. TypeOK' /\ AskInv'
  BY <1>2, <1>4, <1>8, <1>9, SameCall DEF WriteInv, TypeOK
<1>11. /\ Me' = Me /\ Asked' = Asked /\ Sources' = Sources /\ Targets' = Targets
       /\ (Moving <=> Moving') /\ (Removing <=> Removing') /\ Room' = Room
  BY <1>2, <1>9, SameRequest
<1>12. ListInv'
  BY <1>2, <1>3, <1>4, <1>5, <1>9, <1>11 DEF ListInv
<1>13. FilesInv'
  <2>1. SUFFICES ASSUME NEW p \in Paths \ left
                 PROVE  /\ job.was[p] = head[p] /\ told[p] = head[p] /\ index[p] = head[p]
                        /\ p \notin Touching' => tree'[p] = head[p]
    BY <1>2, <1>4, <1>9 DEF FilesInv
  <2>2. /\ job.was[p] = head[p] /\ told[p] = head[p] /\ index[p] = head[p]
        /\ p \notin Touching => tree[p] = head[p]
    BY <1>2, <1>4, <1>5 DEF WriteInv, FilesInv
  <2>3. Touching' = Touching \cup {q}
    BY <1>3, <1>9, <1>11 DEF Touching
  <2> QED BY <1>8, <2>2, <2>3
<1>14. ThereInv'
  <2>1. \A p : NewAt(p)' = NewAt(p)
    BY <1>9, <1>11 DEF NewAt, Mine, Origin, Followed
  <2>2. /\ \A p \in job.written \cap Targets : tree[p] = NewAt(p)
        /\ \A p \in job.written \cup job.refs : tree[p] # None
    BY <1>2, <1>4 DEF WriteInv, ThereInv
  <2>3. job.written \subseteq Paths /\ job.refs \subseteq Paths
    BY <1>4 DEF Job
  <2> QED BY <1>3, <1>4, <1>8, <1>9, <1>11, <2>1, <2>2, <2>3 DEF ThereInv
<1>15. LinksInv'
  <2>1. /\ \A p \in job.todo : LinksHere(p)
        /\ Moving => job.known \subseteq job.refs \cup job.todo
        /\ Moving => \A p \in job.refs : tree[p].to \notin Sources
        /\ job.todo \subseteq Paths /\ job.refs \subseteq Paths
    BY <1>2, <1>4 DEF WriteInv, LinksInv, Job
  <2>2. \A p \in job'.todo : LinksHere(p)'
    BY <1>8, <1>9, <1>11, <2>1 DEF LinksHere
  <2>3. Moving => \A p \in job'.refs : tree'[p].to \notin Sources
    BY <1>6, <1>7, <1>8, <1>9, <2>1
  <2>4. phase' = "commit" => job'.todo = {}
    BY <1>2, <1>9
  <2>5. Moving => job'.known \subseteq job'.refs \cup job'.todo
    BY <1>9, <2>1
  <2> QED BY <1>4, <1>11, <2>2, <2>3, <2>4, <2>5 DEF LinksInv
<1>16. OkInv'
  BY <1>4 DEF OkInv
<1> QED BY <1>4, <1>10, <1>12, <1>13, <1>14, <1>15, <1>16, AtWork

\* RewriteFails: the document is on that list too, or, in a directory move, it is the
\* fault's.
LEMMA RewriteFailsKeeps ==
  ASSUME WriteInv, NEW q \in Paths, RewriteFails(q)
  PROVE  WriteInv'
<1>1. /\ phase = "links" /\ q \in job.todo /\ Strike("link") /\ phase' = "restore"
      /\ tree' \in {tree, [tree EXCEPT ![q] = Cut]}
      /\ IF Asked.kind = "directory"
         THEN left' = (IF tree' = tree THEN left ELSE left \cup {q}) /\ job' = job
         ELSE job' = [job EXCEPT !.refs = @ \cup {q}] /\ left' = left
      /\ UNCHANGED <<index, head, news, ahead, ask, reply, told>>
  BY DEF RewriteFails, remote, calls
<1>2. /\ LinksHere(q) /\ q \notin Targets /\ tree[q] \in Content /\ tree[q] # None
      /\ Removing /\ (Moving => job.written = Targets)
  BY <1>1, LinkersStay, ConstantsAssumption
<1>3. /\ job \in Job /\ tree \in Tree /\ phase \in Working /\ phase' \in Working
      /\ faults' \in 0 .. MaxFaults
      /\ Sources \subseteq Paths /\ Targets \subseteq Paths
  BY <1>1, AskedFacts, TargetFacts, StrikeFacts DEF WriteInv, TypeOK, Working
<1>4. /\ job.pre = head
      /\ \A p \in Sources : job.was[p] # None
      /\ \A p \in Targets : job.was[p] = None
      /\ job.written \subseteq Room /\ job.why = "io" /\ job.ok
  BY <1>1, <1>2, <1>3 DEF WriteInv, ListInv
<1>5. /\ tree' \in Tree /\ tree'[q] # None
      /\ \A p \in Paths : p # q => tree'[p] = tree[p]
  BY <1>1, <1>2, <1>3, CutFacts DEF Tree
<1>6. /\ job' \in Job /\ job'.call = job.call /\ job'.was = job.was /\ job'.pre = job.pre
      /\ job'.written = job.written /\ job'.why = "io" /\ job'.ok
      /\ left' \subseteq Paths /\ left \subseteq left'
      /\ job.refs \subseteq job'.refs /\ job'.refs \subseteq job.refs \cup {q}
      /\ tree' = tree \/ q \in left' \/ q \in job'.refs
  <2>1. CASE Asked.kind = "directory"
    BY <2>1, <1>1, <1>3, <1>4 DEF WriteInv, TypeOK
  <2>2. CASE Asked.kind # "directory"
    <3>1. job' = [job EXCEPT !.refs = @ \cup {q}] /\ left' = left
      BY <2>2, <1>1
    <3>2. /\ job' \in Job /\ job'.call = job.call /\ job'.was = job.was /\ job'.pre = job.pre
          /\ job'.written = job.written /\ job'.why = job.why /\ job'.ok = job.ok
          /\ job'.refs = job.refs \cup {q}
      BY <3>1, <1>3 DEF Job
    <3> QED BY <3>1, <3>2, <1>4 DEF WriteInv, TypeOK
  <2> QED BY <2>1, <2>2
<1>7. TypeOK' /\ AskInv'
  BY <1>1, <1>3, <1>5, <1>6, SameCall DEF WriteInv, TypeOK
<1>8. /\ Me' = Me /\ Asked' = Asked /\ Sources' = Sources /\ Targets' = Targets
      /\ (Moving <=> Moving') /\ (Removing <=> Removing') /\ Room' = Room
  BY <1>1, <1>6, SameRequest
<1>9. ListInv'
  BY <1>1, <1>2, <1>4, <1>6, <1>8 DEF ListInv, Removing
<1>10. FilesInv'
  <2>1. SUFFICES ASSUME NEW p \in Paths \ left'
                 PROVE  /\ job.was[p] = head[p] /\ told[p] = head[p] /\ index[p] = head[p]
                        /\ p \notin Touching' => tree'[p] = head[p]
    BY <1>1, <1>2, <1>6, <1>8 DEF FilesInv
  <2>2. /\ job.was[p] = head[p] /\ told[p] = head[p] /\ index[p] = head[p]
        /\ p \notin Touching => tree[p] = head[p]
    BY <1>1, <1>3, <1>4, <1>6, <2>1 DEF WriteInv, FilesInv
  <2>3. Touching \subseteq Touching' /\ job'.refs \subseteq Touching'
    BY <1>2, <1>6, <1>8 DEF Touching
  <2> QED BY <1>5, <1>6, <2>1, <2>2, <2>3
<1>11. ThereInv'
  <2>1. \A p : NewAt(p)' = NewAt(p)
    BY <1>6, <1>8 DEF NewAt, Mine, Origin, Followed
  <2>2. /\ \A p \in job.written \cap Targets : tree[p] = NewAt(p)
        /\ \A p \in job.written \cup job.refs : tree[p] # None
    BY <1>1, <1>3 DEF WriteInv, ThereInv
  <2>3. job.written \subseteq Paths /\ job.refs \subseteq Paths
    BY <1>3 DEF Job
  <2> QED BY <1>1, <1>2, <1>5, <1>6, <1>8, <2>1, <2>2, <2>3 DEF ThereInv
<1>12. LinksInv' /\ OkInv'
  BY <1>1 DEF LinksInv, OkInv
<1> QED BY <1>3, <1>7, <1>9, <1>10, <1>11, <1>12, AtWork

\* Commit: what the commit takes is all that was touched.
LEMMA CommitKeeps ==
  ASSUME WriteInv, Commit
  PROVE  WriteInv'
<1>1. /\ phase = "commit" /\ phase' = "publish"
      /\ index' = Put(index, Changed, tree) /\ head' = Put(head, Changed, tree)
      /\ UNCHANGED <<tree, news, ahead, job, ask, reply, told, faults, left>>
  BY DEF Commit, Staged, remote, calls, ghosts
<1>2. /\ job \in Job /\ tree \in Tree /\ index \in Tree /\ head \in Tree
      /\ \A p \in Paths : tree[p] \in Content \cup {None}
      /\ phase \in Working /\ Me # None /\ Sources \subseteq Paths /\ Targets \subseteq Paths
  BY <1>1, AskedFacts, TargetFacts DEF WriteInv, TypeOK, Working, Tree
<1>3. /\ index' \in Tree
      /\ \A p \in Paths : index'[p] = IF p \in Changed THEN tree[p] ELSE index[p]
  BY <1>1, <1>2, PutFacts
<1>4. /\ head' \in Tree
      /\ \A p \in Paths : head'[p] = IF p \in Changed THEN tree[p] ELSE head[p]
  BY <1>1, <1>2, PutFacts
<1>5. job.pre = head /\ job.written \subseteq Room /\ (Moving => job.written = Targets)
  BY <1>1, <1>2 DEF WriteInv, ListInv
<1>6. TypeOK' /\ AskInv'
  BY <1>1, <1>2, <1>3, <1>4, SameCall DEF WriteInv, TypeOK
<1>7. /\ Me' = Me /\ Asked' = Asked /\ Sources' = Sources /\ Targets' = Targets
      /\ (Moving <=> Moving') /\ (Removing <=> Removing') /\ Room' = Room
  BY <1>1, SameRequest
<1>8. Changed' = Changed /\ (Moving => Targets \subseteq Changed /\ job.refs \subseteq Changed)
  BY <1>1, <1>7 DEF Changed, Moving, Removing, Moves
<1>9. \A p \in Paths \ left :
        /\ tree'[p] = head'[p] /\ index'[p] = head'[p] /\ told'[p] = job'.pre[p]
        /\ p \notin Changed' => head'[p] = job'.pre[p]
  <2>1. SUFFICES ASSUME NEW p \in Paths \ left
                 PROVE  /\ told[p] = head[p]
                        /\ p \notin Changed => tree[p] = head[p] /\ index[p] = head[p]
    BY <1>1, <1>3, <1>4, <1>5, <1>8
  <2>2. p \notin Changed => p \notin Touching
    BY <1>5 DEF Changed, Touching, Room
  <2> QED BY <1>1, <1>2, <2>2 DEF WriteInv, FilesInv
<1>10. \A q \in Targets' : head'[q] # None /\ head'[q].to \notin Sources'
  <2>1. SUFFICES ASSUME NEW q \in Targets PROVE tree[q] # None /\ tree[q].to \notin Sources
    BY <1>2, <1>4, <1>7, <1>8, TargetFacts DEF WriteInv
  <2>2. Moving /\ q \in job.written /\ q \in Room /\ Asked.kind # "delete"
    BY <1>5, TargetFacts DEF WriteInv, Room, Moving, Moves, Removing
  <2>3. tree[q] = NewAt(q) /\ tree[q] # None
    BY <1>1, <1>2, <2>2 DEF WriteInv, ThereInv
  <2>4. NewAt(q).to \notin Sources
    BY <1>2, <2>2, NewAtFacts
  <2> QED BY <2>3, <2>4
<1>11. Moving' => \A q \in job'.known : head'[q] = None \/ head'[q].to \notin Sources'
  <2>1. Moving => job.known \subseteq job.refs /\ \A q \in job.refs : tree[q].to \notin Sources
    BY <1>1 DEF WriteInv, LinksInv
  <2>2. job.refs \subseteq Paths
    BY <1>2 DEF Job
  <2> QED BY <1>1, <1>4, <1>7, <1>8, <2>1, <2>2
<1>12. PublishInv'
  BY <1>1, <1>9, <1>10, <1>11 DEF PublishInv
<1>13. RestInv' /\ ListInv' /\ FilesInv' /\ ThereInv' /\ LinksInv' /\ OkInv'
  BY <1>1 DEF RestInv, ListInv, FilesInv, ThereInv, LinksInv, OkInv, Resting, Working
<1> QED BY <1>6, <1>12, <1>13 DEF WriteInv

\* CommitFails: the index may have taken what was touched.
LEMMA CommitFailsKeeps ==
  ASSUME WriteInv, CommitFails
  PROVE  WriteInv'
<1>1. /\ phase = "commit" /\ phase' = "restore"
      /\ job' = [job EXCEPT !.why = "commit"]
      /\ index' \in {index, Put(index, Changed, tree)}
      /\ Strike("commit") \/ faults' = faults
      /\ UNCHANGED <<tree, head, news, ahead, ask, reply, told, left>>
  BY DEF CommitFails, Staged, remote, calls
<1>2. /\ job \in Job /\ tree \in Tree /\ index \in Tree
      /\ \A p \in Paths : tree[p] \in Content \cup {None}
      /\ phase \in Working /\ phase' \in Working /\ faults' \in 0 .. MaxFaults
  BY <1>1, StrikeFacts DEF WriteInv, TypeOK, Working, Tree
<1>3. index' \in Tree /\ \A p \in Paths : p \notin Changed => index'[p] = index[p]
  BY <1>1, <1>2, PutFacts
<1>4. /\ job.pre = head
      /\ Removing => \A p \in Sources : job.was[p] # None
      /\ \A p \in Targets : job.was[p] = None
      /\ job.written \subseteq Room /\ job.why = "io" /\ job.ok
      /\ Moving => job.written = Targets
  BY <1>1, <1>2 DEF WriteInv, ListInv
<1>5. /\ job' \in Job /\ job'.call = job.call /\ job'.was = job.was /\ job'.pre = job.pre
      /\ job'.written = job.written /\ job'.refs = job.refs
      /\ job'.why = "commit" /\ job'.ok
  BY <1>1, <1>2, <1>4 DEF Job
<1>6. TypeOK' /\ AskInv'
  BY <1>1, <1>2, <1>3, <1>5, SameCall DEF WriteInv, TypeOK
<1>7. /\ Me' = Me /\ Asked' = Asked /\ Sources' = Sources /\ Targets' = Targets
      /\ (Moving <=> Moving') /\ (Removing <=> Removing') /\ Room' = Room
  BY <1>1, <1>5, SameRequest
<1>8. ListInv'
  BY <1>1, <1>4, <1>5, <1>7 DEF ListInv
<1>9. FilesInv'
  <2>1. SUFFICES ASSUME NEW p \in Paths \ left
                 PROVE  /\ job.was[p] = head[p] /\ told[p] = head[p]
                        /\ p \notin Touching => tree[p] = head[p] /\ index'[p] = head[p]
    <3>1. Touching' = Touching /\ (Moving' => job'.written = Targets')
      BY <1>4, <1>5, <1>7 DEF Touching
    <3> QED BY <1>1, <1>5, <3>1 DEF FilesInv
  <2>2. /\ job.was[p] = head[p] /\ told[p] = head[p]
        /\ p \notin Touching => tree[p] = head[p] /\ index[p] = head[p]
    BY <1>1, <1>2, <1>4 DEF WriteInv, FilesInv
  <2>3. p \notin Touching => p \notin Changed
    BY <1>4, TargetFacts DEF WriteInv, Changed, Touching, Moving, Removing
  <2> QED BY <1>3, <2>2, <2>3
<1>10. ThereInv'
  <2>1. \A p : NewAt(p)' = NewAt(p)
    BY <1>5, <1>7 DEF NewAt, Mine, Origin, Followed
  <2> QED BY <1>1, <1>2, <1>5, <1>7, <2>1 DEF WriteInv, ThereInv
<1>11. LinksInv' /\ OkInv'
  BY <1>1 DEF LinksInv, OkInv
<1> QED BY <1>2, <1>6, <1>8, <1>9, <1>10, <1>11, AtWork

\* A roll-back meets with finitely many faults.
LEMMA BadFacts ==
  ASSUME TypeOK, NEW S \in SUBSET Paths, faults' = faults + Cardinality(S),
         faults + Cardinality(S) <= MaxFaults
  PROVE  faults' \in 0 .. MaxFaults
<1>1. Cardinality(S) \in Nat
  <2>1. IsFiniteSet(S)
    BY ConstantsAssumption, FS_Subset
  <2> QED BY <2>1, FS_CardinalityType
<1>2. faults \in 0 .. MaxFaults /\ MaxFaults \in Nat
  BY ConstantsAssumption DEF TypeOK
<1> QED BY <1>1, <1>2

\* Restore: what is not to be discarded is now as in the commit, or the fault's.
LEMMA RestoreKeeps ==
  ASSUME WriteInv, Restore
  PROVE  WriteInv'
<1>1. PICK bad \in SUBSET ToRestore :
        /\ faults' = faults + Cardinality(bad \ Hopeless)
        /\ faults + Cardinality(bad \ Hopeless) <= MaxFaults
        /\ tree' = Put(tree, ToRestore \ bad, head)
        /\ index' = Put(index, ToRestore \ bad, head)
        /\ left' = left \cup bad
        /\ job' = [job EXCEPT !.ok = RestoredAll(bad)]
  BY DEF Restore
<1>2. /\ phase = "restore" /\ phase' = "discard"
      /\ UNCHANGED <<head, news, ahead, ask, reply, told>>
  BY DEF Restore, remote, calls
<1>3. /\ job \in Job /\ tree \in Tree /\ index \in Tree /\ head \in Tree
      /\ \A p \in Paths : head[p] \in Content \cup {None}
      /\ phase \in Working /\ phase' \in Working
      /\ Sources \subseteq Paths /\ ToRestore \subseteq Paths
  <2>1. job.written \subseteq Paths /\ job.refs \subseteq Paths /\ Sources \subseteq Paths
    BY AskedFacts DEF WriteInv, TypeOK, Job
  <2> QED BY <1>2, <2>1 DEF WriteInv, TypeOK, Working, Tree, ToRestore
<1>4. /\ job.pre = head
      /\ Removing => \A p \in Sources : job.was[p] # None
      /\ \A p \in Targets : job.was[p] = None
      /\ job.written \subseteq Room
      /\ Moving /\ job.why = "commit" => job.written = Targets
      /\ Removing \/ job.why # "io"
  BY <1>2, <1>3 DEF WriteInv, ListInv, Removing
<1>5. /\ job' \in Job /\ job'.call = job.call /\ job'.was = job.was /\ job'.pre = job.pre
      /\ job'.written = job.written /\ job'.refs = job.refs /\ job'.why = job.why
      /\ job'.ok = RestoredAll(bad)
  <2>1. RestoredAll(bad) \in BOOLEAN
    BY DEF RestoredAll
  <2> QED BY <1>1, <1>3, <2>1 DEF Job
<1>6. /\ tree' \in Tree
      /\ \A p \in Paths : tree'[p] = IF p \in ToRestore \ bad THEN head[p] ELSE tree[p]
  BY <1>1, <1>3, PutFacts
<1>7. /\ index' \in Tree
      /\ \A p \in Paths : index'[p] = IF p \in ToRestore \ bad THEN head[p] ELSE index[p]
  BY <1>1, <1>3, PutFacts
<1>8. faults' \in 0 .. MaxFaults /\ left' \subseteq Paths
  <2>1. bad \ Hopeless \in SUBSET Paths
    BY <1>3
  <2> QED BY <1>1, <1>3, <2>1, BadFacts DEF WriteInv, TypeOK
<1>9. TypeOK' /\ AskInv'
  BY <1>2, <1>3, <1>5, <1>6, <1>7, <1>8, SameCall DEF WriteInv, TypeOK
<1>10. /\ Me' = Me /\ Asked' = Asked /\ Sources' = Sources /\ Targets' = Targets
       /\ (Moving <=> Moving') /\ (Removing <=> Removing') /\ Room' = Room
  BY <1>2, <1>5, SameRequest
<1>11. ListInv'
  BY <1>2, <1>4, <1>5, <1>10 DEF ListInv
<1>12. ToDiscard' = ToDiscard /\ ToRestore' = ToRestore /\ Promised' = Promised
       /\ Touching' = Touching
  <2>1. ToDiscard' = ToDiscard /\ ToRestore' = ToRestore /\ Touching' = Touching
    BY <1>5, <1>10 DEF ToDiscard, ToRestore, Touching
  <2> QED BY <2>1, <1>5, <1>10 DEF Promised, Changed
<1>13. FilesInv'
  <2>1. SUFFICES ASSUME NEW p \in Paths \ left'
                 PROVE  /\ job.was[p] = head[p] /\ told[p] = head[p]
                        /\ p \notin Touching => tree'[p] = head[p]
                        /\ job.why = "io" \/ p \notin Touching => index'[p] = head[p]
                        /\ p \notin ToDiscard => tree'[p] = head[p] /\ index'[p] = head[p]
    BY <1>2, <1>5, <1>12 DEF FilesInv
  <2>2. /\ job.was[p] = head[p] /\ told[p] = head[p]
        /\ p \notin Touching => tree[p] = head[p]
        /\ job.why = "io" \/ p \notin Touching => index[p] = head[p]
    BY <1>1, <1>2, <1>3, <2>1 DEF WriteInv, FilesInv
  <2>3. p \notin bad
    BY <1>1, <2>1
  <2>4. p \notin ToDiscard /\ p \notin ToRestore => p \notin Touching
    BY <1>4 DEF ToDiscard, ToRestore, Touching
  <2> QED BY <1>6, <1>7, <2>1, <2>2, <2>3, <2>4
<1>14. OkInv'
  <2>1. SUFFICES ASSUME RestoredAll(bad), NEW p \in ToRestore \cap Promised
                 PROVE  tree'[p] = head[p] /\ index'[p] = head[p]
    BY <1>2, <1>5, <1>12 DEF OkInv
  <2> QED BY <1>3, <1>6, <1>7, <2>1 DEF RestoredAll
<1>15. ThereInv' /\ LinksInv'
  BY <1>2, <1>4, <1>5, <1>10 DEF ThereInv, LinksInv, Removing
<1> QED BY <1>3, <1>9, <1>11, <1>13, <1>14, <1>15, AtWork

\* What a roll-back leaves of the files when it is done.
LEMMA DiscardFacts ==
  ASSUME WriteInv, Discard
  PROVE  \E bad \in SUBSET ToDiscard :
           /\ phase = "discard" /\ left' = left \cup bad
           /\ faults' \in 0 .. MaxFaults /\ left' \subseteq Paths
           /\ tree' \in Tree /\ index' \in Tree
           /\ \A p \in Paths :
                tree'[p] = IF p \in ToDiscard /\ (p \notin bad \/ tree'[p] # tree[p])
                           THEN job.was[p] ELSE tree[p]
           /\ \A p \in Paths :
                index'[p] = IF job.why # "io" /\ p \in ToDiscard \ bad THEN head[p]
                            ELSE index[p]
           /\ Return(IF job.why = "io" THEN "failed"
                     ELSE IF RestoredAll(bad) THEN "undone" ELSE "torn")
           /\ UNCHANGED <<head, news, ahead, ask, told>>
<1>1. PICK bad \in SUBSET ToDiscard :
        /\ faults' = faults + Cardinality(bad)
        /\ faults + Cardinality(bad) <= MaxFaults
        /\ left' = left \cup bad
        /\ tree' \in {Put(tree, ToDiscard \ bad, job.was)}
                     \cup (IF job.why = "commit" THEN {Put(tree, ToDiscard, job.was)} ELSE {})
        /\ index' = IF job.why = "io" THEN index ELSE Put(index, ToDiscard \ bad, head)
        /\ Return(IF job.why = "io" THEN "failed"
                  ELSE IF RestoredAll(bad) THEN "undone" ELSE "torn")
  BY DEF Discard
<1>2. /\ tree \in Tree /\ index \in Tree /\ job.was \in Tree /\ head \in Tree
      /\ \A p \in Paths : job.was[p] \in Content \cup {None} /\ head[p] \in Content \cup {None}
      /\ ToDiscard \subseteq Paths
  <2>1. tree \in Tree /\ index \in Tree /\ job.was \in Tree /\ head \in Tree
        /\ job.written \subseteq Paths
    BY DEF WriteInv, TypeOK, Job
  <2> QED BY <2>1 DEF Tree, ToDiscard
<1>3. /\ tree' \in Tree
      /\ \A p \in Paths : tree'[p] = IF p \in ToDiscard /\ (p \notin bad \/ tree'[p] # tree[p])
                                     THEN job.was[p] ELSE tree[p]
  <2>1. CASE tree' = Put(tree, ToDiscard \ bad, job.was)
    <3>1. /\ tree' \in Tree
          /\ \A p \in Paths : tree'[p] = IF p \in ToDiscard \ bad THEN job.was[p] ELSE tree[p]
      BY <2>1, <1>2, PutFacts
    <3> QED BY <3>1
  <2>2. CASE tree' = Put(tree, ToDiscard, job.was)
    <3>1. /\ tree' \in Tree
          /\ \A p \in Paths : tree'[p] = IF p \in ToDiscard THEN job.was[p] ELSE tree[p]
      BY <2>2, <1>2, PutFacts
    <3> QED BY <3>1
  <2> QED BY <1>1, <2>1, <2>2
<1>4. /\ index' \in Tree
      /\ \A p \in Paths : index'[p] = IF job.why # "io" /\ p \in ToDiscard \ bad THEN head[p]
                                      ELSE index[p]
  <2>1. CASE job.why = "io"
    BY <2>1, <1>1, <1>2
  <2>2. CASE job.why # "io"
    <3>1. index' = Put(index, ToDiscard \ bad, head)
      BY <2>2, <1>1
    <3> QED BY <2>2, <3>1, <1>2, PutFacts
  <2> QED BY <2>1, <2>2
<1>5. faults' \in 0 .. MaxFaults /\ left' \subseteq Paths
  BY <1>1, <1>2, BadFacts DEF WriteInv, TypeOK
<1>6. phase = "discard" /\ UNCHANGED <<head, news, ahead, ask, told>>
  BY DEF Discard, remote
<1> QED BY <1>1, <1>3, <1>4, <1>5, <1>6

\* Discard: nothing is left that is not the fault's.
LEMMA DiscardKeeps ==
  ASSUME WriteInv, Discard
  PROVE  WriteInv'
<1>1. PICK bad \in SUBSET ToDiscard :
           /\ phase = "discard" /\ left' = left \cup bad
           /\ faults' \in 0 .. MaxFaults /\ left' \subseteq Paths
           /\ tree' \in Tree /\ index' \in Tree
           /\ \A p \in Paths :
                tree'[p] = IF p \in ToDiscard /\ (p \notin bad \/ tree'[p] # tree[p])
                           THEN job.was[p] ELSE tree[p]
           /\ \A p \in Paths :
                index'[p] = IF job.why # "io" /\ p \in ToDiscard \ bad THEN head[p]
                            ELSE index[p]
           /\ Return(IF job.why = "io" THEN "failed"
                     ELSE IF RestoredAll(bad) THEN "undone" ELSE "torn")
           /\ UNCHANGED <<head, news, ahead, ask, told>>
  BY DiscardFacts
<1>2. /\ AskInv' /\ phase' = "free" /\ phase' \in Resting /\ Me' = None
      /\ job' \in Job /\ job' = NoJob
      /\ reply' \in [Calls -> {"none", "asked", "saved", "refused", "undone", "torn",
                               "failed", "unknown"}]
  <2>1. PICK answer \in {"saved", "refused", "undone", "torn", "failed"} : Return(answer)
    BY <1>1
  <2> QED BY <1>1, <2>1, ReturnFacts
<1>3. TypeOK'
  BY <1>1, <1>2 DEF WriteInv, TypeOK
<1>4. RestInv'
  <2>1. SUFFICES ASSUME NEW p \in Paths \ left'
                 PROVE  tree'[p] = head[p] /\ index'[p] = head[p] /\ told[p] = head[p]
    BY <1>1, <1>2, NoJobFacts DEF RestInv
  <2>2. /\ job.was[p] = head[p] /\ told[p] = head[p]
        /\ job.why = "io" \/ p \notin Touching => index[p] = head[p]
        /\ p \notin ToDiscard => tree[p] = head[p] /\ index[p] = head[p]
    BY <1>1, <2>1 DEF WriteInv, FilesInv, Working
  <2>3. p \notin bad
    BY <1>1, <2>1
  <2> QED BY <1>1, <2>1, <2>2, <2>3
<1> QED BY <1>2, <1>3, <1>4, AtRest

-----------------------------------------------------------------------------
(***************************************************************************)
(* The theorems.                                                           *)
(***************************************************************************)
LEMMA NextKeeps == WriteInv /\ [Next]_vars => WriteInv'
<1> SUFFICES ASSUME WriteInv, [Next]_vars PROVE WriteInv'
  OBVIOUS
<1>1. ASSUME UNCHANGED vars PROVE WriteInv'
  <2>1. /\ UNCHANGED <<tree, index, head, news, ahead, phase, job, ask, reply, told, faults,
                       left>>
    BY <1>1 DEF vars, files, remote, calls, ghosts
  <2>2. Asked' = Asked /\ Me' = Me
    BY <2>1 DEF Asked, Me
  <2>3. TypeOK' /\ AskInv'
    BY <2>1, <2>2 DEF WriteInv, TypeOK, AskInv, Sound
  <2> QED BY <2>1, <2>2, <2>3, SameFiles
<1>2. ASSUME NEW e \in Others, NEW p \in Paths, OtherPush(e, p) PROVE WriteInv'
  BY <1>2, OthersKeep
<1>3. ASSUME NEW p \in Paths, OtherDelete(p) PROVE WriteInv'
  BY <1>3, OthersKeep
<1>4. ASSUME NEW w \in Calls, NEW wish \in Wishes, Ask(w, wish) PROVE WriteInv'
  BY <1>4, AskKeeps
<1>5. ASSUME NEW w \in Calls, Lock(w) PROVE WriteInv'
  BY <1>5, LockKeeps
<1>6. ASSUME Locked PROVE WriteInv'
  <2>1. ASSUME NEW p \in Paths, WriteFile(p) \/ WriteFails(p) \/ RemoveFile(p)
        PROVE  WriteInv'
    BY <2>1, WriteFileKeeps, WriteFailsKeeps, RemoveFileKeeps
  <2>2. ASSUME NEW q \in Paths, RewriteLink(q) \/ RewriteFails(q)
        PROVE  WriteInv'
    BY <2>2, RewriteLinkKeeps, RewriteFailsKeeps
  <2>3. ASSUME Sync \/ Accept \/ AcceptUnchanged \/ Refuse
        PROVE  WriteInv'
    BY <2>3, SyncKeeps, AcceptKeeps, NothingDoneKeeps
  <2>4. ASSUME RemoveFails \/ FindLinks \/ Commit \/ CommitFails \/ Restore \/ Discard
        PROVE  WriteInv'
    BY <2>4, RemoveFailsKeeps, FindLinksKeeps, CommitKeeps, CommitFailsKeeps, RestoreKeeps,
       DiscardKeeps
  <2>5. ASSUME Push \/ PushPending \/ Conflict
        PROVE  WriteInv'
    BY <2>5, PushKeeps, PushPendingKeeps, ConflictKeeps
  <2> QED BY <1>6, <2>1, <2>2, <2>3, <2>4, <2>5 DEF Locked
<1>7. ASSUME Crash PROVE WriteInv'
  BY <1>7, CrashKeeps
<1> QED BY <1>1, <1>2, <1>3, <1>4, <1>5, <1>6, <1>7 DEF Next

\* The inductive invariant holds in every reachable state.
THEOREM WriteInvHolds == Spec => []WriteInv
BY InitInv, NextKeeps, PTL DEF Spec

\* Types: files, index, commits, requests and the holder's local variables.
THEOREM WriteTypeOK == Spec => []TypeOK
<1>1. WriteInv => TypeOK
  BY DEF WriteInv
<1> QED BY <1>1, WriteInvHolds, PTL

\* write.rs: whoever takes GIT_LOCK finds no difference between files, index and commit
\* that a failed roll-back or a crash has not left, whichever call failed before and where.
THEOREM CleanAtRestHolds == Spec => []CleanAtRest
<1>1. WriteInv => CleanAtRest
  BY DEF WriteInv, RestInv, Resting, CleanAtRest
<1> QED BY <1>1, WriteInvHolds, PTL

\* What a call, its rebase or its sync changed, the reindex queue has heard of.
THEOREM EveryChangeIsToldHolds == Spec => []EveryChangeIsTold
<1>1. WriteInv => EveryChangeIsTold
  BY DEF WriteInv, RestInv, Resting, EveryChangeIsTold
<1> QED BY <1>1, WriteInvHolds, PTL

\* rewrite_inbound_links, rewrite_outbound_links: a move leaves no link to where a document
\* was, in the documents the link index knows of and in those that move together.
THEOREM LinksFollowHolds == Spec => []LinksFollow
<1>1. WriteInv => LinksFollow
  BY DEF WriteInv, PublishInv, LinksFollow
<1> QED BY <1>1, WriteInvHolds, PTL

\* A committed document is missing from its place only while it is at the place it moves
\* to, or being deleted: destinations are written before sources go, and a roll-back goes
\* the other way round.
THEOREM NothingOutOfSightHolds == Spec => []NothingOutOfSight
<1>1. WriteInv => NothingOutOfSight
  <2> SUFFICES ASSUME WriteInv, NEW p \in Paths \ left, head[p] # None, tree[p] = None
               PROVE  /\ p \in Sources
                      /\ \/ Asked.kind = "delete"
                         \/ /\ Moving /\ tree[Dest[p]] # None
                            /\ Whole(head[p]) => Whole(tree[Dest[p]])
    BY DEF NothingOutOfSight
  <2>1. phase \in Working /\ Me # None
    BY DEF WriteInv, TypeOK, RestInv, PublishInv, Resting, Working
  <2>2. job.was[p] = head[p] /\ p \in Touching
    BY <2>1 DEF WriteInv, FilesInv
  <2>3. p \notin job.written
    <3>1. CASE phase # "discard"
      BY <2>1, <3>1 DEF WriteInv, ThereInv
    <3>2. CASE phase = "discard" /\ Removing
      <4>1. p \in job.written => p \in Targets
        BY <2>1, <3>2 DEF WriteInv, ListInv, Room
      <4> QED BY <2>1, <2>2, <4>1 DEF WriteInv, ListInv
    <3>3. CASE phase = "discard" /\ ~Removing
      <4>1. p \in ToDiscard
        BY <2>1, <3>3 DEF WriteInv, FilesInv
      <4>2. job.why = "io" => \A q \in job.written : tree[q] # None
        BY <3>3 DEF WriteInv, ThereInv, Removing
      <4>3. job.why # "io" => job.was[p] = None
        BY <3>3, <4>1 DEF ToDiscard
      <4> QED BY <2>2, <4>1, <4>2, <4>3 DEF ToDiscard
    <3> QED BY <3>1, <3>2, <3>3
  <2>4. Removing /\ (p \in Sources \/ p \in job.refs)
    BY <2>2, <2>3 DEF Touching
  <2>5. phase # "discard" /\ p \in Sources
    <3>1. phase = "discard" => p \in ToDiscard
      BY <2>1 DEF WriteInv, FilesInv
    <3>2. phase # "discard"
      BY <2>3, <2>4, <3>1 DEF ToDiscard
    <3> QED BY <2>1, <2>4, <3>2 DEF WriteInv, ThereInv
  <2>6. CASE Moving
    <3>1. Dest[p] \in Targets /\ Origin(Dest[p]) = p /\ p \notin Targets
      BY <2>5, <2>6, TargetFacts DEF WriteInv
    <3>2. job.written = Targets
      <4>1. phase = "write" => tree[p] = head[p]
        BY <2>1, <2>3 DEF WriteInv, FilesInv
      <4>2. phase = "restore" /\ job.written # Targets => tree[p] = head[p]
        BY <2>1, <2>5, <2>6 DEF WriteInv, FilesInv
      <4> QED BY <2>1, <2>5, <2>6, <4>1, <4>2 DEF WriteInv, ListInv, Working
    <3>3. tree[Dest[p]] = NewAt(Dest[p]) /\ tree[Dest[p]] # None
      BY <2>1, <2>5, <3>1, <3>2 DEF WriteInv, ThereInv
    <3>4. Dest[p] \in Room /\ Asked.kind # "delete"
      BY <2>4, <2>6, <3>1 DEF Room, Moving, Moves
    <3>5. NewAt(Dest[p]).by = head[p].by \cup {Me}
      BY <2>1, <2>2, <2>6, <3>1, <3>4, NewAtFacts
    <3>6. Partial # Me
      BY <2>1, AskedFacts, ConstantsAssumption DEF WriteInv
    <3> QED BY <2>5, <2>6, <3>3, <3>5, <3>6 DEF Whole
  <2>7. CASE ~Moving
    BY <2>4, <2>5, <2>7, AskedFacts DEF WriteInv, Moving, Moves, Removing, Kinds, Request
  <2> QED BY <2>6, <2>7
<1> QED BY <1>1, WriteInvHolds, PTL

\* "Nothing was changed; try again.": said only when each document the call answers for is
\* as it was found, and, unless a fault had a hand in it before, as in the commit.
THEOREM HonestRollbackHolds == Spec => HonestRollback
<1> DEFINE Honest ==
      \A w \in Calls : reply'[w] = "undone" /\ reply[w] # "undone" =>
        \A p \in Promised : /\ tree'[p] \in {job.was[p], head[p]}
                            /\ p \notin left => tree'[p] = head[p] /\ index'[p] = head[p]
<1>1. WriteInv /\ Next => Honest
  <2> SUFFICES ASSUME WriteInv, Next, NEW w \in Calls, reply'[w] = "undone",
                      reply[w] # "undone", NEW p \in Promised
               PROVE  /\ tree'[p] \in {job.was[p], head[p]}
                      /\ p \notin left => tree'[p] = head[p] /\ index'[p] = head[p]
    OBVIOUS
  <2>1. reply \in [Calls -> {"none", "asked", "saved", "refused", "undone", "torn", "failed",
                             "unknown"}]
    BY DEF WriteInv, TypeOK
  <2>2. ~ \E v \in Calls : Lock(v)
    BY <2>1 DEF Lock, calls
  <2>3. ~ \E v \in Calls, wish \in Wishes : Ask(v, wish)
    BY <2>1 DEF Ask
  <2>4. ~ Crash
    BY <2>1 DEF Crash
  <2>5. ~ (Sync \/ Accept \/ AcceptUnchanged \/ Refuse)
    BY <2>1 DEF Sync, Accept, AcceptUnchanged, Refuse, Return, calls
  <2>6. ~ \E q \in Paths : WriteFile(q) \/ WriteFails(q) \/ RemoveFile(q) \/ RewriteLink(q)
                           \/ RewriteFails(q)
    BY <2>1 DEF WriteFile, WriteFails, RemoveFile, RewriteLink, RewriteFails, calls
  <2>7. ~ (RemoveFails \/ FindLinks \/ Commit \/ CommitFails \/ Restore)
    BY <2>1 DEF RemoveFails, FindLinks, Commit, CommitFails, Restore, calls
  <2>8. ~ (Push \/ PushPending \/ Conflict)
    BY <2>1 DEF Push, PushPending, Conflict, Return, calls
  <2>9. ~ (\E e \in Others, q \in Paths : OtherPush(e, q)) /\ ~ \E q \in Paths : OtherDelete(q)
    BY <2>1 DEF OtherPush, OtherDelete, calls
  <2>10. Discard
    BY <2>2, <2>3, <2>4, <2>5, <2>6, <2>7, <2>8, <2>9 DEF Next, Locked
  <2>11. PICK bad \in SUBSET ToDiscard :
           /\ phase = "discard"
           /\ \A q \in Paths :
                tree'[q] = IF q \in ToDiscard /\ (q \notin bad \/ tree'[q] # tree[q])
                           THEN job.was[q] ELSE tree[q]
           /\ \A q \in Paths :
                index'[q] = IF job.why # "io" /\ q \in ToDiscard \ bad THEN head[q]
                            ELSE index[q]
           /\ Return(IF job.why = "io" THEN "failed"
                     ELSE IF RestoredAll(bad) THEN "undone" ELSE "torn")
    BY <2>10, DiscardFacts
  <2>12. job.why # "io" /\ job.ok /\ bad \cap Promised = {}
    BY <2>1, <2>11 DEF Return, RestoredAll
  <2>13. job.why = "commit" /\ phase \in Working /\ job.written \subseteq Paths
         /\ job.refs \subseteq Paths /\ Sources \subseteq Paths /\ Targets \subseteq Paths
    BY <2>11, <2>12, AskedFacts, TargetFacts DEF WriteInv, TypeOK, Job, Working
  <2>14. p \in Paths /\ (p \in ToRestore \/ p \in ToDiscard)
    <3>1. Moving => job.written = Targets
      BY <2>13 DEF WriteInv, ListInv
    <3>2. Removing /\ ~Moving => Promised = Sources
      BY AskedFacts DEF WriteInv, Promised, Moving, Moves, Removing, Kinds, Request
    <3>3. ~(Removing /\ ~Moving) => Promised = Changed
      BY DEF Promised, Moving, Moves, Removing
    <3>4. CASE Removing /\ ~Moving
      BY <2>13, <3>2, <3>4 DEF ToRestore
    <3>5. CASE Removing /\ Moving
      BY <2>13, <3>1, <3>3, <3>5 DEF Changed, ToRestore, ToDiscard
    <3>6. CASE ~Removing
      <4>1. p \in job.written
        BY <3>3, <3>6 DEF Changed
      <4> QED BY <2>12, <2>13, <3>6, <4>1 DEF ToRestore, ToDiscard
    <3> QED BY <3>4, <3>5, <3>6
  <2>15. p \in ToRestore => tree[p] = head[p] /\ index[p] = head[p]
    BY <2>11, <2>12, <2>13 DEF WriteInv, OkInv
  <2>16. p \notin left => job.was[p] = head[p]
    BY <2>13, <2>14 DEF WriteInv, FilesInv
  <2> QED BY <2>11, <2>12, <2>14, <2>15, <2>16
<1>2. WriteInv /\ [Next]_vars => [Honest]_vars
  BY <1>1
<1>3. HonestRollback <=> [][Honest]_vars
  BY DEF HonestRollback
<1> QED BY <1>2, <1>3, WriteInvHolds, PTL DEF Spec

-----------------------------------------------------------------------------
(***************************************************************************)
(* WriteMany implements AtomicWrites, for any documents, calls, edits by   *)
(* others and faults: whatever fails on the way, a call that changes many  *)
(* documents is all done or not done at all in the commits of the clone.   *)
(*                                                                         *)
(* The invariant that shows it follows the marks calls leave in what they  *)
(* write: a mark gets into a file, and from there into a commit, only as   *)
(* part of everything its call asked for, or when its call has answered    *)
(* that it could not undo what it did.                                     *)
(***************************************************************************)

\* The commits a caller can see: those the clone had before a commit that is not published.
Store == IF phase = "publish" THEN job.pre ELSE head
Marks(c) == IF c = None THEN {} ELSE c.by \cap Calls
Shown ==
  {v \in Calls : \/ reply[v] \in {"saved", "unknown", "torn", "failed"}
                 \/ reply[v] = "undone" /\ ask[v].kind = "delete"}
Mark == Calls \cap {Me}

\* A request is for something, and only a batch may leave a document as it is.
WishInv ==
  \A w \in Calls : ask[w] # None => /\ ask[w].paths # {}
                                    /\ ask[w].kind # "batch" => ask[w].idle = {}

\* Commits have the marks of calls that show, and others add none.
StoreInv ==
  /\ \A p \in Paths : Marks(Store[p]) \subseteq Shown
  /\ \A p \in Fresh : Marks(news[p]) \subseteq Marks(Store[p])

\* Files have theirs, and those of the call at work where it has been.
MarksInv ==
  /\ phase \in Resting => \A p \in Paths : Marks(tree[p]) \subseteq Shown
  /\ phase \in Working =>
       \A p \in Paths :
         /\ Marks(job.was[p]) \subseteq Shown /\ Marks(tree[p]) \subseteq Shown \cup Mark
         /\ p \notin Touching => Marks(tree[p]) \subseteq Shown
  /\ phase = "discard" /\ job.why = "commit" /\ job.ok /\ Asked.kind # "delete" =>
       \A p \in Paths \ ToDiscard : Marks(tree[p]) \subseteq Shown
  /\ phase = "publish" =>
       \A p \in Paths :
         /\ Marks(head[p]) \subseteq Shown \cup Mark
         /\ p \in Changed => tree[p] = head[p] /\ index[p] = head[p]
         /\ p \notin Changed => Marks(tree[p]) \subseteq Shown /\ head[p] = job.pre[p]

\* All of the change is made when it is committed.
BatchDone(f) == \A p \in Sources \ Asked.idle : Me \in Marks(f[p])
GoneFrom(f, S) == \A p \in S : f[p] = None
DoneInv ==
  /\ phase \in {"write", "commit"} /\ Asked.kind = "batch" =>
       /\ Sources \ Asked.idle \subseteq job.written \cup IF phase = "write" THEN job.todo ELSE {}
       /\ \A q \in job.written : Me \in Marks(tree[q])
  /\ phase = "remove" => GoneFrom(tree, Sources \ job.todo)
  /\ phase \in {"query", "links", "commit"} /\ Removing => GoneFrom(tree, Sources)
  /\ phase = "publish" =>
       /\ Asked.kind = "batch" => BatchDone(head)
       /\ \A q \in Targets : Me \in Marks(head[q])
       /\ Removing => GoneFrom(head, Sources)

AtomicInv == WishInv /\ StoreInv /\ MarksInv /\ DoneInv
-----------------------------------------------------------------------------
(***************************************************************************)
(* Marks and answers.                                                      *)
(***************************************************************************)
LEMMA MarkFacts ==
  /\ Marks(None) = {} /\ Marks(Cut) = {}
  /\ \A c \in Content : Marks(c) = c.by \cap Calls
<1>1. None \notin Content
  BY ConstantsAssumption
<1>2. Marks(Cut) = {}
  <2>1. Cut.by = {Partial}
    BY DEF Cut
  <2> QED BY <2>1, CutFacts, ConstantsAssumption DEF Marks
<1> QED BY <1>1, <1>2 DEF Marks

\* Who shows depends on the answers and requests only.
LEMMA ShownSame ==
  ASSUME reply' = reply, ask' = ask
  PROVE  Shown' = Shown
BY DEF Shown

\* A call that is answered shows, unless it did nothing or took it all back.
LEMMA Answered ==
  ASSUME WriteInv, phase # "free", ask' = ask,
         NEW answer \in {"saved", "refused", "undone", "torn", "failed"}, Return(answer)
  PROVE  /\ Me \in Calls /\ reply[Me] = "asked" /\ Me \notin Shown /\ Asked = ask[Me]
         /\ reply' = [reply EXCEPT ![Me] = answer]
         /\ Shown \subseteq Shown' /\ Shown' \subseteq Shown \cup {Me}
         /\ (answer \in {"saved", "torn", "failed"}
             \/ (answer = "undone" /\ Asked.kind = "delete")) => Me \in Shown'
         /\ phase' = "free" /\ phase' \in Resting
<1>1. Me \in Calls /\ reply[Me] = "asked" /\ Asked = ask[Me]
  <2>1. Me # None
    BY DEF WriteInv, TypeOK
  <2> QED BY <2>1, AskedFacts DEF WriteInv, AskInv
<1>2. reply' = [reply EXCEPT ![Me] = answer] /\ phase' = "free" /\ phase' \in Resting
  BY DEF Return, Resting
<1>3. \A v \in Calls : reply'[v] = IF v = Me THEN answer ELSE reply[v]
  BY <1>1, <1>2 DEF WriteInv, TypeOK
<1>4. Me \notin Shown
  BY <1>1 DEF Shown
<1>5. \A v \in Calls \ {Me} : v \in Shown' <=> v \in Shown
  BY <1>3 DEF Shown
<1>6. Shown \subseteq Calls /\ Shown' \subseteq Calls
  BY DEF Shown
<1>7. (answer \in {"saved", "torn", "failed"}
       \/ (answer = "undone" /\ Asked.kind = "delete")) => Me \in Shown'
  BY <1>1, <1>3 DEF Shown
<1> QED BY <1>1, <1>2, <1>4, <1>5, <1>6, <1>7

LEMMA StoreKeeps ==
  ASSUME StoreInv, Store' = Store, news' = news, Shown \subseteq Shown'
  PROVE  StoreInv'
BY DEF StoreInv, Fresh, Marks

\* Where nobody has files under way, only commits and files have to be as they should.
LEMMA RestMarks ==
  ASSUME phase' \in Resting, WishInv', StoreInv',
         \A p \in Paths : Marks(tree'[p]) \subseteq Shown'
  PROVE  AtomicInv'
<1>1. phase' \notin Working /\ phase' # "publish"
  BY DEF Resting, Working
<1>2. MarksInv'
  BY <1>1 DEF MarksInv, Marks, Working
<1>3. DoneInv'
  BY <1>1 DEF DoneInv, Working
<1> QED BY <1>2, <1>3 DEF AtomicInv

\* A step of a call at work leaves commits, requests and answers as they are.
LEMMA WorkMarks ==
  ASSUME WriteInv, AtomicInv, phase \in Working \cup {"check"}, phase' \in Working,
         job'.call = job.call, UNCHANGED <<head, news, ask, reply>>
  PROVE  /\ WishInv' /\ StoreInv' /\ Shown' = Shown /\ Mark' = Mark
         /\ Store' = Store /\ Store = head
         /\ Me \in Calls /\ Me' = Me /\ Asked' = Asked /\ Sources' = Sources
         /\ Targets' = Targets /\ (Removing <=> Removing') /\ (Moving <=> Moving')
         /\ Room' = Room
<1>1. Me \in Calls
  <2>1. Me # None
    BY DEF WriteInv, TypeOK, Working
  <2> QED BY <2>1, AskedFacts DEF WriteInv
<1>2. Shown' = Shown
  BY ShownSame
<1>3. /\ Me' = Me /\ Asked' = Asked /\ Sources' = Sources /\ Targets' = Targets
      /\ (Moving <=> Moving') /\ (Removing <=> Removing') /\ Room' = Room
  BY SameRequest
<1>4. Store' = Store /\ Store = head
  BY DEF Store, Working
<1>5. StoreInv' /\ WishInv'
  BY <1>2, <1>4, StoreKeeps DEF AtomicInv, WishInv
<1> QED BY <1>1, <1>2, <1>3, <1>4, <1>5 DEF Mark

-----------------------------------------------------------------------------
(***************************************************************************)
(* The steps of AtomicWrites.                                              *)
(***************************************************************************)
\* A step of AtomicWrites, or none.
Steps == Atomic!Next \/ UNCHANGED Atomic!vars
Unmarked == \A p \in Paths : Marks(Store'[p]) \subseteq Marks(Store[p])

LEMMA Stutters ==
  ASSUME Store' = Store, ask' = ask, reply' = reply
  PROVE  Steps
BY DEF Steps, Store, Atomic!vars

LEMMA Leaves ==
  ASSUME Me \in Calls, reply[Me] = "asked", ask' = ask, Unmarked,
         NEW answer \in {"refused", "undone", "torn", "failed"},
         reply' = [reply EXCEPT ![Me] = answer]
  PROVE  Steps
<1>1. Atomic!Unmarked
  BY DEF Unmarked, Marks, Store, Atomic!Unmarked, Atomic!Marks
<1>2. Atomic!Leave(Me)
  BY <1>1 DEF Atomic!Leave
<1> QED BY <1>2 DEF Steps, Atomic!Next

LEMMA SameStoreUnmarked == Store' = Store => Unmarked
BY DEF Unmarked, Marks

\* What AtomicWrites calls done.
DoneHere(w) ==
  /\ \A p \in ask[w].paths :
       /\ ask[w].kind = "batch" /\ p \notin ask[w].idle => w \in Marks(Store'[p])
       /\ ask[w].kind \in Moves => w \in Marks(Store'[Dest[p]])
       /\ ask[w].kind # "batch" => Store'[p] = None \/ Store[p] = None
  /\ \A p \in Paths : Marks(Store'[p]) \subseteq Shown \cup {w}

LEMMA DoneThere == \A w \in Calls : DoneHere(w) => Atomic!Done(w)
BY DEF DoneHere, Marks, Store, Shown, Moves, Atomic!Done, Atomic!Marks, Atomic!Moves,
       Atomic!NothingElse, Atomic!Shown

LEMMA Saves ==
  ASSUME Me \in Calls, reply[Me] = "asked", ask' = ask, DoneHere(Me),
         reply' = [reply EXCEPT ![Me] = "saved"]
  PROVE  Steps
<1>1. Atomic!Save(Me)
  BY DoneThere DEF Atomic!Save
<1> QED BY <1>1 DEF Steps, Atomic!Next

-----------------------------------------------------------------------------
(***************************************************************************)
(* The beginning, outside the lock, and at rest.                           *)
(***************************************************************************)
LEMMA InitMarks == Init => AtomicInv /\ Atomic!Init
<1> SUFFICES ASSUME Init PROVE AtomicInv /\ Atomic!Init
  OBVIOUS
<1>1. \A p \in Paths : Marks(First[p]) = {}
  <2>1. \A p \in Paths : First[p] \in [by : {{}}, to : Paths \cup {None}] \cup {None}
    BY ConstantsAssumption
  <2> QED BY <2>1 DEF Marks
<1>2. /\ phase = "free" /\ Store = First /\ tree = First /\ Fresh = {}
      /\ ask = [w \in Calls |-> None] /\ reply = [w \in Calls |-> "none"]
  BY DEF Init, Store, Fresh, NoNews
<1>3. WishInv /\ StoreInv
  BY <1>1, <1>2 DEF WishInv, StoreInv
<1>4. MarksInv /\ DoneInv
  BY <1>1, <1>2 DEF MarksInv, DoneInv, Working
<1>5. Atomic!Init
  BY <1>1, <1>2 DEF Atomic!Init, Atomic!Marks, Marks, Store
<1> QED BY <1>3, <1>4, <1>5 DEF AtomicInv

\* A step that leaves the files, and whoever is at work, as they are.
LEMMA StillMarks ==
  ASSUME AtomicInv, WishInv', StoreInv', Shown' = Shown, Asked' = Asked,
         UNCHANGED <<tree, index, head, phase, job>>
  PROVE  AtomicInv'
<1>1. /\ Sources' = Sources /\ Targets' = Targets /\ (Moving <=> Moving')
      /\ (Removing <=> Removing') /\ Me' = Me /\ Room' = Room /\ Mark' = Mark
  BY DEF Sources, Targets, Moving, Removing, Me, Room, Mark
<1>2. Changed' = Changed /\ Touching' = Touching /\ ToDiscard' = ToDiscard
  BY <1>1 DEF Changed, Touching, ToDiscard
<1>3. MarksInv'
  BY <1>1, <1>2 DEF AtomicInv, MarksInv, Marks
<1>4. DoneInv'
  BY <1>1 DEF AtomicInv, DoneInv, BatchDone, GoneFrom, Marks
<1> QED BY <1>3, <1>4 DEF AtomicInv

\* Others have no part in any call's change.
LEMMA OthersMarks ==
  ASSUME WriteInv, AtomicInv,
         \/ \E e \in Others, p \in Paths : OtherPush(e, p)
         \/ \E p \in Paths : OtherDelete(p)
  PROVE  AtomicInv' /\ Steps
<1>1. UNCHANGED <<tree, index, head, ahead, phase, job, ask, reply>>
  BY DEF OtherPush, OtherDelete, files, calls
<1>2. Store' = Store /\ Shown' = Shown /\ Asked' = Asked /\ WishInv'
  BY <1>1, ShownSame DEF Store, Asked, Me, AtomicInv, WishInv
<1>3. \A p \in Fresh' : Marks(news'[p]) \subseteq Marks(Store[p])
  <2>1. news \in [Paths -> Content \cup {None, Same}] /\ Store \in Tree
    BY DEF WriteInv, TypeOK, Job, Store
  <2>2. ASSUME NEW p \in Paths, NEW c, news' = [news EXCEPT ![p] = c],
               Marks(c) \subseteq Marks(Store[p])
        PROVE  \A q \in Fresh' : Marks(news'[q]) \subseteq Marks(Store[q])
    BY <2>1, <2>2 DEF AtomicInv, StoreInv, Fresh
  <2>3. ASSUME NEW e \in Others, NEW p \in Paths, OtherPush(e, p)
        PROVE  \A q \in Fresh' : Marks(news'[q]) \subseteq Marks(Store[q])
    <3> DEFINE base == Store[p]
               theirs == IF base = None THEN [by |-> {e}, to |-> None]
                         ELSE [base EXCEPT !.by = @ \cup {e}]
    <3>1. news' = [news EXCEPT ![p] = theirs]
      BY <2>3 DEF OtherPush, Store
    <3>2. e \notin Calls
      BY ConstantsAssumption
    <3>3. Marks(theirs) \subseteq Marks(base)
      <4>1. CASE base = None
        BY <4>1, <3>2 DEF Marks
      <4>2. CASE base # None
        <5>1. base \in Content
          BY <4>2, <2>1 DEF Tree
        <5>2. theirs \in [by : SUBSET (Calls \cup Others \cup {Partial}),
                          to : Paths \cup {None}]
              /\ theirs.by = base.by \cup {e}
          BY <4>2, <5>1 DEF Content
        <5> QED BY <5>1, <5>2, <3>2, MarkFacts DEF Content
      <4> QED BY <4>1, <4>2
    <3> QED BY <2>2, <3>1, <3>3
  <2>4. ASSUME NEW p \in Paths, OtherDelete(p)
        PROVE  \A q \in Fresh' : Marks(news'[q]) \subseteq Marks(Store[q])
    <3>1. news' = [news EXCEPT ![p] = None]
      BY <2>4 DEF OtherDelete
    <3> QED BY <2>2, <3>1, MarkFacts
  <2> QED BY <2>3, <2>4
<1>4. StoreInv'
  BY <1>2, <1>3 DEF AtomicInv, StoreInv, Marks
<1> QED BY <1>1, <1>2, <1>4, StillMarks, Stutters

\* Ask: whoever has no answer yet does not show.
LEMMA AskMarks ==
  ASSUME WriteInv, AtomicInv, NEW w \in Calls, NEW wish \in Wishes, Ask(w, wish)
  PROVE  AtomicInv' /\ Steps
<1> DEFINE asked == [kind |-> wish.kind, paths |-> wish.paths, idle |-> wish.idle,
                     seen |-> tree]
<1>1. /\ ask' = [ask EXCEPT ![w] = asked] /\ reply' = [reply EXCEPT ![w] = "asked"]
      /\ reply[w] = "none"
      /\ UNCHANGED <<tree, index, head, news, phase, job>>
  BY DEF Ask, files, remote
<1>2. /\ \A v \in Calls : v # w => ask'[v] = ask[v] /\ reply'[v] = reply[v]
      /\ ask'[w] = asked /\ reply'[w] = "asked"
  BY <1>1 DEF WriteInv, TypeOK
<1>3. Me # w
  <2>1. w # None
    BY ConstantsAssumption
  <2> QED BY <1>1, <2>1 DEF WriteInv, AskInv
<1>4. Asked' = Asked
  BY <1>1, <1>2, <1>3, AskedFacts DEF Asked, Me, WriteInv
<1>5. Shown' = Shown
  BY <1>1, <1>2 DEF Shown
<1>6. Store' = Store
  BY <1>1 DEF Store
<1>7. StoreInv'
  BY <1>1, <1>5, <1>6, StoreKeeps DEF AtomicInv
<1>8. WishInv'
  <2>1. asked.paths = wish.paths /\ asked.idle = wish.idle /\ asked.kind = wish.kind
    OBVIOUS
  <2>2. wish.paths # {} /\ (wish.kind # "batch" => wish.idle = {})
    BY DEF Ask
  <2> QED BY <1>2, <2>1, <2>2 DEF AtomicInv, WishInv
<1>9. Atomic!Ask(w)
  BY <1>1, <1>2, <1>6 DEF Atomic!Ask, Store
<1>10. Steps
  BY <1>9 DEF Steps, Atomic!Next
<1> QED BY <1>1, <1>4, <1>5, <1>7, <1>8, <1>10, StillMarks

\* Lock: nothing is touched.
LEMMA LockMarks ==
  ASSUME WriteInv, AtomicInv, NEW w \in Calls, Lock(w)
  PROVE  AtomicInv' /\ Steps
<1>1. /\ phase = "free" /\ phase' = "sync"
      /\ UNCHANGED <<tree, index, head, news, ask, reply>>
  BY DEF Lock, files, remote, calls
<1>2. Store' = Store /\ Shown' = Shown
  BY <1>1, ShownSame DEF Store
<1>3. StoreInv' /\ WishInv'
  BY <1>1, <1>2, StoreKeeps DEF AtomicInv, WishInv
<1>4. \A p \in Paths : Marks(tree'[p]) \subseteq Shown'
  BY <1>1, <1>2 DEF AtomicInv, MarksInv, Resting, Marks
<1> QED BY <1>1, <1>2, <1>3, <1>4, RestMarks, Stutters DEF Resting

\* Refuse: nothing is done.  AcceptUnchanged: nothing was to be done.
LEMMA NothingDoneMarks ==
  ASSUME WriteInv, AtomicInv, AcceptUnchanged \/ Refuse
  PROVE  AtomicInv' /\ Steps
<1>1. PICK answer \in {"saved", "refused"} :
        /\ Return(answer)
        /\ answer = "saved" => Sources = Asked.idle
  BY DEF AcceptUnchanged, Refuse
<1>2. phase = "check" /\ UNCHANGED <<tree, index, head, news, ask>>
  BY DEF AcceptUnchanged, Refuse, files, remote
<1>3. /\ Me \in Calls /\ reply[Me] = "asked" /\ Asked = ask[Me]
      /\ reply' = [reply EXCEPT ![Me] = answer] /\ Shown \subseteq Shown'
      /\ phase' = "free" /\ phase' \in Resting
  BY <1>1, <1>2, Answered
<1>4. Store' = Store /\ Store = head
  BY <1>2, <1>3 DEF Store
<1>5. StoreInv' /\ WishInv'
  BY <1>2, <1>3, <1>4, StoreKeeps DEF AtomicInv, WishInv
<1>6. \A p \in Paths : Marks(tree'[p]) \subseteq Shown'
  BY <1>2, <1>3 DEF AtomicInv, MarksInv, Resting, Marks
<1>7. Steps
  <2>1. CASE answer = "refused"
    BY <1>2, <1>3, <1>4, <2>1, SameStoreUnmarked, Leaves
  <2>2. CASE answer = "saved"
    <3>1. ask[Me] # None
      BY <1>3 DEF WriteInv, AskInv
    <3>2. Asked.paths = Asked.idle /\ Asked.paths # {} /\ Asked.kind = "batch"
      BY <1>1, <1>3, <2>2, <3>1 DEF AtomicInv, WishInv, Sources
    <3>3. \A p \in Paths : Marks(Store'[p]) \subseteq Shown
      BY <1>4 DEF AtomicInv, StoreInv, Marks
    <3>4. DoneHere(Me)
      BY <1>3, <3>2, <3>3 DEF DoneHere, Moves
    <3> QED BY <1>2, <1>3, <2>2, <3>4, Saves
  <2> QED BY <2>1, <2>2
<1> QED BY <1>3, <1>5, <1>6, <1>7, RestMarks

\* Sync: what comes in from elsewhere has no marks the commit had not.
LEMMA SyncMarks ==
  ASSUME WriteInv, AtomicInv, Sync
  PROVE  AtomicInv' /\ Steps
<1>1. phase = "sync" /\ ask' = ask
  BY DEF Sync
<1>2. (phase' = "check" /\ reply' = reply) \/ (phase # "free" /\ Return("refused"))
  BY <1>1 DEF Sync
<1>3. /\ phase' \in Resting /\ phase' # "publish" /\ Shown \subseteq Shown'
  <2>1. CASE phase' = "check" /\ reply' = reply
    BY <1>1, <2>1, ShownSame DEF Resting
  <2>2. CASE Return("refused")
    BY <1>1, <2>2, Answered
  <2> QED BY <1>2, <2>1, <2>2
<1>4. Store = head /\ Store' = head'
  BY <1>1, <1>3 DEF Store
<1>5. /\ \A p \in Paths : Marks(head'[p]) \subseteq Marks(head[p])
      /\ \A p \in Paths : Marks(tree'[p]) \subseteq Shown
      /\ \A p \in Fresh' : p \in Fresh /\ news' = news /\ head' = head
  <2>1. \A p \in Paths : Marks(tree[p]) \subseteq Shown /\ Marks(head[p]) \subseteq Shown
    BY <1>1, <1>4 DEF AtomicInv, MarksInv, StoreInv, Resting
  <2>2. \A p \in Fresh : Marks(news[p]) \subseteq Marks(head[p])
    BY <1>4 DEF AtomicInv, StoreInv
  <2>3. CASE tree' = Put(tree, Fresh, news) /\ head' = Put(head, Fresh, news) /\ news' = NoNews
    <3>1. Fresh' = {}
      BY <2>3 DEF Fresh, NoNews
    <3>2. \A p \in Paths : /\ tree'[p] = IF p \in Fresh THEN news[p] ELSE tree[p]
                           /\ head'[p] = IF p \in Fresh THEN news[p] ELSE head[p]
      BY <2>3 DEF Put
    <3>3. \A p \in Paths : Marks(head'[p]) \subseteq Marks(head[p])
      BY <2>2, <3>2
    <3>4. \A p \in Paths : Marks(tree'[p]) \subseteq Shown
      BY <2>1, <2>2, <3>2
    <3> QED BY <3>1, <3>3, <3>4
  <2>4. CASE UNCHANGED <<tree, head, news>>
    BY <2>1, <2>4 DEF Marks, Fresh
  <2> QED BY <2>3, <2>4 DEF Sync, files
<1>6. StoreInv'
  <2>1. \A p \in Paths : Marks(head'[p]) \subseteq Shown'
    BY <1>3, <1>4, <1>5 DEF AtomicInv, StoreInv
  <2>2. \A p \in Fresh' : Marks(news'[p]) \subseteq Marks(head'[p])
    BY <1>4, <1>5 DEF AtomicInv, StoreInv, Marks
  <2> QED BY <1>4, <2>1, <2>2 DEF StoreInv, Marks
<1>7. AtomicInv'
  <2>1. WishInv'
    BY <1>1 DEF AtomicInv, WishInv
  <2>2. \A p \in Paths : Marks(tree'[p]) \subseteq Shown'
    BY <1>3, <1>5
  <2> QED BY <1>3, <1>6, <2>1, <2>2, RestMarks
<1>8. Unmarked
  BY <1>4, <1>5 DEF Unmarked
<1>9. Steps
  <2>1. CASE phase' = "check" /\ reply' = reply
    <3>1. Atomic!Elsewhere
      BY <1>1, <1>8, <2>1 DEF Unmarked, Marks, Store, Atomic!Elsewhere, Atomic!Unmarked,
                              Atomic!Marks
    <3> QED BY <3>1 DEF Steps, Atomic!Next
  <2>2. CASE Return("refused")
    <3>1. Me \in Calls /\ reply[Me] = "asked" /\ reply' = [reply EXCEPT ![Me] = "refused"]
      BY <1>1, <2>2, Answered
    <3> QED BY <1>1, <1>8, <3>1, Leaves
  <2> QED BY <1>2, <2>1, <2>2
<1> QED BY <1>7, <1>9

\* Files have the marks of calls that show, or of the call at work.
LEMMA FileMarks ==
  ASSUME WriteInv, AtomicInv
  PROVE  \A p \in Paths : Marks(tree[p]) \subseteq Shown \cup Mark
<1> SUFFICES ASSUME NEW p \in Paths PROVE Marks(tree[p]) \subseteq Shown \cup Mark
  OBVIOUS
<1>1. phase \in Resting \/ phase \in Working \/ phase = "publish"
  BY DEF WriteInv, TypeOK, Resting, Working
<1>2. CASE phase \in Resting \/ phase \in Working
  BY <1>2 DEF AtomicInv, MarksInv
<1>3. CASE phase = "publish"
  <2>1. p \in Changed => tree[p] = head[p] /\ Marks(head[p]) \subseteq Shown \cup Mark
    BY <1>3 DEF AtomicInv, MarksInv
  <2>2. p \notin Changed => Marks(tree[p]) \subseteq Shown
    BY <1>3 DEF AtomicInv, MarksInv
  <2> QED BY <2>1, <2>2
<1> QED BY <1>1, <1>2, <1>3

\* What is committed is all that was asked for, and nothing else.
LEMMA CommittedIsDone ==
  ASSUME WriteInv, AtomicInv, phase = "publish", Store' = head
  PROVE  DoneHere(Me) /\ Me \in Calls /\ reply[Me] = "asked" /\ Asked = ask[Me]
<1>1. Me \in Calls /\ Asked = ask[Me] /\ reply[Me] = "asked"
  <2>1. Me # None
    BY DEF WriteInv, TypeOK
  <2> QED BY <2>1, AskedFacts DEF WriteInv, AskInv
<1>2. /\ Asked.kind = "batch" => \A p \in Sources \ Asked.idle : Me \in Marks(head[p])
      /\ \A q \in Targets : Me \in Marks(head[q])
      /\ Removing => \A p \in Sources : head[p] = None
      /\ \A p \in Paths : Marks(head[p]) \subseteq Shown \cup {Me}
  BY DEF AtomicInv, DoneInv, BatchDone, GoneFrom, MarksInv, Mark
<1>3. Moving => \A p \in Sources : Dest[p] \in Targets
  BY TargetFacts DEF WriteInv
<1> QED BY <1>1, <1>2, <1>3 DEF DoneHere, Sources, Moving, Removing, Marks

\* Crash: a commit that was made stays, and stands for all its call asked for.
LEMMA CrashMarks ==
  ASSUME WriteInv, AtomicInv, Crash
  PROVE  AtomicInv' /\ Steps
<1>1. /\ phase' = "free"
      /\ reply' = [w \in Calls |-> IF reply[w] = "asked" THEN "unknown" ELSE reply[w]]
      /\ phase = "publish" => Both = {}
      /\ UNCHANGED <<tree, index, head, news, ask>>
  BY DEF Crash, files
<1>2. Shown \cup Mark \subseteq Shown' /\ Shown \subseteq Shown'
  <2>1. \A v \in Shown : v \in Shown'
    BY <1>1 DEF Shown
  <2>2. Me \in Calls => Me \in Shown'
    <3>1. Me \in Calls => reply[Me] = "asked"
      BY ConstantsAssumption DEF WriteInv, AskInv
    <3> QED BY <1>1, <3>1 DEF Shown
  <2> QED BY <2>1, <2>2 DEF Mark
<1>3. Store' = head
  BY <1>1 DEF Store
<1>4. StoreInv'
  <2>1. CASE phase # "publish"
    <3>1. Store' = Store
      BY <1>3, <2>1 DEF Store
    <3> QED BY <1>1, <1>2, <3>1, StoreKeeps DEF AtomicInv
  <2>2. CASE phase = "publish"
    <3>1. \A p \in Paths : Marks(head[p]) \subseteq Shown'
      BY <1>2, <2>2 DEF AtomicInv, MarksInv
    <3>2. \A p \in Fresh : head[p] = job.pre[p]
      BY <1>1, <2>2 DEF Both, Touched, Fresh
    <3>3. \A p \in Fresh : Marks(news[p]) \subseteq Marks(head[p])
      BY <2>2, <3>2 DEF AtomicInv, StoreInv, Store
    <3>4. Fresh' = Fresh /\ news' = news
      BY <1>1 DEF Fresh
    <3> QED BY <1>3, <3>1, <3>3, <3>4 DEF StoreInv, Marks, Fresh
  <2> QED BY <2>1, <2>2
<1>5. AtomicInv'
  <2>1. WishInv'
    BY <1>1 DEF AtomicInv, WishInv
  <2>2. \A p \in Paths : Marks(tree'[p]) \subseteq Shown'
    BY <1>1, <1>2, FileMarks DEF Marks
  <2> QED BY <1>1, <1>4, <2>1, <2>2, RestMarks DEF Resting
<1>6. Steps
  <2>1. CASE phase # "publish"
    <3>1. Store' = Store
      BY <1>3, <2>1 DEF Store
    <3>2. Atomic!Die
      BY <1>1, <3>1 DEF Atomic!Die, Store
    <3> QED BY <3>2 DEF Steps, Atomic!Next
  <2>2. CASE phase = "publish"
    <3>1. Atomic!Done(Me) /\ Me \in Calls /\ reply[Me] = "asked"
      BY <1>3, <2>2, CommittedIsDone, DoneThere
    <3>2. Atomic!Die
      BY <1>1, <3>1 DEF Atomic!Die
    <3> QED BY <3>2 DEF Steps, Atomic!Next
  <2> QED BY <2>1, <2>2
<1> QED BY <1>5, <1>6

-----------------------------------------------------------------------------
(***************************************************************************)
(* A call at work, up to its commit.                                       *)
(***************************************************************************)
\* While files are under way, the part about the commit says nothing.
LEMMA WorkingMarks ==
  ASSUME phase' \in Working, WishInv', StoreInv', DoneInv',
         \A p \in Paths : /\ Marks(job'.was[p]) \subseteq Shown'
                          /\ Marks(tree'[p]) \subseteq (Shown \cup Mark)'
                          /\ p \notin Touching' => Marks(tree'[p]) \subseteq Shown',
         phase' = "discard" /\ job'.why = "commit" /\ job'.ok /\ (Asked.kind # "delete")' =>
           \A p \in Paths \ ToDiscard' : Marks(tree'[p]) \subseteq Shown'
  PROVE  AtomicInv'
<1>1. phase' \notin Resting /\ phase' # "publish"
  BY DEF Resting, Working
<1>2. MarksInv'
  BY <1>1 DEF MarksInv, Marks
<1> QED BY <1>2 DEF AtomicInv

\* Before a roll-back there is nothing to say of a batch, or of sources, that is not said
\* of the step before.
LEMMA RollBackDone ==
  ASSUME phase' \in {"restore", "discard"}
  PROVE  DoneInv'
BY DEF DoneInv

\* Accept: nothing is touched yet.
LEMMA AcceptMarks ==
  ASSUME WriteInv, AtomicInv, Accept
  PROVE  AtomicInv' /\ Steps
<1>1. PICK changed \in SUBSET Sources :
        /\ Sources \ Asked.idle \subseteq changed
        /\ job' = [job EXCEPT !.was = tree, !.pre = head, !.todo = FirstStep(changed)[2]]
        /\ phase' = FirstStep(changed)[1]
  BY DEF Accept
<1>2. /\ phase = "check" /\ UNCHANGED <<tree, index, head, news, ask, reply>>
  BY DEF Accept, files, remote, calls
<1>3. job \in Job /\ job.written = {} /\ job.refs = {} /\ Asked.kind \in Kinds
  BY <1>2, AskedFacts DEF WriteInv, TypeOK, RestInv, Resting, Request
<1>4. /\ phase' \in {"write", "remove"} /\ phase' \in Working
      /\ phase' = "remove" => FirstStep(changed)[2] = Sources
      /\ Asked.kind = "batch" => FirstStep(changed)[2] = changed
  BY <1>1, <1>3 DEF FirstStep, Working, Moving, Moves, Kinds
<1>5. /\ job'.call = job.call /\ job'.was = tree /\ job'.todo = FirstStep(changed)[2]
      /\ job'.written = {} /\ job'.refs = {}
  BY <1>1, <1>3 DEF Job
<1>6. /\ WishInv' /\ StoreInv' /\ Shown' = Shown /\ Asked' = Asked /\ Sources' = Sources
      /\ Store' = Store
  BY <1>2, <1>4, <1>5, WorkMarks
<1>7. \A p \in Paths : Marks(tree[p]) \subseteq Shown
  BY <1>2 DEF AtomicInv, MarksInv, Resting
<1>8. DoneInv'
  BY <1>1, <1>4, <1>5, <1>6 DEF DoneInv, GoneFrom
<1>9. AtomicInv'
  BY <1>2, <1>4, <1>5, <1>6, <1>7, <1>8, WorkingMarks
<1> QED BY <1>2, <1>6, <1>9, Stutters

\* WriteFile: what the call writes has its mark, and those of what it read.
LEMMA WriteFileMarks ==
  ASSUME WriteInv, AtomicInv, NEW p \in Paths, WriteFile(p)
  PROVE  AtomicInv' /\ Steps
<1>1. /\ phase = "write" /\ p \in job.todo
      /\ tree' = [tree EXCEPT ![p] = NewAt(p)]
      /\ job' = [job EXCEPT !.written = @ \cup {p},
                            !.todo = IF job.todo # {p} THEN @ \ {p}
                                     ELSE IF Moving THEN Sources ELSE {}]
      /\ phase' = IF job.todo = {p} THEN AfterWrite ELSE "write"
      /\ UNCHANGED <<index, head, news, ask, reply>>
  BY DEF WriteFile, remote, calls
<1>2. /\ job \in Job /\ tree \in Tree /\ job.was \in Tree /\ Me # None /\ phase \in Working
      /\ job.written \subseteq Paths
  BY <1>1, AskedFacts DEF WriteInv, TypeOK, Working, Job
<1>3. p \in Room /\ Asked.kind # "delete"
  BY <1>1, <1>2 DEF WriteInv, ListInv
<1>4. /\ job'.call = job.call /\ job'.was = job.was /\ job'.written = job.written \cup {p}
      /\ job'.refs = job.refs
      /\ job'.todo = IF job.todo # {p} THEN job.todo \ {p}
                     ELSE IF Moving THEN Sources ELSE {}
  BY <1>1, <1>2 DEF Job
<1>5. /\ phase' = "write" <=> job.todo # {p}
      /\ phase' = "remove" <=> job.todo = {p} /\ Moving
      /\ phase' = "commit" <=> job.todo = {p} /\ ~Moving
      /\ phase' \in {"write", "remove", "commit"} /\ phase' \in Working
  BY <1>1 DEF AfterWrite, Working
<1>6. /\ WishInv' /\ StoreInv' /\ Shown' = Shown /\ Mark' = Mark /\ Me \in Calls /\ Me' = Me
      /\ Asked' = Asked /\ Sources' = Sources /\ Store' = Store /\ (Removing <=> Removing')
  BY <1>1, <1>2, <1>4, <1>5, WorkMarks
<1>7. NewAt(p) \in Content /\ Me \in Marks(NewAt(p))
  BY <1>2, <1>3, <1>6, NewAtFacts, MarkFacts
<1>8. Marks(NewAt(p)) \subseteq Shown \cup Mark
  <2>1. \A q \in Paths : Marks(job.was[q]) \subseteq Shown
    BY <1>2 DEF AtomicInv, MarksInv
  <2>2. CASE Moving
    <3>1. /\ NewAt(p).by = job.was[Origin(p)].by \cup {Me}
          /\ job.was[Origin(p)] \in Content
      BY <1>2, <1>3, <2>2, NewAtFacts
    <3>2. Origin(p) \in Paths
      BY <1>3, <2>2, TargetFacts, AskedFacts DEF WriteInv, Room, Removing, Moving, Moves
    <3>3. Marks(job.was[Origin(p)]) = job.was[Origin(p)].by \cap Calls
      BY <3>1, MarkFacts
    <3> QED BY <1>7, <2>1, <3>1, <3>2, <3>3, MarkFacts DEF Mark
  <2>3. CASE ~Moving
    <3>1. CASE job.was[p] = None
      <4>1. NewAt(p).by = {Me}
        BY <2>3, <3>1 DEF NewAt
      <4> QED BY <1>7, <4>1, MarkFacts DEF Mark
    <3>2. CASE job.was[p] # None
      <4>1. job.was[p] \in Content
        BY <1>2, <3>2 DEF Tree
      <4>2. NewAt(p).by = job.was[p].by \cup {Me}
        BY <1>6, <2>3, <3>2, <4>1, MineFacts DEF NewAt
      <4> QED BY <1>7, <2>1, <4>1, <4>2, MarkFacts DEF Mark
    <3> QED BY <3>1, <3>2
  <2> QED BY <2>2, <2>3
<1>9. \A q \in Paths : tree'[q] = IF q = p THEN NewAt(p) ELSE tree[q]
  BY <1>1, <1>2 DEF Tree
<1>10. DoneInv'
  <2>1. Moving => Asked.kind # "batch"
    BY DEF Moving, Moves
  <2>2. Asked.kind = "batch" =>
          /\ Sources \ Asked.idle \subseteq job'.written \cup job'.todo
          /\ \A q \in job'.written : Me \in Marks(tree'[q])
    <3>1. Asked.kind = "batch" =>
            /\ Sources \ Asked.idle \subseteq job.written \cup job.todo
            /\ \A q \in job.written : Me \in Marks(tree[q])
      BY <1>1 DEF AtomicInv, DoneInv
    <3> QED BY <1>2, <1>4, <1>7, <1>9, <2>1, <3>1
  <2>3. phase' = "commit" => job'.todo = {} /\ ~Removing
    BY <1>3, <1>4, <1>5, AskedFacts DEF WriteInv, Moving, Moves, Removing, Kinds, Request
  <2>4. phase' = "remove" => job'.todo = Sources
    BY <1>4, <1>5
  <2> QED BY <1>5, <1>6, <2>2, <2>3, <2>4 DEF DoneInv, GoneFrom, Marks
<1>11. AtomicInv'
  <2>1. Touching \subseteq Touching' /\ p \in Touching'
    BY <1>4, <1>6 DEF Touching
  <2>2. \A q \in Paths : /\ Marks(job'.was[q]) \subseteq Shown
                         /\ Marks(tree'[q]) \subseteq Shown \cup Mark
                         /\ q \notin Touching' => Marks(tree'[q]) \subseteq Shown
    BY <1>2, <1>4, <1>8, <1>9, <2>1 DEF AtomicInv, MarksInv
  <2> QED BY <1>5, <1>6, <1>10, <2>2, WorkingMarks
<1> QED BY <1>1, <1>6, <1>11, Stutters

\* WriteFails: what was cut short has nobody's mark.
LEMMA WriteFailsMarks ==
  ASSUME WriteInv, AtomicInv, NEW p \in Paths, WriteFails(p)
  PROVE  AtomicInv' /\ Steps
<1>1. /\ phase = "write" /\ phase' = UndoFiles
      /\ \/ tree' = tree /\ job' = [job EXCEPT !.todo = {}]
         \/ /\ tree' = [tree EXCEPT ![p] = Cut]
            /\ job' = [job EXCEPT !.written = UndoneBy(p), !.todo = {}]
      /\ UNCHANGED <<index, head, news, ask, reply>>
  BY DEF WriteFails, remote, calls
<1>2. job \in Job /\ tree \in Tree /\ phase \in Working
  BY <1>1 DEF WriteInv, TypeOK, Working
<1>3. phase' \in {"restore", "discard"} /\ phase' \in Working
  BY <1>1 DEF UndoFiles, Working
<1>4. /\ job'.call = job.call /\ job'.was = job.was /\ job'.refs = job.refs
      /\ job'.why = job.why /\ job.written \subseteq job'.written
  <2>1. job.written \subseteq UndoneBy(p)
    BY DEF UndoneBy
  <2>2. CASE job' = [job EXCEPT !.todo = {}]
    BY <1>2, <2>2 DEF Job
  <2>3. CASE job' = [job EXCEPT !.written = UndoneBy(p), !.todo = {}]
    BY <1>2, <2>1, <2>3 DEF Job
  <2> QED BY <1>1, <2>2, <2>3
<1>5. /\ WishInv' /\ StoreInv' /\ Shown' = Shown /\ Mark' = Mark /\ Sources' = Sources
      /\ Asked' = Asked /\ Store' = Store /\ (Removing <=> Removing')
  BY <1>1, <1>2, <1>3, <1>4, WorkMarks
<1>6. \A q \in Paths : tree'[q] = tree[q] \/ Marks(tree'[q]) = {}
  <2>1. CASE tree' = tree
    BY <2>1
  <2>2. CASE tree' = [tree EXCEPT ![p] = Cut]
    <3>1. \A q \in Paths : tree'[q] = IF q = p THEN Cut ELSE tree[q]
      BY <1>2, <2>2, CutFacts, TreeFacts
    <3> QED BY <3>1, MarkFacts
  <2> QED BY <1>1, <2>1, <2>2
<1>7. Touching \subseteq Touching'
  BY <1>4, <1>5 DEF Touching
<1>8. \A q \in Paths : /\ Marks(job'.was[q]) \subseteq Shown
                       /\ Marks(tree'[q]) \subseteq Shown \cup Mark
                       /\ q \notin Touching' => Marks(tree'[q]) \subseteq Shown
  BY <1>2, <1>4, <1>6, <1>7 DEF AtomicInv, MarksInv
<1>9. job'.why # "commit"
  BY <1>1, <1>2, <1>4 DEF WriteInv, ListInv
<1>10. DoneInv'
  BY <1>3, RollBackDone
<1>11. AtomicInv'
  BY <1>3, <1>5, <1>8, <1>9, <1>10, WorkingMarks
<1> QED BY <1>1, <1>5, <1>11, Stutters

\* RemoveFile: the sources that are not on the list any more are gone.
LEMMA RemoveFileMarks ==
  ASSUME WriteInv, AtomicInv, NEW p \in Paths, RemoveFile(p)
  PROVE  AtomicInv' /\ Steps
<1>1. /\ phase = "remove" /\ p \in job.todo
      /\ tree' = [tree EXCEPT ![p] = None]
      /\ job' = [job EXCEPT !.todo = @ \ {p}]
      /\ phase' = IF job.todo = {p} THEN "query" ELSE "remove"
      /\ UNCHANGED <<index, head, news, ask, reply>>
  BY DEF RemoveFile, remote, calls
<1>2. job \in Job /\ tree \in Tree /\ phase \in Working /\ Removing /\ Sources \subseteq Paths
  BY <1>1, AskedFacts DEF WriteInv, TypeOK, Working, ListInv
<1>3. /\ job'.call = job.call /\ job'.was = job.was /\ job'.refs = job.refs
      /\ job'.written = job.written /\ job'.todo = job.todo \ {p}
  BY <1>1, <1>2 DEF Job
<1>4. /\ phase' \in {"query", "remove"} /\ phase' \in Working
      /\ phase' = "query" => job'.todo = {}
  BY <1>1, <1>3 DEF Working
<1>5. /\ WishInv' /\ StoreInv' /\ Shown' = Shown /\ Mark' = Mark /\ Sources' = Sources
      /\ Store' = Store /\ (Removing <=> Removing') /\ Asked' = Asked
  BY <1>1, <1>2, <1>3, <1>4, WorkMarks
<1>6. \A q \in Paths : tree'[q] = IF q = p THEN None ELSE tree[q]
  BY <1>1, <1>2 DEF Tree
<1>7. DoneInv'
  <2>1. \A q \in Sources \ job'.todo : tree'[q] = None
    BY <1>1, <1>2, <1>3, <1>6 DEF AtomicInv, DoneInv, GoneFrom
  <2> QED BY <1>4, <1>5, <2>1 DEF DoneInv, GoneFrom
<1>8. Touching' = Touching
  BY <1>3, <1>5 DEF Touching
<1>9. \A q \in Paths : /\ Marks(job'.was[q]) \subseteq Shown
                       /\ Marks(tree'[q]) \subseteq Shown \cup Mark
                       /\ q \notin Touching' => Marks(tree'[q]) \subseteq Shown
  BY <1>2, <1>3, <1>6, <1>8, MarkFacts DEF AtomicInv, MarksInv
<1>10. AtomicInv'
  BY <1>4, <1>5, <1>7, <1>9, WorkingMarks
<1> QED BY <1>1, <1>5, <1>10, Stutters

\* A step that touches no file leaves the marks where they are.
LEMMA NoFileTouched ==
  ASSUME WriteInv, AtomicInv, phase \in Working, phase' \in Working, DoneInv',
         phase' # "discard" \/ job'.why # "commit",
         job'.call = job.call, job'.was = job.was, job'.written = job.written,
         job'.refs = job.refs,
         UNCHANGED <<tree, head, news, ask, reply>>
  PROVE  AtomicInv' /\ Steps
<1>1. /\ WishInv' /\ StoreInv' /\ Shown' = Shown /\ Mark' = Mark /\ Sources' = Sources
      /\ Store' = Store /\ (Removing <=> Removing') /\ Asked' = Asked
  BY WorkMarks
<1>2. Touching' = Touching
  BY <1>1 DEF Touching
<1>3. \A q \in Paths : /\ Marks(job'.was[q]) \subseteq Shown
                       /\ Marks(tree'[q]) \subseteq Shown \cup Mark
                       /\ q \notin Touching' => Marks(tree'[q]) \subseteq Shown
  BY <1>2 DEF AtomicInv, MarksInv
<1>4. AtomicInv'
  BY <1>1, <1>3, WorkingMarks
<1> QED BY <1>1, <1>4, Stutters

LEMMA RemoveFailsMarks ==
  ASSUME WriteInv, AtomicInv, RemoveFails
  PROVE  AtomicInv' /\ Steps
<1>1. /\ phase = "remove" /\ phase' = UndoFiles
      /\ UNCHANGED <<tree, head, news, job, ask, reply>>
  BY DEF RemoveFails, files, remote, calls
<1>2. phase' \in {"restore", "discard"} /\ phase \in Working /\ phase' \in Working
  BY <1>1 DEF UndoFiles, Working
<1>3. job'.why # "commit"
  BY <1>1, <1>2 DEF WriteInv, ListInv
<1> QED BY <1>1, <1>2, <1>3, RollBackDone, NoFileTouched

LEMMA FindLinksMarks ==
  ASSUME WriteInv, AtomicInv, FindLinks
  PROVE  AtomicInv' /\ Steps
<1>1. /\ phase = "query" /\ phase \in Working
      /\ phase' \in {"commit", "links", "restore"} /\ phase' \in Working
      /\ UNCHANGED <<tree, head, news, ask, reply>>
  BY DEF FindLinks, files, remote, calls, Working
<1>2. /\ job'.call = job.call /\ job'.was = job.was /\ job'.written = job.written
      /\ job'.refs = job.refs
  <2>1. job \in Job
    BY DEF WriteInv, TypeOK
  <2>2. job' = job \/ \E known : job' = [job EXCEPT !.todo = known, !.known = known]
    BY DEF FindLinks
  <2> QED BY <2>1, <2>2 DEF Job
<1>3. Removing
  BY <1>1 DEF WriteInv, ListInv
<1>4. DoneInv'
  <2>1. Asked' = Asked /\ Sources' = Sources /\ (Removing <=> Removing')
    BY <1>1, <1>2, SameRequest
  <2>2. GoneFrom(tree, Sources)
    BY <1>1, <1>3 DEF AtomicInv, DoneInv
  <2> QED BY <1>1, <1>3, <2>1, <2>2 DEF DoneInv, GoneFrom, Removing
<1> QED BY <1>1, <1>2, <1>4, NoFileTouched

\* RewriteLink: the document gets the call's mark, and is on the list of what is restored.
LEMMA RewriteLinkMarks ==
  ASSUME WriteInv, AtomicInv, NEW q \in Paths, RewriteLink(q)
  PROVE  AtomicInv' /\ Steps
<1>1. PICK to \in NewTargets(q) : tree' = [tree EXCEPT ![q] = [Mine(@) EXCEPT !.to = to]]
  BY DEF RewriteLink
<1>2. /\ phase = "links" /\ q \in job.todo
      /\ job' = [job EXCEPT !.refs = @ \cup {q}, !.todo = @ \ {q}]
      /\ phase' = IF job.todo = {q} THEN "commit" ELSE "links"
      /\ UNCHANGED <<index, head, news, ask, reply>>
  BY DEF RewriteLink, remote, calls
<1>3. LinksHere(q) /\ tree[q] \in Content /\ Removing
  BY <1>2, LinkersStay
<1>4. /\ job \in Job /\ tree \in Tree /\ phase \in Working /\ Me \in Calls
      /\ phase' \in {"commit", "links"} /\ phase' \in Working /\ Sources \subseteq Paths
  BY <1>2, AskedFacts DEF WriteInv, TypeOK, Working
<1>5. /\ job'.call = job.call /\ job'.was = job.was /\ job'.written = job.written
      /\ job'.refs = job.refs \cup {q}
  BY <1>2, <1>4 DEF Job
<1>6. /\ WishInv' /\ StoreInv' /\ Shown' = Shown /\ Mark' = Mark /\ Sources' = Sources
      /\ Store' = Store /\ (Removing <=> Removing') /\ Asked' = Asked
  BY <1>2, <1>4, <1>5, WorkMarks
<1>7. \A p \in Paths : tree'[p] = IF p = q THEN [Mine(tree[q]) EXCEPT !.to = to] ELSE tree[p]
  BY <1>1, <1>4 DEF Tree
<1>8. Marks(tree'[q]) \subseteq Marks(tree[q]) \cup Mark
  <2> DEFINE d == [Mine(tree[q]) EXCEPT !.to = to]
  <2>1. to \in Paths \cup {None}
    <3>1. Dest \in [Paths -> Paths \cup {None}] /\ tree[q].to \in Paths
      BY <1>3, <1>4, ConstantsAssumption DEF LinksHere
    <3> QED BY <1>1, <3>1 DEF NewTargets
  <2>2. d \in Content /\ d.by = tree[q].by \cup {Me}
    BY <1>3, <1>4, <2>1, MineFacts
  <2> QED BY <1>3, <1>7, <2>2, MarkFacts DEF Mark
<1>9. Touching \subseteq Touching' /\ q \in Touching'
  BY <1>3, <1>5, <1>6 DEF Touching
<1>10. \A p \in Paths : /\ Marks(job'.was[p]) \subseteq Shown
                        /\ Marks(tree'[p]) \subseteq Shown \cup Mark
                        /\ p \notin Touching' => Marks(tree'[p]) \subseteq Shown
  BY <1>4, <1>5, <1>7, <1>8, <1>9 DEF AtomicInv, MarksInv
<1>11. DoneInv'
  <2>1. GoneFrom(tree, Sources) /\ tree[q] # None
    BY <1>2, <1>3 DEF AtomicInv, DoneInv, LinksHere
  <2>2. \A p \in Sources : tree'[p] = None
    BY <1>4, <1>7, <2>1 DEF GoneFrom
  <2> QED BY <1>3, <1>4, <1>6, <2>2 DEF DoneInv, GoneFrom, Removing
<1>12. AtomicInv'
  BY <1>4, <1>6, <1>10, <1>11, WorkingMarks
<1> QED BY <1>2, <1>6, <1>12, Stutters

\* RewriteFails: what was cut short has nobody's mark.
LEMMA RewriteFailsMarks ==
  ASSUME WriteInv, AtomicInv, NEW q \in Paths, RewriteFails(q)
  PROVE  AtomicInv' /\ Steps
<1>1. /\ phase = "links" /\ phase' = "restore"
      /\ tree' \in {tree, [tree EXCEPT ![q] = Cut]}
      /\ job' = job \/ job' = [job EXCEPT !.refs = @ \cup {q}]
      /\ UNCHANGED <<index, head, news, ask, reply>>
  BY DEF RewriteFails, remote, calls
<1>2. job \in Job /\ tree \in Tree /\ phase \in Working /\ phase' \in Working
  BY <1>1 DEF WriteInv, TypeOK, Working
<1>3. /\ job'.call = job.call /\ job'.was = job.was /\ job.refs \subseteq job'.refs
      /\ job'.written = job.written
  <2>1. CASE job' = job
    BY <2>1
  <2>2. CASE job' = [job EXCEPT !.refs = @ \cup {q}]
    BY <1>2, <2>2 DEF Job
  <2> QED BY <1>1, <2>1, <2>2
<1>4. /\ WishInv' /\ StoreInv' /\ Shown' = Shown /\ Mark' = Mark /\ Sources' = Sources
      /\ Store' = Store /\ (Removing <=> Removing')
  BY <1>1, <1>2, <1>3, WorkMarks
<1>5. \A p \in Paths : tree'[p] = tree[p] \/ Marks(tree'[p]) = {}
  <2>1. CASE tree' = tree
    BY <2>1
  <2>2. CASE tree' = [tree EXCEPT ![q] = Cut]
    <3>1. \A p \in Paths : tree'[p] = IF p = q THEN Cut ELSE tree[p]
      BY <1>2, <2>2, CutFacts, TreeFacts
    <3> QED BY <3>1, MarkFacts
  <2> QED BY <1>1, <2>1, <2>2
<1>6. Touching \subseteq Touching'
  BY <1>3, <1>4 DEF Touching
<1>7. \A p \in Paths : /\ Marks(job'.was[p]) \subseteq Shown
                       /\ Marks(tree'[p]) \subseteq Shown \cup Mark
                       /\ p \notin Touching' => Marks(tree'[p]) \subseteq Shown
  BY <1>2, <1>3, <1>5, <1>6 DEF AtomicInv, MarksInv
<1>8. DoneInv'
  BY <1>1, RollBackDone
<1>9. AtomicInv'
  BY <1>1, <1>2, <1>4, <1>7, <1>8, WorkingMarks
<1> QED BY <1>1, <1>4, <1>9, Stutters

-----------------------------------------------------------------------------
(***************************************************************************)
(* The commit, and the roll-backs.                                         *)
(***************************************************************************)
\* Commit: what is committed is all that was asked for, and only that is new.
LEMMA CommitMarks ==
  ASSUME WriteInv, AtomicInv, Commit
  PROVE  AtomicInv' /\ Steps
<1>1. /\ phase = "commit" /\ phase \in Working /\ phase' = "publish"
      /\ index' = Put(index, Changed, tree) /\ head' = Put(head, Changed, tree)
      /\ UNCHANGED <<tree, news, job, ask, reply>>
  BY DEF Commit, remote, calls, Working, Staged
<1>2. /\ job.pre = head /\ job.written \subseteq Room
      /\ Moving => job.written = Targets
  BY <1>1 DEF WriteInv, ListInv
<1>3. /\ Me \in Calls /\ Targets \subseteq Paths /\ Sources \subseteq Paths
      /\ job.written \subseteq Paths
      /\ ~Moving => Targets = {}
  <2>1. Me # None /\ job.written \subseteq Paths
    BY <1>1 DEF WriteInv, TypeOK, Job
  <2> QED BY <2>1, AskedFacts, TargetFacts DEF WriteInv
<1>4. Store' = Store /\ Store = head /\ Shown' = Shown
  BY <1>1, <1>2, ShownSame DEF Store
<1>5. StoreInv' /\ WishInv'
  BY <1>1, <1>4, StoreKeeps DEF AtomicInv, WishInv
<1>6. /\ Me' = Me /\ Asked' = Asked /\ Sources' = Sources /\ Targets' = Targets
      /\ (Moving <=> Moving') /\ (Removing <=> Removing') /\ Mark' = Mark
  BY <1>1, SameRequest DEF Mark
<1>7. Changed' = Changed
  BY <1>1, <1>6 DEF Changed
<1>8. \A p \in Paths : /\ head'[p] = IF p \in Changed THEN tree[p] ELSE head[p]
                       /\ index'[p] = IF p \in Changed THEN tree[p] ELSE index[p]
  BY <1>1 DEF Put
<1>9. Touching \subseteq Changed
  <2>1. Removing => job.written \subseteq Targets
    BY <1>2 DEF Room
  <2> QED BY <2>1 DEF Touching, Changed
<1>10. MarksInv'
  <2>1. \A p \in Paths : /\ Marks(tree[p]) \subseteq Shown \cup Mark
                         /\ p \notin Changed => Marks(tree[p]) \subseteq Shown
                         /\ Marks(head[p]) \subseteq Shown
    BY <1>1, <1>4, <1>9 DEF AtomicInv, MarksInv, StoreInv
  <2>2. \A p \in Paths : /\ Marks(head'[p]) \subseteq Shown \cup Mark
                         /\ p \in Changed => tree[p] = head'[p] /\ index'[p] = head'[p]
                         /\ p \notin Changed => Marks(tree[p]) \subseteq Shown
                                                /\ head'[p] = job.pre[p]
    BY <1>2, <1>8, <2>1
  <2>3. phase' \notin Resting /\ phase' \notin Working
    BY <1>1 DEF Resting, Working
  <2> QED BY <1>1, <1>4, <1>6, <1>7, <2>2, <2>3 DEF MarksInv, Marks
<1>11. DoneInv'
  <2>1. Asked.kind = "batch" => \A p \in Sources \ Asked.idle : Me \in Marks(head'[p])
    <3>1. Asked.kind = "batch" =>
            /\ Sources \ Asked.idle \subseteq job.written
            /\ \A q \in job.written : Me \in Marks(tree[q])
      BY <1>1 DEF AtomicInv, DoneInv
    <3>2. Asked.kind = "batch" => Changed = job.written
      BY DEF Changed, Removing
    <3> QED BY <1>3, <1>8, <3>1, <3>2
  <2>2. \A q \in Targets : Me \in Marks(head'[q])
    <3>1. SUFFICES ASSUME NEW q \in Targets PROVE Me \in Marks(head'[q])
      OBVIOUS
    <3>2. Moving /\ Removing /\ Asked.kind # "delete" /\ q \in Room /\ q \in Changed
      BY <1>3 DEF Moving, Moves, Removing, Room, Changed
    <3>3. tree[q] = NewAt(q)
      BY <1>1, <1>2, <3>2 DEF WriteInv, ThereInv
    <3>4. NewAt(q) \in Content /\ Me \in NewAt(q).by
      BY <1>1, <1>3, <3>2, NewAtFacts DEF WriteInv, TypeOK
    <3> QED BY <1>3, <1>8, <3>2, <3>3, <3>4, MarkFacts
  <2>3. Removing => \A p \in Sources : head'[p] = None
    <3>1. Removing => Sources \subseteq Changed /\ \A p \in Sources : tree[p] = None
      BY <1>1 DEF AtomicInv, DoneInv, GoneFrom, Changed
    <3> QED BY <1>3, <1>8, <3>1
  <2> QED BY <1>1, <1>6, <2>1, <2>2, <2>3 DEF DoneInv, BatchDone, GoneFrom, Marks
<1> QED BY <1>1, <1>4, <1>5, <1>10, <1>11, Stutters DEF AtomicInv

LEMMA CommitFailsMarks ==
  ASSUME WriteInv, AtomicInv, CommitFails
  PROVE  AtomicInv' /\ Steps
<1>1. /\ phase = "commit" /\ phase' = "restore" /\ phase \in Working /\ phase' \in Working
      /\ job' = [job EXCEPT !.why = "commit"]
      /\ UNCHANGED <<tree, head, news, ask, reply>>
  BY DEF CommitFails, remote, calls, Working
<1>2. /\ job'.call = job.call /\ job'.was = job.was /\ job'.written = job.written
      /\ job'.refs = job.refs
  BY <1>1 DEF WriteInv, TypeOK, Job
<1> QED BY <1>1, <1>2, RollBackDone, NoFileTouched

\* What a call has on its lists is what it answers for, if it is not a delete.
LEMMA ListsAreChanged ==
  ASSUME WriteInv, phase \in Working
  PROVE  ToRestore \subseteq Changed /\ ToDiscard \subseteq Changed
<1>1. job.written \subseteq Room
  BY DEF WriteInv, ListInv
<1>2. job.written \subseteq Changed
  BY <1>1 DEF Room, Changed
<1> QED BY <1>2 DEF ToRestore, ToDiscard, Changed

\* Restore: where it succeeds, it leaves what the commit has.
LEMMA RestoreMarks ==
  ASSUME WriteInv, AtomicInv, Restore
  PROVE  AtomicInv' /\ Steps
<1>1. PICK bad \in SUBSET ToRestore :
        /\ tree' = Put(tree, ToRestore \ bad, head)
        /\ job' = [job EXCEPT !.ok = RestoredAll(bad)]
  BY DEF Restore
<1>2. /\ phase = "restore" /\ phase' = "discard" /\ phase \in Working /\ phase' \in Working
      /\ UNCHANGED <<head, news, ask, reply>>
  BY DEF Restore, remote, calls, Working
<1>3. /\ job'.call = job.call /\ job'.was = job.was /\ job'.written = job.written
      /\ job'.refs = job.refs /\ job'.why = job.why
      /\ job'.ok = (job.ok /\ bad \cap Promised = {})
  BY <1>1 DEF WriteInv, TypeOK, Job, RestoredAll
<1>4. /\ WishInv' /\ StoreInv' /\ Shown' = Shown /\ Mark' = Mark /\ Sources' = Sources
      /\ Store' = Store /\ Store = head /\ (Removing <=> Removing') /\ Asked' = Asked
  BY <1>2, <1>3, WorkMarks
<1>5. \A p \in Paths : tree'[p] = IF p \in ToRestore \ bad THEN head[p] ELSE tree[p]
  BY <1>1 DEF Put
<1>6. Touching' = Touching /\ ToDiscard' = ToDiscard
  BY <1>3, <1>4 DEF Touching, ToDiscard
<1>7. \A p \in Paths : Marks(head[p]) \subseteq Shown
  BY <1>4 DEF AtomicInv, StoreInv
<1>8. \A p \in Paths : /\ Marks(job'.was[p]) \subseteq Shown
                       /\ Marks(tree'[p]) \subseteq Shown \cup Mark
                       /\ p \notin Touching => Marks(tree'[p]) \subseteq Shown
  BY <1>2, <1>3, <1>5, <1>7 DEF AtomicInv, MarksInv
<1>9. job.why = "commit" /\ job'.ok /\ Asked.kind # "delete" =>
        \A p \in Paths \ ToDiscard : Marks(tree'[p]) \subseteq Shown
  <2>1. SUFFICES ASSUME job.why = "commit", job'.ok, Asked.kind # "delete",
                        NEW p \in Paths \ ToDiscard
                 PROVE  Marks(tree'[p]) \subseteq Shown
    OBVIOUS
  <2>2. bad = {}
    BY <1>2, <1>3, <2>1, ListsAreChanged DEF Promised
  <2>3. p \in ToRestore \/ p \notin Touching
    BY <2>1 DEF ToRestore, ToDiscard, Touching
  <2> QED BY <1>5, <1>7, <1>8, <2>2, <2>3
<1>10. DoneInv'
  BY <1>2, RollBackDone
<1>11. AtomicInv'
  BY <1>2, <1>3, <1>4, <1>6, <1>8, <1>9, <1>10, WorkingMarks
<1> QED BY <1>2, <1>4, <1>11, Stutters

\* Discard: a call that says it was undone has left no mark; the others show.
LEMMA DiscardMarks ==
  ASSUME WriteInv, AtomicInv, Discard
  PROVE  AtomicInv' /\ Steps
<1>1. PICK bad \in SUBSET ToDiscard :
        /\ phase = "discard"
        /\ \A p \in Paths :
             tree'[p] = IF p \in ToDiscard /\ (p \notin bad \/ tree'[p] # tree[p])
                        THEN job.was[p] ELSE tree[p]
        /\ Return(IF job.why = "io" THEN "failed"
                  ELSE IF RestoredAll(bad) THEN "undone" ELSE "torn")
        /\ UNCHANGED <<head, news, ask>>
  BY DiscardFacts
<1>2. PICK answer \in {"undone", "torn", "failed"} :
        /\ Return(answer)
        /\ answer = "undone" => job.why # "io" /\ RestoredAll(bad)
  BY <1>1
<1>3. /\ Me \in Calls /\ reply[Me] = "asked" /\ Shown \subseteq Shown'
      /\ reply' = [reply EXCEPT ![Me] = answer]
      /\ (answer \in {"torn", "failed"} \/ (answer = "undone" /\ Asked.kind = "delete"))
           => Me \in Shown'
      /\ phase' = "free" /\ phase' \in Resting
  BY <1>1, <1>2, Answered
<1>4. phase \in Working /\ job.why \in {"io", "commit"}
  BY <1>1 DEF WriteInv, TypeOK, Job, Working
<1>5. Store' = Store
  BY <1>1, <1>3 DEF Store
<1>6. StoreInv' /\ WishInv'
  BY <1>1, <1>3, <1>5, StoreKeeps DEF AtomicInv, WishInv
<1>7. \A p \in Paths : Marks(tree'[p]) \subseteq Shown'
  <2>1. SUFFICES ASSUME NEW p \in Paths PROVE Marks(tree'[p]) \subseteq Shown'
    OBVIOUS
  <2>2. Marks(job.was[p]) \subseteq Shown /\ Marks(tree[p]) \subseteq Shown \cup Mark
    BY <1>4 DEF AtomicInv, MarksInv
  <2>3. CASE Me \in Shown'
    BY <1>1, <1>3, <2>2, <2>3 DEF Mark
  <2>4. CASE Me \notin Shown'
    <3>1. job.why = "commit" /\ job.ok /\ bad \cap Promised = {} /\ Asked.kind # "delete"
      BY <1>2, <1>3, <1>4, <2>4 DEF RestoredAll
    <3>2. bad = {}
      BY <1>4, <3>1, ListsAreChanged DEF Promised
    <3>3. p \notin ToDiscard => Marks(tree[p]) \subseteq Shown
      BY <1>1, <3>1 DEF AtomicInv, MarksInv
    <3> QED BY <1>1, <1>3, <2>2, <3>2, <3>3
  <2> QED BY <2>3, <2>4
<1>8. AtomicInv'
  BY <1>3, <1>6, <1>7, RestMarks
<1>9. Steps
  BY <1>1, <1>3, <1>5, SameStoreUnmarked, Leaves
<1> QED BY <1>8, <1>9

-----------------------------------------------------------------------------
(***************************************************************************)
(* After the commit.                                                       *)
(***************************************************************************)
\* PushPending: the commit stands, with all that was asked for.
LEMMA PushPendingMarks ==
  ASSUME WriteInv, AtomicInv, PushPending
  PROVE  AtomicInv' /\ Steps
<1>1. /\ phase = "publish" /\ Both = {} /\ Return("saved")
      /\ UNCHANGED <<tree, index, head, news, ask>>
  BY DEF PushPending, files
<1>2. /\ Shown \subseteq Shown' /\ Me \in Shown' /\ phase' = "free" /\ phase' \in Resting
      /\ reply' = [reply EXCEPT ![Me] = "saved"]
  BY <1>1, Answered
<1>3. Store' = head
  BY <1>1, <1>2 DEF Store
<1>4. StoreInv'
  <2>1. \A p \in Paths : Marks(head[p]) \subseteq Shown'
    BY <1>1, <1>2 DEF AtomicInv, MarksInv, Mark
  <2>2. \A p \in Fresh : head[p] = job.pre[p]
    BY <1>1 DEF Both, Touched, Fresh
  <2>3. \A p \in Fresh : Marks(news[p]) \subseteq Marks(head[p])
    BY <1>1, <2>2 DEF AtomicInv, StoreInv, Store
  <2>4. Fresh' = Fresh /\ news' = news
    BY <1>1 DEF Fresh
  <2> QED BY <1>3, <2>1, <2>3, <2>4 DEF StoreInv, Marks, Fresh
<1>5. AtomicInv'
  <2>1. WishInv'
    BY <1>1 DEF AtomicInv, WishInv
  <2>2. \A p \in Paths : Marks(tree'[p]) \subseteq Shown'
    BY <1>1, <1>2, FileMarks DEF Marks, Mark
  <2> QED BY <1>2, <1>4, <2>1, <2>2, RestMarks
<1>6. Steps
  BY <1>1, <1>2, <1>3, CommittedIsDone, Saves
<1> QED BY <1>5, <1>6

\* Conflict: what the commit had put into the files goes with it.
LEMMA ConflictMarks ==
  ASSUME WriteInv, AtomicInv, Conflict
  PROVE  AtomicInv' /\ Steps
<1>1. /\ phase = "publish" /\ phase' = "sync" /\ head' = job.pre
      /\ tree' = [p \in Paths |-> IF index[p] = None /\ job.pre[p] = None THEN tree[p]
                                  ELSE job.pre[p]]
      /\ UNCHANGED <<news, ask, reply>>
  BY DEF Conflict, Checkout, remote, calls
<1>2. Store' = Store /\ Store = job.pre /\ Shown' = Shown
  BY <1>1, ShownSame DEF Store
<1>3. StoreInv' /\ WishInv'
  BY <1>1, <1>2, StoreKeeps DEF AtomicInv, WishInv
<1>4. \A p \in Paths : Marks(tree'[p]) \subseteq Shown
  <2>1. SUFFICES ASSUME NEW p \in Paths PROVE Marks(tree'[p]) \subseteq Shown
    OBVIOUS
  <2>2. Marks(job.pre[p]) \subseteq Shown
    BY <1>2 DEF AtomicInv, StoreInv
  <2>3. /\ p \in Changed => tree[p] = index[p]
        /\ p \notin Changed => Marks(tree[p]) \subseteq Shown
    BY <1>1 DEF AtomicInv, MarksInv
  <2> QED BY <1>1, <2>2, <2>3, MarkFacts
<1>5. AtomicInv'
  BY <1>1, <1>2, <1>3, <1>4, RestMarks DEF Resting
<1> QED BY <1>1, <1>2, <1>5, Stutters

LEMMA WithMarks ==
  ASSUME TypeOK, NEW p \in Paths, NEW c \in Content, news[p] \notin {None, Same}
  PROVE  Marks(With(c, p)) = Marks(c) \cup Marks(news[p])
<1>1. news[p] \in Content
  BY DEF TypeOK
<1>2. With(c, p) \in Content /\ With(c, p).by = c.by \cup news[p].by
  BY <1>1 DEF With, Content
<1> QED BY <1>1, <1>2, MarkFacts

\* What a rebase makes of a commit and of what others pushed keeps the call's marks, and
\* has no others than the two.
LEMMA MergedMarks ==
  ASSUME WriteInv, AtomicInv, phase = "publish", Mergeable, NEW p \in Paths
  PROVE  /\ Marks(Merged[p]) \subseteq Shown \cup Mark
         /\ Me \in Marks(head[p]) => Me \in Marks(Merged[p])
         /\ head[p] = None /\ p \notin Targets => Merged[p] = None \/ job.pre[p] = None
<1>1. /\ \A q \in Paths : Marks(head[q]) \subseteq Shown \cup Mark
      /\ \A q \in Fresh : Marks(news[q]) \subseteq Marks(job.pre[q])
                          /\ Marks(job.pre[q]) \subseteq Shown
  BY DEF AtomicInv, MarksInv, StoreInv, Store, Fresh
<1>2. Me \in Calls /\ Me \notin Shown
  <2>1. Me # None
    BY DEF WriteInv, TypeOK
  <2>2. Me \in Calls /\ reply[Me] = "asked"
    BY <2>1, AskedFacts DEF WriteInv, AskInv
  <2> QED BY <2>2 DEF Shown
<1>3. \A q \in Both : q \in Paths /\ q \in Fresh /\ news[q] \notin {None, Same}
  BY DEF Mergeable, Both, Fresh
<1>4. head[p] # None => head[p] \in Content
  BY DEF WriteInv, TypeOK, Tree
<1>5. CASE p \in Both
  <2>1. Merged[p] = IF head[p] = None THEN None ELSE With(head[p], p)
    BY <1>5 DEF Merged
  <2>2. CASE head[p] = None
    BY <2>1, <2>2, MarkFacts
  <2>3. CASE head[p] # None
    <3>1. Marks(Merged[p]) = Marks(head[p]) \cup Marks(news[p])
      BY <1>3, <1>4, <1>5, <2>1, <2>3, WithMarks DEF WriteInv
    <3> QED BY <1>1, <1>3, <1>5, <2>3, <3>1
  <2> QED BY <2>2, <2>3
<1>6. CASE p \in Fresh \ Both
  <2>1. Merged[p] = news[p] /\ head[p] = job.pre[p]
    BY <1>6 DEF Merged, Both, Touched
  <2> QED BY <1>1, <1>2, <1>6, <2>1
<1>7. CASE p \notin Fresh /\ p \in Targets /\ Origin(p) \in Both
  <2>1. Merged[p] = With(head[p], Origin(p))
    BY <1>7 DEF Merged, Both
  <2>2. Me \in Marks(head[p])
    BY <1>7 DEF AtomicInv, DoneInv
  <2>3. head[p] # None
    BY <2>2, MarkFacts
  <2>4. Marks(Merged[p]) = Marks(head[p]) \cup Marks(news[Origin(p)])
    BY <1>3, <1>4, <1>7, <2>1, <2>3, WithMarks DEF WriteInv
  <2> QED BY <1>1, <1>3, <1>7, <2>3, <2>4
<1>8. CASE p \notin Fresh /\ ~(p \in Targets /\ Origin(p) \in Both)
  <2>1. Merged[p] = head[p]
    BY <1>8 DEF Merged, Both
  <2> QED BY <1>1, <2>1
<1> QED BY <1>5, <1>6, <1>7, <1>8

\* Push: the commit, as the rebase has it, is all that was asked for.
LEMMA PushMarks ==
  ASSUME WriteInv, AtomicInv, Push
  PROVE  AtomicInv' /\ Steps
<1>1. /\ phase = "publish" /\ Mergeable /\ Return("saved")
      /\ head' = Merged /\ news' = NoNews /\ ask' = ask
      /\ tree' = [p \in Paths |-> IF Merged[p] # head[p] THEN Merged[p] ELSE tree[p]]
  BY DEF Push
<1>2. /\ Me \in Calls /\ reply[Me] = "asked" /\ Asked = ask[Me]
      /\ Shown \subseteq Shown' /\ Me \in Shown' /\ phase' = "free" /\ phase' \in Resting
      /\ reply' = [reply EXCEPT ![Me] = "saved"]
  BY <1>1, Answered
<1>3. Store' = Merged /\ Store = job.pre
  BY <1>1, <1>2 DEF Store
<1>4. \A p \in Paths :
        /\ Marks(Merged[p]) \subseteq Shown \cup {Me}
        /\ Me \in Marks(head[p]) => Me \in Marks(Merged[p])
        /\ head[p] = None /\ p \notin Targets => Merged[p] = None \/ job.pre[p] = None
  BY <1>1, MergedMarks DEF Mark
<1>5. StoreInv'
  <2>1. Fresh' = {}
    BY <1>1 DEF Fresh, NoNews
  <2>2. \A p \in Paths : Marks(Merged[p]) \subseteq Shown'
    BY <1>2, <1>4
  <2> QED BY <1>3, <2>1, <2>2 DEF StoreInv, Marks
<1>6. AtomicInv'
  <2>1. WishInv'
    BY <1>1 DEF AtomicInv, WishInv
  <2>2. \A p \in Paths : Marks(tree[p]) \subseteq Shown \cup {Me}
    BY FileMarks DEF Mark
  <2>3. \A p \in Paths : Marks(tree'[p]) \subseteq Shown'
    BY <1>1, <1>2, <1>4, <2>2
  <2> QED BY <1>2, <1>5, <2>1, <2>3, RestMarks
<1>7. DoneHere(Me)
  <2>1. /\ Asked.kind = "batch" => \A p \in Sources \ Asked.idle : Me \in Marks(head[p])
        /\ \A q \in Targets : Me \in Marks(head[q])
        /\ Removing => \A p \in Sources : head[p] = None
    BY <1>1 DEF AtomicInv, DoneInv, BatchDone, GoneFrom
  <2>2. /\ Sources \subseteq Paths /\ Targets \subseteq Paths /\ Targets \cap Sources = {}
        /\ Moving => \A p \in Sources : Dest[p] \in Targets
    BY AskedFacts, TargetFacts DEF WriteInv
  <2>3. \A p \in Sources :
          /\ Asked.kind = "batch" /\ p \notin Asked.idle => Me \in Marks(Merged[p])
          /\ Moving => Me \in Marks(Merged[Dest[p]])
          /\ Removing => Merged[p] = None \/ job.pre[p] = None
    BY <1>4, <2>1, <2>2
  <2> QED BY <1>2, <1>3, <1>4, <2>3 DEF DoneHere, Sources, Moving, Removing, Marks
<1>8. Steps
  BY <1>1, <1>2, <1>7, Saves
<1> QED BY <1>6, <1>8

-----------------------------------------------------------------------------
(***************************************************************************)
(* The theorem.                                                            *)
(***************************************************************************)
LEMMA NextMarks ==
  ASSUME WriteInv, AtomicInv, [Next]_vars
  PROVE  AtomicInv' /\ Steps
<1>1. ASSUME UNCHANGED vars PROVE AtomicInv' /\ Steps
  <2>1. UNCHANGED <<tree, index, head, news, phase, job, ask, reply>>
    BY <1>1 DEF vars, files, remote, calls
  <2>2. Asked' = Asked /\ Store' = Store /\ Shown' = Shown
    BY <2>1, ShownSame DEF Asked, Me, Store
  <2>3. WishInv' /\ StoreInv'
    BY <2>1, <2>2, StoreKeeps DEF AtomicInv, WishInv
  <2> QED BY <2>1, <2>2, <2>3, StillMarks, Stutters
<1>2. ASSUME \/ \E e \in Others, p \in Paths : OtherPush(e, p)
             \/ \E p \in Paths : OtherDelete(p)
      PROVE  AtomicInv' /\ Steps
  BY <1>2, OthersMarks
<1>3. ASSUME NEW w \in Calls, NEW wish \in Wishes, Ask(w, wish) PROVE AtomicInv' /\ Steps
  BY <1>3, AskMarks
<1>4. ASSUME NEW w \in Calls, Lock(w) PROVE AtomicInv' /\ Steps
  BY <1>4, LockMarks
<1>5. ASSUME Locked PROVE AtomicInv' /\ Steps
  <2>1. ASSUME NEW p \in Paths, WriteFile(p) \/ WriteFails(p) \/ RemoveFile(p)
        PROVE  AtomicInv' /\ Steps
    BY <2>1, WriteFileMarks, WriteFailsMarks, RemoveFileMarks
  <2>2. ASSUME NEW q \in Paths, RewriteLink(q) \/ RewriteFails(q)
        PROVE  AtomicInv' /\ Steps
    BY <2>2, RewriteLinkMarks, RewriteFailsMarks
  <2>3. ASSUME Sync \/ Accept \/ AcceptUnchanged \/ Refuse
        PROVE  AtomicInv' /\ Steps
    BY <2>3, SyncMarks, AcceptMarks, NothingDoneMarks
  <2>4. ASSUME RemoveFails \/ FindLinks \/ Commit \/ CommitFails \/ Restore \/ Discard
        PROVE  AtomicInv' /\ Steps
    BY <2>4, RemoveFailsMarks, FindLinksMarks, CommitMarks, CommitFailsMarks, RestoreMarks,
       DiscardMarks
  <2>5. ASSUME Push \/ PushPending \/ Conflict
        PROVE  AtomicInv' /\ Steps
    BY <2>5, PushMarks, PushPendingMarks, ConflictMarks
  <2> QED BY <1>5, <2>1, <2>2, <2>3, <2>4, <2>5 DEF Locked
<1>6. ASSUME Crash PROVE AtomicInv' /\ Steps
  BY <1>6, CrashMarks
<1> QED BY <1>1, <1>2, <1>3, <1>4, <1>5, <1>6 DEF Next

\* src/write.rs implements AtomicWrites: each batch, move and unlinking delete is all done
\* or not done at all in the commits of the clone, whatever fails or is pushed elsewhere.
THEOREM WritesAreAtomic == Spec => AllOrNothing
<1>1. Init => AtomicInv /\ Atomic!Init
  BY InitMarks
<1>2. WriteInv /\ AtomicInv /\ [Next]_vars => AtomicInv' /\ [Atomic!Next]_(Atomic!vars)
  BY NextMarks DEF Steps
<1> QED BY <1>1, <1>2, WriteInvHolds, PTL DEF Spec, AllOrNothing, Atomic!Spec
=============================================================================
