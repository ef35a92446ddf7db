SPECIFICATION Spec
CONSTANTS
  a = a
  b = b
  newA = newA
  newB = newB
  r = r
  Paths = {a, b, newA, newB, r}
  Dir = {a, b}
  Dest <- MCDest
  First <- MCFirst
  Calls = {w1, w2}
  Others = {o1}
  Partial = partial
  None = None
  Same = Same
  Wishes <- MCWishes
  MaxWaiting = 1
  Busy = {a, newA}
  MaxNews = 1
  MaxAttempts = 2
  Faults = {"write", "remove", "link", "query", "commit", "undo", "fetch", "push", "crash"}
  MaxFaults = 2
CHECK_DEADLOCK FALSE
INVARIANTS TypeOK CleanAtRest NothingOutOfSight EveryChangeIsTold LinksFollow
PROPERTIES HonestRollback AllOrNothing
