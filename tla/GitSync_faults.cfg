SPECIFICATION Spec
CONSTANTS
  Docs = {d1, d2}
  Calls = {w1, w2}
  Others = {o1}
  Old = old
  Puller = puller
  None = none
  MaxAttempts = 2
  Faults = {"fetch", "rebase", "reset", "diff", "push", "write", "add", "head", "commit",
            "kill", "restore", "crash"}
  MaxFaults = 1
SYMMETRY Symmetry
INVARIANTS
  TypeOK
  SavedIsKept
  RefusedIsNowhere
  CloneIsClean
  IndexFollowsClone
PROPERTIES
  PushesLoseNothing
