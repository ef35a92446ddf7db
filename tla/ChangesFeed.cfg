SPECIFICATION Spec
CONSTANTS
  Paths = {1, 2, 3, 4}
  x = x
  y = y
  Contents = {x, y}
  None = none
  Shown = {1, 2, 3}
  Start <- MCStart
  MaxTouched = 2
  MaxLimit = 2
  MaxCommits = 2
  MaxRanges = 2
CHECK_DEADLOCK FALSE
INVARIANTS TypeOK PagesTellAll MirrorCatchesUp
PROPERTIES NothingIsToldTwice
