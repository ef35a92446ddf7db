SPECIFICATION Spec
CONSTANTS
  Docs = {d1, d2}
  big = big
  small = small
  empty = empty
  Contents = {big, small, empty}
  s1 = s1
  s2 = s2
  s3 = s3
  Schemas = {s1, s2, s3}
  k1 = k1
  k2 = k2
  Chunkings = {k1, k2}
  None = None
  Size <- MCSize
  Chunks <- MCChunks
  Payload <- MCPayload
  Initial <- MCInitial
  Invalid <- MCInvalid
  Start = {big, None}
  Configs <- MCConfigs
  MaxChunks = 2
  FlushBatch = 2
  Slack = 0
  Faults = {"crash", "error", "read", "lint", "stat", "trim", "row", "meta",
            "links", "hashes", "purge", "wipe"}
  MaxChanges = 2
  MaxFaults = 1
SYMMETRY Symm
INVARIANTS TypeOK RowTrust RunBringsUpToDate SweepMissesNothing
PROPERTY RebuildsOnlyDamage
