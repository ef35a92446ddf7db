SPECIFICATION FairSpec
CONSTANTS
  Docs = {d1}
  SchemaFile = schemaFile
  Producers = {p1}
  MaxRetryAttempts = 1
  MaxDocVersion = 2
  MaxTreeVersion = 2
  MaxConfig = 1
  MaxFaults = 2
INVARIANTS TypeOK EveryStaleDocIsOwed NoLostWakeup
PROPERTIES EventDriven SweepRepairs
CHECK_DEADLOCK FALSE
