\* Two threads and three requests on a job with one group, and two new; three
\* databases created and two to add, one to three groups; two ingestion runs
\* that migrate, two checkers, schema files of three statements.
SPECIFICATION MCSpec
CONSTANTS
  g0 = g0
  g1 = g1
  g2 = g2
  p1 = p1
  p2 = p2
  None = None
  Old <- MCOld
  New <- MCNew
  Procs <- MCProcs
  Jobs = {1, 2, 3, 4, 5}
  Sizes = {"small", "big"}
  MaxRequests = 3
  MaxFaults = 1
  Created = {1, 2, 3}
  Added = {3, 4}
  SizeOf <- MCSizeOf
  GroupCounts = {1, 2, 3}
  PerTransaction = 3
  MaxRegroups = 2
  MaxCreateStops = 1
  Upgraders = {u1, u2}
  CodeOf <- MCCodeOf
  Files <- MCFiles
  FileLength = 3
  Checkers = {k1, k2}
  MaxMigrations = 2
  MaxStops = 1
  NoActor = NoActor
  u1 = u1
  u2 = u2
INVARIANTS WrappersMatch ToldTruly
PROPERTIES PurgeSpares TaskEnds DatabasesSpread SchemaKept
CHECK_DEADLOCK FALSE
