SPECIFICATION MCSpec
CONSTANTS
  Seeders = {r1, r2}
  Rows = {1, 2, 3, 4, 5}
  Parts = 3
  SeedSlots = 2
  MaxAttempts = 2
  MaxSeedFaults = 2
  Nobody = Nobody
  Members = {m1, m2, m3}
  BatchRuns = {r1, r2}
  NoRun = NoRun
  BatchSize = 3
  LastVersion = 2
  MaxBatchFaults = 2
  CursorKeys = {k1, k2}
  LastValue = 4
  Null = Null
  RollupRuns = {p1, p2}
  Works = {w1, w2, w3}
  RunOf <- MCRunOf
  DatabaseOf <- MCDatabaseOf
  Free = Free
  MaxRollupFaults = 1
  MaxRollupEdits = 1
  Tables = {t1, t2, t3}
  SourceOf <- MCSourceOf
  Budget = 3
  Retries = 2
  PerSource = 2
  ControlIds = {1, 2}
  RowSources = {"a", "b"}
  Sinks = {"s", "t"}
  Clients = {"c", "d"}
  NoClient = NoClient
  FirstRows <- MCFirstRows
  EditedRows <- MCEditedRows
  MaxEdits = 2
  StampTables = {x1, x2}
  Sweeps = {check, run}
  Checking = {check}
  Interval = 1
  LastVersionOf = 1
  LastHour = 1
  MaxDisturbances = 1
  NoSweep = NoSweep
  Unset = Unset
  p1 = p1
  p2 = p2
  w1 = w1
  w2 = w2
  w3 = w3
  d1 = d1
  d2 = d2
  t1 = t1
  t2 = t2
  t3 = t3
  s1 = s1
  s2 = s2
INVARIANTS LoadsAreWhole SinkIsALog RollupsFollow RetriesAccounted RowsKept SuccessIsTrue QuietStaysFresh
SYMMETRY Symmetry
CHECK_DEADLOCK FALSE
