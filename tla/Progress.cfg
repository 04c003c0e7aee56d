\* One key and one run of a table; two instances and a run of one table.
SPECIFICATION MCSpec
CONSTANTS
  Keys = {k1}
  Runs = {r1}
  None = None
  MaxImage = 3
  MaxVersion = 3
  MaxFaults = 1
  Instances = {a, b}
  RunTables = {t1}
  Nobody = Nobody
  MaxRunFaults = 1
  MaxTries = 1
PROPERTIES Converges RunsClose EndsShow
CHECK_DEADLOCK FALSE
