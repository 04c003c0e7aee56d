SPECIFICATION LaunchSpec
CONSTANTS
  sweep = sweep
  first = first
  second = second
  byGroup1 = byGroup1
  byGroup2 = byGroup2
  byChanges1 = byChanges1
  byChanges2 = byChanges2
  d1 = d1
  None = None
  Runs <- MCRuns
  Databases = {d1}
  List <- MCList
  Checks <- MCChecks
  ByChanges <- MCByChanges
  MaxFaults = 1
  MaxVersion = 1
SYMMETRY Symmetry
VIEW View
INVARIANTS ExclusiveDatabases OneRunGoing NoChangeSkipped
PROPERTIES ClosedOnlyWhenDead
CHECK_DEADLOCK FALSE
