\* Two groups and two edits of a job; two instances that read a selection of
\* three tables; three starts or edits of a job of two groups.
SPECIFICATION MCSpec
CONSTANTS
  GroupIds = {1, 2}
  WrapperIds = {1, 2, 3, 4, 5}
  CopyIds = {1, 2, 3}
  CopyRuns = {1, 2, 3, 4}
  OwnShapes = {1, 2}
  JobNames = {"orders", "sales"}
  MaxClusterEdits = 2
  MaxClusterFaults = 1
  MaxPresses = 2
  SourceTables <- MCSourceTables
  FirstTable <- MCFirstTable
  Selections <- MCSelections
  Readers = {r1, r2}
  MaxIds = 3
  MaxSourceChanges = 1
  MaxLoads = 1
  MaxRemovals = 1
  MaxSourceFaults = 1
  JobGroups = {"a", "b"}
  FirstGroups <- MCFirstGroups
  Spread <- MCSpread
  Cadence = 8
  StartAt = 0
  StartingTime = 2
  Margin = 8
  Day = 24
  Recent = 1
  PageLength = 1
  Moments = {1, 5, 9, 35}
  Lengths = {3}
  MaxEvents = 3
  MaxLate = 8
  NoLaunch = NoLaunch
INVARIANTS OneOfEach PagesAgree RunsAreShown
PROPERTIES ClusterSettles RemovedStays SelectionFollowed
CHECK_DEADLOCK FALSE
