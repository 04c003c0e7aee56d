SPECIFICATION PlacementSpec
CONSTANTS
  Created = {1, 2}
  Added = {3, 4}
  SizeOf <- MCSizeOf
  GroupCounts = {1, 2, 3}
  PerTransaction = 3
  MaxRegroups = 2
  MaxCreateStops = 0
INVARIANT NewGroupsAreNew
CHECK_DEADLOCK FALSE
