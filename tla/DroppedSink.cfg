\* The sink is dropped once, and no row is edited.
SPECIFICATION ControlSpec
CONSTANTS
  ControlIds = {1, 2}
  RowSources = {"a", "b"}
  Sinks = {"s"}
  Clients = {"c", "d"}
  NoClient = NoClient
  FirstRows <- MCFirstRows
  EditedRows = {}
  MaxEdits = 1
INVARIANT EveryClientReseeds
CHECK_DEADLOCK FALSE
