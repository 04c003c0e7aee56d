CONSTANTS
  j1 = j1  j2 = j2  g1 = g1  g2 = g2  g3 = g3
  a1 = a1  a2 = a2   c1 = c1
  v1 = v1  v2 = v2
  Jobs = {j1, j2}
  Groups = {g1, g2, g3}
  Tables = {a1, a2, c1}
  Users = {v1, v2}
  None = None
  Database <- MCDatabase
  Names <- MCNames
  Source <- MCSource
  Row0 <- MCRow0
  Member0 <- MCMember0
  Loose = {c1}
  Movable = {c1}
SPECIFICATION Spec
INVARIANTS RunSeesItsTables JobsKeepDatabasesWhole
SYMMETRY AnyUser
CHECK_DEADLOCK FALSE
