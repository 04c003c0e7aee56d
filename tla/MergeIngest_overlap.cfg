\* Two runs that overlap after a lost lock, one key.
SPECIFICATION Spec
CONSTANTS
  Keys = {k1}
  Runs = {r1, r2}
  None = None
  MaxImage = 2
  MaxVersion = 2
  MaxFaults = 1
SYMMETRY Symmetry
INVARIANT NoSilentGap
PROPERTY ImplementsReplica
CHECK_DEADLOCK FALSE
