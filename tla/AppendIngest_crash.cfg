SPECIFICATION Spec
CONSTANTS
  Keys = {k1}
  Runs = {r1, r2, r3}
  None = None
  MaxImage = 2
  MaxVersion = 2
  MaxFaults = 2
CONSTRAINT TwoRunsOverlap
SYMMETRY Symmetry
INVARIANTS NoDuplicates NoSilentGap
CHECK_DEADLOCK FALSE
