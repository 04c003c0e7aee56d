\* One request of the users and one fault of a preparation with two threads;
\* one drop, stop or fault of the reads of two instances with a worker each.
SPECIFICATION MCSpec
CONSTANTS
  d1 = d1
  d2 = d2
  t1 = t1
  t2 = t2
  None = None
  Databases <- MCDatabases
  Clashing <- MCClashing
  Threads <- MCThreads
  MaxRequests = 1
  MaxFaults = 1
  r1 = r1
  r2 = r2
  c1 = c1
  w1 = w1
  w2 = w2
  a1 = a1
  a2 = a2
  Nothing = Nothing
  Reads <- MCReads
  Checks <- MCChecks
  Workers <- MCWorkers
  Apps = {a1, a2}
  App <- MCApp
  Tries = 2
  Cap = 2
  MaxEvents = 1
INVARIANT ReadsAreKept
PROPERTIES WrittenOnce PreparationEnds ClaimsWithinCap ReadsEnd
CHECK_DEADLOCK FALSE
