SPECIFICATION FairSpec
CONSTANTS
  Reqs = {r1, r2, r3}
  Browsers = {b1, b2}
  Fingerprints = {f1, f2}
  MaxProcesses = 1
INVARIANTS ProcessesBounded LeasesExact NothingLeft
PROPERTIES RequestsServed CloseEnds
CHECK_DEADLOCK FALSE
