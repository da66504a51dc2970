SPECIFICATION Spec
CONSTANTS
  Requests = {r1, r2, r3}
  Keys = {k1, k2}
  Prints = {p1, p2}
  Docs = {d1, d2}
  Runs = {x1, x2}
  Modes = {"gather", "query", "parallel", "attach", "detach", "root"}
  MaxPending = 1
  MaxDocs = 1
  MaxRaises = 1
  Legacy = 1
  Nobody = Nobody
INVARIANTS IndicesUnique OneStepPerKey OwnerReadsCurrent AnsweredComplete
  NothingLeftBehind
SYMMETRY Symmetry
CHECK_DEADLOCK FALSE
