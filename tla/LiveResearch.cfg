SPECIFICATION Spec
CONSTANTS
  NumOps = 1
  MaxNoteTries = 2
  Procs = {p1, p2}
  Clients = {p1}
  Senders = {p1}
  ErrorAt = {"enter", "claim", "find", "publish", "heartbeat"}
  MaxFaults = 1
INVARIANTS DispatchedOnce CommittedWins AmbiguityReported CallbacksFaithful
PROPERTIES OutcomeIsFinal
