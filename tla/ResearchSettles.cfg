SPECIFICATION FairSpec
CONSTANTS
  NumOps = 1
  MaxNoteTries = 2
  Procs = {p1}
  Clients = {p1}
  Senders = {p1}
  ErrorAt = {"enter", "claim", "find", "publish", "heartbeat"}
  MaxFaults = 1
PROPERTIES RunsSettle CallbacksSettle
