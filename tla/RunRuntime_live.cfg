SPECIFICATION FairSpec
CONSTANTS
  r1 = r1
  w1 = w1
  w2 = w2
  Runs = {r1}
  Workers = {w1, w2}
  NoWorker = NoWorker
  NoJob = NoJob
  Slots = 1
  Concurrency = 1
  MaxAttempts = 2
  LastNode = 3
  GateNode = 2
  EffectNode = 3
  OptionalNodes = {1}
  Requests = {"pause", "cancel", "retry", "rerun", "skip", "chat"}
  Failures = {"transient", "crash"}
  MaxRequests = 1
  MaxMishaps = 1
PROPERTIES ActiveComesToRest TasksEnd
CHECK_DEADLOCK FALSE
