SPECIFICATION Spec
CONSTANTS
  r1 = r1
  w1 = w1
  w2 = w2
  Runs = {r1}
  Workers = {w1, w2}
  NoWorker = NoWorker
  NoJob = NoJob
  Slots = 1
  Concurrency = 1
  MaxAttempts = 1
  LastNode = 3
  GateNode = 2
  EffectNode = 3
  OptionalNodes = {1}
  Requests = {"pause"}
  Failures = {}
  MaxRequests = 1
  MaxMishaps = 0
PROPERTIES PausedStays
CHECK_DEADLOCK FALSE
