SPECIFICATION Spec
CONSTANTS
  r1 = r1
  w1 = w1
  w2 = w2
  Runs = {r1}
  Workers = {w1, w2}
  NoWorker = NoWorker
  NoJob = NoJob
  Slots = 1
  Concurrency = 1
  MaxAttempts = 2
  LastNode = 3
  GateNode = 0
  EffectNode = 3
  OptionalNodes = {1}
  Requests = {}
  Failures = {"lease"}
  MaxRequests = 0
  MaxMishaps = 1
INVARIANTS OneJobPerRun
CHECK_DEADLOCK FALSE
