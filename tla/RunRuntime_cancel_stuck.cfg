SPECIFICATION FairSpec
CONSTANTS
  r1 = r1
  w1 = w1
  w2 = w2
  Runs = {r1}
  Workers = {w1, w2}
  NoWorker = NoWorker
  NoJob = NoJob
  Slots = 1
  Concurrency = 1
  MaxAttempts = 3
  LastNode = 1
  GateNode = 0
  EffectNode = 1
  OptionalNodes = {1}
  Requests = {"cancel"}
  Failures = {}
  MaxRequests = 0
  MaxMishaps = 0
PROPERTIES CancelIsHonoured
CHECK_DEADLOCK FALSE
