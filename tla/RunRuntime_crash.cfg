SPECIFICATION Spec
CONSTANTS
  r1 = r1
  w1 = w1
  w2 = w2
  Runs = {r1}
  Workers = {w1, w2}
  NoWorker = NoWorker
  NoJob = NoJob
  Slots = 1
  Concurrency = 1
  MaxAttempts = 2
  LastNode = 3
  GateNode = 2
  EffectNode = 3
  OptionalNodes = {1}
  Requests = {"pause", "cancel", "retry", "rerun", "skip", "chat"}
  Failures = {"transient", "permanent", "crash", "fault", "shutdown"}
  MaxRequests = 1
  MaxMishaps = 2
SYMMETRY Perms
INVARIANTS OneJobPerRun AdvancesWithLease AttemptsBounded
PROPERTIES DecisionsAreFinal
CHECK_DEADLOCK FALSE
