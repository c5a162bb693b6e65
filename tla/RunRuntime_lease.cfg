SPECIFICATION Spec
CONSTANTS
  r1 = r1
  w1 = w1
  w2 = w2
  Runs = {r1}
  Workers = {w1, w2}
  NoWorker = NoWorker
  NoJob = NoJob
  Slots = 2
  Concurrency = 2
  MaxAttempts = 2
  LastNode = 2
  GateNode = 1
  EffectNode = 2
  OptionalNodes = {}
  Requests = {"pause"}
  Failures = {"lease"}
  MaxRequests = 1
  MaxMishaps = 1
PROPERTIES MovesAreDeclared EffectNeedsApproval
SYMMETRY Perms
CHECK_DEADLOCK FALSE
