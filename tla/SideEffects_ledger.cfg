SPECIFICATION Spec
CONSTANTS
  e1 = e1
  e2 = e2
  e3 = e3
  Executions = {e1, e2, e3}
  MaxCalls = 4
INVARIANTS TypeOK OneCaller RepeatsAreReported EffectIsRemembered
SYMMETRY Perms
CHECK_DEADLOCK FALSE
