SPECIFICATION Spec
CONSTANTS
  a1 = a1
  r1 = r1
  r2 = r2
  Apps = {a1}
  Runs = {r1, r2}
  Answers = {"gap", "first"}
  Gap = "gap"
  Nothing = Nothing
  Reruns = {}
  Overlapping = TRUE
  MaxSent = 2
INVARIANTS
  SubmittedOnce
CHECK_DEADLOCK FALSE
