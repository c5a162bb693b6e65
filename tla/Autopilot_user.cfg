SPECIFICATION AutopilotSpec
CONSTANTS
  a1 = a1
  r1 = r1
  Apps = {a1}
  Runs = {r1}
  Answers = {"gap", "first"}
  Gap = "gap"
  Nothing = Nothing
  Reruns = {}
  Overlapping = FALSE
  MaxSent = 2
  PolicyChoices <- MCPolicies
  DailyCap = 1
  UserRuns = {"apply"}
  Targets = {"preparing", "submitted"}
INVARIANTS
  AutopilotTypeOK
  SubmittedOnce
  SubmittedIsRecorded
PROPERTIES
  StopIsFinal
  StopReachesRuns
  SkippedMeansNotSent
CHECK_DEADLOCK FALSE
