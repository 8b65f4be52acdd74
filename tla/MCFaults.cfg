\* Every fault, mistaken ownership included.
SPECIFICATION Spec
CONSTANTS
  NoTask = NoTask
  Tasks = {t1}
  Workers = {w1}
  Requests = {w2}
  MaxJobs = 1
  MaxRuns = 2
  MaxFaults = 1
  Extractions = {101}
  Plans = {"withheld"}
  Outcomes = {"answered", "rejected"}
  BodyKinds = {"text"}
  ReviewKinds = {"empty"}
  UserOps = {"run"}
  Env <- EveryFault
INVARIANTS BillingExact
PROPERTIES ReplyIsFinal
CHECK_DEADLOCK FALSE
