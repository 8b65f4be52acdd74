\* A rejected primary, a crash, and the reply of the second attempt.
SPECIFICATION Spec
CONSTANTS
  NoTask = NoTask
  Tasks = {t1}
  Workers = {w1}
  Requests = {w2}
  MaxJobs = 1
  MaxRuns = 2
  MaxFaults = 1
  Extractions = {}
  Plans = {"none"}
  Outcomes = {"answered", "rejected"}
  BodyKinds = {"text"}
  ReviewKinds = {}
  UserOps = {"run"}
  Env = {"crash"}
INVARIANTS NoCallUnbilled
CHECK_DEADLOCK FALSE
