\* A reconciler that handles a job claimed after it was listed.
SPECIFICATION Spec
CONSTANTS
  NoTask = NoTask
  Tasks = {t1}
  Workers = {w1}
  Requests = {w2}
  MaxJobs = 1
  MaxRuns = 1
  MaxFaults = 1
  Extractions = {}
  Plans = {"none"}
  Outcomes = {"answered"}
  BodyKinds = {"text"}
  ReviewKinds = {}
  UserOps = {"run"}
  Env = {"crash", "stale_list"}
INVARIANTS PaidAtMostOnce
CHECK_DEADLOCK FALSE
