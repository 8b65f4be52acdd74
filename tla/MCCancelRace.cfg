\* A cancellation that read the task before its run started.
SPECIFICATION Spec
CONSTANTS
  NoTask = NoTask
  Tasks = {t1}
  Workers = {w1}
  Requests = {w2}
  MaxJobs = 1
  MaxRuns = 2
  MaxFaults = 1
  Extractions = {}
  Plans = {"none"}
  Outcomes = {"answered"}
  BodyKinds = {"text"}
  ReviewKinds = {}
  UserOps = {"run", "cancel"}
  Env = {}
INVARIANTS CancelledTaskIsIdle
CHECK_DEADLOCK FALSE
