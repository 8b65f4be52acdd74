\* A re-run that read the task before it ended otherwise.
SPECIFICATION Spec
CONSTANTS
  NoTask = NoTask
  Tasks = {t1}
  Workers = {w1}
  Requests = {w2}
  MaxJobs = 2
  MaxRuns = 2
  MaxFaults = 1
  Extractions = {}
  Plans = {"none"}
  Outcomes = {"answered", "rejected"}
  BodyKinds <- EveryBody
  ReviewKinds = {}
  UserOps = {"run", "rerun", "cancel"}
  Env = {}
PROPERTIES RerunIsRunnable
CHECK_DEADLOCK FALSE
