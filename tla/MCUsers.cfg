\* Every user request racing two executors and one crash.
SPECIFICATION Spec
CONSTANTS
  NoTask = NoTask
  Tasks = {t1}
  Workers = {w1}
  Requests = {w2}
  MaxJobs = 2
  MaxRuns = 3
  MaxFaults = 1
  Extractions = {}
  Plans = {"none"}
  Outcomes <- EveryOutcome
  BodyKinds <- EveryBody
  ReviewKinds = {}
  UserOps <- EveryRequest
  Env = {"crash", "refuse", "unassign"}
INVARIANTS ExclusiveExecutor IntentBeforeCall
CHECK_DEADLOCK FALSE
