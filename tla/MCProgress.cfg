\* Two tasks in one queue, their reviewer and an executor that dies up to twice; fair.
SPECIFICATION FairSpec
CONSTANTS
  NoTask = NoTask
  Tasks = {t1, t2}
  Workers = {w1}
  Requests = {}
  MaxJobs = 2
  MaxRuns = 4
  MaxFaults = 2
  Extractions = {}
  Plans = {"pinned"}
  Outcomes = {"answered", "rejected"}
  BodyKinds = {"text"}
  ReviewKinds = {"revise"}
  UserOps = {"run"}
  Env = {"crash"}
PROPERTIES JobsSettle TasksSettle
CHECK_DEADLOCK FALSE
