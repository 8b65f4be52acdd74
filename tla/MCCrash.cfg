\* Two executors, one job, up to two crashes at any point of any step.
SPECIFICATION Spec
CONSTANTS
  NoTask = NoTask
  Tasks = {t1}
  Workers = {w1}
  Requests = {w2}
  MaxJobs = 1
  MaxRuns = 2
  MaxFaults = 2
  Extractions = {101}
  Plans = {"none", "pinned"}
  Outcomes <- EveryOutcome
  BodyKinds <- EveryBody
  ReviewKinds = {"revise"}
  UserOps = {"run", "cancel", "mark"}
  Env = {"crash"}
INVARIANTS TypeOK PaidAtMostOnce CompletedIsPaid RunRowCoherent OneRunningRun
PROPERTIES TerminalIsFinal
CHECK_DEADLOCK FALSE
