SPECIFICATION Spec
CONSTANTS
  p1 = p1
  p2 = p2
  Parts = {"documents"}
  Approvals = {"a1"}
  Tasks = {"t1"}
  TaskOf <- TwoOfOneTask
  HashOf <- TwoPayloads
  Sessions = {p1, p2}
  Nobody = nobody
  Keep = keep
  Ops <- LockingOps
  MailWorkers = {p1, p2}
  NoMailWorker = nobody
  ClassOf <- TwoAtOnce
  ListLimit = 1
  QuietTimes = {0}
  MaxTime = 1
  MaxCrashes = 1
  Schedules = {"s"}
  Ticks = {p1, p2}
  Periods = {1, 2}
  Horizon = 2
  MaxFailures = 1
  Contents = {"a", "b"}
  IndexWorkers = {"i1"}
  NoContent = nobody
  MaxDocs = 1
  MaxRequests = 3
  MaxFaults = 0
INVARIANTS CurrentIsIndexed
CHECK_DEADLOCK FALSE
