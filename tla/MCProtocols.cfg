SPECIFICATION Spec
CONSTANTS
  p1 = p1
  p2 = p2
  q1 = q1
  q2 = q2
  Parts = {"documents", "turns", "dependencies"}
  Approvals = {"a1"}
  Tasks = {"t1"}
  TaskOf <- TwoOfOneTask
  HashOf <- TwoPayloads
  Sessions = {p1, p2}
  Nobody = nobody
  Keep = keep
  Ops <- MostOps
  MailWorkers = {p1, p2}
  NoMailWorker = nobody
  ClassOf <- OneOfEach
  ListLimit = 1
  QuietTimes = {0}
  MaxTime = 1
  MaxCrashes = 1
  Schedules = {"s"}
  Ticks = {p1, p2}
  Periods = {1, 2}
  Horizon = 3
  MaxFailures = 1
  Operations = {"create_pr"}
  MaxAttempts = 2
  MaxChanges = 2
  Contents = {q1, q2}
  IndexWorkers = {"i1"}
  NoContent = nobody
  MaxDocs = 2
  MaxRequests = 6
  MaxFaults = 1
  Turns = {q1, q2, "t3"}
  Tabs = {p1, p2}
  NoTab = nobody
  PromptTurns = 2
  MaxTurnFaults = 1
  Cards = {"c1"}
  Decisions = {"d1"}
  Clicks = {p1, p2}
  NoClick = nobody
  MaxReruns = 1
  MaxCardFaults = 1
  Files = {"f", "g"}
  NoFile = nobody
  Submissions <- SoundAndNot
  Runners = {p1, p2}
  NoRunner = nobody
  PutAttempts = 2
  MaxRunnerFaults = 2
  GraphTasks = {q1, q2, "third", "fourth"}
  DemoTasks = {}
  Editors = {p1, p2}
  NodeCap = 3
  WalkLimit = 2
  MaxEdits = 4
  Curators = {p1, p2}
  MaxVersions = 3
  MaxDecisions = 2
  MaxMemoryRequests = 5
  Managers = {p1, p2}
  Measures = {"m", "n"}
  CriteriaCap = 2
  MaxUpdates = 5
  ServiceOps = {"quote"}
  MaxServiceAttempts = 2
  MaxServiceChanges = 2
  Askers = {p1, p2}
  Inputs = {"i"}
  NoInput = nobody
  Knowledge = {1, 2}
  PromptCap = 1
  MaxAsks = 4
  MaxTeachings = 2
  Reviewers = {p1, p2}
  MaxDrafts = 4
  MaxWordings = 1
  MaxReviewRequests = 3
  Texts = {"x"}
  NoText = nobody
  Admins = {p1, p2}
  MaxFolderRequests = 3
  MaxFileChanges = 1
  MaxFolderFaults = 1
SYMMETRY Alike
INVARIANTS ServesItsContent ObjectsMatchRows AnswersInOrder RunsAlone GraphIsTrue
CHECK_DEADLOCK FALSE
