SPECIFICATION Spec
CONSTANTS
  p1 = p1
  p2 = p2
  q1 = q1
  q2 = q2
  Parts = {"gate", "notifications", "standing", "git", "documents", "folder", "turns", "cards", "verification", "dependencies", "memory", "objectives", "services", "ai", "proposals"}
  Approvals = {q1, q2}
  Tasks = {"t1"}
  TaskOf <- TwoOfOneTask
  HashOf <- TwoPayloads
  Sessions = {p1, p2}
  Nobody = nobody
  Keep = keep
  Ops <- MostOps
  MailWorkers = {p1, p2}
  NoMailWorker = nobody
  ClassOf <- OneOfEach
  ListLimit = 1
  QuietTimes = {0}
  MaxTime = 1
  MaxCrashes = 1
  Schedules = {"s"}
  Ticks = {p1, p2}
  Periods = {1, 2}
  Horizon = 3
  MaxFailures = 1
  Operations = {"create_pr", "merge_pr", "rerun_failed_workflow", "revert_commit"}
  MaxAttempts = 2
  MaxChanges = 2
  Contents = {q1, q2}
  IndexWorkers = {"i1"}
  NoContent = nobody
  MaxDocs = 2
  MaxRequests = 3
  MaxFaults = 1
  Turns = {q1, q2}
  Tabs = {p1, p2}
  NoTab = nobody
  PromptTurns = 2
  MaxTurnFaults = 2
  Cards = {q1, q2}
  Decisions = {q1, q2}
  Clicks = {p1, p2}
  NoClick = nobody
  MaxReruns = 1
  MaxCardFaults = 1
  Files = {"f", "g"}
  NoFile = nobody
  Submissions <- SoundAndNot
  Runners = {p1, p2}
  NoRunner = nobody
  PutAttempts = 2
  MaxRunnerFaults = 2
  GraphTasks = {q1, q2, "third", "fourth"}
  DemoTasks = {"fourth"}
  Editors = {p1, p2}
  NodeCap = 3
  WalkLimit = 2
  MaxEdits = 2
  Curators = {p1, p2}
  MaxVersions = 3
  MaxDecisions = 2
  MaxMemoryRequests = 5
  Managers = {p1, p2}
  Measures = {"m", "n"}
  CriteriaCap = 2
  MaxUpdates = 5
  ServiceOps = {"redeploy", "promote", "rollback", "deploy_function", "quote", "invoice", "reply", "send", "delegate"}
  MaxServiceAttempts = 2
  MaxServiceChanges = 2
  Askers = {p1, p2}
  Inputs = {q1, q2}
  NoInput = nobody
  Knowledge = {1, 2}
  PromptCap = 1
  MaxAsks = 4
  MaxTeachings = 2
  Reviewers = {p1, p2}
  MaxDrafts = 4
  MaxWordings = 1
  MaxReviewRequests = 3
  Texts = {q1, q2}
  NoText = nobody
  Admins = {p1, p2}
  MaxFolderRequests = 3
  MaxFileChanges = 1
  MaxFolderFaults = 1
SYMMETRY Alike
INVARIANTS ComponentsTypeOK TaskMatchesApprovals ExecutedOnceOnRecord OutboxIsTrue ActsOnWhatWasReviewed CardIsTrue JobUpdatedOnce VerifiedIsStored EvidenceIsTrue ReplacedIsSilent CompletionIsEarned PointerWasReviewed KeyIsOneRequest ReviewsHold
PROPERTIES DecisionsKeepCancelled OneTaskPerDueTime KeepsExecutorContract ServicesKeepContract ArchiveIsRespected
CHECK_DEADLOCK FALSE
