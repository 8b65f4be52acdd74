# King AI Ops Hub: TLA+ models and proofs

This directory is the formal model of the parts of the hub whose correctness depends on what runs
concurrently and on what survives a crash. TLC model-checks small instances; TLAPS proves theorems
for every value of the constants. `PROJECT.json` names, for every definition that models code, the
source lines it stands for, and lists the hazards of the code with the properties that watch them.

Paths below are relative to `src/src/` unless they begin with `scripts/`.

## 1. Inventory

The hub is one PostgreSQL database, a web application that writes to it, and a worker process
(`scripts/worker.ts`). They share no memory. Every interaction goes through rows, SQL functions and
transactions under READ COMMITTED, so the hard behaviours are about two transactions that read and
then write, about a process that dies between two transactions, and about an external call made
between two transactions.

### 1.1 The durable run system (modelled)

| Part | State | Operations | Talks to |
|---|---|---|---|
| Run queue: `domain/jobs/jobs.ts`, `db/rls.sql` 315-461 | `run_jobs`: task, status, attempts (the ownership token), `leased_until` | enqueue, claim (any job, the job of a task), read token, renew, finish, requeue, list stale | every executor, the reconciler, users |
| Run executor: `domain/tasks/runner.ts` | `runs` (status, reliability state, pinned employees, checkpointed result), `run_steps`, `run_execution_checkpoints`, usage events, `tasks.status` | preflight, resume, dispatch guard, persist, extraction, three finalizers | the queue (lease), the engine (hooks), the providers |
| Engine: `orchestration/engine.ts` | none that survives | primary, review, at most one revision, consolidate; retry inside a call; replay | the executor's hooks |
| Task lifecycle: `domain/tasks/tasks.ts`, `domain/approvals/approvals.ts` 28-67 | `tasks.status`, `cancel_reason` | cancel, request cancellation, supersede, settle after the last approval | races with runs |
| Worker loop: `scripts/worker.ts` | none | claim and run; reconcile | the queue |

What makes it hard: a provider call costs money, cannot be undone, and may have happened although
the caller saw an error. The lease, the token, the dispatch intent, the unique `(run, step)` row and
the checkpoints are separate mechanisms in separate transactions that together must give "claimed by
exactly one worker, and never bills a provider sequence twice" (`domain/jobs/jobs.ts` 23-24). What
makes it correct:

* one executor at a time on a task, and its claim is the last one of the job (`ExclusiveExecutor`);
* a reply is billed exactly when it is checkpointed, once (`BillingExact`), never replaced
  (`ReplyIsFinal`), and no step is called twice (`PaidAtMostOnce`, `IntentBeforeCall`);
* a run that is completed has paid for its calls (`CompletedIsPaid`); a run that ended stays as it
  ended (`TerminalIsFinal`); the two states of a run agree (`RunRowCoherent`);
* a task has one running run (`OneRunningRun`);
* a job ends, and a task does not stay "running" (`JobsSettle`, `TasksSettle`).

### 1.2 The other components with a protocol

| Component | State | Hard behaviour | What makes it correct |
|---|---|---|---|
| Approvals (`domain/approvals`), approved-action execution (`domain/execution/dispatch.ts`, `execute-on-approval.ts`), the audit lock (`domain/audit`): **`ApprovalGate`** | `approvals`, `tasks.status`, audit rows `execution.intent` and `execution.result` | requests read a status and update by id; row locks and the organisation's audit lock are taken in different orders; the side effect happens inside a transaction that may be lost | `TaskMatchesApprovals`, `DecisionsKeepCancelled`, `ExecutedOnceOnRecord`, `RequestsEnd` |
| Executors: **`ExecutorContract`**, **`GitPrExecutor`** (`domain/execution/git-pr-executor.ts`) | a repository that others change, a network that loses answers | check, then mutate, then look again; an unknown outcome | `KeepsExecutorContract` (a refinement), `ActsOnWhatWasReviewed` |
| The other executors (`domain/vercel`, `domain/supabase`, `domain/execution/accuratebids-quote-executor.ts`, `org-delegation-executor.ts`): **`ServiceExecutors`** | services that belong to others | the same, and a call that names no expected state | `ServicesKeepContract` (a refinement), `PointerWasReviewed` |
| Standing work (`domain/standing`): **`StandingWork`** | `task_schedules`: next run, occurrence identity | ticks overlap, are late, or race an edit of the schedule | `OneTaskPerDueTime`, `DueIsDispatched` |
| Notifications (`domain/notifications`): **`Notifications`** | events, messages, links, the digest clock | claim, send and record are three phases; quiet hours; two workers | `OutboxIsTrue`, `EventsSettle` |
| Documents (`domain/documents`): **`DocumentStore`** | document row, versions, index jobs, purge operations, objects | bytes and rows live in two stores; a job queue with a lease and no token; deletions checked before they happen | `ServesItsContent`, `ObjectsMatchRows`, `IndexJobsSettle` |
| Files of a linked folder (`domain/documents/documents.ts`, `versions.ts`, `backfill.ts`, `retention.ts`): **`FolderDocuments`** | the file, its row and legacy chunks, immutable versions with their objects, references of runs and knowledge | a refresh, an archive, a restore, the backfill of versions and a purge each read first and write by id later, and objects are put and deleted outside of the transactions | `EvidenceIsTrue`, `ArchiveIsRespected` |
| Ops chat turns (`app/api/ops-chat/route.ts`, `turn-claim.ts`): **`OpsTurns`** | owner messages, replies, two advisory locks | retries and tabs; a claim ends with its database session; a prompt holds the last messages only | `AnswersInOrder`, `RunsAlone` |
| Ops chat cards (`confirm/route.ts`, `update-card.ts`): **`OpsCards`** | proposals and what they were prepared from | two tabs, a crash while an action runs, decisions made after the card | `CardIsTrue`, `JobUpdatedOnce` |
| Verification evidence (`domain/verification`): **`VerificationUpload`** | grants, the object, evidence rows | a conditional PUT with an unknown outcome; repeated submissions | `VerifiedIsStored` |
| Dependencies (`domain/dependencies`): **`Dependencies`** | edges between tasks | an edge is added after a walk of several reads; the prompt sees a bounded neighbourhood | `GraphIsTrue` |
| Company memory (`domain/knowledge`, `domain/decisions`): **`CompanyMemory`** | versions of knowledge items, decisions and what they replace | admins check a status and update by id; a replacement touches two rows | `ReplacedIsSilent` |
| Proposals of knowledge (`domain/knowledge/extraction.ts`): **`KnowledgeProposals`** | drafts in quarantine and the proposals about them | several admins decide one proposal, another page activates its draft | `ReviewsHold` |
| AI operations (`domain/ai/operations.ts`, `domain/objectives/suggest.ts`): **`AiOperations`** | one row per idempotency key, the knowledge it was given | a provider call between two transactions; retries, tabs, a crash in between | `KeyIsOneRequest` |
| Objectives (`domain/objectives`): **`Objectives`** | status and the list of success criteria | the status is written after a read of the criteria, the list is written whole after a read of it | `CompletionIsEarned` |

These components call one another in one place only: they create tasks and queue jobs (modelled once,
as the inputs of `DurableRun`), and a run that finalizes proposes approvals (`Propose` in
`ApprovalGate`). The remaining components (read models, CRUD over single rows, adapters of external
services) are listed in `PROJECT.json` with the reason each is left out, and in section 6.

## 2. The modules

* **`RunQueue`** - the table `run_jobs` and the SECURITY DEFINER functions that change it. Each is
  one SQL statement, hence one atomic operator. There is no clock: a lease is `live` until
  `ExpireLease` says that `leased_until` has passed. Two facts of the SQL matter later: ownership
  (`OwnsLease`) compares status and `attempts` but not the lease, and finish and requeue update by
  id alone.
* **`DurableRun`** - executors, reconciler, users and faults over `RunQueue`.
* **`DurableRunProps`** - the properties.
* **`MCDurableRun`** - the sets the configurations give to the constants.
* **`DurableRunProofs`**, **`RunProofs`** - the theorems about `DurableRun`: types, ownership and
  replies under every fault in the first, what a run promises while its executor is alone with it in the
  second. **`ExecutorProofs`** - about `GitPrExecutor`, `ServiceExecutors` and `ApprovalGate`.
  **`OpsProofs`** - about `OpsCards` and `OpsTurns`. **`RecordsProofs`** - about `KnowledgeProposals`,
  `Objectives`, `AiOperations` and `Dependencies`. **`WorkProofs`** - about `StandingWork`,
  `VerificationUpload`, `CompanyMemory` and `Notifications`. **`DocumentProofs`** - about
  `DocumentStore` and `FolderDocuments`. **`ComponentProofs`** - about all components together, as
  `MCComponents` composes them.
* **`ApprovalGate`** with **`ApprovalGateProps`**, **`Notifications`**, **`StandingWork`**,
  **`ExecutorContract`**, **`GitPrExecutor`**, **`DocumentStore`**, **`OpsTurns`**, **`OpsCards`**,
  **`VerificationUpload`**, **`Dependencies`**, **`CompanyMemory`**, **`Objectives`**,
  **`ServiceExecutors`**, **`AiOperations`**, **`KnowledgeProposals`**, **`FolderDocuments`** - one
  component each, with its properties at its end.
* **`MCComponents`** - small instances of all of these. A variable `part` chooses the component that
  moves in a behaviour: they share no state, so their states add up instead of multiplying.
  **`MCComponentsLive`** does the same for the four whose liveness is checked.

### 2.1 How DurableRun corresponds to the code

An executor is a loop of the worker (`Workers`, which take any job) or a web request that runs a
task inline (`Requests`, which take the job of one task). Its label `pc[w]` is a point between two
transactions or between a transaction and a provider call; `held`, `token` and `ctx` are what it
remembers there and loses in a crash.

| Label | Code | Actions |
|---|---|---|
| idle, token, read, finish | `claimNextJob`, `claimJobForTask`, `jobAttempt`, `runClaimedJob`, `finishJob` | `ClaimNext`, `ClaimForTask`, `ReadToken`, `ReadTask`, `FinishJob` |
| preflight, preflightCommit | `startRun` | `PreflightCheck`, `PreflightCommit` |
| resume | `resumeRun` | `Resume` |
| load | the engine's next step and its resume hook | `LoadStep`, `Consolidate`, `LoadExtraction` |
| lease, extLease, finLease, failLease | `ownsLease()` | `CheckLease` |
| guard, guardCommit | `guardProviderDispatch` | `GuardCheck`, `GuardCommit` |
| call | `callWithRetry`, `getProvider().execute` | `CallProvider` |
| persist | `persistStep`, the checkpoint transaction of `ensureExtractionCheckpoint` | `PersistStep`, `PersistExtraction` |
| decide, extReject, apply | the extraction part of `executeAndFinalize` | `DecideExtraction`, `RejectExtraction`, `ApplyExtraction` |
| finalize, finalizeCommit, complete | `finalizeCompleted`, phases 1 and 2 | `FinalizeCheck`, `FinalizeCommit`, `CompleteRun` |
| close, closeCommit | `finalizeFailed`, `finalizeReconciliation`, `finalizeCancelledOutcome` | `CloseCheck`, `CloseCommit` |

The reconciler (`reconcileStaleJobs`) keeps in `stale` what is left to do for each job it listed:
`ListStale`, `InspectStale`, `RequeueStale`, `RecoverInterrupted`, `FinishRecovered`. A user request
that reads and then writes keeps what it read in `asked`: `RerunRead`/`RerunLookup`/`RerunCommit`,
`CancelRead`/`CancelCommit`, `MarkRead`/`MarkCommit`, `SettleRead`/`SettleCommit`; `RunTask` is one
guarded insert.

Modelling decisions a reader of both should know:

* **Atomicity.** The tenant transactions run under READ COMMITTED and take no row lock. A
  transaction whose write is guarded by a predicate or a unique index is one step. One that reads,
  decides and then updates by id is two steps (`...Check`, `...Commit`), so that any other
  transaction may commit in between. Reads next to each other that nothing separates are merged.
* **Replies.** What a reply says is abstracted to what decides control: text, a proposal of actions,
  a verdict, an empty or cut-off review. A reply also carries the number of the call that produced
  it, so two calls of a step never look alike. The engine's result is a deterministic function of
  the replies it used, and is represented by them. Whether a review is required changes only the
  banner of the result (an unreviewed draft), never which steps run, and is not modelled.
* **Replay.** The hook replays a checkpoint, or a conclusive failure of a review or revision, without
  a call. The engine then records the step again, which the unique row makes a no-op; the two are one
  step. Stop reasons are not checkpointed, so a cut-off review is read back as a malformed one
  (`Replayed`).
* **Retries.** The retries of `callWithRetry`, and the second request for an empty review, are part
  of one call: a retry follows a rejection that is known not to have executed.
* **Errors.** An unexpected error inside the `try` of `runClaimedJob` is `Throw`; one that escapes it
  leaves nothing written and is indistinguishable from `Crash`. Errors while proposals are applied
  are swallowed (`SwallowApply`).
* **Faults** are named in `Env`: `crash`, `stall` (the lease of a live executor runs out),
  `stale_list` (a job is claimed between a reconciler's list and its handling), `throw`, `refuse`
  (preflight refuses: rate limit, budget, assignment), `unassign` (a pinned employee is gone).
* **Left out because the schema excludes it:** a job without a task or creator (both columns are
  NOT NULL with restricting or cascading references), and runs without a reliability state, which
  this code never writes. One reconciliation pass runs at a time; its jobs are handled in any order.

### 2.2 How the other modules correspond to the code

* **`ApprovalGate`.** A session is a request in one READ COMMITTED transaction. `dirty[s]` holds the
  rows it has written and not committed, `Sees` is what it reads, `RowHolders` and `LockHolders` are the
  locks a statement waits for, `Commit` and `Rollback` end it, `BreakDeadlock` is PostgreSQL's detector.
  Labels are points between statements: `update` and `audit` in `decideApproval`,
  `withdrawAuthorizedAction` and the expiry; `matching` in the updates of all approvals of a task or a
  page; `settle...` in `reconcileTaskAuthorization`; `propose...` and `park` in `finalizeCompleted`;
  `stranded` in the repair of stranded tasks; `authorize`, `claim`, `execute` in
  `executeApprovedIfEligible` and `executeApprovedAction`. `effects` and `torn` are ghosts: what
  happened outside, and for which approval that happened in a transaction that was lost. An executor
  that throws is recorded as failed, as the `catch` of the dispatch does.
* **`GitPrExecutor`.** One step per call to GitHub; `Mutate` gives a call its three outcomes (applied,
  rejected, applied or not with the answer lost) and `error-classify.ts` decides which the executor
  takes it for. Others push, merge and delete in between (`OthersChange`). `Contract` instantiates
  `ExecutorContract` with `report`, `retry` and `touched` mapped to what the attempt returned and the
  mutations that count as a change; a branch without commits does not.
* **`ServiceExecutors`.** One attempt at a time, one step per call. `Call` gives a call that changes
  something its outcomes: answered, refused before anything happened, or of unknown outcome, with the
  effect or without it. `OthersMove` is what the owners of the services do meanwhile. Of Vercel a
  deployment is one of three (the reviewed current one, the target, another) with the commit that was
  reviewed; of AccurateBids an inquiry or quote is open or settled; a delegation is one savepoint. The
  services are modelled from how the executors use them: a 4xx, and an AccurateBids answer of 2xx
  without success, did nothing. `ServiceContract` instantiates `ExecutorContract`.
* **`AiOperations`.** The calls that carry one idempotency key. `BeginOrReuse` is the first read,
  `BeginAiOperation` (with its second read) and `RetryOperation` what follows it up to the commit,
  `CallProvider` the call, `CompleteAiOperation` and `FailAiOperation` the last transaction.
  `relevant` is what a selection would return now, `injections` what was recorded for the operation.
* **`KnowledgeProposals`.** A draft and its proposal are one record. `ReadProposal` and `ReadItem` are
  the operations up to their checks, the others the updates by id with the commit; `Promote` re-reads
  the draft, locked by its own update, when it also activates. `approved` is the wording that was
  activated. Sources, scope and embedding are left out, except that derived disclosure is inherited.
* **`StandingWork`.** `ListDue` is the cross-tenant listing of a tick, `Dispatch` and `Pause` the
  transaction on one schedule, which locks its row first and is therefore one step. `updateSchedule`
  computes the next due time before its row lock: `UpdateSchedule`, `UpdateScheduleRow`. `hour` is the
  clock, a cadence is a period; the calendar arithmetic of `cadence.ts` is abstracted to "the next
  multiple after".
* **`Notifications`.** `Tick` lists, `Claim` inserts the message with its links, `Send` calls the
  provider outside of any transaction, `Record` writes the outcome, `Abandon` is the loop's `catch`.
  `Advance` moves the digest clock by compare-and-set and `Gather` collects what is due. Events of
  the classes critical, deferrable and digest stand for the categories of `severity.ts`.
* **`DocumentStore`.** One cloud document through several incarnations. An upload puts the object, then
  commits; an index worker claims, reads the row, locks it, extracts and commits
  (`indexCloudDocument` with `ingestDocumentVersion` inside, `Ingest`). A restore is one transaction with
  two waits for the object store in it: `ReadArchived` reads the row without a lock, `FetchArchived` gets
  its bytes, `LookForVersion` and `StoreVersion` are the read and the object of `ingestDocumentVersion`,
  and `CommitRestore` writes by id, whatever the row has become; one restore at a time, as one upload at a
  time, which is enough for a stale one to meet an upload, an indexer or a purge. The purge moves through
  propose, authorize (quarantine), database phase, object phase, completion; orphan cleanup through
  propose, authorize, delete. The check of references and the deletion of an object are separate
  steps. Left out: the gap between the listing and the requeueing of stale document jobs, the
  separate `replaceDocument` (an upload that an archived document refuses), a first upload that is
  unsupported, retention and quiet periods (allowed at any time).
* **`FolderDocuments`.** One file and its document. A text stands for bytes, hash and chunks together.
  An admin's transaction is in `admin[p]`: `RefreshReads`, `ArchiveReads` and `RestoreReads` are its
  reads, `Stores` the object that `ingestDocumentVersion` ensures, with the row locked from there to
  `Commits`. `copies` are the versions by order of insertion, with what became of a purged one; `chunks`
  of the row are the legacy ones, those of a version its own. `filling` is the backfill, one transaction:
  `BackfillLists`, `BackfillExamines` (versions, chunks and file of that moment, for the row as it was
  listed) and `BackfillCommits`, which may find the row changed or the version gone. A run names what it
  was given by hash (`quoted`) or by version (`relied`), and the backfill binds hashes to versions.
  `PurgeVersion` is the first phase of a purge; of the second, `CheckObject` is the look for another
  version that has the object and `DeleteObject` the delete with its record, and `deleting` holds the
  versions between the two. `Puts` is the object an ingestion ensures. Left out: other files of the
  folder, parse failures, disclosure, ranking, the audit of integrity, and archives of cloud documents,
  which `DocumentStore` has.
* **`OpsTurns`.** A request appends its message, claims the turn, replays a reply if there is one,
  claims the conversation, passes the order gate and the rate limit, reads its prompt, calls the
  provider, stores the reply and releases. `PromptTurns` is the number of owner messages a prompt is
  built from, the one to be answered included (`opschat/limits.ts` 43: eight), and `InWindow` says which
  they are. `place` is the `seq` a message takes when inserted, `sent` the committed ones. A claim lives
  in a database session of its own and may be lost while its holder goes on (`ClaimLost`).
* **`OpsCards`.** `transitionProposal` is a compare-and-set; confirming runs the action between
  pending -> confirming and the final state. An update card carries the run and the decisions it was
  prepared from; `LockJob` is the advisory lock of the job and `CheckUpdate` the re-validation. The
  check for a pending card of the same job at proposal time is left out, which allows more.
* **`VerificationUpload`.** `RedeemUploadGrant`, `BeginPut`, `PutIfAbsent`, `HeadAfterPut` and
  `ReconcileExisting` are the redemption with its bounded retries; `PutLands` is a PUT that times out
  and takes effect later. Ingestion looks for the record under the key, for the uploaded grant,
  adjudicates, and inserts with ON CONFLICT DO NOTHING before it reads the winner.
* **`Dependencies`.** `Reaches` is one level of the walk, one read of what is committed then;
  `InsertDependency` inserts and commits, when nothing is left to look at or after `WalkLimit` levels (a
  thousand, `dependencies.ts` 148), since `reaches` answers both with false. `raced` and `cutoff` are
  ghosts: the edges whose walk was overtaken, and those whose walk gave up. `BuildTaskGraph` gives the
  set of neighbourhoods the code may return, since which tasks are admitted at the cap depends on row
  order.
* **`CompanyMemory`.** A row of `knowledge` is one version; `supersedes` is its predecessor's place.
  `ReadKnowledge` and `ReadDecision` are the operations up to their checks, `ActivateKnowledge`,
  `ArchiveKnowledge`, `ReviseKnowledge`, `RejectDecision` and `RetireDecision` the updates by id with
  the commit. `acceptDecision` updates its row, then reads the decision it replaces and updates that
  too: `Accept`, `CommitAcceptance`, with the row locked in between (`Locked`). What guides a prompt
  beyond its status (scope, disclosure, validity, verification, relevance) is left out.
* **`Objectives`.** One objective. Each operation is `Prepare` (read, check, compute) and
  `CommitUpdate`. A criterion is its status and measure; `judgedAs` is a ghost, the measure the verdict
  was given under. Milestones, owner, reasons and details are left out.

## 3. The runs

Bounds: `MaxJobs` and `MaxRuns` bound the rows ever inserted, `MaxFaults` the crashes, stalls and throws
together. In `users`, `faults` and the fair run `MaxRuns >= MaxJobs + MaxFaults`: a job starts at most
one run per claim, and is claimed again only after a fault, so the bound never blocks a preflight and
liveness is not decided by it; `crash` stops at two runs. `CHECK_DEADLOCK FALSE` is set because the
bounded system ends: when the job rows are used up and every task is settled nothing is left to do.

| Run | What it lets happen | Shows |
|---|---|---|
| `crash` | two executors, one job, two crashes at any point; review, revision, extraction, approvals, ambiguous calls, cancellation | `TypeOK`, `PaidAtMostOnce`, `CompletedIsPaid`, `RunRowCoherent`, `OneRunningRun`, `TerminalIsFinal`; 1.3 million states |
| `users` | every user request racing two executors, two jobs, one crash, refusals, lost employees | `ExclusiveExecutor`, `IntentBeforeCall` |
| `faults` | every fault, so that two executors work on one run | `BillingExact`, `ReplyIsFinal`: the unique rows hold even then; 1.7 million states |
| `progress` | two tasks in one queue, each with review and revision, calls refused by the provider, an executor that dies up to twice and comes back, fair | `JobsSettle`, `TasksSettle` |
| `dropped_bill`, `cancel_race`, `rerun_drained`, `stale_list` | one disagreement each | section 5 |
| `components` | fifteen components, each with its concurrent actors and its faults | the types and, but for the two rows below, the properties of section 1.2, two refinements among them; 0.77 million states |
| `protocols` | larger instances of three of them: a cloud document, with uploads, restores, index jobs, purges and cleanups around every call to the store; three messages and a prompt that holds two; walks of the dependencies that give up after two levels | `ServesItsContent`, `ObjectsMatchRows`, `AnswersInOrder`, `RunsAlone`, `GraphIsTrue`; 0.95 million states |
| `components_live` | the gate, notifications, standing work and documents under fairness | `RequestsEnd`, `EventsSettle`, `DueIsDispatched`, `IndexJobsSettle` |
| `rollback` | a document uploaded as A, B and A again | section 5 |

Two executors are enough for every race between owner and successor (a third would repeat one of
them), two jobs for a re-run beside an old job, two crashes for a crash in the resume that follows a
crash, one extraction step for the protocol both share. Every property has a mutant in
`PROJECT.json` (a "Seeded bug" definition beside the original) that violates it under the same
configuration.

`PaidAtMostOnce` and `CompletedIsPaid` have two exceptions, both in the code: `SlotLost`, the row of
a step was taken by a failure or a consolidation, so a later reply cannot be stored; and
`MayBeSkipped`, a run that proposes actions decides again on resume whether to extract. `TasksSettle`
excepts a lost primary slot: each resume then gets another text and cannot finalize over the
checkpointed result. `dropped_bill` shows what the first exception costs.

`OneRunningRun` is checked, and proved, without re-runs (section 5). `progress` has one executor, which
crashes and restarts, the harder case, since nobody else takes its job over; it takes two tasks to show
that neither waits for ever, and two crashes for a crash in the resume. `TasksSettle` is checked without
`throw` (the job fails, the run and task stay "running" until the manual repair script
`domain/tasks/stranded-runs.ts`) and without cut-off reviews (the replay gives another result, so
finalization conflicts); both make it false.

The gate, the cards and the folder begin in several ways, so that what a long prelude would have to set
up is there at once. The instances of `components`: two approvals of one task and two sessions that
decide, cancel or open the page; one notification event of each class, two workers, a listing limit of
one, one crash; one schedule with periods of one and two hours and two ticks over three hours, one
failure; four git operations, two attempts and two changes by others; one document in two incarnations,
two contents, three requests and faults together, at most one of them a fault (four under fairness); two
turns sent from two tabs, two faults; two cards, two decisions, two clicks, one re-run; two files, two
runners, two PUT attempts, two faults; four tasks, one of them demonstration work, a cap of three, two
editors and two edits; two admins, three versions of knowledge, two decisions, five requests; two
managers of one objective, two measures, a cap of two criteria, five updates; all nine service
operations, two attempts and two changes by others; two calls at a time under one key, two inputs, two
items of knowledge with a prompt that holds one, four calls; two reviewers, four drafts, one rewording,
three requests; one file with two texts, two admins, three refreshes, archives, restores and backfills
together, one change of the file and one fault, beginning as a new file or as a document indexed or
vanished before there were versions. Two actors are again enough for every read-then-write race. The cap
of three makes neighbourhoods of three tasks complete and those of four truncated. In `protocols` the
document has six requests and faults, since a purge takes three and an upload or a restore that it meets
is to come before, between and after them; the conversation has a third message and one fault, so that
the window of two leaves the first message out; and there are four live tasks and four edits, the least
with which a walk of two levels gives up with its target ahead, so that the edge it lets in closes a
cycle of four that no other addition overtook. None of the four is demonstration work, which only
forbids edges. `withdraw` and `repair` of the gate appear in `components_live`, which has one approval.
In it the bounds of the clock and of the requests stop the environment, not the fair steps.

The exceptions written into these properties are the code's: a side effect whose transaction was lost
(`torn`), an edit of a schedule that overtook a run (`putBack`), an upload that met an indexer between
its read and its lock, or a restore between its read and its writes (`overtaken`), bytes stored again
after the last check of a deletion (`restored`), a claim whose database session was lost, a dependency
walk that another addition overtook (`raced`) or that gave up at its bound (`cutoff`), a version
activated over a commit that its activation had not read (`revived`), a decision accepted after or while
its successor was (`acceptedLast`), a change of an objective's status and one of its criteria that
overlapped (`crossed`), production that moved between the last look and the call (`moved`), a call of an
AI operation whose row changed after its first read (`outrun`), an activation or rewording of a draft
that had ceased to be one (`unseen`), a version filled from a row that had changed since it was listed
(`torn`), a restore that left the hash of the row behind (`apart`), an object that a transaction had
found, or found after the last look, when it was deleted (`overrun`). Section 5 says what each costs.

**Fairness.** Of `DurableRun`: weak fairness on `ClaimNext` and `Work` of each executor: the worker's
loop never stops claiming (`scripts/worker.ts` 92-142), and every statement and provider call has a
timeout, so a step that is possible is taken or fails. Weak fairness on `ExpireOrphan`: a lease has a
deadline. On `Handle`: a pass that has listed jobs goes through them. Nothing is assumed of users, of
inline requests that have not begun, or of when the reconciler starts a pass (the claim takes expired
jobs by itself).

Of the components: `GateFairness` is strong fairness of each session's next statement, because
PostgreSQL queues the waiters of a lock in order and a statement that is enabled again and again gets
its turn, and weak fairness of deadlock detection. Notifications, standing work and documents assume
weak fairness of the worker's loop: it ticks and goes through what it listed. A lease runs out, time
passes for an event that was captured, and locking a document row is strongly fair for the same reason
as above. Nothing is assumed of users,
crashes or failures.

## 4. What is proved

The theorems hold for every value of the constants that the named assumptions of the modules admit: any
number of tasks, executors, cards, tabs or admins, all bounds, fault sets and reply kinds. The
assumptions say which sets the constants are drawn from and that a bound is a number; three say more,
that what a table holds is finite: the knowledge an AI operation may be given (`AiAssumption`), the
events of the outbox (`NotificationsAssumption`) and the tasks of a graph (`DependenciesAssumption`).
The eight messages of a prompt and the thousand levels of a walk are constants too (`PromptTurns`,
`WalkLimit`), and may be any number above zero. Each theorem rests on an inductive invariant, which TLC
checked on a small instance before it was proved.

### 4.1 Durable runs

* **`TypeCorrect`** (`DurableRunProofs`): `Spec => []TypeOK`. `TypeOK` is not inductive: an executor
  indexes `jobs` by the job it holds and `runs` and the step tables by its memory. `TypeInv` adds that
  every row of the queue belongs to a task (`JobsOwned`), that an executor at work holds an existing
  job and that at each label its run, step and outcome are in range (`Placed`, `GoodPlace`), and that
  listed jobs exist (`Listed`). Each action has a lemma; those over the executor go through `Goto` and
  `Release`.
* **`Exclusive`** (`DurableRunProofs`): `Timely => (Spec => []ExclusiveExecutor)`, where `Timely` says
  that neither `stall` nor `stale_list` is in `Env`. So what the code leaves to timing is exactly that
  a lease outlives its holder's steps and that a reconciler's list is handled before its jobs are
  claimed; crashes, errors and all user requests are covered. `OwnInv` strengthens it: an executor's
  job is running under its token with a live lease (`Owned`), two executors do not share a job
  (`Distinct`), the unique index (`OneLive`), and a listed job is still stale (`ListedFree`), which is
  why requeueing pulls no job from under its holder.
* **`BilledExactly`** (`DurableRunProofs`): `Spec => []BillingExact`, under every fault. The bill of an
  engine step is guarded by the `(run, step)` row, not by the checkpoint, so `BillInv` adds that a
  checkpoint comes with its row (`RowKept`) and that a reply on its way to the database is one of the
  calls made (`InHand`).
* **`RepliesAreFinal`** (`DurableRunProofs`): `Spec => ReplyIsFinal`, under every fault. That a result is
  never taken back needs that nobody finalizes with nothing in hand: `ReplyInv` says what an executor
  has got at each label (`Knows`: beyond the primary it has an answer), that a stored primary speaks
  (`FirstSpeaks`), and that whoever works on a run works on a row that exists.
* **`RunRowsCohere`**, **`EndedRunsAreFinal`**, **`IntentIsRecorded`** (`RunProofs`), under `Timely`. The
  finalizers read and then update by id without a lock. What makes their early returns safe is
  `RunInv`: an executor's run is of the task of its job, running and not terminal (`OpenRun`), and its
  row says "dispatching" between the intent and the checkpoint (`Intent`). With `Exclusive` nobody else writes
  that row. Both invariants are needed together: the reconciler fails a task only if nobody holds it.
* **`OneRunAtATime`** (`RunProofs`): `[]OneRunningRun` under `Timely` and without `rerun`. No constraint
  keeps a task from having two running runs; its status does. `OneInv` says that while a run is going
  on its task says so to everybody who could preflight. With `rerun` the theorem is false, and section
  5 tells the counterexample.
* **`NoStepPaidTwice`**, **`CompletedRunIsPaid`** (`RunProofs`), under `Timely`: `[]PaidAtMostOnce` and
  `[]CompletedIsPaid`. `Unpaid(r)` are the steps of a run that were called and not
  checkpointed, the two exceptions of the properties apart. `PayInv` says that no step was called twice
  (`OnceIn`), that an executor about to call or to finalize has nothing unpaid behind it and any other
  has the unpaid step in hand or ahead of it (`Ahead`), and what the row of the run tells of it
  (`Books`): only an uncertain run may owe, so the dispatch guard of a resume stops before it calls.
  It was found by checking candidates with TLC; what a resume still knows, and the extractions it may or
  may not come to, each cost a clause.

### 4.2 The other components

* **`GitPrKeepsContract`**, **`ServicesKeepTheContract`** (`ExecutorProofs`): the two refinements of
  `ExecutorContract`, step by step. The report is true only because of where an attempt is: `GitInv` and
  `ServiceInv` say which calls may have taken effect before each await (`EffectsAt`,
  `EffectBefore`), so that a report of "no effect" is made only where there is none. They are
  theorems of their own (`GitInvariant`, `ServiceInvariant`).
* **`GitPrActsOnReviewed`**, **`PointerMovedFromReviewed`** (`ExecutorProofs`): what is merged, reverted or
  taken out of production is what was reviewed. They rest on what others cannot undo (`Lasting`): a merged
  pull request keeps its head and the base only moves on.
* **`ApprovalsExecuteOnce`** (`ExecutorProofs`): `GateSpec => []ExecutedOnceOnRecord`. `ExecutionInv`: who
  has an entry of an execution in its transaction holds the organisation's audit lock and has an
  intent that is not in the log yet (`IntentFirst`). So whoever executes is alone, and an earlier
  effect of the approval would be on record or torn.
* **`TasksMatchApprovals`**, **`CancelledStaysCancelled`** (`ExecutorProofs`): `[]TaskMatchesApprovals` and
  `DecisionsKeepCancelled`. The row locks turn out not to be needed; the audit lock is. `GateInv` says
  what each transaction has written (`WroteApprovals`, `WroteTasks`), that from its first audit event on
  it holds the lock with it (`RowsLocked`), so that no commit falls between its reads and its own, and
  that whoever settled an approval still has to look at the task, or sees it free or waiting for
  another one (`Frees`). The exception of the sweeps is where the lock is missing (`ReadsUnderLock`).
  The proof found that a task without any proposal would falsify both: `GateAssumption` now says
  that the tasks are those that proposals belong to.
* **`OneTaskForAllMissed`** (`WorkProofs`): `StandingSpec => OneTaskPerDueTime`. `StandingInv`: the clock of a
  schedule is past its last run unless an edit put it back (`ClockIsAhead`). A tick that lists a
  schedule twice is stopped by the re-check under the row's lock.
* **`VerifiedStaysStored`** (`WorkProofs`): `[]VerifiedIsStored`. `EvidenceInv`: an object is what was declared
  (`ObjectDeclared`), one request at a time inserts (`InsertsAlone`), and what a request found out at
  each of its steps is still true when it answers (`RunnersKnow`).
* **`ReplacedStaysSilent`** (`WorkProofs`): `[]ReplacedIsSilent`, for chains of any length. `MemoryInv`: a
  version that was activated has silenced the one it was made from (`Silenced`), a version others
  were made from is no draft (`MadeIsNoDraft`), and likewise for decisions (`SupersededOnce`). Since
  `Ancestors` is the smallest set that is closed under "made from", no induction is needed: the
  silenced versions are such a set.
* **`OutboxStaysTrue`** (`WorkProofs`): `[]OutboxIsTrue`. `OutboxInv`: an event is linked to one message
  (`LinkedOnce`), and whoever claimed a message is the only one to send it and knows what became of it
  (`SenderKnows`). The unique key of a message is what makes the claim exclusive; two digests do not
  meet because listing and insert are one step of `Gather`, whose transaction holds the preferences.
* **`CyclesAlwaysHaveACause`** (`RecordsProofs`): the first half of `GraphIsTrue`: without the edges whose walk
  was overtaken or gave up there is no cycle, and no walk gives up in a workspace with fewer than
  `WalkLimit + 2` tasks. `GraphInv`: what a walk is
  done with leads nowhere outside, as long as nobody added an edge since it began (`WalkIsSound`), a walk
  has met more tasks than it has gone levels, and not the one it looks for (`WalkIsCounted`), and no task
  is reached from itself (`NoWayBack`). `Closure` is the intersection of the closed sets, so a
  path is shown not to exist by one closed set, and a new edge is safe by the union or the
  intersection of two (`SafeEdge`); no induction over paths is needed.
* **`GraphStaysTrue`** (`RecordsProofs`): `[]GraphIsTrue`, for graphs of any size and for every cap and
  bound of the walk. Beyond the causes of cycles, it says that a prompt is told the blockers of its task
  and what it unlocks as they are (`NeighboursAreTold`), that a ring it is told of is a cycle of the
  graph and a cycle of up to four tasks through the task is in what it is told (`CyclesAreTold`), and
  how long its chain of blockers is (`ChainsAreTold`), a truncated neighbourhood apart. `WidenedShape`
  says what one level of `buildTaskGraph` adds, `NeighbourhoodIsKnown` that two levels know every edge
  at the task and at those next to it. No induction over paths is used: that a ring, where each task
  waits for another of them, has a cycle in it is shown on the smallest one (`RingIsCycle`). That
  `hasCycle` reports exactly the rings, for any set of tasks, rests on the function it computes being
  written down: what is left after peeling is the union of the rings (`PeelExists`), and whatever else
  satisfies its equation is empty where that is, since a smallest set on which they differ could be
  peeled further (`PeelFindsRings`). Likewise for chains, which exist where there is no ring
  (`ChainExists`). The theorem covers what the run does not reach: under its cap of three a cycle of
  four tasks is truncated.
* **`ContentIsServed`** (`DocumentProofs`): `[]ServesItsContent`. `IndexInv`: a worker that has locked the row
  holds it alone, and what it read is still the hash of the row unless an upload overtook it
  (`IndexesAlone`); a quarantined row is as it was when its purge began, and what a cancellation would
  put back is not the quarantine itself (`QuarantineHolds`).
* **`ObjectsAlwaysMatch`** (`DocumentProofs`): `[]ObjectsMatchRows`. `StoreInv` adds that an incarnation whose
  rows were purged never returns and that a reconciler works only on such a one (`PurgedIsGone`), that
  bytes a row or an upload under way names are there, and no deletion of them is decided that looked
  after they were stored (`BytesAreSafe`), that the versions of a document have their bytes
  (`VersionsAreStored`), what is cited is among them (`CitedStands`), and that what a reconciler has
  passed without a miss is out of the store (`PurgedIsDeleted`). The keys of the versions have the
  incarnation in them, which keeps a purge away from a document created again; those of the uploads
  do not, which is why `restored` is an exception. `RestoreInv`: what a restore in flight has read is still
  the hash of the row unless an upload overtook it, and the object it put is there when it commits, if the
  document is.
* **`EvidenceStaysTrue`**, **`ArchiveAlwaysRespected`** (`DocumentProofs`): `[]EvidenceIsTrue` and
  `ArchiveIsRespected`, for any number of admins, texts and versions. `FolderInv`: what the row says of
  its legacy chunks (`RowTells`); that a version called byte_exact has its bytes, has chunks of its own
  text, and shares that text only with its placeholder (`VersionsTrue`); that what is quoted stands
  (`ReliedStands`); and what a session and the backfill know of the store and of the row they read, when
  they write (`SessionsKnow`, `FillingKnows`). With the look and the delete of a purge apart, the
  theorem needs more (`FolderSafe`): whoever relies on an object that is about to be deleted is one that
  `overrun` names (`DeletesUnrelied`). That a backfill that has not examined the file has no version in
  hand never shows in a run, but without it the invariant is not inductive.
* **`JobIsUpdatedOnce`**, **`CardsAreTrue`** (`OpsProofs`): the compare-and-set of a proposal is what makes an
  action happen once, the advisory lock of the job what makes an update unique; the invariant says who
  is between the two and that the lock has one holder.
* **`TurnsAnswerInOrder`**, **`TurnsRunAlone`** (`OpsProofs`): the order does not rest on the claims, which
  may be lost, but on the order gate and the unique reply; a prompt has the answers within its window,
  whatever the length of it; that requests run alone rests on the claims,
  and holds while their sessions live.
* **`ReviewsAlwaysHold`**, **`CompletionAlwaysEarned`**, **`OneKeyOneRequest`** (`RecordsProofs`): several
  people or calls each read a record and write it by id later. Each invariant says what the reader
  still knows of the record when it writes (`HasRead` and its likes), and the exceptions of the
  properties are exactly the writes for which it knows nothing.

* **`ProposalsStayTyped`**, **`ObjectivesStayTyped`**, **`AiStaysTyped`** (`RecordsProofs`),
  **`CardsStayTyped`**, **`TurnsStayTyped`** (`OpsProofs`), **`MemoryStaysTyped`** (`WorkProofs`),
  **`DocumentsStayTyped`**, **`FolderStaysTyped`** (`DocumentProofs`): the type invariants of the
  components that the theorems above do not state as a part of their own. They are more than bookkeeping
  where a record is written from an earlier read: the criteria of an objective never exceed their cap,
  although the list is written whole by managers who read it at different times (`WithinCap`), and no
  row of a folder document, nor one that a session or the backfill still has in hand, points past the
  versions there are. The first attempt at `ProposalsStayTyped` failed on a bound of one draft: a run
  may propose two at once, so `ProposalAssumption` now asks for two.
* **`ComponentsStayTyped`** (`ComponentProofs`): `[]ComponentsTypeOK` of `MCComponents`. A step of the
  composition is a step of the component that moves and of no other (`PartMoves`), so the inductive
  invariants of the fifteen components, each under the condition that it is the one that moves, are one
  of the whole.

### 4.3 What stays model-checked

Liveness (`JobsSettle`, `TasksSettle`, `RequestsEnd`, `EventsSettle`, `DueIsDispatched`,
`IndexJobsSettle`): fairness and `ENABLED` are out of the prover's reach.

## 5. Where code and comments disagree

* **`dropped_bill`** - `persistStep` returns on a conflict of the `(run, step)` row before it bills. A
  primary that was rejected leaves such a row; after a crash before `finalizeFailed` the resume calls
  again, and the answer is used but neither checkpointed nor billed. `runner.ts` 872 promises a bill
  for every provider call.
* **`cancel_race`** - `cancelTask` and the preflight each read the task and then update by id; a
  preflight that commits between the two statements leaves a cancelled task with a running run, which
  `tasks.ts` 384-387 says cannot be.
* **`rerun_drained`** - `requestRerun` reads the task, looks for a job, then queues one; the task may
  meanwhile have been cancelled or be awaiting approval, and the job is drained, which `jobs.ts` 192
  says never happens.
* **`stale_list`** - `requeue_run_job` compares neither lease nor token: a job reclaimed after the
  reconciler listed it is requeued under its live executor, and both call the provider for one step.
  `jobs.ts` 23 and `tables.ts` 1621 promise one worker and one bill.

* **`rollback`** - `ingestDocumentVersion` reuses the version of bytes it has seen before and returns
  without making it current. After A, B, A the legacy chunks are A's and `current_version_id` is B's,
  so versioned retrieval answers from the replaced content; `cloud.ts` 413 promises to "repoint
  current".

Met while modelling, and kept out of the runs by the exceptions named in section 3 or by a property
that is defined and not checked:

* Runs: `requestRerun` finds an ended task and no live job; meanwhile the task is queued, claimed and
  preflighted, and the re-run then writes "pending" over it. If the executor dies, its successor reads
  "pending", does not resume but preflights, and the task has two running runs (`OneRunningRun` fails
  with `rerun`). An error in the boot reconciliation escapes `loop()` and ends the worker
  (`scripts/worker.ts` 93): the model lets a pass end early, not the process.
* Approvals: the manual and the stranded reconciliation take no audit lock, so they can bring a task
  back that was cancelled meanwhile (`CancelledIsFinal` fails with `repair`); an action can be
  withdrawn while its dispatch executes (`ExecutedIsNotWithdrawn`); a crash after the side effect
  rolls the intent back, and the approval can be executed again (`torn`).
* Git: `createBranch` that timed out and took effect is reported as failed with "No side effect
  occurred" (`git-pr-executor.ts` 331); the merge names the head that was reviewed but not the base.
* Standing work: an edit that computed the next due time before a run and writes it after puts the
  clock back to an occurrence that exists, and the schedule stays suppressed until it is edited.
* Notifications: a crash between claim and record leaves a message at "sending" for ever; the listing
  takes the oldest first up to a limit, so events held back by quiet hours can starve later ones
  (the run therefore has no quiet hours). `severity.ts` 10 says that action_required "bypasses quiet
  hours", `router.ts` 81 holds it back.
* Documents: the index job reads the row without a lock (`cloud.ts` 340) and locks it with its first
  update (367). An upload that commits in between repoints the row, and its job is dropped because one
  is running; that job then stores the chunks of the old bytes and sets the row active. No job is left,
  and a later one would skip the document as indexed (359), although `cloud.ts` 124-126 says that "Old
  chunks stay until the job atomically replaces them" (`UploadIsIndexed` fails). A restore that an
  upload overtakes (`documents.ts` 814-872) ends in the same way. An index job or an upload also makes a
  quarantined document active (`QuarantineExcludes` fails; `purge.ts` promises a window in which it is
  "retrieval-excluded"); cancelling a purge puts back the status of its proposal; a purge or cleanup
  deletes an object that was uploaded again after its last check; an upload during a running job queues
  nothing and leaves the document "queued", which a retry refuses; after a lost upload the next one of
  the same bytes is "unchanged"; a restore that loses to a purge leaves its object behind ("completed"
  or not); an archived document with a queued job comes back; a version inserted between the purge's
  assessment and its delete gets no tombstone.
* Files of a folder: a restore of changed bytes leaves `documents.sha256` as it was, so until the next
  refresh a run records the new chunks under the old hash, although `documents.ts` 334 speaks of the exact
  version a chunk came from. A refresh that read the row before an archive makes the document active
  again; an archive whose delete of chunks ran before a refresh committed leaves the chunks. A backfill
  overtaken by a refresh copies chunks of another text or points back to the older version, and one
  overtaken by an archive may mark the document `source_unavailable`. Its version of an archived document
  has no chunks, and a restore reuses it without adding them and without making it current. Phase two of
  a purge may delete the object that an uncommitted ingestion has just found, or that one finds and commits
  between its look for another version and its delete (`retention.ts` 154, 159); `setCurrentVersion` reads
  the version and then sets a pointer without a foreign key, so a purge in between leaves it dangling. The
  "backstop" of `retention.ts` 41-43 looks for version ids in snapshots, and those of legacy runs
  have none.
* Ops chat: messages with a lower `seq` that commit late are answered late; an interrupted turn without text
  blocks the later ones until it is sent again; a card whose request dies after pending -> confirming
  stays there; a decision that began before and committed after the card's confirmation counts as
  covered although it is not in the instructions (`tools.ts` 1609).
* Verification: the freshness check precedes the idempotency lookup, so the identical retry of an
  accepted submission is refused as expired after ten minutes.
* Dependencies: two additions that overlap close a cycle between them ("refuses an edge that would
  create a cycle"); so does one whose walk gave up after a thousand levels, which `reaches` answers as
  "not reachable" (`dependencies.ts` 148); a cycle of five or more tasks, or one beyond the node cap,
  can touch the neighbourhood unreported, and with more than fifteen tasks a truncated prerequisite
  makes a task appear unlocked.
* Company memory: an active version that is revised twice into drafts, both activated later, leaves
  two active versions of one item, although `knowledge.ts` 39-42 says that two versions never inject
  together (`ReplacedIsSilent` speaks of a version and those it was made from). Two decisions filed to
  replace the same one may both be accepted; accepting the successor before its prior leaves both
  accepted; rejecting an accepted successor leaves its prior superseded; accept and reject race by id
  and reopen a closed decision.
* Vercel: promote and rollback name the target and not the deployment they were reviewed to replace, so
  one that somebody else made current after the last look is replaced unseen.
* AI operations: a call that read no row and finds one at its second read takes it for its own whatever
  was asked, and calls the provider; two retries of a failed operation both call it ("do not dispatch a
  second provider request", `operations.ts` 88). An operation whose process dies, or for which no
  employee is found, stays "dispatched", and its key answers with an empty list for ever. A first
  prompt holds the first five of at most twelve selected items, a retry five of those on record in the
  order of equal timestamps, though `knowledge.ts` 830-832 says that a retry never gets another set.
* Proposals of knowledge: two splits of one proposal both pass and leave two sets of children; a
  rewording that read the draft before its activation changes what is active; an error while candidates
  are applied is caught, so the earlier ones stay, and the last item without its proposal, under a run
  marked failed; a human confirmation survives a rewording; `reviseKnowledge` inserts the new version
  with the default disclosure, so the revision of a restricted item is visible to the workspace.
* Objectives: a criterion reopened or added between the gate of a completion and its update leaves a
  completed objective with an unmet criterion; two edits of criteria overwrite each other's list;
  criteria are addressed by index, so a stale page may mark another criterion.

## 6. Not modelled, and why

* **User interface and routes** (`app/`, apart from the routes named above): pages, forms and their
  formatting; each action calls one domain operation in one transaction.
* **The tools of Ops chat** (`domain/opschat/tools.ts`), briefing, dashboard, health, insights, inbox,
  portfolio, reporting: read models. They change nothing and are stale by design.
* **Agents, prompts, organizations, projects**: edits of single rows behind a role check. Of
  objectives, decisions and knowledge the parts named in section 2.2; applying the candidates of a run
  once is `ext` in `DurableRun`.
* **Questions to the owner** (`domain/questions`): dismissing is a compare-and-set; an answer reads the
  status, creates active knowledge and updates by id, so two answers may both leave a version, and an
  answer may overwrite a dismissal.
* **Adapters** (`providers/`, `domain/github`, `integrations`, `mcp`, `media`, `trading`): what a call
  may do is in the modules that call it; the clients themselves are I/O.
* **Usage**: recording is in `DurableRun`. The budget gate compares once and reserves nothing, the
  rate limit is one atomic upsert; there is no protocol to check, only the overshoot named in the
  hazards.
* **The hash chain of the audit log**: a fold over rows that only the holder of the lock modelled in
  `ApprovalGate` appends to.
* **The repair script for stranded runs** (`domain/tasks/stranded-runs.ts`) and the other scripts under
  `scripts/`: run by hand, offline; the repair locks each row and checks every condition again.
* **Schema, row-level security policies, configuration, tests**: declarations. The constraints other
  modules rely on (unique indexes, cascades) are part of their actions.

These make up most of the lines of the repository, which is why the map covers a small share of them:
what is modelled is the part in which the order of steps decides the outcome.

## 7. What is left to prove

Every safety invariant and every action property that a run expects to hold is a theorem. Only the
liveness properties (4.3) stay with TLC. What could be proved next needs more of the system to be
modelled first (section 6).
