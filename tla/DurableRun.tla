----------------------------- MODULE DurableRun -----------------------------
(***************************************************************************)
(* Durable execution of a task: executors (the worker process and the web  *)
(* requests that run a task inline) claim jobs of RunQueue, start or       *)
(* resume a run, call the providers step by step through the dispatch      *)
(* guard, checkpoint and bill every reply, extract proposals and finalize; *)
(* a reconciler requeues stale jobs; users enqueue, re-run and cancel.     *)
(*   src/src/domain/jobs/jobs.ts, src/src/domain/tasks/{runner,tasks}.ts,  *)
(*   src/src/orchestration/engine.ts                                       *)
(*                                                                         *)
(* Transactions run under READ COMMITTED and take no row lock.  One whose  *)
(* writes are guarded by a predicate or a unique index is one step; one    *)
(* that reads, decides and then updates by id is two (...Check, ...Commit),*)
(* so that another transaction may commit in between.                      *)
(***************************************************************************)
EXTENDS RunQueue, FiniteSets

CONSTANTS
  Workers,     \* executors that take any job: the loop of scripts/worker.ts
  Requests,    \* executors that take the job of one task: runTask, the stream route
  MaxRuns,     \* bound: rows ever inserted in runs
  MaxFaults,   \* bound: crashes, stalls and unexpected errors together
  Extractions, \* the reserved extraction steps in use, a subset of {101, 102}
  Plans,       \* how preflight resolves the reviewer: none, pinned, withheld
  Outcomes,    \* what a provider call may do: answered, rejected, ambiguous
  BodyKinds,   \* what a primary or revision may say: text, proposal (of actions)
  ReviewKinds, \* what a review may say: approve, revise, reject, empty, cutoff
  UserOps,     \* what users may ask for: run, rerun, cancel, mark, settle
  Env          \* what may go wrong: crash, stall, stale_list, throw, refuse, unassign

Executors == Workers \cup Requests

ASSUME RunAssumption ==
  /\ Workers \cap Requests = {}
  /\ MaxRuns \in Nat /\ MaxFaults \in Nat
  /\ Extractions \subseteq {101, 102}
  /\ Plans \subseteq {"none", "pinned", "withheld"}
  /\ Outcomes \subseteq {"answered", "rejected", "ambiguous"}
  /\ BodyKinds \subseteq {"text", "proposal"}
  /\ ReviewKinds \subseteq {"approve", "revise", "reject", "empty", "cutoff"}
  /\ UserOps \subseteq {"run", "rerun", "cancel", "mark", "settle"}
  /\ Env \subseteq {"crash", "stall", "stale_list", "throw", "refuse", "unassign"}

VARIABLES
  tasks,   \* tasks: status, and whether cancel_reason is set
  runs,    \* runs: task, status, reliability state, pinned reviewer, checkpointed result
  row,     \* run_steps: what the row of (run, step) records
  ckpt,    \* run_execution_checkpoints: the reply of (run, step)
  bill,    \* usage events of (run, step)
  ext,     \* candidate_ / knowledge_extraction_status of a run
  calls,   \* ghost: provider calls of (run, step) that may have executed remotely
  pc,      \* per executor: where it is
  held,    \* per executor: the job it claimed, 0 when idle
  token,   \* per executor: the ownership token it read after the claim
  ctx,     \* per executor: the rest of its memory
  stale,   \* the reconciler's pass: what is left to do for each job it listed
  asked,   \* per task: the user transaction in flight
  faults   \* ghost: faults so far

db == <<tasks, runs, row, ckpt, bill, ext, calls>>
own == <<held, token>>
vars == <<jobs, tasks, runs, row, ckpt, bill, ext, calls,
          pc, held, token, ctx, stale, asked, faults>>

-----------------------------------------------------------------------------
RunIds == 1 .. MaxRuns
EngineSteps == 1 .. 4
Steps == EngineSteps \cup Extractions

TaskStatus == {"pending", "running", "awaiting_approval", "completed", "failed", "cancelled"}
Terminal == {"completed", "failed", "cancelled", "reconciliation_required"}
Reliability == {"not_dispatched", "dispatching", "result_checkpointed", "finalizing"} \cup Terminal

\* A reply is identified by the call that produced it; what it says decides
\* the steps that follow.
ReplyKinds == {"none", "text", "reject"} \cup BodyKinds \cup ReviewKinds
Reply == [call : Nat, kind : ReplyKinds]
NoReply == [call |-> 0, kind |-> "none"]

\* The engine's result is a deterministic function of the replies it used,
\* so it is those replies: primary, review, revision.
Result == [1 .. 3 -> Reply]
NoResult == [s \in 1 .. 3 |-> NoReply]

RunRow == [task : Tasks \cup {NoTask},
           status : {"absent", "running", "completed", "failed"},
           rel : Reliability, pinned : BOOLEAN, final : Result]
NoRun == [task |-> NoTask, status |-> "absent", rel |-> "not_dispatched",
          pinned |-> FALSE, final |-> NoResult]

Ctx == [run : {0} \cup RunIds, reviewer : BOOLEAN, step : Nat,
        reply : Reply, got : Result,
        out : Terminal \cup {"none", "drained", "threw"}]
NoCtx == [run |-> 0, reviewer |-> FALSE, step |-> 0,
          reply |-> NoReply, got |-> NoResult, out |-> "none"]

\* Inside the try block of runClaimedJob an unexpected error fails the job.
InTry == {"preflight", "preflightCommit", "resume", "load", "lease", "guard",
          "guardCommit", "persist", "decide", "extLease", "extReject", "apply",
          "finLease", "finalize", "finalizeCommit", "complete",
          "failLease", "close", "closeCommit"}
PC == InTry \cup {"idle", "token", "read", "call", "finish"}

UserTx == [op : {"none", "cancel", "mark", "rerunLive", "rerunCommit", "settle"},
           seen : TaskStatus]
NoTx == [op |-> "none", seen |-> "pending"]

TypeOK ==
  /\ QueueTypeOK
  /\ tasks \in [Tasks -> [status : TaskStatus, reason : BOOLEAN]]
  /\ runs \in [RunIds -> RunRow]
  /\ row \in [RunIds -> [Steps -> {"none", "answered", "failed", "consolidated"}]]
  /\ ckpt \in [RunIds -> [Steps -> Reply]]
  /\ bill \in [RunIds -> [Steps -> Nat]]
  /\ ext \in [RunIds -> [Extractions -> {"none", "applied", "failed"}]]
  /\ calls \in [RunIds -> [Steps -> Nat]]
  /\ pc \in [Executors -> PC]
  /\ held \in [Executors -> {0} \cup JobIds]
  /\ token \in [Executors -> Nat]
  /\ ctx \in [Executors -> Ctx]
  /\ stale \in [JobIds -> {"no", "requeue", "inspect", "recover", "finish"}]
  /\ asked \in [Tasks -> UserTx]
  /\ faults \in Nat

Init ==
  /\ QueueInit
  /\ tasks = [t \in Tasks |-> [status |-> "pending", reason |-> FALSE]]
  /\ runs = [r \in RunIds |-> NoRun]
  /\ row = [r \in RunIds |-> [s \in Steps |-> "none"]]
  /\ ckpt = [r \in RunIds |-> [s \in Steps |-> NoReply]]
  /\ bill = [r \in RunIds |-> [s \in Steps |-> 0]]
  /\ ext = [r \in RunIds |-> [x \in Extractions |-> "none"]]
  /\ calls = [r \in RunIds |-> [s \in Steps |-> 0]]
  /\ pc = [w \in Executors |-> "idle"]
  /\ held = [w \in Executors |-> 0]
  /\ token = [w \in Executors |-> 0]
  /\ ctx = [w \in Executors |-> NoCtx]
  /\ stale = [j \in JobIds |-> "no"]
  /\ asked = [t \in Tasks |-> NoTx]
  /\ faults = 0

-----------------------------------------------------------------------------
(* Helpers. *)

Active(w) == pc[w] # "idle"
TaskOf(w) == jobs[held[w]].task
RunOf(w) == ctx[w].run
Holders(j) == {w \in Executors : Active(w) /\ held[w] = j}

IsTerminal(r) == runs[r].rel \in Terminal
RunningRuns(t) == {r \in RunIds : runs[r].task = t /\ runs[r].status = "running"}

\* nonterminalReliability(): a guarded write leaves a terminal run alone.
Advanced(r, state) ==
  IF IsTerminal(r) THEN runs ELSE [runs EXCEPT ![r].rel = state]

\* The step an executor is about to run; record() numbers the steps, so the
\* consolidation takes the first number no provider step used.
Consolidating(w) ==
  /\ ctx[w].step \in 2 .. 4
  /\ ~ (ctx[w].step = 2 /\ ctx[w].reviewer)
  /\ ~ (ctx[w].step = 3 /\ ctx[w].got[2].kind = "revise")
Reviewing(w) == ctx[w].step = 2 /\ ctx[w].reviewer
Extracting(w) == ctx[w].step \in Extractions

\* A review that is empty or cut off is no review.  responseFromCheckpoint
\* forgets the stop reason, so a cut-off reply read back from its checkpoint
\* parses as a malformed review, whose verdict is reject.
Fresh(reply) == IF reply.kind \in {"empty", "cutoff"} THEN NoReply ELSE reply
Replayed(reply) ==
  IF reply.kind = "cutoff" THEN [reply EXCEPT !.kind = "reject"] ELSE Fresh(reply)

\* What step s of executor w may say.
KindsOf(w) == IF Reviewing(w) THEN ReviewKinds
              ELSE IF Extracting(w) THEN {"text"} ELSE BodyKinds

\* Actions are proposed by the final body only: the revision, if there is one.
Proposing(w) ==
  LET got == ctx[w].got
  IN (IF got[3] # NoReply THEN got[3] ELSE got[1]).kind = "proposal"

\* Executor w goes to label l with memory c.
Goto(w, l, c) ==
  /\ pc' = [pc EXCEPT ![w] = l]
  /\ ctx' = [ctx EXCEPT ![w] = c]
  /\ UNCHANGED own

\* Executor w returns to its loop; nothing it knew survives.
Release(w) ==
  /\ pc' = [pc EXCEPT ![w] = "idle"]
  /\ held' = [held EXCEPT ![w] = 0]
  /\ token' = [token EXCEPT ![w] = 0]
  /\ ctx' = [ctx EXCEPT ![w] = NoCtx]

Close(w, outcome) == Goto(w, "close", [ctx[w] EXCEPT !.out = outcome])
Finish(w, outcome) == Goto(w, "finish", [ctx[w] EXCEPT !.out = outcome])

\* After a step of the engine: its reply (or none) is known, the next begins.
NextStep(w, reply) ==
  Goto(w, "load",
       [ctx[w] EXCEPT !.step = @ + 1, !.reply = NoReply,
                      !.got = IF ctx[w].step \in 1 .. 3
                              THEN [@ EXCEPT ![ctx[w].step] = reply] ELSE @])

\* After step s the next extraction in use, or finalization.
NextExtraction(w, s) ==
  LET later == {x \in Extractions : x > s}
  IN IF later = {}
     THEN Goto(w, "finLease", ctx[w])
     ELSE Goto(w, "load", [ctx[w] EXCEPT !.reply = NoReply,
                                         !.step = CHOOSE x \in later : \A y \in later : x <= y])

-----------------------------------------------------------------------------
(* Claiming a job (jobs.ts). *)

\* A claim may overlap a reconciler's pass over the same job only when the
\* environment allows the list to go stale.
Offered(j) == Claimable(j) /\ (stale[j] = "no" \/ "stale_list" \in Env)

Claim(w, j) ==
  /\ pc[w] = "idle"
  /\ ClaimRunJob(j)
  /\ pc' = [pc EXCEPT ![w] = "token"]
  /\ held' = [held EXCEPT ![w] = j]
  /\ UNCHANGED <<db, token, ctx, stale, asked, faults>>

\* claimNextJob: the oldest claimable job.
ClaimNext(w) ==
  /\ w \in Workers
  /\ \E j \in JobIds : /\ Offered(j)
                       /\ \A i \in 1 .. j - 1 : ~ Offered(i)
                       /\ Claim(w, j)

\* claimJobForTask: the inline path takes the job of its own task.
ClaimForTask(w) ==
  /\ w \in Requests
  /\ \E j \in JobIds : Offered(j) /\ Claim(w, j)

\* jobAttempt: the token is read by a statement of its own, after the claim.
ReadToken(w) ==
  /\ pc[w] = "token"
  /\ token' = [token EXCEPT ![w] = jobs[held[w]].attempts]
  /\ pc' = [pc EXCEPT ![w] = "read"]
  /\ UNCHANGED <<jobs, db, held, ctx, stale, asked, faults>>

\* runClaimedJob reads the task once and routes on what it saw.
ReadTask(w) ==
  /\ pc[w] = "read"
  /\ LET status == tasks[TaskOf(w)].status
     IN CASE status = "running"               -> Goto(w, "resume", ctx[w])
          [] status \in {"pending", "failed"} -> Goto(w, "preflight", ctx[w])
          [] OTHER                            -> Finish(w, "drained")
  /\ UNCHANGED <<jobs, db, stale, asked, faults>>

\* The end of runClaimedJob: finishJob and failJob name the job, not the token.
FinishJob(w) ==
  /\ pc[w] = "finish"
  /\ FinishRunJob(held[w],
       IF ctx[w].out \in {"drained", "completed", "cancelled"} THEN "done" ELSE "failed")
  /\ Release(w)
  /\ UNCHANGED <<db, stale, asked, faults>>

-----------------------------------------------------------------------------
(* Starting and resuming a run (runner.ts). *)

\* The preflight transaction up to its decision.  It refuses a task that is
\* running; rate limits, budget and assignment may refuse any.
PreflightCheck(w) ==
  /\ pc[w] = "preflight"
  /\ \/ tasks[TaskOf(w)].status = "running" /\ Finish(w, "threw")
     \/ "refuse" \in Env /\ Finish(w, "threw")
     \/ tasks[TaskOf(w)].status # "running" /\ Goto(w, "preflightCommit", ctx[w])
  /\ UNCHANGED <<jobs, db, stale, asked, faults>>

\* ... and its writes.  No constraint keeps one running run per task.
PreflightCommit(w) ==
  /\ pc[w] = "preflightCommit"
  /\ \E r \in RunIds, plan \in Plans :
       /\ runs[r].status = "absent"
       /\ \A q \in 1 .. r - 1 : runs[q].status # "absent"
       /\ runs' = [runs EXCEPT ![r] = [NoRun EXCEPT !.task = TaskOf(w), !.status = "running",
                                                    !.pinned = plan # "none"]]
       /\ tasks' = [tasks EXCEPT ![TaskOf(w)].status = "running"]
       /\ Goto(w, "load", [NoCtx EXCEPT !.run = r, !.step = 1, !.reviewer = plan = "pinned"])
  /\ UNCHANGED <<jobs, row, ckpt, bill, ext, calls, stale, asked, faults>>

\* resumeRun: the newest running run, its reviewer re-loaded by the pinned id.
Resume(w) ==
  /\ pc[w] = "resume"
  /\ LET open == RunningRuns(TaskOf(w))
     IN \/ /\ open = {}
           /\ tasks' = [tasks EXCEPT ![TaskOf(w)].status = "failed"]
           /\ Finish(w, "failed")
        \/ \E r \in open :
             /\ \A q \in open : q <= r
             /\ \/ "unassign" \in Env /\ Goto(w, "close", [NoCtx EXCEPT !.run = r, !.out = "failed"])
                \/ Goto(w, "load", [NoCtx EXCEPT !.run = r, !.step = 1, !.reviewer = runs[r].pinned])
             /\ UNCHANGED tasks
  /\ UNCHANGED <<jobs, runs, row, ckpt, bill, ext, calls, stale, asked, faults>>

-----------------------------------------------------------------------------
(* One provider step (engine.ts, with the hooks of executeAndFinalize). *)

\* A checkpoint is replayed without a call; so is a conclusive failure of a
\* review or a revision, but not of the primary.  Replayed steps have their
\* run_steps row already, so recording them again changes nothing.
LoadStep(w) ==
  /\ pc[w] = "load" /\ ~ Consolidating(w) /\ ~ Extracting(w)
  /\ LET r == RunOf(w)
         s == ctx[w].step
     IN IF ckpt[r][s] # NoReply THEN NextStep(w, Replayed(ckpt[r][s]))
        ELSE IF s # 1 /\ row[r][s] = "failed" THEN NextStep(w, NoReply)
        ELSE Goto(w, "lease", ctx[w])
  /\ UNCHANGED <<jobs, db, stale, asked, faults>>

\* ownsLease(): a lost lease makes the executor back off and touch nothing.
LeaseNext == [lease |-> "guard", extLease |-> "persist", finLease |-> "finalize", failLease |-> "close"]

CheckLease(w) ==
  /\ pc[w] \in DOMAIN LeaseNext
  /\ IF OwnsLease(held[w], token[w])
     THEN RenewRunJobLease(held[w]) /\ Goto(w, LeaseNext[pc[w]], ctx[w])
     ELSE Release(w) /\ UNCHANGED jobs
  /\ UNCHANGED <<db, stale, asked, faults>>

\* Seeded bug: an uncertain earlier dispatch is not noticed.
GuardCheckForgetful(w) ==
  /\ pc[w] = "guard"
  /\ \/ tasks[TaskOf(w)].reason /\ Close(w, "cancelled")
     \/ ~ tasks[TaskOf(w)].reason /\ Goto(w, "guardCommit", ctx[w])
  /\ UNCHANGED <<jobs, db, stale, asked, faults>>

\* guardProviderDispatch up to its decision: pinned identity, then an
\* uncertain earlier dispatch, then a requested cancellation.
CancelRequested(t) ==
  tasks[t].status = "cancelled" \/ (tasks[t].status = "running" /\ tasks[t].reason)

GuardCheck(w) ==
  /\ pc[w] = "guard"
  /\ LET uncertain == runs[RunOf(w)].rel = "dispatching"
         cancelled == CancelRequested(TaskOf(w))
     IN \/ "unassign" \in Env /\ Close(w, "failed")
        \/ uncertain /\ Close(w, "reconciliation_required")
        \/ ~ uncertain /\ cancelled /\ Close(w, "cancelled")
        \/ ~ uncertain /\ ~ cancelled /\ Goto(w, "guardCommit", ctx[w])
  /\ UNCHANGED <<jobs, db, stale, asked, faults>>

\* Seeded bug: the intent is recorded for the first dispatch of a run only.
GuardCommitOnce(w) ==
  /\ pc[w] = "guardCommit"
  /\ runs' = IF runs[RunOf(w)].rel = "not_dispatched" THEN Advanced(RunOf(w), "dispatching") ELSE runs
  /\ Goto(w, "call", ctx[w])
  /\ UNCHANGED <<jobs, tasks, row, ckpt, bill, ext, calls, stale, asked, faults>>

\* ... and the dispatch intent.  A terminal run keeps its state, and the
\* executor goes on to call the provider all the same.
GuardCommit(w) ==
  /\ pc[w] = "guardCommit"
  /\ runs' = Advanced(RunOf(w), "dispatching")
  /\ Goto(w, "call", ctx[w])
  /\ UNCHANGED <<jobs, tasks, row, ckpt, bill, ext, calls, stale, asked, faults>>

\* callWithRetry: an answer, a rejection that provably was not executed, or
\* an outcome nobody knows (the call may have executed and been charged).
\* The second request an empty or cut-off review makes belongs to the call.
CallProvider(w) ==
  /\ pc[w] = "call"
  /\ LET r == RunOf(w)
         s == ctx[w].step
         executed == [calls EXCEPT ![r][s] = @ + 1]
     IN \/ /\ "answered" \in Outcomes
           /\ calls' = executed
           /\ \E kind \in KindsOf(w) :
                Goto(w, IF Extracting(w) THEN "extLease" ELSE "persist",
                     [ctx[w] EXCEPT !.reply = [call |-> executed[r][s], kind |-> kind]])
        \/ /\ "rejected" \in Outcomes
           /\ Goto(w, IF Extracting(w) THEN "extReject" ELSE "persist",
                   [ctx[w] EXCEPT !.reply = NoReply])
           /\ UNCHANGED calls
        \/ /\ "ambiguous" \in Outcomes
           /\ calls' = executed
           /\ Close(w, "reconciliation_required")
  /\ UNCHANGED <<jobs, tasks, runs, row, ckpt, bill, ext, stale, asked, faults>>

\* Seeded bug: the row is not unique, so a second record bills again.
PersistStepTwice(w) ==
  /\ pc[w] = "persist" /\ ~ Extracting(w)
  /\ LET r == RunOf(w)
         s == ctx[w].step
         reply == ctx[w].reply
     IN /\ row' = [row EXCEPT ![r][s] = IF reply = NoReply THEN "failed" ELSE "answered"]
        /\ ckpt' = IF reply = NoReply THEN ckpt ELSE [ckpt EXCEPT ![r][s] = reply]
        /\ bill' = IF reply = NoReply THEN bill ELSE [bill EXCEPT ![r][s] = @ + 1]
        /\ runs' = Advanced(r, "result_checkpointed")
        /\ NextStep(w, Fresh(reply))
  /\ UNCHANGED <<jobs, tasks, ext, calls, stale, asked, faults>>

\* persistStep: the unique index on (run, step) makes a second record a no-op;
\* the first one stores the row, and with a reply the bill and the checkpoint.
\* A failed primary ends the engine; any other failed step degrades the run.
PersistStep(w) ==
  /\ pc[w] = "persist" /\ ~ Extracting(w)
  /\ LET r == RunOf(w)
         s == ctx[w].step
         reply == ctx[w].reply
         usable == Fresh(reply) # NoReply
     IN /\ IF row[r][s] # "none"
           THEN UNCHANGED <<row, ckpt, bill, runs>>
           ELSE /\ row' = [row EXCEPT ![r][s] = IF usable THEN "answered" ELSE "failed"]
                /\ runs' = Advanced(r, "result_checkpointed")
                /\ IF reply = NoReply
                   THEN UNCHANGED <<ckpt, bill>>
                   ELSE /\ ckpt' = [ckpt EXCEPT ![r][s] = reply]
                        /\ bill' = [bill EXCEPT ![r][s] = @ + 1]
        /\ IF s = 1 /\ reply = NoReply
           THEN Goto(w, "failLease", [ctx[w] EXCEPT !.out = "failed"])
           ELSE NextStep(w, Fresh(reply))
  /\ UNCHANGED <<jobs, tasks, ext, calls, stale, asked, faults>>

\* Step 4, consolidate: no provider, a row of its own under the next number.
Consolidate(w) ==
  /\ pc[w] = "load" /\ Consolidating(w)
  /\ LET r == RunOf(w)
         s == ctx[w].step
     IN row' = IF row[r][s] = "none" THEN [row EXCEPT ![r][s] = "consolidated"] ELSE row
  /\ Goto(w, "decide", ctx[w])
  /\ UNCHANGED <<jobs, tasks, runs, ckpt, bill, ext, calls, stale, asked, faults>>

-----------------------------------------------------------------------------
(* Post-run extraction: reserved steps, run only when no approval survives. *)

\* Whether a proposed action survives depends on the approvals that are
\* pending at this moment, so a resume may decide otherwise.
DecideExtraction(w) ==
  /\ pc[w] = "decide"
  /\ \/ NextExtraction(w, 0)
     \/ Proposing(w) /\ Goto(w, "finLease", ctx[w])
  /\ UNCHANGED <<jobs, db, stale, asked, faults>>

\* A step already resolved is skipped, a checkpointed one is only applied.
LoadExtraction(w) ==
  /\ pc[w] = "load" /\ Extracting(w)
  /\ LET r == RunOf(w)
         x == ctx[w].step
     IN IF ext[r][x] # "none" THEN NextExtraction(w, x)
        ELSE Goto(w, IF ckpt[r][x] # NoReply THEN "apply" ELSE "lease", ctx[w])
  /\ UNCHANGED <<jobs, db, stale, asked, faults>>

\* A rejected extraction clears the intent and never fails the run.
RejectExtraction(w) ==
  /\ pc[w] = "extReject"
  /\ runs' = Advanced(RunOf(w), "result_checkpointed")
  /\ ext' = [ext EXCEPT ![RunOf(w)][ctx[w].step] = "failed"]
  /\ NextExtraction(w, ctx[w].step)
  /\ UNCHANGED <<jobs, tasks, row, ckpt, bill, calls, stale, asked, faults>>

\* Seeded bug: the usage of an extraction is not recorded.
PersistExtractionUnbilled(w) ==
  /\ pc[w] = "persist" /\ Extracting(w)
  /\ ckpt' = [ckpt EXCEPT ![RunOf(w)][ctx[w].step] = ctx[w].reply]
  /\ runs' = Advanced(RunOf(w), "result_checkpointed")
  /\ Goto(w, "apply", ctx[w])
  /\ UNCHANGED <<jobs, tasks, row, bill, ext, calls, stale, asked, faults>>

\* Seeded bug: the last reply wins over the checkpointed one.
PersistExtractionLast(w) ==
  /\ pc[w] = "persist" /\ Extracting(w)
  /\ LET r == RunOf(w)
         x == ctx[w].step
     IN /\ ckpt' = [ckpt EXCEPT ![r][x] = ctx[w].reply]
        /\ bill' = [bill EXCEPT ![r][x] = 1]
        /\ runs' = Advanced(r, "result_checkpointed")
  /\ Goto(w, "apply", ctx[w])
  /\ UNCHANGED <<jobs, tasks, row, ext, calls, stale, asked, faults>>

\* The reply is billed and checkpointed unless the step has a checkpoint, which
\* is either found first or met by the insert: then a conflict undoes it all.
PersistExtraction(w) ==
  /\ pc[w] = "persist" /\ Extracting(w)
  /\ LET r == RunOf(w)
         x == ctx[w].step
     IN IF ckpt[r][x] # NoReply
        THEN /\ UNCHANGED <<ckpt, bill, runs>>
             /\ Goto(w, "apply", ctx[w]) \/ Finish(w, "threw")
        ELSE /\ ckpt' = [ckpt EXCEPT ![r][x] = ctx[w].reply]
             /\ bill' = [bill EXCEPT ![r][x] = @ + 1]
             /\ runs' = Advanced(r, "result_checkpointed")
             /\ Goto(w, "apply", ctx[w])
  /\ UNCHANGED <<jobs, tasks, row, ext, calls, stale, asked, faults>>

\* Proposals are applied once per run, in a transaction that holds the lock
\* of the run_jobs row; a lost lease rolls it back and the executor backs off.
ApplyExtraction(w) ==
  /\ pc[w] = "apply"
  /\ LET r == RunOf(w)
         x == ctx[w].step
     IN IF OwnsLease(held[w], token[w])
        THEN /\ RenewRunJobLease(held[w])
             /\ ext' = IF ext[r][x] = "none" THEN [ext EXCEPT ![r][x] = "applied"] ELSE ext
             /\ NextExtraction(w, x)
        ELSE Release(w) /\ UNCHANGED <<jobs, ext>>
  /\ UNCHANGED <<tasks, runs, row, ckpt, bill, calls, stale, asked, faults>>

-----------------------------------------------------------------------------
(* Finalization. *)

\* Seeded bug: a run that reached the marker once is never finalized again.
FinalizeCheckOnce(w) ==
  /\ pc[w] = "finalize"
  /\ LET run == runs[RunOf(w)]
     IN IF run.rel \in Terminal THEN Finish(w, run.rel)
        ELSE IF run.final # NoResult THEN Finish(w, "threw")
        ELSE Goto(w, "finalizeCommit", ctx[w])
  /\ UNCHANGED <<jobs, db, stale, asked, faults>>

\* finalizeCompleted, phase 1 up to its decision: an ended run keeps its
\* outcome, another checkpointed result is a conflict (an unexpected error).
FinalizeCheck(w) ==
  /\ pc[w] = "finalize"
  /\ LET run == runs[RunOf(w)]
     IN IF run.rel \in Terminal THEN Finish(w, run.rel)
        ELSE IF run.final \notin {NoResult, ctx[w].got} THEN Finish(w, "threw")
        ELSE Goto(w, "finalizeCommit", ctx[w])
  /\ UNCHANGED <<jobs, db, stale, asked, faults>>

\* ... and its write, by id alone.
FinalizeCommit(w) ==
  /\ pc[w] = "finalizeCommit"
  /\ runs' = [runs EXCEPT ![RunOf(w)].final = ctx[w].got, ![RunOf(w)].rel = "finalizing"]
  /\ Goto(w, "complete", ctx[w])
  /\ UNCHANGED <<jobs, tasks, row, ckpt, bill, ext, calls, stale, asked, faults>>

\* Seeded bug: the reliability state is left at the marker.
CompleteRunHalf(w) ==
  /\ pc[w] = "complete"
  /\ runs' = [runs EXCEPT ![RunOf(w)].status = "completed"]
  /\ tasks' = [tasks EXCEPT ![TaskOf(w)].status = "completed"]
  /\ Finish(w, "completed")
  /\ UNCHANGED <<jobs, row, ckpt, bill, ext, calls, stale, asked, faults>>

\* Phase 2: approvals decide where the task goes; nothing is checked again.
CompleteRun(w) ==
  /\ pc[w] = "complete"
  /\ runs' = [runs EXCEPT ![RunOf(w)].status = "completed", ![RunOf(w)].rel = "completed"]
  /\ \E status \in {"completed"} \cup (IF Proposing(w) THEN {"awaiting_approval"} ELSE {}) :
       tasks' = [tasks EXCEPT ![TaskOf(w)].status = status]
  /\ Finish(w, "completed")
  /\ UNCHANGED <<jobs, row, ckpt, bill, ext, calls, stale, asked, faults>>

\* finalizeFailed, finalizeReconciliation, finalizeCancelledOutcome: an ended
\* run keeps its outcome ...
CloseCheck(w) ==
  /\ pc[w] = "close"
  /\ IF IsTerminal(RunOf(w))
     THEN Finish(w, runs[RunOf(w)].rel)
     ELSE Goto(w, "closeCommit", ctx[w])
  /\ UNCHANGED <<jobs, db, stale, asked, faults>>

\* Seeded bug: the outcome is written where the status of the run belongs.
CloseCommitMistyped(w) ==
  /\ pc[w] = "closeCommit"
  /\ runs' = [runs EXCEPT ![RunOf(w)].status = ctx[w].out, ![RunOf(w)].rel = ctx[w].out]
  /\ tasks' = [tasks EXCEPT ![TaskOf(w)].status = "failed"]
  /\ Finish(w, ctx[w].out)
  /\ UNCHANGED <<jobs, row, ckpt, bill, ext, calls, stale, asked, faults>>

\* Seeded bug: the task is closed and the run is left open.
CloseCommitTaskOnly(w) ==
  /\ pc[w] = "closeCommit"
  /\ tasks' = [tasks EXCEPT ![TaskOf(w)].status = "failed"]
  /\ Finish(w, ctx[w].out)
  /\ UNCHANGED <<jobs, runs, row, ckpt, bill, ext, calls, stale, asked, faults>>

\* Seeded bug: only the reliability state is closed.
CloseCommitStateOnly(w) ==
  /\ pc[w] = "closeCommit"
  /\ runs' = [runs EXCEPT ![RunOf(w)].rel = ctx[w].out]
  /\ Finish(w, ctx[w].out)
  /\ UNCHANGED <<jobs, tasks, row, ckpt, bill, ext, calls, stale, asked, faults>>

\* ... any other is closed, by id alone, and its task with it.
CloseCommit(w) ==
  /\ pc[w] = "closeCommit"
  /\ runs' = [runs EXCEPT ![RunOf(w)].status = "failed", ![RunOf(w)].rel = ctx[w].out]
  /\ tasks' = [tasks EXCEPT ![TaskOf(w)].status =
                 IF ctx[w].out = "cancelled" THEN "cancelled" ELSE "failed"]
  /\ Finish(w, ctx[w].out)
  /\ UNCHANGED <<jobs, row, ckpt, bill, ext, calls, stale, asked, faults>>

-----------------------------------------------------------------------------
(* Faults. *)

Fault(kind) == kind \in Env /\ faults < MaxFaults /\ faults' = faults + 1

\* The process of w dies, or an error escapes runClaimedJob and its loop
\* drops the job: either way nothing is written and the memory is gone.
Crash(w) ==
  /\ Active(w)
  /\ Fault("crash")
  /\ Release(w)
  /\ UNCHANGED <<jobs, db, stale, asked>>

\* An unexpected error in the try block: runClaimedJob fails the job and
\* leaves the run as it is.
Throw(w) ==
  /\ pc[w] \in InTry \ {"apply"}
  /\ Fault("throw")
  /\ Finish(w, "threw")
  /\ UNCHANGED <<jobs, db, stale, asked>>

\* An error while proposals are applied is swallowed; the status stays null.
SwallowApply(w) ==
  /\ pc[w] = "apply"
  /\ Fault("throw")
  /\ NextExtraction(w, ctx[w].step)
  /\ UNCHANGED <<jobs, db, stale, asked>>

\* The lease of a job nobody works on runs out.
ExpireOrphan(j) ==
  /\ Holders(j) = {}
  /\ ExpireLease(j)
  /\ UNCHANGED <<db, pc, own, ctx, stale, asked, faults>>

\* The lease of a job whose executor is only slow runs out.
ExpireHeld(j) ==
  /\ Holders(j) # {}
  /\ Fault("stall")
  /\ ExpireLease(j)
  /\ UNCHANGED <<db, pc, own, ctx, stale, asked>>

-----------------------------------------------------------------------------
(* reconcileStaleJobs: list, then handle the jobs of the list one by one. *)

ListStale ==
  /\ \A j \in JobIds : stale[j] = "no"
  /\ \E j \in JobIds : Stale(j)
  /\ stale' = [j \in JobIds |->
                 IF ~ Stale(j) THEN "no"
                 ELSE IF tasks[jobs[j].task].status = "running" THEN "inspect" ELSE "requeue"]
  /\ UNCHANGED <<jobs, db, pc, own, ctx, asked, faults>>

\* Every run of this code has a reliability state, so what is left to tell
\* apart is whether a running run exists.
InspectStale(j) ==
  /\ stale[j] = "inspect"
  /\ stale' = [stale EXCEPT ![j] =
                 IF RunningRuns(jobs[j].task) # {} THEN "requeue" ELSE "recover"]
  /\ UNCHANGED <<jobs, db, pc, own, ctx, asked, faults>>

\* A unique violation ends the pass, the jobs after it unhandled.
RequeueStale(j) ==
  /\ stale[j] = "requeue"
  /\ IF RequeueRaises(j)
     THEN stale' = [i \in JobIds |-> "no"] /\ UNCHANGED jobs
     ELSE stale' = [stale EXCEPT ![j] = "no"] /\ RequeueRunJob(j)
  /\ UNCHANGED <<db, pc, own, ctx, asked, faults>>

\* recoverInterrupted: one transaction over the run and the task ...
RecoverInterrupted(j) ==
  /\ stale[j] = "recover"
  /\ LET t == jobs[j].task
     IN /\ runs' = [r \in RunIds |-> IF r \in RunningRuns(t)
                                     THEN [runs[r] EXCEPT !.status = "failed"] ELSE runs[r]]
        /\ tasks' = [tasks EXCEPT ![t].status = "failed"]
  /\ stale' = [stale EXCEPT ![j] = "finish"]
  /\ UNCHANGED <<jobs, row, ckpt, bill, ext, calls, pc, own, ctx, asked, faults>>

\* ... and then finishJob.
FinishRecovered(j) ==
  /\ stale[j] = "finish"
  /\ stale' = [stale EXCEPT ![j] = "no"]
  /\ FinishRunJob(j, "failed")
  /\ UNCHANGED <<db, pc, own, ctx, asked, faults>>

ReconcilerCrash ==
  /\ \E j \in JobIds : stale[j] # "no"
  /\ Fault("crash")
  /\ stale' = [j \in JobIds |-> "no"]
  /\ UNCHANGED <<jobs, db, pc, own, ctx, asked>>

-----------------------------------------------------------------------------
(* Users.  Each request is one transaction, at most one in flight per task. *)

Begin(t, op) == asked' = [asked EXCEPT ![t] = [op |-> op, seen |-> tasks[t].status]]
End(t) == asked' = [asked EXCEPT ![t] = NoTx]

\* runTask, the stream route, chat, MCP: enqueue whatever the task's status.
RunTask(t) ==
  /\ "run" \in UserOps
  /\ LiveJobs(t) = {}
  /\ EnqueueRun(t)
  /\ UNCHANGED <<db, pc, own, ctx, stale, asked, faults>>

\* requestRerun reads the task, ...
RerunRead(t) ==
  /\ "rerun" \in UserOps /\ asked[t] = NoTx
  /\ tasks[t].status \notin {"awaiting_approval", "cancelled"}
  /\ Begin(t, "rerunLive")
  /\ UNCHANGED <<jobs, db, pc, own, ctx, stale, faults>>

\* ... looks for a live job, ...
RerunLookup(t) ==
  /\ asked[t].op = "rerunLive"
  /\ IF LiveJobs(t) # {} THEN End(t) ELSE asked' = [asked EXCEPT ![t].op = "rerunCommit"]
  /\ UNCHANGED <<jobs, db, pc, own, ctx, stale, faults>>

\* ... makes an ended task pending again and queues a job.
RerunCommit(t) ==
  /\ asked[t].op = "rerunCommit"
  /\ tasks' = IF asked[t].seen \in {"completed", "failed"}
              THEN [tasks EXCEPT ![t].status = "pending"] ELSE tasks
  /\ EnqueueRun(t)
  /\ End(t)
  /\ UNCHANGED <<runs, row, ckpt, bill, ext, calls, pc, own, ctx, stale, faults>>

\* cancelTask refuses a running task ...
CancelRead(t) ==
  /\ "cancel" \in UserOps /\ asked[t] = NoTx
  /\ tasks[t].status \notin {"running", "cancelled"}
  /\ Begin(t, "cancel")
  /\ UNCHANGED <<jobs, db, pc, own, ctx, stale, faults>>

\* ... and then updates by id, with or without a reason.  supersedeTask is
\* the same with a reason.
CancelCommit(t) ==
  /\ asked[t].op = "cancel"
  /\ \E reason \in BOOLEAN :
       tasks' = [tasks EXCEPT ![t] = [status |-> "cancelled", reason |-> reason]]
  /\ End(t)
  /\ UNCHANGED <<jobs, runs, row, ckpt, bill, ext, calls, pc, own, ctx, stale, faults>>

\* requestCancellation on a running task; on a pending or failed one it is
\* cancelTask.
MarkRead(t) ==
  /\ "mark" \in UserOps /\ asked[t] = NoTx
  /\ tasks[t].status = "running"
  /\ Begin(t, "mark")
  /\ UNCHANGED <<jobs, db, pc, own, ctx, stale, faults>>

MarkCommit(t) ==
  /\ asked[t].op = "mark"
  /\ tasks' = [tasks EXCEPT ![t].reason = TRUE]
  /\ End(t)
  /\ UNCHANGED <<jobs, runs, row, ckpt, bill, ext, calls, pc, own, ctx, stale, faults>>

\* reconcileTaskAuthorization, once the last approval is decided.
SettleRead(t) ==
  /\ "settle" \in UserOps /\ asked[t] = NoTx
  /\ tasks[t].status = "awaiting_approval"
  /\ Begin(t, "settle")
  /\ UNCHANGED <<jobs, db, pc, own, ctx, stale, faults>>

SettleCommit(t) ==
  /\ asked[t].op = "settle"
  /\ tasks' = [tasks EXCEPT ![t].status = "completed"]
  /\ End(t)
  /\ UNCHANGED <<jobs, runs, row, ckpt, bill, ext, calls, pc, own, ctx, stale, faults>>

-----------------------------------------------------------------------------
\* What an executor does with the job it holds.
Work(w) ==
  \/ ReadToken(w) \/ ReadTask(w) \/ FinishJob(w)
  \/ PreflightCheck(w) \/ PreflightCommit(w) \/ Resume(w)
  \/ LoadStep(w) \/ CheckLease(w) \/ GuardCheck(w) \/ GuardCommit(w)
  \/ CallProvider(w) \/ PersistStep(w) \/ Consolidate(w)
  \/ DecideExtraction(w) \/ LoadExtraction(w) \/ RejectExtraction(w)
  \/ PersistExtraction(w) \/ ApplyExtraction(w)
  \/ FinalizeCheck(w) \/ FinalizeCommit(w) \/ CompleteRun(w)
  \/ CloseCheck(w) \/ CloseCommit(w)

Handle(j) ==
  InspectStale(j) \/ RequeueStale(j) \/ RecoverInterrupted(j) \/ FinishRecovered(j)

User(t) ==
  \/ RunTask(t)
  \/ RerunRead(t) \/ RerunLookup(t) \/ RerunCommit(t)
  \/ CancelRead(t) \/ CancelCommit(t)
  \/ MarkRead(t) \/ MarkCommit(t)
  \/ SettleRead(t) \/ SettleCommit(t)

Next ==
  \/ \E w \in Executors : \/ ClaimNext(w) \/ ClaimForTask(w) \/ Work(w)
                          \/ Crash(w) \/ Throw(w) \/ SwallowApply(w)
  \/ \E j \in JobIds : ExpireOrphan(j) \/ ExpireHeld(j) \/ Handle(j)
  \/ ListStale \/ ReconcilerCrash
  \/ \E t \in Tasks : User(t)

Spec == Init /\ [][Next]_vars

\* The worker's loop never stops claiming, every statement and provider call
\* returns (each has a timeout), an abandoned lease runs out, and a
\* reconciliation pass that began is carried through.  Nobody has to ask for
\* anything, a request need not start, and a user transaction need not commit.
Fairness ==
  /\ \A w \in Executors : WF_vars(ClaimNext(w)) /\ WF_vars(Work(w))
  /\ \A j \in JobIds : WF_vars(ExpireOrphan(j)) /\ WF_vars(Handle(j))

FairSpec == Spec /\ Fairness
=============================================================================
