--------------------------- MODULE DurableRunProps ---------------------------
(***************************************************************************)
(* What the durable run system promises: properties of DurableRun.         *)
(***************************************************************************)
EXTENDS DurableRun

-----------------------------------------------------------------------------
(* Ownership. *)

\* While leases outlive the steps of their holders and a reconciler's list is
\* handled before anyone claims from it, at most one executor works on a task
\* at a time, whichever job it came by, and the claim it made is the job's
\* last one: it is running, under this executor's token, with a live lease.
\* (run_jobs: "no two processes execute the same task".)
ExclusiveExecutor ==
  /\ \A v, w \in Executors :
       Active(v) /\ Active(w) /\ TaskOf(v) = TaskOf(w) => v = w
  /\ \A w \in Executors :
       Active(w) => /\ jobs[held[w]].status = "running"
                    /\ jobs[held[w]].lease = "live"
                    /\ pc[w] # "token" => OwnsLease(held[w], token[w])

-----------------------------------------------------------------------------
(* Paying the providers. *)

\* The slot of a step was taken by a row that carries no reply: a failed step,
\* or a consolidation under the same number.
SlotLost(r, s) == row[r][s] # "none" /\ ckpt[r][s] = NoReply

\* An extraction of a run that proposes actions: a resume decides anew whether
\* to extract, and may go past an extraction that was already dispatched.
MayBeSkipped(r, s) ==
  s \in Extractions /\ (SlotLost(r, 1) \/ \E e \in EngineSteps : ckpt[r][e].kind = "proposal")

\* Usage is recorded once, and only for a call that was made; it is recorded
\* exactly when the reply is checkpointed.  Holds whoever executes, however
\* many executors mistake themselves for the owner (invariant I8 of runner.ts).
BillingExact ==
  \A r \in RunIds, s \in Steps :
    /\ bill[r][s] = IF ckpt[r][s] = NoReply THEN 0 ELSE 1
    /\ ckpt[r][s].call <= calls[r][s]

\* Across crashes, restarts and resumes no provider step is called twice,
\* those two cases excepted (jobs.ts: "never bills a provider sequence twice").
PaidAtMostOnce ==
  \A r \in RunIds, s \in Steps :
    calls[r][s] > 1 => SlotLost(r, s) \/ MayBeSkipped(r, s)

\* A completed run has paid for every call it made, those two cases excepted.
CompletedIsPaid ==
  \A r \in RunIds, s \in Steps :
    runs[r].status = "completed" /\ calls[r][s] > 0 =>
      bill[r][s] = 1 \/ SlotLost(r, s) \/ MayBeSkipped(r, s)

\* The same without the exceptions: every call of a completed run is billed
\* (runner.ts, persistStep: "bill even for steps whose run later fails").
NoCallUnbilled ==
  \A r \in RunIds, s \in Steps :
    runs[r].status = "completed" /\ calls[r][s] > 0 => bill[r][s] = 1

\* Whoever calls a provider has its intent on record, so that a crash at any
\* point of the call is seen as an uncertain dispatch (guardProviderDispatch).
IntentBeforeCall ==
  \A w \in Executors : pc[w] = "call" => runs[RunOf(w)].rel = "dispatching"

\* A checkpointed reply is never replaced and a finalized run never loses its
\* result, whoever mistakes itself for the owner: every resume replays the text
\* that was paid for (persistStep, ensureExtractionCheckpoint).
ReplyIsFinal ==
  [][\A r \in RunIds :
       /\ \A s \in Steps : ckpt[r][s] # NoReply => ckpt'[r][s] = ckpt[r][s]
       /\ runs[r].final # NoResult => runs'[r].final # NoResult]_vars

-----------------------------------------------------------------------------
(* The end of a run. *)

\* A run that ended keeps its outcome and costs nothing more: no retry, resume,
\* cancellation or second finalization reopens it (nonterminalReliability and
\* the early returns of the finalizers in runner.ts).
TerminalIsFinal ==
  [][\A r \in RunIds :
       IsTerminal(r) => /\ runs'[r] = runs[r]
                        /\ calls'[r] = calls[r] /\ bill'[r] = bill[r]]_vars

\* The two states of a run agree (runs.status, runs.reliability_state): it is
\* running until its reliability state is terminal, and completes with a result.
RunRowCoherent ==
  \A r \in RunIds :
    runs[r].status # "absent" =>
      /\ runs[r].status = "running" <=> ~ IsTerminal(r)
      /\ runs[r].status = "completed" <=> runs[r].rel = "completed"
      /\ runs[r].status = "completed" => runs[r].final # NoResult

\* A task never has two running runs: an interrupted run is resumed on its
\* own row, never replaced by a new one (runClaimedJob, resumeRun).
OneRunningRun ==
  \A t \in Tasks, q, r \in RunIds : {q, r} \subseteq RunningRuns(t) => q = r

\* A cancelled task has no run still going on (cancelTask: "flipping the row
\* underneath it would leave the run writing steps to a task that claims to
\* be finished").
CancelledTaskIsIdle ==
  \A t \in Tasks : tasks[t].status = "cancelled" => RunningRuns(t) = {}

\* A re-run that queues a job leaves a task the worker will execute
\* (requestRerun: "either a real NEW attempt or an explicit refusal with a
\* reason - never a silent drain").
RerunIsRunnable ==
  [][\A t \in Tasks :
       asked[t].op = "rerunCommit" /\ asked'[t] = NoTx /\ jobs' # jobs
         => tasks'[t].status \in {"pending", "failed", "running"}]_vars

-----------------------------------------------------------------------------
(* Progress. *)

\* Every job is eventually done or failed: claimed, and if its executor dies,
\* claimed again, however the run ends (jobs.ts: "survives a restart").
JobsSettle ==
  \A j \in JobIds : jobs[j].status \in LiveStatus ~> jobs[j].status \in {"done", "failed"}

\* A task that is being executed does not stay "running" for ever, unless the
\* primary's slot was lost: then every resume asks the provider again, gets
\* another text, and cannot finalize over the result already checkpointed.
TasksSettle ==
  \A t \in Tasks :
    tasks[t].status = "running" ~>
      \/ tasks[t].status # "running"
      \/ \E r \in RunIds : runs[r].task = t /\ SlotLost(r, 1)
=============================================================================
