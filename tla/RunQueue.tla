------------------------------ MODULE RunQueue ------------------------------
(***************************************************************************)
(* The durable run queue: the table run_jobs and the SECURITY DEFINER      *)
(* functions of src/db/rls.sql through which every process changes it.     *)
(* Each function is one SQL statement, so each is one atomic step here.    *)
(*                                                                         *)
(* A job is one request to execute a task.  A clock is not modelled: a     *)
(* lease is "live" until ExpireLease says that leased_until has passed.    *)
(***************************************************************************)
EXTENDS Naturals

CONSTANTS
  Tasks,      \* the tasks that can be executed
  NoTask,     \* the task of a row that was never inserted
  MaxJobs     \* bound: rows ever inserted in run_jobs

ASSUME QueueAssumption ==
  /\ NoTask \notin Tasks
  /\ MaxJobs \in Nat

VARIABLE jobs \* the table run_jobs; job ids follow created_at

JobIds == 1 .. MaxJobs

JobStatus == {"absent", "queued", "running", "done", "failed"}

LiveStatus == {"queued", "running"}

JobRow ==
  [task : Tasks \cup {NoTask}, status : JobStatus,
   attempts : Nat, lease : {"none", "live", "expired"}]

NoJob == [task |-> NoTask, status |-> "absent", attempts |-> 0, lease |-> "none"]

QueueTypeOK == jobs \in [JobIds -> JobRow]

QueueInit == jobs = [j \in JobIds |-> NoJob]

-----------------------------------------------------------------------------
LiveJobs(t) == {j \in JobIds : jobs[j].task = t /\ jobs[j].status \in LiveStatus}

\* Seeded bug: the claim does not look at the lease.
ClaimableWhileLeased(j) == jobs[j].status \in LiveStatus

\* Seeded bug: the claim leaves an expired job to somebody else.
ClaimableQueuedOnly(j) == jobs[j].status = "queued"

\* What the claim functions may take: queued, or running past its lease.
Claimable(j) ==
  \/ jobs[j].status = "queued"
  \/ jobs[j].status = "running" /\ jobs[j].lease = "expired"

\* What list_stale_run_jobs returns: running with an expired (or no) lease.
Stale(j) == jobs[j].status = "running" /\ jobs[j].lease # "live"

\* The ownership predicate of renew_run_job_lease: it holds past the expiry
\* of the lease too, as long as nobody reclaimed or requeued the job.
OwnsLease(j, token) == jobs[j].status = "running" /\ jobs[j].attempts = token

-----------------------------------------------------------------------------
\* enqueueRun: the partial unique index on (task_id) where the status is
\* queued or running turns a second insert into a no-op.
EnqueueRun(t) ==
  IF LiveJobs(t) # {}
  THEN UNCHANGED jobs
  ELSE \E j \in JobIds :
         /\ jobs[j].status = "absent"
         /\ \A i \in 1 .. j - 1 : jobs[i].status # "absent"
         /\ jobs' = [jobs EXCEPT ![j] = [task |-> t, status |-> "queued",
                                         attempts |-> 0, lease |-> "none"]]

\* claim_next_run_job and claim_run_job_for_task, once the row is chosen.
ClaimRunJob(j) ==
  /\ Claimable(j)
  /\ jobs' = [jobs EXCEPT ![j].status = "running",
                          ![j].attempts = @ + 1,
                          ![j].lease = "live"]

RenewRunJobLease(j) == jobs' = [jobs EXCEPT ![j].lease = "live"]

\* finish_run_job updates by id alone: neither status nor token is compared.
FinishRunJob(j, outcome) == jobs' = [jobs EXCEPT ![j].status = outcome]

\* requeue_run_job updates by id alone as well.
RequeueRunJob(j) == jobs' = [jobs EXCEPT ![j].status = "queued",
                                         ![j].lease = "none"]

\* The unique index makes requeue_run_job raise when the job is no longer
\* live and another job of the task is.
RequeueRaises(j) == LiveJobs(jobs[j].task) \ {j} # {}

\* leased_until passes.
ExpireLease(j) ==
  /\ jobs[j].status = "running"
  /\ jobs[j].lease = "live"
  /\ jobs' = [jobs EXCEPT ![j].lease = "expired"]
=============================================================================
