------------------------------ MODULE RunProofs ------------------------------
(***************************************************************************)
(* What a run promises: an ended run stays as it ended, its two states     *)
(* agree, a task has one running run, no step is called twice and a        *)
(* completed run has paid for its calls.                                   *)
(*                                                                         *)
(* All of it needs an executor to be alone with its run, hence the         *)
(* assumption of Exclusive: the run is of the task the executor holds, and *)
(* no two executors hold one task.                                         *)
(***************************************************************************)
EXTENDS DurableRunProofs

-----------------------------------------------------------------------------
(* A run and its executor. *)

\* An executor's run belongs to the task of its job, and is going on.
OpenRun ==
  \A w \in Executors :
    pc[w] \in HasRun => LET r == RunOf(w) IN
      /\ runs[r].task = TaskOf(w)
      /\ runs[r].status = "running"
      /\ ~ IsTerminal(r)

\* Between the intent and the checkpoint the run says so.
Dispatched == {"call", "persist", "extLease", "extReject"}
Intent == \A w \in Executors : pc[w] \in Dispatched => runs[RunOf(w)].rel = "dispatching"

Marked == \A w \in Executors : pc[w] = "complete" => runs[RunOf(w)].final # NoResult

\* The reconciler fails a task only when it has no run to fail with it.
NothingToRecover ==
  \A j \in JobIds : stale[j] = "recover" => RunningRuns(jobs[j].task) = {}

\* A run is closed as anything but completed.
Closes == \A w \in Executors : pc[w] \in Closing => ctx[w].out # "completed"

RunInv == OpenRun /\ Intent /\ Marked /\ NothingToRecover /\ RunRowCoherent /\ Closes

-----------------------------------------------------------------------------
(* One running run. *)

\* The task of a running run is running, or was cancelled over it.
Going(t) == tasks[t].status \in {"running", "cancelled"}
RunShows ==
  \A r \in RunIds : runs[r].status = "running" => runs[r].task \in Tasks /\ Going(runs[r].task)

\* Who is about to insert a run has seen that there is none.
NoneYet ==
  \A w \in Executors :
    pc[w] \in {"preflight", "preflightCommit"} =>
      RunningRuns(TaskOf(w)) = {} /\ tasks[TaskOf(w)].status \in {"pending", "failed", "cancelled"}

ToResume == \A w \in Executors : pc[w] = "resume" => Going(TaskOf(w))
ToRecover == \A j \in JobIds : stale[j] \in {"inspect", "recover"} => Going(jobs[j].task)

\* What users have in flight: no re-run, and a settlement of a task that waits.
InFlight ==
  \A t \in Tasks :
    /\ asked[t].op \notin {"rerunLive", "rerunCommit"}
    /\ asked[t].op = "settle" => tasks[t].status = "awaiting_approval"

OneInv == RunShows /\ NoneYet /\ ToResume /\ ToRecover /\ InFlight /\ OneRunningRun

-----------------------------------------------------------------------------
(* Paying. *)

\* The two exceptions of PaidAtMostOnce, by the checkpoints and rows of the run.
Excused(ck, ro, s) ==
  \/ ro[s] # "none" /\ ck[s] = NoReply
  \/ /\ s \in Extractions
     /\ \/ ro[1] # "none" /\ ck[1] = NoReply
        \/ \E e \in EngineSteps : ck[e].kind = "proposal"

\* The steps that were called and neither checkpointed nor excepted.
UnpaidIn(cl, ck, ro) == {s \in Steps : cl[s] > 0 /\ ck[s] = NoReply /\ ~ Excused(ck, ro, s)}
Unpaid(r) == UnpaidIn(calls[r], ckpt[r], row[r])

OnceIn(cl, ck, ro) == \A s \in Steps : cl[s] > 1 => Excused(ck, ro, s)

\* What an executor at label l with memory c may have left behind or ahead of
\* it: nothing unpaid while it may dispatch, end or reject; the step in hand
\* while it brings the reply; otherwise only steps that it will come to, and
\* then it has replayed what it knows.
Ahead(l, c, unpaid, ck) ==
  /\ l \in {"guardCommit", "call", "extReject", "finLease", "finalize", "finalizeCommit", "complete"}
       => unpaid = {}
  /\ l \in Bringing => unpaid \subseteq {c.step}
  /\ l \in {"load", "lease", "guard", "apply"} => \A s \in unpaid : s >= c.step
  /\ l = "decide" => unpaid \subseteq Extractions
  /\ l \in {"load", "lease", "guard"} =>
       \A s \in unpaid : /\ s \in {2, 3} => c.reviewer
                         /\ s = 3 /\ c.step = 3 => c.got[2].kind = "revise"
  /\ l \in {"load", "lease", "guard", "decide", "apply"} /\ unpaid # {} =>
       \A e \in {1, 3} : c.got[e].kind = "proposal" => ck[e].kind = "proposal"

\* The step in hand: not checkpointed, not applied, and one the engine takes.
InHandAt == {"lease", "guard", "guardCommit", "call", "persist", "extLease", "extReject"}
Facing(l, c, run, ck, ex) ==
  /\ c.reviewer /\ l \notin Closing => run.pinned
  /\ l \in InHandAt =>
       /\ ck[c.step] = NoReply
       /\ c.step \in Extractions => ex[c.step] = "none"
       /\ c.step = 2 => c.reviewer
       /\ c.step = 3 => c.got[2].kind = "revise"
  /\ l = "apply" => c.step \in Extractions /\ ck[c.step] # NoReply
  /\ l \in {"load", "lease", "guard"} /\ c.step = 3 /\ c.got[2].kind = "revise" =>
       ck[2].kind = "revise" \/ run.rel = "dispatching"
  /\ l \in {"guardCommit", "call"} /\ c.step = 3 => ck[2].kind = "revise"

Paying ==
  \A w \in Executors : pc[w] \in HasRun => LET r == RunOf(w) IN
    /\ Ahead(pc[w], ctx[w], Unpaid(r), ckpt[r])
    /\ Facing(pc[w], ctx[w], runs[r], ckpt[r], ext[r])

\* What is unpaid is the last dispatch of a run that is uncertain, and a resume
\* comes to it again.
MayOwe == {"dispatching", "failed", "cancelled", "reconciliation_required"}
BooksIn(run, unpaid, ck, ro, ex) ==
  /\ run.rel \notin MayOwe => unpaid = {}
  /\ ck[2] # NoReply \/ 2 \in unpaid => run.pinned
  /\ 3 \in unpaid => ck[2].kind = "revise"
  /\ 4 \notin unpaid
  /\ \A x \in Extractions : /\ ex[x] # "none" => x \notin unpaid
                           /\ ro[x] = "none"
  /\ run.status = "absent" => unpaid = {}

Books ==
  \A r \in RunIds : /\ BooksIn(runs[r], Unpaid(r), ckpt[r], row[r], ext[r])
                    /\ OnceIn(calls[r], ckpt[r], row[r])

PayInv == Paying /\ Books

-----------------------------------------------------------------------------
(* A run and its executor: every step keeps the invariant. *)

\* No step removes a job or gives it to another task.
LEMMA JobsGoOn ==
  ASSUME TypeInv, RunAssumption, [Next]_vars PROVE JobsStay
<1>1. UNCHANGED jobs => JobsStay
  BY DEF JobsStay
<1>2. ASSUME NEW w \in Executors, ClaimNext(w) \/ ClaimForTask(w) PROVE JobsStay
  BY <1>2, ClaimOK DEF ClaimNext, ClaimForTask, Claim, JobsOK
<1>3. ASSUME NEW w \in Executors, CheckLease(w) \/ ApplyExtraction(w) PROVE JobsStay
  <2>1. Active(w)
    BY <1>3 DEF Active, CheckLease, ApplyExtraction, LeaseNext
  <2> QED
    BY <1>1, <1>3, <2>1, Here, RenewOK DEF CheckLease, ApplyExtraction, JobsOK
<1>4. ASSUME NEW w \in Executors, FinishJob(w) PROVE JobsStay
  <2>1. Active(w)
    BY <1>4 DEF Active, FinishJob
  <2> QED
    BY <1>4, <2>1, Here, FinishOK DEF FinishJob, JobsOK
<1>5. ASSUME NEW w \in Executors,
             Work(w) \/ Crash(w) \/ Throw(w) \/ SwallowApply(w),
             ~ CheckLease(w), ~ ApplyExtraction(w), ~ FinishJob(w)
      PROVE  UNCHANGED jobs
  <2>1. CASE ReadToken(w) \/ ReadTask(w) \/ PreflightCheck(w) \/ PreflightCommit(w) \/ Resume(w)
    BY <2>1 DEF ReadToken, ReadTask, PreflightCheck, PreflightCommit, Resume
  <2>2. CASE LoadStep(w) \/ GuardCheck(w) \/ GuardCommit(w) \/ CallProvider(w) \/ PersistStep(w)
    BY <2>2 DEF LoadStep, GuardCheck, GuardCommit, CallProvider, PersistStep
  <2>3. CASE \/ Consolidate(w) \/ DecideExtraction(w) \/ LoadExtraction(w)
             \/ RejectExtraction(w) \/ PersistExtraction(w)
    BY <2>3 DEF Consolidate, DecideExtraction, LoadExtraction, RejectExtraction, PersistExtraction
  <2>4. CASE \/ FinalizeCheck(w) \/ FinalizeCommit(w) \/ CompleteRun(w)
             \/ CloseCheck(w) \/ CloseCommit(w)
    BY <2>4 DEF FinalizeCheck, FinalizeCommit, CompleteRun, CloseCheck, CloseCommit
  <2>5. CASE Crash(w) \/ Throw(w) \/ SwallowApply(w)
    BY <2>5 DEF Crash, Throw, SwallowApply
  <2> QED
    BY <1>5, <2>1, <2>2, <2>3, <2>4, <2>5 DEF Work
<1>6. ASSUME NEW j \in JobIds, ExpireOrphan(j) \/ ExpireHeld(j) PROVE JobsStay
  BY <1>6, ExpireOK DEF ExpireOrphan, ExpireHeld, JobsOK
<1>7. ASSUME NEW j \in JobIds, Handle(j) PROVE JobsStay
  <2>1. jobs[j].status # "absent"
    BY <1>7 DEF Handle, InspectStale, RequeueStale, RecoverInterrupted, FinishRecovered,
                TypeInv, RestOK, Listed
  <2> QED
    BY <1>1, <1>7, <2>1, RequeueOK, FinishOK
       DEF Handle, InspectStale, RequeueStale, RecoverInterrupted, FinishRecovered, JobsOK
<1>8. CASE ListStale \/ ReconcilerCrash \/ UNCHANGED vars
  BY <1>1, <1>8 DEF ListStale, ReconcilerCrash, vars
<1>9. ASSUME NEW t \in Tasks, User(t) PROVE JobsStay
  BY <1>1, <1>9, EnqueueOK
     DEF User, RunTask, RerunRead, RerunLookup, RerunCommit, CancelRead, CancelCommit,
         MarkRead, MarkCommit, SettleRead, SettleCommit, JobsOK
<1> QED
  BY <1>1, <1>2, <1>3, <1>4, <1>5, <1>6, <1>7, <1>8, <1>9 DEF Next

\* Nobody else works on the task, let alone the run.
LEMMA AloneOnTask ==
  ASSUME TypeInv, OwnInv, NEW v \in Executors, NEW w \in Executors, v # w,
         Active(v), Active(w)
  PROVE  TaskOf(v) # TaskOf(w)
BY OwnInvImplies DEF ExclusiveExecutor

LEMMA AloneInRun ==
  ASSUME TypeInv, OwnInv, RunInv, NEW v \in Executors, NEW w \in Executors, v # w,
         pc[v] \in HasRun, pc[w] \in HasRun
  PROVE  RunOf(v) # RunOf(w)
<1>1. Active(v) /\ Active(w)
  BY InRun
<1> QED
  BY <1>1, AloneOnTask DEF RunInv, OpenRun

\* Where an executor had a run, it has the same task.
LEMMA SameTask ==
  ASSUME TypeInv, JobsStay, NEW v \in Executors, Active(v), held'[v] = held[v]
  PROVE  jobs'[held'[v]].task = TaskOf(v)
BY Here DEF JobsStay, TaskOf

\* The step of an executor with a run: what is to be shown of it.
CoherentRow(run) ==
  /\ run.status = "running" <=> run.rel \notin Terminal
  /\ run.status = "completed" <=> run.rel = "completed"
  /\ run.status = "completed" => run.final # NoResult

LEMMA RunMoves ==
  ASSUME TypeInv, OwnInv, RunInv, JobsStay, UNCHANGED <<held, stale>>,
         NEW w \in Executors, pc[w] \in HasRun, NEW r \in RunIds, r = RunOf(w),
         \A v \in Executors \ {w} : pc'[v] = pc[v] /\ ctx'[v] = ctx[v],
         OnlyRun(r), runs'[r].task = runs[r].task, CoherentRow(runs'[r]),
         pc'[w] \in HasRun => ctx'[w].run = r /\ runs'[r].status = "running",
         pc'[w] \in Dispatched => runs'[r].rel = "dispatching",
         pc'[w] = "complete" => runs'[r].final # NoResult,
         pc'[w] \in Closing => ctx'[w].out # "completed"
  PROVE  RunInv'
<1>1. /\ Active(w) /\ runs[r].task = TaskOf(w) /\ runs[r].status = "running"
  BY InRun DEF RunInv, OpenRun
<1>2. ASSUME NEW v \in Executors \ {w}, pc'[v] \in HasRun
      PROVE  /\ ctx'[v].run = RunOf(v) /\ RunOf(v) \in RunIds \ {r}
             /\ runs'[RunOf(v)] = runs[RunOf(v)] /\ Active(v)
  BY <1>2, AloneInRun, InRun DEF OnlyRun, RunOf
<1>3. OpenRun'
  <2> SUFFICES ASSUME NEW v \in Executors, pc'[v] \in HasRun
               PROVE  /\ runs'[ctx'[v].run].task = jobs'[held'[v]].task
                      /\ runs'[ctx'[v].run].status = "running"
                      /\ runs'[ctx'[v].run].rel \notin Terminal
    BY DEF OpenRun, RunOf, TaskOf, IsTerminal
  <2>1. CASE v = w
    BY <1>1, <2>1, SameTask DEF CoherentRow
  <2>2. CASE v # w
    BY <1>2, <2>2, SameTask DEF RunInv, OpenRun, IsTerminal
  <2> QED
    BY <2>1, <2>2
<1>4. Intent'
  <2> SUFFICES ASSUME NEW v \in Executors, pc'[v] \in Dispatched
               PROVE  runs'[ctx'[v].run].rel = "dispatching"
    BY DEF Intent, RunOf
  <2>1. pc'[v] \in HasRun
    BY DEF Dispatched, HasRun, PC, InTry
  <2> QED
    BY <1>2, <2>1 DEF RunInv, Intent
<1>5. Marked'
  <2> SUFFICES ASSUME NEW v \in Executors, pc'[v] = "complete"
               PROVE  runs'[ctx'[v].run].final # NoResult
    BY DEF Marked, RunOf
  <2>1. pc'[v] \in HasRun
    BY DEF HasRun, PC, InTry
  <2> QED
    BY <1>2, <2>1 DEF RunInv, Marked
<1>6. NothingToRecover'
  <2> SUFFICES ASSUME NEW j \in JobIds, stale'[j] = "recover",
                      NEW q \in RunIds, runs'[q].task = jobs'[j].task, runs'[q].status = "running"
               PROVE  FALSE
    BY DEF NothingToRecover, RunningRuns
  <2>1. jobs[j].status # "absent" /\ stale[j] = "recover"
    BY DEF TypeInv, RestOK, Listed
  <2>2. jobs'[j].task = jobs[j].task
    BY <2>1 DEF JobsStay
  <2>3. runs[q].task = jobs[j].task /\ runs[q].status = "running"
    BY <1>1, <2>2 DEF OnlyRun
  <2> QED
    BY <2>1, <2>3 DEF RunInv, NothingToRecover, RunningRuns
<1>7. RunRowCoherent'
  <2>1. \A q \in RunIds \ {r} : runs[q].status # "absent" => CoherentRow(runs[q])
    BY DEF RunInv, RunRowCoherent, CoherentRow, IsTerminal
  <2>2. \A q \in RunIds : runs'[q].status # "absent" => CoherentRow(runs'[q])
    BY <2>1 DEF OnlyRun
  <2> QED
    BY <2>2 DEF RunRowCoherent, CoherentRow, IsTerminal
<1>8. Closes'
  <2>1. Closing \subseteq HasRun
    BY DEF Closing, HasRun, PC, InTry
  <2> QED
    BY <2>1 DEF RunInv, Closes
<1> QED
  BY <1>3, <1>4, <1>5, <1>6, <1>7, <1>8 DEF RunInv

\* The row stays as it is.
LEMMA RunStays ==
  ASSUME TypeInv, OwnInv, RunInv, JobsStay, UNCHANGED <<held, stale, runs>>,
         NEW w \in Executors, pc[w] \in HasRun,
         \A v \in Executors \ {w} : pc'[v] = pc[v] /\ ctx'[v] = ctx[v],
         pc'[w] \in HasRun => ctx'[w].run = RunOf(w),
         pc'[w] \in Dispatched => pc[w] \in Dispatched,
         pc'[w] # "complete",
         pc'[w] \in Closing => ctx'[w].out # "completed"
  PROVE  RunInv'
<1> DEFINE r == RunOf(w)
<1>1. r \in RunIds /\ runs[r].status = "running"
  BY InRun DEF RunInv, OpenRun
<1>2. CoherentRow(runs'[r])
  BY <1>1 DEF RunInv, RunRowCoherent, CoherentRow, IsTerminal
<1>3. pc'[w] \in Dispatched => runs'[r].rel = "dispatching"
  BY DEF RunInv, Intent
<1> HIDE DEF r
<1> QED
  BY <1>1, <1>2, <1>3, RunMoves DEF OnlyRun, r

\* Nobody comes to work on a run, and no row changes.
LEMMA RunQuiet ==
  ASSUME TypeInv, RunInv, JobsStay, UNCHANGED runs,
         \A v \in Executors :
           pc'[v] \in HasRun => pc'[v] = pc[v] /\ ctx'[v] = ctx[v] /\ held'[v] = held[v],
         \A j \in JobIds :
           stale'[j] = "recover" => jobs[j].status # "absent" /\ RunningRuns(jobs[j].task) = {}
  PROVE  RunInv'
<1>1. OpenRun'
  <2> SUFFICES ASSUME NEW v \in Executors, pc'[v] \in HasRun
               PROVE  /\ runs'[ctx'[v].run].task = jobs'[held'[v]].task
                      /\ runs'[ctx'[v].run].status = "running"
                      /\ runs'[ctx'[v].run].rel \notin Terminal
    BY DEF OpenRun, RunOf, TaskOf, IsTerminal
  <2> QED
    BY InRun, SameTask DEF RunInv, OpenRun, IsTerminal, RunOf
<1>2. Intent' /\ Marked' /\ Closes'
  <2>1. Dispatched \cup {"complete"} \cup Closing \subseteq HasRun
    BY DEF Dispatched, Closing, HasRun, PC, InTry
  <2> QED
    BY <2>1 DEF RunInv, Intent, Marked, Closes, RunOf
<1>3. NothingToRecover'
  BY DEF NothingToRecover, RunningRuns, JobsStay
<1>4. RunRowCoherent'
  BY DEF RunInv, RunRowCoherent, IsTerminal
<1> QED
  BY <1>1, <1>2, <1>3, <1>4 DEF RunInv

LEMMA ClosedAs ==
  ASSUME TypeInv, NEW w \in Executors, pc[w] \in HasRun, NEW o, Close(w, o)
  PROVE  pc'[w] = "close" /\ ctx'[w].out = o
<1>1. ctx[w] \in Ctx
  BY InRun
<1> DEFINE c == [ctx[w] EXCEPT !.out = o]
<1>2. c.out = o
  BY <1>1 DEF Ctx
<1>3. Goto(w, "close", c)
  BY DEF Close
<1> HIDE DEF c
<1> QED
  BY <1>2, <1>3, Gone

\* Who leaves a run, or has not come to one, changes no row of runs.
LEMMA AwayFromRuns ==
  ASSUME TypeInv, RunInv, JobsStay, UNCHANGED <<runs, stale>>, NEW w \in Executors,
         pc'[w] \notin HasRun,
         \A v \in Executors \ {w} : pc'[v] = pc[v] /\ ctx'[v] = ctx[v] /\ held'[v] = held[v]
  PROVE  RunInv'
<1>1. \A j \in JobIds :
        stale'[j] = "recover" => jobs[j].status # "absent" /\ RunningRuns(jobs[j].task) = {}
  BY DEF RunInv, NothingToRecover, TypeInv, RestOK, Listed
<1> QED
  BY <1>1, RunQuiet

LEMMA FinishedRun ==
  ASSUME TypeInv, RunInv, JobsStay, UNCHANGED <<runs, stale>>, NEW w \in Executors,
         NEW l \in {"finish", "idle"}, NEW c, Goto(w, l, c)
  PROVE  RunInv'
<1>1. pc'[w] \notin HasRun
  BY Gone DEF HasRun
<1>2. \A v \in Executors \ {w} : pc'[v] = pc[v] /\ ctx'[v] = ctx[v] /\ held'[v] = held[v]
  BY Gone
<1> QED
  BY <1>1, <1>2, AwayFromRuns

LEMMA OutsideRun ==
  ASSUME TypeInv, RunInv, JobsStay, NEW w \in Executors,
         \/ \E j \in JobIds : Claim(w, j)
         \/ ReadToken(w) \/ ReadTask(w) \/ FinishJob(w) \/ PreflightCheck(w)
         \/ Crash(w) \/ Throw(w)
  PROVE  RunInv'
<1> USE DEF db
<1>1. CASE \E j \in JobIds : Claim(w, j)
  <2>1. UNCHANGED stale
    BY <1>1 DEF Claim
  <2> QED
    BY <1>1, <2>1, Claimed, AwayFromRuns DEF HasRun
<1>2. CASE ReadToken(w)
  BY <1>2, AwayFromRuns DEF ReadToken, HasRun, TypeInv, ExecOK
<1>3. CASE ReadTask(w)
  <2>1. \E l \in {"resume", "preflight", "finish"} : \E c : Goto(w, l, c)
    BY <1>3 DEF ReadTask, Finish
  <2> QED
    BY <1>3, <2>1, Gone, AwayFromRuns DEF ReadTask, HasRun
<1>4. CASE FinishJob(w) \/ Crash(w)
  BY <1>4, Released, AwayFromRuns DEF FinishJob, Crash, HasRun
<1>5. CASE PreflightCheck(w)
  <2>1. \E l \in {"preflightCommit", "finish"} : \E c : Goto(w, l, c)
    BY <1>5 DEF PreflightCheck, Finish
  <2> QED
    BY <1>5, <2>1, Gone, AwayFromRuns DEF PreflightCheck, HasRun
<1>6. CASE Throw(w)
  BY <1>6, FinishedRun DEF Throw, Finish
<1> QED
  BY <1>1, <1>2, <1>3, <1>4, <1>5, <1>6

\* A run begins with the row a preflight inserts.
LEMMA BeginsRun ==
  ASSUME TypeInv, OwnInv, ReplyInv, RunInv, JobsStay, NEW w \in Executors, PreflightCommit(w)
  PROVE  RunInv'
<1>1. PICK r \in RunIds :
         /\ runs[r].status = "absent" /\ OnlyRun(r)
         /\ runs'[r].task = TaskOf(w) /\ runs'[r].status = "running"
         /\ runs'[r].rel = "not_dispatched"
         /\ pc'[w] = "load" /\ ctx'[w].run = r
         /\ \A v \in Executors \ {w} : pc'[v] = pc[v] /\ ctx'[v] = ctx[v]
         /\ UNCHANGED held
  BY InsertedRun
<1>2. /\ pc[w] = "preflightCommit" /\ Active(w) /\ UNCHANGED <<jobs, stale>>
      /\ TaskOf(w) \in Tasks
  BY Here DEF PreflightCommit, Active
<1>3. ASSUME NEW v \in Executors \ {w}, pc'[v] \in HasRun
      PROVE  /\ ctx'[v].run = RunOf(v) /\ runs'[RunOf(v)] = runs[RunOf(v)] /\ pc[v] \in HasRun
  BY <1>1, <1>3, InRun DEF ReplyInv, Inserted, OnlyRun, RunOf
<1>4. OpenRun'
  <2> SUFFICES ASSUME NEW v \in Executors, pc'[v] \in HasRun
               PROVE  /\ runs'[ctx'[v].run].task = jobs'[held'[v]].task
                      /\ runs'[ctx'[v].run].status = "running"
                      /\ runs'[ctx'[v].run].rel \notin Terminal
    BY DEF OpenRun, RunOf, TaskOf, IsTerminal
  <2>1. CASE v = w
    BY <1>1, <1>2, <2>1 DEF TaskOf, Terminal
  <2>2. CASE v # w
    BY <1>1, <1>2, <1>3, <2>2 DEF RunInv, OpenRun, IsTerminal, TaskOf
  <2> QED
    BY <2>1, <2>2
<1>5. Intent' /\ Marked' /\ Closes'
  <2>1. Dispatched \cup {"complete"} \cup Closing \subseteq HasRun
    BY DEF Dispatched, Closing, HasRun, PC, InTry
  <2>2. "load" \notin Dispatched \cup {"complete"} \cup Closing
    BY DEF Dispatched, Closing
  <2>3. Intent'
    BY <1>1, <1>3, <2>1, <2>2 DEF RunInv, Intent, RunOf
  <2>4. Marked'
    BY <1>1, <1>3, <2>1, <2>2 DEF RunInv, Marked, RunOf
  <2>5. Closes'
    BY <1>1, <1>3, <2>1, <2>2 DEF RunInv, Closes
  <2> QED
    BY <2>3, <2>4, <2>5
<1>6. NothingToRecover'
  <2> SUFFICES ASSUME NEW j \in JobIds, stale[j] = "recover",
                      NEW q \in RunIds, runs'[q].task = jobs[j].task, runs'[q].status = "running"
               PROVE  FALSE
    BY <1>2 DEF NothingToRecover, RunningRuns
  <2>1. Stale(j)
    BY DEF OwnInv, ListedFree
  <2>2. TaskOf(w) # jobs[j].task
    <3>1. held[w] \in JobIds /\ jobs[held[w]].status = "running" /\ jobs[held[w]].lease = "live"
      BY <1>2, Here DEF OwnInv, Owned
    <3> QED
      BY <2>1, <3>1 DEF OwnInv, OneLive, Stale, LiveStatus, TaskOf
  <2> QED
    BY <1>1, <2>2 DEF RunInv, NothingToRecover, RunningRuns, OnlyRun
<1>7. RunRowCoherent'
  BY <1>1 DEF RunInv, RunRowCoherent, OnlyRun, IsTerminal, Terminal
<1> QED
  BY <1>4, <1>5, <1>6, <1>7 DEF RunInv

LEMMA ResumesRun ==
  ASSUME TypeInv, RunInv, JobsStay, NEW w \in Executors, Resume(w)
  PROVE  RunInv'
<1>1. /\ UNCHANGED <<jobs, runs, stale, held>> /\ Active(w)
      /\ \A v \in Executors \ {w} : pc'[v] = pc[v] /\ ctx'[v] = ctx[v] /\ held'[v] = held[v]
  BY ResumedRun DEF Resume, Active
<1>2. CASE pc'[w] = "finish"
  BY <1>1, <1>2, AwayFromRuns DEF HasRun
<1>3. CASE /\ ctx'[w].run \in RunningRuns(TaskOf(w))
           /\ pc'[w] = "load" \/ (pc'[w] = "close" /\ ctx'[w].out = "failed")
  <2>1. OpenRun'
    <3> SUFFICES ASSUME NEW v \in Executors, pc'[v] \in HasRun
                 PROVE  /\ runs[ctx'[v].run].task = TaskOf(v)
                        /\ runs[ctx'[v].run].status = "running"
                        /\ runs[ctx'[v].run].rel \notin Terminal
      BY <1>1 DEF OpenRun, RunOf, TaskOf, IsTerminal
    <3>1. CASE v = w
      BY <1>3, <3>1 DEF RunningRuns, RunInv, RunRowCoherent, IsTerminal
    <3>2. CASE v # w
      BY <1>1, <3>2 DEF RunInv, OpenRun, IsTerminal, RunOf
    <3> QED
      BY <3>1, <3>2
  <2>2. pc'[w] \notin Dispatched \cup {"complete"}
    BY <1>3 DEF Dispatched
  <2>3. Intent' /\ Marked'
    BY <1>1, <2>2 DEF RunInv, Intent, Marked, RunOf
  <2>4. Closes'
    BY <1>1, <1>3 DEF RunInv, Closes, Closing
  <2>5. NothingToRecover' /\ RunRowCoherent'
    BY <1>1 DEF RunInv, NothingToRecover, RunningRuns, RunRowCoherent, IsTerminal
  <2> QED
    BY <2>1, <2>3, <2>4, <2>5 DEF RunInv
<1> QED
  BY <1>2, <1>3, ResumedRun

\* On to the next step or extraction, or to the finalization, of the same run.
LEMMA NextOfRun ==
  ASSUME TypeInv, NEW w \in Executors, pc[w] \in HasRun,
         (\E reply : NextStep(w, reply)) \/ (\E s : NextExtraction(w, s))
  PROVE  /\ pc'[w] \in {"load", "finLease"} /\ ctx'[w].run = RunOf(w)
         /\ \A v \in Executors \ {w} : pc'[v] = pc[v] /\ ctx'[v] = ctx[v]
         /\ UNCHANGED held
<1>1. ctx[w] \in Ctx
  BY InRun
<1>2. ASSUME NEW l \in {"load", "finLease"}, NEW c, Goto(w, l, c), c.run = ctx[w].run
      PROVE  /\ pc'[w] \in {"load", "finLease"} /\ ctx'[w].run = RunOf(w)
             /\ \A v \in Executors \ {w} : pc'[v] = pc[v] /\ ctx'[v] = ctx[v]
             /\ UNCHANGED held
  BY <1>2, Gone DEF RunOf
<1>3. ASSUME NEW reply, NextStep(w, reply)
      PROVE  \E c : Goto(w, "load", c) /\ c.run = ctx[w].run
  <2> DEFINE c == [ctx[w] EXCEPT !.step = @ + 1, !.reply = NoReply,
                                 !.got = IF ctx[w].step \in 1 .. 3
                                         THEN [@ EXCEPT ![ctx[w].step] = reply] ELSE @]
  <2>1. c.run = ctx[w].run
    BY <1>1 DEF Ctx
  <2>2. Goto(w, "load", c)
    BY <1>3 DEF NextStep
  <2> HIDE DEF c
  <2> QED
    BY <2>1, <2>2
<1>4. ASSUME NEW s, NextExtraction(w, s)
      PROVE  \E l \in {"load", "finLease"} : \E c : Goto(w, l, c) /\ c.run = ctx[w].run
  <2> DEFINE later == {x \in Extractions : x > s}
             next == CHOOSE x \in later : \A y \in later : x <= y
             c == [ctx[w] EXCEPT !.reply = NoReply, !.step = next]
  <2>1. c.run = ctx[w].run
    <3> HIDE DEF next
    <3> QED
      BY <1>1 DEF Ctx
  <2>2. Goto(w, "finLease", ctx[w]) \/ Goto(w, "load", c)
    BY <1>4 DEF NextExtraction
  <2> HIDE DEF c
  <2> QED
    BY <2>1, <2>2
<1> QED
  BY <1>2, <1>3, <1>4

LEMMA NextStays ==
  ASSUME TypeInv, OwnInv, RunInv, JobsStay, UNCHANGED <<stale, runs>>,
         NEW w \in Executors, pc[w] \in HasRun,
         (\E reply : NextStep(w, reply)) \/ (\E s : NextExtraction(w, s))
  PROVE  RunInv'
BY NextOfRun, RunStays DEF Dispatched, Closing

\* Where an executor that keeps its memory may go with its run.
LEMMA GotoStays ==
  ASSUME TypeInv, OwnInv, RunInv, JobsStay, UNCHANGED <<stale, runs>>,
         NEW w \in Executors, pc[w] \in HasRun, NEW l, Goto(w, l, ctx[w]),
         l # "complete",
         l \in Dispatched => pc[w] \in Dispatched,
         l \in Closing => pc[w] \in Closing
  PROVE  RunInv'
<1>1. /\ pc'[w] = l /\ ctx'[w] = ctx[w] /\ UNCHANGED held
      /\ \A v \in Executors \ {w} : pc'[v] = pc[v] /\ ctx'[v] = ctx[v]
  BY Gone
<1>2. l \in Closing => ctx[w].out # "completed"
  BY DEF RunInv, Closes
<1> QED
  BY <1>1, <1>2, RunStays DEF RunOf

\* Any outcome but completed closes a run.
LEMMA CloseStays ==
  ASSUME TypeInv, OwnInv, RunInv, JobsStay, UNCHANGED <<stale, runs>>,
         NEW w \in Executors, pc[w] \in HasRun,
         NEW o, o # "completed", Close(w, o)
  PROVE  RunInv'
<1>1. pc'[w] = "close" /\ ctx'[w].out = o
  BY ClosedAs
<1>2. /\ Keeps(w) /\ UNCHANGED held
      /\ \A v \in Executors \ {w} : pc'[v] = pc[v] /\ ctx'[v] = ctx[v]
  BY Kept DEF Close
<1> QED
  BY <1>1, <1>2, RunStays DEF Keeps, RunOf, Dispatched

\* The reliability state of a run that goes on is what its executor makes it.
LEMMA AdvancedStays ==
  ASSUME TypeInv, OwnInv, RunInv, JobsStay, UNCHANGED <<held, stale>>,
         NEW w \in Executors, pc[w] \in HasRun,
         NEW state \in Reliability \ Terminal, runs' = Advanced(RunOf(w), state),
         \A v \in Executors \ {w} : pc'[v] = pc[v] /\ ctx'[v] = ctx[v],
         pc'[w] \in HasRun => ctx'[w].run = RunOf(w),
         pc'[w] \in Dispatched => state = "dispatching",
         pc'[w] # "complete",
         pc'[w] \in Closing => ctx'[w].out # "completed"
  PROVE  RunInv'
<1>1. RunOf(w) \in RunIds /\ runs[RunOf(w)].status = "running" /\ ~ IsTerminal(RunOf(w))
  BY InRun DEF RunInv, OpenRun
<1>2. /\ OnlyRun(RunOf(w))
      /\ runs'[RunOf(w)].task = runs[RunOf(w)].task /\ runs'[RunOf(w)].status = "running"
      /\ runs'[RunOf(w)].rel = state
  BY <1>1, AdvancedRun
<1>3. CoherentRow(runs'[RunOf(w)])
  BY <1>2 DEF CoherentRow, Terminal
<1> QED
  BY <1>1, <1>2, <1>3, RunMoves

LEMMA LeaseRun ==
  ASSUME TypeInv, OwnInv, RunInv, JobsStay, NEW w \in Executors, CheckLease(w)
  PROVE  RunInv'
<1>1. pc[w] \in HasRun /\ Active(w) /\ UNCHANGED <<runs, stale>>
  BY DEF CheckLease, LeaseNext, HasRun, PC, InTry, db, Active
<1>2. OwnsLease(held[w], token[w])
  BY <1>1, OwnInvImplies DEF ExclusiveExecutor, CheckLease, LeaseNext
<1>3. Goto(w, LeaseNext[pc[w]], ctx[w])
  BY <1>2 DEF CheckLease
<1>4. /\ LeaseNext[pc[w]] # "complete"
      /\ LeaseNext[pc[w]] \in Dispatched => pc[w] \in Dispatched
      /\ LeaseNext[pc[w]] \in Closing => pc[w] \in Closing
  BY DEF CheckLease, LeaseNext, Dispatched, Closing
<1> QED
  BY <1>1, <1>3, <1>4, GotoStays

LEMMA StepsOfRun ==
  ASSUME TypeInv, OwnInv, RunInv, JobsStay, NEW w \in Executors,
         LoadStep(w) \/ GuardCheck(w) \/ GuardCommit(w) \/ CallProvider(w) \/ Consolidate(w)
  PROVE  RunInv'
<1> USE DEF db
<1>1. CASE LoadStep(w)
  <2>1. pc[w] = "load" /\ pc[w] \in HasRun /\ UNCHANGED <<runs, stale>>
    BY <1>1 DEF LoadStep, HasRun, PC, InTry
  <2>2. (\E reply : NextStep(w, reply)) \/ Goto(w, "lease", ctx[w])
    BY <1>1 DEF LoadStep
  <2> QED
    BY <2>1, <2>2, NextStays, GotoStays DEF Dispatched, Closing
<1>2. CASE GuardCheck(w)
  <2>1. pc[w] = "guard" /\ pc[w] \in HasRun /\ UNCHANGED <<runs, stale>>
    BY <1>2 DEF GuardCheck, HasRun, PC, InTry
  <2>2. \/ \E o \in {"failed", "reconciliation_required", "cancelled"} : Close(w, o)
        \/ Goto(w, "guardCommit", ctx[w])
    BY <1>2 DEF GuardCheck
  <2> QED
    BY <2>1, <2>2, CloseStays, GotoStays DEF Dispatched, Closing
<1>3. CASE GuardCommit(w)
  <2>1. /\ pc[w] \in HasRun /\ UNCHANGED stale /\ runs' = Advanced(RunOf(w), "dispatching")
        /\ Goto(w, "call", ctx[w])
    BY <1>3 DEF GuardCommit, HasRun, PC, InTry
  <2>2. /\ pc'[w] = "call" /\ ctx'[w].run = RunOf(w) /\ UNCHANGED held
        /\ \A v \in Executors \ {w} : pc'[v] = pc[v] /\ ctx'[v] = ctx[v]
    BY <2>1, Gone DEF RunOf
  <2>3. "dispatching" \in Reliability \ Terminal
    BY DEF Reliability, Terminal
  <2> QED
    BY <2>1, <2>2, <2>3, AdvancedStays DEF Closing
<1>4. CASE CallProvider(w)
  <2>1. pc[w] = "call" /\ pc[w] \in HasRun /\ UNCHANGED <<runs, stale>> /\ ctx[w] \in Ctx
    BY <1>4, InRun DEF CallProvider, HasRun, PC, InTry
  <2>2. CASE Close(w, "reconciliation_required")
    BY <2>1, <2>2, CloseStays
  <2>3. ASSUME NEW l \in {"persist", "extLease", "extReject"}, NEW reply,
               Goto(w, l, [ctx[w] EXCEPT !.reply = reply])
        PROVE  RunInv'
    <3> DEFINE c == [ctx[w] EXCEPT !.reply = reply]
    <3>1. c.run = ctx[w].run
      BY <2>1 DEF Ctx
    <3>2. Goto(w, l, c)
      BY <2>3
    <3> HIDE DEF c
    <3>3. /\ pc'[w] = l /\ ctx'[w].run = RunOf(w) /\ UNCHANGED held
          /\ \A v \in Executors \ {w} : pc'[v] = pc[v] /\ ctx'[v] = ctx[v]
      BY <3>1, <3>2, Gone DEF RunOf
    <3> QED
      BY <2>1, <3>3, RunStays DEF Dispatched, Closing
  <2>4. \/ Close(w, "reconciliation_required")
        \/ \E l \in {"persist", "extLease", "extReject"} : \E reply :
             Goto(w, l, [ctx[w] EXCEPT !.reply = reply])
    BY <1>4 DEF CallProvider
  <2> QED
    BY <2>2, <2>3, <2>4
<1>5. CASE Consolidate(w)
  <2>1. pc[w] \in HasRun /\ UNCHANGED <<runs, stale>> /\ Goto(w, "decide", ctx[w])
    BY <1>5 DEF Consolidate, HasRun, PC, InTry
  <2> QED
    BY <2>1, GotoStays DEF Dispatched, Closing
<1> QED
  BY <1>1, <1>2, <1>3, <1>4, <1>5

LEMMA PersistRun ==
  ASSUME TypeInv, OwnInv, RunInv, JobsStay, NEW w \in Executors,
         PersistStep(w) \/ PersistExtraction(w) \/ RejectExtraction(w)
  PROVE  RunInv'
<1>1. /\ pc[w] \in HasRun /\ pc[w] \in {"persist", "extReject"} /\ UNCHANGED stale
      /\ ctx[w] \in Ctx
  BY InRun DEF PersistStep, PersistExtraction, RejectExtraction, HasRun, PC, InTry
<1>2. UNCHANGED runs \/ runs' = Advanced(RunOf(w), "result_checkpointed")
  BY DEF PersistStep, PersistExtraction, RejectExtraction
<1>3. \/ \E reply : NextStep(w, reply)
      \/ \E s : NextExtraction(w, s)
      \/ Goto(w, "apply", ctx[w])
      \/ Goto(w, "finish", [ctx[w] EXCEPT !.out = "threw"])
      \/ Goto(w, "failLease", [ctx[w] EXCEPT !.out = "failed"])
  BY DEF PersistStep, PersistExtraction, RejectExtraction, Finish
<1> DEFINE failed == [ctx[w] EXCEPT !.out = "failed"]
<1>4. failed.out = "failed" /\ failed.run = RunOf(w)
  BY <1>1 DEF Ctx, RunOf
<1>5. /\ pc'[w] \in {"load", "finLease", "apply", "finish", "failLease"} /\ UNCHANGED held
      /\ pc'[w] # "finish" => ctx'[w].run = RunOf(w)
      /\ pc'[w] = "failLease" => ctx'[w].out = "failed"
      /\ \A v \in Executors \ {w} : pc'[v] = pc[v] /\ ctx'[v] = ctx[v]
  <2>1. CASE (\E reply : NextStep(w, reply)) \/ (\E s : NextExtraction(w, s))
    BY <1>1, <2>1, NextOfRun
  <2>2. CASE Goto(w, "apply", ctx[w]) \/ Goto(w, "finish", [ctx[w] EXCEPT !.out = "threw"])
    BY <2>2, Gone DEF RunOf
  <2>3. CASE Goto(w, "failLease", [ctx[w] EXCEPT !.out = "failed"])
    <3>1. Goto(w, "failLease", failed)
      BY <2>3
    <3> HIDE DEF failed
    <3> QED
      BY <1>4, <3>1, Gone
  <2> QED
    BY <1>3, <2>1, <2>2, <2>3
<1>6. pc'[w] \notin Dispatched /\ pc'[w] # "complete"
  BY <1>5 DEF Dispatched
<1>7. (pc'[w] \in HasRun => ctx'[w].run = RunOf(w)) /\ (pc'[w] \in Closing => ctx'[w].out # "completed")
  BY <1>5 DEF HasRun, Closing
<1>8. CASE UNCHANGED runs
  BY <1>1, <1>5, <1>6, <1>7, <1>8, RunStays
<1>9. CASE runs' = Advanced(RunOf(w), "result_checkpointed")
  <2>1. "result_checkpointed" \in Reliability \ Terminal
    BY DEF Reliability, Terminal
  <2> QED
    BY <1>1, <1>5, <1>6, <1>7, <1>9, <2>1, AdvancedStays
<1> QED
  BY <1>2, <1>8, <1>9

LEMMA ExtractionsRun ==
  ASSUME TypeInv, OwnInv, RunInv, JobsStay, NEW w \in Executors,
         \/ DecideExtraction(w) \/ LoadExtraction(w) \/ ApplyExtraction(w) \/ SwallowApply(w)
  PROVE  RunInv'
<1>1. /\ pc[w] \in {"decide", "load", "apply"} /\ pc[w] \in HasRun
      /\ Active(w) /\ UNCHANGED <<runs, stale>>
  BY DEF DecideExtraction, LoadExtraction, ApplyExtraction, SwallowApply, HasRun, PC, InTry,
         Active, db
<1>2. CASE \E s : NextExtraction(w, s)
  BY <1>1, <1>2, NextStays
<1>3. CASE \E l \in {"finLease", "lease", "apply"} : Goto(w, l, ctx[w])
  BY <1>1, <1>3, GotoStays DEF Dispatched, Closing
<1>4. CASE ApplyExtraction(w)
  <2>1. OwnsLease(held[w], token[w])
    BY <1>1, <1>4, OwnInvImplies DEF ExclusiveExecutor, ApplyExtraction
  <2> QED
    BY <1>2, <1>4, <2>1 DEF ApplyExtraction
<1> QED
  BY <1>2, <1>3, <1>4 DEF DecideExtraction, LoadExtraction, SwallowApply

LEMMA EndsRun ==
  ASSUME TypeInv, OwnInv, ReplyInv, RunInv, JobsStay, NEW w \in Executors,
         \/ FinalizeCheck(w) \/ FinalizeCommit(w) \/ CompleteRun(w)
         \/ CloseCheck(w) \/ CloseCommit(w)
  PROVE  RunInv'
<1> USE DEF db
<1> DEFINE r == RunOf(w)
<1>1. pc[w] \in HasRun /\ UNCHANGED stale
  BY DEF FinalizeCheck, FinalizeCommit, CompleteRun, CloseCheck, CloseCommit, HasRun, PC, InTry
<1>2. /\ r \in RunIds /\ runs[r].status = "running" /\ ~ IsTerminal(r)
      /\ ctx[w] \in Ctx /\ GoodPlace(pc[w], ctx[w])
  BY <1>1, InRun, Here DEF RunInv, OpenRun
<1>0. ASSUME NEW status, NEW rel, runs' = [runs EXCEPT ![r].status = status, ![r].rel = rel]
      PROVE  /\ OnlyRun(r) /\ runs'[r].task = runs[r].task /\ runs'[r].status = status
             /\ runs'[r].rel = rel /\ runs'[r].final = runs[r].final
  <2>1. r \in RunIds /\ runs \in [RunIds -> RunRow] /\ runs[r] \in RunRow
    BY <1>2 DEF TypeInv, DbOK
  <2> HIDE DEF r
  <2> QED
    BY <1>0, <2>1 DEF OnlyRun, RunRow
<1>3. CASE FinalizeCheck(w)
  <2>1. /\ UNCHANGED runs
        /\ (\E o : Goto(w, "finish", [ctx[w] EXCEPT !.out = o])) \/ Goto(w, "finalizeCommit", ctx[w])
    BY <1>3 DEF FinalizeCheck, Finish
  <2> QED
    BY <1>1, <2>1, FinishedRun, GotoStays DEF Dispatched, Closing
<1>4. CASE CloseCheck(w)
  <2>1. /\ UNCHANGED runs /\ pc[w] = "close"
        /\ (\E o : Goto(w, "finish", [ctx[w] EXCEPT !.out = o])) \/ Goto(w, "closeCommit", ctx[w])
    BY <1>4 DEF CloseCheck, Finish
  <2> QED
    BY <1>1, <2>1, FinishedRun, GotoStays DEF Dispatched, Closing
<1>5. CASE FinalizeCommit(w)
  <2>1. /\ Goto(w, "complete", ctx[w])
        /\ runs' = [runs EXCEPT ![r].final = ctx[w].got, ![r].rel = "finalizing"]
    BY <1>5 DEF FinalizeCommit
  <2>2. /\ OnlyRun(r) /\ runs'[r].task = runs[r].task /\ runs'[r].status = "running"
        /\ runs'[r].rel = "finalizing"
    BY <1>2, <2>1, MarkedRun
  <2>3. runs'[r].final # NoResult
    BY <1>5, MarkStays
  <2>4. CoherentRow(runs'[r])
    BY <2>2 DEF CoherentRow, Terminal
  <2>5. /\ pc'[w] = "complete" /\ ctx'[w].run = r /\ UNCHANGED held
        /\ \A v \in Executors \ {w} : pc'[v] = pc[v] /\ ctx'[v] = ctx[v]
    BY <2>1, Gone DEF RunOf
  <2> HIDE DEF r
  <2> QED
    BY <1>1, <1>2, <2>2, <2>3, <2>4, <2>5, RunMoves DEF r, Dispatched, Closing
<1>6. CASE CompleteRun(w)
  <2>1. /\ \E c : Goto(w, "finish", c)
        /\ runs' = [runs EXCEPT ![r].status = "completed", ![r].rel = "completed"]
    BY <1>6 DEF CompleteRun, Finish
  <2>2. /\ OnlyRun(r) /\ runs'[r].task = runs[r].task /\ runs'[r].status = "completed"
        /\ runs'[r].rel = "completed" /\ runs'[r].final = runs[r].final
    BY <1>2, <2>1, <1>0
  <2>3. runs[r].final # NoResult
    BY <1>6 DEF CompleteRun, RunInv, Marked
  <2>4. CoherentRow(runs'[r])
    BY <2>2, <2>3 DEF CoherentRow, Terminal
  <2>5. /\ pc'[w] = "finish" /\ UNCHANGED held
        /\ \A v \in Executors \ {w} : pc'[v] = pc[v] /\ ctx'[v] = ctx[v]
    BY <2>1, Gone
  <2> HIDE DEF r
  <2> QED
    BY <1>1, <1>2, <2>2, <2>4, <2>5, RunMoves DEF r, Dispatched, Closing, HasRun
<1>7. CASE CloseCommit(w)
  <2>1. /\ \E c : Goto(w, "finish", c)
        /\ runs' = [runs EXCEPT ![r].status = "failed", ![r].rel = ctx[w].out]
    BY <1>7 DEF CloseCommit, Finish
  <2>2. /\ OnlyRun(r) /\ runs'[r].task = runs[r].task /\ runs'[r].status = "failed"
        /\ runs'[r].rel = ctx[w].out
    BY <1>2, <2>1, <1>0
  <2>3. ctx[w].out \in Terminal \ {"completed"}
    BY <1>2, <1>7 DEF CloseCommit, RunInv, Closes, GoodPlace, Closing
  <2>4. CoherentRow(runs'[r])
    BY <2>2, <2>3 DEF CoherentRow
  <2>5. /\ pc'[w] = "finish" /\ UNCHANGED held
        /\ \A v \in Executors \ {w} : pc'[v] = pc[v] /\ ctx'[v] = ctx[v]
    BY <2>1, Gone
  <2> HIDE DEF r
  <2> QED
    BY <1>1, <1>2, <2>2, <2>4, <2>5, RunMoves DEF r, Dispatched, Closing, HasRun
<1> QED
  BY <1>3, <1>4, <1>5, <1>6, <1>7

\* Nobody takes the run of a job that is listed, and only a job without one is
\* recovered.
LEMMA ElsewhereRun ==
  ASSUME TypeInv, RunInv, JobsStay, Elsewhere PROVE RunInv'
<1>1. UNCHANGED <<pc, ctx, held>>
  BY ElsewhereRuns
<1>2. UNCHANGED runs
  <2>1. ASSUME NEW j \in JobIds, RecoverInterrupted(j) PROVE UNCHANGED runs
    <3>1. runs' = [r \in RunIds |-> IF r \in RunningRuns(jobs[j].task)
                                    THEN [runs[r] EXCEPT !.status = "failed"] ELSE runs[r]]
      BY <2>1 DEF RecoverInterrupted
    <3>2. RunningRuns(jobs[j].task) = {}
      BY <2>1 DEF RecoverInterrupted, RunInv, NothingToRecover
    <3>3. \A r \in RunIds : runs'[r] = runs[r]
      BY <3>1, <3>2
    <3> QED
      BY <3>1, <3>3 DEF TypeInv, DbOK
  <2> QED
    BY <2>1, ElsewhereRuns
<1>3. \A j \in JobIds :
        stale'[j] = "recover" =>
          stale[j] # "no" /\ (stale[j] = "recover" \/ RunningRuns(jobs[j].task) = {})
  <2> USE DEF TypeInv, RestOK
  <2>1. ASSUME NEW i \in JobIds, InspectStale(i)
        PROVE  \A j \in JobIds :
                 stale'[j] = "recover" =>
                   stale[j] # "no" /\ (stale[j] = "recover" \/ RunningRuns(jobs[j].task) = {})
    <3>1. stale[i] = "inspect"
      BY <2>1 DEF InspectStale
    <3>2. stale'[i] = "recover" => RunningRuns(jobs[i].task) = {}
      BY <2>1 DEF InspectStale
    <3>3. \A j \in JobIds \ {i} : stale'[j] = stale[j]
      BY <2>1 DEF InspectStale
    <3> QED
      BY <3>1, <3>2, <3>3
  <2>2. ASSUME NEW i \in JobIds, RequeueStale(i) \/ RecoverInterrupted(i) \/ FinishRecovered(i)
        PROVE  \A j \in JobIds : stale'[j] = "recover" => stale[j] = "recover"
    BY <2>2 DEF RequeueStale, RecoverInterrupted, FinishRecovered
  <2>3. CASE ListStale \/ ReconcilerCrash
    BY <2>3 DEF ListStale, ReconcilerCrash
  <2>4. CASE \/ \E j \in JobIds : ExpireOrphan(j) \/ ExpireHeld(j)
             \/ \E t \in Tasks : User(t)
             \/ UNCHANGED vars
    <3>1. UNCHANGED stale
      BY <2>4 DEF ExpireOrphan, ExpireHeld, vars, User, RunTask, RerunRead, RerunLookup,
                  RerunCommit, CancelRead, CancelCommit, MarkRead, MarkCommit, SettleRead,
                  SettleCommit
    <3> QED
      BY <3>1
  <2> QED
    BY <2>1, <2>2, <2>3, <2>4 DEF Elsewhere, Handle
<1>4. \A j \in JobIds :
        stale'[j] = "recover" => jobs[j].status # "absent" /\ RunningRuns(jobs[j].task) = {}
  BY <1>3 DEF RunInv, NothingToRecover, TypeInv, RestOK, Listed
<1> QED
  BY <1>1, <1>2, <1>4, RunQuiet

LEMMA RunInit == Init => RunInv
<1> SUFFICES ASSUME Init PROVE RunInv
  OBVIOUS
<1>1. OpenRun /\ Intent /\ Marked /\ Closes
  BY DEF Init, OpenRun, Intent, Dispatched, Marked, Closes, Closing, HasRun
<1>2. NothingToRecover /\ RunRowCoherent
  BY DEF Init, NothingToRecover, RunRowCoherent, NoRun
<1> QED
  BY <1>1, <1>2 DEF RunInv

LEMMA RunNext ==
  ASSUME RunAssumption, TypeInv, OwnInv, ReplyInv, RunInv, [Next]_vars
  PROVE  RunInv'
<1>1. JobsStay
  BY JobsGoOn
<1>2. ASSUME NEW w \in Executors, ClaimNext(w) \/ ClaimForTask(w) PROVE RunInv'
  BY <1>1, <1>2, OutsideRun DEF ClaimNext, ClaimForTask
<1>3. ASSUME NEW w \in Executors, Work(w) PROVE RunInv'
  BY <1>1, <1>3, OutsideRun, BeginsRun, ResumesRun, LeaseRun, StepsOfRun, PersistRun,
     ExtractionsRun, EndsRun DEF Work
<1>4. ASSUME NEW w \in Executors, Crash(w) \/ Throw(w) \/ SwallowApply(w) PROVE RunInv'
  BY <1>1, <1>4, OutsideRun, ExtractionsRun
<1>5. CASE Elsewhere
  BY <1>1, <1>5, ElsewhereRun
<1> QED
  BY <1>2, <1>3, <1>4, <1>5 DEF Next, Elsewhere

-----------------------------------------------------------------------------
(* An executor writes rows of its own run only. *)

OnlyRows(r) ==
  \A q \in RunIds \ {r} :
    /\ runs'[q] = runs[q] /\ row'[q] = row[q] /\ ckpt'[q] = ckpt[q]
    /\ bill'[q] = bill[q] /\ ext'[q] = ext[q] /\ calls'[q] = calls[q]

LEMMA StepRows ==
  ASSUME TypeInv, NEW w \in Executors, pc[w] \in HasRun,
         Work(w) \/ Crash(w) \/ Throw(w) \/ SwallowApply(w)
  PROVE  OnlyRows(RunOf(w))
<1> DEFINE r == RunOf(w)
<1>1. r \in RunIds
  BY InRun
<1> HIDE DEF r
<1>2. /\ runs \in [RunIds -> RunRow] /\ row \in [RunIds -> [Steps -> {"none", "answered", "failed", "consolidated"}]]
      /\ ckpt \in [RunIds -> [Steps -> Reply]] /\ bill \in [RunIds -> [Steps -> Nat]]
      /\ ext \in [RunIds -> [Extractions -> {"none", "applied", "failed"}]]
      /\ calls \in [RunIds -> [Steps -> Nat]]
  BY DEF TypeInv, DbOK
<1>3. ~ PreflightCommit(w) /\ ~ Resume(w) /\ ~ ReadToken(w) /\ ~ ReadTask(w) /\ ~ FinishJob(w)
      /\ ~ PreflightCheck(w)
  BY DEF PreflightCommit, Resume, ReadToken, ReadTask, FinishJob, PreflightCheck, HasRun
<1>4. CASE UNCHANGED <<runs, row, ckpt, bill, ext, calls>>
  BY <1>4 DEF OnlyRows
<1>5. CASE \/ LoadStep(w) \/ CheckLease(w) \/ GuardCheck(w) \/ DecideExtraction(w)
           \/ LoadExtraction(w) \/ FinalizeCheck(w) \/ CloseCheck(w)
           \/ Crash(w) \/ Throw(w) \/ SwallowApply(w)
  <2>1. UNCHANGED <<runs, row, ckpt, bill, ext, calls>>
    BY <1>5 DEF LoadStep, CheckLease, GuardCheck, DecideExtraction, LoadExtraction,
                FinalizeCheck, CloseCheck, Crash, Throw, SwallowApply, db
  <2> QED
    BY <1>4, <2>1
<1>6. CASE GuardCommit(w)
  BY <1>1, <1>2, <1>6, AdvancedRun DEF GuardCommit, OnlyRows, OnlyRun, Reliability, r
<1>7. CASE CallProvider(w)
  <2>1. UNCHANGED <<runs, row, ckpt, bill, ext>>
    BY <1>7 DEF CallProvider
  <2>2. \/ UNCHANGED calls
        \/ \E n : calls' = [calls EXCEPT ![r] = n]
    BY <1>7 DEF CallProvider, r
  <2>3. \A q \in RunIds \ {r} : calls'[q] = calls[q]
    BY <1>2, <2>2
  <2> QED
    BY <2>1, <2>3 DEF OnlyRows, r
<1>8. CASE PersistStep(w) \/ PersistExtraction(w)
  <2>1. UNCHANGED <<ext, calls>>
    BY <1>8 DEF PersistStep, PersistExtraction
  <2>2. /\ row' = row \/ \E n : row' = [row EXCEPT ![r] = n]
        /\ ckpt' = ckpt \/ \E n : ckpt' = [ckpt EXCEPT ![r] = n]
        /\ bill' = bill \/ \E n : bill' = [bill EXCEPT ![r] = n]
        /\ UNCHANGED runs \/ runs' = Advanced(r, "result_checkpointed")
    BY <1>8 DEF PersistStep, PersistExtraction, r
  <2>3. \A q \in RunIds \ {r} : row'[q] = row[q] /\ ckpt'[q] = ckpt[q] /\ bill'[q] = bill[q]
    BY <1>2, <2>2
  <2>4. UNCHANGED runs \/ OnlyRun(r)
    BY <1>1, <2>2, AdvancedRun DEF Reliability
  <2> QED
    BY <2>1, <2>3, <2>4 DEF OnlyRows, OnlyRun, r
<1>9. CASE Consolidate(w)
  <2>1. UNCHANGED <<runs, ckpt, bill, ext, calls>> /\ (row' = row \/ \E n : row' = [row EXCEPT ![r] = n])
    BY <1>9 DEF Consolidate, r
  <2>2. \A q \in RunIds \ {r} : row'[q] = row[q]
    BY <1>2, <2>1
  <2> QED
    BY <2>1, <2>2 DEF OnlyRows, r
<1>10. CASE RejectExtraction(w) \/ ApplyExtraction(w)
  <2>1. /\ UNCHANGED <<row, ckpt, bill, calls>>
        /\ ext' = ext \/ \E n : ext' = [ext EXCEPT ![r] = n]
        /\ UNCHANGED runs \/ runs' = Advanced(r, "result_checkpointed")
    BY <1>10 DEF RejectExtraction, ApplyExtraction, r
  <2>2. \A q \in RunIds \ {r} : ext'[q] = ext[q]
    BY <1>2, <2>1
  <2>3. UNCHANGED runs \/ OnlyRun(r)
    BY <1>1, <2>1, AdvancedRun DEF Reliability
  <2> QED
    BY <2>1, <2>2, <2>3 DEF OnlyRows, OnlyRun, r
<1>11. CASE FinalizeCommit(w) \/ CompleteRun(w) \/ CloseCommit(w)
  <2>1. /\ UNCHANGED <<row, ckpt, bill, ext, calls>>
        /\ \E n : runs' = [runs EXCEPT ![r] = n]
    BY <1>11 DEF FinalizeCommit, CompleteRun, CloseCommit, r
  <2>2. \A q \in RunIds \ {r} : runs'[q] = runs[q]
    BY <1>2, <2>1
  <2> QED
    BY <2>1, <2>2 DEF OnlyRows, r
<1> QED
  BY <1>3, <1>5, <1>6, <1>7, <1>8, <1>9, <1>10, <1>11 DEF Work

\* Nobody else writes a row, but for the run a preflight inserts.
LEMMA OtherRows ==
  ASSUME TypeInv, NEW w \in Executors, pc[w] \notin HasRun,
         \/ ClaimNext(w) \/ ClaimForTask(w) \/ Work(w)
         \/ Crash(w) \/ Throw(w) \/ SwallowApply(w)
  PROVE  /\ UNCHANGED <<row, ckpt, bill, ext, calls>>
         /\ UNCHANGED runs \/ PreflightCommit(w)
<1> USE DEF db
<1>1. CASE \/ ReadToken(w) \/ ReadTask(w) \/ FinishJob(w) \/ PreflightCheck(w) \/ PreflightCommit(w)
           \/ Resume(w) \/ Crash(w) \/ Throw(w)
  BY <1>1 DEF ReadToken, ReadTask, FinishJob, PreflightCheck, PreflightCommit, Resume, Crash, Throw
<1>2. CASE ClaimNext(w) \/ ClaimForTask(w)
  BY <1>2 DEF ClaimNext, ClaimForTask, Claim
<1>3. pc[w] \notin {"load", "lease", "extLease", "finLease", "failLease", "guard", "guardCommit",
                    "call", "persist", "decide", "extReject", "apply", "finalize",
                    "finalizeCommit", "complete", "close", "closeCommit"}
  BY DEF HasRun, PC, InTry
<1>4. /\ ~ LoadStep(w) /\ ~ CheckLease(w) /\ ~ GuardCheck(w) /\ ~ GuardCommit(w)
      /\ ~ CallProvider(w) /\ ~ PersistStep(w) /\ ~ Consolidate(w)
  BY <1>3 DEF LoadStep, CheckLease, LeaseNext, GuardCheck, GuardCommit, CallProvider,
              PersistStep, Consolidate
<1>5. /\ ~ DecideExtraction(w) /\ ~ LoadExtraction(w) /\ ~ RejectExtraction(w)
      /\ ~ PersistExtraction(w) /\ ~ ApplyExtraction(w) /\ ~ SwallowApply(w)
  BY <1>3 DEF DecideExtraction, LoadExtraction, RejectExtraction, PersistExtraction,
              ApplyExtraction, SwallowApply
<1>6. /\ ~ FinalizeCheck(w) /\ ~ FinalizeCommit(w) /\ ~ CompleteRun(w)
      /\ ~ CloseCheck(w) /\ ~ CloseCommit(w)
  BY <1>3 DEF FinalizeCheck, FinalizeCommit, CompleteRun, CloseCheck, CloseCommit
<1> QED
  BY <1>1, <1>2, <1>4, <1>5, <1>6 DEF Work

\* What everybody but the executors leaves alone: all rows.
LEMMA ElsewhereRows ==
  ASSUME TypeInv, RunInv, Elsewhere
  PROVE  UNCHANGED <<runs, row, ckpt, bill, ext, calls>>
<1>1. ASSUME NEW j \in JobIds, RecoverInterrupted(j) PROVE UNCHANGED runs
  <2>1. runs' = [r \in RunIds |-> IF r \in RunningRuns(jobs[j].task)
                                  THEN [runs[r] EXCEPT !.status = "failed"] ELSE runs[r]]
    BY <1>1 DEF RecoverInterrupted
  <2>2. RunningRuns(jobs[j].task) = {}
    BY <1>1 DEF RecoverInterrupted, RunInv, NothingToRecover
  <2>3. \A r \in RunIds : runs'[r] = runs[r]
    BY <2>1, <2>2
  <2> QED
    BY <2>1, <2>3 DEF TypeInv, DbOK
<1> QED
  BY <1>1, ElsewhereRuns

-----------------------------------------------------------------------------
(* What a run promises while its executor is alone with it. *)

LEMMA TerminalStays ==
  ASSUME TypeInv, ReplyInv, RunInv, [Next]_vars, NEW r \in RunIds, IsTerminal(r)
  PROVE  runs'[r] = runs[r] /\ calls'[r] = calls[r] /\ bill'[r] = bill[r]
<1>1. ASSUME NEW w \in Executors,
             \/ ClaimNext(w) \/ ClaimForTask(w) \/ Work(w)
             \/ Crash(w) \/ Throw(w) \/ SwallowApply(w)
      PROVE  runs'[r] = runs[r] /\ calls'[r] = calls[r] /\ bill'[r] = bill[r]
  <2>1. CASE pc[w] \in HasRun
    <3>1. r # RunOf(w)
      BY <2>1 DEF RunInv, OpenRun
    <3>2. ~ ClaimNext(w) /\ ~ ClaimForTask(w)
      BY <2>1 DEF ClaimNext, ClaimForTask, Claim, HasRun
    <3> QED
      BY <1>1, <2>1, <3>1, <3>2, StepRows DEF OnlyRows
  <2>2. CASE pc[w] \notin HasRun
    <3>1. CASE PreflightCommit(w)
      <4>1. PICK q \in RunIds : runs[q].status = "absent" /\ OnlyRun(q)
        BY <3>1, InsertedRun
      <4>2. r # q
        BY <4>1 DEF ReplyInv, Blank, NoRun, IsTerminal, Terminal
      <4> QED
        BY <1>1, <2>2, <4>1, <4>2, OtherRows DEF OnlyRun
    <3> QED
      BY <1>1, <2>2, <3>1, OtherRows
  <2> QED
    BY <2>1, <2>2
<1>2. CASE Elsewhere
  BY <1>2, ElsewhereRows
<1> QED
  BY <1>1, <1>2 DEF Next, Elsewhere

\* The invariant that carries the theorems about runs.
RunsInv == TypeInv /\ OwnInv /\ BillInv /\ ReplyInv /\ RunInv

LEMMA RunsInit == Init => RunsInv
BY TypeInit, OwnInit, BillInit, ReplyInit, RunInit DEF RunsInv

LEMMA RunsNext == Timely => (RunsInv /\ [Next]_vars => RunsInv')
BY RunAssumption, TypeNext, OwnNext, BillNext, ReplyNext, RunNext DEF RunsInv

LEMMA RunsAlways == Timely => (Spec => []RunsInv)
<1> SUFFICES ASSUME Timely PROVE Spec => []RunsInv
  OBVIOUS
<1>1. RunsInv /\ [Next]_vars => RunsInv'
  BY RunsNext
<1> QED
  BY <1>1, RunsInit, PTL DEF Spec

\* A run that ended keeps its outcome and costs nothing more: the finalizers'
\* early returns need no lock as long as nobody but its executor works on it,
\* whatever users ask for and however often executors die.
THEOREM EndedRunsAreFinal == Timely => (Spec => TerminalIsFinal)
<1> SUFFICES ASSUME Timely PROVE Spec => TerminalIsFinal
  OBVIOUS
<1>1. RunsInv /\ [Next]_vars => RunsInv'
  BY RunsNext
<1>2. RunsInv /\ [Next]_vars =>
        [\A r \in RunIds :
           IsTerminal(r) => /\ runs'[r] = runs[r]
                            /\ calls'[r] = calls[r] /\ bill'[r] = bill[r]]_vars
  BY TerminalStays DEF RunsInv
<1> QED
  BY <1>1, <1>2, RunsInit, PTL DEF Spec, TerminalIsFinal

\* The two states of a run agree at every moment (runs.status and
\* runs.reliability_state are written by different statements of runner.ts).
THEOREM RunRowsCohere == Timely => (Spec => []RunRowCoherent)
<1> SUFFICES ASSUME Timely PROVE Spec => []RunRowCoherent
  OBVIOUS
<1>1. RunsInv => RunRowCoherent
  BY DEF RunsInv, RunInv
<1> QED
  BY <1>1, RunsAlways, PTL

\* Nobody calls a provider without its intent on record, so every crash in a
\* call is seen as an uncertain dispatch (guardProviderDispatch).
THEOREM IntentIsRecorded == Timely => (Spec => []IntentBeforeCall)
<1> SUFFICES ASSUME Timely PROVE Spec => []IntentBeforeCall
  OBVIOUS
<1>1. RunsInv => IntentBeforeCall
  BY DEF RunsInv, RunInv, Intent, Dispatched, IntentBeforeCall
<1> QED
  BY <1>1, RunsAlways, PTL

-----------------------------------------------------------------------------
(* One running run per task: every step keeps the invariant.               *)
(*                                                                         *)
(* The task's status is what keeps a second run away: while a run is going *)
(* on it says "running" or "cancelled", nobody who reads that preflights,  *)
(* and only the run's own executor, or a reconciler that found no run,     *)
(* says otherwise.  A re-run that read the task before the run began says  *)
(* "pending" over it; hence the assumption on UserOps.                     *)

BeforeRun == {"preflight", "preflightCommit"}

\* No run begins, and no task leaves the status its run needs.
LEMMA OneCalm ==
  ASSUME TypeInv, JobsStay, OneInv, InFlight',
         \A r \in RunIds : runs'[r].status = "running" =>
           runs[r].status = "running" /\ runs'[r].task = runs[r].task,
         \A t \in Tasks : tasks'[t].status \in {tasks[t].status, "cancelled"},
         \A v \in Executors :
           pc'[v] \in BeforeRun =>
             /\ Active(v) /\ held'[v] = held[v]
             /\ \/ pc[v] \in BeforeRun
                \/ tasks[TaskOf(v)].status \in {"pending", "failed"},
         \A v \in Executors :
           pc'[v] = "resume" =>
             /\ Active(v) /\ held'[v] = held[v]
             /\ pc[v] = "resume" \/ Going(TaskOf(v)),
         \A j \in JobIds :
           stale'[j] \in {"inspect", "recover"} =>
             /\ jobs[j].status # "absent"
             /\ stale[j] \in {"inspect", "recover"} \/ Going(jobs[j].task)
  PROVE  OneInv'
<1>1. RunShows'
  BY DEF OneInv, RunShows, Going
<1>2. NoneYet'
  <2> SUFFICES ASSUME NEW v \in Executors, pc'[v] \in BeforeRun
               PROVE  /\ \A r \in RunIds : ~ (runs'[r].task = jobs'[held'[v]].task
                                              /\ runs'[r].status = "running")
                      /\ tasks'[jobs'[held'[v]].task].status \in {"pending", "failed", "cancelled"}
    BY DEF NoneYet, RunningRuns, TaskOf, BeforeRun
  <2>1. jobs'[held'[v]].task = TaskOf(v) /\ TaskOf(v) \in Tasks
    BY SameTask, Here
  <2>2. /\ \A r \in RunIds : ~ (runs[r].task = TaskOf(v) /\ runs[r].status = "running")
        /\ tasks[TaskOf(v)].status \in {"pending", "failed", "cancelled"}
    BY DEF OneInv, NoneYet, RunningRuns, BeforeRun, RunShows, Going
  <2> QED
    BY <2>1, <2>2
<1>3. ToResume'
  <2> SUFFICES ASSUME NEW v \in Executors, pc'[v] = "resume"
               PROVE  tasks'[jobs'[held'[v]].task].status \in {"running", "cancelled"}
    BY DEF ToResume, Going, TaskOf
  <2>1. jobs'[held'[v]].task = TaskOf(v) /\ TaskOf(v) \in Tasks
    BY SameTask, Here
  <2> QED
    BY <2>1 DEF OneInv, ToResume, Going
<1>4. ToRecover'
  <2> SUFFICES ASSUME NEW j \in JobIds, stale'[j] \in {"inspect", "recover"}
               PROVE  tasks'[jobs'[j].task].status \in {"running", "cancelled"}
    BY DEF ToRecover, Going
  <2>1. jobs'[j].task = jobs[j].task /\ jobs[j].task \in Tasks
    BY DEF JobsStay, TypeInv, JobsOwned
  <2> QED
    BY <2>1 DEF OneInv, ToRecover, Going
<1>5. OneRunningRun'
  BY DEF OneInv, OneRunningRun, RunningRuns
<1> QED
  BY <1>1, <1>2, <1>3, <1>4, <1>5 DEF OneInv

\* A task whose run is over: its status is free, since nobody but executor w
\* works on it and no listed job is of it.
LEMMA OneFreed ==
  ASSUME TypeInv, OneInv, UNCHANGED <<jobs, held>>, NEW t \in Tasks,
         NEW s, tasks' = [tasks EXCEPT ![t].status = s],
         InFlight' \/ (UNCHANGED asked /\ Going(t)),
         \A r \in RunIds : runs'[r].status = "running" =>
           /\ runs[r].status = "running" /\ runs'[r].task = runs[r].task
           /\ runs[r].task # t,
         \A v \in Executors :
           pc'[v] \in BeforeRun \cup {"resume"} =>
             pc'[v] = pc[v] /\ TaskOf(v) # t,
         \A j \in JobIds :
           stale'[j] \in {"inspect", "recover"} => stale'[j] = stale[j] /\ jobs[j].task # t
  PROVE  OneInv'
<1>1. \A u \in Tasks \ {t} : tasks'[u] = tasks[u]
  BY DEF TypeInv, DbOK
<1>2. \A v \in Executors : pc'[v] \in BeforeRun \cup {"resume"} => TaskOf(v) \in Tasks
  BY Here DEF BeforeRun, Active
<1>3. RunShows'
  BY <1>1 DEF OneInv, RunShows, Going
<1>4. NoneYet'
  BY <1>1, <1>2 DEF OneInv, NoneYet, RunningRuns, TaskOf, BeforeRun
<1>5. ToResume'
  BY <1>1, <1>2 DEF OneInv, ToResume, Going, TaskOf
<1>6. ToRecover'
  <2>1. \A j \in JobIds : stale[j] \in {"inspect", "recover"} => jobs[j].task \in Tasks
    BY DEF TypeInv, RestOK, Listed, JobsOwned
  <2> QED
    BY <1>1, <2>1 DEF OneInv, ToRecover, Going
<1>7. InFlight'
  BY <1>1 DEF OneInv, InFlight, Going
<1>8. OneRunningRun'
  BY DEF OneInv, OneRunningRun, RunningRuns
<1> QED
  BY <1>3, <1>4, <1>5, <1>6, <1>7, <1>8 DEF OneInv

\* A step of an executor moves nobody else, and none goes back from a run.
LEMMA OnlyMover ==
  ASSUME TypeInv, NEW w \in Executors,
         \/ ClaimNext(w) \/ ClaimForTask(w) \/ Work(w)
         \/ Crash(w) \/ Throw(w) \/ SwallowApply(w)
  PROVE  /\ \A v \in Executors \ {w} : pc'[v] = pc[v] /\ ctx'[v] = ctx[v] /\ held'[v] = held[v]
         /\ pc[w] \in HasRun => pc'[w] \in HasRun \cup {"finish", "idle"}
         /\ UNCHANGED asked
<1> USE DEF db
<1> DEFINE Out == HasRun \cup {"finish", "idle"}
<1>1. ASSUME NEW l \in Out, NEW c, Goto(w, l, c)
      PROVE  /\ \A v \in Executors \ {w} : pc'[v] = pc[v] /\ ctx'[v] = ctx[v] /\ held'[v] = held[v]
             /\ pc'[w] \in Out
  BY <1>1, Gone
<1>2. ASSUME Release(w)
      PROVE  /\ \A v \in Executors \ {w} : pc'[v] = pc[v] /\ ctx'[v] = ctx[v] /\ held'[v] = held[v]
             /\ pc'[w] \in Out
  BY <1>2, Released
<1>3. /\ {"load", "lease", "guard", "guardCommit", "call", "persist", "decide", "extLease",
          "extReject", "apply", "finLease", "finalize", "finalizeCommit", "complete",
          "failLease", "close", "closeCommit", "finish", "idle"} \subseteq Out
      /\ \A l \in DOMAIN LeaseNext : LeaseNext[l] \in Out
  BY DEF HasRun, PC, InTry, LeaseNext
<1> HIDE DEF Out
<1>4. CASE ClaimNext(w) \/ ClaimForTask(w)
  BY <1>4, Claimed DEF ClaimNext, ClaimForTask, HasRun, Claim
<1>5. CASE ReadToken(w)
  BY <1>5 DEF ReadToken, HasRun, TypeInv, ExecOK
<1>6. CASE ReadTask(w) \/ PreflightCheck(w)
  <2>1. (\E l, c : Goto(w, l, c)) /\ pc[w] \notin HasRun /\ UNCHANGED asked
    BY <1>6 DEF ReadTask, PreflightCheck, Finish, HasRun
  <2> QED
    BY <2>1, Gone
<1>7. CASE PreflightCommit(w)
  <2>1. pc[w] \notin HasRun /\ UNCHANGED <<asked, held>>
    BY <1>7, InsertedRun DEF PreflightCommit, HasRun
  <2>2. \A v \in Executors \ {w} : pc'[v] = pc[v] /\ ctx'[v] = ctx[v]
    BY <1>7, InsertedRun
  <2> QED
    BY <2>1, <2>2
<1>8. CASE Resume(w)
  BY <1>8, ResumedRun DEF Resume, HasRun
<1>9. CASE FinishJob(w) \/ Crash(w)
  BY <1>9, <1>2 DEF FinishJob, Crash, Out
<1>10. CASE \/ LoadStep(w) \/ DecideExtraction(w) \/ LoadExtraction(w) \/ RejectExtraction(w)
            \/ SwallowApply(w) \/ ApplyExtraction(w)
  <2>1. UNCHANGED asked
    BY <1>10 DEF LoadStep, DecideExtraction, LoadExtraction, RejectExtraction, SwallowApply,
                 ApplyExtraction
  <2>2. (\E l \in Out : \E c : Goto(w, l, c)) \/ Release(w)
    BY <1>3, <1>10 DEF LoadStep, DecideExtraction, LoadExtraction, RejectExtraction,
                       SwallowApply, ApplyExtraction, NextStep, NextExtraction
  <2> QED
    BY <1>1, <1>2, <2>1, <2>2 DEF Out
<1>11. CASE CheckLease(w) \/ GuardCheck(w) \/ GuardCommit(w) \/ Consolidate(w)
  <2>1. UNCHANGED asked
    BY <1>11 DEF CheckLease, GuardCheck, GuardCommit, Consolidate
  <2>2. (\E l \in Out : \E c : Goto(w, l, c)) \/ Release(w)
    BY <1>3, <1>11 DEF CheckLease, GuardCheck, GuardCommit, Consolidate, Close
  <2> QED
    BY <1>1, <1>2, <2>1, <2>2 DEF Out
<1>12. CASE CallProvider(w) \/ PersistStep(w) \/ PersistExtraction(w)
  <2>1. UNCHANGED asked
    BY <1>12 DEF CallProvider, PersistStep, PersistExtraction
  <2>2. \E l \in Out : \E c : Goto(w, l, c)
    <3>1. CASE CallProvider(w)
      BY <1>3, <3>1 DEF CallProvider, Close
    <3>2. CASE PersistStep(w)
      BY <1>3, <3>2 DEF PersistStep, NextStep
    <3>3. CASE PersistExtraction(w)
      BY <1>3, <3>3 DEF PersistExtraction, Finish
    <3> QED
      BY <1>12, <3>1, <3>2, <3>3
  <2> QED
    BY <1>1, <2>1, <2>2 DEF Out
<1>13. CASE \/ FinalizeCheck(w) \/ FinalizeCommit(w) \/ CompleteRun(w)
            \/ CloseCheck(w) \/ CloseCommit(w) \/ Throw(w)
  <2>1. UNCHANGED asked
    BY <1>13 DEF FinalizeCheck, FinalizeCommit, CompleteRun, CloseCheck, CloseCommit, Throw
  <2>2. \E l \in Out : \E c : Goto(w, l, c)
    BY <1>3, <1>13 DEF FinalizeCheck, FinalizeCommit, CompleteRun, CloseCheck, CloseCommit,
                       Throw, Finish
  <2> QED
    BY <1>1, <2>1, <2>2 DEF Out
<1> QED
  BY <1>4, <1>5, <1>6, <1>7, <1>8, <1>9, <1>10, <1>11, <1>12, <1>13 DEF Work

\* The steps of an executor that neither begin nor end a run, nor fail a task.
LEMMA KeepsGoing ==
  ASSUME TypeInv, NEW w \in Executors,
         \/ ClaimNext(w) \/ ClaimForTask(w) \/ Work(w)
         \/ Crash(w) \/ Throw(w) \/ SwallowApply(w),
         ~ PreflightCommit(w), ~ Resume(w), ~ CompleteRun(w), ~ CloseCommit(w)
  PROVE  /\ UNCHANGED <<tasks, stale>>
         /\ \A r \in RunIds : runs'[r].status = runs[r].status /\ runs'[r].task = runs[r].task
<1> USE DEF db
<1> DEFINE Same == \A r \in RunIds : runs'[r].status = runs[r].status /\ runs'[r].task = runs[r].task
<1>1. UNCHANGED runs => Same
  OBVIOUS
<1>2. UNCHANGED <<tasks, stale>>
  <2>1. CASE \/ ClaimNext(w) \/ ClaimForTask(w) \/ Crash(w) \/ Throw(w) \/ SwallowApply(w)
             \/ ReadToken(w) \/ ReadTask(w) \/ FinishJob(w) \/ PreflightCheck(w)
    BY <2>1 DEF ClaimNext, ClaimForTask, Claim, Crash, Throw, SwallowApply, ReadToken, ReadTask,
                FinishJob, PreflightCheck
  <2>2. CASE \/ LoadStep(w) \/ CheckLease(w) \/ GuardCheck(w) \/ GuardCommit(w)
             \/ CallProvider(w) \/ PersistStep(w) \/ Consolidate(w)
    BY <2>2 DEF LoadStep, CheckLease, GuardCheck, GuardCommit, CallProvider, PersistStep, Consolidate
  <2>3. CASE \/ DecideExtraction(w) \/ LoadExtraction(w) \/ RejectExtraction(w)
             \/ PersistExtraction(w) \/ ApplyExtraction(w)
             \/ FinalizeCheck(w) \/ FinalizeCommit(w) \/ CloseCheck(w)
    BY <2>3 DEF DecideExtraction, LoadExtraction, RejectExtraction, PersistExtraction,
                ApplyExtraction, FinalizeCheck, FinalizeCommit, CloseCheck
  <2> QED
    BY <2>1, <2>2, <2>3 DEF Work
<1>3. ASSUME \/ GuardCommit(w) \/ PersistStep(w) \/ RejectExtraction(w) \/ PersistExtraction(w)
             \/ FinalizeCommit(w)
      PROVE  Same
  <2>1. RunOf(w) \in RunIds
    BY <1>3, InRun DEF GuardCommit, PersistStep, RejectExtraction, PersistExtraction,
                       FinalizeCommit, HasRun, PC, InTry
  <2>2. ASSUME NEW state \in Reliability, runs' = Advanced(RunOf(w), state)
        PROVE  Same
    BY <2>1, <2>2, AdvancedRun DEF OnlyRun
  <2>3. ASSUME FinalizeCommit(w) PROVE Same
    <3>1. PICK f : runs' = [runs EXCEPT ![RunOf(w)].final = f, ![RunOf(w)].rel = "finalizing"]
      BY <2>3 DEF FinalizeCommit
    <3> QED
      BY <2>1, <3>1, MarkedRun DEF OnlyRun
  <2>4. \/ FinalizeCommit(w) \/ UNCHANGED runs
        \/ \E state \in Reliability : runs' = Advanced(RunOf(w), state)
    BY <1>3 DEF GuardCommit, PersistStep, RejectExtraction, PersistExtraction, Reliability
  <2> QED
    BY <1>1, <2>2, <2>3, <2>4
<1>4. ASSUME ~ (\/ GuardCommit(w) \/ PersistStep(w) \/ RejectExtraction(w) \/ PersistExtraction(w)
                \/ FinalizeCommit(w))
      PROVE  Same
  BY <1>1, <1>4, LeavesRuns DEF Work
<1> QED
  BY <1>2, <1>3, <1>4

LEMMA OneKept ==
  ASSUME TypeInv, OneInv, JobsStay, NEW w \in Executors,
         \/ ClaimNext(w) \/ ClaimForTask(w) \/ Work(w)
         \/ Crash(w) \/ Throw(w) \/ SwallowApply(w),
         ~ PreflightCommit(w), ~ Resume(w), ~ CompleteRun(w), ~ CloseCommit(w)
  PROVE  OneInv'
<1>1. /\ UNCHANGED <<tasks, stale, asked>>
      /\ \A r \in RunIds : runs'[r].status = runs[r].status /\ runs'[r].task = runs[r].task
      /\ \A v \in Executors \ {w} : pc'[v] = pc[v] /\ held'[v] = held[v]
  BY KeepsGoing, OnlyMover
<1>2. /\ pc'[w] \in BeforeRun =>
           /\ Active(w) /\ held'[w] = held[w]
           /\ pc[w] \in BeforeRun \/ tasks[TaskOf(w)].status \in {"pending", "failed"}
      /\ pc'[w] = "resume" =>
           Active(w) /\ held'[w] = held[w] /\ (pc[w] = "resume" \/ Going(TaskOf(w)))
  <2>1. CASE pc[w] \in HasRun
    <3>1. pc'[w] \in HasRun \cup {"finish", "idle"}
      BY <2>1, OnlyMover
    <3> QED
      BY <3>1 DEF HasRun, BeforeRun
  <2>2. CASE ReadTask(w)
    <3>1. UNCHANGED held /\ Active(w)
      BY <2>2, Gone DEF ReadTask, Active, Finish
    <3>2. \/ tasks[TaskOf(w)].status = "running" /\ Goto(w, "resume", ctx[w])
          \/ tasks[TaskOf(w)].status \in {"pending", "failed"} /\ Goto(w, "preflight", ctx[w])
          \/ \E c : Goto(w, "finish", c)
      BY <2>2 DEF ReadTask, Finish
    <3> QED
      BY <3>1, <3>2, Gone DEF BeforeRun, Going
  <2>3. CASE PreflightCheck(w)
    <3>1. /\ pc[w] = "preflight"
          /\ (\E c : Goto(w, "finish", c)) \/ Goto(w, "preflightCommit", ctx[w])
      BY <2>3 DEF PreflightCheck, Finish
    <3> QED
      BY <3>1, Gone DEF BeforeRun, Active
  <2>4. CASE ClaimNext(w) \/ ClaimForTask(w)
    BY <2>4, Claimed DEF ClaimNext, ClaimForTask, BeforeRun
  <2>5. CASE ReadToken(w)
    BY <2>5 DEF ReadToken, TypeInv, ExecOK, BeforeRun
  <2>6. CASE FinishJob(w) \/ Crash(w)
    BY <2>6, Released DEF FinishJob, Crash, BeforeRun
  <2>7. CASE Throw(w)
    BY <2>7, Gone DEF Throw, Finish, BeforeRun
  <2>8. CASE /\ pc[w] \notin HasRun /\ ~ ReadTask(w) /\ ~ PreflightCheck(w)
             /\ ~ ClaimNext(w) /\ ~ ClaimForTask(w) /\ ~ ReadToken(w)
             /\ ~ FinishJob(w) /\ ~ Crash(w) /\ ~ Throw(w)
    <3>1. pc[w] \notin {"load", "lease", "extLease", "finLease", "failLease", "guard",
                        "guardCommit", "call", "persist", "decide", "extReject", "apply",
                        "finalize", "finalizeCommit", "complete", "close", "closeCommit"}
      BY <2>8 DEF HasRun, PC, InTry
    <3>2. /\ ~ LoadStep(w) /\ ~ CheckLease(w) /\ ~ GuardCheck(w) /\ ~ GuardCommit(w)
          /\ ~ CallProvider(w) /\ ~ PersistStep(w) /\ ~ Consolidate(w)
      BY <3>1 DEF LoadStep, CheckLease, LeaseNext, GuardCheck, GuardCommit, CallProvider,
                  PersistStep, Consolidate
    <3>3. /\ ~ DecideExtraction(w) /\ ~ LoadExtraction(w) /\ ~ RejectExtraction(w)
          /\ ~ PersistExtraction(w) /\ ~ ApplyExtraction(w) /\ ~ SwallowApply(w)
      BY <3>1 DEF DecideExtraction, LoadExtraction, RejectExtraction, PersistExtraction,
                  ApplyExtraction, SwallowApply
    <3>4. ~ FinalizeCheck(w) /\ ~ FinalizeCommit(w) /\ ~ CloseCheck(w)
      BY <3>1 DEF FinalizeCheck, FinalizeCommit, CloseCheck
    <3> QED
      BY <2>8, <3>2, <3>3, <3>4 DEF Work
  <2> QED
    BY <2>1, <2>2, <2>3, <2>4, <2>5, <2>6, <2>7, <2>8
<1>3. \A v \in Executors \ {w} : pc'[v] \in BeforeRun \cup {"resume"} => Active(v)
  BY <1>1 DEF Active, BeforeRun
<1>4. InFlight'
  BY <1>1 DEF OneInv, InFlight
<1>5. \A v \in Executors :
        pc'[v] \in BeforeRun =>
          /\ Active(v) /\ held'[v] = held[v]
          /\ pc[v] \in BeforeRun \/ tasks[TaskOf(v)].status \in {"pending", "failed"}
  BY <1>1, <1>2, <1>3
<1>6. \A v \in Executors :
        pc'[v] = "resume" =>
          Active(v) /\ held'[v] = held[v] /\ (pc[v] = "resume" \/ Going(TaskOf(v)))
  BY <1>1, <1>2, <1>3
<1>7. \A j \in JobIds :
        stale'[j] \in {"inspect", "recover"} =>
          jobs[j].status # "absent" /\ stale[j] \in {"inspect", "recover"}
  BY <1>1 DEF TypeInv, RestOK, Listed
<1>8. \A t \in Tasks : tasks'[t].status \in {tasks[t].status, "cancelled"}
  BY <1>1
<1> QED
  BY <1>1, <1>4, <1>5, <1>6, <1>7, <1>8, OneCalm

\* Nobody else is before a run of the task, and no listed job is of it.
LEMMA TaskAlone ==
  ASSUME TypeInv, OwnInv, NEW w \in Executors, Active(w)
  PROVE  /\ \A v \in Executors \ {w} : Active(v) => TaskOf(v) # TaskOf(w)
         /\ \A j \in JobIds : stale[j] # "no" => jobs[j].task # TaskOf(w)
<1>1. held[w] \in JobIds /\ jobs[held[w]].status = "running" /\ jobs[held[w]].lease = "live"
  BY Here DEF OwnInv, Owned
<1>2. \A j \in JobIds : stale[j] # "no" => jobs[j].task # TaskOf(w)
  BY <1>1 DEF OwnInv, OneLive, ListedFree, Stale, LiveStatus, TaskOf
<1> QED
  BY <1>2, AloneOnTask

LEMMA OneBegins ==
  ASSUME TypeInv, OwnInv, ReplyInv, OneInv, NEW w \in Executors, PreflightCommit(w)
  PROVE  OneInv'
<1> DEFINE t == TaskOf(w)
<1>1. PICK r \in RunIds :
         /\ runs[r].status = "absent" /\ OnlyRun(r)
         /\ runs'[r].task = t /\ runs'[r].status = "running"
         /\ tasks' = [tasks EXCEPT ![t].status = "running"]
         /\ pc'[w] = "load"
         /\ \A v \in Executors \ {w} : pc'[v] = pc[v]
         /\ UNCHANGED held
  BY InsertedRun
<1>2. pc[w] = "preflightCommit" /\ Active(w) /\ UNCHANGED <<jobs, stale, asked>>
  BY DEF PreflightCommit, Active
<1>3. /\ t \in Tasks
      /\ RunningRuns(t) = {} /\ tasks[t].status \in {"pending", "failed", "cancelled"}
  BY <1>2, Here DEF OneInv, NoneYet
<1>4. \A v \in Executors : pc'[v] \in BeforeRun \cup {"resume"} =>
        pc[v] = pc'[v] /\ TaskOf(v) # t /\ TaskOf(v) \in Tasks
  BY <1>1, <1>2, TaskAlone, Here DEF BeforeRun, Active
<1>5. \A j \in JobIds : stale[j] \in {"inspect", "recover"} =>
        jobs[j].task # t /\ jobs[j].task \in Tasks
  BY <1>2, TaskAlone DEF TypeInv, RestOK, Listed, JobsOwned
<1>6. tasks'[t].status = "running" /\ \A u \in Tasks \ {t} : tasks'[u] = tasks[u]
  BY <1>1, <1>3 DEF TypeInv, DbOK
<1> HIDE DEF t
<1>7. RunShows'
  BY <1>1, <1>3, <1>6 DEF OneInv, RunShows, OnlyRun, Going
<1>8. NoneYet'
  <2> SUFFICES ASSUME NEW v \in Executors, pc'[v] \in BeforeRun
               PROVE  /\ \A q \in RunIds : ~ (runs'[q].task = TaskOf(v) /\ runs'[q].status = "running")
                      /\ tasks'[TaskOf(v)].status \in {"pending", "failed", "cancelled"}
    BY <1>1, <1>2 DEF NoneYet, RunningRuns, TaskOf, BeforeRun
  <2>1. /\ \A q \in RunIds : ~ (runs[q].task = TaskOf(v) /\ runs[q].status = "running")
        /\ tasks[TaskOf(v)].status \in {"pending", "failed", "cancelled"}
    BY <1>4 DEF OneInv, NoneYet, RunningRuns, BeforeRun
  <2> QED
    BY <1>1, <1>4, <1>6, <2>1 DEF OnlyRun
<1>9. ToResume'
  <2> SUFFICES ASSUME NEW v \in Executors, pc'[v] = "resume"
               PROVE  tasks'[TaskOf(v)].status \in {"running", "cancelled"}
    BY <1>1, <1>2 DEF ToResume, Going, TaskOf
  <2> QED
    BY <1>4, <1>6 DEF OneInv, ToResume, Going
<1>10. ToRecover'
  BY <1>2, <1>5, <1>6 DEF OneInv, ToRecover, Going
<1>11. InFlight'
  BY <1>2, <1>3, <1>6 DEF OneInv, InFlight
<1>12. OneRunningRun'
  BY <1>1, <1>3 DEF OneInv, OneRunningRun, RunningRuns, OnlyRun
<1> QED
  BY <1>7, <1>8, <1>9, <1>10, <1>11, <1>12 DEF OneInv

\* A resume that finds no run fails the task; one that finds it takes it.
LEMMA OneResumes ==
  ASSUME TypeInv, OwnInv, OneInv, JobsStay, NEW w \in Executors, Resume(w)
  PROVE  OneInv'
<1> DEFINE t == TaskOf(w)
<1>1. /\ pc[w] = "resume" /\ Active(w) /\ UNCHANGED <<jobs, runs, held, stale, asked>>
      /\ t \in Tasks /\ Going(t)
      /\ \A v \in Executors \ {w} : pc'[v] = pc[v]
  BY ResumedRun, Here DEF Resume, Active, OneInv, ToResume
<1>2. pc'[w] \in {"finish", "close", "load"}
  BY ResumedRun
<1>3. \A v \in Executors : pc'[v] \in BeforeRun \cup {"resume"} =>
        pc'[v] = pc[v] /\ TaskOf(v) # t /\ Active(v)
  BY <1>1, <1>2, TaskAlone DEF BeforeRun, Active
<1>4. CASE /\ RunningRuns(t) = {}
           /\ tasks' = [tasks EXCEPT ![t].status = "failed"]
  <2>1. \A r \in RunIds : runs'[r].status = "running" =>
          runs[r].status = "running" /\ runs'[r].task = runs[r].task /\ runs[r].task # t
    BY <1>1, <1>4 DEF RunningRuns
  <2>2. \A j \in JobIds : stale'[j] \in {"inspect", "recover"} =>
          stale'[j] = stale[j] /\ jobs[j].task # t
    BY <1>1, TaskAlone
  <2>3. \E s : tasks' = [tasks EXCEPT ![t].status = s]
    BY <1>4
  <2> HIDE DEF t
  <2> QED
    BY <1>1, <1>3, <2>1, <2>2, <2>3, OneFreed
<1>5. CASE UNCHANGED tasks
  <2>1. \A v \in Executors : pc'[v] \in BeforeRun =>
          Active(v) /\ held'[v] = held[v] /\ pc[v] \in BeforeRun
    BY <1>1, <1>3
  <2>2. \A v \in Executors : pc'[v] = "resume" =>
          Active(v) /\ held'[v] = held[v] /\ pc[v] = "resume"
    BY <1>1, <1>3
  <2>3. \A j \in JobIds : stale'[j] \in {"inspect", "recover"} =>
          jobs[j].status # "absent" /\ stale[j] \in {"inspect", "recover"}
    BY <1>1 DEF TypeInv, RestOK, Listed
  <2>4. InFlight'
    BY <1>1, <1>5 DEF OneInv, InFlight
  <2>5. /\ \A u \in Tasks : tasks'[u].status \in {tasks[u].status, "cancelled"}
        /\ \A r \in RunIds : runs'[r].status = "running" =>
             runs[r].status = "running" /\ runs'[r].task = runs[r].task
    BY <1>1, <1>5
  <2> QED
    BY <2>1, <2>2, <2>3, <2>4, <2>5, OneCalm
<1> QED
  BY <1>4, <1>5, ResumedRun

\* The end of a run frees its task.
LEMMA OneEnds ==
  ASSUME TypeInv, OwnInv, RunInv, OneInv, NEW w \in Executors, CompleteRun(w) \/ CloseCommit(w)
  PROVE  OneInv'
<1> DEFINE t == TaskOf(w)
           r == RunOf(w)
<1>1. /\ pc[w] \in HasRun /\ UNCHANGED <<jobs, held, stale, asked>>
      /\ \E c : Goto(w, "finish", c)
  BY Gone DEF CompleteRun, CloseCommit, HasRun, PC, InTry, Finish
<1>2. /\ Active(w) /\ r \in RunIds /\ t \in Tasks
      /\ runs[r].task = t /\ runs[r].status = "running"
  BY <1>1, InRun, Here DEF RunInv, OpenRun
<1>3. Going(t) /\ \A q \in RunIds \ {r} : runs[q].status = "running" => runs[q].task # t
  BY <1>2 DEF OneInv, RunShows, OneRunningRun, RunningRuns
<1>4. /\ \E s \in {"completed", "failed"} : \E rel :
           runs' = [runs EXCEPT ![r].status = s, ![r].rel = rel]
      /\ \E s : tasks' = [tasks EXCEPT ![t].status = s]
  BY DEF CompleteRun, CloseCommit
<1>5. pc'[w] = "finish" /\ \A v \in Executors \ {w} : pc'[v] = pc[v]
  BY <1>1, Gone
<1>6. \A v \in Executors : pc'[v] \in BeforeRun \cup {"resume"} =>
        pc'[v] = pc[v] /\ TaskOf(v) # t
  BY <1>2, <1>5, TaskAlone DEF BeforeRun, Active
<1>7. \A j \in JobIds : stale'[j] \in {"inspect", "recover"} =>
        stale'[j] = stale[j] /\ jobs[j].task # t
  BY <1>1, <1>2, TaskAlone
<1>8. OnlyRun(r) /\ runs'[r].status # "running"
  <2>1. PICK s \in {"completed", "failed"} : \E rel :
           runs' = [runs EXCEPT ![r].status = s, ![r].rel = rel]
    BY <1>4
  <2>2. PICK rel : runs' = [runs EXCEPT ![r].status = s, ![r].rel = rel]
    BY <2>1
  <2>3. s # "running"
    BY <2>1
  <2> QED
    BY <1>2, <2>2, <2>3, EndedRun
<1>9. \A q \in RunIds : runs'[q].status = "running" =>
        runs[q].status = "running" /\ runs'[q].task = runs[q].task /\ runs[q].task # t
  BY <1>3, <1>8 DEF OnlyRun
<1> HIDE DEF t, r
<1>10. PICK s : tasks' = [tasks EXCEPT ![t].status = s]
  BY <1>4
<1>11. t \in Tasks /\ UNCHANGED <<jobs, held, asked>> /\ Going(t)
  BY <1>1, <1>2, <1>3
<1> QED
  BY <1>6, <1>7, <1>9, <1>10, <1>11, OneFreed

\* A reconciler fails a task whose run it did not find: there is none.
LEMMA OneRecovers ==
  ASSUME TypeInv, OwnInv, RunInv, OneInv, NEW j \in JobIds, RecoverInterrupted(j)
  PROVE  OneInv'
<1> DEFINE t == jobs[j].task
<1>1. /\ stale[j] = "recover" /\ UNCHANGED <<jobs, pc, held, asked>>
      /\ stale' = [stale EXCEPT ![j] = "finish"]
      /\ \E s : tasks' = [tasks EXCEPT ![t].status = s]
  BY DEF RecoverInterrupted, own
<1>2. t \in Tasks /\ Going(t) /\ RunningRuns(t) = {}
  BY <1>1 DEF OneInv, ToRecover, RunInv, NothingToRecover, TypeInv, RestOK, Listed, JobsOwned
<1>3. \A r \in RunIds : runs'[r] = runs[r]
  BY <1>2, RecoveredRuns
<1>4. \A r \in RunIds : runs'[r].status = "running" =>
        runs[r].status = "running" /\ runs'[r].task = runs[r].task /\ runs[r].task # t
  BY <1>2, <1>3 DEF RunningRuns
<1>5. \A v \in Executors : pc'[v] \in BeforeRun \cup {"resume"} =>
        pc'[v] = pc[v] /\ TaskOf(v) # t
  BY <1>1, TaskAlone DEF BeforeRun, Active
<1>6. \A i \in JobIds : stale'[i] \in {"inspect", "recover"} =>
        stale'[i] = stale[i] /\ jobs[i].task # t
  <2>1. stale'[j] = "finish" /\ \A i \in JobIds \ {j} : stale'[i] = stale[i]
    BY <1>1 DEF TypeInv, RestOK
  <2>2. \A i \in JobIds \ {j} : stale[i] # "no" => jobs[i].task # t
    BY <1>1 DEF OwnInv, OneLive, ListedFree, Stale, LiveStatus
  <2> QED
    BY <2>1, <2>2
<1>7. PICK s : tasks' = [tasks EXCEPT ![t].status = s]
  BY <1>1
<1> HIDE DEF t
<1> QED
  BY <1>1, <1>2, <1>4, <1>5, <1>6, <1>7, OneFreed

\* The other passes of a reconciler, and time.
LEMMA OneListed ==
  ASSUME TypeInv, OneInv, JobsStay, NEW j \in JobIds,
         \/ ExpireOrphan(j) \/ ExpireHeld(j) \/ InspectStale(j)
         \/ RequeueStale(j) \/ FinishRecovered(j)
         \/ ListStale \/ ReconcilerCrash \/ UNCHANGED vars
  PROVE  OneInv'
<1>1. UNCHANGED <<tasks, runs, pc, held, asked>>
  <2> USE DEF db, own
  <2>1. CASE ExpireOrphan(j) \/ ExpireHeld(j)
    BY <2>1 DEF ExpireOrphan, ExpireHeld
  <2>2. CASE InspectStale(j) \/ RequeueStale(j) \/ FinishRecovered(j)
    BY <2>2 DEF InspectStale, RequeueStale, FinishRecovered
  <2>3. CASE ListStale \/ ReconcilerCrash \/ UNCHANGED vars
    BY <2>3 DEF ListStale, ReconcilerCrash, vars
  <2> QED
    BY <2>1, <2>2, <2>3
<1>2. \A i \in JobIds :
        stale'[i] \in {"inspect", "recover"} =>
          jobs[i].status # "absent" /\ (stale[i] \in {"inspect", "recover"} \/ Going(jobs[i].task))
  <2>1. CASE UNCHANGED stale
    BY <2>1 DEF TypeInv, RestOK, Listed
  <2>2. CASE ExpireOrphan(j) \/ ExpireHeld(j) \/ UNCHANGED vars
    BY <2>1, <2>2 DEF ExpireOrphan, ExpireHeld, vars
  <2>3. CASE InspectStale(j)
    <3>1. stale[j] = "inspect" /\ \A i \in JobIds \ {j} : stale'[i] = stale[i]
      BY <2>3 DEF InspectStale, TypeInv, RestOK
    <3> QED
      BY <3>1 DEF TypeInv, RestOK, Listed
  <2>4. CASE RequeueStale(j) \/ FinishRecovered(j) \/ ReconcilerCrash
    <3>1. \A i \in JobIds : stale'[i] \in {stale[i], "no"}
      BY <2>4 DEF RequeueStale, FinishRecovered, ReconcilerCrash, TypeInv, RestOK
    <3>2. \A i \in JobIds : stale'[i] \in {"inspect", "recover"} => stale'[i] = stale[i]
      BY <3>1
    <3> QED
      BY <3>2 DEF TypeInv, RestOK, Listed
  <2>5. CASE ListStale
    <3>1. \A i \in JobIds : stale'[i] = IF ~ Stale(i) THEN "no"
                              ELSE IF tasks[jobs[i].task].status = "running" THEN "inspect" ELSE "requeue"
      BY <2>5 DEF ListStale
    <3> QED
      BY <3>1 DEF Stale, Going
  <2> QED
    BY <2>2, <2>3, <2>4, <2>5
<1>3. InFlight'
  BY <1>1 DEF OneInv, InFlight
<1>4. \A v \in Executors : pc'[v] \in BeforeRun \cup {"resume"} =>
        Active(v) /\ held'[v] = held[v] /\ pc'[v] = pc[v]
  BY <1>1 DEF BeforeRun, Active
<1>5. /\ \A t \in Tasks : tasks'[t].status \in {tasks[t].status, "cancelled"}
      /\ \A r \in RunIds : runs'[r].status = "running" =>
           runs[r].status = "running" /\ runs'[r].task = runs[r].task
  BY <1>1
<1>6. /\ \A v \in Executors : pc'[v] \in BeforeRun =>
           Active(v) /\ held'[v] = held[v] /\ pc[v] \in BeforeRun
      /\ \A v \in Executors : pc'[v] = "resume" =>
           Active(v) /\ held'[v] = held[v] /\ pc[v] = "resume"
  BY <1>4
<1> QED
  BY <1>2, <1>3, <1>5, <1>6, OneCalm

\* Users may cancel a task over its run, and settle one that waits.
LEMMA OneUser ==
  ASSUME TypeInv, OneInv, JobsStay, "rerun" \notin UserOps, NEW t \in Tasks, User(t)
  PROVE  OneInv'
<1>1. UNCHANGED <<runs, pc, held, stale>>
  BY DEF User, RunTask, RerunRead, RerunLookup, RerunCommit, CancelRead, CancelCommit,
         MarkRead, MarkCommit, SettleRead, SettleCommit, db, own
<1>2. ~ RerunRead(t) /\ ~ RerunLookup(t) /\ ~ RerunCommit(t)
  BY DEF RerunRead, RerunLookup, RerunCommit, OneInv, InFlight
<1>3. asked \in [Tasks -> UserTx] /\ tasks \in [Tasks -> [status : TaskStatus, reason : BOOLEAN]]
  BY DEF TypeInv, RestOK, DbOK
<1>4. ASSUME \A u \in Tasks : tasks'[u].status \in {tasks[u].status, "cancelled"}, InFlight'
      PROVE  OneInv'
  <2>1. \A i \in JobIds : stale'[i] \in {"inspect", "recover"} =>
          jobs[i].status # "absent" /\ stale[i] \in {"inspect", "recover"}
    BY <1>1 DEF TypeInv, RestOK, Listed
  <2>2. \A v \in Executors : pc'[v] \in BeforeRun \cup {"resume"} =>
          Active(v) /\ held'[v] = held[v] /\ pc'[v] = pc[v]
    BY <1>1 DEF BeforeRun, Active
  <2>3. /\ \A v \in Executors : pc'[v] \in BeforeRun =>
             Active(v) /\ held'[v] = held[v] /\ pc[v] \in BeforeRun
        /\ \A v \in Executors : pc'[v] = "resume" =>
             Active(v) /\ held'[v] = held[v] /\ pc[v] = "resume"
    BY <2>2
  <2>4. \A r \in RunIds : runs'[r].status = "running" =>
          runs[r].status = "running" /\ runs'[r].task = runs[r].task
    BY <1>1
  <2> QED
    BY <1>4, <2>1, <2>3, <2>4, OneCalm
<1>5. CASE RunTask(t)
  <2>1. UNCHANGED <<tasks, asked>>
    BY <1>5 DEF RunTask, db
  <2> QED
    BY <1>4, <2>1 DEF OneInv, InFlight
<1>6. CASE CancelRead(t) \/ MarkRead(t) \/ SettleRead(t)
  <2>1. PICK op \in {"cancel", "mark", "settle"} :
           /\ UNCHANGED tasks /\ asked' = [asked EXCEPT ![t] = [op |-> op, seen |-> tasks[t].status]]
           /\ op = "settle" => tasks[t].status = "awaiting_approval"
    BY <1>6 DEF CancelRead, MarkRead, SettleRead, Begin, db
  <2>2. asked'[t].op = op /\ \A u \in Tasks \ {t} : asked'[u] = asked[u]
    BY <1>3, <2>1
  <2>3. InFlight'
    BY <2>1, <2>2 DEF OneInv, InFlight
  <2> QED
    BY <1>4, <2>1, <2>3
<1>7. CASE CancelCommit(t) \/ MarkCommit(t)
  <2>1. /\ asked[t].op # "settle" /\ asked' = [asked EXCEPT ![t] = NoTx]
        /\ \/ \E reason \in BOOLEAN :
                tasks' = [tasks EXCEPT ![t] = [status |-> "cancelled", reason |-> reason]]
           \/ tasks' = [tasks EXCEPT ![t].reason = TRUE]
    BY <1>7 DEF CancelCommit, MarkCommit, End
  <2>2. asked'[t].op = "none" /\ \A u \in Tasks \ {t} : asked'[u] = asked[u]
    BY <1>3, <2>1 DEF NoTx
  <2>3. \A u \in Tasks : tasks'[u].status \in {tasks[u].status, "cancelled"} /\ (u # t => tasks'[u] = tasks[u])
    BY <1>3, <2>1
  <2>4. InFlight'
    BY <2>2, <2>3 DEF OneInv, InFlight
  <2> QED
    BY <1>4, <2>3, <2>4
<1>8. CASE SettleCommit(t)
  <2>1. /\ asked[t].op = "settle" /\ asked' = [asked EXCEPT ![t] = NoTx] /\ UNCHANGED jobs
        /\ \E s : tasks' = [tasks EXCEPT ![t].status = s]
    BY <1>8 DEF SettleCommit, End
  <2>2. tasks[t].status = "awaiting_approval"
    BY <2>1 DEF OneInv, InFlight
  <2>3. asked'[t].op = "none" /\ \A u \in Tasks \ {t} : asked'[u] = asked[u]
    BY <1>3, <2>1 DEF NoTx
  <2>4. \A u \in Tasks \ {t} : tasks'[u] = tasks[u]
    BY <1>3, <2>1
  <2>5. InFlight'
    BY <2>3, <2>4 DEF OneInv, InFlight
  <2>6. \A r \in RunIds : runs'[r].status = "running" =>
          runs[r].status = "running" /\ runs'[r].task = runs[r].task /\ runs[r].task # t
    BY <1>1, <2>2 DEF OneInv, RunShows, Going
  <2>7. \A v \in Executors : pc'[v] \in BeforeRun \cup {"resume"} =>
          pc'[v] = pc[v] /\ TaskOf(v) # t
    BY <1>1, <2>2 DEF OneInv, NoneYet, ToResume, Going, BeforeRun
  <2>8. \A j \in JobIds : stale'[j] \in {"inspect", "recover"} =>
          stale'[j] = stale[j] /\ jobs[j].task # t
    BY <1>1, <2>2 DEF OneInv, ToRecover, Going
  <2>9. PICK s : tasks' = [tasks EXCEPT ![t].status = s]
    BY <2>1
  <2> QED
    BY <1>1, <2>1, <2>5, <2>6, <2>7, <2>8, <2>9, OneFreed
<1> QED
  BY <1>2, <1>5, <1>6, <1>7, <1>8 DEF User

LEMMA OneInit == Init => OneInv
<1> SUFFICES ASSUME Init PROVE OneInv
  OBVIOUS
<1>1. RunShows /\ NoneYet /\ ToResume /\ OneRunningRun
  BY DEF Init, RunShows, NoneYet, ToResume, OneRunningRun, RunningRuns, NoRun
<1>2. ToRecover /\ InFlight
  BY DEF Init, ToRecover, InFlight, NoTx
<1> QED
  BY <1>1, <1>2 DEF OneInv

LEMMA OneNext ==
  ASSUME "rerun" \notin UserOps, RunsInv, OneInv, [Next]_vars
  PROVE  OneInv'
<1> USE DEF RunsInv
<1>1. JobsStay
  BY RunAssumption, JobsGoOn
<1>2. ASSUME NEW w \in Executors,
             \/ ClaimNext(w) \/ ClaimForTask(w) \/ Work(w)
             \/ Crash(w) \/ Throw(w) \/ SwallowApply(w)
      PROVE  OneInv'
  BY <1>1, <1>2, OneKept, OneBegins, OneResumes, OneEnds
<1>3. ASSUME NEW j \in JobIds, ExpireOrphan(j) \/ ExpireHeld(j) \/ Handle(j) PROVE OneInv'
  BY <1>1, <1>3, OneListed, OneRecovers DEF Handle
<1>4. CASE ListStale \/ ReconcilerCrash
  <2>1. \E j \in JobIds : TRUE
    BY <1>4 DEF ListStale, ReconcilerCrash
  <2> QED
    BY <1>1, <1>4, <2>1, OneListed
<1>5. CASE UNCHANGED vars
  BY <1>5 DEF vars, OneInv, RunShows, NoneYet, ToResume, ToRecover, InFlight, OneRunningRun,
              RunningRuns, Going, TaskOf
<1>6. ASSUME NEW t \in Tasks, User(t) PROVE OneInv'
  BY <1>1, <1>6, OneUser
<1> QED
  BY <1>2, <1>3, <1>4, <1>5, <1>6 DEF Next

\* A task never has two running runs: an interrupted run is resumed on its own
\* row (runClaimedJob, resumeRun), although no constraint says so.  Without
\* the assumption on UserOps this is false: see OneInv above.
THEOREM OneRunAtATime ==
  Timely /\ "rerun" \notin UserOps => (Spec => []OneRunningRun)
<1> SUFFICES ASSUME Timely, "rerun" \notin UserOps PROVE Spec => []OneRunningRun
  OBVIOUS
<1>1. Init => RunsInv /\ OneInv
  BY RunsInit, OneInit
<1>2. (RunsInv /\ OneInv) /\ [Next]_vars => (RunsInv /\ OneInv)'
  BY RunsNext, OneNext
<1>3. RunsInv /\ OneInv => OneRunningRun
  BY DEF OneInv
<1> QED
  BY <1>1, <1>2, <1>3, PTL DEF Spec

-----------------------------------------------------------------------------
(* What is called and paid for.                                            *)
(*                                                                         *)
(* A step that was called without its reply being checkpointed stays the   *)
(* one uncertain step of its run: a resume comes to it before it calls     *)
(* anything else, and the dispatch guard stops there.                      *)

\* Checkpoints and rows stay, and no step that has a row gets a checkpoint.
Grown(ck, ro, ck2, ro2) ==
  \A q \in Steps : /\ ck[q] # NoReply => ck2[q] = ck[q]
                   /\ ro[q] # "none" => ro2[q] # "none" /\ ck2[q] = ck[q]

LEMMA ExcuseLasts ==
  ASSUME RunAssumption, NEW ck, NEW ck2, NEW ro, NEW ro2,
         Grown(ck, ro, ck2, ro2),
         NEW s \in Steps, Excused(ck, ro, s)
  PROVE  Excused(ck2, ro2, s)
<1>1. CASE ro[s] # "none" /\ ck[s] = NoReply
  BY <1>1 DEF Excused, Grown
<1>2. CASE s \in Extractions /\ ro[1] # "none" /\ ck[1] = NoReply
  <2>1. ro2[1] # "none" /\ ck2[1] = NoReply
    BY <1>2, StepNumbers DEF Grown
  <2> QED
    BY <1>2, <2>1 DEF Excused
<1>3. ASSUME s \in Extractions, NEW e \in EngineSteps, ck[e].kind = "proposal"
      PROVE  Excused(ck2, ro2, s)
  <2>1. e \in Steps /\ ck[e] # NoReply
    BY <1>3 DEF Steps, NoReply
  <2>2. ck2[e].kind = "proposal"
    BY <1>3, <2>1 DEF Grown
  <2> QED
    BY <1>3, <2>2 DEF Excused
<1> QED
  BY <1>1, <1>2, <1>3 DEF Excused

\* Without calls nothing comes to be unpaid, and what gets a checkpoint or a
\* row no longer is.
LEMMA BooksShrink ==
  ASSUME RunAssumption, NEW cl, NEW ck, NEW ck2, NEW ro, NEW ro2,
         Grown(ck, ro, ck2, ro2),
         OnceIn(cl, ck, ro)
  PROVE  /\ OnceIn(cl, ck2, ro2)
         /\ UnpaidIn(cl, ck2, ro2) \subseteq UnpaidIn(cl, ck, ro)
         /\ \A s \in UnpaidIn(cl, ck2, ro2) : ck2[s] = NoReply /\ ro2[s] = "none"
<1>1. OnceIn(cl, ck2, ro2)
  BY ExcuseLasts DEF OnceIn
<1>2. ASSUME NEW s \in UnpaidIn(cl, ck2, ro2)
      PROVE  s \in UnpaidIn(cl, ck, ro) /\ ck2[s] = NoReply /\ ro2[s] = "none"
  <2>1. s \in Steps /\ cl[s] > 0 /\ ck2[s] = NoReply /\ ~ Excused(ck2, ro2, s)
    BY <1>2 DEF UnpaidIn
  <2>2. ck[s] = NoReply
    BY <2>1 DEF Grown
  <2>3. ~ Excused(ck, ro, s)
    BY <2>1, ExcuseLasts
  <2>4. ro2[s] = "none"
    BY <2>1 DEF Excused
  <2> QED
    BY <2>1, <2>2, <2>3, <2>4 DEF UnpaidIn
<1> QED
  BY <1>1, <1>2

\* An unpaid step has neither a checkpoint nor a row, nor an excuse.
LEMMA UnpaidShows ==
  ASSUME NEW cl, NEW ck, NEW ro, NEW s \in UnpaidIn(cl, ck, ro)
  PROVE  s \in Steps /\ cl[s] > 0 /\ ck[s] = NoReply /\ ro[s] = "none" /\ ~ Excused(ck, ro, s)
BY DEF UnpaidIn, Excused

\* The executor that moves answers for its own run only.
LEMMA PayMoves ==
  ASSUME TypeInv, OwnInv, RunInv, PayInv, NEW w \in Executors, NEW r \in RunIds,
         pc[w] \in HasRun, r = RunOf(w), OnlyRows(r),
         \A v \in Executors \ {w} : pc'[v] = pc[v] /\ ctx'[v] = ctx[v],
         pc'[w] \in HasRun =>
           /\ ctx'[w].run = r
           /\ Ahead(pc'[w], ctx'[w], UnpaidIn(calls'[r], ckpt'[r], row'[r]), ckpt'[r])
           /\ Facing(pc'[w], ctx'[w], runs'[r], ckpt'[r], ext'[r]),
         BooksIn(runs'[r], UnpaidIn(calls'[r], ckpt'[r], row'[r]), ckpt'[r], row'[r], ext'[r]),
         OnceIn(calls'[r], ckpt'[r], row'[r])
  PROVE  PayInv'
<1>1. Books'
  BY DEF PayInv, Books, Unpaid, OnlyRows
<1>2. ASSUME NEW v \in Executors, pc'[v] \in HasRun
      PROVE  LET q == ctx'[v].run
             IN /\ Ahead(pc'[v], ctx'[v], UnpaidIn(calls'[q], ckpt'[q], row'[q]), ckpt'[q])
                /\ Facing(pc'[v], ctx'[v], runs'[q], ckpt'[q], ext'[q])
  <2>1. CASE v = w
    BY <1>2, <2>1
  <2>2. CASE v # w
    <3>1. pc[v] \in HasRun /\ pc'[v] = pc[v] /\ ctx'[v] = ctx[v]
      BY <1>2, <2>2
    <3>2. ctx[v].run \in RunIds \ {r}
      BY <2>2, <3>1, AloneInRun, InRun DEF RunOf
    <3>3. LET q == ctx[v].run
          IN /\ Ahead(pc[v], ctx[v], UnpaidIn(calls[q], ckpt[q], row[q]), ckpt[q])
             /\ Facing(pc[v], ctx[v], runs[q], ckpt[q], ext[q])
      BY <3>1 DEF PayInv, Paying, Unpaid, RunOf
    <3> QED
      BY <3>1, <3>2, <3>3 DEF OnlyRows
  <2> QED
    BY <2>1, <2>2
<1>3. Paying'
  BY <1>2 DEF Paying, Unpaid, RunOf
<1> QED
  BY <1>1, <1>3 DEF PayInv

\* What an executor in a run can rely on.
LEMMA PayShows ==
  ASSUME TypeInv, RunInv, PayInv, NEW w \in Executors, NEW r, pc[w] \in HasRun, r = RunOf(w)
  PROVE  /\ r \in RunIds /\ ctx[w] \in Ctx
         /\ Ahead(pc[w], ctx[w], Unpaid(r), ckpt[r])
         /\ Facing(pc[w], ctx[w], runs[r], ckpt[r], ext[r])
         /\ BooksIn(runs[r], Unpaid(r), ckpt[r], row[r], ext[r])
         /\ OnceIn(calls[r], ckpt[r], row[r])
         /\ runs[r].status = "running" /\ runs[r].rel \notin Terminal
BY InRun DEF PayInv, Paying, Books, RunInv, OpenRun, IsTerminal

\* A move that writes no row.
LEMMA PayKept ==
  ASSUME TypeInv, OwnInv, RunInv, PayInv, NEW w \in Executors, NEW r,
         pc[w] \in HasRun, r = RunOf(w), UNCHANGED <<runs, row, ckpt, ext, calls>>,
         \A v \in Executors \ {w} : pc'[v] = pc[v] /\ ctx'[v] = ctx[v],
         pc'[w] \in HasRun =>
           /\ ctx'[w].run = r
           /\ Ahead(pc'[w], ctx'[w], Unpaid(r), ckpt[r])
           /\ Facing(pc'[w], ctx'[w], runs[r], ckpt[r], ext[r])
  PROVE  PayInv'
<1>1. Books'
  BY DEF PayInv, Books, Unpaid
<1>2. ASSUME NEW v \in Executors, pc'[v] \in HasRun
      PROVE  LET q == ctx'[v].run
             IN /\ Ahead(pc'[v], ctx'[v], UnpaidIn(calls[q], ckpt[q], row[q]), ckpt[q])
                /\ Facing(pc'[v], ctx'[v], runs[q], ckpt[q], ext[q])
  <2>1. CASE v = w
    BY <1>2, <2>1 DEF Unpaid
  <2>2. CASE v # w
    BY <1>2, <2>2 DEF PayInv, Paying, Unpaid, RunOf
  <2> QED
    BY <2>1, <2>2
<1>3. Paying'
  BY <1>2 DEF Paying, Unpaid, RunOf
<1> QED
  BY <1>1, <1>3 DEF PayInv

\* ... and one that ends outside every run.
LEMMA PayIdle ==
  ASSUME TypeInv, PayInv, NEW w \in Executors, UNCHANGED <<runs, row, ckpt, ext, calls>>,
         pc'[w] \notin HasRun,
         \A v \in Executors \ {w} : pc'[v] = pc[v] /\ ctx'[v] = ctx[v]
  PROVE  PayInv'
<1>1. Books'
  BY DEF PayInv, Books, Unpaid
<1>2. ASSUME NEW v \in Executors, pc'[v] \in HasRun
      PROVE  LET q == ctx'[v].run
             IN /\ Ahead(pc'[v], ctx'[v], UnpaidIn(calls[q], ckpt[q], row[q]), ckpt[q])
                /\ Facing(pc'[v], ctx'[v], runs[q], ckpt[q], ext[q])
  BY <1>2 DEF PayInv, Paying, Unpaid, RunOf
<1>3. Paying'
  BY <1>2 DEF Paying, Unpaid, RunOf
<1> QED
  BY <1>1, <1>3 DEF PayInv

\* Going on within its run with the same memory, or to close it.
LEMMA PayGoes ==
  ASSUME TypeInv, OwnInv, RunInv, PayInv, NEW w \in Executors, NEW r,
         pc[w] \in HasRun, r = RunOf(w), UNCHANGED <<runs, row, ckpt, ext, calls>>,
         NEW l, Goto(w, l, ctx[w]),
         Ahead(l, ctx[w], Unpaid(r), ckpt[r]),
         Facing(l, ctx[w], runs[r], ckpt[r], ext[r])
  PROVE  PayInv'
BY Gone, PayKept DEF RunOf

LEMMA ClosingIsCalm ==
  ASSUME NEW l \in Closing, NEW c, NEW unpaid, NEW ck, NEW run, NEW ex
  PROVE  Ahead(l, c, unpaid, ck) /\ Facing(l, c, run, ck, ex)
BY DEF Ahead, Facing, Closing, Bringing, InHandAt

LEMMA PayCloses ==
  ASSUME TypeInv, OwnInv, RunInv, PayInv, NEW w \in Executors,
         pc[w] \in HasRun, UNCHANGED <<runs, row, ckpt, ext, calls>>,
         \/ \E o : Close(w, o)
         \/ \E o : Goto(w, "failLease", [ctx[w] EXCEPT !.out = o])
         \/ \E l \in Closing : Goto(w, l, ctx[w])
  PROVE  PayInv'
<1>1. ctx[w] \in Ctx
  BY InRun
<1>2. ASSUME NEW l \in Closing, NEW c, c.run = ctx[w].run, Goto(w, l, c)
      PROVE  PayInv'
  <2>1. pc'[w] = l /\ ctx'[w] = c /\ \A v \in Executors \ {w} : pc'[v] = pc[v] /\ ctx'[v] = ctx[v]
    BY <1>2, Gone
  <2> QED
    BY <1>2, <2>1, ClosingIsCalm, PayKept DEF RunOf
<1>3. ASSUME NEW o PROVE [ctx[w] EXCEPT !.out = o].run = ctx[w].run
  BY <1>1 DEF Ctx
<1>4. {"close", "failLease"} \subseteq Closing
  BY DEF Closing
<1>5. CASE \E o : Close(w, o)
  BY <1>2, <1>3, <1>4, <1>5 DEF Close
<1>6. CASE \E o : Goto(w, "failLease", [ctx[w] EXCEPT !.out = o])
  BY <1>2, <1>3, <1>4, <1>6
<1>7. CASE \E l \in Closing : Goto(w, l, ctx[w])
  BY <1>2, <1>7
<1> QED
  BY <1>5, <1>6, <1>7

\* Leaving the run.
LEMMA PayLeaves ==
  ASSUME TypeInv, PayInv, NEW w \in Executors, UNCHANGED <<runs, row, ckpt, ext, calls>>,
         Release(w) \/ \E o : Finish(w, o)
  PROVE  PayInv'
<1>1. CASE Release(w)
  BY <1>1, Released, PayIdle DEF HasRun
<1>2. CASE \E o : Finish(w, o)
  BY <1>2, Gone, PayIdle DEF HasRun, Finish
<1> QED
  BY <1>1, <1>2

\* A step that is replayed, or is known to have failed, is not unpaid; what is
\* unpaid comes after it, and a revision among it follows from the replay.
LEMMA PayReplays ==
  ASSUME RunAssumption, TypeInv, OwnInv, RunInv, PayInv, NEW w \in Executors, NEW r, NEW s,
         pc[w] = "load", r = RunOf(w), s = ctx[w].step, s \in 1 .. 3,
         UNCHANGED <<runs, row, ckpt, ext, calls>>,
         NEW reply \in Reply, NextStep(w, reply),
         s \notin Unpaid(r),
         reply.kind \in {"revise", "proposal"} => ckpt[r][s].kind = reply.kind,
         s = 2 /\ ckpt[r][s].kind = "revise" => reply.kind = "revise"
  PROVE  PayInv'
<1>1. pc[w] \in HasRun
  BY DEF HasRun, PC, InTry
<1>2. /\ r \in RunIds /\ ctx[w] \in Ctx
      /\ Ahead(pc[w], ctx[w], Unpaid(r), ckpt[r])
      /\ Facing(pc[w], ctx[w], runs[r], ckpt[r], ext[r])
      /\ BooksIn(runs[r], Unpaid(r), ckpt[r], row[r], ext[r])
  BY <1>1, PayShows
<1>3. /\ pc'[w] = "load" /\ ctx'[w].step = s + 1 /\ ctx'[w].run = r
      /\ ctx'[w].reviewer = ctx[w].reviewer
      /\ \A e \in 1 .. 3 : ctx'[w].got[e] = IF e = s THEN reply ELSE ctx[w].got[e]
  <2>1. /\ pc'[w] = "load" /\ ctx'[w].step = ctx[w].step + 1 /\ ctx'[w].run = ctx[w].run
        /\ ctx'[w].reviewer = ctx[w].reviewer
        /\ \A e \in 1 .. 3 : ctx'[w].got[e] = IF e = ctx[w].step THEN reply ELSE ctx[w].got[e]
    <3>1. ctx[w].step \in 1 .. 3
      OBVIOUS
    <3> QED
      BY ONLY TypeInv, w \in Executors, reply \in Reply, NextStep(w, reply), <1>1, <3>1, NextStepMemory, Zenon
  <2> QED
    BY <2>1 DEF RunOf
<1>4. \A v \in Executors \ {w} : pc'[v] = pc[v] /\ ctx'[v] = ctx[v]
  BY Gone DEF NextStep
<1>5. \A q \in Unpaid(r) : q \in Nat
  BY StepNumbers DEF Unpaid, UnpaidIn
<1>6. ctx'[w].got[2] = (IF 2 = s THEN reply ELSE ctx[w].got[2])
  BY <1>3
<1>7. \A q \in Unpaid(r) : q >= s + 1
  BY <1>2, <1>5 DEF Ahead
<1>8. \A q \in Unpaid(r) : /\ q \in {2, 3} => ctx[w].reviewer
                           /\ q = 3 => ckpt[r][2].kind = "revise"
  BY <1>2 DEF Ahead, BooksIn
<1>9. s + 1 = 3 => s = 2
  OBVIOUS
<1>10. Unpaid(r) # {} => \A e \in {1, 3} : ctx'[w].got[e].kind = "proposal" => ckpt[r][e].kind = "proposal"
  BY <1>2, <1>3 DEF Ahead
<1>11. Ahead("load", ctx'[w], Unpaid(r), ckpt[r])
  BY <1>3, <1>6, <1>7, <1>8, <1>9, <1>10 DEF Ahead, Bringing
<1>12. Facing("load", ctx'[w], runs[r], ckpt[r], ext[r])
  <2>1. s + 1 = 3 /\ ctx'[w].got[2].kind = "revise" => ckpt[r][2].kind = "revise"
    BY <1>6
  <2>2. ctx[w].reviewer => runs[r].pinned
    BY <1>2 DEF Facing, Closing
  <2> QED
    BY <1>3, <2>1, <2>2 DEF Facing, InHandAt
<1> QED
  BY <1>1, <1>3, <1>4, <1>11, <1>12, PayKept

LEMMA PayLoad ==
  ASSUME RunAssumption, TypeInv, OwnInv, RunInv, PayInv, NEW w \in Executors, LoadStep(w)
  PROVE  PayInv'
<1> DEFINE r == RunOf(w)
           s == ctx[w].step
<1>1. /\ pc[w] = "load" /\ pc[w] \in HasRun /\ UNCHANGED <<runs, row, ckpt, ext, calls>>
      /\ ~ Consolidating(w) /\ ~ Extracting(w)
  BY DEF LoadStep, HasRun, PC, InTry, db
<1>2. /\ r \in RunIds /\ ctx[w] \in Ctx
      /\ Ahead(pc[w], ctx[w], Unpaid(r), ckpt[r])
      /\ Facing(pc[w], ctx[w], runs[r], ckpt[r], ext[r])
      /\ BooksIn(runs[r], Unpaid(r), ckpt[r], row[r], ext[r])
  BY <1>1, PayShows
<1>3. /\ s \in 1 .. 3 /\ s \notin Extractions /\ s \in Steps
      /\ (s = 2 => ctx[w].reviewer) /\ (s = 3 => ctx[w].got[2].kind = "revise")
  <2>1. s \in Steps
    BY <1>1, InRun, Here DEF GoodPlace
  <2> QED
    BY <1>1, <2>1 DEF Consolidating, Extracting, Steps, EngineSteps
<1>4. ckpt[r][s] \in Reply
  BY <1>2, <1>3 DEF TypeInv, DbOK
<1> HIDE DEF r, s
<1>5. CASE ckpt[r][s] # NoReply /\ NextStep(w, Replayed(ckpt[r][s]))
  <2> DEFINE reply == Replayed(ckpt[r][s])
  <2>1. /\ reply \in Reply
        /\ reply.kind \in {"revise", "proposal"} => ckpt[r][s].kind = reply.kind
        /\ ckpt[r][s].kind = "revise" => reply.kind = "revise"
    BY <1>4, ReplayedType DEF Replayed, Fresh, NoReply, Reply
  <2>2. s \notin Unpaid(r)
    BY <1>5, UnpaidShows DEF Unpaid
  <2>3. NextStep(w, reply)
    BY <1>5
  <2> HIDE DEF reply
  <2> QED
    BY <1>1, <1>3, <2>1, <2>2, <2>3, PayReplays DEF r, s
<1>6. CASE ckpt[r][s] = NoReply /\ row[r][s] = "failed" /\ NextStep(w, NoReply)
  <2>1. NoReply \in Reply /\ NoReply.kind = "none"
    BY <1>4, ReplayedType DEF NoReply
  <2>2. s \notin Unpaid(r)
    BY <1>6, UnpaidShows DEF Unpaid
  <2> QED
    BY <1>1, <1>3, <1>6, <2>1, <2>2, PayReplays DEF r, s
<1>7. CASE ckpt[r][s] = NoReply /\ Goto(w, "lease", ctx[w])
  <2>1. Ahead("lease", ctx[w], Unpaid(r), ckpt[r])
    BY <1>1, <1>2 DEF Ahead, Bringing
  <2>2. Facing("lease", ctx[w], runs[r], ckpt[r], ext[r])
    BY <1>1, <1>2, <1>3, <1>7 DEF Facing, s, Closing
  <2> QED
    BY <1>1, <1>7, <2>1, <2>2, PayGoes DEF r
<1>8. \/ ckpt[r][s] # NoReply /\ NextStep(w, Replayed(ckpt[r][s]))
      \/ ckpt[r][s] = NoReply /\ row[r][s] = "failed" /\ NextStep(w, NoReply)
      \/ ckpt[r][s] = NoReply /\ Goto(w, "lease", ctx[w])
  BY DEF LoadStep, r, s
<1> QED
  BY <1>5, <1>6, <1>7, <1>8

LEMMA PayLease ==
  ASSUME TypeInv, OwnInv, RunInv, PayInv, NEW w \in Executors, CheckLease(w)
  PROVE  PayInv'
<1> DEFINE r == RunOf(w)
<1>1. /\ pc[w] \in {"lease", "extLease", "finLease", "failLease"} /\ pc[w] \in HasRun
      /\ UNCHANGED <<runs, row, ckpt, ext, calls>>
      /\ Release(w) \/ Goto(w, LeaseNext[pc[w]], ctx[w])
  BY DEF CheckLease, LeaseNext, HasRun, PC, InTry, db
<1>2. /\ r \in RunIds /\ ctx[w] \in Ctx
      /\ Ahead(pc[w], ctx[w], Unpaid(r), ckpt[r])
      /\ Facing(pc[w], ctx[w], runs[r], ckpt[r], ext[r])
  BY <1>1, PayShows
<1>3. CASE Release(w)
  BY <1>1, <1>3, PayLeaves
<1>4. CASE pc[w] = "failLease" /\ Goto(w, "close", ctx[w])
  BY <1>1, <1>4, PayCloses DEF Closing
<1> HIDE DEF r
<1>5. CASE pc[w] = "lease" /\ Goto(w, "guard", ctx[w])
  <2>1. Ahead("guard", ctx[w], Unpaid(r), ckpt[r])
    BY <1>2, <1>5 DEF Ahead, Bringing
  <2>2. Facing("guard", ctx[w], runs[r], ckpt[r], ext[r])
    BY <1>2, <1>5 DEF Facing, InHandAt, Closing
  <2> QED
    BY <1>1, <1>5, <2>1, <2>2, PayGoes DEF r
<1>6. CASE pc[w] = "extLease" /\ Goto(w, "persist", ctx[w])
  <2>1. Ahead("persist", ctx[w], Unpaid(r), ckpt[r])
    BY <1>2, <1>6 DEF Ahead, Bringing
  <2>2. Facing("persist", ctx[w], runs[r], ckpt[r], ext[r])
    BY <1>2, <1>6 DEF Facing, InHandAt, Closing
  <2> QED
    BY <1>1, <1>6, <2>1, <2>2, PayGoes DEF r
<1>7. CASE pc[w] = "finLease" /\ Goto(w, "finalize", ctx[w])
  <2>1. Ahead("finalize", ctx[w], Unpaid(r), ckpt[r])
    BY <1>2, <1>7 DEF Ahead, Bringing
  <2>2. Facing("finalize", ctx[w], runs[r], ckpt[r], ext[r])
    BY <1>2, <1>7 DEF Facing, InHandAt, Closing
  <2> QED
    BY <1>1, <1>7, <2>1, <2>2, PayGoes DEF r
<1> QED
  BY <1>1, <1>3, <1>4, <1>5, <1>6, <1>7 DEF LeaseNext

LEMMA PayGuards ==
  ASSUME TypeInv, OwnInv, RunInv, PayInv, NEW w \in Executors, GuardCheck(w)
  PROVE  PayInv'
<1> DEFINE r == RunOf(w)
<1>1. pc[w] = "guard" /\ pc[w] \in HasRun /\ UNCHANGED <<runs, row, ckpt, ext, calls>>
  BY DEF GuardCheck, HasRun, PC, InTry, db
<1>2. CASE \E o : Close(w, o)
  BY <1>1, <1>2, PayCloses
<1>3. CASE runs[r].rel # "dispatching" /\ Goto(w, "guardCommit", ctx[w])
  <2> HIDE DEF r
  <2>1. /\ Ahead(pc[w], ctx[w], Unpaid(r), ckpt[r])
        /\ Facing(pc[w], ctx[w], runs[r], ckpt[r], ext[r])
        /\ BooksIn(runs[r], Unpaid(r), ckpt[r], row[r], ext[r])
        /\ runs[r].rel \notin Terminal
    BY <1>1, PayShows DEF r
  <2>2. Unpaid(r) = {}
    BY <1>3, <2>1 DEF BooksIn, MayOwe, Terminal
  <2>3. Ahead("guardCommit", ctx[w], Unpaid(r), ckpt[r])
    BY <2>2 DEF Ahead
  <2>4. Facing("guardCommit", ctx[w], runs[r], ckpt[r], ext[r])
    BY <1>1, <1>3, <2>1 DEF Facing, InHandAt, Closing
  <2> QED
    BY <1>1, <1>3, <2>3, <2>4, PayGoes DEF r
<1> QED
  BY <1>2, <1>3 DEF GuardCheck

LEMMA PayIntends ==
  ASSUME TypeInv, OwnInv, RunInv, PayInv, NEW w \in Executors, GuardCommit(w)
  PROVE  PayInv'
<1> DEFINE r == RunOf(w)
<1>1. /\ pc[w] = "guardCommit" /\ pc[w] \in HasRun /\ UNCHANGED <<row, ckpt, ext, calls>>
      /\ runs' = Advanced(r, "dispatching") /\ Goto(w, "call", ctx[w])
  BY DEF GuardCommit, HasRun, PC, InTry
<1>2. OnlyRows(r)
  BY <1>1, StepRows DEF Work
<1>3. r \in RunIds /\ "dispatching" \in Reliability
  BY <1>1, InRun DEF Reliability
<1>4. /\ runs'[r].pinned = runs[r].pinned /\ runs'[r].status = runs[r].status
      /\ runs'[r].rel = IF IsTerminal(r) THEN runs[r].rel ELSE "dispatching"
  BY <1>1, <1>3, AdvancedRun
<1> HIDE DEF r
<1>5. /\ Ahead(pc[w], ctx[w], Unpaid(r), ckpt[r])
      /\ Facing(pc[w], ctx[w], runs[r], ckpt[r], ext[r])
      /\ BooksIn(runs[r], Unpaid(r), ckpt[r], row[r], ext[r])
      /\ OnceIn(calls[r], ckpt[r], row[r])
      /\ runs[r].rel \notin Terminal
  BY <1>1, PayShows DEF r
<1>6. Unpaid(r) = {}
  BY <1>1, <1>5 DEF Ahead
<1>7. runs'[r].rel = "dispatching"
  BY <1>4, <1>5 DEF IsTerminal
<1>8. Ahead("call", ctx[w], Unpaid(r), ckpt[r])
  BY <1>6 DEF Ahead
<1>9. Facing("call", ctx[w], runs'[r], ckpt[r], ext[r])
  BY <1>1, <1>4, <1>5 DEF Facing, InHandAt, Closing
<1>10. BooksIn(runs'[r], Unpaid(r), ckpt[r], row[r], ext[r])
  BY <1>4, <1>5, <1>7 DEF BooksIn, MayOwe
<1>11. /\ pc'[w] = "call" /\ ctx'[w] = ctx[w]
       /\ \A v \in Executors \ {w} : pc'[v] = pc[v] /\ ctx'[v] = ctx[v]
  BY <1>1, Gone
<1> QED
  BY <1>1, <1>2, <1>3, <1>5, <1>8, <1>9, <1>10, <1>11, PayMoves DEF r, RunOf, Unpaid

\* A call makes at most the step in hand unpaid, and a second call of a step
\* is one of the two exceptions.
LEMMA CalledBooks ==
  ASSUME NEW cl \in [Steps -> Nat], NEW ck, NEW ro, NEW s \in Steps,
         UnpaidIn(cl, ck, ro) = {}, OnceIn(cl, ck, ro), ck[s] = NoReply,
         NEW cl2, \A q \in Steps \ {s} : cl2[q] = cl[q], cl2[s] = cl[s] + 1
  PROVE  UnpaidIn(cl2, ck, ro) \subseteq {s} /\ OnceIn(cl2, ck, ro)
<1>1. \A q \in Steps \ {s} : cl2[q] = cl[q]
  OBVIOUS
<1>2. cl2[s] = cl[s] + 1 /\ cl[s] \in Nat
  OBVIOUS
<1>3. ASSUME NEW q \in UnpaidIn(cl2, ck, ro) PROVE q = s
  <2>1. q \in Steps /\ cl2[q] > 0 /\ ck[q] = NoReply /\ ~ Excused(ck, ro, q)
    BY <1>3 DEF UnpaidIn
  <2>2. q # s => q \in UnpaidIn(cl, ck, ro)
    BY <1>1, <2>1 DEF UnpaidIn
  <2> QED
    BY <2>2
<1>4. ASSUME NEW q \in Steps, cl2[q] > 1 PROVE Excused(ck, ro, q)
  <2>1. CASE q # s
    BY <1>1, <1>4, <2>1 DEF OnceIn
  <2>2. CASE q = s
    <3>1. cl[s] > 0
      BY <1>2, <1>4, <2>2
    <3> QED
      BY <2>2, <3>1 DEF UnpaidIn
  <2> QED
    BY <2>1, <2>2
<1> QED
  BY <1>3, <1>4 DEF OnceIn

\* An answer, a rejection, an outcome nobody knows.
LEMMA PayCalls ==
  ASSUME RunAssumption, TypeInv, OwnInv, RunInv, PayInv, NEW w \in Executors, CallProvider(w)
  PROVE  PayInv'
<1> DEFINE r == RunOf(w)
           s == ctx[w].step
<1>1. /\ pc[w] = "call" /\ pc[w] \in HasRun /\ UNCHANGED <<runs, row, ckpt, ext>>
      /\ s \in (1 .. 3) \cup Extractions /\ s \in Steps
  BY InAStep DEF CallProvider, InStep
<1>2. OnlyRows(r)
  BY <1>1, StepRows DEF Work
<1>3. /\ UNCHANGED calls \/ calls' = [calls EXCEPT ![r][s] = @ + 1]
      /\ \/ \E o : Close(w, o)
         \/ \E l \in {"persist", "extLease"} : \E reply : Goto(w, l, [ctx[w] EXCEPT !.reply = reply])
         \/ /\ UNCHANGED calls
            /\ \E reply : Goto(w, "extReject", [ctx[w] EXCEPT !.reply = reply])
  BY DEF CallProvider
<1> HIDE DEF s, r
<1>4. /\ r \in RunIds /\ ctx[w] \in Ctx
      /\ Ahead(pc[w], ctx[w], Unpaid(r), ckpt[r])
      /\ Facing(pc[w], ctx[w], runs[r], ckpt[r], ext[r])
      /\ BooksIn(runs[r], Unpaid(r), ckpt[r], row[r], ext[r])
      /\ OnceIn(calls[r], ckpt[r], row[r])
  BY <1>1, PayShows DEF r
<1>5. runs[r].rel = "dispatching"
  BY <1>1 DEF RunInv, Intent, Dispatched, r
<1> DEFINE unpaid == UnpaidIn(calls'[r], ckpt[r], row[r])
<1>6. Unpaid(r) = {}
  BY <1>1, <1>4 DEF Ahead
<1>7. unpaid \subseteq {s} /\ OnceIn(calls'[r], ckpt[r], row[r])
  <2>1. CASE UNCHANGED calls
    BY <1>4, <1>6, <2>1 DEF Unpaid
  <2>2. CASE calls' = [calls EXCEPT ![r][s] = @ + 1]
    <3>1. calls \in [RunIds -> [Steps -> Nat]]
      BY DEF TypeInv, DbOK
    <3>2. calls[r] \in [Steps -> Nat] /\ calls'[r] = [calls[r] EXCEPT ![s] = calls[r][s] + 1]
      BY <1>4, <2>2, <3>1
    <3>5. calls'[r][s] = calls[r][s] + 1 /\ \A q \in Steps \ {s} : calls'[r][q] = calls[r][q]
      BY <1>1, <3>2
    <3>3. ckpt[r][s] = NoReply
      BY <1>1, <1>4 DEF Facing, InHandAt, s
    <3>4. UnpaidIn(calls[r], ckpt[r], row[r]) = {}
      BY <1>6 DEF Unpaid
    <3> QED
      BY <1>1, <1>4, <3>2, <3>3, <3>4, <3>5, CalledBooks
  <2> QED
    BY <1>3, <2>1, <2>2
<1>8. UNCHANGED calls => unpaid = {}
  BY <1>6 DEF Unpaid
<1>9. BooksIn(runs'[r], unpaid, ckpt'[r], row'[r], ext'[r])
  <2>1. \A q \in unpaid : q = s
    BY <1>7
  <2>2. s = 2 => runs[r].pinned
    BY <1>1, <1>4 DEF Facing, InHandAt, s, Closing
  <2>3. s = 3 => ckpt[r][2].kind = "revise"
    BY <1>1, <1>4 DEF Facing, s
  <2>4. s # 4 /\ (s \in Extractions => ext[r][s] = "none")
    BY <1>1, <1>4, StepNumbers DEF Facing, InHandAt, s
  <2>5. runs[r].status # "absent"
    BY <1>1, PayShows DEF r
  <2> HIDE DEF unpaid
  <2> QED
    BY <1>1, <1>4, <1>5, <2>1, <2>2, <2>3, <2>4, <2>5 DEF BooksIn, MayOwe
<1> HIDE DEF unpaid
<1>10. ASSUME NEW l, NEW c, Goto(w, l, c), c.run = ctx[w].run,
              Ahead(l, c, unpaid, ckpt[r]), Facing(l, c, runs[r], ckpt[r], ext[r])
       PROVE  PayInv'
  <2>1. pc'[w] = l /\ ctx'[w] = c /\ \A v \in Executors \ {w} : pc'[v] = pc[v] /\ ctx'[v] = ctx[v]
    BY <1>10, Gone
  <2> QED
    BY <1>1, <1>2, <1>4, <1>7, <1>9, <1>10, <2>1, PayMoves DEF r, RunOf, unpaid
<1>11. ASSUME NEW o, Close(w, o) PROVE PayInv'
  <2> DEFINE c == [ctx[w] EXCEPT !.out = o]
  <2>1. c.run = ctx[w].run /\ Goto(w, "close", c)
    BY <1>4, <1>11 DEF Ctx, Close
  <2> HIDE DEF c
  <2>2. "close" \in Closing
    BY DEF Closing
  <2> QED
    BY <1>10, <2>1, <2>2, ClosingIsCalm
<1>12. ASSUME NEW l \in {"persist", "extLease", "extReject"}, NEW reply,
              Goto(w, l, [ctx[w] EXCEPT !.reply = reply]),
              l = "extReject" => UNCHANGED calls
       PROVE  PayInv'
  <2> DEFINE c == [ctx[w] EXCEPT !.reply = reply]
  <2>1. /\ c.run = ctx[w].run /\ c.step = s /\ c.got = ctx[w].got /\ c.reviewer = ctx[w].reviewer
        /\ Goto(w, l, c)
    BY <1>4, <1>12 DEF Ctx, s
  <2> HIDE DEF c
  <2>2. Ahead(l, c, unpaid, ckpt[r])
    BY <1>7, <1>8, <1>12, <2>1 DEF Ahead, Bringing
  <2>3. Facing(l, c, runs[r], ckpt[r], ext[r])
    BY <1>1, <1>4, <2>1 DEF Facing, InHandAt, s, Closing
  <2> QED
    BY <1>10, <2>1, <2>2, <2>3
<1> QED
  <2>1. CASE \E o : Close(w, o)
    BY <1>11, <2>1
  <2>2. CASE \E l \in {"persist", "extLease"} : \E reply : Goto(w, l, [ctx[w] EXCEPT !.reply = reply])
    <3>1. PICK l \in {"persist", "extLease"} : \E reply : Goto(w, l, [ctx[w] EXCEPT !.reply = reply])
      BY <2>2
    <3>2. PICK reply : Goto(w, l, [ctx[w] EXCEPT !.reply = reply])
      BY <3>1
    <3>3. l \in {"persist", "extLease", "extReject"} /\ l # "extReject"
      BY <3>1
    <3> QED
      BY <1>12, <3>2, <3>3
  <2>3. ASSUME UNCHANGED calls, NEW reply, Goto(w, "extReject", [ctx[w] EXCEPT !.reply = reply])
        PROVE  PayInv'
    BY <1>12, <2>3
  <2> QED
    BY <1>3, <2>1, <2>2, <2>3

\* Where a reply is recorded nothing is unpaid any more.
LEMMA PaySettles ==
  ASSUME TypeInv, OwnInv, RunInv, PayInv, NEW w \in Executors, NEW r,
         pc[w] \in HasRun, r = RunOf(w), OnlyRows(r),
         \A v \in Executors \ {w} : pc'[v] = pc[v] /\ ctx'[v] = ctx[v],
         pc'[w] \in HasRun => ctx'[w].run = r,
         pc'[w] \in {"load", "failLease", "finLease", "apply"},
         UnpaidIn(calls'[r], ckpt'[r], row'[r]) = {}, OnceIn(calls'[r], ckpt'[r], row'[r]),
         \A x \in Extractions : row'[r][x] = "none",
         ckpt'[r][2] # NoReply => runs'[r].pinned,
         Facing(pc'[w], ctx'[w], runs'[r], ckpt'[r], ext'[r])
  PROVE  PayInv'
<1>1. r \in RunIds
  BY InRun
<1>2. Ahead(pc'[w], ctx'[w], {}, ckpt'[r])
  BY DEF Ahead
<1>3. BooksIn(runs'[r], {}, ckpt'[r], row'[r], ext'[r])
  BY DEF BooksIn
<1> QED
  BY <1>1, <1>2, <1>3, PayMoves

\* What a persist leaves: the step has a row or a checkpoint.
LEMMA PersistBooks ==
  ASSUME RunAssumption, TypeInv, RunInv, PayInv, NEW w \in Executors, PersistStep(w)
  PROVE  LET r == RunOf(w)
             s == ctx[w].step
             reply == ctx[w].reply
         IN /\ r \in RunIds /\ s \in 1 .. 3 /\ s \in Steps /\ reply \in Reply
            /\ pc[w] = "persist" /\ pc[w] \in HasRun /\ UNCHANGED <<ext, calls>>
            /\ row'[r][s] # "none"
            /\ \A q \in Steps \ {s} : row'[r][q] = row[r][q] /\ ckpt'[r][q] = ckpt[r][q]
            /\ row[r][s] # "none" => /\ row'[r][s] # "none" /\ ckpt'[r][s] = ckpt[r][s]
                                     /\ runs' = runs
            /\ row[r][s] = "none" /\ reply # NoReply => ckpt'[r][s] = reply
            /\ row[r][s] = "none" /\ reply = NoReply => ckpt'[r][s] = ckpt[r][s]
            /\ UNCHANGED runs \/ runs' = Advanced(r, "result_checkpointed")
<1> DEFINE r == RunOf(w)
           s == ctx[w].step
           reply == ctx[w].reply
<1>1. /\ pc[w] = "persist" /\ pc[w] \in HasRun /\ r \in RunIds
      /\ s \in 1 .. 3 /\ s \in Steps /\ reply \in Reply /\ UNCHANGED <<ext, calls>>
  BY InAStep DEF PersistStep, InStep, Extracting, Ctx
<1>2. \/ row[r][s] # "none" /\ UNCHANGED <<row, ckpt, runs>>
      \/ /\ row[r][s] = "none" /\ runs' = Advanced(r, "result_checkpointed")
         /\ \E n \in {"answered", "failed"} : row' = [row EXCEPT ![r][s] = n]
         /\ \/ reply = NoReply /\ UNCHANGED ckpt
            \/ reply # NoReply /\ ckpt' = [ckpt EXCEPT ![r][s] = reply]
  BY DEF PersistStep
<1>3. /\ row \in [RunIds -> [Steps -> {"none", "answered", "failed", "consolidated"}]]
      /\ ckpt \in [RunIds -> [Steps -> Reply]]
  BY DEF TypeInv, DbOK
<1> HIDE DEF r, s, reply
<1>4. CASE row[r][s] # "none" /\ UNCHANGED <<row, ckpt, runs>>
  BY <1>1, <1>4 DEF r, s, reply
<1>5. CASE /\ row[r][s] = "none" /\ runs' = Advanced(r, "result_checkpointed")
           /\ \E n \in {"answered", "failed"} : row' = [row EXCEPT ![r][s] = n]
           /\ \/ reply = NoReply /\ UNCHANGED ckpt
              \/ reply # NoReply /\ ckpt' = [ckpt EXCEPT ![r][s] = reply]
  <2>1. row'[r][s] # "none" /\ \A q \in Steps \ {s} : row'[r][q] = row[r][q]
    BY <1>1, <1>3, <1>5
  <2>2. \A q \in Steps \ {s} : ckpt'[r][q] = ckpt[r][q]
    BY <1>1, <1>3, <1>5
  <2>3. ckpt'[r][s] = IF reply = NoReply THEN ckpt[r][s] ELSE reply
    BY <1>1, <1>3, <1>5
  <2> QED
    BY <1>1, <1>5, <2>1, <2>2, <2>3 DEF r, s, reply
<1> QED
  BY <1>2, <1>4, <1>5

LEMMA PayPersists ==
  ASSUME RunAssumption, TypeInv, OwnInv, RunInv, PayInv, NEW w \in Executors, PersistStep(w)
  PROVE  PayInv'
<1> DEFINE r == RunOf(w)
           s == ctx[w].step
           reply == ctx[w].reply
<1>1. /\ r \in RunIds /\ s \in 1 .. 3 /\ s \in Steps /\ reply \in Reply
      /\ pc[w] = "persist" /\ pc[w] \in HasRun /\ UNCHANGED <<ext, calls>>
      /\ row'[r][s] # "none"
      /\ \A q \in Steps \ {s} : row'[r][q] = row[r][q] /\ ckpt'[r][q] = ckpt[r][q]
      /\ row[r][s] # "none" => ckpt'[r][s] = ckpt[r][s] /\ runs' = runs
      /\ row[r][s] = "none" /\ reply # NoReply => ckpt'[r][s] = reply
      /\ row[r][s] = "none" /\ reply = NoReply => ckpt'[r][s] = ckpt[r][s]
      /\ UNCHANGED runs \/ runs' = Advanced(r, "result_checkpointed")
  BY PersistBooks
<1>2. OnlyRows(r)
  BY <1>1, StepRows DEF Work
<1>3. \/ s = 1 /\ Goto(w, "failLease", [ctx[w] EXCEPT !.out = "failed"])
      \/ NextStep(w, Fresh(reply))
  BY DEF PersistStep
<1> HIDE DEF r, s, reply
<1>4. /\ ctx[w] \in Ctx
      /\ Ahead(pc[w], ctx[w], Unpaid(r), ckpt[r])
      /\ Facing(pc[w], ctx[w], runs[r], ckpt[r], ext[r])
      /\ BooksIn(runs[r], Unpaid(r), ckpt[r], row[r], ext[r])
      /\ OnceIn(calls[r], ckpt[r], row[r])
  BY <1>1, PayShows DEF r
<1>5. runs[r].rel = "dispatching"
  BY <1>1 DEF RunInv, Intent, Dispatched, r
<1>6. ckpt[r][s] = NoReply /\ (s = 2 => runs[r].pinned) /\ (ctx[w].reviewer => runs[r].pinned)
  BY <1>1, <1>4 DEF Facing, InHandAt, s, Closing
<1>7. runs'[r].pinned = runs[r].pinned
  BY <1>1, AdvancedRun DEF Reliability
<1>8. Grown(ckpt[r], row[r], ckpt'[r], row'[r])
  BY <1>1, <1>6 DEF Grown
<1> DEFINE unpaid == UnpaidIn(calls'[r], ckpt'[r], row'[r])
<1>9. /\ unpaid \subseteq Unpaid(r) /\ OnceIn(calls'[r], ckpt'[r], row'[r])
      /\ \A q \in unpaid : row'[r][q] = "none"
  <2>1. /\ UnpaidIn(calls[r], ckpt'[r], row'[r]) \subseteq UnpaidIn(calls[r], ckpt[r], row[r])
        /\ OnceIn(calls[r], ckpt'[r], row'[r])
        /\ \A q \in UnpaidIn(calls[r], ckpt'[r], row'[r]) : row'[r][q] = "none"
    BY <1>4, <1>8, BooksShrink
  <2> QED
    BY <1>1, <2>1 DEF Unpaid
<1>10. unpaid = {}
  BY <1>1, <1>4, <1>9 DEF Ahead, Bringing, s
<1>11. \A x \in Extractions : row'[r][x] = "none"
  <2>1. \A x \in Extractions : x \in Steps /\ x # s
    BY <1>1, StepNumbers
  <2>2. \A x \in Extractions : row[r][x] = "none"
    BY <1>4 DEF BooksIn
  <2> QED
    BY <1>1, <2>1, <2>2
<1>12. ckpt'[r][2] # NoReply => runs'[r].pinned
  BY <1>1, <1>4, <1>6, <1>7, StepNumbers DEF BooksIn
<1> HIDE DEF unpaid
<1>13. CASE Goto(w, "failLease", [ctx[w] EXCEPT !.out = "failed"])
  <2> DEFINE c == [ctx[w] EXCEPT !.out = "failed"]
  <2>1. c.run = r /\ Goto(w, "failLease", c)
    BY <1>4, <1>13 DEF Ctx, r, RunOf
  <2> HIDE DEF c
  <2>2. /\ pc'[w] = "failLease" /\ ctx'[w] = c
        /\ \A v \in Executors \ {w} : pc'[v] = pc[v] /\ ctx'[v] = ctx[v]
    BY <2>1, Gone
  <2>3. Facing("failLease", c, runs'[r], ckpt'[r], ext'[r])
    BY ClosingIsCalm DEF Closing
  <2> QED
    BY <1>1, <1>2, <1>9, <1>10, <1>11, <1>12, <2>1, <2>2, <2>3, PaySettles DEF unpaid, r
<1>14. CASE NextStep(w, Fresh(reply))
  <2>1. Fresh(reply) \in Reply
    BY <1>1, ReplayedType
  <2>2. /\ pc'[w] = "load" /\ ctx'[w].step = s + 1 /\ ctx'[w].run = r
        /\ ctx'[w].reviewer = ctx[w].reviewer
        /\ ctx'[w].got[2] = IF 2 = s THEN Fresh(reply) ELSE ctx[w].got[2]
    <3>1. ctx[w].step \in 1 .. 3 /\ 2 \in 1 .. 3
      BY <1>1 DEF s
    <3>2. /\ pc'[w] = "load" /\ ctx'[w].step = ctx[w].step + 1 /\ ctx'[w].run = ctx[w].run
          /\ ctx'[w].reviewer = ctx[w].reviewer
          /\ \A e \in 1 .. 3 : ctx'[w].got[e] = IF e = ctx[w].step THEN Fresh(reply) ELSE ctx[w].got[e]
      BY <1>1, <1>14, <2>1, <3>1, NextStepMemory
    <3> QED
      BY <3>1, <3>2 DEF r, s, RunOf
  <2>3. \A v \in Executors \ {w} : pc'[v] = pc[v] /\ ctx'[v] = ctx[v]
    BY <1>14, Gone DEF NextStep
  <2>4. ctx'[w].step = 3 /\ ctx'[w].got[2].kind = "revise" =>
          ckpt'[r][2].kind = "revise" \/ runs'[r].rel = "dispatching"
    <3> SUFFICES ASSUME s + 1 = 3, ctx'[w].got[2].kind = "revise"
                 PROVE  ckpt'[r][2].kind = "revise" \/ runs'[r].rel = "dispatching"
      BY <2>2
    <3>1. s = 2 /\ ctx'[w].got[2] = Fresh(reply)
      BY <1>1, <2>2
    <3>2. reply.kind = "revise" /\ reply # NoReply
      BY <3>1 DEF Fresh, NoReply
    <3> QED
      BY <1>1, <1>5, <3>1, <3>2
  <2>5. Facing("load", ctx'[w], runs'[r], ckpt'[r], ext'[r])
    BY <1>6, <1>7, <2>2, <2>4 DEF Facing, InHandAt
  <2> QED
    BY <1>1, <1>2, <1>9, <1>10, <1>11, <1>12, <2>2, <2>3, <2>5, PaySettles DEF unpaid, r
<1> QED
  BY <1>3, <1>13, <1>14

\* The consolidation takes a number that the engine is done with.
LEMMA PayConsolidates ==
  ASSUME RunAssumption, TypeInv, OwnInv, RunInv, PayInv, NEW w \in Executors, Consolidate(w)
  PROVE  PayInv'
<1> DEFINE r == RunOf(w)
           s == ctx[w].step
<1>1. /\ pc[w] = "load" /\ pc[w] \in HasRun /\ UNCHANGED <<runs, ckpt, ext, calls>>
      /\ s \in 2 .. 4 /\ ~ (s = 2 /\ ctx[w].reviewer) /\ ~ (s = 3 /\ ctx[w].got[2].kind = "revise")
      /\ row' = row \/ (row[r][s] = "none" /\ row' = [row EXCEPT ![r][s] = "consolidated"])
      /\ Goto(w, "decide", ctx[w])
  BY DEF Consolidate, Consolidating, HasRun, PC, InTry
<1>2. OnlyRows(r)
  BY <1>1, StepRows DEF Work
<1> HIDE DEF r, s
<1>3. /\ r \in RunIds /\ ctx[w] \in Ctx
      /\ Ahead(pc[w], ctx[w], Unpaid(r), ckpt[r])
      /\ Facing(pc[w], ctx[w], runs[r], ckpt[r], ext[r])
      /\ BooksIn(runs[r], Unpaid(r), ckpt[r], row[r], ext[r])
      /\ OnceIn(calls[r], ckpt[r], row[r])
      /\ runs[r].status = "running"
  BY <1>1, PayShows DEF r
<1>4. s \in Steps /\ \A x \in Extractions : x # s /\ x \in Steps
  BY <1>1, StepNumbers
<1>5. \A q \in Steps : /\ row[r][q] # "none" => row'[r][q] # "none"
                       /\ q # s => row'[r][q] = row[r][q]
  <2>1. row \in [RunIds -> [Steps -> {"none", "answered", "failed", "consolidated"}]]
    BY DEF TypeInv, DbOK
  <2> QED
    BY <1>1, <1>3, <1>4, <2>1
<1> DEFINE unpaid == UnpaidIn(calls'[r], ckpt'[r], row'[r])
<1>6. unpaid \subseteq Unpaid(r) /\ OnceIn(calls'[r], ckpt'[r], row'[r])
  <2>1. Grown(ckpt[r], row[r], ckpt'[r], row'[r])
    BY <1>1, <1>5 DEF Grown
  <2>2. /\ UnpaidIn(calls[r], ckpt'[r], row'[r]) \subseteq UnpaidIn(calls[r], ckpt[r], row[r])
        /\ OnceIn(calls[r], ckpt'[r], row'[r])
    BY <1>3, <2>1, BooksShrink
  <2> QED
    BY <1>1, <2>2 DEF Unpaid
<1>7. Unpaid(r) \subseteq Extractions
  <2> SUFFICES ASSUME NEW q \in Unpaid(r), q \notin Extractions PROVE FALSE
    OBVIOUS
  <2>1. q \in 1 .. 4 /\ q >= s /\ q # 4
    BY <1>1, <1>3, StepNumbers DEF Unpaid, UnpaidIn, Ahead, BooksIn, s
  <2>2. /\ q \in {2, 3} => ctx[w].reviewer
        /\ q = 3 /\ s = 3 => ctx[w].got[2].kind = "revise"
    BY <1>1, <1>3 DEF Ahead, s
  <2> QED
    BY <1>1, <2>1, <2>2
<1> HIDE DEF unpaid
<1>8. Ahead("decide", ctx[w], unpaid, ckpt'[r])
  BY <1>1, <1>3, <1>6, <1>7 DEF Ahead, Bringing
<1>9. Facing("decide", ctx[w], runs'[r], ckpt'[r], ext'[r])
  BY <1>1, <1>3 DEF Facing, InHandAt, Closing
<1>10. BooksIn(runs'[r], unpaid, ckpt'[r], row'[r], ext'[r])
  BY <1>1, <1>3, <1>4, <1>5, <1>6 DEF BooksIn
<1>11. /\ pc'[w] = "decide" /\ ctx'[w] = ctx[w]
       /\ \A v \in Executors \ {w} : pc'[v] = pc[v] /\ ctx'[v] = ctx[v]
  BY <1>1, Gone
<1> QED
  BY <1>1, <1>2, <1>3, <1>6, <1>8, <1>9, <1>10, <1>11, PayMoves DEF r, RunOf, unpaid

\* On to the next extraction: what is unpaid is among those that are left.
LEMMA PayExtracts ==
  ASSUME RunAssumption, TypeInv, OwnInv, RunInv, PayInv, NEW w \in Executors, NEW r,
         pc[w] \in HasRun, r = RunOf(w), OnlyRows(r), UNCHANGED <<row, ckpt, calls>>,
         NEW s \in Nat, NextExtraction(w, s),
         runs'[r].pinned = runs[r].pinned,
         \A q \in Unpaid(r) : q \in Extractions /\ q > s,
         Unpaid(r) # {} =>
           \A e \in {1, 3} : ctx[w].got[e].kind = "proposal" => ckpt[r][e].kind = "proposal",
         pc[w] \notin Closing,
         BooksIn(runs'[r], Unpaid(r), ckpt[r], row[r], ext'[r])
  PROVE  PayInv'
<1>1. /\ r \in RunIds /\ ctx[w] \in Ctx
      /\ Facing(pc[w], ctx[w], runs[r], ckpt[r], ext[r])
      /\ OnceIn(calls[r], ckpt[r], row[r])
  BY PayShows
<1>2. ctx[w].reviewer => runs'[r].pinned
  BY <1>1 DEF Facing
<1>3. \A v \in Executors \ {w} : pc'[v] = pc[v] /\ ctx'[v] = ctx[v]
  BY Gone DEF NextExtraction
<1>4. \A x \in Extractions : x \in Nat /\ x > 4
  BY StepNumbers
<1>5. CASE /\ pc'[w] = "finLease" /\ ctx'[w] = ctx[w]
           /\ \A x \in Extractions : x <= s
  <2>1. Unpaid(r) = {}
    <3> SUFFICES ASSUME NEW q \in Unpaid(r) PROVE FALSE
      OBVIOUS
    <3>1. q \in Nat /\ q > s /\ q <= s
      BY <1>4, <1>5
    <3> QED
      BY <3>1
  <2>2. Ahead("finLease", ctx[w], Unpaid(r), ckpt[r])
    BY <2>1 DEF Ahead
  <2>3. Facing("finLease", ctx[w], runs'[r], ckpt[r], ext'[r])
    BY <1>2 DEF Facing, InHandAt
  <2> QED
    BY <1>1, <1>3, <1>5, <2>2, <2>3, PayMoves DEF Unpaid, RunOf
<1>6. CASE /\ pc'[w] = "load"
           /\ ctx'[w].step \in Extractions
           /\ \A x \in Extractions : x > s => x >= ctx'[w].step
           /\ ctx'[w].run = ctx[w].run /\ ctx'[w].reviewer = ctx[w].reviewer
           /\ ctx'[w].got = ctx[w].got
  <2>1. ctx'[w].step > 4 /\ ctx'[w].step \in Nat
    BY <1>4, <1>6
  <2>2. ASSUME NEW q \in Unpaid(r) PROVE q >= ctx'[w].step /\ q \notin {2, 3}
    <3>1. q \in Extractions /\ q > s
      OBVIOUS
    <3>2. q > 4 /\ q \in Nat
      BY <1>4, <3>1
    <3>3. q >= ctx'[w].step
      BY <1>6, <3>1
    <3> QED
      BY <3>2, <3>3
  <2>3. Ahead("load", ctx'[w], Unpaid(r), ckpt[r])
    BY <1>6, <2>2 DEF Ahead, Bringing
  <2>4. Facing("load", ctx'[w], runs'[r], ckpt[r], ext'[r])
    BY <1>2, <1>6, <2>1 DEF Facing, InHandAt
  <2> QED
    BY <1>1, <1>3, <1>6, <2>3, <2>4, PayMoves DEF Unpaid, RunOf
<1> QED
  BY <1>5, <1>6, NextExtractionMemory

LEMMA PayDecides ==
  ASSUME RunAssumption, TypeInv, OwnInv, RunInv, PayInv, NEW w \in Executors, DecideExtraction(w)
  PROVE  PayInv'
<1> DEFINE r == RunOf(w)
<1>1. /\ pc[w] = "decide" /\ pc[w] \in HasRun /\ UNCHANGED <<runs, row, ckpt, ext, calls>>
      /\ NextExtraction(w, 0) \/ (Proposing(w) /\ Goto(w, "finLease", ctx[w]))
  BY DEF DecideExtraction, HasRun, PC, InTry, db
<1>2. OnlyRows(r)
  BY <1>1, StepRows DEF Work
<1> HIDE DEF r
<1>3. /\ r \in RunIds /\ ctx[w] \in Ctx
      /\ Ahead(pc[w], ctx[w], Unpaid(r), ckpt[r])
      /\ Facing(pc[w], ctx[w], runs[r], ckpt[r], ext[r])
      /\ BooksIn(runs[r], Unpaid(r), ckpt[r], row[r], ext[r])
  BY <1>1, PayShows DEF r
<1>4. /\ Unpaid(r) \subseteq Extractions
      /\ Unpaid(r) # {} =>
           \A e \in {1, 3} : ctx[w].got[e].kind = "proposal" => ckpt[r][e].kind = "proposal"
  BY <1>1, <1>3 DEF Ahead
<1>5. CASE NextExtraction(w, 0)
  <2>1. \A q \in Unpaid(r) : q \in Extractions /\ q > 0
    BY <1>4, StepNumbers
  <2>2. pc[w] \notin Closing
    BY <1>1 DEF Closing
  <2> QED
    BY <1>1, <1>2, <1>3, <1>4, <1>5, <2>1, <2>2, PayExtracts DEF r
<1>6. CASE Proposing(w) /\ Goto(w, "finLease", ctx[w])
  <2>1. \E e \in {1, 3} : ctx[w].got[e].kind = "proposal"
    BY <1>6 DEF Proposing
  <2>2. Unpaid(r) = {}
    <3> SUFFICES ASSUME NEW q \in Unpaid(r) PROVE FALSE
      OBVIOUS
    <3>1. PICK e \in {1, 3} : ckpt[r][e].kind = "proposal"
      BY <1>4, <2>1
    <3>2. e \in EngineSteps
      BY DEF EngineSteps
    <3> QED
      BY <1>4, <3>1, <3>2, UnpaidShows DEF Unpaid, Excused
  <2>3. Ahead("finLease", ctx[w], Unpaid(r), ckpt[r])
    BY <2>2 DEF Ahead
  <2>4. Facing("finLease", ctx[w], runs[r], ckpt[r], ext[r])
    BY <1>1, <1>3 DEF Facing, InHandAt, Closing
  <2> QED
    BY <1>1, <1>6, <2>3, <2>4, PayGoes DEF r
<1> QED
  BY <1>1, <1>5, <1>6

LEMMA PayLoadsExtraction ==
  ASSUME RunAssumption, TypeInv, OwnInv, RunInv, PayInv, NEW w \in Executors, LoadExtraction(w)
  PROVE  PayInv'
<1> DEFINE r == RunOf(w)
           x == ctx[w].step
<1>1. /\ pc[w] = "load" /\ pc[w] \in HasRun /\ UNCHANGED <<runs, row, ckpt, ext, calls>>
      /\ x \in Extractions
      /\ \/ ext[r][x] # "none" /\ NextExtraction(w, x)
         \/ ext[r][x] = "none" /\ ckpt[r][x] # NoReply /\ Goto(w, "apply", ctx[w])
         \/ ext[r][x] = "none" /\ ckpt[r][x] = NoReply /\ Goto(w, "lease", ctx[w])
  BY DEF LoadExtraction, Extracting, HasRun, PC, InTry, db
<1>2. OnlyRows(r)
  BY <1>1, StepRows DEF Work
<1> HIDE DEF r, x
<1>3. /\ r \in RunIds /\ ctx[w] \in Ctx
      /\ Ahead(pc[w], ctx[w], Unpaid(r), ckpt[r])
      /\ Facing(pc[w], ctx[w], runs[r], ckpt[r], ext[r])
      /\ BooksIn(runs[r], Unpaid(r), ckpt[r], row[r], ext[r])
  BY <1>1, PayShows DEF r
<1>4. x \in Nat /\ x > 4 /\ x \in Steps
  BY <1>1, StepNumbers
<1>5. CASE ext[r][x] # "none" /\ NextExtraction(w, x)
  <2>1. x \notin Unpaid(r)
    BY <1>1, <1>3, <1>5 DEF BooksIn
  <2>2. \A q \in Unpaid(r) : q \in Extractions /\ q > x
    <3>1. \A q \in Unpaid(r) : q >= x /\ q \in Steps
      BY <1>1, <1>3 DEF Ahead, x, Unpaid, UnpaidIn
    <3>2. \A q \in Unpaid(r) : q \in Nat /\ q # x /\ (q \notin Extractions => q \in 1 .. 4)
      BY <2>1, <3>1, StepNumbers
    <3> QED
      BY <1>4, <3>1, <3>2
  <2>3. Unpaid(r) # {} =>
          \A e \in {1, 3} : ctx[w].got[e].kind = "proposal" => ckpt[r][e].kind = "proposal"
    BY <1>1, <1>3 DEF Ahead
  <2>4. pc[w] \notin Closing
    BY <1>1 DEF Closing
  <2> QED
    BY <1>1, <1>2, <1>3, <1>4, <1>5, <2>2, <2>3, <2>4, PayExtracts DEF r
<1>6. CASE ckpt[r][x] # NoReply /\ Goto(w, "apply", ctx[w])
  <2>1. Ahead("apply", ctx[w], Unpaid(r), ckpt[r])
    BY <1>1, <1>3 DEF Ahead, Bringing
  <2>2. Facing("apply", ctx[w], runs[r], ckpt[r], ext[r])
    BY <1>1, <1>3, <1>6 DEF Facing, InHandAt, Closing, x
  <2> QED
    BY <1>1, <1>6, <2>1, <2>2, PayGoes DEF r
<1>7. CASE ext[r][x] = "none" /\ ckpt[r][x] = NoReply /\ Goto(w, "lease", ctx[w])
  <2>1. Ahead("lease", ctx[w], Unpaid(r), ckpt[r])
    BY <1>1, <1>3 DEF Ahead, Bringing
  <2>2. Facing("lease", ctx[w], runs[r], ckpt[r], ext[r])
    BY <1>1, <1>3, <1>4, <1>7 DEF Facing, Closing, x
  <2> QED
    BY <1>1, <1>7, <2>1, <2>2, PayGoes DEF r
<1> QED
  BY <1>1, <1>5, <1>6, <1>7

LEMMA PayRejects ==
  ASSUME RunAssumption, TypeInv, OwnInv, RunInv, PayInv, NEW w \in Executors, RejectExtraction(w)
  PROVE  PayInv'
<1> DEFINE r == RunOf(w)
<1>1. /\ pc[w] = "extReject" /\ pc[w] \in HasRun /\ UNCHANGED <<row, ckpt, calls>>
      /\ runs' = Advanced(r, "result_checkpointed") /\ NextExtraction(w, ctx[w].step)
      /\ ctx[w].step \in Nat
  BY InAStep DEF RejectExtraction, InStep, Ctx
<1>2. OnlyRows(r)
  BY <1>1, StepRows DEF Work
<1> HIDE DEF r
<1>3. /\ r \in RunIds /\ ctx[w] \in Ctx
      /\ Ahead(pc[w], ctx[w], Unpaid(r), ckpt[r])
      /\ BooksIn(runs[r], Unpaid(r), ckpt[r], row[r], ext[r])
      /\ runs[r].status = "running"
  BY <1>1, PayShows DEF r
<1>4. Unpaid(r) = {}
  BY <1>1, <1>3 DEF Ahead
<1>5. runs'[r].pinned = runs[r].pinned
  BY <1>1, <1>3, AdvancedRun DEF Reliability
<1>6. BooksIn(runs'[r], Unpaid(r), ckpt[r], row[r], ext'[r])
  BY <1>3, <1>4, <1>5 DEF BooksIn
<1>7. pc[w] \notin Closing
  BY <1>1 DEF Closing
<1> QED
  BY <1>1, <1>2, <1>4, <1>5, <1>6, <1>7, PayExtracts DEF r

LEMMA PayPersistsExtraction ==
  ASSUME RunAssumption, TypeInv, OwnInv, BillInv, RunInv, PayInv, NEW w \in Executors,
         PersistExtraction(w)
  PROVE  PayInv'
<1> DEFINE r == RunOf(w)
           x == ctx[w].step
           reply == ctx[w].reply
<1>1. pc[w] = "persist" /\ pc[w] \in HasRun /\ x \in Extractions /\ UNCHANGED <<row, ext, calls>>
  BY DEF PersistExtraction, Extracting, HasRun, PC, InTry
<1>2. OnlyRows(r)
  BY <1>1, StepRows DEF Work
<1>3. /\ r \in RunIds /\ ctx[w] \in Ctx
      /\ Ahead(pc[w], ctx[w], Unpaid(r), ckpt[r])
      /\ Facing(pc[w], ctx[w], runs[r], ckpt[r], ext[r])
      /\ BooksIn(runs[r], Unpaid(r), ckpt[r], row[r], ext[r])
      /\ OnceIn(calls[r], ckpt[r], row[r])
  BY <1>1, PayShows
<1>4. ckpt[r][x] = NoReply
  BY <1>1, <1>3 DEF Facing, InHandAt
<1>5. /\ ckpt' = [ckpt EXCEPT ![r][x] = reply]
      /\ runs' = Advanced(r, "result_checkpointed")
      /\ Goto(w, "apply", ctx[w])
  BY <1>4 DEF PersistExtraction
<1>6. reply # NoReply
  BY <1>1 DEF BillInv, InHand, Bringing, Extracting
<1> HIDE DEF r, x, reply
<1>7. x \in Nat /\ x > 4 /\ x \in Steps
  BY <1>1, StepNumbers
<1>8. ckpt'[r][x] = reply /\ \A q \in Steps \ {x} : ckpt'[r][q] = ckpt[r][q]
  <2>1. ckpt \in [RunIds -> [Steps -> Reply]]
    BY DEF TypeInv, DbOK
  <2> QED
    BY <1>3, <1>5, <1>7, <2>1
<1>9. Grown(ckpt[r], row[r], ckpt'[r], row'[r])
  <2>1. row[r][x] = "none"
    BY <1>1, <1>3 DEF BooksIn
  <2> QED
    BY <1>1, <1>4, <1>8, <2>1 DEF Grown
<1> DEFINE unpaid == UnpaidIn(calls'[r], ckpt'[r], row'[r])
<1>10. /\ unpaid \subseteq Unpaid(r) /\ OnceIn(calls'[r], ckpt'[r], row'[r])
       /\ \A q \in unpaid : ckpt'[r][q] = NoReply
  <2>1. /\ UnpaidIn(calls[r], ckpt'[r], row'[r]) \subseteq UnpaidIn(calls[r], ckpt[r], row[r])
        /\ OnceIn(calls[r], ckpt'[r], row'[r])
        /\ \A q \in UnpaidIn(calls[r], ckpt'[r], row'[r]) : ckpt'[r][q] = NoReply
    BY <1>3, <1>9, BooksShrink
  <2> QED
    BY <1>1, <2>1 DEF Unpaid
<1>11. unpaid = {}
  <2>1. Unpaid(r) \subseteq {x}
    BY <1>1, <1>3 DEF Ahead, Bringing, x
  <2> QED
    BY <1>6, <1>8, <1>10, <2>1
<1>12. runs'[r].pinned = runs[r].pinned
  BY <1>3, <1>5, AdvancedRun DEF Reliability
<1>13. ckpt'[r][2] # NoReply => runs'[r].pinned
  BY <1>3, <1>7, <1>8, <1>12, StepNumbers DEF BooksIn
<1>14. \A y \in Extractions : row'[r][y] = "none"
  BY <1>1, <1>3 DEF BooksIn
<1>15. Facing("apply", ctx[w], runs'[r], ckpt'[r], ext'[r])
  BY <1>1, <1>3, <1>6, <1>8, <1>12 DEF Facing, InHandAt, Closing, x
<1>16. /\ pc'[w] = "apply" /\ ctx'[w] = ctx[w]
       /\ \A v \in Executors \ {w} : pc'[v] = pc[v] /\ ctx'[v] = ctx[v]
  BY <1>5, Gone
<1> HIDE DEF unpaid
<1> QED
  BY <1>1, <1>2, <1>10, <1>11, <1>13, <1>14, <1>15, <1>16, PaySettles DEF unpaid, r, RunOf

\* An extraction that is applied, or whose error was swallowed, has a checkpoint.
LEMMA PayApplies ==
  ASSUME RunAssumption, TypeInv, OwnInv, RunInv, PayInv, NEW w \in Executors,
         ApplyExtraction(w) \/ SwallowApply(w)
  PROVE  PayInv'
<1> DEFINE r == RunOf(w)
           x == ctx[w].step
<1>1. /\ pc[w] = "apply" /\ pc[w] \in HasRun /\ UNCHANGED <<runs, row, ckpt, calls>>
      /\ x \in (1 .. 3) \cup Extractions /\ x \in Steps /\ x \in Nat
  BY InAStep, StepNumbers DEF ApplyExtraction, SwallowApply, InStep, db
<1>2. OnlyRows(r)
  BY <1>1, StepRows DEF Work
<1>3. \/ Release(w) /\ UNCHANGED ext
      \/ NextExtraction(w, x) /\ (UNCHANGED ext \/ ext' = [ext EXCEPT ![r][x] = "applied"])
  BY DEF ApplyExtraction, SwallowApply, db
<1> HIDE DEF r, x
<1>4. /\ r \in RunIds /\ ctx[w] \in Ctx
      /\ Ahead(pc[w], ctx[w], Unpaid(r), ckpt[r])
      /\ Facing(pc[w], ctx[w], runs[r], ckpt[r], ext[r])
      /\ BooksIn(runs[r], Unpaid(r), ckpt[r], row[r], ext[r])
  BY <1>1, PayShows DEF r
<1>5. CASE Release(w) /\ UNCHANGED ext
  BY <1>1, <1>5, PayLeaves
<1>6. CASE NextExtraction(w, x) /\ (UNCHANGED ext \/ ext' = [ext EXCEPT ![r][x] = "applied"])
  <2>1. x \notin Unpaid(r)
    BY <1>1, <1>4, UnpaidShows DEF Unpaid, Facing, x
  <2>2. \A y \in Extractions : ext'[r][y] # "none" => y \notin Unpaid(r)
    <3>1. ext \in [RunIds -> [Extractions -> {"none", "applied", "failed"}]]
      BY DEF TypeInv, DbOK
    <3>2. \A y \in Extractions : y # x => ext'[r][y] = ext[r][y]
      BY <1>4, <1>6, <3>1
    <3> QED
      BY <1>4, <2>1, <3>2 DEF BooksIn
  <2>3. BooksIn(runs'[r], Unpaid(r), ckpt[r], row[r], ext'[r])
    BY <1>1, <1>4, <2>2 DEF BooksIn
  <2>4. \A q \in Unpaid(r) : q \in Extractions /\ q > x
    <3>1. \A q \in Unpaid(r) : q >= x /\ q \in Steps /\ q # x
      BY <1>1, <1>4, <2>1 DEF Ahead, x, Unpaid, UnpaidIn
    <3>2. \A q \in Unpaid(r) : q \in Nat /\ (q \notin Extractions => q \in 1 .. 4)
      BY <3>1, StepNumbers
    <3>3. x \in Nat /\ x > 4
      BY <1>1, <1>4, StepNumbers DEF Facing, x
    <3> QED
      BY <3>1, <3>2, <3>3
  <2>5. Unpaid(r) # {} =>
          \A e \in {1, 3} : ctx[w].got[e].kind = "proposal" => ckpt[r][e].kind = "proposal"
    BY <1>1, <1>4 DEF Ahead
  <2>6. pc[w] \notin Closing
    BY <1>1 DEF Closing
  <2> QED
    BY <1>1, <1>2, <1>6, <2>3, <2>4, <2>5, <2>6, PayExtracts DEF r
<1> QED
  BY <1>3, <1>5, <1>6

\* Finalizing owes nothing; a run that is closed may.
LEMMA PayEnds ==
  ASSUME TypeInv, OwnInv, RunInv, PayInv, NEW w \in Executors,
         \/ FinalizeCheck(w) \/ FinalizeCommit(w) \/ CompleteRun(w)
         \/ CloseCheck(w) \/ CloseCommit(w)
  PROVE  PayInv'
<1> DEFINE r == RunOf(w)
<1>1. /\ pc[w] \in {"finalize", "finalizeCommit", "complete", "close", "closeCommit"}
      /\ pc[w] \in HasRun /\ UNCHANGED <<row, ckpt, ext, calls>>
  BY DEF FinalizeCheck, FinalizeCommit, CompleteRun, CloseCheck, CloseCommit, HasRun, PC, InTry, db
<1>2. OnlyRows(r)
  BY <1>1, StepRows DEF Work
<1>3. /\ r \in RunIds /\ ctx[w] \in Ctx
      /\ Ahead(pc[w], ctx[w], Unpaid(r), ckpt[r])
      /\ Facing(pc[w], ctx[w], runs[r], ckpt[r], ext[r])
      /\ BooksIn(runs[r], Unpaid(r), ckpt[r], row[r], ext[r])
      /\ OnceIn(calls[r], ckpt[r], row[r])
      /\ runs[r].status = "running"
  BY <1>1, PayShows
<1>4. pc[w] \in {"finalize", "finalizeCommit", "complete"} => Unpaid(r) = {}
  BY <1>3 DEF Ahead
<1>5. CASE FinalizeCheck(w)
  <2>1. pc[w] = "finalize" /\ UNCHANGED runs
    BY <1>5 DEF FinalizeCheck, db
  <2>2. (\E o : Finish(w, o)) \/ Goto(w, "finalizeCommit", ctx[w])
    BY <1>5 DEF FinalizeCheck
  <2>3. Ahead("finalizeCommit", ctx[w], Unpaid(r), ckpt[r])
    BY <1>4, <2>1 DEF Ahead
  <2>4. Facing("finalizeCommit", ctx[w], runs[r], ckpt[r], ext[r])
    BY <1>3, <2>1 DEF Facing, InHandAt, Closing
  <2> HIDE DEF r
  <2> QED
    BY <1>1, <2>1, <2>2, <2>3, <2>4, PayLeaves, PayGoes DEF r
<1>6. CASE FinalizeCommit(w)
  <2>1. /\ pc[w] = "finalizeCommit" /\ Goto(w, "complete", ctx[w])
        /\ runs' = [runs EXCEPT ![r].final = ctx[w].got, ![r].rel = "finalizing"]
    BY <1>6 DEF FinalizeCommit
  <2>2. runs'[r].pinned = runs[r].pinned /\ runs'[r].status = runs[r].status
    BY <1>3, <2>1, MarkedRun
  <2> HIDE DEF r
  <2>3. Unpaid(r) = {}
    BY <1>4, <2>1
  <2>4. Ahead("complete", ctx[w], Unpaid(r), ckpt[r])
    BY <2>3 DEF Ahead
  <2>5. Facing("complete", ctx[w], runs'[r], ckpt[r], ext[r])
    BY <1>3, <2>1, <2>2 DEF Facing, InHandAt, Closing
  <2>6. BooksIn(runs'[r], Unpaid(r), ckpt[r], row[r], ext[r])
    BY <1>3, <2>2, <2>3 DEF BooksIn
  <2>7. /\ pc'[w] = "complete" /\ ctx'[w] = ctx[w]
        /\ \A v \in Executors \ {w} : pc'[v] = pc[v] /\ ctx'[v] = ctx[v]
    BY <2>1, Gone
  <2> QED
    BY <1>1, <1>2, <1>3, <2>4, <2>5, <2>6, <2>7, PayMoves DEF r, RunOf, Unpaid
<1>7. CASE CompleteRun(w) \/ CloseCommit(w)
  <2>1. \E o : Finish(w, o)
    BY <1>7 DEF CompleteRun, CloseCommit
  <2>2. /\ pc'[w] \notin HasRun
        /\ \A v \in Executors \ {w} : pc'[v] = pc[v] /\ ctx'[v] = ctx[v]
    BY <2>1, Gone DEF Finish, HasRun
  <2>3. /\ pc[w] \in {"complete", "closeCommit"}
        /\ \/ pc[w] = "complete" /\ runs' = [runs EXCEPT ![r].status = "completed", ![r].rel = "completed"]
           \/ pc[w] = "closeCommit" /\ runs' = [runs EXCEPT ![r].status = "failed", ![r].rel = ctx[w].out]
    BY <1>7 DEF CompleteRun, CloseCommit
  <2>4. runs'[r].pinned = runs[r].pinned /\ runs'[r].status # "absent"
        /\ (runs'[r].rel \in MayOwe \/ pc[w] = "complete")
    <3>1. runs \in [RunIds -> RunRow] /\ runs[r] \in RunRow
      BY <1>3 DEF TypeInv, DbOK
    <3>2. CASE pc[w] = "complete"
      BY <1>3, <2>3, <3>1, <3>2 DEF RunRow
    <3>3. CASE pc[w] = "closeCommit"
      <4>1. ctx[w].out \in MayOwe
        BY <1>1, <3>3, InRun, Here DEF GoodPlace, Closing, Terminal, MayOwe, RunInv, Closes
      <4> HIDE DEF r
      <4>2. runs' = [runs EXCEPT ![r].status = "failed", ![r].rel = ctx[w].out]
        BY <2>3, <3>3
      <4>3. /\ runs'[r].pinned = runs[r].pinned /\ runs'[r].status = "failed"
            /\ runs'[r].rel = ctx[w].out
        BY <1>3, <3>1, <4>2 DEF RunRow
      <4> QED
        BY <4>1, <4>3
    <3> QED
      BY <2>3, <3>2, <3>3
  <2> HIDE DEF r
  <2>5. BooksIn(runs'[r], Unpaid(r), ckpt[r], row[r], ext[r])
    BY <1>3, <1>4, <2>4 DEF BooksIn
  <2> QED
    BY <1>1, <1>2, <1>3, <2>2, <2>5, PayMoves DEF r, Unpaid
<1>8. CASE CloseCheck(w)
  <2>1. UNCHANGED runs /\ ((\E o : Finish(w, o)) \/ Goto(w, "closeCommit", ctx[w]))
    BY <1>8 DEF CloseCheck, db
  <2>2. "closeCommit" \in Closing
    BY DEF Closing
  <2> QED
    BY <1>1, <2>1, <2>2, PayLeaves, PayCloses
<1> QED
  BY <1>5, <1>6, <1>7, <1>8

\* A new run owes nothing.
LEMMA PayBegins ==
  ASSUME RunAssumption, TypeInv, ReplyInv, PayInv, NEW w \in Executors, PreflightCommit(w)
  PROVE  PayInv'
<1>1. UNCHANGED <<row, ckpt, ext, calls>> /\ pc[w] \notin HasRun
  BY DEF PreflightCommit, HasRun
<1>2. PICK r \in RunIds, plan \in Plans :
         /\ runs[r].status = "absent" /\ OnlyRun(r)
         /\ runs'[r].status = "running" /\ runs'[r].rel = "not_dispatched"
         /\ runs'[r].pinned = (plan # "none")
         /\ pc'[w] = "load" /\ ctx'[w].run = r /\ ctx'[w].step = 1
         /\ ctx'[w].reviewer = (plan = "pinned") /\ ctx'[w].got = NoResult
         /\ \A v \in Executors \ {w} : pc'[v] = pc[v] /\ ctx'[v] = ctx[v]
  BY InsertedRun
<1>3. BooksIn(runs[r], Unpaid(r), ckpt[r], row[r], ext[r]) /\ runs[r] = NoRun
  BY <1>2 DEF PayInv, Books, ReplyInv, Blank
<1>4. Unpaid(r) = {} /\ ckpt[r][2] = NoReply
  BY <1>2, <1>3 DEF BooksIn, NoRun
<1>5. BooksIn(runs'[r], Unpaid(r), ckpt[r], row[r], ext[r])
  BY <1>2, <1>3, <1>4 DEF BooksIn
<1>6. Ahead("load", ctx'[w], Unpaid(r), ckpt[r])
  BY <1>4 DEF Ahead, Bringing
<1>7. Facing("load", ctx'[w], runs'[r], ckpt[r], ext[r])
  <2>1. ctx'[w].reviewer => plan = "pinned"
    BY <1>2, Zenon
  <2>2. plan # "none" => runs'[r].pinned
    BY <1>2, Zenon
  <2>3. ctx'[w].reviewer => runs'[r].pinned
    BY <2>1, <2>2
  <2>4. ctx'[w].step = 1
    BY <1>2
  <2> QED
    BY <2>3, <2>4 DEF Facing, InHandAt
<1>8. Books'
  BY <1>1, <1>2, <1>5 DEF PayInv, Books, Unpaid, OnlyRun
<1>9. ASSUME NEW v \in Executors, pc'[v] \in HasRun
      PROVE  LET q == ctx'[v].run
             IN /\ Ahead(pc'[v], ctx'[v], UnpaidIn(calls[q], ckpt[q], row[q]), ckpt[q])
                /\ Facing(pc'[v], ctx'[v], runs'[q], ckpt[q], ext[q])
  <2>1. CASE v = w
    BY <1>2, <1>6, <1>7, <2>1 DEF Unpaid
  <2>2. CASE v # w
    <3>1. pc[v] \in HasRun /\ pc'[v] = pc[v] /\ ctx'[v] = ctx[v]
      BY <1>2, <1>9, <2>2
    <3>2. ctx[v].run \in RunIds \ {r}
      BY <1>2, <3>1, InRun DEF ReplyInv, Inserted, RunOf
    <3>3. runs'[ctx[v].run] = runs[ctx[v].run]
      BY <1>2, <3>2 DEF OnlyRun
    <3> QED
      BY <3>1, <3>3 DEF PayInv, Paying, Unpaid, RunOf
  <2> QED
    BY <2>1, <2>2
<1>10. Paying'
  BY <1>1, <1>9 DEF Paying, Unpaid, RunOf
<1> QED
  BY <1>8, <1>10 DEF PayInv

\* A resume begins again at the first step, with the reviewer that was pinned:
\* it comes to whatever is unpaid.
LEMMA PayResumes ==
  ASSUME RunAssumption, TypeInv, PayInv, NEW w \in Executors, Resume(w)
  PROVE  PayInv'
<1>1. /\ UNCHANGED <<runs, row, ckpt, ext, calls>>
      /\ \A v \in Executors \ {w} : pc'[v] = pc[v] /\ ctx'[v] = ctx[v]
  BY ResumedRun DEF Resume
<1>2. CASE pc'[w] = "finish"
  BY <1>1, <1>2, PayIdle DEF HasRun
<1>3. CASE ctx'[w].run \in RunIds /\ pc'[w] \in {"close", "load"} /\
           (pc'[w] = "load" => /\ ctx'[w].step = 1 /\ ctx'[w].got = NoResult
                               /\ ctx'[w].reviewer = runs[ctx'[w].run].pinned)
  <2> DEFINE r == ctx'[w].run
             c == ctx'[w]
  <2>1. BooksIn(runs[r], Unpaid(r), ckpt[r], row[r], ext[r])
    BY <1>3 DEF PayInv, Books
  <2>2. Ahead(pc'[w], c, Unpaid(r), ckpt[r]) /\ Facing(pc'[w], c, runs[r], ckpt[r], ext[r])
    <3>1. CASE pc'[w] = "close"
      BY <3>1, ClosingIsCalm DEF Closing
    <3>2. CASE pc'[w] = "load"
      <4>1. c.step = 1 /\ c.got = NoResult /\ c.reviewer = runs[r].pinned
        BY <1>3, <3>2
      <4> HIDE DEF c, r
      <4>2. \A q \in Unpaid(r) : q >= 1
        BY StepNumbers DEF Unpaid, UnpaidIn
      <4>3. \A q \in Unpaid(r) : q \in {2, 3} => c.reviewer
        BY <2>1, <4>1 DEF BooksIn, NoReply
      <4>4. \A e \in {1, 3} : c.got[e].kind = "none"
        BY <4>1 DEF NoResult, NoReply
      <4>5. Ahead("load", c, Unpaid(r), ckpt[r])
        BY <4>1, <4>2, <4>3, <4>4 DEF Ahead, Bringing
      <4>6. Facing("load", c, runs[r], ckpt[r], ext[r])
        BY <4>1 DEF Facing, InHandAt
      <4> QED
        BY <3>2, <4>5, <4>6
    <3> QED
      BY <1>3, <3>1, <3>2
  <2> HIDE DEF c, r
  <2>3. ASSUME NEW v \in Executors, pc'[v] \in HasRun
        PROVE  LET q == ctx'[v].run
               IN /\ Ahead(pc'[v], ctx'[v], UnpaidIn(calls[q], ckpt[q], row[q]), ckpt[q])
                  /\ Facing(pc'[v], ctx'[v], runs[q], ckpt[q], ext[q])
    <3>1. CASE v = w
      BY <2>2, <3>1 DEF Unpaid, c, r
    <3>2. CASE v # w
      BY <1>1, <2>3, <3>2 DEF PayInv, Paying, Unpaid, RunOf
    <3> QED
      BY <3>1, <3>2
  <2>4. Books'
    BY <1>1 DEF PayInv, Books, Unpaid
  <2>5. Paying'
    BY <1>1, <2>3 DEF Paying, Unpaid, RunOf
  <2> QED
    BY <2>4, <2>5 DEF PayInv
<1> QED
  BY <1>2, <1>3, ResumedRun DEF RunningRuns

\* Outside every run there is nothing to pay.
LEMMA PayOutside ==
  ASSUME TypeInv, PayInv, NEW w \in Executors, pc[w] \notin HasRun,
         ~ PreflightCommit(w), ~ Resume(w),
         \/ ClaimNext(w) \/ ClaimForTask(w) \/ Work(w)
         \/ Crash(w) \/ Throw(w) \/ SwallowApply(w)
  PROVE  PayInv'
<1> USE DEF db
<1>0. UNCHANGED <<runs, row, ckpt, ext, calls>>
  BY OtherRows
<1>1. CASE \E j \in JobIds : Claim(w, j)
  BY <1>0, <1>1, Claimed, PayIdle DEF HasRun
<1>2. CASE ReadToken(w)
  BY <1>0, <1>2, PayIdle DEF ReadToken, HasRun, TypeInv, ExecOK
<1>3. CASE ReadTask(w)
  <2>1. \E l \in {"resume", "preflight", "finish"} : \E c : Goto(w, l, c)
    BY <1>3 DEF ReadTask, Finish
  <2> QED
    BY <1>0, <2>1, Gone, PayIdle DEF HasRun
<1>4. CASE FinishJob(w) \/ Crash(w)
  BY <1>0, <1>4, Released, PayIdle DEF FinishJob, Crash, HasRun
<1>5. CASE PreflightCheck(w)
  <2>1. \E l \in {"preflightCommit", "finish"} : \E c : Goto(w, l, c)
    BY <1>5 DEF PreflightCheck, Finish
  <2> QED
    BY <1>0, <2>1, Gone, PayIdle DEF HasRun
<1>6. CASE Throw(w)
  BY <1>0, <1>6, PayLeaves DEF Throw
<1>7. pc[w] \notin {"load", "lease", "extLease", "finLease", "failLease", "guard", "guardCommit",
                    "call", "persist", "decide", "extReject", "apply", "finalize",
                    "finalizeCommit", "complete", "close", "closeCommit"}
  BY DEF HasRun, PC, InTry
<1>8. /\ ~ LoadStep(w) /\ ~ CheckLease(w) /\ ~ GuardCheck(w) /\ ~ GuardCommit(w)
      /\ ~ CallProvider(w) /\ ~ PersistStep(w) /\ ~ Consolidate(w)
  BY <1>7 DEF LoadStep, CheckLease, LeaseNext, GuardCheck, GuardCommit, CallProvider,
              PersistStep, Consolidate
<1>9. /\ ~ DecideExtraction(w) /\ ~ LoadExtraction(w) /\ ~ RejectExtraction(w)
      /\ ~ PersistExtraction(w) /\ ~ ApplyExtraction(w) /\ ~ SwallowApply(w)
  BY <1>7 DEF DecideExtraction, LoadExtraction, RejectExtraction, PersistExtraction,
              ApplyExtraction, SwallowApply
<1>10. /\ ~ FinalizeCheck(w) /\ ~ FinalizeCommit(w) /\ ~ CompleteRun(w)
       /\ ~ CloseCheck(w) /\ ~ CloseCommit(w)
  BY <1>7 DEF FinalizeCheck, FinalizeCommit, CompleteRun, CloseCheck, CloseCommit
<1> QED
  BY <1>1, <1>2, <1>3, <1>4, <1>5, <1>6, <1>8, <1>9, <1>10 DEF Work, ClaimNext, ClaimForTask

LEMMA PayInit == Init => PayInv
BY DEF Init, PayInv, Paying, Books, BooksIn, OnceIn, Unpaid, UnpaidIn, HasRun, NoReply, NoRun,
       RunIds, Steps, EngineSteps

LEMMA PayNext ==
  ASSUME RunAssumption, RunsInv, PayInv, [Next]_vars
  PROVE  PayInv'
<1> USE DEF RunsInv
<1>1. ASSUME NEW w \in Executors, pc[w] \in HasRun,
             Work(w) \/ Crash(w) \/ Throw(w) \/ SwallowApply(w)
      PROVE  PayInv'
  <2>1. ~ PreflightCommit(w) /\ ~ Resume(w) /\ ~ ReadToken(w) /\ ~ ReadTask(w) /\ ~ FinishJob(w)
        /\ ~ PreflightCheck(w)
    BY <1>1 DEF PreflightCommit, Resume, ReadToken, ReadTask, FinishJob, PreflightCheck, HasRun
  <2>2. CASE Crash(w) \/ Throw(w)
    BY <2>2, PayLeaves DEF Crash, Throw, db
  <2>3. CASE LoadStep(w) \/ CheckLease(w) \/ GuardCheck(w) \/ GuardCommit(w) \/ CallProvider(w)
    BY <2>3, PayLoad, PayLease, PayGuards, PayIntends, PayCalls
  <2>4. CASE PersistStep(w) \/ Consolidate(w) \/ DecideExtraction(w) \/ LoadExtraction(w)
    BY <2>4, PayPersists, PayConsolidates, PayDecides, PayLoadsExtraction
  <2>5. CASE RejectExtraction(w) \/ PersistExtraction(w) \/ ApplyExtraction(w) \/ SwallowApply(w)
    BY <2>5, PayRejects, PayPersistsExtraction, PayApplies
  <2>6. CASE \/ FinalizeCheck(w) \/ FinalizeCommit(w) \/ CompleteRun(w)
             \/ CloseCheck(w) \/ CloseCommit(w)
    BY <2>6, PayEnds
  <2> QED
    BY <1>1, <2>1, <2>2, <2>3, <2>4, <2>5, <2>6 DEF Work
<1>2. ASSUME NEW w \in Executors, pc[w] \notin HasRun,
             \/ ClaimNext(w) \/ ClaimForTask(w) \/ Work(w)
             \/ Crash(w) \/ Throw(w) \/ SwallowApply(w)
      PROVE  PayInv'
  <2>1. CASE PreflightCommit(w)
    BY <2>1, PayBegins
  <2>2. CASE Resume(w)
    BY <2>2, PayResumes
  <2>3. CASE ~ PreflightCommit(w) /\ ~ Resume(w)
    BY <1>2, <2>3, PayOutside
  <2> QED
    BY <2>1, <2>2, <2>3
<1>3. CASE Elsewhere
  <2>1. UNCHANGED <<runs, row, ckpt, ext, calls, pc, ctx>>
    BY <1>3, ElsewhereRows, ElsewhereRuns
  <2> QED
    BY <2>1 DEF PayInv, Paying, Books, Unpaid, RunOf
<1>4. ASSUME NEW w \in Executors, pc[w] \in HasRun PROVE ~ ClaimNext(w) /\ ~ ClaimForTask(w)
  BY <1>4 DEF ClaimNext, ClaimForTask, Claim, HasRun
<1> QED
  BY <1>1, <1>2, <1>3, <1>4 DEF Next, Elsewhere

LEMMA PayAlways == Timely => (Spec => [](RunsInv /\ PayInv))
<1> SUFFICES ASSUME Timely PROVE Spec => [](RunsInv /\ PayInv)
  OBVIOUS
<1>1. Init => RunsInv /\ PayInv
  BY RunsInit, PayInit
<1>2. (RunsInv /\ PayInv) /\ [Next]_vars => (RunsInv /\ PayInv)'
  BY RunAssumption, RunsNext, PayNext
<1> QED
  BY <1>1, <1>2, PTL DEF Spec

\* No provider step is called twice, whenever executors die and whoever resumes
\* (jobs.ts: "never bills a provider sequence twice"): whoever calls has nothing
\* unpaid, and what it leaves unpaid stops the dispatch guard.  The exceptions
\* are those of PaidAtMostOnce: a lost slot, and an extraction a resume skips.
THEOREM NoStepPaidTwice == Timely => (Spec => []PaidAtMostOnce)
<1> SUFFICES ASSUME Timely PROVE Spec => []PaidAtMostOnce
  OBVIOUS
<1>1. RunsInv /\ PayInv => PaidAtMostOnce
  <2> SUFFICES ASSUME PayInv, NEW r \in RunIds, NEW s \in Steps, calls[r][s] > 1
               PROVE  SlotLost(r, s) \/ MayBeSkipped(r, s)
    BY DEF PaidAtMostOnce
  <2>1. Excused(ckpt[r], row[r], s)
    BY DEF PayInv, Books, OnceIn
  <2> QED
    BY <2>1 DEF Excused, SlotLost, MayBeSkipped
<1> QED
  BY <1>1, PayAlways, PTL

\* A completed run has a bill for every call it made, with the same exceptions
\* (persistStep and ensureExtractionCheckpoint bill with the checkpoint): an
\* executor finalizes only once nothing of its run is unpaid.
THEOREM CompletedRunIsPaid == Timely => (Spec => []CompletedIsPaid)
<1> SUFFICES ASSUME Timely PROVE Spec => []CompletedIsPaid
  OBVIOUS
<1>1. RunsInv /\ PayInv => CompletedIsPaid
  <2> SUFFICES ASSUME RunsInv, PayInv, NEW r \in RunIds, NEW s \in Steps,
                      runs[r].status = "completed", calls[r][s] > 0
               PROVE  bill[r][s] = 1 \/ SlotLost(r, s) \/ MayBeSkipped(r, s)
    BY DEF CompletedIsPaid
  <2>1. runs[r].rel = "completed"
    BY DEF RunsInv, RunInv, RunRowCoherent
  <2>2. Unpaid(r) = {}
    BY <2>1 DEF PayInv, Books, BooksIn, MayOwe
  <2>3. ckpt[r][s] # NoReply \/ Excused(ckpt[r], row[r], s)
    BY <2>2 DEF Unpaid, UnpaidIn
  <2>4. ckpt[r][s] # NoReply => bill[r][s] = 1
    BY DEF RunsInv, BillInv, BillingExact
  <2> QED
    BY <2>3, <2>4 DEF Excused, SlotLost, MayBeSkipped
<1> QED
  BY <1>1, PayAlways, PTL
=============================================================================
