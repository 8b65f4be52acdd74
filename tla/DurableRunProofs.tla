-------------------------- MODULE DurableRunProofs --------------------------
(***************************************************************************)
(* Every behaviour of DurableRun keeps its types, for all values of its    *)
(* constants: TypeCorrect, Spec => []TypeOK; and while leases outlive the  *)
(* steps of their holders and a reconciler's list does not go stale, one   *)
(* executor works on a task at a time: Exclusive; and every reply that was *)
(* paid for is billed once and stays: BilledExactly, RepliesAreFinal.  The *)
(* other proofs rest on the inductive invariants stated here and on the    *)
(* lemmas about single moves.                                              *)
(***************************************************************************)
EXTENDS DurableRunProps, TLAPS

-----------------------------------------------------------------------------
(* Types.                                                                  *)
(*                                                                         *)
(* TypeOK alone is not inductive: an executor indexes jobs by the job it   *)
(* holds, and runs and steps by its memory, so those must be in range      *)
(* wherever they are used.                                                 *)

\* Where an executor has a run, and where it is about to call or has called.
HasRun == PC \ {"idle", "token", "read", "preflight", "preflightCommit", "resume", "finish"}
InStep == {"lease", "guard", "guardCommit", "call", "persist", "extLease", "extReject", "apply"}

Closing == {"failLease", "close", "closeCommit"}

\* The memory an executor may have at label l.
GoodPlace(l, c) ==
  /\ l \in HasRun => c.run \in RunIds
  /\ l = "load" => c.step \in Steps
  /\ l \in InStep => c.step \in (1 .. 3) \cup Extractions
  /\ l \in Closing => c.out \in Terminal

ExecOK ==
  /\ pc \in [Executors -> PC]
  /\ held \in [Executors -> {0} \cup JobIds]
  /\ token \in [Executors -> Nat]
  /\ ctx \in [Executors -> Ctx]

DbOK ==
  /\ tasks \in [Tasks -> [status : TaskStatus, reason : BOOLEAN]]
  /\ runs \in [RunIds -> RunRow]
  /\ row \in [RunIds -> [Steps -> {"none", "answered", "failed", "consolidated"}]]
  /\ ckpt \in [RunIds -> [Steps -> Reply]]
  /\ bill \in [RunIds -> [Steps -> Nat]]
  /\ ext \in [RunIds -> [Extractions -> {"none", "applied", "failed"}]]
  /\ calls \in [RunIds -> [Steps -> Nat]]

\* What a reconciler lists is a row of run_jobs.
Listed == \A j \in JobIds : stale[j] # "no" => jobs[j].status # "absent"

RestOK ==
  /\ Listed
  /\ stale \in [JobIds -> {"no", "requeue", "inspect", "recover", "finish"}]
  /\ asked \in [Tasks -> UserTx]
  /\ faults \in Nat

\* A row of run_jobs belongs to a task.
JobsOwned == \A j \in JobIds : jobs[j].status # "absent" => jobs[j].task \in Tasks

\* An executor at work holds a job, and its memory fits its place.
Placed ==
  \A w \in Executors :
    Active(w) => /\ held[w] \in JobIds
                 /\ jobs[held[w]].status # "absent"
                 /\ GoodPlace(pc[w], ctx[w])

TypeInv == QueueTypeOK /\ DbOK /\ ExecOK /\ RestOK /\ JobsOwned /\ Placed

\* No row of run_jobs disappears or changes its task.
JobsStay ==
  \A j \in JobIds : jobs[j].status # "absent" =>
    jobs'[j].status # "absent" /\ jobs'[j].task = jobs[j].task

LEMMA TypeInvImplies == TypeInv => TypeOK
BY DEF TypeInv, TypeOK, DbOK, ExecOK, RestOK

LEMMA TypeInit == Init => TypeInv
<1> SUFFICES ASSUME Init PROVE TypeInv
  OBVIOUS
<1> USE DEF Init, QueueInit, NoJob, NoRun, NoResult, NoReply, NoCtx, NoTx
<1>1. QueueTypeOK /\ JobsOwned
  BY DEF QueueTypeOK, JobRow, JobStatus, JobsOwned
<1>2. NoReply \in Reply /\ NoResult \in Result
  BY DEF Reply, ReplyKinds, Result
<1>3. NoRun \in RunRow
  BY <1>2 DEF RunRow, Reliability, Terminal
<1>4. NoCtx \in Ctx
  BY <1>2 DEF Ctx, Terminal
<1>5. DbOK
  BY <1>2, <1>3 DEF DbOK, TaskStatus
<1>6. ExecOK /\ Placed
  BY <1>4 DEF ExecOK, Placed, Active, PC, InTry
<1>7. RestOK
  BY DEF RestOK, Listed, UserTx, TaskStatus
<1> QED
  BY <1>1, <1>5, <1>6, <1>7 DEF TypeInv

-----------------------------------------------------------------------------
(* Every change of run_jobs keeps its type and its rows. *)

JobsOK == QueueTypeOK' /\ JobsOwned' /\ JobsStay

LEMMA JobsUnchanged ==
  ASSUME TypeInv, UNCHANGED jobs PROVE JobsOK
BY DEF TypeInv, JobsOK, QueueTypeOK, JobsOwned, JobsStay

LEMMA EnqueueOK ==
  ASSUME TypeInv, NEW t \in Tasks, EnqueueRun(t) PROVE JobsOK
BY DEF TypeInv, JobsOK, QueueTypeOK, JobsOwned, JobsStay, EnqueueRun, JobRow, JobStatus

LEMMA ClaimOK ==
  ASSUME TypeInv, NEW j \in JobIds, ClaimRunJob(j)
  PROVE  JobsOK /\ jobs[j].status # "absent"
BY DEF TypeInv, JobsOK, QueueTypeOK, JobsOwned, JobsStay, ClaimRunJob, Claimable, JobRow, JobStatus

LEMMA RenewOK ==
  ASSUME TypeInv, NEW j \in JobIds, RenewRunJobLease(j) PROVE JobsOK
BY DEF TypeInv, JobsOK, QueueTypeOK, JobsOwned, JobsStay, RenewRunJobLease, JobRow, JobStatus

LEMMA FinishOK ==
  ASSUME TypeInv, NEW j \in JobIds, NEW s \in {"done", "failed"}, FinishRunJob(j, s),
         jobs[j].status # "absent"
  PROVE  JobsOK
BY DEF TypeInv, JobsOK, QueueTypeOK, JobsOwned, JobsStay, FinishRunJob, JobRow, JobStatus

LEMMA RequeueOK ==
  ASSUME TypeInv, NEW j \in JobIds, RequeueRunJob(j), jobs[j].status # "absent"
  PROVE  JobsOK
BY DEF TypeInv, JobsOK, QueueTypeOK, JobsOwned, JobsStay, RequeueRunJob, JobRow, JobStatus

LEMMA ExpireOK ==
  ASSUME TypeInv, NEW j \in JobIds, ExpireLease(j) PROVE JobsOK
BY DEF TypeInv, JobsOK, QueueTypeOK, JobsOwned, JobsStay, ExpireLease, JobRow, JobStatus

-----------------------------------------------------------------------------
(* Every move of an executor keeps the types of its memory. *)

LEMMA GotoOK ==
  ASSUME TypeInv, JobsOK, NEW w \in Executors, Active(w), NEW l \in PC, NEW c \in Ctx,
         Goto(w, l, c), GoodPlace(l, c)
  PROVE  ExecOK' /\ Placed'
<1>1. ExecOK'
  BY DEF TypeInv, ExecOK, Goto, own
<1>2. Placed'
  <2> SUFFICES ASSUME NEW v \in Executors, Active(v)'
               PROVE  /\ held'[v] \in JobIds
                      /\ jobs'[held'[v]].status # "absent"
                      /\ GoodPlace(pc'[v], ctx'[v])
    BY DEF Placed, GoodPlace, Closing
  <2>1. Active(v)
    BY DEF Active, Goto, TypeInv, ExecOK
  <2>2. held'[v] \in JobIds /\ jobs'[held'[v]].status # "absent"
    BY <2>1 DEF TypeInv, Placed, Goto, own, JobsOK, JobsStay
  <2>3. CASE v = w
    BY <2>2, <2>3 DEF TypeInv, ExecOK, Goto
  <2>4. CASE v # w
    <3>1. pc'[v] = pc[v] /\ ctx'[v] = ctx[v]
      BY <2>4 DEF TypeInv, ExecOK, Goto
    <3> QED
      BY <2>1, <2>2, <3>1 DEF TypeInv, Placed
  <2> QED
    BY <2>3, <2>4
<1> QED
  BY <1>1, <1>2

LEMMA ReleaseOK ==
  ASSUME TypeInv, JobsOK, NEW w \in Executors, Release(w)
  PROVE  ExecOK' /\ Placed'
<1>1. NoCtx \in Ctx /\ "idle" \in PC
  BY DEF NoCtx, Ctx, NoReply, NoResult, Reply, ReplyKinds, Result, PC, Terminal
<1>2. ExecOK'
  BY <1>1 DEF TypeInv, ExecOK, Release
<1>3. Placed'
  <2> SUFFICES ASSUME NEW v \in Executors, Active(v)'
               PROVE  /\ held'[v] \in JobIds
                      /\ jobs'[held'[v]].status # "absent"
                      /\ GoodPlace(pc'[v], ctx'[v])
    BY DEF Placed, GoodPlace, Closing
  <2>1. v # w /\ Active(v)
    BY DEF Active, Release, TypeInv, ExecOK
  <2>2. pc'[v] = pc[v] /\ ctx'[v] = ctx[v] /\ held'[v] = held[v]
    BY <2>1 DEF TypeInv, ExecOK, Release
  <2> QED
    BY <2>1, <2>2 DEF TypeInv, Placed, JobsOK, JobsStay
<1> QED
  BY <1>2, <1>3

LEMMA StayOK ==
  ASSUME TypeInv, JobsOK, UNCHANGED <<pc, own, ctx>>
  PROVE  ExecOK' /\ Placed'
<1>1. ExecOK'
  BY DEF TypeInv, ExecOK, own
<1>2. ASSUME NEW w \in Executors, Active(w)'
      PROVE  /\ held'[w] \in JobIds
             /\ jobs'[held'[w]].status # "absent"
             /\ GoodPlace(pc'[w], ctx'[w])
  BY <1>2 DEF TypeInv, Placed, Active, own, JobsOK, JobsStay
<1> QED
  BY <1>1, <1>2 DEF Placed, GoodPlace, Closing

LEMMA DbUnchanged ==
  ASSUME TypeInv, UNCHANGED db PROVE DbOK'
BY DEF TypeInv, DbOK, db

LEMMA RestUnchanged ==
  ASSUME TypeInv, JobsOK, UNCHANGED <<stale, asked, faults>> PROVE RestOK'
BY DEF TypeInv, RestOK, Listed, JobsOK, JobsStay

LEMMA TypeAgain ==
  ASSUME JobsOK, DbOK', ExecOK', Placed', RestOK' PROVE TypeInv'
BY DEF TypeInv, JobsOK

\* The memory of an executor at work is a memory, and fits its place.
LEMMA Here ==
  ASSUME TypeInv, NEW w \in Executors, Active(w)
  PROVE  ctx[w] \in Ctx /\ GoodPlace(pc[w], ctx[w]) /\ held[w] \in JobIds
         /\ jobs[held[w]].status # "absent" /\ TaskOf(w) \in Tasks
BY DEF TypeInv, ExecOK, Placed, TaskOf, JobsOwned

\* Close and Finish keep the rest of the memory.
LEMMA OutOK ==
  ASSUME NEW c \in Ctx, NEW o \in Terminal \cup {"drained", "threw"}
  PROVE  /\ [c EXCEPT !.out = o] \in Ctx
         /\ [c EXCEPT !.out = o].run = c.run
BY DEF Ctx

LEMMA CloseOK ==
  ASSUME TypeInv, JobsOK, NEW w \in Executors, Active(w), pc[w] \in HasRun,
         NEW o \in Terminal, Close(w, o)
  PROVE  ExecOK' /\ Placed'
<1>1. ctx[w] \in Ctx /\ ctx[w].run \in RunIds
  BY Here DEF GoodPlace, Closing
<1>2. [ctx[w] EXCEPT !.out = o] \in Ctx /\ GoodPlace("close", [ctx[w] EXCEPT !.out = o])
  BY <1>1, OutOK DEF GoodPlace, InStep, Closing
<1>3. "close" \in PC
  BY DEF PC, InTry
<1> QED
  BY <1>2, <1>3, GotoOK DEF Close

LEMMA FinishMoveOK ==
  ASSUME TypeInv, JobsOK, NEW w \in Executors, Active(w),
         NEW o \in Terminal \cup {"drained", "threw"}, Finish(w, o)
  PROVE  ExecOK' /\ Placed'
<1>1. ctx[w] \in Ctx
  BY Here
<1>2. [ctx[w] EXCEPT !.out = o] \in Ctx /\ GoodPlace("finish", [ctx[w] EXCEPT !.out = o])
  BY <1>1, OutOK DEF GoodPlace, InStep, Closing, HasRun
<1>3. "finish" \in PC
  BY DEF PC
<1> QED
  BY <1>2, <1>3, GotoOK DEF Finish

\* Memory c at step n, with reply r in hand and replies g used.
Memory(c, n, r, g) == [c EXCEPT !.step = n, !.reply = r, !.got = g]

LEMMA MemoryOK ==
  ASSUME NEW c \in Ctx, NEW n \in Nat, NEW r \in Reply, NEW g \in Result
  PROVE  /\ Memory(c, n, r, g) \in Ctx
         /\ Memory(c, n, r, g).run = c.run
         /\ Memory(c, n, r, g).step = n
BY DEF Ctx, Memory

\* The next step of the engine follows a provider step only.
LEMMA NextStepOK ==
  ASSUME TypeInv, JobsOK, NEW w \in Executors, Active(w), pc[w] \in HasRun,
         ctx[w].step \in 1 .. 3, NEW reply \in Reply, NextStep(w, reply)
  PROVE  ExecOK' /\ Placed'
<1> DEFINE c == [ctx[w] EXCEPT !.step = @ + 1, !.reply = NoReply,
                               !.got = IF ctx[w].step \in 1 .. 3
                                       THEN [@ EXCEPT ![ctx[w].step] = reply] ELSE @]
<1>1. ctx[w] \in Ctx /\ ctx[w].run \in RunIds
  BY Here DEF GoodPlace, Closing
<1>2. NoReply \in Reply
  BY DEF Reply, NoReply, ReplyKinds
<1> DEFINE got == [ctx[w].got EXCEPT ![ctx[w].step] = reply]
<1>a. got \in Result
  BY <1>1 DEF Ctx, Result
<1> DEFINE n == ctx[w].step + 1
<1>b. c = Memory(ctx[w], n, NoReply, got)
  BY <1>1 DEF Ctx, Memory
<1>c. n \in Nat /\ n \in 2 .. 4
  OBVIOUS
<1>3. c \in Ctx /\ c.run = ctx[w].run /\ c.step \in 2 .. 4
  <2> HIDE DEF c, got, n
  <2> QED
    BY <1>1, <1>2, <1>a, <1>b, <1>c, MemoryOK
<1>4. GoodPlace("load", c)
  BY <1>1, <1>3 DEF GoodPlace, InStep, Closing, Steps, EngineSteps
<1>5. "load" \in PC
  BY DEF PC, InTry
<1> HIDE DEF c
<1>6. Goto(w, "load", c)
  BY DEF NextStep, c
<1> QED
  BY <1>3, <1>4, <1>5, <1>6, GotoOK

LEMMA NextExtractionOK ==
  ASSUME TypeInv, JobsOK, RunAssumption, NEW w \in Executors, Active(w), pc[w] \in HasRun,
         NEW s \in Nat, NextExtraction(w, s)
  PROVE  ExecOK' /\ Placed'
<1>1. ctx[w] \in Ctx /\ ctx[w].run \in RunIds
  BY Here DEF GoodPlace, Closing
<1> DEFINE later == {x \in Extractions : x > s}
           first == CHOOSE x \in later : \A y \in later : x <= y
           c == [ctx[w] EXCEPT !.reply = NoReply, !.step = first]
<1>2. CASE later = {}
  <2>1. GoodPlace("finLease", ctx[w]) /\ "finLease" \in PC
    BY <1>1 DEF GoodPlace, InStep, Closing, PC, InTry
  <2> QED
    BY <1>1, <1>2, <2>1, GotoOK DEF NextExtraction
<1>3. CASE later # {}
  <2>1. \E x \in later : \A y \in later : x <= y
    <3>1. Extractions \subseteq {101, 102}
      BY DEF RunAssumption
    <3>2. CASE 101 \in later
      BY <3>1, <3>2
    <3>3. CASE 101 \notin later
      <4>1. later = {102}
        <5>1. \A x \in later : x \in {101, 102} /\ x # 101
          BY <3>1, <3>3
        <5> HIDE DEF later
        <5> QED
          BY <1>3, <5>1
      <4> HIDE DEF later
      <4> QED
        BY <4>1
    <3> QED
      BY <3>2, <3>3
  <2>2. first \in Extractions /\ first \in Nat
    <3>1. first \in later
      <4> HIDE DEF later
      <4> QED
        BY <2>1
    <3>2. first \in Extractions
      BY <3>1
    <3> HIDE DEF first
    <3> QED
      BY <3>2 DEF RunAssumption
  <2>3. NoReply \in Reply
    BY DEF Reply, NoReply, ReplyKinds
  <2>4. c \in Ctx /\ c.run = ctx[w].run /\ c.step = first
    <3> HIDE DEF first
    <3> QED
      BY <1>1, <2>2, <2>3 DEF Ctx
  <2>5. GoodPlace("load", c) /\ "load" \in PC
    BY <1>1, <2>2, <2>4 DEF GoodPlace, InStep, Closing, Steps, PC, InTry
  <2>6. Goto(w, "load", c)
    BY <1>3 DEF NextExtraction
  <2> QED
    BY <2>4, <2>5, <2>6, GotoOK
<1> QED
  BY <1>2, <1>3

-----------------------------------------------------------------------------
(* Each action preserves TypeInv. *)

LEMMA ClaimType ==
  ASSUME TypeInv, NEW w \in Executors, NEW j \in JobIds, Claim(w, j)
  PROVE  TypeInv'
<1>1. JobsOK /\ jobs[j].status # "absent"
  BY ClaimOK DEF Claim
<1>2. ExecOK'
  BY DEF TypeInv, ExecOK, Claim, PC
<1>3. Placed'
  <2> SUFFICES ASSUME NEW v \in Executors, Active(v)'
               PROVE  /\ held'[v] \in JobIds
                      /\ jobs'[held'[v]].status # "absent"
                      /\ GoodPlace(pc'[v], ctx'[v])
    BY DEF Placed, GoodPlace, Closing
  <2>1. CASE v = w
    BY <1>1, <2>1 DEF TypeInv, ExecOK, Claim, JobsOK, JobsStay, GoodPlace, HasRun, InStep, Closing
  <2>2. CASE v # w
    <3>1. pc'[v] = pc[v] /\ ctx'[v] = ctx[v] /\ held'[v] = held[v]
      BY <2>2 DEF TypeInv, ExecOK, Claim
    <3> QED
      BY <1>1, <3>1 DEF TypeInv, Placed, Active, JobsOK, JobsStay
  <2> QED
    BY <2>1, <2>2
<1> QED
  BY <1>1, <1>2, <1>3, DbUnchanged, RestUnchanged DEF Claim, TypeInv, JobsOK

LEMMA ReadTokenType ==
  ASSUME TypeInv, NEW w \in Executors, ReadToken(w)
  PROVE  TypeInv'
<1>1. JobsOK /\ DbOK' /\ RestOK'
  BY JobsUnchanged, DbUnchanged, RestUnchanged DEF ReadToken
<1>2. held[w] \in JobIds
  BY Here DEF ReadToken, Active
<1>3. ExecOK'
  BY <1>2 DEF TypeInv, ExecOK, QueueTypeOK, JobRow, ReadToken, PC
<1>4. Placed'
  <2> SUFFICES ASSUME NEW v \in Executors, Active(v)'
               PROVE  /\ held'[v] \in JobIds
                      /\ jobs'[held'[v]].status # "absent"
                      /\ GoodPlace(pc'[v], ctx'[v])
    BY DEF Placed, GoodPlace, Closing
  <2>1. Active(v)
    BY DEF ReadToken, Active, TypeInv, ExecOK
  <2>2. held'[v] \in JobIds /\ jobs'[held'[v]].status # "absent"
    BY <2>1 DEF ReadToken, TypeInv, Placed
  <2>3. CASE v = w
    BY <2>2, <2>3 DEF ReadToken, TypeInv, ExecOK, GoodPlace, HasRun, InStep, Closing
  <2>4. CASE v # w
    BY <2>1, <2>2, <2>4 DEF ReadToken, TypeInv, ExecOK, Placed
  <2> QED
    BY <2>3, <2>4
<1> QED
  BY <1>1, <1>3, <1>4 DEF TypeInv, JobsOK

LEMMA ReadTaskType ==
  ASSUME TypeInv, NEW w \in Executors, ReadTask(w)
  PROVE  TypeInv'
<1>1. JobsOK /\ DbOK' /\ RestOK'
  BY JobsUnchanged, DbUnchanged, RestUnchanged DEF ReadTask
<1>2. Active(w) /\ ctx[w] \in Ctx
  BY Here DEF ReadTask, Active
<1>3. GoodPlace("resume", ctx[w]) /\ GoodPlace("preflight", ctx[w])
  BY DEF GoodPlace, HasRun, InStep, Closing
<1>4. {"resume", "preflight"} \subseteq PC
  BY DEF PC, InTry
<1>5. \/ Goto(w, "resume", ctx[w])
      \/ Goto(w, "preflight", ctx[w])
      \/ Finish(w, "drained")
  BY DEF ReadTask
<1>6. ExecOK' /\ Placed'
  BY <1>1, <1>2, <1>3, <1>4, <1>5, GotoOK, FinishMoveOK
<1> QED
  BY <1>1, <1>6 DEF TypeInv, JobsOK

LEMMA FinishJobType ==
  ASSUME TypeInv, NEW w \in Executors, FinishJob(w)
  PROVE  TypeInv'
<1>1. Active(w) /\ held[w] \in JobIds /\ jobs[held[w]].status # "absent"
  BY Here DEF FinishJob, Active
<1>2. JobsOK
  <2>1. FinishRunJob(held[w], "done") \/ FinishRunJob(held[w], "failed")
    BY DEF FinishJob
  <2> QED
    BY <1>1, <2>1, FinishOK
<1>3. DbOK' /\ RestOK'
  BY <1>2, DbUnchanged, RestUnchanged DEF FinishJob
<1>4. ExecOK' /\ Placed'
  BY <1>2, ReleaseOK DEF FinishJob
<1> QED
  BY <1>2, <1>3, <1>4 DEF TypeInv, JobsOK

LEMMA PreflightCheckType ==
  ASSUME TypeInv, NEW w \in Executors, PreflightCheck(w)
  PROVE  TypeInv'
<1>1. JobsOK /\ DbOK' /\ RestOK'
  BY JobsUnchanged, DbUnchanged, RestUnchanged DEF PreflightCheck
<1>2. Active(w) /\ ctx[w] \in Ctx
  BY Here DEF PreflightCheck, Active
<1>3. GoodPlace("preflightCommit", ctx[w]) /\ "preflightCommit" \in PC
  BY DEF GoodPlace, HasRun, InStep, Closing, PC, InTry
<1>4. ExecOK' /\ Placed'
  BY <1>1, <1>2, <1>3, GotoOK, FinishMoveOK DEF PreflightCheck
<1> QED
  BY <1>1, <1>4 DEF TypeInv, JobsOK

\* A fresh memory about to load step 1 of run r.
LEMMA LoadOne ==
  ASSUME NEW r \in RunIds, NEW b \in BOOLEAN
  PROVE  LET c == [NoCtx EXCEPT !.run = r, !.step = 1, !.reviewer = b]
         IN c \in Ctx /\ GoodPlace("load", c) /\ "load" \in PC
<1> DEFINE c == [NoCtx EXCEPT !.run = r, !.step = 1, !.reviewer = b]
<1>1. NoReply \in Reply /\ NoResult \in Result
  BY DEF NoReply, NoResult, Reply, ReplyKinds, Result
<1>2. c \in Ctx /\ c.run = r /\ c.step = 1
  BY <1>1 DEF NoCtx, Ctx
<1>3. GoodPlace("load", c)
  BY <1>2 DEF GoodPlace, InStep, Closing, Steps, EngineSteps
<1> QED
  BY <1>2, <1>3 DEF PC, InTry

LEMMA PreflightCommitType ==
  ASSUME TypeInv, NEW w \in Executors, PreflightCommit(w)
  PROVE  TypeInv'
<1>1. Active(w) /\ TaskOf(w) \in Tasks
  BY Here DEF PreflightCommit, Active
<1>2. JobsOK /\ RestOK'
  BY JobsUnchanged, RestUnchanged DEF PreflightCommit
<1>3. PICK r \in RunIds, plan \in Plans :
        /\ runs' = [runs EXCEPT ![r] = [NoRun EXCEPT !.task = TaskOf(w), !.status = "running",
                                                     !.pinned = plan # "none"]]
        /\ tasks' = [tasks EXCEPT ![TaskOf(w)].status = "running"]
        /\ Goto(w, "load", [NoCtx EXCEPT !.run = r, !.step = 1, !.reviewer = plan = "pinned"])
  BY DEF PreflightCommit
<1>4. ExecOK' /\ Placed'
  <2>1. (plan = "pinned") \in BOOLEAN
    OBVIOUS
  <2> QED
    BY <1>1, <1>2, <1>3, <2>1, LoadOne, GotoOK
<1>5. DbOK'
  <2>1. [NoRun EXCEPT !.task = TaskOf(w), !.status = "running", !.pinned = plan # "none"] \in RunRow
    BY <1>1 DEF NoRun, RunRow, Reliability, NoResult, NoReply, Result, Reply, ReplyKinds
  <2>2. runs' \in [RunIds -> RunRow]
    BY <1>3, <2>1 DEF TypeInv, DbOK
  <2>3. tasks' \in [Tasks -> [status : TaskStatus, reason : BOOLEAN]]
    BY <1>1, <1>3 DEF TypeInv, DbOK, TaskStatus
  <2> QED
    BY <2>2, <2>3 DEF TypeInv, DbOK, PreflightCommit
<1> QED
  BY <1>2, <1>4, <1>5 DEF TypeInv, JobsOK

LEMMA ResumeType ==
  ASSUME TypeInv, NEW w \in Executors, Resume(w)
  PROVE  TypeInv'
<1>1. Active(w) /\ TaskOf(w) \in Tasks
  BY Here DEF Resume, Active
<1>2. JobsOK /\ RestOK'
  BY JobsUnchanged, RestUnchanged DEF Resume
<1>3. DbOK'
  <2>1. tasks' = tasks \/ tasks' = [tasks EXCEPT ![TaskOf(w)].status = "failed"]
    BY DEF Resume
  <2>2. tasks' \in [Tasks -> [status : TaskStatus, reason : BOOLEAN]]
    BY <1>1, <2>1 DEF TypeInv, DbOK, TaskStatus
  <2> QED
    BY <2>2 DEF TypeInv, DbOK, Resume
<1>4. CASE Finish(w, "failed")
  <2>1. ExecOK' /\ Placed'
    BY <1>1, <1>2, <1>4, FinishMoveOK DEF Terminal
  <2> QED
    BY <1>2, <1>3, <2>1 DEF TypeInv, JobsOK
<1>5. ASSUME NEW r \in RunIds, Goto(w, "close", [NoCtx EXCEPT !.run = r, !.out = "failed"])
      PROVE  TypeInv'
  <2> DEFINE c == [NoCtx EXCEPT !.run = r, !.out = "failed"]
  <2>1. c \in Ctx /\ GoodPlace("close", c) /\ "close" \in PC
    BY DEF NoCtx, Ctx, NoReply, NoResult, Reply, ReplyKinds, Result, Terminal,
           GoodPlace, InStep, Closing, PC, InTry
  <2>2. ExecOK' /\ Placed'
    BY <1>1, <1>2, <1>5, <2>1, GotoOK
  <2> QED
    BY <1>2, <1>3, <2>2 DEF TypeInv, JobsOK
<1>6. ASSUME NEW r \in RunIds,
             Goto(w, "load", [NoCtx EXCEPT !.run = r, !.step = 1, !.reviewer = runs[r].pinned])
      PROVE  TypeInv'
  <2>1. runs[r].pinned \in BOOLEAN
    BY DEF TypeInv, DbOK, RunRow
  <2>2. ExecOK' /\ Placed'
    BY <1>1, <1>2, <1>6, <2>1, LoadOne, GotoOK
  <2> QED
    BY <1>2, <1>3, <2>2 DEF TypeInv, JobsOK
<1> QED
  BY <1>4, <1>5, <1>6 DEF Resume, RunningRuns

\* An executor inside a run, and one inside a step of it.
LEMMA InRun ==
  ASSUME TypeInv, NEW w \in Executors, pc[w] \in HasRun
  PROVE  Active(w) /\ ctx[w] \in Ctx /\ RunOf(w) \in RunIds
BY Here DEF HasRun, Active, GoodPlace, Closing, RunOf

LEMMA InAStep ==
  ASSUME TypeInv, NEW w \in Executors, pc[w] \in InStep
  PROVE  /\ Active(w) /\ pc[w] \in HasRun /\ ctx[w] \in Ctx /\ RunOf(w) \in RunIds
         /\ ctx[w].step \in (1 .. 3) \cup Extractions
         /\ ctx[w].step \in Steps
<1>1. pc[w] \in HasRun
  BY DEF InStep, HasRun, PC, InTry
<1> QED
  BY <1>1, InRun, Here DEF GoodPlace, Closing, Steps, EngineSteps

\* Keeping its memory, an executor may go anywhere in a run, or on in its step.
LEMMA GoOnOK ==
  ASSUME TypeInv, JobsOK, NEW w \in Executors, NEW l \in PC, Goto(w, l, ctx[w]),
         \/ pc[w] \in InStep /\ l \notin Closing \cup {"load"}
         \/ pc[w] \in Closing /\ l \in Closing
         \/ pc[w] \in HasRun /\ l \notin Closing \cup InStep \cup {"load"}
  PROVE  ExecOK' /\ Placed'
<1>0. pc[w] \in HasRun
  BY InAStep DEF HasRun, PC, InTry, Closing
<1>1. Active(w) /\ ctx[w] \in Ctx /\ RunOf(w) \in RunIds /\ GoodPlace(pc[w], ctx[w])
  BY <1>0, InRun, Here
<1>a. Closing \cap (InStep \cup {"load"}) = {}
  BY DEF Closing, InStep
<1>2. GoodPlace(l, ctx[w])
  BY <1>1, <1>a DEF GoodPlace, RunOf
<1> QED
  BY <1>1, <1>2, GotoOK

LEMMA ReplayedType ==
  ASSUME NEW reply \in Reply
  PROVE  Replayed(reply) \in Reply /\ Fresh(reply) \in Reply /\ NoReply \in Reply
BY DEF Replayed, Fresh, Reply, ReplyKinds, NoReply

LEMMA AdvancedType ==
  ASSUME TypeInv, NEW r \in RunIds, NEW state \in Reliability
  PROVE  Advanced(r, state) \in [RunIds -> RunRow]
BY DEF TypeInv, DbOK, Advanced, RunRow

LEMMA LoadStepType ==
  ASSUME TypeInv, NEW w \in Executors, LoadStep(w)
  PROVE  TypeInv'
<1>1. JobsOK /\ DbOK' /\ RestOK'
  BY JobsUnchanged, DbUnchanged, RestUnchanged DEF LoadStep
<1>2. pc[w] = "load" /\ pc[w] \in HasRun
  BY DEF LoadStep, HasRun, PC, InTry
<1>3. Active(w) /\ ctx[w] \in Ctx /\ RunOf(w) \in RunIds
  BY <1>2, InRun
<1>4. ctx[w].step \in 1 .. 3
  <2>1. ctx[w].step \in Steps
    BY <1>2, <1>3, Here DEF GoodPlace, Closing
  <2>2. ctx[w].step \in 1 .. 4
    BY <2>1 DEF LoadStep, Extracting, Steps, EngineSteps
  <2>3. ctx[w].step # 4
    BY DEF LoadStep, Consolidating
  <2> QED
    BY <2>2, <2>3
<1>5. ckpt[RunOf(w)][ctx[w].step] \in Reply
  BY <1>3, <1>4 DEF TypeInv, DbOK, Steps, EngineSteps
<1>6. \/ \E reply \in Reply : NextStep(w, reply)
      \/ Goto(w, "lease", ctx[w])
  BY <1>5, ReplayedType DEF LoadStep
<1>7. ASSUME Goto(w, "lease", ctx[w]) PROVE ExecOK' /\ Placed'
  <2>1. GoodPlace("lease", ctx[w]) /\ "lease" \in PC
    BY <1>3, <1>4 DEF GoodPlace, Closing, RunOf, PC, InTry
  <2> QED
    BY <1>1, <1>3, <1>7, <2>1, GotoOK
<1>8. ExecOK' /\ Placed'
  BY <1>1, <1>2, <1>3, <1>4, <1>6, <1>7, NextStepOK
<1> QED
  BY <1>1, <1>8 DEF TypeInv, JobsOK

LEMMA CheckLeaseType ==
  ASSUME TypeInv, NEW w \in Executors, CheckLease(w)
  PROVE  TypeInv'
<1>1. DbOK' /\ (JobsOK => RestOK')
  BY DbUnchanged, RestUnchanged DEF CheckLease
<1>2. pc[w] \in {"lease", "extLease", "finLease", "failLease"}
  BY DEF CheckLease, LeaseNext
<1>3. pc[w] \in HasRun
  BY <1>2 DEF HasRun, PC, InTry
<1>4. held[w] \in JobIds
  BY <1>3, InRun, Here
<1>5. CASE RenewRunJobLease(held[w]) /\ Goto(w, LeaseNext[pc[w]], ctx[w])
  <2>1. JobsOK
    BY <1>4, <1>5, RenewOK
  <2>2. CASE pc[w] = "lease"
    <3>1. Goto(w, "guard", ctx[w])
      BY <1>5, <2>2 DEF LeaseNext
    <3>2. "guard" \in PC /\ "guard" \notin Closing \cup {"load"} /\ pc[w] \in InStep
      BY <2>2 DEF PC, InTry, InStep, Closing
    <3> QED
      BY <1>1, <1>3, <2>1, <3>1, <3>2, GoOnOK, TypeAgain
  <2>3. CASE pc[w] = "extLease"
    <3>1. Goto(w, "persist", ctx[w])
      BY <1>5, <2>3 DEF LeaseNext
    <3>2. "persist" \in PC /\ "persist" \notin Closing \cup {"load"} /\ pc[w] \in InStep
      BY <2>3 DEF PC, InTry, InStep, Closing
    <3> QED
      BY <1>1, <1>3, <2>1, <3>1, <3>2, GoOnOK, TypeAgain
  <2>4. CASE pc[w] = "finLease"
    <3>1. Goto(w, "finalize", ctx[w])
      BY <1>5, <2>4 DEF LeaseNext
    <3>2. "finalize" \in PC /\ "finalize" \notin Closing \cup InStep \cup {"load"}
      BY <2>4 DEF PC, InTry, InStep, Closing
    <3> QED
      BY <1>1, <1>3, <2>1, <3>1, <3>2, GoOnOK, TypeAgain
  <2>5. CASE pc[w] = "failLease"
    <3>1. Goto(w, "close", ctx[w])
      BY <1>5, <2>5 DEF LeaseNext
    <3>2. "close" \in PC /\ "close" \in Closing /\ pc[w] \in Closing
      BY <2>5 DEF PC, InTry, InStep, Closing
    <3> QED
      BY <1>1, <1>3, <2>1, <3>1, <3>2, GoOnOK, TypeAgain
  <2> QED
    BY <1>1, <1>2, <2>1, <2>2, <2>3, <2>4, <2>5 DEF TypeInv, JobsOK
<1>6. CASE Release(w) /\ UNCHANGED jobs
  <2>1. JobsOK
    BY <1>6, JobsUnchanged
  <2> QED
    BY <1>1, <1>6, <2>1, ReleaseOK DEF TypeInv, JobsOK
<1> QED
  BY <1>5, <1>6 DEF CheckLease

LEMMA GuardCheckType ==
  ASSUME TypeInv, NEW w \in Executors, GuardCheck(w)
  PROVE  TypeInv'
<1>1. JobsOK /\ DbOK' /\ RestOK'
  BY JobsUnchanged, DbUnchanged, RestUnchanged DEF GuardCheck
<1>2. pc[w] \in InStep
  BY DEF GuardCheck, InStep
<1>3. \/ \E o \in Terminal : Close(w, o)
      \/ Goto(w, "guardCommit", ctx[w])
  BY DEF GuardCheck, Terminal
<1>4. ExecOK' /\ Placed'
  <2>1. "guardCommit" \in PC /\ "guardCommit" \notin Closing \cup {"load"}
    BY DEF PC, InTry, Closing
  <2> QED
    BY <1>1, <1>2, <1>3, <2>1, InAStep, CloseOK, GoOnOK
<1> QED
  BY <1>1, <1>4 DEF TypeInv, JobsOK

LEMMA GuardCommitType ==
  ASSUME TypeInv, NEW w \in Executors, GuardCommit(w)
  PROVE  TypeInv'
<1>1. JobsOK /\ RestOK'
  BY JobsUnchanged, RestUnchanged DEF GuardCommit
<1>2. pc[w] \in InStep
  BY DEF GuardCommit, InStep
<1>3. ExecOK' /\ Placed'
  <2>1. "call" \in PC /\ "call" \notin Closing \cup {"load"}
    BY DEF PC, Closing
  <2> QED
    BY <1>1, <1>2, <2>1, GoOnOK DEF GuardCommit
<1>4. runs' \in [RunIds -> RunRow]
  BY <1>2, InAStep, AdvancedType DEF GuardCommit, Reliability
<1> QED
  BY <1>1, <1>3, <1>4 DEF TypeInv, JobsOK, DbOK, GuardCommit

LEMMA CallProviderType ==
  ASSUME TypeInv, NEW w \in Executors, CallProvider(w)
  PROVE  TypeInv'
<1> DEFINE r == RunOf(w)
           s == ctx[w].step
           executed == [calls EXCEPT ![r][s] = @ + 1]
<1>1. JobsOK /\ RestOK'
  BY JobsUnchanged, RestUnchanged DEF CallProvider
<1>2. pc[w] \in InStep
  BY DEF CallProvider, InStep
<1>3. /\ Active(w) /\ pc[w] \in HasRun /\ ctx[w] \in Ctx /\ r \in RunIds
      /\ s \in (1 .. 3) \cup Extractions /\ s \in Steps
  BY <1>2, InAStep
<1>4. executed \in [RunIds -> [Steps -> Nat]] /\ executed[r][s] \in Nat
  BY <1>3 DEF TypeInv, DbOK
<1>5. DbOK'
  <2>1. calls' = executed \/ calls' = calls
    BY DEF CallProvider
  <2> QED
    BY <1>4, <2>1 DEF TypeInv, DbOK, CallProvider
<1>6. ASSUME NEW l \in {"persist", "extLease", "extReject"}, NEW reply \in Reply,
             Goto(w, l, [ctx[w] EXCEPT !.reply = reply])
      PROVE  ExecOK' /\ Placed'
  <2> DEFINE c == [ctx[w] EXCEPT !.reply = reply]
  <2>1. c \in Ctx /\ c.run = r /\ c.step = s
    BY <1>3 DEF Ctx, RunOf
  <2>2. GoodPlace(l, c) /\ l \in PC
    BY <1>3, <2>1 DEF GoodPlace, Closing, PC, InTry
  <2> QED
    BY <1>1, <1>3, <1>6, <2>1, <2>2, GotoOK
<1>7. CASE Close(w, "reconciliation_required")
  BY <1>1, <1>3, <1>5, <1>7, CloseOK DEF Terminal, TypeInv, JobsOK
<1>8. ASSUME NEW kind \in KindsOf(w),
             Goto(w, IF Extracting(w) THEN "extLease" ELSE "persist",
                  [ctx[w] EXCEPT !.reply = [call |-> executed[r][s], kind |-> kind]])
      PROVE  ExecOK' /\ Placed'
  <2>1. [call |-> executed[r][s], kind |-> kind] \in Reply
    BY <1>4 DEF Reply, ReplyKinds, KindsOf
  <2> HIDE DEF executed
  <2> QED
    BY <1>6, <1>8, <2>1
<1>9. ASSUME Goto(w, IF Extracting(w) THEN "extReject" ELSE "persist",
                  [ctx[w] EXCEPT !.reply = NoReply])
      PROVE  ExecOK' /\ Placed'
  <2>1. NoReply \in Reply
    BY DEF Reply, ReplyKinds, NoReply
  <2> QED
    BY <1>6, <1>9, <2>1
<1> QED
  BY <1>1, <1>5, <1>7, <1>8, <1>9 DEF CallProvider, TypeInv, JobsOK

\* Storing the reply or the row of a step.
LEMMA RowType ==
  ASSUME TypeInv, NEW r, NEW s, NEW o \in {"answered", "failed", "consolidated"}
  PROVE  [row EXCEPT ![r][s] = o]
           \in [RunIds -> [Steps -> {"none", "answered", "failed", "consolidated"}]]
BY DEF TypeInv, DbOK

LEMMA CkptType ==
  ASSUME TypeInv, NEW r, NEW s, NEW reply \in Reply
  PROVE  [ckpt EXCEPT ![r][s] = reply] \in [RunIds -> [Steps -> Reply]]
BY DEF TypeInv, DbOK

LEMMA BillType ==
  ASSUME TypeInv, NEW r \in RunIds, NEW s \in Steps
  PROVE  [bill EXCEPT ![r][s] = @ + 1] \in [RunIds -> [Steps -> Nat]]
BY DEF TypeInv, DbOK

LEMMA ExtType ==
  ASSUME TypeInv, NEW r, NEW x, NEW o \in {"applied", "failed"}
  PROVE  [ext EXCEPT ![r][x] = o] \in [RunIds -> [Extractions -> {"none", "applied", "failed"}]]
BY DEF TypeInv, DbOK

\* Closing or completing the row of a run.
LEMMA EndRowType ==
  ASSUME TypeInv, NEW r \in RunIds, NEW o \in Reliability, NEW status \in {"completed", "failed"}
  PROVE  [runs EXCEPT ![r].status = status, ![r].rel = o] \in [RunIds -> RunRow]
<1>1. runs \in [RunIds -> RunRow] /\ runs[r] \in RunRow
  BY DEF TypeInv, DbOK
<1>2. [runs[r] EXCEPT !.status = status, !.rel = o] \in RunRow
  BY <1>1 DEF RunRow
<1>3. [runs EXCEPT ![r].status = status, ![r].rel = o]
        = [runs EXCEPT ![r] = [runs[r] EXCEPT !.status = status, !.rel = o]]
  BY <1>1
<1> QED
  BY <1>1, <1>2, <1>3

\* Recording the result a run is finalized with.
LEMMA MarkRowType ==
  ASSUME TypeInv, NEW r \in RunIds, NEW o \in Reliability, NEW f \in Result
  PROVE  [runs EXCEPT ![r].final = f, ![r].rel = o] \in [RunIds -> RunRow]
<1>1. runs \in [RunIds -> RunRow] /\ runs[r] \in RunRow
  BY DEF TypeInv, DbOK
<1>2. [runs[r] EXCEPT !.final = f, !.rel = o] \in RunRow
  BY <1>1 DEF RunRow
<1>3. [runs EXCEPT ![r].final = f, ![r].rel = o]
        = [runs EXCEPT ![r] = [runs[r] EXCEPT !.final = f, !.rel = o]]
  BY <1>1
<1> QED
  BY <1>1, <1>2, <1>3

LEMMA PersistStepType ==
  ASSUME TypeInv, NEW w \in Executors, PersistStep(w)
  PROVE  TypeInv'
<1> DEFINE r == RunOf(w)
           s == ctx[w].step
           reply == ctx[w].reply
<1>1. JobsOK /\ RestOK'
  BY JobsUnchanged, RestUnchanged DEF PersistStep
<1>2. /\ Active(w) /\ pc[w] \in HasRun /\ ctx[w] \in Ctx /\ r \in RunIds
      /\ s \in 1 .. 3 /\ s \in Steps
  BY InAStep DEF PersistStep, Extracting, InStep
<1>3. reply \in Reply
  BY <1>2 DEF Ctx
<1>4. DbOK'
  <2>1. row' \in [RunIds -> [Steps -> {"none", "answered", "failed", "consolidated"}]]
    <3>1. \/ row' = row
          \/ row' = [row EXCEPT ![r][s] = "answered"]
          \/ row' = [row EXCEPT ![r][s] = "failed"]
      BY DEF PersistStep
    <3>2. [row EXCEPT ![r][s] = "answered"] \in [RunIds -> [Steps -> {"none", "answered", "failed", "consolidated"}]]
      BY RowType
    <3>3. [row EXCEPT ![r][s] = "failed"] \in [RunIds -> [Steps -> {"none", "answered", "failed", "consolidated"}]]
      BY RowType
    <3> QED
      BY <3>1, <3>2, <3>3 DEF TypeInv, DbOK
  <2>2. runs' \in [RunIds -> RunRow]
    <3>1. runs' = runs \/ runs' = Advanced(r, "result_checkpointed")
      BY DEF PersistStep
    <3> QED
      BY <1>2, <3>1, AdvancedType DEF TypeInv, DbOK, Reliability
  <2>3. ckpt' \in [RunIds -> [Steps -> Reply]]
    <3>1. ckpt' = ckpt \/ ckpt' = [ckpt EXCEPT ![r][s] = reply]
      BY DEF PersistStep
    <3>2. [ckpt EXCEPT ![r][s] = reply] \in [RunIds -> [Steps -> Reply]]
      BY <1>3, CkptType
    <3> QED
      BY <3>1, <3>2 DEF TypeInv, DbOK
  <2>4. bill' \in [RunIds -> [Steps -> Nat]]
    <3>1. bill' = bill \/ bill' = [bill EXCEPT ![r][s] = @ + 1]
      BY DEF PersistStep
    <3>2. [bill EXCEPT ![r][s] = @ + 1] \in [RunIds -> [Steps -> Nat]]
      BY <1>2, InAStep, BillType
    <3> QED
      BY <3>1, <3>2 DEF TypeInv, DbOK
  <2> QED
    BY <2>1, <2>2, <2>3, <2>4 DEF TypeInv, DbOK, PersistStep
<1>5. CASE Goto(w, "failLease", [ctx[w] EXCEPT !.out = "failed"])
  <2> DEFINE c == [ctx[w] EXCEPT !.out = "failed"]
  <2>1. c \in Ctx /\ c.run = r /\ c.out \in Terminal
    BY <1>2 DEF Ctx, RunOf, Terminal
  <2>2. GoodPlace("failLease", c) /\ "failLease" \in PC
    BY <1>2, <2>1 DEF GoodPlace, InStep, PC, InTry
  <2>3. ExecOK' /\ Placed'
    BY <1>1, <1>2, <1>5, <2>1, <2>2, GotoOK
  <2> QED
    BY <1>1, <1>4, <2>3, TypeAgain
<1>6. CASE NextStep(w, Fresh(reply))
  <2>1. Fresh(reply) \in Reply
    BY <1>3, ReplayedType
  <2>2. ExecOK' /\ Placed'
    BY <1>1, <1>2, <1>6, <2>1, NextStepOK
  <2> QED
    BY <1>1, <1>4, <2>2, TypeAgain
<1> QED
  BY <1>5, <1>6 DEF PersistStep

LEMMA ConsolidateType ==
  ASSUME TypeInv, NEW w \in Executors, Consolidate(w)
  PROVE  TypeInv'
<1>1. JobsOK /\ RestOK'
  BY JobsUnchanged, RestUnchanged DEF Consolidate
<1>2. DbOK'
  <2>1. row' \in [RunIds -> [Steps -> {"none", "answered", "failed", "consolidated"}]]
    BY DEF TypeInv, DbOK, Consolidate
  <2> QED
    BY <2>1 DEF TypeInv, DbOK, Consolidate
<1>3. ExecOK' /\ Placed'
  <2>1. pc[w] \in HasRun /\ "decide" \in PC /\ "decide" \notin Closing \cup InStep \cup {"load"}
    BY DEF Consolidate, HasRun, PC, InTry, Closing, InStep
  <2> QED
    BY <1>1, <2>1, GoOnOK DEF Consolidate
<1> QED
  BY <1>1, <1>2, <1>3, TypeAgain

LEMMA DecideExtractionType ==
  ASSUME TypeInv, RunAssumption, NEW w \in Executors, DecideExtraction(w)
  PROVE  TypeInv'
<1>1. JobsOK /\ DbOK' /\ RestOK'
  BY JobsUnchanged, DbUnchanged, RestUnchanged DEF DecideExtraction
<1>2. pc[w] \in HasRun /\ "finLease" \in PC /\ "finLease" \notin Closing \cup InStep \cup {"load"}
  BY DEF DecideExtraction, HasRun, PC, InTry, Closing, InStep
<1>3. NextExtraction(w, 0) \/ Goto(w, "finLease", ctx[w])
  BY DEF DecideExtraction
<1>4. ExecOK' /\ Placed'
  BY <1>1, <1>2, <1>3, GoOnOK, InRun, NextExtractionOK
<1> QED
  BY <1>1, <1>4, TypeAgain

\* The number of an extraction step.
LEMMA ExtractionStep ==
  ASSUME RunAssumption, NEW w \in Executors, Extracting(w)
  PROVE  ctx[w].step \in Nat /\ ctx[w].step \in Extractions
<1>1. ctx[w].step \in Extractions /\ Extractions \subseteq {101, 102}
  BY DEF RunAssumption, Extracting
<1>2. ctx[w].step \in {101, 102}
  BY <1>1
<1> QED
  BY <1>1, <1>2

LEMMA LoadExtractionType ==
  ASSUME TypeInv, RunAssumption, NEW w \in Executors, LoadExtraction(w)
  PROVE  TypeInv'
<1>1. JobsOK /\ DbOK' /\ RestOK'
  BY JobsUnchanged, DbUnchanged, RestUnchanged DEF LoadExtraction
<1>2. pc[w] \in HasRun /\ ctx[w].step \in Nat /\ ctx[w].step \in Extractions
  BY ExtractionStep DEF LoadExtraction, HasRun, PC, InTry
<1>3. Active(w) /\ ctx[w] \in Ctx /\ ctx[w].run \in RunIds
  BY <1>2, InRun DEF RunOf
<1>4. CASE NextExtraction(w, ctx[w].step)
  BY <1>1, <1>2, <1>3, <1>4, NextExtractionOK, TypeAgain
<1>5. ASSUME NEW l \in {"apply", "lease"}, Goto(w, l, ctx[w]) PROVE TypeInv'
  <2>1. GoodPlace(l, ctx[w]) /\ l \in PC
    BY <1>2, <1>3 DEF GoodPlace, Closing, PC, InTry
  <2> QED
    BY <1>1, <1>3, <1>5, <2>1, GotoOK, TypeAgain
<1> QED
  BY <1>4, <1>5 DEF LoadExtraction

LEMMA RejectExtractionType ==
  ASSUME TypeInv, RunAssumption, NEW w \in Executors, RejectExtraction(w)
  PROVE  TypeInv'
<1>1. JobsOK /\ RestOK'
  BY JobsUnchanged, RestUnchanged DEF RejectExtraction
<1>2. pc[w] \in InStep
  BY DEF RejectExtraction, InStep
<1>3. Active(w) /\ pc[w] \in HasRun /\ ctx[w] \in Ctx /\ RunOf(w) \in RunIds /\ ctx[w].step \in Nat
  BY <1>2, InAStep DEF Ctx
<1>4. DbOK'
  <2>1. runs' \in [RunIds -> RunRow]
    BY <1>3, AdvancedType DEF RejectExtraction, Reliability
  <2>2. ext' \in [RunIds -> [Extractions -> {"none", "applied", "failed"}]]
    BY DEF TypeInv, DbOK, RejectExtraction
  <2> QED
    BY <2>1, <2>2 DEF TypeInv, DbOK, RejectExtraction
<1>5. ExecOK' /\ Placed'
  BY <1>1, <1>3, NextExtractionOK DEF RejectExtraction
<1> QED
  BY <1>1, <1>4, <1>5, TypeAgain

LEMMA PersistExtractionType ==
  ASSUME TypeInv, NEW w \in Executors, PersistExtraction(w)
  PROVE  TypeInv'
<1>1. JobsOK /\ RestOK'
  BY JobsUnchanged, RestUnchanged DEF PersistExtraction
<1>2. pc[w] \in InStep
  BY DEF PersistExtraction, InStep
<1>3. Active(w) /\ ctx[w] \in Ctx /\ RunOf(w) \in RunIds /\ ctx[w].reply \in Reply
  BY <1>2, InAStep DEF Ctx
<1>4. DbOK'
  <2>1. runs' \in [RunIds -> RunRow]
    <3>1. runs' = runs \/ runs' = Advanced(RunOf(w), "result_checkpointed")
      BY DEF PersistExtraction
    <3> QED
      BY <1>3, <3>1, AdvancedType DEF TypeInv, DbOK, Reliability
  <2>2. ckpt' \in [RunIds -> [Steps -> Reply]]
    <3>1. ckpt' = ckpt \/ ckpt' = [ckpt EXCEPT ![RunOf(w)][ctx[w].step] = ctx[w].reply]
      BY DEF PersistExtraction
    <3>2. [ckpt EXCEPT ![RunOf(w)][ctx[w].step] = ctx[w].reply] \in [RunIds -> [Steps -> Reply]]
      BY <1>3, CkptType
    <3> QED
      BY <3>1, <3>2 DEF TypeInv, DbOK
  <2>3. bill' \in [RunIds -> [Steps -> Nat]]
    <3>1. bill' = bill \/ bill' = [bill EXCEPT ![RunOf(w)][ctx[w].step] = @ + 1]
      BY DEF PersistExtraction
    <3>2. [bill EXCEPT ![RunOf(w)][ctx[w].step] = @ + 1] \in [RunIds -> [Steps -> Nat]]
      BY <1>2, InAStep, BillType
    <3> QED
      BY <3>1, <3>2 DEF TypeInv, DbOK
  <2> QED
    BY <2>1, <2>2, <2>3 DEF TypeInv, DbOK, PersistExtraction
<1>5. ExecOK' /\ Placed'
  <2>1. Goto(w, "apply", ctx[w]) \/ Finish(w, "threw")
    BY DEF PersistExtraction
  <2>2. "apply" \in PC /\ "apply" \notin Closing \cup {"load"}
    BY DEF PC, InTry, Closing
  <2> QED
    BY <1>1, <1>2, <1>3, <2>1, <2>2, GoOnOK, FinishMoveOK
<1> QED
  BY <1>1, <1>4, <1>5, TypeAgain

LEMMA ApplyExtractionType ==
  ASSUME TypeInv, RunAssumption, NEW w \in Executors, ApplyExtraction(w)
  PROVE  TypeInv'
<1>1. JobsOK => RestOK'
  BY RestUnchanged DEF ApplyExtraction
<1>2. pc[w] \in InStep
  BY DEF ApplyExtraction, InStep
<1>3. Active(w) /\ pc[w] \in HasRun /\ ctx[w] \in Ctx /\ ctx[w].step \in Nat /\ held[w] \in JobIds
  BY <1>2, InAStep, Here DEF Ctx
<1>4. DbOK'
  <2>1. ext' \in [RunIds -> [Extractions -> {"none", "applied", "failed"}]]
    <3>1. ext' = ext \/ ext' = [ext EXCEPT ![RunOf(w)][ctx[w].step] = "applied"]
      BY DEF ApplyExtraction
    <3>2. [ext EXCEPT ![RunOf(w)][ctx[w].step] = "applied"] \in [RunIds -> [Extractions -> {"none", "applied", "failed"}]]
      BY ExtType
    <3>3. ext \in [RunIds -> [Extractions -> {"none", "applied", "failed"}]]
      BY DEF TypeInv, DbOK
    <3> QED
      BY <3>1, <3>2, <3>3
  <2> QED
    BY <2>1 DEF TypeInv, DbOK, ApplyExtraction
<1>5. CASE RenewRunJobLease(held[w]) /\ NextExtraction(w, ctx[w].step)
  BY <1>1, <1>3, <1>4, <1>5, RenewOK, NextExtractionOK, TypeAgain
<1>6. CASE Release(w) /\ UNCHANGED jobs
  BY <1>1, <1>4, <1>6, JobsUnchanged, ReleaseOK, TypeAgain
<1> QED
  BY <1>5, <1>6 DEF ApplyExtraction

LEMMA FinalizeCheckType ==
  ASSUME TypeInv, NEW w \in Executors, FinalizeCheck(w)
  PROVE  TypeInv'
<1>1. JobsOK /\ DbOK' /\ RestOK'
  BY JobsUnchanged, DbUnchanged, RestUnchanged DEF FinalizeCheck
<1>2. /\ pc[w] \in HasRun /\ "finalizeCommit" \in PC
      /\ "finalizeCommit" \notin Closing \cup InStep \cup {"load"}
  BY DEF FinalizeCheck, HasRun, PC, InTry, Closing, InStep
<1>3. \/ \E o \in Terminal \cup {"drained", "threw"} : Finish(w, o)
      \/ Goto(w, "finalizeCommit", ctx[w])
  BY DEF FinalizeCheck
<1>4. ExecOK' /\ Placed'
  BY <1>1, <1>2, <1>3, InRun, GoOnOK, FinishMoveOK
<1> QED
  BY <1>1, <1>4, TypeAgain

LEMMA FinalizeCommitType ==
  ASSUME TypeInv, NEW w \in Executors, FinalizeCommit(w)
  PROVE  TypeInv'
<1>1. JobsOK /\ RestOK'
  BY JobsUnchanged, RestUnchanged DEF FinalizeCommit
<1>2. /\ pc[w] \in HasRun /\ "complete" \in PC
      /\ "complete" \notin Closing \cup InStep \cup {"load"}
  BY DEF FinalizeCommit, HasRun, PC, InTry, Closing, InStep
<1>3. ctx[w].got \in Result
  BY <1>2, InRun DEF Ctx
<1>4. DbOK'
  <2>1. runs' \in [RunIds -> RunRow]
    <3>1. RunOf(w) \in RunIds /\ "finalizing" \in Reliability
      BY <1>2, InRun DEF Reliability
    <3>2. [runs EXCEPT ![RunOf(w)].final = ctx[w].got, ![RunOf(w)].rel = "finalizing"] \in [RunIds -> RunRow]
      BY <1>3, <3>1, MarkRowType
    <3> QED
      BY <3>2 DEF FinalizeCommit
  <2> QED
    BY <2>1 DEF FinalizeCommit, TypeInv, DbOK
<1>5. ExecOK' /\ Placed'
  BY <1>1, <1>2, GoOnOK DEF FinalizeCommit
<1> QED
  BY <1>1, <1>4, <1>5, TypeAgain

LEMMA CompleteRunType ==
  ASSUME TypeInv, NEW w \in Executors, CompleteRun(w)
  PROVE  TypeInv'
<1>1. JobsOK /\ RestOK'
  BY JobsUnchanged, RestUnchanged DEF CompleteRun
<1>2. Active(w)
  BY DEF CompleteRun, Active
<1>3. DbOK'
  <2>1. runs' \in [RunIds -> RunRow]
    <3>1. RunOf(w) \in RunIds /\ "completed" \in Reliability
      BY InRun DEF CompleteRun, HasRun, PC, InTry, Reliability, Terminal
    <3>2. [runs EXCEPT ![RunOf(w)].status = "completed", ![RunOf(w)].rel = "completed"] \in [RunIds -> RunRow]
      BY <3>1, EndRowType
    <3> QED
      BY <3>2 DEF CompleteRun
  <2>2. tasks' \in [Tasks -> [status : TaskStatus, reason : BOOLEAN]]
    <3>1. PICK status \in {"completed", "awaiting_approval"} :
            tasks' = [tasks EXCEPT ![TaskOf(w)].status = status]
      BY DEF CompleteRun
    <3> QED
      BY <3>1 DEF TypeInv, DbOK, TaskStatus
  <2> QED
    BY <2>1, <2>2 DEF CompleteRun, TypeInv, DbOK
<1>4. ExecOK' /\ Placed'
  BY <1>1, <1>2, FinishMoveOK DEF CompleteRun, Terminal
<1> QED
  BY <1>1, <1>3, <1>4, TypeAgain

LEMMA CloseCheckType ==
  ASSUME TypeInv, NEW w \in Executors, CloseCheck(w)
  PROVE  TypeInv'
<1>1. JobsOK /\ DbOK' /\ RestOK'
  BY JobsUnchanged, DbUnchanged, RestUnchanged DEF CloseCheck
<1>2. pc[w] \in HasRun /\ pc[w] \in Closing /\ "closeCommit" \in Closing /\ "closeCommit" \in PC
  BY DEF CloseCheck, HasRun, PC, InTry, Closing
<1>3. \/ \E o \in Terminal \cup {"drained", "threw"} : Finish(w, o)
      \/ Goto(w, "closeCommit", ctx[w])
  BY DEF CloseCheck, IsTerminal
<1>4. ExecOK' /\ Placed'
  BY <1>1, <1>2, <1>3, InRun, GoOnOK, FinishMoveOK
<1> QED
  BY <1>1, <1>4, TypeAgain

LEMMA CloseCommitType ==
  ASSUME TypeInv, NEW w \in Executors, CloseCommit(w)
  PROVE  TypeInv'
<1>1. JobsOK /\ RestOK'
  BY JobsUnchanged, RestUnchanged DEF CloseCommit
<1>2. pc[w] \in HasRun /\ pc[w] \in Closing
  BY DEF CloseCommit, HasRun, PC, InTry, Closing
<1>3. Active(w) /\ ctx[w].out \in Terminal
  BY <1>2, InRun, Here DEF GoodPlace
<1>4. DbOK'
  <2>1. runs' \in [RunIds -> RunRow]
    <3>1. RunOf(w) \in RunIds /\ ctx[w].out \in Reliability
      BY <1>2, <1>3, InRun DEF Reliability
    <3>2. [runs EXCEPT ![RunOf(w)].status = "failed", ![RunOf(w)].rel = ctx[w].out] \in [RunIds -> RunRow]
      BY <3>1, EndRowType
    <3> QED
      BY <3>2 DEF CloseCommit
  <2>2. tasks' \in [Tasks -> [status : TaskStatus, reason : BOOLEAN]]
    BY DEF CloseCommit, TypeInv, DbOK, TaskStatus
  <2> QED
    BY <2>1, <2>2 DEF CloseCommit, TypeInv, DbOK
<1>5. ExecOK' /\ Placed'
  BY <1>1, <1>3, FinishMoveOK DEF CloseCommit
<1> QED
  BY <1>1, <1>4, <1>5, TypeAgain

\* Faults count, and touch nothing else of what RestOK speaks about.
LEMMA FaultOK ==
  ASSUME TypeInv, JobsOK, NEW kind, Fault(kind), UNCHANGED <<stale, asked>>
  PROVE  RestOK'
BY DEF TypeInv, RestOK, Listed, JobsOK, JobsStay, Fault

LEMMA FaultType ==
  ASSUME TypeInv, RunAssumption, NEW w \in Executors, Crash(w) \/ Throw(w) \/ SwallowApply(w)
  PROVE  TypeInv'
<1>1. CASE Crash(w)
  BY <1>1, JobsUnchanged, DbUnchanged, FaultOK, ReleaseOK, TypeAgain DEF Crash
<1>2. CASE Throw(w)
  <2>1. JobsOK /\ DbOK' /\ RestOK'
    BY <1>2, JobsUnchanged, DbUnchanged, FaultOK DEF Throw
  <2>2. Active(w)
    BY <1>2 DEF Throw, InTry, Active
  <2> QED
    BY <1>2, <2>1, <2>2, FinishMoveOK, TypeAgain DEF Throw
<1>3. CASE SwallowApply(w)
  <2>1. JobsOK /\ DbOK' /\ RestOK'
    BY <1>3, JobsUnchanged, DbUnchanged, FaultOK DEF SwallowApply
  <2>2. pc[w] \in InStep
    BY <1>3 DEF SwallowApply, InStep
  <2>3. Active(w) /\ pc[w] \in HasRun /\ ctx[w].step \in Nat
    BY <2>2, InAStep DEF Ctx
  <2> QED
    BY <1>3, <2>1, <2>3, NextExtractionOK, TypeAgain DEF SwallowApply
<1> QED
  BY <1>1, <1>2, <1>3

LEMMA LeaseType ==
  ASSUME TypeInv, NEW j \in JobIds, ExpireOrphan(j) \/ ExpireHeld(j)
  PROVE  TypeInv'
<1>1. JobsOK /\ DbOK'
  BY ExpireOK, DbUnchanged DEF ExpireOrphan, ExpireHeld
<1>2. RestOK'
  BY <1>1, RestUnchanged, FaultOK DEF ExpireOrphan, ExpireHeld
<1>3. ExecOK' /\ Placed'
  BY <1>1, StayOK DEF ExpireOrphan, ExpireHeld
<1> QED
  BY <1>1, <1>2, <1>3, TypeAgain

LEMMA ListType ==
  ASSUME TypeInv, ListStale \/ ReconcilerCrash
  PROVE  TypeInv'
<1>1. JobsOK /\ DbOK'
  BY JobsUnchanged, DbUnchanged DEF ListStale, ReconcilerCrash
<1>2. RestOK'
  <2>1. UNCHANGED <<jobs, asked>> /\ faults' \in Nat
    BY DEF TypeInv, RestOK, ListStale, ReconcilerCrash, Fault
  <2>2. CASE ListStale
    BY <2>1, <2>2 DEF TypeInv, RestOK, Listed, ListStale, Stale
  <2>3. CASE ReconcilerCrash
    BY <2>1, <2>3 DEF TypeInv, RestOK, Listed, ReconcilerCrash
  <2> QED
    BY <2>2, <2>3
<1>3. ExecOK' /\ Placed'
  BY <1>1, StayOK DEF ListStale, ReconcilerCrash
<1> QED
  BY <1>1, <1>2, <1>3, TypeAgain

\* A task may get any status.
LEMMA TaskType ==
  ASSUME TypeInv, NEW t \in Tasks, NEW status \in TaskStatus
  PROVE  [tasks EXCEPT ![t].status = status] \in [Tasks -> [status : TaskStatus, reason : BOOLEAN]]
BY DEF TypeInv, DbOK

LEMMA HandleType ==
  ASSUME TypeInv, NEW j \in JobIds, Handle(j)
  PROVE  TypeInv'
<1>1. jobs[j].status # "absent" /\ stale[j] # "no"
  BY DEF Handle, InspectStale, RequeueStale, RecoverInterrupted, FinishRecovered,
         TypeInv, RestOK, Listed
<1>2. ASSUME JobsOK, \A i \in JobIds : stale'[i] # "no" => stale[i] # "no",
             UNCHANGED <<asked, faults>>,
             stale' \in [JobIds -> {"no", "requeue", "inspect", "recover", "finish"}]
      PROVE  RestOK'
  BY <1>2 DEF TypeInv, RestOK, Listed, JobsOK, JobsStay
<1>3. CASE InspectStale(j)
  <2>1. JobsOK /\ DbOK'
    BY <1>3, JobsUnchanged, DbUnchanged DEF InspectStale
  <2>2. RestOK'
    BY <1>1, <1>2, <1>3, <2>1 DEF InspectStale, TypeInv, RestOK
  <2> QED
    BY <1>3, <2>1, <2>2, StayOK, TypeAgain DEF InspectStale
<1>4. CASE RequeueStale(j)
  <2>1. JobsOK /\ DbOK'
    BY <1>1, <1>4, JobsUnchanged, RequeueOK, DbUnchanged DEF RequeueStale
  <2>2. RestOK'
    BY <1>1, <1>2, <1>4, <2>1 DEF RequeueStale, TypeInv, RestOK
  <2> QED
    BY <1>4, <2>1, <2>2, StayOK, TypeAgain DEF RequeueStale
<1>5. CASE RecoverInterrupted(j)
  <2>1. JobsOK
    BY <1>5, JobsUnchanged DEF RecoverInterrupted
  <2>2. RestOK'
    BY <1>1, <1>2, <1>5, <2>1 DEF RecoverInterrupted, TypeInv, RestOK
  <2>3. DbOK'
    <3>1. jobs[j].task \in Tasks
      BY <1>1 DEF TypeInv, JobsOwned
    <3>2. tasks' \in [Tasks -> [status : TaskStatus, reason : BOOLEAN]]
      BY <1>5, <3>1, TaskType DEF RecoverInterrupted, TaskStatus
    <3>3. \A r \in RunIds : runs[r] \in RunRow
      BY DEF TypeInv, DbOK
    <3>4. \A r \in RunIds : [runs[r] EXCEPT !.status = "failed"] \in RunRow
      BY <3>3 DEF RunRow
    <3>5. runs' \in [RunIds -> RunRow]
      BY <1>5, <3>3, <3>4 DEF RecoverInterrupted
    <3> QED
      BY <1>5, <3>2, <3>5 DEF RecoverInterrupted, TypeInv, DbOK
  <2> QED
    BY <1>5, <2>1, <2>2, <2>3, StayOK, TypeAgain DEF RecoverInterrupted
<1>6. CASE FinishRecovered(j)
  <2>1. JobsOK /\ DbOK'
    BY <1>1, <1>6, FinishOK, DbUnchanged DEF FinishRecovered
  <2>2. RestOK'
    BY <1>1, <1>2, <1>6, <2>1 DEF FinishRecovered, TypeInv, RestOK
  <2> QED
    BY <1>6, <2>1, <2>2, StayOK, TypeAgain DEF FinishRecovered
<1> QED
  BY <1>3, <1>4, <1>5, <1>6 DEF Handle

LEMMA UserType ==
  ASSUME TypeInv, NEW t \in Tasks, User(t)
  PROVE  TypeInv'
<1> USE DEF Begin, End
<1>1. JobsOK
  BY JobsUnchanged, EnqueueOK
     DEF User, RunTask, RerunRead, RerunLookup, RerunCommit, CancelRead, CancelCommit,
         MarkRead, MarkCommit, SettleRead, SettleCommit
<1>2. ExecOK' /\ Placed'
  BY <1>1, StayOK
     DEF User, RunTask, RerunRead, RerunLookup, RerunCommit, CancelRead, CancelCommit,
         MarkRead, MarkCommit, SettleRead, SettleCommit
<1>3. UNCHANGED <<runs, row, ckpt, bill, ext, calls, stale, faults>>
  BY DEF User, RunTask, RerunRead, RerunLookup, RerunCommit, CancelRead, CancelCommit,
         MarkRead, MarkCommit, SettleRead, SettleCommit, db
<1>4. tasks' \in [Tasks -> [status : TaskStatus, reason : BOOLEAN]]
  <2>1. \/ tasks' = tasks
        \/ \E status \in TaskStatus : tasks' = [tasks EXCEPT ![t].status = status]
        \/ \E reason \in BOOLEAN : tasks' = [tasks EXCEPT ![t].reason = reason]
        \/ \E reason \in BOOLEAN :
             tasks' = [tasks EXCEPT ![t] = [status |-> "cancelled", reason |-> reason]]
    BY DEF User, RunTask, RerunRead, RerunLookup, RerunCommit, CancelRead, CancelCommit,
           MarkRead, MarkCommit, SettleRead, SettleCommit, db, TaskStatus
  <2>2. CASE tasks' = tasks
    BY <2>2 DEF TypeInv, DbOK
  <2>3. ASSUME NEW status \in TaskStatus, tasks' = [tasks EXCEPT ![t].status = status]
        PROVE  tasks' \in [Tasks -> [status : TaskStatus, reason : BOOLEAN]]
    BY <2>3, TaskType
  <2>4. ASSUME NEW reason \in BOOLEAN, tasks' = [tasks EXCEPT ![t].reason = reason]
        PROVE  tasks' \in [Tasks -> [status : TaskStatus, reason : BOOLEAN]]
    BY <2>4 DEF TypeInv, DbOK
  <2>5. ASSUME NEW reason \in BOOLEAN,
               tasks' = [tasks EXCEPT ![t] = [status |-> "cancelled", reason |-> reason]]
        PROVE  tasks' \in [Tasks -> [status : TaskStatus, reason : BOOLEAN]]
    BY <2>5 DEF TypeInv, DbOK, TaskStatus
  <2> QED
    BY <2>1, <2>2, <2>3, <2>4, <2>5
<1>5. asked' \in [Tasks -> UserTx]
  <2>1. tasks[t].status \in TaskStatus /\ asked[t] \in UserTx
    BY DEF TypeInv, DbOK, RestOK
  <2>2. \/ asked' = asked
        \/ asked' = [asked EXCEPT ![t] = NoTx]
        \/ asked' = [asked EXCEPT ![t].op = "rerunCommit"]
        \/ \E op \in {"rerunLive", "cancel", "mark", "settle"} :
             asked' = [asked EXCEPT ![t] = [op |-> op, seen |-> tasks[t].status]]
    BY DEF User, RunTask, RerunRead, RerunLookup, RerunCommit, CancelRead, CancelCommit,
           MarkRead, MarkCommit, SettleRead, SettleCommit
  <2> QED
    BY <2>1, <2>2 DEF TypeInv, RestOK, UserTx, NoTx, TaskStatus
<1>6. DbOK' /\ RestOK'
  BY <1>1, <1>3, <1>4, <1>5 DEF TypeInv, DbOK, RestOK, Listed, JobsOK, JobsStay
<1> QED
  BY <1>1, <1>2, <1>6, TypeAgain

-----------------------------------------------------------------------------
LEMMA WorkType ==
  ASSUME TypeInv, RunAssumption, NEW w \in Executors, Work(w)
  PROVE  TypeInv'
BY ReadTokenType, ReadTaskType, FinishJobType, PreflightCheckType, PreflightCommitType,
   ResumeType, LoadStepType, CheckLeaseType, GuardCheckType, GuardCommitType,
   CallProviderType, PersistStepType, ConsolidateType, DecideExtractionType,
   LoadExtractionType, RejectExtractionType, PersistExtractionType, ApplyExtractionType,
   FinalizeCheckType, FinalizeCommitType, CompleteRunType, CloseCheckType, CloseCommitType
   DEF Work

LEMMA TypeNext ==
  ASSUME TypeInv, RunAssumption, [Next]_vars
  PROVE  TypeInv'
<1>1. ASSUME NEW w \in Executors, ClaimNext(w) \/ ClaimForTask(w) PROVE TypeInv'
  BY <1>1, ClaimType DEF ClaimNext, ClaimForTask
<1>2. CASE UNCHANGED vars
  <2>1. JobsOK /\ DbOK' /\ RestOK'
    BY <1>2, JobsUnchanged, DbUnchanged, RestUnchanged DEF vars, db
  <2> QED
    BY <1>2, <2>1, StayOK, TypeAgain DEF vars, own
<1> QED
  BY <1>1, <1>2, WorkType, FaultType, LeaseType, HandleType, ListType, UserType DEF Next

\* Every value the code stores or keeps in memory has its type, and every row
\* it names exists: a job is held while it is worked on, a run is in hand
\* wherever its steps, checkpoints and bills are read or written.
THEOREM TypeCorrect == Spec => []TypeOK
<1>1. Init => TypeInv
  BY TypeInit
<1>2. TypeInv /\ [Next]_vars => TypeInv'
  BY RunAssumption, TypeNext
<1>3. TypeInv => TypeOK
  BY TypeInvImplies
<1> QED
  BY <1>1, <1>2, <1>3, PTL DEF Spec

-----------------------------------------------------------------------------
(* One executor at a time.                                                 *)
(*                                                                         *)
(* ExclusiveExecutor is not inductive: that two executors do not share a   *)
(* job follows from a claim never taking a job that is being worked on,    *)
(* that they do not share a task from the unique index, and that neither   *)
(* finishing nor requeueing pulls a job from under its holder from what    *)
(* the reconciler's list may hold.                                         *)

\* The claim of an executor at work is the last one of its job.
Owned ==
  \A w \in Executors :
    Active(w) => /\ jobs[held[w]].status = "running"
                 /\ jobs[held[w]].lease = "live"
                 /\ pc[w] # "token" => token[w] = jobs[held[w]].attempts

Distinct == \A v, w \in Executors : Active(v) /\ Active(w) /\ held[v] = held[w] => v = w

\* The unique index on the task of queued and running jobs.
OneLive ==
  \A i, j \in JobIds :
    jobs[i].status \in LiveStatus /\ jobs[j].status \in LiveStatus
      /\ jobs[i].task = jobs[j].task => i = j

\* A listed job stays claimed by nobody until it is handled.
ListedFree == \A j \in JobIds : stale[j] # "no" => Stale(j)

OwnInv == Owned /\ Distinct /\ OneLive /\ ListedFree

\* Leases outlive the steps of their holders; a list does not go stale.
Timely == "stall" \notin Env /\ "stale_list" \notin Env

LEMMA OwnInvImplies == ASSUME TypeInv, OwnInv PROVE ExclusiveExecutor
<1>1. ASSUME NEW v \in Executors, NEW w \in Executors,
             Active(v), Active(w), TaskOf(v) = TaskOf(w)
      PROVE  v = w
  <2>1. held[v] \in JobIds /\ held[w] \in JobIds
    BY <1>1, Here
  <2>2. held[v] = held[w]
    BY <1>1, <2>1 DEF OwnInv, Owned, OneLive, TaskOf, LiveStatus
  <2> QED
    BY <1>1, <2>2 DEF OwnInv, Distinct
<1>2. ASSUME NEW w \in Executors, Active(w)
      PROVE  /\ jobs[held[w]].status = "running"
             /\ jobs[held[w]].lease = "live"
             /\ pc[w] # "token" => OwnsLease(held[w], token[w])
  BY <1>2 DEF OwnInv, Owned, OwnsLease
<1> QED
  BY <1>1, <1>2 DEF ExclusiveExecutor

LEMMA OwnInit == Init => OwnInv
BY DEF Init, QueueInit, NoJob, OwnInv, Owned, Distinct, OneLive, ListedFree, Active, LiveStatus

-----------------------------------------------------------------------------
(* Steps that only move executors already at work. *)

Moves(w) ==
  /\ pc[w] \notin {"idle", "token"}
  /\ UNCHANGED <<jobs, held, token, stale>>
  /\ \A v \in Executors \ {w} : pc'[v] = pc[v]

LEMMA MovesOwn ==
  ASSUME TypeInv, OwnInv, NEW w \in Executors, Moves(w) PROVE OwnInv'
<1>1. Owned'
  BY DEF OwnInv, Owned, Moves, Active
<1>2. Distinct'
  BY DEF OwnInv, Distinct, Moves, Active
<1>3. OneLive' /\ ListedFree'
  BY DEF OwnInv, OneLive, ListedFree, Moves, Stale
<1> QED
  BY <1>1, <1>2, <1>3 DEF OwnInv

LEMMA GotoMoves ==
  ASSUME TypeInv, NEW w \in Executors, NEW l, NEW c, Goto(w, l, c),
         pc[w] \notin {"idle", "token"}, UNCHANGED <<jobs, stale>>
  PROVE  Moves(w)
BY DEF TypeInv, ExecOK, Goto, own, Moves

\* Every step of an executor that neither touches its job nor lets it go.
LEMMA WorkMoves ==
  ASSUME TypeInv, NEW w \in Executors,
         \/ ReadTask(w) \/ PreflightCheck(w) \/ PreflightCommit(w) \/ Resume(w)
         \/ LoadStep(w) \/ GuardCheck(w) \/ GuardCommit(w)
         \/ CallProvider(w) \/ PersistStep(w) \/ Consolidate(w)
         \/ DecideExtraction(w) \/ LoadExtraction(w) \/ RejectExtraction(w)
         \/ PersistExtraction(w) \/ FinalizeCheck(w) \/ FinalizeCommit(w) \/ CompleteRun(w)
         \/ CloseCheck(w) \/ CloseCommit(w)
         \/ Throw(w) \/ SwallowApply(w)
  PROVE  Moves(w)
<1> USE GotoMoves DEF Close, Finish, NextStep, NextExtraction
<1>1. CASE ReadTask(w) \/ PreflightCheck(w) \/ PreflightCommit(w) \/ Resume(w)
  BY <1>1 DEF ReadTask, PreflightCheck, PreflightCommit, Resume
<1>2. CASE LoadStep(w) \/ GuardCheck(w) \/ GuardCommit(w)
  BY <1>2 DEF LoadStep, GuardCheck, GuardCommit
<1>3. CASE CallProvider(w)
  BY <1>3 DEF CallProvider
<1>4. CASE PersistStep(w) \/ Consolidate(w)
  BY <1>4 DEF PersistStep, Consolidate
<1>5. CASE DecideExtraction(w) \/ LoadExtraction(w) \/ RejectExtraction(w) \/ PersistExtraction(w)
  BY <1>5 DEF DecideExtraction, LoadExtraction, RejectExtraction, PersistExtraction
<1>6. CASE FinalizeCheck(w) \/ FinalizeCommit(w) \/ CompleteRun(w) \/ CloseCheck(w) \/ CloseCommit(w)
  BY <1>6 DEF FinalizeCheck, FinalizeCommit, CompleteRun, CloseCheck, CloseCommit
<1>7. CASE Throw(w) \/ SwallowApply(w)
  BY <1>7 DEF Throw, SwallowApply, InTry
<1> QED
  BY <1>1, <1>2, <1>3, <1>4, <1>5, <1>6, <1>7

-----------------------------------------------------------------------------
(* Steps that take, refresh or let go of a job. *)

LEMMA ClaimOwn ==
  ASSUME TypeInv, OwnInv, NEW w \in Executors, NEW j \in JobIds, Claim(w, j), stale[j] = "no"
  PROVE  OwnInv'
<1>1. \A v \in Executors : Active(v) => held[v] # j /\ held[v] \in JobIds
  BY Here DEF OwnInv, Owned, Claim, ClaimRunJob, Claimable
<1>2. /\ pc' = [pc EXCEPT ![w] = "token"] /\ held' = [held EXCEPT ![w] = j]
      /\ UNCHANGED <<token, stale>> /\ pc[w] = "idle"
      /\ jobs[j].status \in LiveStatus
      /\ jobs' = [jobs EXCEPT ![j].status = "running", ![j].attempts = @ + 1, ![j].lease = "live"]
  BY DEF Claim, ClaimRunJob, Claimable, LiveStatus
<1>3. /\ jobs'[j].status = "running" /\ jobs'[j].lease = "live" /\ jobs'[j].task = jobs[j].task
      /\ \A i \in JobIds \ {j} : jobs'[i] = jobs[i]
  BY <1>2 DEF TypeInv, QueueTypeOK, JobRow
<1>4. ASSUME NEW v \in Executors, v # w
      PROVE  pc'[v] = pc[v] /\ held'[v] = held[v]
  BY <1>2, <1>4 DEF TypeInv, ExecOK
<1>5. pc'[w] = "token" /\ held'[w] = j
  BY <1>2 DEF TypeInv, ExecOK
<1>6. Owned'
  <2> SUFFICES ASSUME NEW v \in Executors, Active(v)'
               PROVE  /\ jobs'[held'[v]].status = "running"
                      /\ jobs'[held'[v]].lease = "live"
                      /\ pc'[v] # "token" => token'[v] = jobs'[held'[v]].attempts
    BY DEF Owned
  <2>1. CASE v = w
    BY <1>3, <1>5, <2>1
  <2>2. CASE v # w
    <3>1. Active(v) /\ pc'[v] = pc[v] /\ held'[v] = held[v] /\ token'[v] = token[v]
      BY <1>2, <1>4, <2>2 DEF Active
    <3>2. jobs'[held[v]] = jobs[held[v]]
      BY <1>1, <1>3, <3>1
    <3> QED
      BY <3>1, <3>2 DEF OwnInv, Owned
  <2> QED
    BY <2>1, <2>2
<1>7. Distinct'
  BY <1>1, <1>4, <1>5 DEF OwnInv, Distinct, Active
<1>8. OneLive'
  <2>1. ASSUME NEW i \in JobIds
        PROVE  jobs'[i].task = jobs[i].task /\ (jobs'[i].status \in LiveStatus => jobs[i].status \in LiveStatus)
    BY <1>2, <1>3
  <2> QED
    BY <2>1 DEF OwnInv, OneLive
<1>9. ListedFree'
  BY <1>2, <1>3 DEF OwnInv, ListedFree, Stale
<1> QED
  BY <1>6, <1>7, <1>8, <1>9 DEF OwnInv

LEMMA ReadTokenOwn ==
  ASSUME TypeInv, OwnInv, NEW w \in Executors, ReadToken(w)
  PROVE  OwnInv'
<1>1. Owned'
  BY DEF OwnInv, Owned, ReadToken, Active, TypeInv, ExecOK
<1>2. Distinct'
  BY DEF OwnInv, Distinct, ReadToken, Active, TypeInv, ExecOK
<1>3. OneLive' /\ ListedFree'
  BY DEF OwnInv, OneLive, ListedFree, ReadToken, Stale
<1> QED
  BY <1>1, <1>2, <1>3 DEF OwnInv

\* The owner's lease is live: renewing it changes nothing.
LEMMA RenewSame ==
  ASSUME TypeInv, OwnInv, NEW w \in Executors, Active(w), RenewRunJobLease(held[w])
  PROVE  UNCHANGED jobs
<1>1. held[w] \in JobIds /\ jobs[held[w]].lease = "live"
  BY Here DEF OwnInv, Owned
<1> QED
  BY <1>1 DEF RenewRunJobLease, TypeInv, QueueTypeOK, JobRow

LEMMA ReleaseOwn ==
  ASSUME TypeInv, OwnInv, NEW w \in Executors, Release(w), UNCHANGED <<jobs, stale>>
  PROVE  OwnInv'
<1>1. ASSUME NEW v \in Executors, Active(v)'
      PROVE  v # w /\ Active(v) /\ pc'[v] = pc[v] /\ held'[v] = held[v] /\ token'[v] = token[v]
  BY <1>1 DEF Release, Active, TypeInv, ExecOK
<1>2. Owned'
  BY <1>1 DEF OwnInv, Owned
<1>3. Distinct'
  BY <1>1 DEF OwnInv, Distinct
<1>4. OneLive' /\ ListedFree'
  BY DEF OwnInv, OneLive, ListedFree, Stale
<1> QED
  BY <1>2, <1>3, <1>4 DEF OwnInv

LEMMA FinishJobOwn ==
  ASSUME TypeInv, OwnInv, NEW w \in Executors, FinishJob(w)
  PROVE  OwnInv'
<1> DEFINE j == held[w]
<1>1. Active(w) /\ j \in JobIds /\ Release(w) /\ UNCHANGED stale
  BY Here DEF FinishJob, Active
<1>2. PICK o \in {"done", "failed"} : jobs' = [jobs EXCEPT ![j].status = o]
  BY DEF FinishJob, FinishRunJob
<1>3. /\ jobs'[j].status \notin LiveStatus
      /\ \A i \in JobIds \ {j} : jobs'[i] = jobs[i]
  BY <1>1, <1>2 DEF TypeInv, QueueTypeOK, JobRow, LiveStatus
<1>4. ASSUME NEW v \in Executors, Active(v)'
      PROVE  /\ v # w /\ Active(v) /\ pc'[v] = pc[v] /\ held'[v] = held[v] /\ token'[v] = token[v]
             /\ held[v] \in JobIds \ {j}
  <2>1. v # w /\ Active(v) /\ pc'[v] = pc[v] /\ held'[v] = held[v] /\ token'[v] = token[v]
    BY <1>1, <1>4 DEF Release, Active, TypeInv, ExecOK
  <2> QED
    BY <1>1, <2>1, Here DEF OwnInv, Distinct
<1>5. Owned'
  BY <1>3, <1>4 DEF OwnInv, Owned
<1>6. Distinct'
  BY <1>4 DEF OwnInv, Distinct
<1>7. OneLive'
  BY <1>3 DEF OwnInv, OneLive
<1>8. ListedFree'
  <2>1. stale[j] = "no"
    BY <1>1 DEF OwnInv, Owned, ListedFree, Stale
  <2> QED
    BY <1>1, <1>3, <2>1 DEF OwnInv, ListedFree, Stale
<1> QED
  BY <1>5, <1>6, <1>7, <1>8 DEF OwnInv

LEMMA LeaseStepOwn ==
  ASSUME TypeInv, OwnInv, NEW w \in Executors, CheckLease(w) \/ ApplyExtraction(w)
  PROVE  OwnInv'
<1>1. pc[w] \notin {"idle", "token"} /\ UNCHANGED stale
  BY DEF CheckLease, LeaseNext, ApplyExtraction
<1>2. Active(w)
  BY <1>1 DEF Active
<1>3. CASE RenewRunJobLease(held[w]) /\ \E l, c : Goto(w, l, c)
  BY <1>1, <1>2, <1>3, RenewSame, GotoMoves, MovesOwn
<1>4. CASE Release(w) /\ UNCHANGED jobs
  BY <1>1, <1>4, ReleaseOwn
<1> QED
  BY <1>3, <1>4 DEF CheckLease, ApplyExtraction, NextExtraction

-----------------------------------------------------------------------------
(* Leases, the reconciler, users. *)

\* A job that nobody works on and that stays as it is for everybody else.
LEMMA OrphanOwn ==
  ASSUME TypeInv, OwnInv, NEW j \in JobIds, Holders(j) = {}, ExpireLease(j),
         UNCHANGED <<pc, held, token, stale>>
  PROVE  OwnInv'
<1>1. /\ jobs'[j].status = "running" /\ jobs'[j].task = jobs[j].task /\ jobs'[j].lease = "expired"
      /\ jobs[j].status = "running"
      /\ \A i \in JobIds \ {j} : jobs'[i] = jobs[i]
  BY DEF ExpireLease, TypeInv, QueueTypeOK, JobRow
<1>2. \A v \in Executors : Active(v) => held[v] \in JobIds \ {j}
  BY Here DEF Holders
<1>3. Owned'
  BY <1>1, <1>2 DEF OwnInv, Owned, Active
<1>4. Distinct'
  BY DEF OwnInv, Distinct, Active
<1>5. OneLive'
  <2>1. ASSUME NEW i \in JobIds
        PROVE  jobs'[i].task = jobs[i].task /\ jobs'[i].status = jobs[i].status
    BY <1>1
  <2> QED
    BY <2>1 DEF OwnInv, OneLive
<1>6. ListedFree'
  BY <1>1 DEF OwnInv, ListedFree, Stale
<1> QED
  BY <1>3, <1>4, <1>5, <1>6 DEF OwnInv

LEMMA ListOwn ==
  ASSUME TypeInv, OwnInv, ListStale \/ ReconcilerCrash
  PROVE  OwnInv'
<1>1. UNCHANGED <<jobs, pc, held, token>>
  BY DEF ListStale, ReconcilerCrash, own
<1>2. \A j \in JobIds : stale'[j] # "no" => Stale(j)
  BY DEF ListStale, ReconcilerCrash
<1> QED
  BY <1>1, <1>2 DEF OwnInv, Owned, Distinct, OneLive, ListedFree, Active, Stale

\* The reconciler changes a job only while nobody works on it.
LEMMA HandleOwn ==
  ASSUME TypeInv, OwnInv, NEW j \in JobIds, Handle(j)
  PROVE  OwnInv'
<1>1. Stale(j) /\ UNCHANGED <<pc, held, token>>
  BY DEF Handle, InspectStale, RequeueStale, RecoverInterrupted, FinishRecovered, OwnInv, ListedFree, own
<1>2. \A v \in Executors : Active(v) => held[v] \in JobIds \ {j}
  BY <1>1, Here DEF OwnInv, Owned, Stale
<1>3. /\ jobs'[j].task = jobs[j].task
      /\ jobs'[j].status \in LiveStatus => jobs[j].status \in LiveStatus
      /\ \A i \in JobIds \ {j} : jobs'[i] = jobs[i]
  BY <1>1 DEF Handle, InspectStale, RequeueStale, RecoverInterrupted, FinishRecovered,
              RequeueRunJob, FinishRunJob, TypeInv, QueueTypeOK, JobRow, Stale, LiveStatus
<1>4. \/ UNCHANGED jobs /\ \A i \in JobIds : stale'[i] # "no" => stale[i] # "no"
      \/ stale'[j] = "no" /\ \A i \in JobIds \ {j} : stale'[i] = stale[i]
  <2>1. stale \in [JobIds -> {"no", "requeue", "inspect", "recover", "finish"}]
    BY DEF TypeInv, RestOK
  <2> QED
    BY <2>1 DEF Handle, InspectStale, RequeueStale, RecoverInterrupted, FinishRecovered
<1>5. Owned'
  BY <1>1, <1>2, <1>3 DEF OwnInv, Owned, Active
<1>6. Distinct'
  BY <1>1 DEF OwnInv, Distinct, Active
<1>7. OneLive'
  <2>1. ASSUME NEW i \in JobIds
        PROVE  jobs'[i].task = jobs[i].task /\ (jobs'[i].status \in LiveStatus => jobs[i].status \in LiveStatus)
    BY <1>3
  <2> QED
    BY <2>1 DEF OwnInv, OneLive
<1>8. ListedFree'
  BY <1>3, <1>4 DEF OwnInv, ListedFree, Stale
<1> QED
  BY <1>5, <1>6, <1>7, <1>8 DEF OwnInv

\* A new row is inserted only when no other job of its task is live.
LEMMA EnqueueOwn ==
  ASSUME TypeInv, OwnInv, NEW t \in Tasks, EnqueueRun(t), UNCHANGED <<pc, held, token, stale>>
  PROVE  OwnInv'
<1>1. CASE UNCHANGED jobs
  BY <1>1 DEF OwnInv, Owned, Distinct, OneLive, ListedFree, Active, Stale
<1>2. CASE LiveJobs(t) = {} /\ ~ UNCHANGED jobs
  <2>1. PICK j \in JobIds :
          /\ jobs[j].status = "absent"
          /\ jobs' = [jobs EXCEPT ![j] = [task |-> t, status |-> "queued",
                                          attempts |-> 0, lease |-> "none"]]
    BY <1>2 DEF EnqueueRun
  <2>2. jobs'[j].task = t /\ \A i \in JobIds \ {j} : jobs'[i] = jobs[i]
    BY <2>1 DEF TypeInv, QueueTypeOK
  <2>3. \A v \in Executors : Active(v) => held[v] \in JobIds \ {j}
    BY <2>1, Here
  <2>4. Owned' /\ Distinct'
    BY <2>2, <2>3 DEF OwnInv, Owned, Distinct, Active
  <2>5. OneLive'
    <3>1. \A i \in JobIds : jobs[i].task = t => jobs[i].status \notin LiveStatus
      BY <1>2 DEF LiveJobs
    <3> QED
      BY <2>2, <3>1 DEF OwnInv, OneLive
  <2>6. ListedFree'
    BY <2>1, <2>2 DEF OwnInv, ListedFree, Stale
  <2> QED
    BY <2>4, <2>5, <2>6 DEF OwnInv
<1> QED
  BY <1>1, <1>2 DEF EnqueueRun

LEMMA UserOwn ==
  ASSUME TypeInv, OwnInv, NEW t \in Tasks, User(t)
  PROVE  OwnInv'
<1>1. UNCHANGED <<pc, held, token, stale>> /\ (UNCHANGED jobs \/ EnqueueRun(t))
  BY DEF User, RunTask, RerunRead, RerunLookup, RerunCommit, CancelRead, CancelCommit,
         MarkRead, MarkCommit, SettleRead, SettleCommit, own
<1>2. CASE UNCHANGED jobs
  BY <1>1, <1>2 DEF OwnInv, Owned, Distinct, OneLive, ListedFree, Active, Stale
<1> QED
  BY <1>1, <1>2, EnqueueOwn

-----------------------------------------------------------------------------
LEMMA OwnNext ==
  ASSUME Timely, TypeInv, OwnInv, [Next]_vars
  PROVE  OwnInv'
<1>1. ASSUME NEW w \in Executors, ClaimNext(w) \/ ClaimForTask(w) PROVE OwnInv'
  BY <1>1, ClaimOwn DEF ClaimNext, ClaimForTask, Offered, Timely
<1>2. ASSUME NEW w \in Executors, Work(w) PROVE OwnInv'
  BY <1>2, ReadTokenOwn, FinishJobOwn, LeaseStepOwn, WorkMoves, MovesOwn DEF Work
<1>3. ASSUME NEW w \in Executors, Throw(w) \/ SwallowApply(w) PROVE OwnInv'
  BY <1>3, WorkMoves, MovesOwn
<1>4. ASSUME NEW w \in Executors, Crash(w) PROVE OwnInv'
  BY <1>4, ReleaseOwn DEF Crash
<1>5. ASSUME NEW j \in JobIds, ExpireOrphan(j) PROVE OwnInv'
  BY <1>5, OrphanOwn DEF ExpireOrphan, own
<1>6. ASSUME NEW j \in JobIds PROVE ~ ExpireHeld(j)
  BY DEF ExpireHeld, Fault, Timely
<1>7. CASE UNCHANGED vars
  BY <1>7 DEF vars, OwnInv, Owned, Distinct, OneLive, ListedFree, Active, Stale
<1> QED
  BY <1>1, <1>2, <1>3, <1>4, <1>5, <1>6, <1>7, HandleOwn, ListOwn, UserOwn DEF Next

\* At most one executor works on a task at a time, and what it believes about
\* its claim is true, for any number of executors, jobs, runs and crashes and
\* whatever users ask for, as long as leases and lists are timely.
THEOREM Exclusive == Timely => (Spec => []ExclusiveExecutor)
<1> SUFFICES ASSUME Timely PROVE Spec => []ExclusiveExecutor
  OBVIOUS
<1>1. Init => TypeInv /\ OwnInv
  BY TypeInit, OwnInit
<1>2. (TypeInv /\ OwnInv) /\ [Next]_vars => (TypeInv /\ OwnInv)'
  BY RunAssumption, TypeNext, OwnNext
<1>3. TypeInv /\ OwnInv => ExclusiveExecutor
  BY OwnInvImplies
<1> QED
  BY <1>1, <1>2, <1>3, PTL DEF Spec

-----------------------------------------------------------------------------
(* Replies, whatever goes wrong: every checkpointed reply is billed exactly once and nothing *)
(* else is, no checkpointed reply is replaced and no result taken back.  Crashes, stalls,    *)
(* stale lists, unexpected errors and several executors at work on the same run are all      *)
(* allowed.                                                                                  *)
(*                                                                                           *)
(* The bill of an engine step is guarded by the row of the step, not by its checkpoint, so   *)
(* the first invariant says that a checkpoint comes with its row; and a reply on its way to  *)
(* the database must be one of the calls that were made.                                     *)

\* A checkpoint of the engine comes with the row of its step.
RowKept ==
  \A r \in RunIds, s \in EngineSteps : ckpt[r][s] # NoReply => row[r][s] # "none"

\* Where an executor may hold a reply that is not in the database yet.
Bringing == {"persist", "extLease"}

\* The reply was given by a call; an extraction has one.
InHand ==
  \A w \in Executors :
    pc[w] \in Bringing =>
      /\ ctx[w].reply.call <= calls[RunOf(w)][ctx[w].step]
      /\ Extracting(w) => ctx[w].reply # NoReply

BillInv == BillingExact /\ RowKept /\ InHand

LEMMA BillInit == Init => BillInv
BY DEF Init, BillInv, BillingExact, RowKept, InHand, NoReply, EngineSteps, Steps, Bringing

-----------------------------------------------------------------------------
(* Steps that leave replies, rows, bills and calls alone. *)

Quiet ==
  /\ UNCHANGED <<row, ckpt, bill, calls>>
  /\ \A v \in Executors :
       pc'[v] \in Bringing => pc[v] \in Bringing /\ ctx'[v] = ctx[v]

LEMMA QuietBill == ASSUME BillInv, Quiet PROVE BillInv'
<1>1. BillingExact' /\ RowKept'
  BY DEF BillInv, Quiet, BillingExact, RowKept
<1>2. InHand'
  BY DEF BillInv, Quiet, InHand, Extracting, RunOf
<1> QED
  BY <1>1, <1>2 DEF BillInv

LEMMA GotoQuiet ==
  ASSUME TypeInv, NEW w \in Executors, NEW l, NEW c, Goto(w, l, c), l \notin Bringing,
         UNCHANGED <<row, ckpt, bill, calls>>
  PROVE  Quiet
BY DEF TypeInv, ExecOK, Goto, Quiet

LEMMA ReleaseQuiet ==
  ASSUME TypeInv, NEW w \in Executors, Release(w), UNCHANGED <<row, ckpt, bill, calls>>
  PROVE  Quiet
BY DEF TypeInv, ExecOK, Release, Quiet, Bringing

LEMMA StillQuiet ==
  ASSUME UNCHANGED <<row, ckpt, bill, calls, pc, ctx>> PROVE Quiet
BY DEF Quiet

LEMMA WorkQuiet ==
  ASSUME TypeInv, NEW w \in Executors,
         \/ ReadTask(w) \/ PreflightCheck(w) \/ PreflightCommit(w) \/ Resume(w)
         \/ LoadStep(w) \/ GuardCheck(w) \/ GuardCommit(w)
         \/ DecideExtraction(w) \/ LoadExtraction(w) \/ RejectExtraction(w)
         \/ FinalizeCheck(w) \/ FinalizeCommit(w) \/ CompleteRun(w)
         \/ CloseCheck(w) \/ CloseCommit(w)
         \/ Throw(w) \/ SwallowApply(w)
  PROVE  Quiet
<1> USE GotoQuiet DEF Close, Finish, NextStep, NextExtraction, db, Bringing
<1>1. CASE ReadTask(w) \/ PreflightCheck(w)
  BY <1>1 DEF ReadTask, PreflightCheck
<1>6. CASE PreflightCommit(w)
  <2>1. PICK r \in RunIds, plan \in Plans :
          Goto(w, "load", [NoCtx EXCEPT !.run = r, !.step = 1, !.reviewer = plan = "pinned"])
    BY <1>6 DEF PreflightCommit
  <2>2. UNCHANGED <<row, ckpt, bill, calls>>
    BY <1>6 DEF PreflightCommit
  <2> QED
    BY <2>1, <2>2
<1>7. CASE Resume(w)
  <2>1. \E l, c : l \notin Bringing /\ Goto(w, l, c)
    BY <1>7 DEF Resume
  <2>2. UNCHANGED <<row, ckpt, bill, calls>>
    BY <1>7 DEF Resume
  <2> QED
    BY <2>1, <2>2
<1>2. CASE LoadStep(w) \/ GuardCheck(w) \/ GuardCommit(w)
  BY <1>2 DEF LoadStep, GuardCheck, GuardCommit
<1>3. CASE DecideExtraction(w) \/ LoadExtraction(w) \/ RejectExtraction(w)
  BY <1>3 DEF DecideExtraction, LoadExtraction, RejectExtraction
<1>4. CASE FinalizeCheck(w) \/ FinalizeCommit(w) \/ CompleteRun(w) \/ CloseCheck(w) \/ CloseCommit(w)
  BY <1>4 DEF FinalizeCheck, FinalizeCommit, CompleteRun, CloseCheck, CloseCommit
<1>5. CASE Throw(w) \/ SwallowApply(w)
  BY <1>5 DEF Throw, SwallowApply
<1> QED
  BY <1>1, <1>2, <1>3, <1>4, <1>5, <1>6, <1>7

LEMMA ClaimQuiet ==
  ASSUME TypeInv, NEW w \in Executors, NEW j, Claim(w, j) PROVE Quiet
BY DEF TypeInv, ExecOK, Claim, Quiet, db, Bringing

LEMMA TokenQuiet ==
  ASSUME TypeInv, NEW w \in Executors, ReadToken(w) PROVE Quiet
BY DEF TypeInv, ExecOK, ReadToken, Quiet, db, Bringing

LEMMA FinishQuiet ==
  ASSUME TypeInv, NEW w \in Executors, FinishJob(w) PROVE Quiet
BY ReleaseQuiet DEF FinishJob, db

\* The lease check of an extraction keeps the reply it holds.
LEMMA LeaseQuiet ==
  ASSUME TypeInv, NEW w \in Executors, CheckLease(w) \/ ApplyExtraction(w) PROVE Quiet
<1>1. UNCHANGED <<row, ckpt, bill, calls>>
  BY DEF CheckLease, ApplyExtraction, db
<1>2. CASE Release(w)
  BY <1>1, <1>2, ReleaseQuiet
<1>3. CASE CheckLease(w) /\ Goto(w, LeaseNext[pc[w]], ctx[w])
  <2>1. CASE pc[w] = "extLease"
    <3>1. \A v \in Executors : ctx'[v] = ctx[v]
      BY <1>3 DEF Goto, TypeInv, ExecOK
    <3>2. \A v \in Executors \ {w} : pc'[v] = pc[v]
      BY <1>3 DEF Goto, TypeInv, ExecOK
    <3> QED
      BY <1>1, <2>1, <3>1, <3>2 DEF Quiet, Bringing
  <2>2. CASE pc[w] # "extLease"
    <3>1. LeaseNext[pc[w]] \notin Bringing
      BY <1>3, <2>2 DEF CheckLease, LeaseNext, Bringing
    <3> QED
      BY <1>1, <1>3, <3>1, GotoQuiet
  <2> QED
    BY <2>1, <2>2
<1>4. CASE ApplyExtraction(w) /\ NextExtraction(w, ctx[w].step)
  BY <1>1, <1>4, GotoQuiet DEF NextExtraction, Bringing
<1> QED
  BY <1>2, <1>3, <1>4 DEF CheckLease, ApplyExtraction

-----------------------------------------------------------------------------
(* Steps that call, store and bill. *)

LEMMA CallBill ==
  ASSUME TypeInv, BillInv, NEW w \in Executors, CallProvider(w)
  PROVE  BillInv'
<1> DEFINE r == RunOf(w)
           s == ctx[w].step
           executed == [calls EXCEPT ![r][s] = @ + 1]
<1>1. r \in RunIds /\ s \in Steps /\ ctx[w] \in Ctx
  BY InAStep DEF CallProvider, InStep
<1>2. calls \in [RunIds -> [Steps -> Nat]]
  BY DEF TypeInv, DbOK
<1>3. executed[r][s] \in Nat /\ executed[r][s] >= 1
  BY <1>1, <1>2
<1>4. \A q \in RunIds, t \in Steps : calls[q][t] <= executed[q][t]
  BY <1>1, <1>2
<1>5. calls' \in {calls, executed} /\ UNCHANGED <<row, ckpt, bill>>
  BY DEF CallProvider
<1>6. \A q \in RunIds, t \in Steps : calls[q][t] <= calls'[q][t] /\ calls'[q][t] \in Nat
  BY <1>1, <1>2, <1>4, <1>5
<1>7. BillingExact' /\ RowKept'
  <2>1. ckpt \in [RunIds -> [Steps -> Reply]]
    BY DEF TypeInv, DbOK
  <2>2. \A q \in RunIds, t \in Steps : ckpt[q][t].call \in Nat
    BY <2>1 DEF Reply
  <2> QED
    BY <1>2, <1>5, <1>6, <2>2 DEF BillInv, BillingExact, RowKept
<1>8. InHand'
  <2> SUFFICES ASSUME NEW v \in Executors, pc'[v] \in Bringing
               PROVE  /\ ctx'[v].reply.call <= calls'[ctx'[v].run][ctx'[v].step]
                      /\ ctx'[v].step \in Extractions => ctx'[v].reply # NoReply
    BY DEF InHand, RunOf, Extracting
  <2>1. CASE v # w
    <3>1. pc'[v] = pc[v] /\ ctx'[v] = ctx[v]
      BY <2>1 DEF CallProvider, Close, Goto, TypeInv, ExecOK
    <3>2. pc[v] \in InStep
      BY <3>1 DEF Bringing, InStep
    <3>3. RunOf(v) \in RunIds /\ ctx[v].step \in Steps /\ ctx[v].reply.call \in Nat
      BY <3>2, InAStep DEF Ctx, Reply
    <3>4. ctx[v].reply.call <= calls[RunOf(v)][ctx[v].step]
      BY <3>1 DEF BillInv, InHand
    <3> QED
      BY <1>2, <1>6, <3>1, <3>3, <3>4 DEF BillInv, InHand, RunOf, Extracting
  <2>2. CASE v = w
    <3>1. ASSUME NEW kind,
                 calls' = executed,
                 Goto(w, IF Extracting(w) THEN "extLease" ELSE "persist",
                      [ctx[w] EXCEPT !.reply = [call |-> executed[r][s], kind |-> kind]])
          PROVE  /\ ctx'[w].reply.call <= calls'[ctx'[w].run][ctx'[w].step]
                 /\ ctx'[w].reply # NoReply
      <4> HIDE DEF executed
      <4>1. ctx'[w] = [ctx[w] EXCEPT !.reply = [call |-> executed[r][s], kind |-> kind]]
        BY <3>1 DEF Goto, TypeInv, ExecOK
      <4>2. /\ ctx'[w].run = r /\ ctx'[w].step = s
            /\ ctx'[w].reply = [call |-> executed[r][s], kind |-> kind]
        BY <1>1, <4>1 DEF Ctx, RunOf
      <4> QED
        BY <1>3, <3>1, <4>2 DEF NoReply
    <3>2. ASSUME calls' = calls,
                 Goto(w, IF Extracting(w) THEN "extReject" ELSE "persist",
                      [ctx[w] EXCEPT !.reply = NoReply])
          PROVE  /\ ctx'[w].reply.call <= calls'[ctx'[w].run][ctx'[w].step]
                 /\ ctx'[w].step \notin Extractions
      <4>1. ctx'[w] = [ctx[w] EXCEPT !.reply = NoReply]
        BY <3>2 DEF Goto, TypeInv, ExecOK
      <4>2. ctx'[w].run = r /\ ctx'[w].step = s /\ ctx'[w].reply = NoReply
        BY <1>1, <4>1 DEF Ctx, RunOf
      <4>3. ~ Extracting(w)
        BY <2>2, <3>2 DEF Goto, TypeInv, ExecOK, Bringing
      <4> QED
        BY <1>1, <1>2, <3>2, <4>2, <4>3 DEF NoReply, Extracting
    <3>3. ~ Close(w, "reconciliation_required")
      BY <2>2 DEF Close, Goto, TypeInv, ExecOK, Bringing
    <3> QED
      BY <2>2, <3>1, <3>2, <3>3 DEF CallProvider
  <2> QED
    BY <2>1, <2>2
<1> QED
  BY <1>7, <1>8 DEF BillInv

\* A reply that takes an empty slot is billed once.
LEMMA StoreBill ==
  ASSUME TypeInv, BillInv, NEW r \in RunIds, NEW s \in Steps, NEW reply \in Reply,
         ckpt[r][s] = NoReply, reply # NoReply, reply.call <= calls[r][s],
         ckpt' = [ckpt EXCEPT ![r][s] = reply],
         bill' = [bill EXCEPT ![r][s] = @ + 1],
         UNCHANGED calls
  PROVE  BillingExact'
<1>1. ckpt \in [RunIds -> [Steps -> Reply]] /\ bill \in [RunIds -> [Steps -> Nat]]
  BY DEF TypeInv, DbOK
<1>2. bill[r][s] = 0
  BY DEF BillInv, BillingExact
<1>3. ckpt'[r][s] = reply /\ bill'[r][s] = 1
  BY <1>1, <1>2
<1>4. \A q \in RunIds, t \in Steps :
        <<q, t>> # <<r, s>> => ckpt'[q][t] = ckpt[q][t] /\ bill'[q][t] = bill[q][t]
  BY <1>1
<1> QED
  BY <1>3, <1>4 DEF BillInv, BillingExact

\* The executor that stored its reply goes on without it.
LEMMA HandedOver ==
  ASSUME TypeInv, BillInv, NEW w \in Executors, NEW l, NEW c, Goto(w, l, c),
         l \notin Bringing, UNCHANGED calls
  PROVE  InHand'
<1>1. ASSUME NEW v \in Executors, pc'[v] \in Bringing
      PROVE  pc'[v] = pc[v] /\ ctx'[v] = ctx[v]
  BY <1>1 DEF TypeInv, ExecOK, Goto
<1> QED
  BY <1>1 DEF BillInv, InHand, Extracting, RunOf

LEMMA PersistStepBill ==
  ASSUME RunAssumption, TypeInv, BillInv, NEW w \in Executors, PersistStep(w)
  PROVE  BillInv'
<1> DEFINE r == RunOf(w)
           s == ctx[w].step
           reply == ctx[w].reply
           mark == IF Fresh(reply) # NoReply THEN "answered" ELSE "failed"
<1>1. r \in RunIds /\ s \in Steps /\ s \in EngineSteps
  BY InAStep DEF PersistStep, InStep, Extracting, EngineSteps
<1>2. ckpt \in [RunIds -> [Steps -> Reply]]
      /\ row \in [RunIds -> [Steps -> {"none", "answered", "failed", "consolidated"}]]
  BY DEF TypeInv, DbOK
<1>3. InHand'
  BY HandedOver DEF PersistStep, NextStep, Bringing
<1>4. CASE row[r][s] # "none"
  BY <1>3, <1>4 DEF PersistStep, BillInv, BillingExact, RowKept
<1>5. CASE row[r][s] = "none"
  <2>1. ckpt[r][s] = NoReply
    BY <1>1, <1>5 DEF BillInv, RowKept
  <2>2. row' = [row EXCEPT ![r][s] = mark] /\ mark # "none" /\ UNCHANGED calls
    BY <1>5 DEF PersistStep
  <2> HIDE DEF mark
  <2>3. row'[r][s] # "none"
        /\ \A q \in RunIds, t \in Steps : row[q][t] # "none" => row'[q][t] # "none"
    BY <1>1, <1>2, <2>2
  <2>4. CASE reply = NoReply
    <3>1. UNCHANGED <<ckpt, bill, calls>>
      BY <1>5, <2>4 DEF PersistStep
    <3>2. RowKept'
      BY <2>3, <3>1 DEF BillInv, RowKept, Steps
    <3> QED
      BY <1>3, <3>1, <3>2 DEF BillInv, BillingExact
  <2>5. CASE reply # NoReply
    <3>1. ckpt' = [ckpt EXCEPT ![r][s] = reply] /\ bill' = [bill EXCEPT ![r][s] = @ + 1]
      BY <1>5, <2>5 DEF PersistStep
    <3>2. reply.call <= calls[r][s]
      BY DEF PersistStep, BillInv, InHand, Bringing
    <3>3. BillingExact'
      <4>1. reply \in Reply
        BY InAStep DEF PersistStep, InStep, Ctx
      <4> HIDE DEF r, s, reply
      <4> QED
        BY <1>1, <2>1, <2>2, <2>5, <3>1, <3>2, <4>1, StoreBill
    <3>4. RowKept'
      BY <1>1, <1>2, <2>3, <3>1 DEF BillInv, RowKept, Steps
    <3> QED
      BY <1>3, <3>3, <3>4 DEF BillInv
  <2> QED
    BY <2>4, <2>5
<1> QED
  BY <1>4, <1>5

LEMMA ConsolidateBill ==
  ASSUME TypeInv, BillInv, NEW w \in Executors, Consolidate(w)
  PROVE  BillInv'
<1> DEFINE r == RunOf(w)
           s == ctx[w].step
<1>1. row \in [RunIds -> [Steps -> {"none", "answered", "failed", "consolidated"}]]
  BY DEF TypeInv, DbOK
<1>2. row' = (IF row[r][s] = "none" THEN [row EXCEPT ![r][s] = "consolidated"] ELSE row)
      /\ UNCHANGED <<ckpt, bill, calls>>
  BY DEF Consolidate
<1>3. \A q \in RunIds, t \in Steps : row[q][t] # "none" => row'[q][t] # "none"
  BY <1>1, <1>2
<1>4. InHand'
  BY <1>2, HandedOver DEF Consolidate, Bringing
<1> QED
  BY <1>2, <1>3, <1>4 DEF BillInv, BillingExact, RowKept, Steps

LEMMA PersistExtractionBill ==
  ASSUME RunAssumption, TypeInv, BillInv, NEW w \in Executors, PersistExtraction(w)
  PROVE  BillInv'
<1> DEFINE r == RunOf(w)
           x == ctx[w].step
<1>1. r \in RunIds /\ x \in Steps /\ x \notin EngineSteps
  BY InAStep DEF PersistExtraction, InStep, Extracting, EngineSteps, RunAssumption
<1>2. ckpt \in [RunIds -> [Steps -> Reply]]
  BY DEF TypeInv, DbOK
<1>3. UNCHANGED <<row, calls>>
  BY DEF PersistExtraction
<1>4. CASE ckpt[r][x] # NoReply
  <2>1. UNCHANGED <<row, ckpt, bill, calls>>
    BY <1>4 DEF PersistExtraction
  <2>2. InHand'
    BY <1>4, <2>1, HandedOver DEF PersistExtraction, Finish, Bringing
  <2> QED
    BY <2>1, <2>2 DEF BillInv, BillingExact, RowKept
<1>5. CASE ckpt[r][x] = NoReply
  <2>1. /\ ckpt' = [ckpt EXCEPT ![r][x] = ctx[w].reply]
        /\ bill' = [bill EXCEPT ![r][x] = @ + 1]
        /\ Goto(w, "apply", ctx[w])
    BY <1>5 DEF PersistExtraction
  <2>2. ctx[w].reply # NoReply /\ ctx[w].reply.call <= calls[r][x]
    BY DEF PersistExtraction, BillInv, InHand, Bringing
  <2>3. BillingExact'
    <3>1. ctx[w].reply \in Reply
      BY InAStep DEF PersistExtraction, InStep, Ctx
    <3>2. UNCHANGED calls
      BY <1>3
    <3> DEFINE reply == ctx[w].reply
    <3>3. ckpt' = [ckpt EXCEPT ![r][x] = reply] /\ bill' = [bill EXCEPT ![r][x] = @ + 1]
      BY <2>1
    <3>4. reply \in Reply /\ reply # NoReply /\ reply.call <= calls[r][x]
      BY <2>2, <3>1
    <3> HIDE DEF r, x, reply
    <3> QED
      BY <1>1, <1>5, <3>2, <3>3, <3>4, StoreBill
  <2>4. \A q \in RunIds, t \in EngineSteps : ckpt'[q][t] = ckpt[q][t]
    BY <1>1, <1>2, <2>1 DEF Steps
  <2>5. RowKept'
    BY <1>3, <2>4 DEF BillInv, RowKept
  <2>6. InHand'
    BY <1>3, <2>1, HandedOver DEF Bringing
  <2> QED
    BY <2>3, <2>5, <2>6 DEF BillInv
<1> QED
  BY <1>4, <1>5

-----------------------------------------------------------------------------
(* Every step. *)

LEMMA ElsewhereQuiet ==
  ASSUME \/ \E j \in JobIds : ExpireOrphan(j) \/ ExpireHeld(j) \/ Handle(j)
         \/ ListStale \/ ReconcilerCrash
         \/ \E t \in Tasks : User(t)
         \/ UNCHANGED vars
  PROVE  Quiet
<1> USE StillQuiet DEF db, vars
<1>1. CASE \E j \in JobIds : ExpireOrphan(j) \/ ExpireHeld(j)
  BY <1>1 DEF ExpireOrphan, ExpireHeld
<1>2. CASE \E j \in JobIds : Handle(j)
  BY <1>2 DEF Handle, InspectStale, RequeueStale, RecoverInterrupted, FinishRecovered
<1>3. CASE ListStale \/ ReconcilerCrash
  BY <1>3 DEF ListStale, ReconcilerCrash
<1>4. CASE \E t \in Tasks : User(t)
  BY <1>4 DEF User, RunTask, RerunRead, RerunLookup, RerunCommit, CancelRead, CancelCommit,
              MarkRead, MarkCommit, SettleRead, SettleCommit
<1>5. CASE UNCHANGED vars
  BY <1>5
<1> QED
  BY <1>1, <1>2, <1>3, <1>4, <1>5

LEMMA BillNext ==
  ASSUME RunAssumption, TypeInv, BillInv, [Next]_vars PROVE BillInv'
<1>1. ASSUME NEW w \in Executors, ClaimNext(w) \/ ClaimForTask(w)
      PROVE  BillInv'
  BY <1>1, ClaimQuiet, QuietBill DEF ClaimNext, ClaimForTask
<1>2. ASSUME NEW w \in Executors, Work(w)
      PROVE  BillInv'
  <2>1. CASE CallProvider(w)
    BY <2>1, CallBill
  <2>2. CASE PersistStep(w)
    BY <2>2, PersistStepBill
  <2>3. CASE Consolidate(w)
    BY <2>3, ConsolidateBill
  <2>4. CASE PersistExtraction(w)
    BY <2>4, PersistExtractionBill
  <2>5. CASE ReadToken(w) \/ FinishJob(w) \/ CheckLease(w) \/ ApplyExtraction(w)
    BY <2>5, TokenQuiet, FinishQuiet, LeaseQuiet, QuietBill
  <2>6. CASE \/ ReadTask(w) \/ PreflightCheck(w) \/ PreflightCommit(w) \/ Resume(w)
             \/ LoadStep(w) \/ GuardCheck(w) \/ GuardCommit(w)
             \/ DecideExtraction(w) \/ LoadExtraction(w) \/ RejectExtraction(w)
             \/ FinalizeCheck(w) \/ FinalizeCommit(w) \/ CompleteRun(w)
             \/ CloseCheck(w) \/ CloseCommit(w)
    BY <2>6, WorkQuiet, QuietBill
  <2> QED
    BY <1>2, <2>1, <2>2, <2>3, <2>4, <2>5, <2>6 DEF Work
<1>3. ASSUME NEW w \in Executors, Crash(w) \/ Throw(w) \/ SwallowApply(w)
      PROVE  BillInv'
  <2>1. CASE Crash(w)
    BY <2>1, ReleaseQuiet, QuietBill DEF Crash, db
  <2>2. CASE Throw(w) \/ SwallowApply(w)
    BY <2>2, WorkQuiet, QuietBill
  <2> QED
    BY <1>3, <2>1, <2>2
<1>4. CASE \/ \E j \in JobIds : ExpireOrphan(j) \/ ExpireHeld(j) \/ Handle(j)
           \/ ListStale \/ ReconcilerCrash
           \/ \E t \in Tasks : User(t)
           \/ UNCHANGED vars
  BY <1>4, ElsewhereQuiet, QuietBill
<1> QED
  BY <1>1, <1>2, <1>3, <1>4 DEF Next

\* Usage is recorded exactly once for every checkpointed reply, for nothing
\* else, and only for calls that were made: persistStep and the extraction
\* checkpoint of runner.ts.  Nothing is assumed of leases, faults or users.
THEOREM BilledExactly == Spec => []BillingExact
<1>1. Init => TypeInv /\ BillInv
  BY TypeInit, BillInit
<1>2. TypeInv /\ BillInv /\ [Next]_vars => (TypeInv /\ BillInv)'
  BY RunAssumption, TypeNext, BillNext
<1>3. TypeInv /\ BillInv => BillingExact
  BY DEF BillInv
<1> QED
  BY <1>1, <1>2, <1>3, PTL DEF Spec

-----------------------------------------------------------------------------
(* Replies and results are final.                                          *)
(*                                                                         *)
(* A result is made of the replies the executor has got, so it is one only *)
(* if the primary has answered: beyond step 1 every executor holds its     *)
(* answer, which is never taken for an empty one.                          *)

Speaks(reply) == reply.kind \in {"text", "proposal"}

\* The labels of a run up to its finalization, and those past the engine's steps.
Stepping == {"load", "lease", "guard", "guardCommit", "call", "persist"}
Ending == {"decide", "extLease", "extReject", "apply", "finLease", "finalize",
           "finalizeCommit", "complete"}

\* What an executor at label l has got when its memory is c.
Knows(l, c) ==
  /\ l \in Ending => c.step # 1
  /\ l \in Stepping \cup Ending /\ c.step # 1 => c.got[1] # NoReply
  /\ l = "persist" /\ c.step = 1 /\ c.reply # NoReply => Speaks(c.reply)

Known == \A w \in Executors : Knows(pc[w], ctx[w])

FirstSpeaks == \A r \in RunIds : ckpt[r][1] # NoReply => Speaks(ckpt[r][1])

\* Whoever works on a run works on a row of runs; the other rows are blank.
Inserted == \A w \in Executors : pc[w] \in HasRun => runs[RunOf(w)].status # "absent"
Blank == \A r \in RunIds : runs[r].status = "absent" => runs[r] = NoRun

ReplyInv == Known /\ FirstSpeaks /\ Inserted /\ Blank

-----------------------------------------------------------------------------
(* Steps. *)

LEMMA StepNumbers ==
  ASSUME RunAssumption
  PROVE  /\ 1 \in Steps /\ 2 \in Steps /\ 3 \in Steps /\ 4 \in Steps
         /\ \A s \in Steps : s \in Nat /\ (s \notin Extractions => s \in 1 .. 4)
         /\ \A x \in Extractions : x \in Steps /\ x > 4 /\ x \notin EngineSteps
<1>1. \A x \in Extractions : x = 101 \/ x = 102
  BY DEF RunAssumption
<1> QED
  BY <1>1 DEF Steps, EngineSteps

-----------------------------------------------------------------------------
(* Moves of an executor. *)

\* Where an executor goes, and that nobody else moves.
LEMMA Gone ==
  ASSUME TypeInv, NEW w \in Executors, NEW l, NEW c, Goto(w, l, c)
  PROVE  /\ pc'[w] = l /\ ctx'[w] = c
         /\ \A v \in Executors \ {w} : pc'[v] = pc[v] /\ ctx'[v] = ctx[v]
         /\ UNCHANGED <<held, token>>
BY DEF TypeInv, ExecOK, Goto, own

LEMMA Released ==
  ASSUME TypeInv, NEW w \in Executors, Release(w)
  PROVE  /\ pc'[w] = "idle" /\ ctx'[w] = NoCtx
         /\ \A v \in Executors \ {w} :
              pc'[v] = pc[v] /\ ctx'[v] = ctx[v] /\ held'[v] = held[v] /\ token'[v] = token[v]
BY DEF TypeInv, ExecOK, Release

LEMMA Claimed ==
  ASSUME TypeInv, NEW w \in Executors, NEW j \in JobIds, Claim(w, j)
  PROVE  /\ pc[w] = "idle" /\ pc'[w] = "token" /\ ctx'[w] = ctx[w] /\ held'[w] = j
         /\ \A v \in Executors \ {w} :
              pc'[v] = pc[v] /\ ctx'[v] = ctx[v] /\ held'[v] = held[v]
         /\ UNCHANGED db
BY DEF TypeInv, ExecOK, Claim

\* What NextStep and NextExtraction leave in memory.
LEMMA NextStepMemory ==
  ASSUME TypeInv, NEW w \in Executors, pc[w] \in HasRun, ctx[w].step \in 1 .. 3,
         NEW reply \in Reply, NextStep(w, reply)
  PROVE  /\ pc'[w] = "load"
         /\ ctx'[w].step = ctx[w].step + 1 /\ ctx'[w].run = ctx[w].run
         /\ ctx'[w].reviewer = ctx[w].reviewer /\ ctx'[w].reply = NoReply
         /\ ctx'[w].got = [ctx[w].got EXCEPT ![ctx[w].step] = reply]
         /\ \A e \in 1 .. 3 :
              ctx'[w].got[e] = IF e = ctx[w].step THEN reply ELSE ctx[w].got[e]
<1>1. ctx[w] \in Ctx
  BY InRun
<1> DEFINE got == [ctx[w].got EXCEPT ![ctx[w].step] = reply]
           c == [ctx[w] EXCEPT !.step = ctx[w].step + 1, !.reply = NoReply, !.got = got]
<1>2. Goto(w, "load", c)
  BY DEF NextStep
<1>3. pc'[w] = "load" /\ ctx'[w] = c
  BY <1>2, Gone
<1>4. /\ c.step = ctx[w].step + 1 /\ c.run = ctx[w].run /\ c.reviewer = ctx[w].reviewer
      /\ c.reply = NoReply /\ c.got = got
  BY <1>1 DEF Ctx
<1>5. \A e \in 1 .. 3 : got[e] = IF e = ctx[w].step THEN reply ELSE ctx[w].got[e]
  BY <1>1 DEF Ctx, Result
<1> QED
  BY <1>3, <1>4, <1>5

\* The smallest of the extractions that are left.
LEMMA LeastExtraction ==
  ASSUME RunAssumption, NEW later \in SUBSET Extractions, later # {}
  PROVE  LET x == CHOOSE x \in later : \A y \in later : x <= y
         IN x \in later /\ \A y \in later : x <= y
<1>1. \E x \in later : \A y \in later : x <= y
  <2>1. later \subseteq {101, 102}
    BY DEF RunAssumption
  <2>2. CASE 101 \in later
    <3>1. \A y \in later : 101 <= y
      BY <2>1
    <3> QED
      BY <2>2, <3>1
  <2>3. CASE 101 \notin later
    <3>1. \A y \in later : y = 102
      BY <2>1, <2>3
    <3>2. PICK z \in later : TRUE
      OBVIOUS
    <3>3. \A y \in later : z <= y
      BY <3>1
    <3> QED
      BY <3>2, <3>3
  <2> QED
    BY <2>2, <2>3
<1> QED
  BY <1>1

LEMMA NextExtractionMemory ==
  ASSUME TypeInv, RunAssumption, NEW w \in Executors, pc[w] \in HasRun,
         NEW s \in Nat, NextExtraction(w, s)
  PROVE  \/ /\ pc'[w] = "finLease" /\ ctx'[w] = ctx[w]
            /\ \A x \in Extractions : x <= s
         \/ /\ pc'[w] = "load"
            /\ ctx'[w].step \in Extractions /\ ctx'[w].step > s
            /\ \A x \in Extractions : x > s => x >= ctx'[w].step
            /\ ctx'[w].run = ctx[w].run /\ ctx'[w].reviewer = ctx[w].reviewer
            /\ ctx'[w].reply = NoReply /\ ctx'[w].got = ctx[w].got
<1>1. ctx[w] \in Ctx
  BY InRun
<1>2. \A x \in Extractions : x \in Nat
  BY DEF RunAssumption
<1> DEFINE later == {x \in Extractions : x > s}
           next == CHOOSE x \in later : \A y \in later : x <= y
           c == [ctx[w] EXCEPT !.reply = NoReply, !.step = next]
<1>3. CASE later = {}
  <2>1. Goto(w, "finLease", ctx[w])
    BY <1>3 DEF NextExtraction
  <2>2. \A x \in Extractions : x <= s
    BY <1>2, <1>3
  <2> QED
    BY <2>1, <2>2, Gone
<1>4. CASE later # {}
  <2>1. next \in later /\ \A y \in later : next <= y
    BY <1>4, LeastExtraction
  <2>2. Goto(w, "load", c)
    BY <1>4 DEF NextExtraction
  <2> HIDE DEF next
  <2>3. /\ c.step = next /\ c.run = ctx[w].run /\ c.reviewer = ctx[w].reviewer
        /\ c.reply = NoReply /\ c.got = ctx[w].got
    BY <1>1 DEF Ctx
  <2>4. pc'[w] = "load" /\ ctx'[w] = c
    BY <2>2, Gone
  <2>5. \A x \in Extractions : x > s => x >= next
    BY <1>2, <2>1
  <2>6. next \in Extractions /\ next > s
    BY <2>1
  <2> QED
    BY <2>3, <2>4, <2>5, <2>6
<1> QED
  BY <1>3, <1>4

-----------------------------------------------------------------------------
(* Rows of runs. *)

\* Nothing but the row of run r changes in runs.
OnlyRun(r) == \A q \in RunIds \ {r} : runs'[q] = runs[q]

LEMMA AdvancedRun ==
  ASSUME TypeInv, NEW r \in RunIds, NEW state \in Reliability, runs' = Advanced(r, state)
  PROVE  /\ OnlyRun(r)
         /\ runs'[r].task = runs[r].task /\ runs'[r].status = runs[r].status
         /\ runs'[r].pinned = runs[r].pinned /\ runs'[r].final = runs[r].final
         /\ runs'[r].rel = IF IsTerminal(r) THEN runs[r].rel ELSE state
<1>1. runs \in [RunIds -> RunRow] /\ runs[r] \in RunRow
  BY DEF TypeInv, DbOK
<1> QED
  BY <1>1 DEF Advanced, OnlyRun, RunRow

LEMMA MarkedRun ==
  ASSUME TypeInv, NEW r \in RunIds, NEW f, runs' = [runs EXCEPT ![r].final = f, ![r].rel = "finalizing"]
  PROVE  /\ OnlyRun(r)
         /\ runs'[r].task = runs[r].task /\ runs'[r].status = runs[r].status
         /\ runs'[r].pinned = runs[r].pinned /\ runs'[r].final = f
         /\ runs'[r].rel = "finalizing"
<1>1. runs \in [RunIds -> RunRow] /\ runs[r] \in RunRow
  BY DEF TypeInv, DbOK
<1> QED
  BY <1>1 DEF OnlyRun, RunRow

LEMMA EndedRun ==
  ASSUME TypeInv, NEW r \in RunIds, NEW status, NEW rel,
         runs' = [runs EXCEPT ![r].status = status, ![r].rel = rel]
  PROVE  /\ OnlyRun(r)
         /\ runs'[r].task = runs[r].task /\ runs'[r].status = status
         /\ runs'[r].pinned = runs[r].pinned /\ runs'[r].final = runs[r].final
         /\ runs'[r].rel = rel
<1>1. runs \in [RunIds -> RunRow] /\ runs[r] \in RunRow
  BY DEF TypeInv, DbOK
<1> QED
  BY <1>1 DEF OnlyRun, RunRow

\* The row a preflight inserts, and the memory it starts the run with.
LEMMA InsertedRun ==
  ASSUME TypeInv, NEW w \in Executors, PreflightCommit(w)
  PROVE  \E r \in RunIds, plan \in Plans :
           /\ runs[r].status = "absent" /\ OnlyRun(r)
           /\ runs'[r].task = TaskOf(w) /\ runs'[r].status = "running"
           /\ runs'[r].rel = "not_dispatched" /\ runs'[r].final = NoResult
           /\ runs'[r].pinned = (plan # "none")
           /\ tasks' = [tasks EXCEPT ![TaskOf(w)].status = "running"]
           /\ pc'[w] = "load" /\ ctx'[w].run = r /\ ctx'[w].step = 1
           /\ ctx'[w].reviewer = (plan = "pinned")
           /\ ctx'[w].got = NoResult /\ ctx'[w].reply = NoReply
           /\ \A v \in Executors \ {w} : pc'[v] = pc[v] /\ ctx'[v] = ctx[v]
           /\ UNCHANGED held
<1>1. PICK r \in RunIds, plan \in Plans :
        /\ runs[r].status = "absent"
        /\ runs' = [runs EXCEPT ![r] = [NoRun EXCEPT !.task = TaskOf(w), !.status = "running",
                                                     !.pinned = plan # "none"]]
        /\ tasks' = [tasks EXCEPT ![TaskOf(w)].status = "running"]
        /\ Goto(w, "load", [NoCtx EXCEPT !.run = r, !.step = 1, !.reviewer = plan = "pinned"])
  BY DEF PreflightCommit
<1>2. runs \in [RunIds -> RunRow]
  BY DEF TypeInv, DbOK
<1>3. OnlyRun(r) /\ runs'[r] = [NoRun EXCEPT !.task = TaskOf(w), !.status = "running",
                                             !.pinned = plan # "none"]
  BY <1>1, <1>2 DEF OnlyRun
<1>4. /\ runs'[r].task = TaskOf(w) /\ runs'[r].status = "running"
      /\ runs'[r].rel = "not_dispatched" /\ runs'[r].final = NoResult
      /\ runs'[r].pinned = (plan # "none")
  BY <1>3 DEF NoRun
<1>5. /\ pc'[w] = "load"
      /\ ctx'[w] = [NoCtx EXCEPT !.run = r, !.step = 1, !.reviewer = plan = "pinned"]
      /\ \A v \in Executors \ {w} : pc'[v] = pc[v] /\ ctx'[v] = ctx[v]
      /\ UNCHANGED held
  BY <1>1, Gone
<1>6. /\ ctx'[w].run = r /\ ctx'[w].step = 1 /\ ctx'[w].reviewer = (plan = "pinned")
      /\ ctx'[w].got = NoResult /\ ctx'[w].reply = NoReply
  BY <1>5 DEF NoCtx
<1> QED
  BY <1>1, <1>3, <1>4, <1>5, <1>6

\* What a resume does: it fails a task without a run, or takes a running run of
\* the task and closes it, or begins again at its first step.
LEMMA ResumedRun ==
  ASSUME TypeInv, NEW w \in Executors, Resume(w)
  PROVE  /\ UNCHANGED <<jobs, runs, row, ckpt, bill, ext, calls, held>>
         /\ \A v \in Executors \ {w} : pc'[v] = pc[v] /\ ctx'[v] = ctx[v]
         /\ \/ /\ RunningRuns(TaskOf(w)) = {}
               /\ tasks' = [tasks EXCEPT ![TaskOf(w)].status = "failed"]
               /\ pc'[w] = "finish"
            \/ /\ ctx'[w].run \in RunningRuns(TaskOf(w))
               /\ UNCHANGED tasks
               /\ \/ pc'[w] = "close" /\ ctx'[w].out = "failed"
                  \/ /\ pc'[w] = "load" /\ ctx'[w].step = 1
                     /\ ctx'[w].reviewer = runs[ctx'[w].run].pinned
                     /\ ctx'[w].got = NoResult /\ ctx'[w].reply = NoReply
<1>1. CASE /\ RunningRuns(TaskOf(w)) = {}
           /\ tasks' = [tasks EXCEPT ![TaskOf(w)].status = "failed"]
           /\ Finish(w, "failed")
  BY <1>1, Gone DEF Resume, Finish
<1>2. ASSUME NEW r \in RunningRuns(TaskOf(w)), UNCHANGED tasks,
             \/ Goto(w, "close", [NoCtx EXCEPT !.run = r, !.out = "failed"])
             \/ Goto(w, "load", [NoCtx EXCEPT !.run = r, !.step = 1, !.reviewer = runs[r].pinned])
      PROVE  /\ UNCHANGED held
             /\ \A v \in Executors \ {w} : pc'[v] = pc[v] /\ ctx'[v] = ctx[v]
             /\ ctx'[w].run \in RunningRuns(TaskOf(w))
             /\ \/ pc'[w] = "close" /\ ctx'[w].out = "failed"
                \/ /\ pc'[w] = "load" /\ ctx'[w].step = 1
                   /\ ctx'[w].reviewer = runs[ctx'[w].run].pinned
                   /\ ctx'[w].got = NoResult /\ ctx'[w].reply = NoReply
  <2>1. CASE Goto(w, "close", [NoCtx EXCEPT !.run = r, !.out = "failed"])
    <3> DEFINE c == [NoCtx EXCEPT !.run = r, !.out = "failed"]
    <3>1. c.run = r /\ c.out = "failed"
      BY DEF NoCtx
    <3>2. Goto(w, "close", c)
      BY <2>1
    <3> HIDE DEF c
    <3> QED
      BY <1>2, <3>1, <3>2, Gone
  <2>2. CASE Goto(w, "load", [NoCtx EXCEPT !.run = r, !.step = 1, !.reviewer = runs[r].pinned])
    <3> DEFINE c == [NoCtx EXCEPT !.run = r, !.step = 1, !.reviewer = runs[r].pinned]
    <3>1. /\ c.run = r /\ c.step = 1 /\ c.reviewer = runs[r].pinned
          /\ c.got = NoResult /\ c.reply = NoReply
      BY DEF NoCtx
    <3>2. Goto(w, "load", c)
      BY <2>2
    <3> HIDE DEF c
    <3> QED
      BY <1>2, <3>1, <3>2, Gone
  <2> QED
    BY <1>2, <2>1, <2>2
<1> QED
  BY <1>1, <1>2 DEF Resume

-----------------------------------------------------------------------------
(* Replies: every step keeps the invariant. *)

LEMMA ReplyInit == Init => ReplyInv
<1> SUFFICES ASSUME Init PROVE ReplyInv
  OBVIOUS
<1>1. Known
  BY DEF Init, Known, Knows, Stepping, Ending
<1>2. FirstSpeaks
  BY DEF Init, FirstSpeaks, Steps, EngineSteps
<1>3. Inserted /\ Blank
  BY DEF Init, Inserted, Blank, HasRun
<1> QED
  BY <1>1, <1>2, <1>3 DEF ReplyInv

\* An executor moves and may change the row of its run.
LEMMA ReplyMoves ==
  ASSUME TypeInv, ReplyInv, NEW w \in Executors, UNCHANGED ckpt \/ FirstSpeaks',
         \A v \in Executors \ {w} : pc'[v] = pc[v] /\ ctx'[v] = ctx[v],
         Knows(pc'[w], ctx'[w]),
         \/ UNCHANGED runs /\ (pc'[w] \in HasRun => runs[ctx'[w].run].status # "absent")
         \/ \E r \in RunIds : /\ OnlyRun(r) /\ runs'[r].status # "absent"
                              /\ (pc'[w] \in HasRun => ctx'[w].run = r)
  PROVE  ReplyInv'
<1>1. Known'
  BY DEF ReplyInv, Known
<1>2. FirstSpeaks'
  BY DEF ReplyInv, FirstSpeaks
<1>3. ASSUME NEW v \in Executors \ {w}, pc'[v] \in HasRun
      PROVE  RunOf(v) \in RunIds /\ ctx'[v].run = RunOf(v) /\ runs[RunOf(v)].status # "absent"
  BY <1>3, InRun DEF ReplyInv, Inserted, RunOf
<1>4. CASE UNCHANGED runs /\ (pc'[w] \in HasRun => runs[ctx'[w].run].status # "absent")
  <2>1. Inserted' /\ Blank'
    BY <1>3, <1>4 DEF ReplyInv, Inserted, Blank, RunOf
  <2> QED
    BY <1>1, <1>2, <2>1 DEF ReplyInv
<1>5. ASSUME NEW r \in RunIds, OnlyRun(r), runs'[r].status # "absent",
             pc'[w] \in HasRun => ctx'[w].run = r
      PROVE  ReplyInv'
  <2>1. Inserted'
    BY <1>3, <1>5 DEF ReplyInv, Inserted, RunOf, OnlyRun
  <2>2. Blank'
    BY <1>5 DEF ReplyInv, Blank, OnlyRun
  <2> QED
    BY <1>1, <1>2, <2>1, <2>2 DEF ReplyInv
<1> QED
  BY <1>4, <1>5

\* An executor at label l that has kept its memory apart from its outcome.
Keeps(w) ==
  /\ ctx'[w].run = ctx[w].run /\ ctx'[w].step = ctx[w].step
  /\ ctx'[w].reviewer = ctx[w].reviewer
  /\ ctx'[w].got = ctx[w].got /\ ctx'[w].reply = ctx[w].reply

LEMMA Kept ==
  ASSUME TypeInv, NEW w \in Executors, pc[w] \in HasRun, NEW l,
         \/ Goto(w, l, ctx[w])
         \/ \E o : Goto(w, l, [ctx[w] EXCEPT !.out = o])
  PROVE  /\ pc'[w] = l /\ Keeps(w)
         /\ \A v \in Executors \ {w} : pc'[v] = pc[v] /\ ctx'[v] = ctx[v]
         /\ UNCHANGED <<held, token>>
<1>1. ctx[w] \in Ctx
  BY InRun
<1>2. CASE Goto(w, l, ctx[w])
  BY <1>2, Gone DEF Keeps
<1>3. ASSUME NEW o, Goto(w, l, [ctx[w] EXCEPT !.out = o])
      PROVE  /\ pc'[w] = l /\ Keeps(w)
             /\ \A v \in Executors \ {w} : pc'[v] = pc[v] /\ ctx'[v] = ctx[v]
             /\ UNCHANGED <<held, token>>
  <2> DEFINE c == [ctx[w] EXCEPT !.out = o]
  <2>1. /\ c.run = ctx[w].run /\ c.step = ctx[w].step /\ c.reviewer = ctx[w].reviewer
        /\ c.got = ctx[w].got /\ c.reply = ctx[w].reply
    BY <1>1 DEF Ctx
  <2>2. Goto(w, l, c)
    BY <1>3
  <2> HIDE DEF c
  <2>3. /\ pc'[w] = l /\ ctx'[w] = c
        /\ \A v \in Executors \ {w} : pc'[v] = pc[v] /\ ctx'[v] = ctx[v]
        /\ UNCHANGED <<held, token>>
    BY <2>2, Gone
  <2> QED
    BY <2>1, <2>3 DEF Keeps
<1> QED
  BY <1>2, <1>3

\* Keeping its memory, an executor may go on, or close or end its work.
LEMMA KeepsKnowing ==
  ASSUME ReplyInv, NEW w \in Executors, Keeps(w),
         \/ pc'[w] \notin Stepping \cup Ending
         \/ pc[w] \in Stepping /\ pc'[w] \in Stepping \ {"persist"}
         \/ pc[w] \in Ending /\ pc'[w] \in Ending \cup {"persist"}
  PROVE  Knows(pc'[w], ctx'[w])
<1>1. Knows(pc[w], ctx[w])
  BY DEF ReplyInv, Known
<1>2. Ending \cap Stepping = {} /\ "persist" \in Stepping
  BY DEF Ending, Stepping
<1> QED
  BY <1>1, <1>2 DEF Keeps, Knows

\* A step that leaves the rows alone and keeps the memory.
LEMMA KeptReply ==
  ASSUME TypeInv, ReplyInv, NEW w \in Executors, pc[w] \in HasRun, NEW l,
         \/ Goto(w, l, ctx[w])
         \/ \E o : Goto(w, l, [ctx[w] EXCEPT !.out = o]),
         \/ l \notin Stepping \cup Ending
         \/ pc[w] \in Stepping /\ l \in Stepping \ {"persist"}
         \/ pc[w] \in Ending /\ l \in Ending \cup {"persist"},
         UNCHANGED ckpt \/ FirstSpeaks',
         UNCHANGED runs \/ (OnlyRun(RunOf(w)) /\ runs'[RunOf(w)].status # "absent")
  PROVE  ReplyInv'
<1>1. /\ pc'[w] = l /\ Keeps(w)
      /\ \A v \in Executors \ {w} : pc'[v] = pc[v] /\ ctx'[v] = ctx[v]
  BY Kept
<1>2. Knows(pc'[w], ctx'[w])
  BY <1>1, KeepsKnowing
<1>3. RunOf(w) \in RunIds /\ runs[RunOf(w)].status # "absent" /\ ctx'[w].run = RunOf(w)
  BY <1>1, InRun DEF ReplyInv, Inserted, Keeps, RunOf
<1> QED
  BY <1>1, <1>2, <1>3, ReplyMoves

LEMMA IdleReply ==
  ASSUME TypeInv, ReplyInv, NEW w \in Executors, UNCHANGED <<ckpt, runs>>,
         pc'[w] \notin HasRun,
         \A v \in Executors \ {w} : pc'[v] = pc[v] /\ ctx'[v] = ctx[v]
  PROVE  ReplyInv'
<1>1. Knows(pc'[w], ctx'[w])
  BY DEF Knows, HasRun, PC, InTry, Stepping, Ending
<1> QED
  BY <1>1, ReplyMoves

LEMMA LabelsInRun ==
  /\ Stepping \cup Ending \cup {"failLease", "close", "closeCommit"} = HasRun
  /\ InStep \subseteq HasRun
  /\ Stepping \cap Ending = {}
BY DEF Stepping, Ending, HasRun, PC, InTry, InStep

LEMMA OutsideReply ==
  ASSUME TypeInv, ReplyInv, NEW w \in Executors,
         \/ \E j \in JobIds : Claim(w, j)
         \/ ReadToken(w) \/ ReadTask(w) \/ FinishJob(w) \/ PreflightCheck(w) \/ Crash(w)
  PROVE  ReplyInv'
<1> USE DEF db
<1>1. CASE \E j \in JobIds : Claim(w, j)
  BY <1>1, Claimed, IdleReply DEF HasRun
<1>2. CASE ReadToken(w)
  BY <1>2, IdleReply DEF ReadToken, HasRun, TypeInv, ExecOK
<1>3. CASE ReadTask(w)
  <2>1. \E c : \E l \in {"resume", "preflight", "finish"} : Goto(w, l, c)
    BY <1>3 DEF ReadTask, Finish
  <2> QED
    BY <1>3, <2>1, Gone, IdleReply DEF ReadTask, HasRun
<1>4. CASE FinishJob(w) \/ Crash(w)
  BY <1>4, Released, IdleReply DEF FinishJob, Crash, HasRun
<1>5. CASE PreflightCheck(w)
  <2>1. \E l \in {"preflightCommit", "finish"} : \E c : Goto(w, l, c)
    BY <1>5 DEF PreflightCheck, Finish
  <2> QED
    BY <1>5, <2>1, Gone, IdleReply DEF PreflightCheck, HasRun
<1> QED
  BY <1>1, <1>2, <1>3, <1>4, <1>5

LEMMA BeginReply ==
  ASSUME TypeInv, ReplyInv, NEW w \in Executors, PreflightCommit(w) \/ Resume(w)
  PROVE  ReplyInv'
<1>1. CASE PreflightCommit(w)
  <2>1. PICK r \in RunIds :
           /\ OnlyRun(r) /\ runs'[r].status = "running"
           /\ pc'[w] = "load" /\ ctx'[w].run = r /\ ctx'[w].step = 1
           /\ \A v \in Executors \ {w} : pc'[v] = pc[v] /\ ctx'[v] = ctx[v]
    BY <1>1, InsertedRun
  <2>2. Knows(pc'[w], ctx'[w])
    BY <2>1 DEF Knows, Ending
  <2> QED
    BY <1>1, <2>1, <2>2, ReplyMoves DEF PreflightCommit
<1>2. CASE Resume(w)
  <2>1. CASE pc'[w] = "finish"
    BY <1>2, <2>1, ResumedRun, IdleReply DEF HasRun
  <2>2. CASE pc'[w] # "finish"
    <3>1. /\ ctx'[w].run \in RunningRuns(TaskOf(w))
          /\ pc'[w] = "close" \/ (pc'[w] = "load" /\ ctx'[w].step = 1)
      BY <1>2, <2>2, ResumedRun
    <3>2. Knows(pc'[w], ctx'[w])
      BY <3>1 DEF Knows, Ending, Stepping
    <3> QED
      BY <1>2, <3>1, <3>2, ResumedRun, ReplyMoves DEF RunningRuns
  <2> QED
    BY <2>1, <2>2
<1> QED
  BY <1>1, <1>2

\* On to the next extraction, or to the finalization.
LEMMA ExtractionReply ==
  ASSUME TypeInv, RunAssumption, ReplyInv, NEW w \in Executors, NEW s \in Nat,
         pc[w] \in Stepping \cup Ending, ctx[w].step # 1, NextExtraction(w, s),
         UNCHANGED ckpt,
         UNCHANGED runs \/ (OnlyRun(RunOf(w)) /\ runs'[RunOf(w)].status # "absent")
  PROVE  ReplyInv'
<1>1. pc[w] \in HasRun /\ RunOf(w) \in RunIds /\ runs[RunOf(w)].status # "absent"
  BY LabelsInRun, InRun DEF ReplyInv, Inserted
<1>2. ctx[w].got[1] # NoReply
  BY DEF ReplyInv, Known, Knows
<1>3. /\ pc'[w] \in {"finLease", "load"} /\ ctx'[w].run = RunOf(w)
      /\ ctx'[w].step # 1 /\ ctx'[w].got[1] # NoReply
  BY <1>1, <1>2, NextExtractionMemory DEF RunAssumption, RunOf
<1>4. Knows(pc'[w], ctx'[w])
  BY <1>3 DEF Knows
<1>5. \A v \in Executors \ {w} : pc'[v] = pc[v] /\ ctx'[v] = ctx[v]
  BY Gone DEF NextExtraction
<1> QED
  BY <1>1, <1>3, <1>4, <1>5, ReplyMoves

\* On to the next step of the engine, the primary having answered.
LEMMA StepReply ==
  ASSUME TypeInv, ReplyInv, NEW w \in Executors, NEW reply \in Reply,
         pc[w] \in Stepping, ctx[w].step \in 1 .. 3, NextStep(w, reply),
         ctx[w].step = 1 => reply # NoReply
  PROVE  /\ Knows(pc'[w], ctx'[w]) /\ ctx'[w].run = RunOf(w)
         /\ \A v \in Executors \ {w} : pc'[v] = pc[v] /\ ctx'[v] = ctx[v]
<1>1. pc[w] \in HasRun
  BY LabelsInRun
<1>0. /\ pc'[w] = "load" /\ ctx'[w].run = ctx[w].run
      /\ \A e \in 1 .. 3 :
           ctx'[w].got[e] = IF e = ctx[w].step THEN reply ELSE ctx[w].got[e]
  BY <1>1, NextStepMemory
<1>2. /\ pc'[w] = "load" /\ ctx'[w].run = ctx[w].run
      /\ ctx'[w].got[1] = IF 1 = ctx[w].step THEN reply ELSE ctx[w].got[1]
  BY <1>0
<1>3. ctx[w].step # 1 => ctx[w].got[1] # NoReply
  BY DEF ReplyInv, Known, Knows
<1>4. Knows(pc'[w], ctx'[w])
  BY <1>2, <1>3 DEF Knows, Ending
<1>5. \A v \in Executors \ {w} : pc'[v] = pc[v] /\ ctx'[v] = ctx[v]
  BY Gone DEF NextStep
<1> QED
  BY <1>2, <1>4, <1>5 DEF RunOf

\* A reply that says something is taken for what it says.
LEMMA SpeakingReply ==
  ASSUME NEW reply \in Reply, Speaks(reply)
  PROVE  Replayed(reply) = reply /\ Fresh(reply) = reply /\ reply # NoReply
BY DEF Speaks, Replayed, Fresh, NoReply, Reply

LEMMA LoadReply ==
  ASSUME TypeInv, ReplyInv, NEW w \in Executors, LoadStep(w)
  PROVE  ReplyInv'
<1> DEFINE r == RunOf(w)
           s == ctx[w].step
<1>1. pc[w] = "load" /\ pc[w] \in HasRun /\ r \in RunIds /\ UNCHANGED <<runs, ckpt>>
  BY InRun DEF LoadStep, HasRun, PC, InTry, db
<1>2. s \in 1 .. 3 /\ ckpt[r][s] \in Reply /\ runs[r].status # "absent"
  <2>1. s \in Steps
    BY <1>1, InRun, Here DEF GoodPlace
  <2>2. s \in 1 .. 3
    BY <2>1 DEF LoadStep, Consolidating, Extracting, Steps, EngineSteps
  <2> QED
    BY <1>1, <2>1, <2>2 DEF TypeInv, DbOK, ReplyInv, Inserted
<1>3. ASSUME NEW reply \in Reply, NextStep(w, reply), s = 1 => reply # NoReply
      PROVE  ReplyInv'
  <2>1. pc[w] \in Stepping
    BY <1>1 DEF Stepping
  <2> HIDE DEF r, s
  <2>2. /\ Knows(pc'[w], ctx'[w]) /\ ctx'[w].run = RunOf(w)
        /\ \A v \in Executors \ {w} : pc'[v] = pc[v] /\ ctx'[v] = ctx[v]
    BY <1>2, <1>3, <2>1, StepReply DEF s
  <2> QED
    BY <1>1, <1>2, <2>2, ReplyMoves DEF r
<1>4. CASE ckpt[r][s] # NoReply
  <2>1. NextStep(w, Replayed(ckpt[r][s]))
    BY <1>4 DEF LoadStep
  <2>2. Replayed(ckpt[r][s]) \in Reply
    BY <1>2, ReplayedType
  <2>3. s = 1 => Replayed(ckpt[r][s]) # NoReply
    BY <1>1, <1>2, <1>4, SpeakingReply DEF ReplyInv, FirstSpeaks
  <2> QED
    BY <1>3, <2>1, <2>2, <2>3
<1>5. CASE ckpt[r][s] = NoReply /\ s # 1 /\ row[r][s] = "failed"
  <2>1. NextStep(w, NoReply) /\ NoReply \in Reply
    BY <1>2, <1>5, ReplayedType DEF LoadStep
  <2> QED
    BY <1>3, <1>5, <2>1
<1>6. CASE Goto(w, "lease", ctx[w])
  BY <1>1, <1>6, KeptReply DEF Stepping
<1> QED
  BY <1>4, <1>5, <1>6 DEF LoadStep

LEMMA LeaseReply ==
  ASSUME TypeInv, ReplyInv, NEW w \in Executors, CheckLease(w)
  PROVE  ReplyInv'
<1>1. pc[w] \in HasRun /\ UNCHANGED <<runs, ckpt>>
  BY DEF CheckLease, LeaseNext, HasRun, PC, InTry, db
<1>2. CASE Release(w)
  BY <1>1, <1>2, Released, IdleReply DEF HasRun
<1>3. CASE Goto(w, LeaseNext[pc[w]], ctx[w])
  <2>1. \/ LeaseNext[pc[w]] \notin Stepping \cup Ending
        \/ pc[w] \in Stepping /\ LeaseNext[pc[w]] \in Stepping \ {"persist"}
        \/ pc[w] \in Ending /\ LeaseNext[pc[w]] \in Ending \cup {"persist"}
    BY DEF CheckLease, LeaseNext, Stepping, Ending
  <2> QED
    BY <1>1, <1>3, <2>1, KeptReply
<1> QED
  BY <1>2, <1>3 DEF CheckLease

LEMMA GuardReply ==
  ASSUME TypeInv, ReplyInv, NEW w \in Executors, GuardCheck(w) \/ GuardCommit(w)
  PROVE  ReplyInv'
<1>1. pc[w] \in HasRun /\ pc[w] \in Stepping /\ UNCHANGED ckpt
  BY DEF GuardCheck, GuardCommit, HasRun, PC, InTry, db, Stepping
<1>2. RunOf(w) \in RunIds /\ runs[RunOf(w)].status # "absent"
  BY <1>1, InRun DEF ReplyInv, Inserted
<1>3. CASE GuardCheck(w)
  <2>1. UNCHANGED runs
    BY <1>3 DEF GuardCheck, db
  <2>2. CASE Goto(w, "guardCommit", ctx[w])
    BY <1>1, <2>1, <2>2, KeptReply DEF Stepping
  <2>3. CASE \E o : Close(w, o)
    BY <1>1, <2>1, <2>3, KeptReply DEF Stepping, Ending, Close
  <2> QED
    BY <1>3, <2>2, <2>3 DEF GuardCheck
<1>4. CASE GuardCommit(w)
  <2>1. Goto(w, "call", ctx[w]) /\ runs' = Advanced(RunOf(w), "dispatching")
    BY <1>4 DEF GuardCommit
  <2>2. OnlyRun(RunOf(w)) /\ runs'[RunOf(w)].status # "absent"
    BY <1>2, <2>1, AdvancedRun DEF Reliability
  <2> QED
    BY <1>1, <2>1, <2>2, KeptReply DEF Stepping
<1> QED
  BY <1>3, <1>4

\* What a call says of the primary is an answer.
LEMMA CallReply ==
  ASSUME RunAssumption, TypeInv, ReplyInv, NEW w \in Executors, CallProvider(w)
  PROVE  ReplyInv'
<1>1. /\ pc[w] = "call" /\ pc[w] \in HasRun /\ ctx[w] \in Ctx
      /\ RunOf(w) \in RunIds /\ UNCHANGED <<runs, ckpt>>
  BY InAStep DEF CallProvider, InStep
<1>2. runs[RunOf(w)].status # "absent"
  BY <1>1 DEF ReplyInv, Inserted
<1>3. ctx[w].step # 1 => ctx[w].got[1] # NoReply
  BY <1>1 DEF ReplyInv, Known, Knows, Stepping
<1>4. CASE Close(w, "reconciliation_required")
  BY <1>1, <1>4, KeptReply DEF Stepping, Ending, Close
<1>5. ASSUME NEW l \in {"persist", "extLease", "extReject"}, NEW reply,
             Goto(w, l, [ctx[w] EXCEPT !.reply = reply]),
             l # "persist" => Extracting(w),
             l = "persist" /\ ctx[w].step = 1 /\ reply # NoReply => Speaks(reply)
      PROVE  ReplyInv'
  <2> DEFINE c == [ctx[w] EXCEPT !.reply = reply]
  <2>1. /\ c.run = ctx[w].run /\ c.step = ctx[w].step /\ c.got = ctx[w].got /\ c.reply = reply
    BY <1>1 DEF Ctx
  <2>2. Goto(w, l, c)
    BY <1>5
  <2> HIDE DEF c
  <2>3. /\ pc'[w] = l /\ ctx'[w] = c
        /\ \A v \in Executors \ {w} : pc'[v] = pc[v] /\ ctx'[v] = ctx[v]
    BY <2>2, Gone
  <2>4. l # "persist" => ctx[w].step # 1
    BY <1>5 DEF Extracting, RunAssumption
  <2>5. Knows(pc'[w], ctx'[w])
    BY <1>3, <1>5, <2>1, <2>3, <2>4 DEF Knows, Ending, Stepping
  <2> QED
    BY <1>1, <1>2, <2>1, <2>3, <2>5, ReplyMoves DEF RunOf
<1>6. ASSUME NEW n, NEW kind \in KindsOf(w),
             Goto(w, IF Extracting(w) THEN "extLease" ELSE "persist",
                  [ctx[w] EXCEPT !.reply = [call |-> n, kind |-> kind]])
      PROVE  ReplyInv'
  <2> DEFINE reply == [call |-> n, kind |-> kind]
             l == IF Extracting(w) THEN "extLease" ELSE "persist"
  <2>1. l \in {"persist", "extLease", "extReject"} /\ (l # "persist" => Extracting(w))
    OBVIOUS
  <2>2. l = "persist" /\ ctx[w].step = 1 => Speaks(reply)
    <3> SUFFICES ASSUME ~ Extracting(w), ctx[w].step = 1 PROVE kind \in {"text", "proposal"}
      BY DEF Speaks
    <3>1. ~ Reviewing(w)
      BY DEF Reviewing
    <3>2. kind \in BodyKinds
      BY <3>1 DEF KindsOf
    <3> QED
      BY <3>2 DEF RunAssumption
  <2>3. Goto(w, l, [ctx[w] EXCEPT !.reply = reply])
    BY <1>6
  <2> HIDE DEF reply, l
  <2> QED
    BY <1>5, <2>1, <2>2, <2>3
<1>7. ASSUME Goto(w, IF Extracting(w) THEN "extReject" ELSE "persist",
                  [ctx[w] EXCEPT !.reply = NoReply])
      PROVE  ReplyInv'
  <2> DEFINE l == IF Extracting(w) THEN "extReject" ELSE "persist"
  <2>1. l \in {"persist", "extLease", "extReject"} /\ (l # "persist" => Extracting(w))
    OBVIOUS
  <2>2. Goto(w, l, [ctx[w] EXCEPT !.reply = NoReply])
    BY <1>7
  <2> HIDE DEF l
  <2> QED
    BY <1>5, <2>1, <2>2
<1>8. \/ \E n : \E kind \in KindsOf(w) :
           Goto(w, IF Extracting(w) THEN "extLease" ELSE "persist",
                [ctx[w] EXCEPT !.reply = [call |-> n, kind |-> kind]])
      \/ Goto(w, IF Extracting(w) THEN "extReject" ELSE "persist",
              [ctx[w] EXCEPT !.reply = NoReply])
      \/ Close(w, "reconciliation_required")
  BY DEF CallProvider
<1> QED
  BY <1>4, <1>6, <1>7, <1>8

LEMMA PersistReply ==
  ASSUME RunAssumption, TypeInv, ReplyInv, NEW w \in Executors, PersistStep(w)
  PROVE  ReplyInv'
<1> DEFINE r == RunOf(w)
           s == ctx[w].step
           reply == ctx[w].reply
<1>1. /\ pc[w] = "persist" /\ pc[w] \in HasRun /\ pc[w] \in Stepping /\ r \in RunIds
      /\ s \in 1 .. 3 /\ s \in Steps /\ reply \in Reply
  BY InAStep DEF PersistStep, InStep, Extracting, Stepping, Ctx
<1>2. s = 1 /\ reply # NoReply => Speaks(reply)
  BY <1>1 DEF ReplyInv, Known, Knows
<1>3. ckpt \in [RunIds -> [Steps -> Reply]] /\ runs[r].status # "absent" /\ 1 \in Steps
  <2>1. ckpt \in [RunIds -> [Steps -> Reply]] /\ 1 \in Steps
    BY StepNumbers DEF TypeInv, DbOK
  <2>2. runs[r].status # "absent"
    BY <1>1 DEF ReplyInv, Inserted
  <2> QED
    BY <2>1, <2>2
<1>4. FirstSpeaks'
  <2>1. CASE UNCHANGED ckpt
    BY <2>1 DEF ReplyInv, FirstSpeaks
  <2>2. CASE reply # NoReply /\ ckpt' = [ckpt EXCEPT ![r][s] = reply]
    <3> HIDE DEF reply, r, s
    <3>1. \A q \in RunIds : ckpt'[q][1] = IF q = r /\ 1 = s THEN reply ELSE ckpt[q][1]
      BY <1>1, <1>3, <2>2
    <3> QED
      BY <1>2, <2>2, <3>1 DEF ReplyInv, FirstSpeaks
  <2> QED
    BY <2>1, <2>2 DEF PersistStep
<1>5. UNCHANGED runs \/ (OnlyRun(r) /\ runs'[r].status # "absent")
  <2>1. UNCHANGED runs \/ runs' = Advanced(r, "result_checkpointed")
    BY DEF PersistStep
  <2> QED
    BY <1>1, <1>3, <2>1, AdvancedRun DEF Reliability
<1>6. CASE s = 1 /\ reply = NoReply
  <2>1. Goto(w, "failLease", [ctx[w] EXCEPT !.out = "failed"])
    BY <1>6 DEF PersistStep
  <2> QED
    BY <1>1, <1>4, <1>5, <2>1, KeptReply DEF Stepping, Ending
<1>7. CASE ~ (s = 1 /\ reply = NoReply)
  <2>1. NextStep(w, Fresh(reply)) /\ Fresh(reply) \in Reply
    BY <1>1, <1>7, ReplayedType DEF PersistStep
  <2>2. s = 1 => Fresh(reply) # NoReply
    BY <1>1, <1>2, <1>7, SpeakingReply
  <2>3. /\ Knows(pc'[w], ctx'[w]) /\ ctx'[w].run = RunOf(w)
        /\ \A v \in Executors \ {w} : pc'[v] = pc[v] /\ ctx'[v] = ctx[v]
    BY <1>1, <2>1, <2>2, StepReply
  <2> QED
    BY <1>1, <1>3, <1>4, <1>5, <2>3, ReplyMoves
<1> QED
  BY <1>6, <1>7

\* Where the engine ends, it is past the primary.
LEMMA ConsolidateReply ==
  ASSUME TypeInv, ReplyInv, NEW w \in Executors, Consolidate(w)
  PROVE  ReplyInv'
<1>1. /\ pc[w] = "load" /\ pc[w] \in HasRun /\ ctx[w].step # 1 /\ Goto(w, "decide", ctx[w])
      /\ UNCHANGED <<runs, ckpt>>
  BY DEF Consolidate, Consolidating, HasRun, PC, InTry
<1>2. /\ pc'[w] = "decide" /\ Keeps(w)
      /\ \A v \in Executors \ {w} : pc'[v] = pc[v] /\ ctx'[v] = ctx[v]
  BY <1>1, Kept
<1>3. ctx[w].got[1] # NoReply
  BY <1>1 DEF ReplyInv, Known, Knows, Stepping
<1>4. Knows(pc'[w], ctx'[w])
  BY <1>1, <1>2, <1>3 DEF Knows, Keeps
<1>5. ctx'[w].run = RunOf(w) /\ runs[RunOf(w)].status # "absent"
  BY <1>1, <1>2 DEF Keeps, RunOf, ReplyInv, Inserted
<1> QED
  BY <1>1, <1>2, <1>4, <1>5, ReplyMoves

LEMMA ExtractionsReply ==
  ASSUME RunAssumption, TypeInv, ReplyInv, NEW w \in Executors,
         \/ DecideExtraction(w) \/ LoadExtraction(w) \/ RejectExtraction(w)
         \/ PersistExtraction(w) \/ ApplyExtraction(w) \/ SwallowApply(w)
  PROVE  ReplyInv'
<1> USE DEF db
<1>1. CASE DecideExtraction(w)
  <2>1. pc[w] = "decide" /\ pc[w] \in Ending /\ pc[w] \in HasRun /\ UNCHANGED <<runs, ckpt>>
    BY <1>1, LabelsInRun DEF DecideExtraction, Ending
  <2>2. ctx[w].step # 1
    BY <2>1 DEF ReplyInv, Known, Knows
  <2>3. CASE NextExtraction(w, 0)
    BY <2>1, <2>2, <2>3, ExtractionReply
  <2>4. CASE Goto(w, "finLease", ctx[w])
    BY <2>1, <2>4, KeptReply DEF Ending
  <2> QED
    BY <1>1, <2>3, <2>4 DEF DecideExtraction
<1>2. CASE LoadExtraction(w)
  <2>1. /\ pc[w] = "load" /\ pc[w] \in Stepping /\ pc[w] \in HasRun /\ UNCHANGED <<runs, ckpt>>
        /\ ctx[w].step # 1 /\ ctx[w].step \in Nat
    BY <1>2, LabelsInRun, ExtractionStep DEF LoadExtraction, Stepping, RunAssumption
  <2>2. CASE NextExtraction(w, ctx[w].step)
    BY <2>1, <2>2, ExtractionReply
  <2>3. CASE Goto(w, "lease", ctx[w])
    BY <2>1, <2>3, KeptReply DEF Stepping
  <2>4. CASE Goto(w, "apply", ctx[w])
    <3>1. pc'[w] = "apply" /\ Keeps(w)
      BY <2>1, <2>4, Kept
    <3>2. ctx[w].got[1] # NoReply
      BY <2>1 DEF ReplyInv, Known, Knows
    <3>3. Knows(pc'[w], ctx'[w])
      BY <2>1, <3>1, <3>2 DEF Knows, Keeps
    <3>4. ctx'[w].run = RunOf(w) /\ runs[RunOf(w)].status # "absent"
      BY <2>1, <3>1 DEF Keeps, RunOf, ReplyInv, Inserted
    <3>5. \A v \in Executors \ {w} : pc'[v] = pc[v] /\ ctx'[v] = ctx[v]
      BY <2>4, Gone
    <3> QED
      BY <2>1, <3>3, <3>4, <3>5, ReplyMoves
  <2> QED
    BY <1>2, <2>2, <2>3, <2>4 DEF LoadExtraction
<1>3. CASE RejectExtraction(w)
  <2>1. /\ pc[w] = "extReject" /\ pc[w] \in Ending /\ pc[w] \in HasRun /\ UNCHANGED ckpt
        /\ ctx[w].step \in Nat
        /\ NextExtraction(w, ctx[w].step) /\ runs' = Advanced(RunOf(w), "result_checkpointed")
    BY <1>3, LabelsInRun, InAStep DEF RejectExtraction, Ending, InStep, Ctx
  <2>2. ctx[w].step # 1 /\ RunOf(w) \in RunIds /\ runs[RunOf(w)].status # "absent"
    BY <2>1, InRun DEF ReplyInv, Known, Knows, Inserted
  <2>3. OnlyRun(RunOf(w)) /\ runs'[RunOf(w)].status # "absent"
    BY <2>1, <2>2, AdvancedRun DEF Reliability
  <2> QED
    BY <2>1, <2>2, <2>3, ExtractionReply
<1>4. CASE PersistExtraction(w)
  <2>1. /\ pc[w] = "persist" /\ pc[w] \in Stepping /\ pc[w] \in HasRun
        /\ RunOf(w) \in RunIds /\ runs[RunOf(w)].status # "absent"
        /\ ctx[w].step # 1
    BY <1>4, LabelsInRun, InRun DEF PersistExtraction, Extracting, RunAssumption, Stepping, ReplyInv, Inserted
  <2>2. CASE ckpt[RunOf(w)][ctx[w].step] # NoReply /\ Finish(w, "threw")
    <3>1. UNCHANGED <<runs, ckpt>>
      BY <1>4, <2>2 DEF PersistExtraction
    <3> QED
      BY <2>1, <2>2, <3>1, KeptReply DEF Finish, Stepping, Ending
  <2>3. CASE Goto(w, "apply", ctx[w])
    <3>1. /\ pc'[w] = "apply" /\ Keeps(w)
          /\ \A v \in Executors \ {w} : pc'[v] = pc[v] /\ ctx'[v] = ctx[v]
      BY <2>1, <2>3, Kept
    <3>2. ctx[w].got[1] # NoReply
      BY <2>1 DEF ReplyInv, Known, Knows
    <3>3. Knows(pc'[w], ctx'[w]) /\ ctx'[w].run = RunOf(w)
      BY <2>1, <3>1, <3>2 DEF Knows, Keeps, RunOf
    <3>4. UNCHANGED runs \/ (OnlyRun(RunOf(w)) /\ runs'[RunOf(w)].status # "absent")
      BY <1>4, <2>1, AdvancedRun DEF PersistExtraction, Reliability
    <3>5. FirstSpeaks'
      <4>1. ckpt \in [RunIds -> [Steps -> Reply]]
        BY DEF TypeInv, DbOK
      <4>a. \/ ckpt' = ckpt
            \/ ckpt' = [ckpt EXCEPT ![RunOf(w)][ctx[w].step] = ctx[w].reply]
        BY <1>4 DEF PersistExtraction
      <4>2. \A q \in RunIds : ckpt'[q][1] = ckpt[q][1]
        BY <2>1, <4>1, <4>a, StepNumbers
      <4> QED
        BY <4>2 DEF ReplyInv, FirstSpeaks
    <3> QED
      BY <2>1, <3>1, <3>3, <3>4, <3>5, ReplyMoves
  <2> QED
    BY <1>4, <2>2, <2>3 DEF PersistExtraction
<1>5. CASE ApplyExtraction(w) \/ SwallowApply(w)
  <2>1. /\ pc[w] = "apply" /\ pc[w] \in Ending /\ pc[w] \in HasRun /\ UNCHANGED <<runs, ckpt>>
        /\ ctx[w].step \in Nat
    BY <1>5, LabelsInRun, InAStep DEF ApplyExtraction, SwallowApply, Ending, InStep, Ctx
  <2>2. ctx[w].step # 1
    BY <2>1 DEF ReplyInv, Known, Knows
  <2>3. CASE Release(w)
    BY <2>1, <2>3, Released, IdleReply DEF HasRun
  <2>4. CASE NextExtraction(w, ctx[w].step)
    BY <2>1, <2>2, <2>4, ExtractionReply
  <2> QED
    BY <1>5, <2>3, <2>4 DEF ApplyExtraction, SwallowApply
<1> QED
  BY <1>1, <1>2, <1>3, <1>4, <1>5

LEMMA EndReply ==
  ASSUME TypeInv, ReplyInv, NEW w \in Executors,
         \/ FinalizeCheck(w) \/ FinalizeCommit(w) \/ CompleteRun(w)
         \/ CloseCheck(w) \/ CloseCommit(w)
  PROVE  ReplyInv'
<1> DEFINE r == RunOf(w)
<1>1. pc[w] \in HasRun /\ pc[w] \notin Stepping /\ UNCHANGED ckpt
  BY DEF FinalizeCheck, FinalizeCommit, CompleteRun, CloseCheck, CloseCommit, db,
         HasRun, PC, InTry, Stepping
<1>2. r \in RunIds /\ runs[r].status # "absent"
  BY <1>1, InRun DEF ReplyInv, Inserted
<1>3. CASE FinalizeCheck(w)
  <2>1. /\ UNCHANGED runs
        /\ Goto(w, "finalizeCommit", ctx[w]) \/ \E o : Goto(w, "finish", [ctx[w] EXCEPT !.out = o])
    BY <1>3 DEF FinalizeCheck, Finish, db
  <2> QED
    BY <1>1, <1>3, <2>1, KeptReply DEF FinalizeCheck, Ending, Stepping
<1>4. CASE FinalizeCommit(w)
  <2>1. /\ Goto(w, "complete", ctx[w])
        /\ runs' = [runs EXCEPT ![r].final = ctx[w].got, ![r].rel = "finalizing"]
    BY <1>4 DEF FinalizeCommit
  <2>2. OnlyRun(r) /\ runs'[r].status # "absent"
    BY <1>2, <2>1, MarkedRun
  <2> QED
    BY <1>1, <1>4, <2>1, <2>2, KeptReply DEF FinalizeCommit, Ending, Stepping
<1>5. CASE CompleteRun(w) \/ CloseCommit(w)
  <2>1. /\ \E o : Goto(w, "finish", [ctx[w] EXCEPT !.out = o])
        /\ \E status \in {"completed", "failed"} : \E rel :
             runs' = [runs EXCEPT ![r].status = status, ![r].rel = rel]
    BY <1>5 DEF CompleteRun, CloseCommit, Finish
  <2>2. PICK status \in {"completed", "failed"} : \E rel :
             runs' = [runs EXCEPT ![r].status = status, ![r].rel = rel]
    BY <2>1
  <2>3. PICK rel : runs' = [runs EXCEPT ![r].status = status, ![r].rel = rel]
    BY <2>2
  <2>4. OnlyRun(r) /\ runs'[r].status # "absent"
    BY <1>2, <2>3, EndedRun
  <2> QED
    BY <1>1, <2>1, <2>4, KeptReply DEF Ending, Stepping
<1>6. CASE CloseCheck(w)
  <2>1. /\ UNCHANGED runs
        /\ \/ Goto(w, "closeCommit", ctx[w])
           \/ \E o : Goto(w, "finish", [ctx[w] EXCEPT !.out = o])
    BY <1>6 DEF CloseCheck, Finish, db
  <2> QED
    BY <1>1, <2>1, KeptReply DEF Ending, Stepping
<1> QED
  BY <1>3, <1>4, <1>5, <1>6

LEMMA ThrowReply ==
  ASSUME TypeInv, ReplyInv, NEW w \in Executors, Throw(w)
  PROVE  ReplyInv'
<1>1. \E o : Goto(w, "finish", [ctx[w] EXCEPT !.out = o]) /\ UNCHANGED <<runs, ckpt>>
  BY DEF Throw, Finish, db
<1> QED
  BY <1>1, Gone, IdleReply DEF HasRun

\* A pass of the reconciler may end running runs.
LEMMA RecoveredRuns ==
  ASSUME TypeInv, NEW j \in JobIds, RecoverInterrupted(j)
  PROVE  \A r \in RunIds :
           /\ r \notin RunningRuns(jobs[j].task) => runs'[r] = runs[r]
           /\ r \in RunningRuns(jobs[j].task) =>
                /\ runs'[r].status = "failed" /\ runs[r].status = "running"
                /\ runs'[r].final = runs[r].final
<1>1. runs \in [RunIds -> RunRow]
  BY DEF TypeInv, DbOK
<1> QED
  BY <1>1 DEF RecoverInterrupted, RunningRuns, RunRow

Elsewhere ==
  \/ \E j \in JobIds : ExpireOrphan(j) \/ ExpireHeld(j) \/ Handle(j)
  \/ ListStale \/ ReconcilerCrash
  \/ \E t \in Tasks : User(t)
  \/ UNCHANGED vars

LEMMA ElsewhereRuns ==
  ASSUME TypeInv, Elsewhere
  PROVE  /\ UNCHANGED <<pc, ctx, held, token, ckpt, row, bill, ext, calls>>
         /\ UNCHANGED runs \/ \E j \in JobIds : RecoverInterrupted(j)
<1> USE DEF db, own, vars
<1>1. CASE \E j \in JobIds : ExpireOrphan(j) \/ ExpireHeld(j)
  BY <1>1 DEF ExpireOrphan, ExpireHeld
<1>2. CASE \E j \in JobIds : Handle(j)
  BY <1>2 DEF Handle, InspectStale, RequeueStale, RecoverInterrupted, FinishRecovered
<1>3. CASE ListStale \/ ReconcilerCrash
  BY <1>3 DEF ListStale, ReconcilerCrash
<1>4. CASE \E t \in Tasks : User(t)
  BY <1>4 DEF User, RunTask, RerunRead, RerunLookup, RerunCommit, CancelRead, CancelCommit,
              MarkRead, MarkCommit, SettleRead, SettleCommit
<1>5. CASE UNCHANGED vars
  BY <1>5
<1> QED
  BY <1>1, <1>2, <1>3, <1>4, <1>5 DEF Elsewhere

LEMMA ElsewhereReply ==
  ASSUME TypeInv, ReplyInv, Elsewhere
  PROVE  ReplyInv'
<1>1. UNCHANGED <<pc, ctx, ckpt>>
  BY ElsewhereRuns
<1>2. \A r \in RunIds :
        /\ runs[r].status # "absent" => runs'[r].status # "absent"
        /\ runs'[r].status = "absent" => runs'[r] = runs[r]
  BY ElsewhereRuns, RecoveredRuns
<1>3. Known' /\ FirstSpeaks'
  BY <1>1 DEF ReplyInv, Known, FirstSpeaks
<1>4. Inserted'
  BY <1>1, <1>2, InRun DEF ReplyInv, Inserted, RunOf
<1>5. Blank'
  BY <1>2 DEF ReplyInv, Blank
<1> QED
  BY <1>3, <1>4, <1>5 DEF ReplyInv

LEMMA ReplyNext ==
  ASSUME RunAssumption, TypeInv, ReplyInv, [Next]_vars
  PROVE  ReplyInv'
<1>1. ASSUME NEW w \in Executors, ClaimNext(w) \/ ClaimForTask(w) PROVE ReplyInv'
  BY <1>1, OutsideReply DEF ClaimNext, ClaimForTask
<1>2. ASSUME NEW w \in Executors, Work(w) PROVE ReplyInv'
  BY <1>2, OutsideReply, BeginReply, LoadReply, LeaseReply, GuardReply, CallReply, PersistReply,
     ConsolidateReply, ExtractionsReply, EndReply DEF Work
<1>3. ASSUME NEW w \in Executors, Crash(w) \/ Throw(w) \/ SwallowApply(w) PROVE ReplyInv'
  BY <1>3, OutsideReply, ThrowReply, ExtractionsReply
<1>4. CASE Elsewhere
  BY <1>4, ElsewhereReply
<1> QED
  BY <1>1, <1>2, <1>3, <1>4 DEF Next, Elsewhere

-----------------------------------------------------------------------------
(* What a step may do to checkpoints and results. *)

CheckpointsStay ==
  \A r \in RunIds, s \in Steps : ckpt[r][s] # NoReply => ckpt'[r][s] = ckpt[r][s]
ResultsStay == \A r \in RunIds : runs[r].final # NoResult => runs'[r].final # NoResult

LEMMA PersistStays ==
  ASSUME RunAssumption, TypeInv, BillInv, NEW w \in Executors,
         PersistStep(w) \/ PersistExtraction(w)
  PROVE  CheckpointsStay /\ ResultsStay
<1> DEFINE r == RunOf(w)
           s == ctx[w].step
<1>1. r \in RunIds /\ s \in Steps /\ (s \in EngineSteps \/ s \in Extractions)
  BY InAStep DEF PersistStep, PersistExtraction, InStep, Steps
<1>2. ckpt \in [RunIds -> [Steps -> Reply]]
  BY DEF TypeInv, DbOK
<1>3. UNCHANGED ckpt \/ (ckpt[r][s] = NoReply /\ \E reply : ckpt' = [ckpt EXCEPT ![r][s] = reply])
  <2>1. CASE PersistExtraction(w)
    BY <2>1 DEF PersistExtraction
  <2>2. CASE PersistStep(w) /\ row[r][s] # "none"
    BY <2>2 DEF PersistStep
  <2>3. CASE PersistStep(w) /\ row[r][s] = "none"
    <3>1. s \in EngineSteps
      BY <1>1, <2>3 DEF PersistStep, Extracting
    <3>2. ckpt[r][s] = NoReply
      BY <1>1, <2>3, <3>1 DEF BillInv, RowKept
    <3> QED
      BY <2>3, <3>2 DEF PersistStep
  <2> QED
    BY <2>1, <2>2, <2>3
<1>4. CheckpointsStay
  <2>1. CASE UNCHANGED ckpt
    BY <2>1 DEF CheckpointsStay
  <2>2. ASSUME ckpt[r][s] = NoReply, NEW reply, ckpt' = [ckpt EXCEPT ![r][s] = reply]
        PROVE  CheckpointsStay
    <3> HIDE DEF r, s
    <3>1. \A q \in RunIds, t \in Steps : ckpt'[q][t] = ckpt[q][t] \/ (q = r /\ t = s)
      BY <1>1, <1>2, <2>2
    <3> QED
      BY <2>2, <3>1 DEF CheckpointsStay
  <2> QED
    BY <1>3, <2>1, <2>2
<1>5. ResultsStay
  <2>1. UNCHANGED runs \/ runs' = Advanced(r, "result_checkpointed")
    BY DEF PersistStep, PersistExtraction
  <2> QED
    BY <1>1, <2>1, AdvancedRun DEF ResultsStay, OnlyRun, Reliability
<1> QED
  BY <1>4, <1>5

\* What an executor writes as the result of its run is one.
LEMMA MarkStays ==
  ASSUME TypeInv, ReplyInv, NEW w \in Executors, FinalizeCommit(w)
  PROVE  ResultsStay /\ runs'[RunOf(w)].final # NoResult
<1>1. RunOf(w) \in RunIds
  BY InRun DEF FinalizeCommit, HasRun, PC, InTry
<1>2. ctx[w].got[1] # NoReply
  BY DEF FinalizeCommit, ReplyInv, Known, Knows, Ending
<1>3. ctx[w].got # NoResult
  BY <1>2 DEF NoResult
<1>4. OnlyRun(RunOf(w)) /\ runs'[RunOf(w)].final = ctx[w].got
  BY <1>1, MarkedRun DEF FinalizeCommit
<1> QED
  BY <1>3, <1>4 DEF ResultsStay, OnlyRun

LEMMA RowsStay ==
  ASSUME TypeInv, ReplyInv, NEW w \in Executors,
         \/ PreflightCommit(w) \/ GuardCommit(w) \/ RejectExtraction(w)
         \/ CompleteRun(w) \/ CloseCommit(w)
  PROVE  ResultsStay
<1>1. CASE PreflightCommit(w)
  <2>1. PICK r \in RunIds : runs[r].status = "absent" /\ OnlyRun(r)
    BY <1>1, InsertedRun
  <2>2. runs[r].final = NoResult
    BY <2>1 DEF ReplyInv, Blank, NoRun
  <2> QED
    BY <2>1, <2>2 DEF ResultsStay, OnlyRun
<1>2. CASE \/ GuardCommit(w) \/ RejectExtraction(w) \/ CompleteRun(w) \/ CloseCommit(w)
  <2>1. RunOf(w) \in RunIds
    BY <1>2, InRun DEF GuardCommit, RejectExtraction, CompleteRun, CloseCommit, HasRun, PC, InTry
  <2>2. \/ \E state \in Reliability : runs' = Advanced(RunOf(w), state)
        \/ \E status, rel : runs' = [runs EXCEPT ![RunOf(w)].status = status, ![RunOf(w)].rel = rel]
    BY <1>2 DEF GuardCommit, RejectExtraction, CompleteRun, CloseCommit, Reliability
  <2>3. CASE \E state \in Reliability : runs' = Advanced(RunOf(w), state)
    BY <2>1, <2>3, AdvancedRun DEF ResultsStay, OnlyRun
  <2>4. CASE \E status, rel : runs' = [runs EXCEPT ![RunOf(w)].status = status, ![RunOf(w)].rel = rel]
    BY <2>1, <2>4, EndedRun DEF ResultsStay, OnlyRun
  <2> QED
    BY <2>2, <2>3, <2>4
<1> QED
  BY <1>1, <1>2

\* The steps of an executor that leave runs and checkpoints alone.
LEMMA LeavesRuns ==
  ASSUME NEW w \in Executors,
         \/ ReadToken(w) \/ ReadTask(w) \/ FinishJob(w) \/ PreflightCheck(w) \/ Resume(w)
         \/ LoadStep(w) \/ CheckLease(w) \/ GuardCheck(w) \/ CallProvider(w) \/ Consolidate(w)
         \/ DecideExtraction(w) \/ LoadExtraction(w) \/ ApplyExtraction(w)
         \/ FinalizeCheck(w) \/ CloseCheck(w) \/ Crash(w) \/ Throw(w) \/ SwallowApply(w)
         \/ ClaimNext(w) \/ ClaimForTask(w)
  PROVE  UNCHANGED <<runs, ckpt>>
<1> USE DEF db
<1>1. CASE ReadToken(w) \/ ReadTask(w) \/ FinishJob(w) \/ PreflightCheck(w) \/ Resume(w)
  BY <1>1 DEF ReadToken, ReadTask, FinishJob, PreflightCheck, Resume
<1>2. CASE LoadStep(w) \/ CheckLease(w) \/ GuardCheck(w) \/ CallProvider(w) \/ Consolidate(w)
  BY <1>2 DEF LoadStep, CheckLease, GuardCheck, CallProvider, Consolidate
<1>3. CASE DecideExtraction(w) \/ LoadExtraction(w) \/ ApplyExtraction(w)
  BY <1>3 DEF DecideExtraction, LoadExtraction, ApplyExtraction
<1>4. CASE FinalizeCheck(w) \/ CloseCheck(w) \/ Crash(w) \/ Throw(w) \/ SwallowApply(w)
  BY <1>4 DEF FinalizeCheck, CloseCheck, Crash, Throw, SwallowApply
<1>5. CASE ClaimNext(w) \/ ClaimForTask(w)
  BY <1>5 DEF ClaimNext, ClaimForTask, Claim
<1> QED
  BY <1>1, <1>2, <1>3, <1>4, <1>5

LEMMA AllStays ==
  ASSUME RunAssumption, TypeInv, BillInv, ReplyInv, [Next]_vars
  PROVE  CheckpointsStay /\ ResultsStay
<1>1. CASE UNCHANGED <<runs, ckpt>>
  BY <1>1 DEF CheckpointsStay, ResultsStay
<1>2. ASSUME UNCHANGED ckpt PROVE CheckpointsStay
  BY <1>2 DEF CheckpointsStay
<1>3. ASSUME NEW w \in Executors, Work(w) PROVE CheckpointsStay /\ ResultsStay
  <2>1. CASE \/ PreflightCommit(w) \/ GuardCommit(w) \/ RejectExtraction(w)
             \/ CompleteRun(w) \/ CloseCommit(w)
    <3>1. UNCHANGED ckpt
      BY <2>1 DEF PreflightCommit, GuardCommit, RejectExtraction, CompleteRun, CloseCommit
    <3> QED
      BY <1>2, <2>1, <3>1, RowsStay
  <2>2. CASE FinalizeCommit(w)
    BY <1>2, <2>2, MarkStays DEF FinalizeCommit
  <2>3. CASE PersistStep(w) \/ PersistExtraction(w)
    BY <2>3, PersistStays
  <2> QED
    BY <1>1, <1>3, <2>1, <2>2, <2>3, LeavesRuns DEF Work
<1>4. ASSUME NEW w \in Executors,
             ClaimNext(w) \/ ClaimForTask(w) \/ Crash(w) \/ Throw(w) \/ SwallowApply(w)
      PROVE  CheckpointsStay /\ ResultsStay
  BY <1>1, <1>4, LeavesRuns
<1>5. CASE Elsewhere
  <2>1. UNCHANGED ckpt
    BY <1>5, ElsewhereRuns
  <2>2. ResultsStay
    BY <1>5, ElsewhereRuns, RecoveredRuns DEF ResultsStay
  <2> QED
    BY <1>2, <2>1, <2>2
<1> QED
  BY <1>3, <1>4, <1>5 DEF Next, Elsewhere

\* A checkpointed reply is never replaced and a result never taken back,
\* under every fault: the (run, step) row guards the insert of persistStep,
\* the unique key that of the extractions, and what finalizeCompleted writes
\* is never empty, since nobody comes past a primary without an answer.
THEOREM RepliesAreFinal == Spec => ReplyIsFinal
<1> DEFINE Inv == TypeInv /\ BillInv /\ ReplyInv
<1>1. Init => Inv
  BY TypeInit, BillInit, ReplyInit
<1>2. Inv /\ [Next]_vars => Inv'
  BY RunAssumption, TypeNext, BillNext, ReplyNext
<1>3. Inv /\ [Next]_vars =>
        [\A r \in RunIds :
           /\ \A s \in Steps : ckpt[r][s] # NoReply => ckpt'[r][s] = ckpt[r][s]
           /\ runs[r].final # NoResult => runs'[r].final # NoResult]_vars
  BY RunAssumption, AllStays DEF CheckpointsStay, ResultsStay
<1> HIDE DEF Inv
<1> QED
  BY <1>1, <1>2, <1>3, PTL DEF Spec, ReplyIsFinal

=============================================================================
