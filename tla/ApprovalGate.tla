---------------------------- MODULE ApprovalGate ----------------------------
(***************************************************************************)
(* The human approval gate and the dispatch of what it approved:           *)
(*   src/src/domain/approvals/approvals.ts, domain/execution/dispatch.ts,  *)
(*   execute-on-approval.ts, and the writers of other modules that settle  *)
(*   approvals (cancelTask, supersedeTask, finalizeCompleted).             *)
(*                                                                         *)
(* Every request is one READ COMMITTED transaction (withTenant): what it   *)
(* writes is seen by itself alone until it commits, an UPDATE keeps the    *)
(* lock of its row and writeAudit the organisation's advisory lock to the  *)
(* end of the transaction, and an error or a crash undoes all of it.  What *)
(* an executor did outside the database is not undone.                     *)
(***************************************************************************)
EXTENDS Naturals, FiniteSets

CONSTANTS
  Approvals,  \* the proposals the runs may make
  Tasks,      \* the tasks they belong to
  TaskOf,     \* the task that makes a proposal
  HashOf,     \* action type and payload hash of a proposal
  Sessions,   \* the requests in flight at one time
  Nobody,     \* no session
  Keep,       \* a row a transaction has not written
  Ops         \* what is asked for: decide, withdraw, cancel, page, repair

ASSUME GateAssumption ==
  /\ Approvals \cap Tasks = {}
  /\ TaskOf \in [Approvals -> Tasks]
  /\ \A t \in Tasks : \E a \in Approvals : TaskOf[a] = t
  /\ DOMAIN HashOf = Approvals
  /\ Nobody \notin Sessions
  /\ Ops \subseteq {"decide", "withdraw", "cancel", "page", "repair"}

VARIABLES
  rows,    \* committed status of approvals and tasks
  lapsed,  \* approvals past their expires_at
  log,     \* committed audit events
  dirty,   \* per session: the rows its transaction has written
  entries, \* per session: the audit events its transaction has written
  audit,   \* holder of the organisation's audit lock
  at,      \* per session: where its request is
  arg,     \* per session: what its request is about
  effects, \* ghost: side effects outside the database, per approval
  torn     \* ghost: approvals whose side effect lost its transaction

memory == <<dirty, entries, at, arg>>
ghosts == <<effects, torn>>
gateVars == <<rows, lapsed, log, dirty, entries, audit, at, arg, effects, torn>>

-----------------------------------------------------------------------------
Rows == Approvals \cup Tasks
Verdicts == {"approved", "rejected"}
ApprovalStatus == {"absent", "pending", "withdrawn", "expired"} \cup Verdicts
TaskStatus == {"running", "awaiting_approval", "completed", "cancelled"}
RowStatus == ApprovalStatus \cup TaskStatus

ASSUME KeepAssumption == Keep \notin RowStatus

\* The audit events that are read again: an execution intent, and the result
\* of an executor that acted.
Event == {"intent", "acted"} \X Approvals

\* Requests: the row they are about and its new status, the rows and tasks
\* still to be handled, the task being reconciled.
Arg == [op : Ops \cup {"none", "propose", "execute", "repair"}, row : Rows \cup {Nobody},
        value : RowStatus, todo : SUBSET Approvals, tasks : SUBSET Tasks,
        task : Tasks \cup {Nobody}]
NoArg == [op |-> "none", row |-> Nobody, value |-> "absent",
          todo |-> {}, tasks |-> {}, task |-> Nobody]

Labels == {"idle", "update", "matching", "audit", "settle", "settlePending",
           "settleTask", "settleAudit", "stranded", "proposeNext", "proposeAudit",
           "park", "commit", "authorize", "claim", "execute"}

Untouched == [x \in Rows |-> Keep]

GateTypeOK ==
  /\ rows \in [Rows -> RowStatus]
  /\ lapsed \subseteq Approvals
  /\ log \subseteq Event
  /\ dirty \in [Sessions -> [Rows -> RowStatus \cup {Keep}]]
  /\ entries \in [Sessions -> SUBSET Event]
  /\ audit \in Sessions \cup {Nobody}
  /\ at \in [Sessions -> Labels]
  /\ arg \in [Sessions -> Arg]
  /\ effects \in [Approvals -> Nat]
  /\ torn \subseteq Approvals

\* A task runs, or a run of it has ended and its proposals wait for a decision.
GateInit ==
  /\ \E waiting \in SUBSET Tasks :
       rows = [x \in Rows |->
                 IF x \in Tasks THEN IF x \in waiting THEN "awaiting_approval" ELSE "running"
                 ELSE IF TaskOf[x] \in waiting THEN "pending" ELSE "absent"]
  /\ lapsed = {}
  /\ log = {}
  /\ dirty = [s \in Sessions |-> Untouched]
  /\ entries = [s \in Sessions |-> {}]
  /\ audit = Nobody
  /\ at = [s \in Sessions |-> "idle"]
  /\ arg = [s \in Sessions |-> NoArg]
  /\ effects = [a \in Approvals |-> 0]
  /\ torn = {}

-----------------------------------------------------------------------------
(* Transactions. *)

\* What session s reads in a row: its own write, else the committed one.
Sees(s, x) == IF dirty[s][x] # Keep THEN dirty[s][x] ELSE rows[x]

\* Sessions whose uncommitted write of row x holds its lock against s.
RowHolders(s, x) == {o \in Sessions \ {s} : dirty[o][x] # Keep}
LockHolders(s) == {audit} \ {s, Nobody}

Goto(s, label) == at' = [at EXCEPT ![s] = label]
Write(s, x, status) == dirty' = [dirty EXCEPT ![s][x] = status]
Note(s, event) == entries' = [entries EXCEPT ![s] = @ \cup {<<event, arg[s].row>>}]

\* acquireAuditWriteLock: re-entrant, held to the end of the transaction.
TakeAuditLock(s) == LockHolders(s) = {} /\ audit' = s

PendingOf(s, t) == {a \in Approvals : TaskOf[a] = t /\ Sees(s, a) = "pending"}

\* The locks for which session s is waiting: the row of an UPDATE (one of the
\* rows, when an UPDATE has several left), or the audit lock.
Blockers(s) ==
  CASE at[s] \in {"update", "park"} -> RowHolders(s, arg[s].row)
    [] at[s] = "settleTask" -> RowHolders(s, arg[s].task)
    [] at[s] = "matching" ->
         IF \E a \in arg[s].todo : RowHolders(s, a) = {} THEN {}
         ELSE UNION {RowHolders(s, a) : a \in arg[s].todo}
    [] at[s] \in {"audit", "settleAudit", "proposeAudit", "claim"} -> LockHolders(s)
    [] OTHER -> {}

\* Nothing but each other keeps the sessions of this set waiting.
Deadlocked(s) ==
  \E group \in SUBSET Sessions :
    /\ s \in group
    /\ \A o \in group : Blockers(o) # {} /\ Blockers(o) \subseteq group

Leave(s) ==
  /\ dirty' = [dirty EXCEPT ![s] = Untouched]
  /\ entries' = [entries EXCEPT ![s] = {}]
  /\ audit' = IF audit = s THEN Nobody ELSE audit

\* Seeded bug: the audit lock is one of the session, not of the transaction.
CommitKeepingLock(s) ==
  /\ at[s] = "commit"
  /\ rows' = [x \in Rows |-> Sees(s, x)]
  /\ log' = log \cup entries[s]
  /\ dirty' = [dirty EXCEPT ![s] = Untouched]
  /\ entries' = [entries EXCEPT ![s] = {}]
  /\ IF arg[s].op = "decide" /\ arg[s].value = "approved"
     THEN Goto(s, "authorize") /\ arg' = [arg EXCEPT ![s].op = "execute"]
     ELSE Goto(s, "idle") /\ arg' = [arg EXCEPT ![s] = NoArg]
  /\ UNCHANGED <<lapsed, audit, ghosts>>

\* A commit; whoever decided to approve then asks for the execution, in a
\* transaction of its own (decide in approvals/actions.ts, inbox, ops chat).
Commit(s) ==
  /\ at[s] = "commit"
  /\ rows' = [x \in Rows |-> Sees(s, x)]
  /\ log' = log \cup entries[s]
  /\ Leave(s)
  /\ IF arg[s].op = "decide" /\ arg[s].value = "approved"
     THEN Goto(s, "authorize") /\ arg' = [arg EXCEPT ![s].op = "execute"]
     ELSE Goto(s, "idle") /\ arg' = [arg EXCEPT ![s] = NoArg]
  /\ UNCHANGED <<lapsed, ghosts>>

\* The transaction of s is undone: its process dies, its connection fails, or
\* the database picks it to break a deadlock.
Rollback(s) ==
  /\ Leave(s)
  /\ Goto(s, "idle") /\ arg' = [arg EXCEPT ![s] = NoArg]
  /\ torn' = torn \cup {a \in Approvals : <<"acted", a>> \in entries[s]}
  /\ UNCHANGED <<rows, lapsed, log, effects>>

GateCrash(s) == at[s] # "idle" /\ Rollback(s)
BreakDeadlock(s) == Deadlocked(s) /\ Rollback(s)

\* A row's expires_at passes.
Lapse(a) ==
  /\ rows[a] \in {"pending", "approved"} /\ a \notin lapsed
  /\ lapsed' = lapsed \cup {a}
  /\ UNCHANGED <<rows, log, audit, memory, ghosts>>

-----------------------------------------------------------------------------
(* reconcileTaskAuthorization: four statements, the last two of which are  *)
(* reached only by a task that awaits approval and has nothing pending.    *)

SettleRead(s) ==
  /\ at[s] = "settle"
  /\ IF arg[s].tasks = {}
     THEN /\ Goto(s, IF arg[s].op = "page" THEN "stranded" ELSE "commit")
          /\ arg' = [arg EXCEPT ![s].task = Nobody]
     ELSE \E t \in arg[s].tasks :
            /\ arg' = [arg EXCEPT ![s].task = t, ![s].tasks = @ \ {t}]
            /\ Goto(s, IF Sees(s, t) = "awaiting_approval" THEN "settlePending" ELSE "settle")
  /\ UNCHANGED <<rows, lapsed, log, dirty, entries, audit, ghosts>>

SettlePending(s) ==
  /\ at[s] = "settlePending"
  /\ Goto(s, IF PendingOf(s, arg[s].task) = {} THEN "settleTask" ELSE "settle")
  /\ UNCHANGED <<rows, lapsed, log, dirty, entries, audit, arg, ghosts>>

\* The UPDATE names the task alone: whatever its status has become.
SettleTask(s) ==
  /\ at[s] = "settleTask" /\ Blockers(s) = {}
  /\ Write(s, arg[s].task, "completed")
  /\ Goto(s, "settleAudit")
  /\ UNCHANGED <<rows, lapsed, log, entries, audit, arg, ghosts>>

SettleAudit(s) ==
  /\ at[s] = "settleAudit"
  /\ TakeAuditLock(s)
  /\ Goto(s, "settle")
  /\ UNCHANGED <<rows, lapsed, log, dirty, entries, arg, ghosts>>

-----------------------------------------------------------------------------
(* Deciding and withdrawing one approval. *)

Ask(s, op) == at[s] = "idle" /\ op \in Ops
Begin(s, label, request) == Goto(s, label) /\ arg' = [arg EXCEPT ![s] = request]

\* decideApproval up to its guards.  A pending row past its expiry is marked
\* expired and then the decision is refused by throwing, which undoes the
\* mark: such a request changes nothing and is not an action.
DecideApproval(s, a, decision) ==
  /\ Ask(s, "decide")
  /\ rows[a] = "pending" /\ a \notin lapsed
  /\ Begin(s, "update", [NoArg EXCEPT !.op = "decide", !.row = a, !.value = decision])
  /\ UNCHANGED <<rows, lapsed, log, dirty, entries, audit, ghosts>>

\* withdrawAuthorizedAction up to its guards.
WithdrawAuthorizedAction(s, a) ==
  /\ Ask(s, "withdraw")
  /\ rows[a] = "approved"
  /\ Begin(s, "update", [NoArg EXCEPT !.op = "withdraw", !.row = a, !.value = "withdrawn"])
  /\ UNCHANGED <<rows, lapsed, log, dirty, entries, audit, ghosts>>

\* Seeded bug: a cancelled task keeps its pending proposals.
UpdateRowAlone(s) ==
  /\ at[s] = "update" /\ Blockers(s) = {}
  /\ Write(s, arg[s].row, arg[s].value)
  /\ Goto(s, "audit")
  /\ UNCHANGED <<rows, lapsed, log, entries, audit, arg, ghosts>>

\* The UPDATE of both names the row alone; it waits for the row's lock.  The
\* same statement ends a task in cancelTask and supersedeTask.
UpdateRow(s) ==
  /\ at[s] = "update" /\ Blockers(s) = {}
  /\ Write(s, arg[s].row, arg[s].value)
  /\ IF arg[s].row \in Tasks
     THEN /\ Goto(s, "matching")
          /\ arg' = [arg EXCEPT ![s].todo = PendingOf(s, arg[s].row)]
     ELSE Goto(s, "audit") /\ UNCHANGED arg
  /\ UNCHANGED <<rows, lapsed, log, entries, audit, ghosts>>

\* The audit of what the transaction wrote, and with it the audit lock; then
\* the tasks of the approvals it settled are reconciled.
WriteAudit(s) ==
  /\ at[s] = "audit"
  /\ TakeAuditLock(s)
  /\ LET written == {a \in Approvals : dirty[s][a] # Keep}
     IN IF arg[s].op = "cancel"
        THEN Goto(s, "commit") /\ UNCHANGED arg
        ELSE /\ Goto(s, "settle")
             /\ arg' = [arg EXCEPT ![s].tasks = {TaskOf[a] : a \in written}]
  /\ UNCHANGED <<rows, lapsed, log, dirty, entries, ghosts>>

-----------------------------------------------------------------------------
(* Requests that settle the approvals of a predicate. *)

\* Seeded bug: a task may be cancelled while its run still works.
CancelRunningTask(s, t) ==
  /\ Ask(s, "cancel")
  /\ rows[t] # "cancelled"
  /\ Begin(s, "update", [NoArg EXCEPT !.op = "cancel", !.row = t, !.value = "cancelled"])
  /\ UNCHANGED <<rows, lapsed, log, dirty, entries, audit, ghosts>>

\* cancelTask and supersedeTask up to their guards.
CancelTask(s, t) ==
  /\ Ask(s, "cancel")
  /\ rows[t] \notin {"running", "cancelled"}
  /\ Begin(s, "update", [NoArg EXCEPT !.op = "cancel", !.row = t, !.value = "cancelled"])
  /\ UNCHANGED <<rows, lapsed, log, dirty, entries, audit, ghosts>>

\* The approvals page and the briefing: expireStaleApprovals, whose one UPDATE
\* takes the rows that match when it starts ...
OpenPage(s) ==
  /\ Ask(s, "page")
  /\ Begin(s, "matching",
           [NoArg EXCEPT !.op = "page", !.value = "expired",
                         !.todo = {a \in lapsed : rows[a] = "pending"}])
  /\ UNCHANGED <<rows, lapsed, log, dirty, entries, audit, ghosts>>

\* ... waits for each row's lock, and tests the row again before it writes.
\* withdrawPendingApprovalsForTask is the same statement over another predicate.
UpdateMatching(s, a) ==
  /\ at[s] = "matching" /\ a \in arg[s].todo /\ RowHolders(s, a) = {}
  /\ IF rows[a] = "pending"
     THEN Write(s, a, IF arg[s].op = "cancel" THEN "withdrawn" ELSE "expired")
     ELSE UNCHANGED dirty
  /\ arg' = [arg EXCEPT ![s].todo = @ \ {a}]
  /\ UNCHANGED <<rows, lapsed, log, entries, audit, at, ghosts>>

\* With no row left the events follow; a page that expired nothing has none.
UpdatedAll(s) ==
  /\ at[s] = "matching" /\ arg[s].todo = {}
  /\ Goto(s, IF arg[s].op = "page" /\ \A a \in Approvals : dirty[s][a] = Keep
             THEN "stranded" ELSE "audit")
  /\ UNCHANGED <<rows, lapsed, log, dirty, entries, audit, arg, ghosts>>

\* reconcileStrandedApprovalTasks: every task that awaits approval.
ListStranded(s) ==
  /\ at[s] = "stranded"
  /\ Goto(s, "settle")
  /\ arg' = [arg EXCEPT ![s].op = "repair",
                        ![s].tasks = {t \in Tasks : Sees(s, t) = "awaiting_approval"}]
  /\ UNCHANGED <<rows, lapsed, log, dirty, entries, audit, ghosts>>

\* manuallyReconcileTask.
ManuallyReconcileTask(s, t) ==
  /\ Ask(s, "repair")
  /\ Begin(s, "settle", [NoArg EXCEPT !.op = "repair", !.tasks = {t}])
  /\ UNCHANGED <<rows, lapsed, log, dirty, entries, audit, ghosts>>

-----------------------------------------------------------------------------
(* finalizeCompleted, phase 2: the proposals of a run, one after another. *)

Propose(s, t) ==
  /\ at[s] = "idle"
  /\ rows[t] = "running"
  /\ \A o \in Sessions : arg[o].op = "propose" => arg[o].row # t
  /\ Begin(s, "proposeNext", [NoArg EXCEPT !.op = "propose", !.row = t,
                                           !.todo = {a \in Approvals : TaskOf[a] = t}])
  /\ UNCHANGED <<rows, lapsed, log, dirty, entries, audit, ghosts>>

\* pendingDuplicateExists: the same action pending anywhere in the workspace
\* suppresses this one; either outcome is audited.
ProposeNext(s, a) ==
  /\ at[s] = "proposeNext" /\ a \in arg[s].todo
  /\ arg' = [arg EXCEPT ![s].todo = @ \ {a}]
  /\ IF \E b \in Approvals : HashOf[b] = HashOf[a] /\ Sees(s, b) = "pending"
     THEN UNCHANGED dirty
     ELSE Write(s, a, "pending")
  /\ Goto(s, "proposeAudit")
  /\ UNCHANGED <<rows, lapsed, log, entries, audit, ghosts>>

ProposeAudit(s) ==
  /\ at[s] = "proposeAudit"
  /\ TakeAuditLock(s)
  /\ Goto(s, IF arg[s].todo = {} THEN "park" ELSE "proposeNext")
  /\ UNCHANGED <<rows, lapsed, log, dirty, entries, arg, ghosts>>

\* The task waits for its proposals, or is completed if none survived.
Park(s) ==
  /\ at[s] = "park" /\ Blockers(s) = {}
  /\ Write(s, arg[s].row, IF \E a \in Approvals : dirty[s][a] = "pending"
                          THEN "awaiting_approval" ELSE "completed")
  /\ Goto(s, "commit")
  /\ UNCHANGED <<rows, lapsed, log, entries, audit, arg, ghosts>>

-----------------------------------------------------------------------------
(* executeApprovedIfEligible and executeApprovedAction. *)

\* What is still approved, in time and wanted is dispatched; all of it is read
\* before the dispatcher waits for the audit lock.  Policy, payload hash, risk
\* class and confirmation may refuse too.  A refusal changes nothing but the log.
Authorize(s) ==
  /\ at[s] = "authorize"
  /\ LET a == arg[s].row
         allowed == rows[a] = "approved" /\ a \notin lapsed /\ rows[TaskOf[a]] # "cancelled"
     IN \/ allowed /\ Goto(s, "claim") /\ UNCHANGED arg
        \/ Goto(s, "idle") /\ arg' = [arg EXCEPT ![s] = NoArg]
  /\ UNCHANGED <<rows, lapsed, log, dirty, entries, audit, ghosts>>

\* Seeded bug: the intent is left out, and an approval is executed again.
ClaimIntentSilently(s) ==
  /\ at[s] = "claim"
  /\ TakeAuditLock(s)
  /\ Goto(s, "execute")
  /\ UNCHANGED <<rows, lapsed, log, dirty, entries, arg, ghosts>>

\* Under the lock an earlier intent with the approval's idempotency key blocks;
\* otherwise the intent is recorded.
ClaimIntent(s) ==
  /\ at[s] = "claim"
  /\ TakeAuditLock(s)
  /\ IF <<"intent", arg[s].row>> \in log
     THEN Goto(s, "commit") /\ UNCHANGED entries
     ELSE Note(s, "intent") /\ Goto(s, "execute")
  /\ UNCHANGED <<rows, lapsed, log, dirty, arg, ghosts>>

\* The executor acts or does not; its result is recorded, and the transaction
\* of intent, side effect and result is left to commit.
ExecuteAction(s) ==
  /\ at[s] = "execute"
  /\ \/ /\ effects' = [effects EXCEPT ![arg[s].row] = @ + 1]
        /\ Note(s, "acted")
     \/ UNCHANGED <<effects, entries>>
  /\ Goto(s, "commit")
  /\ UNCHANGED <<rows, lapsed, log, dirty, audit, arg, torn>>

-----------------------------------------------------------------------------
Statement(s) ==
  \/ UpdateRow(s) \/ UpdatedAll(s) \/ \E a \in Approvals : UpdateMatching(s, a)
  \/ WriteAudit(s) \/ Commit(s) \/ ListStranded(s)
  \/ SettleRead(s) \/ SettlePending(s) \/ SettleTask(s) \/ SettleAudit(s)
  \/ \E a \in Approvals : ProposeNext(s, a)
  \/ ProposeAudit(s) \/ Park(s)
  \/ Authorize(s) \/ ClaimIntent(s) \/ ExecuteAction(s)

GateRequest(s) ==
  \/ \E a \in Approvals : \/ \E d \in Verdicts : DecideApproval(s, a, d)
                          \/ WithdrawAuthorizedAction(s, a)
  \/ \E t \in Tasks : CancelTask(s, t) \/ ManuallyReconcileTask(s, t) \/ Propose(s, t)
  \/ OpenPage(s)

GateNext ==
  \/ \E s \in Sessions : Statement(s) \/ GateRequest(s) \/ GateCrash(s) \/ BreakDeadlock(s)
  \/ \E a \in Approvals : Lapse(a)

GateSpec == GateInit /\ [][GateNext]_gateVars

\* Every statement and every executor call returns (both have timeouts); a
\* lock goes to its waiters in turn, so a request that waits gets it when it is
\* free again and again; the database looks for deadlocks.  Nobody has to ask.
GateFairness == \A s \in Sessions : SF_gateVars(Statement(s)) /\ WF_gateVars(BreakDeadlock(s))

=============================================================================
