-------------------------- MODULE ApprovalGateProps --------------------------
(***************************************************************************)
(* What the approval gate promises: properties of ApprovalGate.            *)
(***************************************************************************)
EXTENDS ApprovalGate

\* A task awaits approval only while one of its proposals is pending: however
\* the last decisions, expiries and withdrawals of a task interleave, one of
\* them sees the others and frees the task (approvals.ts: "a decided proposal
\* never strands its task in awaiting_approval").  And no work that was
\* cancelled or replaced can still be approved (cancelTask: "can't be approved
\* for cancelled work").
TaskMatchesApprovals ==
  \A t \in Tasks :
    LET pending == {a \in Approvals : TaskOf[a] = t /\ rows[a] = "pending"}
    IN /\ rows[t] = "awaiting_approval" => pending # {}
       /\ rows[t] = "cancelled" => pending = {}

\* An approval is executed at most once, whoever decides it and however often,
\* unless a transaction was lost after its side effect (execute-on-approval.ts:
\* "an approval executes at most once, ever").  What the audit log says of an
\* execution is complete: a side effect is on record, or about to be, unless
\* its transaction was lost; and no record of one exists without its intent.
ExecutedOnceOnRecord ==
  \A a \in Approvals :
    /\ effects[a] > 1 => a \in torn
    /\ effects[a] > 0 => \/ {<<"intent", a>>, <<"acted", a>>}
                              \subseteq log \cup UNION {entries[s] : s \in Sessions}
                         \/ a \in torn
    /\ <<"acted", a>> \in log => effects[a] > 0 /\ <<"intent", a>> \in log

\* A decision, withdrawal or expiry that frees a task never brings a cancelled
\* one back: the audit lock keeps the cancellation out between the read and the
\* UPDATE of reconcileTaskAuthorization (tasks.ts: "Cancelling is the end of a
\* task's life").  The sweeps that reconcile without having written anything
\* first hold no lock there.
DecisionsKeepCancelled ==
  [][\A t \in Tasks, s \in Sessions :
       rows[t] = "cancelled" /\ rows'[t] # "cancelled" /\ at[s] = "commit" /\ at'[s] # "commit"
         => arg[s].op = "repair"]_gateVars

\* The same of every writer.
CancelledIsFinal ==
  [][\A t \in Tasks : rows[t] = "cancelled" => rows'[t] = "cancelled"]_gateVars

\* What was approved and executed is not withdrawn (withdrawAuthorizedAction:
\* "structurally forbids withdrawal after execution").
ExecutedIsNotWithdrawn ==
  [][\A a \in Approvals :
       <<"acted", a>> \in log /\ rows[a] = "approved" => rows'[a] # "withdrawn"]_gateVars

\* Every request ends: it commits, is refused, or is undone.  decideApproval
\* locks an approval and then its task, cancelTask the other way round, and
\* both queue for the audit lock.
RequestsEnd ==
  \A s \in Sessions : at[s] # "idle" ~> at[s] = "idle"
=============================================================================
