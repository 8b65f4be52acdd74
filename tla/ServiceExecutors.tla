-------------------------- MODULE ServiceExecutors --------------------------
(***************************************************************************)
(* The executors of approved actions other than git_pr, call by call:       *)
(* deployments, edge functions, the customer records of AccurateBids and    *)
(* work handed to another workspace.                                        *)
(*   src/src/domain/vercel/mutation-executor.ts                             *)
(*   src/src/domain/supabase/deploy-executor.ts                             *)
(*   src/src/domain/execution/accuratebids-quote-executor.ts                *)
(*   src/src/domain/execution/org-delegation-executor.ts                    *)
(*                                                                         *)
(* The services belong to others: they change between two calls, and the    *)
(* answer to a call that took effect may be lost.                           *)
(***************************************************************************)
EXTENDS Naturals, FiniteSets

CONSTANTS
  ServiceOps,           \* the operations asked for
  MaxServiceAttempts,   \* bound on the attempts, each on an approval of its own
  MaxServiceChanges     \* bound on what others do

ASSUME ServiceAssumption ==
  /\ ServiceOps \subseteq {"redeploy", "promote", "rollback", "deploy_function", "quote",
                           "invoice", "reply", "send", "delegate"}
  /\ MaxServiceAttempts \in Nat /\ MaxServiceChanges \in Nat

VARIABLES
  service,          \* what the actions are about, outside
  execution,        \* the attempt under way
  serviceEffects,   \* ghost: the attempt changed something
  replaced,         \* ghost: the deployment from which the attempt moved production
  serviceAttempts,
  serviceChanges

serviceVars == <<service, execution, serviceEffects, replaced, serviceAttempts, serviceChanges>>

VercelOps == {"redeploy", "promote", "rollback"}
AccurateBidsOps == {"quote", "invoice", "reply", "send"}
NoExecution == [op |-> "none", dry |-> FALSE, step |-> "none", outcome |-> "none", retry |-> FALSE,
                moved |-> FALSE]

\* production: the deployment that has the traffic, the reviewed current one,
\* the target, or another; ready: the target is READY at the reviewed commit;
\* settled: the inquiry was answered, the quote invoiced; manager: the target
\* workspace's General Manager is an enabled primary employee.
ServicesTypeOK ==
  /\ service \in [production : {"expected", "target", "other"}, ready : BOOLEAN, settled : BOOLEAN,
                  manager : BOOLEAN]
  /\ execution \in [op : ServiceOps \cup {"none"}, dry : BOOLEAN,
                    step : {"none", "gates", "deployment", "project", "redeploy", "readBack", "move", "pointer",
                            "source", "deploy", "post", "savepoint"},
                    outcome : {"none", "succeeded", "failed", "blocked", "not_executed", "ambiguous"},
                    retry : BOOLEAN, moved : BOOLEAN]
  /\ serviceEffects \in BOOLEAN /\ replaced \in {"none", "expected", "target", "other"}
  /\ serviceAttempts \in 0..MaxServiceAttempts /\ serviceChanges \in 0..MaxServiceChanges

ServicesInit ==
  /\ service = [production |-> "expected", ready |-> TRUE, settled |-> FALSE, manager |-> TRUE]
  /\ execution = NoExecution
  /\ serviceEffects = FALSE /\ replaced = "none" /\ serviceAttempts = 0 /\ serviceChanges = 0

\* Somebody moves production, removes the deployment, settles the record or
\* replaces the manager.  moved: production did since the attempt looked at it.
OthersMove ==
  /\ serviceChanges < MaxServiceChanges /\ serviceChanges' = serviceChanges + 1
  /\ \/ \E d \in {"expected", "target", "other"} \ {service.production} :
          /\ service' = [service EXCEPT !.production = d]
          /\ execution' = [execution EXCEPT !.moved = @ \/ execution.step = "move"]
     \/ service' \in {[service EXCEPT !.ready = FALSE], [service EXCEPT !.settled = TRUE],
                      [service EXCEPT !.manager = ~@]} /\ UNCHANGED execution
  /\ UNCHANGED <<serviceEffects, replaced, serviceAttempts>>

-----------------------------------------------------------------------------
Continue(step) == execution' = [execution EXCEPT !.step = step]
Results(outcome, retryAllowed) ==
  execution' = [execution EXCEPT !.step = "none", !.outcome = outcome, !.retry = retryAllowed]
At(step) == execution.step = step
Reading == UNCHANGED <<service, serviceEffects, replaced, serviceAttempts, serviceChanges>>

\* A dry run ends where the side effect would begin.
Effect(step) == IF execution.dry THEN Results("not_executed", FALSE) ELSE Continue(step)

\* A call that changes something outside, if that is possible: answered, or
\* with the answer lost or a 5xx; or refused, or lost before it took effect.
Call(possible, new, answer) ==
  \/ possible /\ answer \in {"ok", "unknown"} /\ service' = new /\ serviceEffects' = TRUE
  \/ answer \in {"definite", "unknown"} /\ UNCHANGED <<service, serviceEffects>>
Calling == UNCHANGED <<serviceAttempts, serviceChanges>>
ServiceAnswers == {"ok", "definite", "unknown"}

\* isDefinite: a 4xx refused before anything happened; any other error may not have.
Definitely(answer, outcome) ==
  CASE answer = "ok" -> outcome
    [] answer = "definite" -> Results("failed", FALSE)
    [] answer = "unknown" -> Results("ambiguous", FALSE)

Execute(op, dry) ==
  /\ execution.step = "none" /\ serviceAttempts < MaxServiceAttempts
  /\ serviceAttempts' = serviceAttempts + 1 /\ serviceEffects' = FALSE /\ replaced' = "none"
  /\ execution' = [NoExecution EXCEPT !.op = op, !.dry = dry, !.step = "gates"]
  /\ UNCHANGED <<service, serviceChanges>>

\* The payload, its digest, the links and the configuration; work for another
\* workspace is refused without a manager or for want of authority.
ServiceGates ==
  /\ At("gates") /\ Reading
  /\ \/ Results("blocked", FALSE)
     \/ execution.op \in VercelOps /\ Continue("deployment")
     \/ execution.op = "deploy_function" /\ Continue("source")
     \/ execution.op \in AccurateBidsOps /\ Effect("post")
     \/ execution.op = "delegate" /\ Effect("savepoint")

-----------------------------------------------------------------------------
(* Vercel *)

GetDeployment ==
  /\ At("deployment") /\ Reading
  /\ \/ Results("failed", TRUE)
     \/ ~service.ready /\ Results("blocked", FALSE)
     \/ service.ready /\ (Continue("project") \/ (execution.op = "rollback" /\ Results("blocked", FALSE)))

\* Seeded bug: the traffic may be anywhere but at the target.
GetProjectStateOnly ==
  /\ At("project") /\ Reading
  /\ \/ Results("failed", TRUE)
     \/ execution.op = "redeploy" /\ Effect("redeploy")
     \/ /\ execution.op # "redeploy"
        /\ IF service.production # "target" THEN Effect("move") ELSE Results("blocked", FALSE)

\* The traffic must be where it was when the action was reviewed.
GetProjectState ==
  /\ At("project") /\ Reading
  /\ \/ Results("failed", TRUE)
     \/ execution.op = "redeploy" /\ Effect("redeploy")
     \/ /\ execution.op # "redeploy"
        /\ IF service.production = "expected" THEN Effect("move") ELSE Results("blocked", FALSE)

Redeploy ==
  /\ At("redeploy") /\ Calling /\ UNCHANGED replaced
  /\ \E answer \in ServiceAnswers :
       Call(service.ready, service, answer) /\ Definitely(answer, Continue("readBack"))

\* It must be read back at the reviewed commit.
ReadBack == At("readBack") /\ Reading /\ (Results("succeeded", FALSE) \/ Results("ambiguous", FALSE))

\* promote and rollback name the target and nothing that production must be.
MovePointer ==
  /\ At("move") /\ Calling
  /\ replaced' = service.production
  /\ \E answer \in ServiceAnswers :
       /\ Call(service.ready, [service EXCEPT !.production = "target"], answer)
       /\ Definitely(answer, Continue("pointer"))

VerifyPointerMoved ==
  /\ At("pointer") /\ Reading
  /\ \/ Results("ambiguous", FALSE)
     \/ service.production = "target" /\ Results("succeeded", FALSE)

-----------------------------------------------------------------------------
(* Supabase: the bytes are read at a commit, which nobody can change. *)

ReadSource ==
  /\ At("source") /\ Reading
  /\ Results("failed", TRUE) \/ Results("blocked", FALSE) \/ Effect("deploy")

\* The read that follows a deploy cannot change its outcome.
DeployEdgeFunction ==
  /\ At("deploy") /\ Calling /\ UNCHANGED replaced
  /\ \E answer \in ServiceAnswers : Call(TRUE, service, answer) /\ Definitely(answer, Results("succeeded", FALSE))

-----------------------------------------------------------------------------
(* AccurateBids *)

\* Seeded bug: a server error is taken for a refusal that may be retried.
PostAndRetry ==
  /\ At("post") /\ Calling /\ UNCHANGED replaced
  /\ \E answer \in ServiceAnswers :
       /\ Call(~service.settled, service, answer)
       /\ IF answer = "ok" THEN Results("succeeded", FALSE) ELSE Results("failed", TRUE)

\* A record that was settled already is refused with a 409, which blocks all
\* but a quote; a refusal of a send for what it asks blocks it too.
PostToAccurateBids ==
  LET op == execution.op
      settles == op \in {"invoice", "reply"}
  IN /\ At("post") /\ Calling /\ UNCHANGED replaced
     /\ \E answer \in ServiceAnswers :
          /\ Call(settles => ~service.settled, [service EXCEPT !.settled = @ \/ settles], answer)
          /\ \/ answer = "ok" /\ Results("succeeded", FALSE)
             \/ answer = "unknown" /\ Results("ambiguous", FALSE)
             \/ answer = "definite" /\ Results("failed", TRUE)
             \/ answer = "definite" /\ op # "quote" /\ Results("blocked", FALSE)

-----------------------------------------------------------------------------
(* Delegation: a savepoint that holds the task, its job and its audit rows. *)

CreateDelegatedTask ==
  /\ At("savepoint") /\ Calling /\ UNCHANGED <<service, replaced>>
  /\ \/ service.manager /\ serviceEffects' = TRUE /\ Results("succeeded", FALSE)
     \/ UNCHANGED serviceEffects /\ Results("failed", FALSE)

-----------------------------------------------------------------------------
ServiceCall ==
  \/ ServiceGates \/ GetDeployment \/ GetProjectState \/ Redeploy \/ ReadBack \/ MovePointer
  \/ VerifyPointerMoved \/ ReadSource \/ DeployEdgeFunction \/ PostToAccurateBids \/ CreateDelegatedTask

ServicesNext ==
  \/ OthersMove \/ ServiceCall
  \/ \E op \in ServiceOps, dry \in BOOLEAN : Execute(op, dry)

ServicesSpec == ServicesInit /\ [][ServicesNext]_serviceVars

-----------------------------------------------------------------------------
ServiceContract ==
  INSTANCE ExecutorContract WITH report <- execution.outcome, retry <- execution.retry,
                                 touched <- serviceEffects

\* Every one of these executors keeps the contract of all executors: a failed,
\* blocked or dry attempt did nothing, a success did, and what may have
\* happened is not offered for a retry, though answers are lost and the
\* services change between the checks, the call and the second look.
ServicesKeepContract == ServiceContract!Spec

\* An approved promote or rollback takes the traffic from the deployment that
\* had it when the action was reviewed ("refusing a stale operation"), unless
\* production moved between the last look and the call, which names no such
\* deployment.
PointerWasReviewed == replaced \in {"none", "expected"} \/ execution.moved
=============================================================================
