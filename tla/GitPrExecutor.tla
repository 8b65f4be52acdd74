---------------------------- MODULE GitPrExecutor ----------------------------
(***************************************************************************)
(* The executor of approved git_pr actions, call by call, against a        *)
(* repository that others change at any time and a network that may lose   *)
(* the answer to a call that took effect.                                  *)
(*   src/src/domain/execution/git-pr-executor.ts                           *)
(*   src/src/domain/github/error-classify.ts                               *)
(*                                                                         *)
(* The repository is the one the action names: a base branch, the reviewed *)
(* pull request, the work branch, a workflow run.  Commits that others     *)
(* make are counted: version 0 is the one that was reviewed.               *)
(***************************************************************************)
EXTENDS Naturals, FiniteSets

CONSTANTS
  Operations,  \* the operations asked for
  MaxAttempts, \* bound on the attempts, each on an approval of its own
  MaxChanges   \* bound on what others do to the repository

ASSUME GitPrAssumption ==
  /\ Operations \subseteq {"create_pr", "merge_pr", "rerun_failed_workflow", "revert_commit"}
  /\ MaxAttempts \in Nat /\ MaxChanges \in Nat

VARIABLES
  repo,     \* the repository
  attempt,  \* the attempt under way: its operation, mode, next call and outcome
  gitEffects,  \* ghost: calls of this attempt that took effect
  baseSeen, \* ghost: version of the base when the revert branch was made
  attempts,
  changes

gitVars == <<repo, attempt, gitEffects, baseSeen, attempts, changes>>

Calls == {"createBranch", "commit", "openPr", "merge", "rerun", "createRef"}
GitPrOutcomes == {"succeeded", "failed", "blocked", "not_executed", "ambiguous"}
Steps == {"gates", "read", "checks", "branchHead", "prepare", "rereadBase", "after422",
          "verifyMerge", "verifyRevert"} \cup Calls
NoAttempt == [op |-> "none", dry |-> FALSE, step |-> "none", outcome |-> "none", retry |-> FALSE]

GitPrTypeOK ==
  /\ repo \in [base : 0..MaxChanges, branch : {"none", "ours", "other"}, workPr : BOOLEAN,
               pr : {"open", "draft", "closed", "merged"}, head : 0..MaxChanges,
               green : BOOLEAN, tries : 0..(MaxAttempts + MaxChanges)]
  /\ attempt \in [op : Operations \cup {"none"}, dry : BOOLEAN, step : Steps \cup {"none"},
                  outcome : GitPrOutcomes \cup {"none"}, retry : BOOLEAN]
  /\ gitEffects \subseteq Calls
  /\ baseSeen \in 0..MaxChanges /\ attempts \in 0..MaxAttempts /\ changes \in 0..MaxChanges

GitPrInit ==
  /\ repo = [base |-> 0, branch |-> "none", workPr |-> FALSE, pr |-> "open", head |-> 0,
             green |-> TRUE, tries |-> 0]
  /\ attempt = NoAttempt
  /\ gitEffects = {} /\ baseSeen = 0 /\ attempts = 0 /\ changes = 0

-----------------------------------------------------------------------------
(* The rest of the world. *)

OthersDo(new) == /\ changes < MaxChanges /\ changes' = changes + 1
               /\ repo' = new /\ UNCHANGED <<attempt, gitEffects, baseSeen, attempts>>

OthersChange ==
  \/ OthersDo([repo EXCEPT !.base = @ + 1])
  \/ repo.pr \in {"open", "draft"} /\ OthersDo([repo EXCEPT !.head = @ + 1, !.green = FALSE])
  \/ repo.pr = "open" /\ \E state \in {"draft", "closed", "merged"} : OthersDo([repo EXCEPT !.pr = state])
  \/ OthersDo([repo EXCEPT !.green = ~@])
  \/ repo.branch = "none" /\ OthersDo([repo EXCEPT !.branch = "other"])
  \/ OthersDo([repo EXCEPT !.tries = @ + 1])

-----------------------------------------------------------------------------
Proceed(step) == attempt' = [attempt EXCEPT !.step = step]
Report(outcome) ==
  attempt' = [attempt EXCEPT !.step = "none", !.outcome = outcome, !.retry = FALSE]
ReturnRetryable ==
  attempt' = [attempt EXCEPT !.step = "none", !.outcome = "failed", !.retry = TRUE]
AtStep(step) == attempt.step = step
OnlyLooks == UNCHANGED <<repo, gitEffects, baseSeen, attempts, changes>>

\* A call that changes the repository: it takes effect (the repository becomes
\* new) and is answered, it takes effect and the answer is lost or a 5xx, or it
\* does not; a 4xx is definite, and possible always.
Mutate(call, possible, new, answer) ==
  \/ possible /\ repo' = new /\ gitEffects' = gitEffects \cup {call} /\ answer \in {"ok", "unknown"}
  \/ answer \in {"definite", "unknown"} /\ UNCHANGED <<repo, gitEffects>>

Answers == {"ok", "definite", "unknown"}

ExecuteGitPr(op, dry) ==
  /\ attempt.step = "none" /\ attempts < MaxAttempts
  /\ attempts' = attempts + 1 /\ gitEffects' = {} /\ baseSeen' = 0
  /\ attempt' = [op |-> op, dry |-> dry, step |-> "gates", outcome |-> "none", retry |-> FALSE]
  /\ UNCHANGED <<repo, changes>>

\* The payload, link, write policy and placeholder gates.
Gates == AtStep("gates") /\ (Report("blocked") \/ Proceed("read")) /\ OnlyLooks

-----------------------------------------------------------------------------
(* create_pr *)

\* A dry run ends before the tree is read; a tree that cannot be read or shows
\* that a file would lose its content stops it.
ReadTree ==
  /\ AtStep("read") /\ attempt.op = "create_pr"
  /\ IF attempt.dry THEN Report("not_executed")
     ELSE ReturnRetryable \/ Report("blocked") \/ Proceed("createBranch")
  /\ OnlyLooks

\* Every error but a 422 is taken to have had no effect; a 422, to mean that
\* the branch is there.
CreateBranch ==
  /\ AtStep("createBranch")
  /\ \E answer \in Answers :
       /\ Mutate("createBranch", repo.branch = "none", [repo EXCEPT !.branch = "ours"], answer)
       /\ CASE answer = "ok" -> Proceed("commit")
            [] answer = "definite" -> Proceed("commit") \/ ReturnRetryable
            [] answer = "unknown" -> ReturnRetryable
  /\ UNCHANGED <<baseSeen, attempts, changes>>

CommitToBranch ==
  /\ AtStep("commit")
  /\ \E answer \in Answers :
       /\ Mutate("commit", repo.branch # "none", repo, answer)
       /\ IF answer = "ok" THEN Proceed("openPr") ELSE Report("ambiguous")
  /\ UNCHANGED <<baseSeen, attempts, changes>>

\* Seeded bug: a pull request that could not be opened is a plain failure.
OpenPullRequestFails ==
  /\ AtStep("openPr")
  /\ \E answer \in Answers :
       /\ Mutate("openPr", repo.branch # "none" /\ ~repo.workPr, [repo EXCEPT !.workPr = TRUE], answer)
       /\ IF answer # "ok" THEN ReturnRetryable
          ELSE IF attempt.op = "create_pr" THEN Report("succeeded") ELSE Proceed("verifyRevert")
  /\ UNCHANGED <<baseSeen, attempts, changes>>

\* The last call of create_pr and of revert_commit.
OpenPullRequest ==
  /\ AtStep("openPr")
  /\ \E answer \in Answers :
       /\ Mutate("openPr", repo.branch # "none" /\ ~repo.workPr, [repo EXCEPT !.workPr = TRUE], answer)
       /\ IF answer # "ok" THEN Report("ambiguous")
          ELSE IF attempt.op = "create_pr" THEN Report("succeeded") ELSE Proceed("verifyRevert")
  /\ UNCHANGED <<baseSeen, attempts, changes>>

-----------------------------------------------------------------------------
(* merge_pr *)

ReadPullRequest ==
  /\ AtStep("read") /\ attempt.op = "merge_pr"
  /\ \/ ReturnRetryable
     \/ IF repo.pr = "open" /\ repo.head = 0 THEN Proceed("checks") ELSE Report("blocked")
  /\ OnlyLooks

ReadChecks ==
  /\ AtStep("checks")
  /\ \/ ReturnRetryable
     \/ IF ~repo.green THEN Report("blocked")
        ELSE IF attempt.dry THEN Report("not_executed") ELSE Proceed("merge")
  /\ OnlyLooks

\* Seeded bug: the merge is not bound to the reviewed head.
MergeAnyHead ==
  /\ AtStep("merge")
  /\ \E answer \in Answers :
       /\ Mutate("merge", repo.pr = "open", [repo EXCEPT !.pr = "merged"], answer)
       /\ CASE answer = "ok" -> Proceed("verifyMerge")
            [] answer = "definite" -> Report("failed")
            [] answer = "unknown" -> Report("ambiguous")
  /\ UNCHANGED <<baseSeen, attempts, changes>>

\* The sha in the call makes the repository refuse another head.  An answer
\* that does not confirm the merge is as good as none.
MergePullRequest ==
  /\ AtStep("merge")
  /\ \E answer \in Answers :
       /\ Mutate("merge", repo.pr = "open" /\ repo.head = 0, [repo EXCEPT !.pr = "merged"], answer)
       /\ CASE answer = "ok" -> Proceed("verifyMerge")
            [] answer = "definite" -> Report("failed")
            [] answer = "unknown" -> Report("ambiguous")
  /\ UNCHANGED <<baseSeen, attempts, changes>>

\* The second read may fail; if it does not show the merge, nothing is certain.
VerifyMerge ==
  /\ AtStep("verifyMerge")
  /\ Report("succeeded") \/ Report("ambiguous")
  /\ OnlyLooks

-----------------------------------------------------------------------------
(* rerun_failed_workflow *)

ReadRun ==
  /\ AtStep("read") /\ attempt.op = "rerun_failed_workflow"
  /\ \/ ReturnRetryable
     \/ IF repo.tries # 0 THEN Report("blocked")
        ELSE IF attempt.dry THEN Report("not_executed") ELSE Proceed("rerun")
  /\ OnlyLooks

\* Nothing binds the call to the attempt that was read.
Rerun ==
  /\ AtStep("rerun")
  /\ \E answer \in Answers :
       /\ Mutate("rerun", TRUE, [repo EXCEPT !.tries = @ + 1], answer)
       /\ CASE answer = "ok" -> Report("succeeded")
            [] answer = "definite" -> Report("failed")
            [] answer = "unknown" -> Report("ambiguous")
  /\ UNCHANGED <<baseSeen, attempts, changes>>

-----------------------------------------------------------------------------
(* revert_commit *)

\* Commits, ancestry and trees are read and the paths compared: a conflict, an
\* unsupported entry or a revert of nothing is blocked.
ReadRevert ==
  /\ AtStep("read") /\ attempt.op = "revert_commit"
  /\ \/ ReturnRetryable \/ Report("failed") \/ Report("blocked")
     \/ /\ repo.base = 0
        /\ IF attempt.dry THEN Report("not_executed") ELSE Proceed("branchHead")
  /\ OnlyLooks

ReadBranchHead ==
  /\ AtStep("branchHead")
  /\ \/ ReturnRetryable
     \/ IF repo.branch # "none" THEN Report("blocked") ELSE Proceed("prepare")
  /\ OnlyLooks

\* createTree and createCommit make objects that nothing refers to.
PrepareRevert ==
  /\ AtStep("prepare")
  /\ ReturnRetryable \/ Report("failed") \/ Proceed("rereadBase")
  /\ OnlyLooks

RereadBase ==
  /\ AtStep("rereadBase")
  /\ \/ ReturnRetryable
     \/ IF repo.base # 0 THEN Report("blocked") ELSE Proceed("createRef")
  /\ OnlyLooks

\* A 422 is looked into, another definite error is a failure.  A request that
\* is sent twice on its way may be answered 422 after it took effect.
CreateRef ==
  /\ AtStep("createRef")
  /\ \E answer \in Answers :
       /\ Mutate("createRef", repo.branch = "none", [repo EXCEPT !.branch = "ours"], answer)
       /\ CASE answer = "ok" -> Proceed("openPr")
            [] answer = "definite" -> Proceed("after422") \/ (repo.branch = "none" /\ Report("failed"))
            [] answer = "unknown" -> Report("ambiguous") \/ (repo.branch = "none" /\ Proceed("after422"))
  /\ baseSeen' = repo.base
  /\ UNCHANGED <<attempts, changes>>

\* The branch may be ours after all: a repeated request finds its own ref.
After422 ==
  /\ AtStep("after422")
  /\ \/ Report("ambiguous")
     \/ repo.branch = "none" /\ Report("failed")
     \/ repo.branch = "other" /\ Report("blocked")
  /\ OnlyLooks

VerifyRevert ==
  /\ AtStep("verifyRevert")
  /\ \/ Report("ambiguous")
     \/ repo.base = 0 /\ repo.branch = "ours" /\ Report("succeeded")
  /\ OnlyLooks

-----------------------------------------------------------------------------
GitPrCall ==
  \/ Gates \/ ReadTree \/ CreateBranch \/ CommitToBranch \/ OpenPullRequest
  \/ ReadPullRequest \/ ReadChecks \/ MergePullRequest \/ VerifyMerge
  \/ ReadRun \/ Rerun
  \/ ReadRevert \/ ReadBranchHead \/ PrepareRevert \/ RereadBase \/ CreateRef \/ After422
  \/ VerifyRevert

GitPrNext ==
  \/ OthersChange \/ GitPrCall
  \/ \E op \in Operations, dry \in BOOLEAN : ExecuteGitPr(op, dry)

GitPrSpec == GitPrInit /\ [][GitPrNext]_gitVars

-----------------------------------------------------------------------------
\* The gitEffects a report answers for.  A branch of create_pr whose creation was
\* not confirmed is reported as no side effect and may be retried.
Visible == gitEffects \ {"createBranch"}

Contract ==
  INSTANCE ExecutorContract WITH report <- attempt.outcome, retry <- attempt.retry,
                                 touched <- Visible # {}

\* Every operation keeps the executor's contract: what is reported failed,
\* blocked or a dry run did nothing, what succeeded was done, and what may have
\* happened is not offered for a retry, wherever an answer is lost and whatever
\* others do in between.
KeepsExecutorContract == Contract!Spec

\* What is merged is the head that was reviewed, although it may move between
\* the check and the call; and a revert that is reported done branched off the
\* base that was reviewed, although it may move at any time.
ActsOnWhatWasReviewed ==
  /\ "merge" \in gitEffects => repo.head = 0
  /\ attempt.op = "revert_commit" /\ attempt.outcome = "succeeded" => baseSeen = 0
=============================================================================
