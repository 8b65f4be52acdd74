--------------------------- MODULE ExecutorProofs ---------------------------
(***************************************************************************)
(* The approval gate and the executors behind it.                          *)
(*                                                                         *)
(* Every executor of approved actions keeps the contract of executors, and *)
(* acts on what was reviewed.  That a report is true depends on where an   *)
(* attempt is: which of its calls may have taken effect by then.  The      *)
(* invariants say this step by step.  For git_pr they also say what others *)
(* can no longer change: a merged pull request keeps its head, a branch    *)
(* that is ours stays, and the base only moves on.                         *)
(*                                                                         *)
(* The gate executes an approval once because an intent is written and read *)
(* under the audit lock, and it keeps a task and its proposals in step     *)
(* because everything that settles a proposal commits under that lock.     *)
(***************************************************************************)
EXTENDS GitPrExecutor, ServiceExecutors, ApprovalGateProps, TLAPS

-----------------------------------------------------------------------------
(* git_pr *)

Repository ==
  [base : 0..MaxChanges, branch : {"none", "ours", "other"}, workPr : BOOLEAN,
   pr : {"open", "draft", "closed", "merged"}, head : 0..MaxChanges,
   green : BOOLEAN, tries : 0..(MaxAttempts + MaxChanges)]
AnyRepository ==
  [base : Nat, branch : {"none", "ours", "other"}, workPr : BOOLEAN,
   pr : {"open", "draft", "closed", "merged"}, head : Nat, green : BOOLEAN, tries : Nat]
Attempt ==
  [op : Operations \cup {"none"}, dry : BOOLEAN, step : Steps \cup {"none"},
   outcome : GitPrOutcomes \cup {"none"}, retry : BOOLEAN]

\* While an attempt runs it has no outcome, and once it has one that is true of
\* what it did; who has none and does not run has not started.
Truthful ==
  /\ attempt.step # "none" => attempt.outcome = "none"
  /\ attempt.retry => attempt.outcome = "failed"
  /\ attempt.step = "none" /\ attempt.outcome = "none" => gitEffects = {}
  /\ attempt.outcome = "succeeded" => Visible # {}
  /\ attempt.outcome \in {"failed", "blocked", "not_executed"} => Visible = {}

\* The calls that may have taken effect before each step.
LeftAlone == {"gates", "read", "checks", "branchHead", "prepare", "rereadBase", "createBranch",
              "merge", "rerun", "createRef"}
EffectsAt ==
  /\ attempt.step \in LeftAlone => gitEffects = {}
  /\ attempt.step = "commit" => gitEffects \subseteq {"createBranch"}
  /\ attempt.step = "after422" => gitEffects \subseteq {"createRef"}
  /\ attempt.step = "openPr" => gitEffects \cap {"commit", "createRef"} # {}
  /\ attempt.step = "verifyMerge" => "merge" \in gitEffects
  /\ attempt.step = "verifyRevert" => "openPr" \in gitEffects

\* The operations that come to these steps.
OpAt ==
  /\ attempt.step \in {"checks", "merge", "verifyMerge"} => attempt.op = "merge_pr"
  /\ attempt.step = "rerun" => attempt.op = "rerun_failed_workflow"

\* What others cannot undo: a base that moved on, a branch that is ours, a
\* merged pull request and its head.
Lasting ==
  /\ baseSeen <= repo.base
  /\ "createRef" \in gitEffects => repo.branch = "ours"
  /\ "merge" \in gitEffects => repo.pr = "merged" /\ repo.head = 0
  /\ attempt.op = "revert_commit" /\ attempt.outcome = "succeeded" => baseSeen = 0

\* Others change the repository once per change, an attempt reruns at most once.
Counted ==
  /\ repo.base <= changes /\ repo.head <= changes
  /\ repo.tries + (IF attempt.step = "none" THEN 0 ELSE 1) <= attempts + changes

GitInv == GitPrTypeOK /\ Truthful /\ EffectsAt /\ OpAt /\ Lasting /\ Counted

LEMMA GitInvInit == GitPrInit => GitInv
BY GitPrAssumption DEF GitPrInit, NoAttempt, GitInv, GitPrTypeOK, Truthful, EffectsAt, LeftAlone, OpAt,
  Lasting, Counted, Steps, Calls, GitPrOutcomes, Visible

\* What the three ways to go on change of an attempt.
LEMMA AttemptFields ==
  ASSUME attempt \in Attempt
  PROVE  /\ \A s \in Steps :
              Proceed(s) => /\ attempt' \in Attempt /\ attempt'.step = s /\ attempt'.op = attempt.op
                            /\ attempt'.outcome = attempt.outcome /\ attempt'.retry = attempt.retry
         /\ \A r \in GitPrOutcomes :
              Report(r) => /\ attempt' \in Attempt /\ attempt'.step = "none" /\ attempt'.op = attempt.op
                           /\ attempt'.outcome = r /\ ~attempt'.retry
         /\ ReturnRetryable => /\ attempt' \in Attempt /\ attempt'.step = "none"
                               /\ attempt'.op = attempt.op /\ attempt'.outcome = "failed" /\ attempt'.retry
BY DEF Attempt, Proceed, Report, ReturnRetryable, GitPrOutcomes

\* A step that only looks and goes on.
LEMMA GitProceeds ==
  ASSUME GitInv, OnlyLooks, attempt.step # "none", NEW s \in LeftAlone, Proceed(s), gitEffects = {},
         s \in {"checks", "merge"} => attempt.op = "merge_pr",
         s = "rerun" => attempt.op = "rerun_failed_workflow"
  PROVE  GitInv'
<1>1. s \in Steps
  BY DEF Steps, LeftAlone, Calls
<1>2. /\ attempt' \in Attempt /\ attempt'.step = s /\ attempt'.op = attempt.op
      /\ attempt'.outcome = attempt.outcome /\ attempt'.retry = attempt.retry
  BY <1>1, AttemptFields DEF GitInv, GitPrTypeOK, Attempt
<1>3. GitPrTypeOK'
  BY <1>2 DEF GitInv, GitPrTypeOK, Attempt, OnlyLooks
<1>4. Truthful' /\ EffectsAt' /\ OpAt'
  BY <1>2 DEF GitInv, Truthful, EffectsAt, OpAt, LeftAlone, OnlyLooks, Visible
<1>5. Lasting' /\ Counted'
  BY <1>2 DEF GitInv, Truthful, Lasting, Counted, OnlyLooks, LeftAlone
<1> QED
  BY <1>3, <1>4, <1>5 DEF GitInv

\* A step that only looks and ends the attempt.
LEMMA GitReports ==
  ASSUME GitInv, OnlyLooks, attempt.step # "none",
         NEW r \in GitPrOutcomes, Report(r) \/ (ReturnRetryable /\ r = "failed"),
         r = "succeeded" => Visible # {} /\ (attempt.op = "revert_commit" => baseSeen = 0),
         r \in {"failed", "blocked", "not_executed"} => Visible = {}
  PROVE  GitInv'
<1>1. /\ attempt' \in Attempt /\ attempt'.step = "none" /\ attempt'.op = attempt.op
      /\ attempt'.outcome = r /\ (attempt'.retry => r = "failed")
  BY AttemptFields DEF GitInv, GitPrTypeOK, Attempt
<1>2. GitPrTypeOK'
  BY <1>1 DEF GitInv, GitPrTypeOK, Attempt, OnlyLooks
<1>3. Truthful' /\ EffectsAt' /\ OpAt'
  BY <1>1 DEF GitInv, Truthful, EffectsAt, OpAt, LeftAlone, OnlyLooks, Visible, GitPrOutcomes
<1>4. Lasting'
  BY <1>1 DEF GitInv, Lasting, OnlyLooks
<1>5. Counted'
  <2>1. repo.tries \in Nat /\ attempts \in Nat /\ changes \in Nat
    BY GitPrAssumption DEF GitInv, GitPrTypeOK
  <2> QED
    BY <1>1, <2>1 DEF GitInv, Counted, OnlyLooks
<1> QED
  BY <1>2, <1>3, <1>4, <1>5 DEF GitInv

LEMMA CreateBranchKeeps == ASSUME GitInv, CreateBranch PROVE GitInv'
<1> USE DEF Mutate, AtStep, Answers
<1>1. \/ /\ repo.branch = "none" /\ repo' = [repo EXCEPT !.branch = "ours"]
         /\ gitEffects' = gitEffects \cup {"createBranch"}
      \/ UNCHANGED <<repo, gitEffects>>
  BY DEF CreateBranch
<1>2. /\ attempt' \in Attempt /\ attempt'.op = attempt.op
      /\ \/ attempt'.step = "commit" /\ attempt'.outcome = attempt.outcome /\ attempt'.retry = attempt.retry
         \/ attempt'.step = "none" /\ attempt'.outcome = "failed"
  BY AttemptFields DEF GitInv, GitPrTypeOK, Attempt, CreateBranch, Steps, Calls
<1>3. /\ attempt.step = "createBranch" /\ gitEffects = {} /\ attempt.outcome = "none" /\ ~attempt.retry
      /\ UNCHANGED <<baseSeen, attempts, changes>>
  BY DEF CreateBranch, GitInv, GitPrTypeOK, EffectsAt, LeftAlone, Truthful
<1>4. GitPrTypeOK'
  BY <1>1, <1>2, <1>3 DEF GitInv, GitPrTypeOK, Attempt, Calls
<1>5. Truthful' /\ EffectsAt' /\ OpAt'
  BY <1>1, <1>2, <1>3 DEF Truthful, EffectsAt, OpAt, Visible, LeftAlone
<1>6. Lasting' /\ Counted'
  BY <1>1, <1>2, <1>3, GitPrAssumption DEF GitInv, GitPrTypeOK, Lasting, Counted
<1> QED
  BY <1>4, <1>5, <1>6 DEF GitInv

LEMMA CommitToBranchKeeps == ASSUME GitInv, CommitToBranch PROVE GitInv'
<1> USE DEF Mutate, AtStep, Answers
<1>1. \/ gitEffects' = gitEffects \cup {"commit"} /\ UNCHANGED repo
      \/ UNCHANGED <<repo, gitEffects>>
  BY DEF CommitToBranch
<1>2. /\ attempt' \in Attempt /\ attempt'.op = attempt.op
      /\ \/ attempt'.step = "openPr" /\ attempt'.outcome = attempt.outcome /\ attempt'.retry = attempt.retry /\ "commit" \in gitEffects'
         \/ attempt'.step = "none" /\ attempt'.outcome = "ambiguous" /\ ~attempt'.retry
  BY <1>1, AttemptFields DEF GitInv, GitPrTypeOK, Attempt, CommitToBranch, Steps, Calls, GitPrOutcomes
<1>3. /\ attempt.step = "commit" /\ gitEffects \subseteq {"createBranch"} /\ attempt.outcome = "none" /\ ~attempt.retry
      /\ UNCHANGED <<baseSeen, attempts, changes>>
  BY DEF CommitToBranch, GitInv, GitPrTypeOK, EffectsAt, LeftAlone, Truthful
<1>4. GitPrTypeOK'
  BY <1>1, <1>2, <1>3 DEF GitInv, GitPrTypeOK, Attempt, Calls
<1>5. Truthful' /\ EffectsAt' /\ OpAt'
  BY <1>1, <1>2, <1>3 DEF GitInv, OpAt, Truthful, EffectsAt, Visible, LeftAlone
<1>6. Lasting' /\ Counted'
  BY <1>1, <1>2, <1>3, GitPrAssumption DEF GitInv, GitPrTypeOK, Lasting, OpAt, Counted
<1> QED
  BY <1>4, <1>5, <1>6 DEF GitInv

LEMMA OpenPullRequestKeeps == ASSUME GitInv, OpenPullRequest PROVE GitInv'
<1> USE DEF Mutate, AtStep, Answers
<1>1. \/ /\ repo' = [repo EXCEPT !.workPr = TRUE] /\ gitEffects' = gitEffects \cup {"openPr"}
      \/ UNCHANGED <<repo, gitEffects>>
  BY DEF OpenPullRequest
<1>2. /\ attempt' \in Attempt /\ attempt'.op = attempt.op
      /\ \/ attempt'.step = "verifyRevert" /\ attempt'.outcome = attempt.outcome /\ attempt'.retry = attempt.retry /\ "openPr" \in gitEffects'
         \/ /\ attempt'.step = "none" /\ attempt'.outcome = "succeeded" /\ ~attempt'.retry
            /\ attempt.op = "create_pr" /\ "openPr" \in gitEffects'
         \/ attempt'.step = "none" /\ attempt'.outcome = "ambiguous" /\ ~attempt'.retry
  BY <1>1, AttemptFields DEF GitInv, GitPrTypeOK, Attempt, OpenPullRequest, Steps, Calls, GitPrOutcomes
<1>3. /\ attempt.step = "openPr" /\ gitEffects \cap {"commit", "createRef"} # {} /\ attempt.outcome = "none" /\ ~attempt.retry
      /\ UNCHANGED <<baseSeen, attempts, changes>>
  BY DEF OpenPullRequest, GitInv, GitPrTypeOK, EffectsAt, LeftAlone, Truthful
<1>4. GitPrTypeOK'
  BY <1>1, <1>2, <1>3 DEF GitInv, GitPrTypeOK, Attempt, Calls
<1>5. Truthful' /\ EffectsAt' /\ OpAt'
  BY <1>1, <1>2, <1>3 DEF GitInv, OpAt, Truthful, EffectsAt, Visible, LeftAlone
<1>6. Lasting' /\ Counted'
  BY <1>1, <1>2, <1>3, GitPrAssumption DEF GitInv, GitPrTypeOK, Lasting, OpAt, Counted
<1> QED
  BY <1>4, <1>5, <1>6 DEF GitInv

LEMMA MergePullRequestKeeps == ASSUME GitInv, MergePullRequest PROVE GitInv'
<1> USE DEF Mutate, AtStep, Answers
<1>1. \/ /\ repo.head = 0 /\ repo' = [repo EXCEPT !.pr = "merged"] /\ gitEffects' = gitEffects \cup {"merge"}
      \/ UNCHANGED <<repo, gitEffects>>
  BY DEF MergePullRequest
<1>2. /\ attempt' \in Attempt /\ attempt'.op = attempt.op
      /\ \/ attempt'.step = "verifyMerge" /\ attempt'.outcome = attempt.outcome /\ attempt'.retry = attempt.retry /\ "merge" \in gitEffects'
         \/ attempt'.step = "none" /\ attempt'.outcome = "failed" /\ ~attempt'.retry /\ UNCHANGED gitEffects
         \/ attempt'.step = "none" /\ attempt'.outcome = "ambiguous" /\ ~attempt'.retry
  BY <1>1, AttemptFields DEF GitInv, GitPrTypeOK, Attempt, MergePullRequest, Steps, Calls, GitPrOutcomes
<1>3. /\ attempt.step = "merge" /\ gitEffects = {} /\ attempt.outcome = "none" /\ ~attempt.retry
      /\ UNCHANGED <<baseSeen, attempts, changes>>
  BY DEF MergePullRequest, GitInv, GitPrTypeOK, EffectsAt, LeftAlone, Truthful
<1>4. GitPrTypeOK'
  BY <1>1, <1>2, <1>3 DEF GitInv, GitPrTypeOK, Attempt, Calls
<1>5. Truthful' /\ EffectsAt' /\ OpAt'
  BY <1>1, <1>2, <1>3 DEF GitInv, OpAt, Truthful, EffectsAt, Visible, LeftAlone
<1>6. Lasting' /\ Counted'
  BY <1>1, <1>2, <1>3, GitPrAssumption DEF GitInv, GitPrTypeOK, Lasting, OpAt, Counted
<1> QED
  BY <1>4, <1>5, <1>6 DEF GitInv

LEMMA RerunKeeps == ASSUME GitInv, Rerun PROVE GitInv'
<1> USE DEF Mutate, AtStep, Answers
<1>1. \/ /\ repo' = [repo EXCEPT !.tries = @ + 1] /\ gitEffects' = gitEffects \cup {"rerun"}
      \/ UNCHANGED <<repo, gitEffects>>
  BY DEF Rerun
<1>2. /\ attempt' \in Attempt /\ attempt'.op = attempt.op
      /\ \/ attempt'.step = "none" /\ attempt'.outcome = "succeeded" /\ ~attempt'.retry /\ "rerun" \in gitEffects'
         \/ attempt'.step = "none" /\ attempt'.outcome = "failed" /\ ~attempt'.retry /\ UNCHANGED gitEffects
         \/ attempt'.step = "none" /\ attempt'.outcome = "ambiguous" /\ ~attempt'.retry
  BY <1>1, AttemptFields DEF GitInv, GitPrTypeOK, Attempt, Rerun, Steps, Calls, GitPrOutcomes
<1>3. /\ attempt.step = "rerun" /\ gitEffects = {} /\ attempt.outcome = "none" /\ ~attempt.retry
      /\ UNCHANGED <<baseSeen, attempts, changes>>
  BY DEF Rerun, GitInv, GitPrTypeOK, EffectsAt, LeftAlone, Truthful
<1>4. Counted' /\ GitPrTypeOK'
  <2>1. /\ repo.tries \in Nat /\ repo.base \in Nat /\ attempts \in 0..MaxAttempts
        /\ changes \in 0..MaxChanges /\ repo.tries + 1 <= attempts + changes
    BY <1>3, GitPrAssumption DEF GitInv, GitPrTypeOK, Counted
  <2>2. /\ repo' \in Repository /\ repo'.tries \in {repo.tries, repo.tries + 1}
        /\ repo'.base = repo.base /\ repo'.head = repo.head
    BY <1>1, <2>1, GitPrAssumption DEF GitInv, GitPrTypeOK, Repository
  <2> QED
    BY <1>1, <1>2, <1>3, <2>1, <2>2 DEF GitInv, GitPrTypeOK, Attempt, Repository, Counted, Calls
<1>5. Truthful' /\ EffectsAt' /\ OpAt'
  BY <1>1, <1>2, <1>3 DEF GitInv, OpAt, Truthful, EffectsAt, Visible, LeftAlone
<1>6. Lasting'
  BY <1>1, <1>2, <1>3, GitPrAssumption DEF GitInv, GitPrTypeOK, Lasting, OpAt
<1> QED
  BY <1>4, <1>5, <1>6 DEF GitInv

LEMMA CreateRefKeeps == ASSUME GitInv, CreateRef PROVE GitInv'
<1> USE DEF Mutate, AtStep, Answers
<1>1. \/ /\ repo.branch = "none" /\ repo' = [repo EXCEPT !.branch = "ours"]
         /\ gitEffects' = gitEffects \cup {"createRef"}
      \/ UNCHANGED <<repo, gitEffects>>
  BY DEF CreateRef
<1>2. /\ attempt' \in Attempt /\ attempt'.op = attempt.op
      /\ \/ attempt'.step = "openPr" /\ attempt'.outcome = attempt.outcome /\ attempt'.retry = attempt.retry /\ "createRef" \in gitEffects'
         \/ attempt'.step = "after422" /\ attempt'.outcome = attempt.outcome /\ attempt'.retry = attempt.retry
         \/ attempt'.step = "none" /\ attempt'.outcome = "failed" /\ ~attempt'.retry /\ UNCHANGED gitEffects
         \/ attempt'.step = "none" /\ attempt'.outcome = "ambiguous" /\ ~attempt'.retry
  BY <1>1, AttemptFields DEF GitInv, GitPrTypeOK, Attempt, CreateRef, Steps, Calls, GitPrOutcomes
<1>3. /\ attempt.step = "createRef" /\ gitEffects = {} /\ attempt.outcome = "none" /\ ~attempt.retry
      /\ UNCHANGED <<attempts, changes>>
  BY DEF CreateRef, GitInv, GitPrTypeOK, EffectsAt, LeftAlone, Truthful
<1>4. GitPrTypeOK'
  BY <1>1, <1>2, <1>3 DEF GitInv, GitPrTypeOK, Attempt, Calls, CreateRef
<1>5. Truthful' /\ EffectsAt' /\ OpAt'
  BY <1>1, <1>2, <1>3 DEF GitInv, OpAt, Truthful, EffectsAt, Visible, LeftAlone
<1>6. Lasting' /\ Counted'
  BY <1>1, <1>2, <1>3, GitPrAssumption DEF GitInv, GitPrTypeOK, Lasting, OpAt, Counted, CreateRef
<1> QED
  BY <1>4, <1>5, <1>6 DEF GitInv

\* Steps that only look.  After a 422 the branch tells whether the attempt may
\* have made it; a revert is done if the base has not moved since.
LEMMA LooksKeep ==
  ASSUME GitInv,
         \/ Gates \/ ReadTree \/ ReadPullRequest \/ ReadChecks \/ VerifyMerge \/ ReadRun \/ ReadRevert
         \/ ReadBranchHead \/ PrepareRevert \/ RereadBase \/ After422 \/ VerifyRevert
  PROVE  GitInv'
<1> USE DEF AtStep
<1>1. CASE Gates
  BY <1>1, GitProceeds, GitReports DEF Gates, GitPrOutcomes, Visible, GitInv, EffectsAt, LeftAlone
<1>2. CASE ReadTree
  BY <1>2, GitProceeds, GitReports DEF ReadTree, GitPrOutcomes, Visible, GitInv, EffectsAt, LeftAlone
<1>3. CASE ReadPullRequest
  BY <1>3, GitProceeds, GitReports DEF ReadPullRequest, GitPrOutcomes, Visible, GitInv, EffectsAt, LeftAlone
<1>4. CASE ReadChecks
  BY <1>4, GitProceeds, GitReports DEF ReadChecks, GitPrOutcomes, Visible, GitInv, EffectsAt, LeftAlone, OpAt
<1>5. CASE VerifyMerge
  BY <1>5, GitReports DEF VerifyMerge, GitPrOutcomes, Visible, GitInv, EffectsAt, LeftAlone, OpAt
<1>6. CASE ReadRun
  BY <1>6, GitProceeds, GitReports DEF ReadRun, GitPrOutcomes, Visible, GitInv, EffectsAt, LeftAlone
<1>7. CASE ReadRevert
  BY <1>7, GitProceeds, GitReports DEF ReadRevert, GitPrOutcomes, Visible, GitInv, EffectsAt, LeftAlone
<1>8. CASE ReadBranchHead
  BY <1>8, GitProceeds, GitReports DEF ReadBranchHead, GitPrOutcomes, Visible, GitInv, EffectsAt, LeftAlone
<1>9. CASE PrepareRevert
  BY <1>9, GitProceeds, GitReports DEF PrepareRevert, GitPrOutcomes, Visible, GitInv, EffectsAt, LeftAlone
<1>10. CASE RereadBase
  BY <1>10, GitProceeds, GitReports DEF RereadBase, GitPrOutcomes, Visible, GitInv, EffectsAt, LeftAlone
<1>11. CASE After422
  BY <1>11, GitReports DEF After422, GitPrOutcomes, Visible, GitInv, EffectsAt, Lasting
<1>12. CASE VerifyRevert
  <2>1. baseSeen \in Nat /\ repo.base \in Nat /\ "openPr" \in Visible
    BY <1>12, GitPrAssumption DEF VerifyRevert, GitInv, GitPrTypeOK, EffectsAt, Visible
  <2>2. repo.base = 0 => baseSeen = 0
    BY <2>1 DEF GitInv, Lasting
  <2> QED
    BY <1>12, <2>1, <2>2, GitReports DEF VerifyRevert, GitPrOutcomes
<1> QED
  BY <1>1, <1>2, <1>3, <1>4, <1>5, <1>6, <1>7, <1>8, <1>9, <1>10, <1>11, <1>12

\* What the rest of the world may change.
Shift ==
  /\ repo' \in AnyRepository
  /\ repo.branch = "ours" => repo'.branch = "ours"
  /\ repo.pr = "merged" => repo'.pr = "merged" /\ repo'.head = repo.head
  /\ repo'.base \in {repo.base, repo.base + 1} /\ repo'.head \in {repo.head, repo.head + 1}
  /\ repo'.tries \in {repo.tries, repo.tries + 1}

LEMMA OthersShift == ASSUME repo \in AnyRepository, OthersChange PROVE Shift
<1>1. CASE OthersDo([repo EXCEPT !.base = @ + 1])
  BY <1>1 DEF AnyRepository, OthersDo, Shift
<1>2. CASE repo.pr \in {"open", "draft"} /\ OthersDo([repo EXCEPT !.head = @ + 1, !.green = FALSE])
  <2> DEFINE head == repo.head + 1
  <2>1. head \in Nat
    BY DEF AnyRepository
  <2>2. repo' = [repo EXCEPT !.head = head, !.green = FALSE]
    BY <1>2 DEF OthersDo
  <2> HIDE DEF head
  <2>3. repo' \in AnyRepository
    BY <2>1, <2>2 DEF AnyRepository
  <2>4. repo'.branch = repo.branch /\ repo'.pr = repo.pr /\ repo'.base = repo.base
        /\ repo'.head = head /\ repo'.tries = repo.tries
    BY <2>1, <2>2 DEF AnyRepository
  <2> QED
    BY <1>2, <2>3, <2>4 DEF Shift, head
<1>3. ASSUME repo.pr = "open", NEW state \in {"draft", "closed", "merged"}, OthersDo([repo EXCEPT !.pr = state])
      PROVE  Shift
  BY <1>3 DEF AnyRepository, OthersDo, Shift
<1>4. CASE OthersDo([repo EXCEPT !.green = ~@])
  BY <1>4 DEF AnyRepository, OthersDo, Shift
<1>5. CASE repo.branch = "none" /\ OthersDo([repo EXCEPT !.branch = "other"])
  BY <1>5 DEF AnyRepository, OthersDo, Shift
<1>6. CASE OthersDo([repo EXCEPT !.tries = @ + 1])
  <2>1. repo' \in AnyRepository
    BY <1>6 DEF AnyRepository, OthersDo
  <2>2. repo'.branch = repo.branch /\ repo'.pr = repo.pr /\ repo'.base = repo.base
        /\ repo'.head = repo.head /\ repo'.tries = repo.tries + 1
    BY <1>6 DEF AnyRepository, OthersDo
  <2> QED
    BY <2>1, <2>2 DEF Shift
<1> QED
  BY <1>1, <1>2, <1>3, <1>4, <1>5, <1>6 DEF OthersChange

LEMMA OthersKeep == ASSUME GitInv, OthersChange PROVE GitInv'
<1>1. UNCHANGED <<attempt, gitEffects, baseSeen, attempts>> /\ changes' = changes + 1 /\ changes < MaxChanges
  BY DEF OthersChange, OthersDo
<1>2. Shift
  <2>1. repo \in AnyRepository
    BY GitPrAssumption DEF GitInv, GitPrTypeOK, AnyRepository
  <2> QED
    BY <2>1, OthersShift
<1>3. /\ repo.base \in Nat /\ repo.head \in Nat /\ repo.tries \in Nat /\ baseSeen \in Nat
      /\ attempts \in Nat /\ changes \in Nat /\ attempts <= MaxAttempts
  BY GitPrAssumption DEF GitInv, GitPrTypeOK
<1>4. Counted'
  BY <1>1, <1>2, <1>3 DEF Shift, GitInv, Counted
<1>5. GitPrTypeOK'
  BY <1>1, <1>2, <1>3, <1>4, GitPrAssumption DEF Shift, GitInv, GitPrTypeOK, Counted, AnyRepository
<1>6. Truthful' /\ EffectsAt' /\ OpAt' /\ Lasting'
  BY <1>1, <1>2, <1>3 DEF Shift, GitInv, Truthful, EffectsAt, OpAt, Lasting, Visible, LeftAlone
<1> QED
  BY <1>4, <1>5, <1>6 DEF GitInv

LEMMA StartKeeps ==
  ASSUME GitInv, NEW op \in Operations, NEW dry \in BOOLEAN, ExecuteGitPr(op, dry)
  PROVE  GitInv'
<1>1. /\ attempt' \in Attempt /\ attempt'.step = "gates" /\ attempt'.outcome = "none" /\ ~attempt'.retry
      /\ gitEffects' = {} /\ baseSeen' = 0
  BY DEF ExecuteGitPr, Attempt, Steps
<1>2. Truthful' /\ EffectsAt' /\ OpAt' /\ Lasting'
  BY <1>1, GitPrAssumption DEF GitInv, GitPrTypeOK, Truthful, EffectsAt, OpAt, Lasting, Visible, ExecuteGitPr
<1>3. GitPrTypeOK' /\ Counted'
  BY <1>1, GitPrAssumption DEF GitInv, GitPrTypeOK, Attempt, Counted, ExecuteGitPr
<1> QED
  BY <1>2, <1>3 DEF GitInv

LEMMA GitInvNext == ASSUME GitInv, [GitPrNext]_gitVars PROVE GitInv'
<1>1. CASE UNCHANGED gitVars
  BY <1>1 DEF gitVars, GitInv, GitPrTypeOK, Truthful, EffectsAt, OpAt, Lasting, Counted, Visible
<1>2. CASE GitPrCall
  BY <1>2, LooksKeep, CreateBranchKeeps, CommitToBranchKeeps, OpenPullRequestKeeps,
     MergePullRequestKeeps, RerunKeeps, CreateRefKeeps DEF GitPrCall
<1> QED
  BY <1>1, <1>2, OthersKeep, StartKeeps DEF GitPrNext


\* A step is one of the rest of the world, the start of an attempt, or a call
\* of the attempt under way, whose effects stay.
LEMMA GitMoves ==
  ASSUME GitInv, GitPrNext
  PROVE  \/ UNCHANGED <<attempt, gitEffects>>
         \/ attempt.step = "none" /\ attempt'.step # "none" /\ gitEffects' = {}
         \/ attempt.step # "none" /\ gitEffects \subseteq gitEffects'
<1>1. CASE OthersChange
  BY <1>1 DEF OthersChange, OthersDo
<1>2. ASSUME NEW op \in Operations, NEW dry \in BOOLEAN, ExecuteGitPr(op, dry)
      PROVE  attempt.step = "none" /\ attempt'.step # "none" /\ gitEffects' = {}
  BY <1>2 DEF ExecuteGitPr
<1>3. CASE GitPrCall
  BY <1>3 DEF GitPrCall, AtStep, Mutate, OnlyLooks, Gates, ReadTree, CreateBranch, CommitToBranch,
     OpenPullRequest, ReadPullRequest, ReadChecks, MergePullRequest, VerifyMerge, ReadRun, Rerun,
     ReadRevert, ReadBranchHead, PrepareRevert, RereadBase, CreateRef, After422, VerifyRevert
<1> QED
  BY <1>1, <1>2, <1>3 DEF GitPrNext

LEMMA GitRefines ==
  ASSUME GitInv, GitInv', [GitPrNext]_gitVars
  PROVE  [Contract!Next]_<<attempt.outcome, attempt.retry, Visible # {}>>
<1>1. /\ attempt.outcome \in GitPrOutcomes \cup {"none"} /\ attempt.retry \in BOOLEAN
      /\ attempt'.outcome \in GitPrOutcomes \cup {"none"} /\ attempt'.retry \in BOOLEAN
  BY DEF GitInv, GitPrTypeOK
<1>2. CASE UNCHANGED <<attempt, gitEffects>>
  BY <1>2 DEF Visible
<1>3. CASE attempt.step = "none" /\ attempt'.step # "none" /\ gitEffects' = {}
  <2>1. attempt'.outcome = "none" /\ ~attempt'.retry /\ Visible' = {}
    BY <1>3 DEF GitInv, Truthful, Visible
  <2>2. CASE attempt.outcome = "none"
    BY <1>1, <1>3, <2>1, <2>2 DEF GitInv, Truthful, Visible
  <2>3. CASE attempt.outcome # "none"
    BY <1>1, <2>1, <2>3 DEF Contract!Next, Contract!Again
  <2> QED
    BY <2>2, <2>3
<1>4. CASE attempt.step # "none" /\ gitEffects \subseteq gitEffects'
  <2>1. attempt.outcome = "none" /\ ~attempt.retry /\ (Visible # {} => Visible' # {})
    BY <1>4 DEF GitInv, Truthful, Visible
  <2>2. CASE attempt'.outcome = "none"
    BY <1>1, <2>1, <2>2 DEF GitInv, Truthful, Contract!Next, Contract!Act
  <2>3. CASE attempt'.outcome # "none"
    <3>1. Contract!Return(attempt'.outcome)
      BY <1>1, <2>1, <2>3 DEF GitInv, Truthful, Contract!Return
    <3> QED
      BY <1>1, <2>3, <3>1 DEF Contract!Next, Contract!Reports, GitPrOutcomes
  <2> QED
    BY <2>2, <2>3
<1>5. CASE UNCHANGED gitVars
  BY <1>5 DEF gitVars, Visible
<1> QED
  BY <1>2, <1>3, <1>4, <1>5, GitMoves

\* The state of git_pr keeps its type, and at each await of execute
\* (git-pr-executor.ts) only the calls made before it may have taken effect.
THEOREM GitInvariant == GitPrSpec => []GitInv
BY GitInvInit, GitInvNext, PTL DEF GitPrSpec

\* git_pr keeps the contract of executors whatever GitHub answers, loses or
\* lets others do meanwhile: its report is true of what it did there, and only
\* a failure that left nothing behind may be retried.
THEOREM GitPrKeepsContract == GitPrSpec => KeepsExecutorContract
<1>1. GitPrInit => Contract!Init
  BY DEF GitPrInit, NoAttempt, Visible, Contract!Init
<1>2. QED
  BY <1>1, GitInvariant, GitRefines, PTL DEF GitPrSpec, KeepsExecutorContract, Contract!Spec

\* A merge of git_pr merged the reviewed head, and a revert reported as done
\* undid it on the base it was reviewed against, though head and base may move
\* between the checks of execute and the call.
THEOREM GitPrActsOnReviewed == GitPrSpec => []ActsOnWhatWasReviewed
<1>1. GitInv => ActsOnWhatWasReviewed
  BY DEF GitInv, Lasting, ActsOnWhatWasReviewed
<1>2. QED
  BY <1>1, GitInvariant, PTL

-----------------------------------------------------------------------------
(* The other executors *)

Execution ==
  [op : ServiceOps \cup {"none"}, dry : BOOLEAN,
   step : {"none", "gates", "deployment", "project", "redeploy", "readBack", "move", "pointer",
           "source", "deploy", "post", "savepoint"},
   outcome : {"none", "succeeded", "failed", "blocked", "not_executed", "ambiguous"},
   retry : BOOLEAN, moved : BOOLEAN]
Service ==
  [production : {"expected", "target", "other"}, ready : BOOLEAN, settled : BOOLEAN, manager : BOOLEAN]
ServiceSteps == {"deployment", "project", "redeploy", "move", "source", "deploy", "post", "savepoint"}

\* As for git_pr: no outcome while an attempt runs, a true one after it.
TrueResult ==
  /\ execution.step # "none" => execution.outcome = "none"
  /\ execution.retry => execution.outcome = "failed"
  /\ execution.step = "none" /\ execution.outcome = "none" => ~serviceEffects
  /\ execution.outcome = "succeeded" => serviceEffects
  /\ execution.outcome \in {"failed", "blocked", "not_executed"} => ~serviceEffects

\* Only the second look of an attempt comes after its effect.
EffectBefore ==
  /\ execution.step \in ServiceSteps \cup {"gates"} => ~serviceEffects
  /\ execution.step \in {"readBack", "pointer"} => serviceEffects

\* Between the look at production and the move of its traffic.
PointerAt == execution.step = "move" => service.production = "expected" \/ execution.moved

ServiceInv == ServicesTypeOK /\ TrueResult /\ EffectBefore /\ PointerAt /\ PointerWasReviewed

LEMMA ServiceTypes ==
  ServicesTypeOK <=>
    /\ service \in Service /\ execution \in Execution /\ serviceEffects \in BOOLEAN
    /\ replaced \in {"none", "expected", "target", "other"}
    /\ serviceAttempts \in 0..MaxServiceAttempts /\ serviceChanges \in 0..MaxServiceChanges
BY DEF ServicesTypeOK, Service, Execution

LEMMA ServiceInvInit == ASSUME ServicesInit PROVE ServiceInv
<1>1. execution \in Execution
  BY DEF ServicesInit, NoExecution, Execution
<1>2. ServicesTypeOK
  <2>1. service \in Service /\ 0 \in 0..MaxServiceAttempts /\ 0 \in 0..MaxServiceChanges
    BY ServiceAssumption DEF ServicesInit, Service
  <2> QED
    BY <1>1, <2>1, ServiceTypes DEF ServicesInit
<1>3. TrueResult /\ EffectBefore /\ PointerAt /\ PointerWasReviewed
  BY DEF ServicesInit, NoExecution, TrueResult, EffectBefore, PointerAt, PointerWasReviewed, ServiceSteps
<1> QED
  BY <1>2, <1>3 DEF ServiceInv

LEMMA ExecutionFields ==
  ASSUME execution \in Execution
  PROVE  /\ \A s \in ServiceSteps \cup {"readBack", "pointer"} :
              Continue(s) => /\ execution' \in Execution /\ execution'.step = s
                             /\ execution'.outcome = execution.outcome
                             /\ execution'.retry = execution.retry /\ execution'.moved = execution.moved
         /\ \A r \in {"succeeded", "failed", "blocked", "not_executed", "ambiguous"}, retry \in BOOLEAN :
              Results(r, retry) => /\ execution' \in Execution /\ execution'.step = "none"
                                   /\ execution'.outcome = r /\ execution'.retry = retry
                                   /\ execution'.moved = execution.moved
BY DEF Execution, Continue, Results, ServiceSteps

\* Any step of an attempt under way: where it goes and what it leaves.
LEMMA AttemptKeeps ==
  ASSUME ServiceInv, execution.step # "none", execution' \in Execution,
         execution'.step # "none" => execution'.outcome = "none" /\ ~execution'.retry,
         execution'.retry => execution'.outcome = "failed",
         execution'.step = "none" => execution'.outcome # "none",
         execution'.outcome = "succeeded" => serviceEffects',
         execution'.outcome \in {"failed", "blocked", "not_executed"} => ~serviceEffects',
         execution'.step \in ServiceSteps => ~serviceEffects',
         execution'.step # "gates", execution'.moved = execution.moved,
         execution'.step \in {"readBack", "pointer"} => serviceEffects',
         execution'.step = "move" => service.production = "expected",
         execution'.step # "none" => UNCHANGED service \/ execution'.step = "pointer",
         replaced' = replaced \/ (execution.step = "move" /\ replaced' = service.production),
         service' \in Service,
         serviceEffects' \in BOOLEAN, UNCHANGED <<serviceAttempts, serviceChanges>>
  PROVE  ServiceInv'
<1>1. ServicesTypeOK'
  BY DEF Service, ServiceInv, ServicesTypeOK, Execution
<1>2. TrueResult' /\ EffectBefore'
  BY DEF TrueResult, EffectBefore
<1>3. PointerAt' /\ PointerWasReviewed'
  BY DEF ServiceInv, PointerAt, PointerWasReviewed
<1> QED
  BY <1>1, <1>2, <1>3 DEF ServiceInv

\* A step that only looks.
LEMMA ReadingKeeps ==
  ASSUME ServiceInv, Reading, execution.step # "none",
         \/ \E s \in ServiceSteps : Continue(s) /\ execution.step \notin {"readBack", "pointer"}
                                    /\ (s = "move" => service.production = "expected")
         \/ Results("failed", TRUE) /\ execution.step \notin {"readBack", "pointer"}
         \/ Results("blocked", FALSE) /\ execution.step \notin {"readBack", "pointer"}
         \/ Results("not_executed", FALSE) /\ execution.step \notin {"readBack", "pointer"}
         \/ Results("succeeded", FALSE) /\ execution.step \in {"readBack", "pointer"}
         \/ Results("ambiguous", FALSE)
  PROVE  ServiceInv'
<1>1. execution \in Execution /\ execution.outcome = "none" /\ ~execution.retry
  BY DEF ServiceInv, ServicesTypeOK, Execution, TrueResult
<1>2. execution.step \notin {"readBack", "pointer"} => ~serviceEffects
  BY <1>1 DEF ServiceInv, EffectBefore, Execution, ServiceSteps
<1>3. execution.step \in {"readBack", "pointer"} => serviceEffects
  BY DEF ServiceInv, EffectBefore
<1>4. UNCHANGED <<service, serviceEffects, replaced, serviceAttempts, serviceChanges>>
      /\ ServicesTypeOK
  BY DEF Reading, ServiceInv
<1>5. ASSUME NEW s \in ServiceSteps, Continue(s), execution.step \notin {"readBack", "pointer"},
             s = "move" => service.production = "expected"
      PROVE  ServiceInv'
  <2>1. execution' \in Execution /\ execution'.step = s /\ execution'.outcome = "none"
        /\ ~execution'.retry /\ execution'.moved = execution.moved
    BY <1>1, <1>5, ExecutionFields
  <2> QED
    BY <1>2, <1>4, <1>5, <2>1, AttemptKeeps DEF Service, ServicesTypeOK, ServiceSteps
<1>6. ASSUME NEW r \in {"succeeded", "failed", "blocked", "not_executed", "ambiguous"},
             NEW retry \in BOOLEAN, Results(r, retry), retry => r = "failed",
             r = "succeeded" => serviceEffects,
             r \in {"failed", "blocked", "not_executed"} => ~serviceEffects
      PROVE  ServiceInv'
  <2>1. execution' \in Execution /\ execution'.step = "none" /\ execution'.outcome = r
        /\ (execution'.retry => r = "failed") /\ execution'.moved = execution.moved
    BY <1>1, <1>6, ExecutionFields
  <2> QED
    BY <1>4, <1>6, <2>1, AttemptKeeps DEF Service, ServicesTypeOK, ServiceSteps
<1> QED
  BY <1>2, <1>3, <1>5, <1>6

LEMMA ServiceLooksKeep ==
  ASSUME ServiceInv,
         \/ ServiceGates \/ GetDeployment \/ GetProjectState \/ ReadBack \/ VerifyPointerMoved
         \/ ReadSource
  PROVE  ServiceInv'
<1> USE ReadingKeeps DEF At, ServiceSteps
<1>1. CASE ServiceGates
  BY <1>1 DEF ServiceGates, Effect
<1>2. CASE GetDeployment
  BY <1>2 DEF GetDeployment
<1>3. CASE GetProjectState
  BY <1>3 DEF GetProjectState, Effect
<1>4. CASE ReadBack
  BY <1>4 DEF ReadBack
<1>5. CASE VerifyPointerMoved
  BY <1>5 DEF VerifyPointerMoved
<1>6. CASE ReadSource
  BY <1>6 DEF ReadSource, Effect
<1> QED
  BY <1>1, <1>2, <1>3, <1>4, <1>5, <1>6

\* What a call leaves: a state that its type allows, and an effect if it is answered.
LEMMA CallLeaves ==
  ASSUME ServiceInv, NEW possible \in BOOLEAN, NEW new, NEW answer \in ServiceAnswers,
         Call(possible, new, answer),
         new \in Service
  PROVE  /\ service' \in Service
         /\ serviceEffects' \in BOOLEAN
         /\ answer = "ok" => serviceEffects'
         /\ answer = "definite" => UNCHANGED serviceEffects
BY ServiceTypes DEF Call, ServiceInv, ServiceAnswers

\* A call that ends the attempt: refused, failed, done or not known.
LEMMA CallEnds ==
  ASSUME ServiceInv, execution.step \in {"redeploy", "move", "deploy", "post", "savepoint"},
         service' \in Service,
         serviceEffects' \in BOOLEAN, Calling,
         UNCHANGED replaced \/ (execution.step = "move" /\ replaced' = service.production),
         \/ Results("succeeded", FALSE) /\ serviceEffects'
         \/ Results("failed", FALSE) /\ UNCHANGED serviceEffects
         \/ Results("failed", TRUE) /\ UNCHANGED serviceEffects
         \/ Results("blocked", FALSE) /\ UNCHANGED serviceEffects
         \/ Results("ambiguous", FALSE)
  PROVE  ServiceInv'
<1>1. execution \in Execution /\ ~serviceEffects
  BY DEF ServiceInv, ServicesTypeOK, Execution, EffectBefore, ServiceSteps
<1>2. /\ execution' \in Execution /\ execution'.step = "none" /\ execution'.outcome # "none"
      /\ execution'.moved = execution.moved /\ (execution'.retry => execution'.outcome = "failed")
      /\ execution'.outcome = "succeeded" => serviceEffects'
      /\ execution'.outcome \in {"failed", "blocked", "not_executed"} => ~serviceEffects'
  BY <1>1, ExecutionFields
<1> QED
  BY <1>2, AttemptKeeps DEF Calling, ServiceSteps

\* An answered call that a second look follows.
LEMMA CallGoesOn ==
  ASSUME ServiceInv, Calling, serviceEffects' = TRUE,
         \/ execution.step = "redeploy" /\ Continue("readBack") /\ UNCHANGED <<service, replaced>>
         \/ /\ execution.step = "move" /\ Continue("pointer") /\ replaced' = service.production
            /\ service' = [service EXCEPT !.production = "target"]
  PROVE  ServiceInv'
<1>1. execution \in Execution /\ execution.outcome = "none" /\ ~execution.retry /\ ServicesTypeOK
  BY DEF ServiceInv, ServicesTypeOK, Execution, TrueResult
<1>2. /\ execution' \in Execution /\ execution'.step \in {"readBack", "pointer"}
      /\ execution'.outcome = "none" /\ ~execution'.retry /\ execution'.moved = execution.moved
      /\ execution'.step = "readBack" => UNCHANGED service
  BY <1>1, ExecutionFields
<1>3. service' \in Service
  BY <1>1 DEF ServicesTypeOK, Service
<1> QED
  BY <1>2, <1>3, AttemptKeeps DEF Calling, ServiceSteps

LEMMA ServiceCallsKeep ==
  ASSUME ServiceInv,
         Redeploy \/ MovePointer \/ DeployEdgeFunction \/ PostToAccurateBids \/ CreateDelegatedTask
  PROVE  ServiceInv'
<1> USE CallEnds, CallGoesOn, CallLeaves DEF At, ServiceAnswers, Definitely
<1>1. CASE Redeploy
  <2>1. service \in Service /\ serviceEffects \in BOOLEAN
    BY ServiceTypes DEF ServiceInv
  <2>2. PICK answer \in ServiceAnswers :
          Call(service.ready, service, answer) /\ Definitely(answer, Continue("readBack"))
    BY <1>1 DEF Redeploy
  <2>3. execution.step = "redeploy" /\ Calling /\ UNCHANGED <<service, replaced>>
    BY <1>1 DEF Redeploy, Call
  <2>4. CASE answer = "ok"
    BY <2>2, <2>3, <2>4 DEF Call
  <2>5. CASE answer = "definite"
    BY <2>1, <2>2, <2>3, <2>5 DEF Call
  <2>6. CASE answer = "unknown"
    BY <2>1, <2>2, <2>3, <2>6 DEF Call
  <2> QED
    BY <2>4, <2>5, <2>6
<1>2. CASE MovePointer
  <2> DEFINE new == [service EXCEPT !.production = "target"]
  <2>1. service \in Service /\ new \in Service /\ serviceEffects \in BOOLEAN
    BY ServiceTypes DEF ServiceInv, Service
  <2>2. PICK answer \in ServiceAnswers :
          Call(service.ready, new, answer) /\ Definitely(answer, Continue("pointer"))
    BY <1>2 DEF MovePointer
  <2>3. execution.step = "move" /\ Calling /\ replaced' = service.production
    BY <1>2 DEF MovePointer
  <2>4. CASE answer = "ok"
    BY <2>2, <2>3, <2>4 DEF Call
  <2>5. CASE answer = "definite"
    BY <2>1, <2>2, <2>3, <2>5 DEF Call
  <2>6. CASE answer = "unknown"
    BY <2>1, <2>2, <2>3, <2>6 DEF Call
  <2> QED
    BY <2>4, <2>5, <2>6
<1>3. CASE DeployEdgeFunction
  BY <1>3, ServiceTypes DEF DeployEdgeFunction, ServiceInv
<1>4. CASE PostToAccurateBids
  <2> DEFINE settles == execution.op \in {"invoice", "reply"}
             new == [service EXCEPT !.settled = @ \/ settles]
             possible == settles => ~service.settled
  <2>1. service \in Service
    BY ServiceTypes DEF ServiceInv
  <2>2. new \in Service /\ possible \in BOOLEAN
    BY <2>1 DEF Service
  <2>3. PICK answer \in ServiceAnswers :
          /\ Call(possible, new, answer)
          /\ \/ answer = "ok" /\ Results("succeeded", FALSE)
             \/ answer = "unknown" /\ Results("ambiguous", FALSE)
             \/ answer = "definite" /\ (Results("failed", TRUE) \/ Results("blocked", FALSE))
    BY <1>4 DEF PostToAccurateBids
  <2>4. execution.step = "post" /\ Calling /\ UNCHANGED replaced
    BY <1>4 DEF PostToAccurateBids
  <2> HIDE DEF new, possible
  <2>5. service' \in Service /\ serviceEffects' \in BOOLEAN
    BY <2>2, <2>3, CallLeaves
  <2>6. answer = "ok" => serviceEffects'
    BY <2>3 DEF Call
  <2>7. answer = "definite" => UNCHANGED serviceEffects
    BY <2>3 DEF Call
  <2> QED
    BY <2>3, <2>4, <2>5, <2>6, <2>7, CallEnds
<1>5. CASE CreateDelegatedTask
  BY <1>5, ServiceTypes DEF CreateDelegatedTask, ServiceInv
<1> QED
  BY <1>1, <1>2, <1>3, <1>4, <1>5

LEMMA ServiceStartKeeps ==
  ASSUME ServiceInv, NEW op \in ServiceOps, NEW dry \in BOOLEAN, Execute(op, dry)
  PROVE  ServiceInv'
<1>1. /\ execution' \in Execution /\ execution'.step = "gates" /\ execution'.outcome = "none"
      /\ ~execution'.retry
  BY DEF Execute, NoExecution, Execution
<1>2. ServicesTypeOK'
  <2>1. /\ service \in Service /\ serviceAttempts \in 0..MaxServiceAttempts
        /\ serviceChanges \in 0..MaxServiceChanges
    BY ServiceTypes DEF ServiceInv
  <2>2. UNCHANGED <<service, serviceChanges>> /\ serviceEffects' = FALSE /\ replaced' = "none"
        /\ serviceAttempts' \in 0..MaxServiceAttempts
    BY <2>1, ServiceAssumption DEF Execute
  <2> QED
    BY <1>1, <2>1, <2>2 DEF ServicesTypeOK, Service, Execution
<1>3. TrueResult' /\ EffectBefore' /\ PointerAt' /\ PointerWasReviewed'
  BY <1>1 DEF Execute, TrueResult, EffectBefore, PointerAt, PointerWasReviewed
<1> QED
  BY <1>2, <1>3 DEF ServiceInv

LEMMA OthersMoveKeeps == ASSUME ServiceInv, OthersMove PROVE ServiceInv'
<1>0. service \in Service /\ execution \in Execution /\ serviceChanges \in Nat
  BY ServiceTypes, ServiceAssumption DEF ServiceInv
<1>1. /\ execution' \in Execution /\ execution'.step = execution.step
      /\ execution'.outcome = execution.outcome /\ execution'.retry = execution.retry
      /\ execution.moved => execution'.moved
      /\ execution.step = "move" /\ service'.production # service.production => execution'.moved
  BY <1>0 DEF OthersMove, Execution, Service
<1>2. service' \in Service
  <2>1. \A d \in {"expected", "target", "other"} : [service EXCEPT !.production = d] \in Service
    BY <1>0 DEF Service
  <2>2. [service EXCEPT !.ready = FALSE] \in Service
    BY <1>0 DEF Service
  <2>3. [service EXCEPT !.settled = TRUE] \in Service
    BY <1>0 DEF Service
  <2>4. [service EXCEPT !.manager = ~@] \in Service
    BY <1>0 DEF Service
  <2> QED
    BY <2>1, <2>2, <2>3, <2>4 DEF OthersMove
<1>3. UNCHANGED <<serviceEffects, replaced, serviceAttempts>> /\ serviceChanges' \in 0..MaxServiceChanges
  BY <1>0, ServiceAssumption DEF OthersMove
<1>4. ServicesTypeOK'
  BY <1>1, <1>2, <1>3, ServiceAssumption DEF ServiceInv, ServicesTypeOK, Service, Execution
<1>5. TrueResult' /\ EffectBefore' /\ PointerAt' /\ PointerWasReviewed'
  BY <1>1, <1>3 DEF ServiceInv, TrueResult, EffectBefore, PointerAt, PointerWasReviewed
<1> QED
  BY <1>4, <1>5 DEF ServiceInv

LEMMA ServiceInvNext == ASSUME ServiceInv, [ServicesNext]_serviceVars PROVE ServiceInv'
<1>1. CASE UNCHANGED serviceVars
  BY <1>1 DEF serviceVars, ServiceInv, ServicesTypeOK, TrueResult, EffectBefore, PointerAt, PointerWasReviewed
<1>2. CASE ServiceCall
  BY <1>2, ServiceLooksKeep, ServiceCallsKeep DEF ServiceCall
<1> QED
  BY <1>1, <1>2, ServiceStartKeeps, OthersMoveKeeps DEF ServicesNext

\* A step is one of the services' owners, the start of an attempt, or a call.
LEMMA ServiceMoves ==
  ASSUME ServiceInv, ServicesNext
  PROVE  \/ execution'.outcome = execution.outcome /\ execution'.retry = execution.retry
            /\ UNCHANGED serviceEffects
         \/ execution.step = "none" /\ execution'.step # "none" /\ ~serviceEffects'
         \/ execution.step # "none" /\ (serviceEffects => serviceEffects')
<1>1. CASE OthersMove
  BY <1>1 DEF OthersMove, ServiceInv, ServicesTypeOK
<1>2. ASSUME NEW op \in ServiceOps, NEW dry \in BOOLEAN, Execute(op, dry)
      PROVE  execution.step = "none" /\ execution'.step # "none" /\ ~serviceEffects'
  BY <1>2 DEF Execute, NoExecution
<1>3. CASE ServiceCall
  BY <1>3 DEF ServiceCall, At, Call, Reading, ServiceGates, GetDeployment, GetProjectState, Redeploy,
     ReadBack, MovePointer, VerifyPointerMoved, ReadSource, DeployEdgeFunction, PostToAccurateBids,
     CreateDelegatedTask
<1> QED
  BY <1>1, <1>2, <1>3 DEF ServicesNext

LEMMA ServiceRefines ==
  ASSUME ServiceInv, ServiceInv', [ServicesNext]_serviceVars
  PROVE  [ServiceContract!Next]_<<execution.outcome, execution.retry, serviceEffects>>
<1>1. /\ execution.outcome \in ServiceContract!Reports \cup {"none"} /\ execution.retry \in BOOLEAN
      /\ execution'.outcome \in ServiceContract!Reports \cup {"none"} /\ execution'.retry \in BOOLEAN
      /\ serviceEffects \in BOOLEAN /\ serviceEffects' \in BOOLEAN
  BY DEF ServiceInv, ServicesTypeOK, ServiceContract!Reports
<1>2. CASE execution'.outcome = execution.outcome /\ execution'.retry = execution.retry
           /\ UNCHANGED serviceEffects
  BY <1>2
<1>3. CASE execution.step = "none" /\ execution'.step # "none" /\ ~serviceEffects'
  <2>1. execution'.outcome = "none" /\ ~execution'.retry
    BY <1>3 DEF ServiceInv, TrueResult
  <2>2. CASE execution.outcome = "none"
    BY <1>1, <1>3, <2>1, <2>2 DEF ServiceInv, TrueResult
  <2>3. CASE execution.outcome # "none"
    BY <1>1, <1>3, <2>1, <2>3 DEF ServiceContract!Next, ServiceContract!Again
  <2> QED
    BY <2>2, <2>3
<1>4. CASE execution.step # "none" /\ (serviceEffects => serviceEffects')
  <2>1. execution.outcome = "none" /\ ~execution.retry
    BY <1>4 DEF ServiceInv, TrueResult
  <2>2. CASE execution'.outcome = "none"
    BY <1>1, <1>4, <2>1, <2>2 DEF ServiceInv, TrueResult, ServiceContract!Next, ServiceContract!Act
  <2>3. CASE execution'.outcome # "none"
    <3>1. ServiceContract!Return(execution'.outcome)
      BY <1>1, <1>4, <2>1, <2>3 DEF ServiceInv, TrueResult, ServiceContract!Return
    <3> QED
      BY <1>1, <2>3, <3>1 DEF ServiceContract!Next
  <2> QED
    BY <2>2, <2>3
<1>5. CASE UNCHANGED serviceVars
  BY <1>5 DEF serviceVars
<1> QED
  BY <1>2, <1>3, <1>4, <1>5, ServiceMoves

\* The state of the executors of deployments, edge functions, AccurateBids and
\* delegated work keeps its type, and before each of their calls it is settled
\* what may have happened by then.
THEOREM ServiceInvariant == ServicesSpec => []ServiceInv
BY ServiceInvInit, ServiceInvNext, PTL DEF ServicesSpec

\* The execute methods of these executors keep the contract of executors: their
\* report is true of what they did, and nothing that may have happened is
\* offered for a retry, though answers are lost and the services change.
THEOREM ServicesKeepTheContract == ServicesSpec => ServicesKeepContract
<1>1. ServicesInit => ServiceContract!Init
  BY DEF ServicesInit, NoExecution, ServiceContract!Init
<1>2. QED
  BY <1>1, ServiceInvariant, ServiceRefines, PTL DEF ServicesSpec, ServicesKeepContract, ServiceContract!Spec

\* A promote or rollback of mutation-executor.ts takes the traffic from the
\* deployment that had it at the review, unless production moved between its
\* last look and the call.
THEOREM PointerMovedFromReviewed == ServicesSpec => []PointerWasReviewed
<1>1. ServiceInv => PointerWasReviewed
  BY DEF ServiceInv
<1>2. QED
  BY <1>1, ServiceInvariant, PTL

-----------------------------------------------------------------------------
(* The approval gate: one execution *)

\* Where a request of each kind can be.
Settling == {"settle", "settlePending", "settleTask", "settleAudit"}
Deciding == {"decide", "withdraw"}
Reconciling == Deciding \cup {"page", "repair"}
GateFits(op, label) ==
  \/ op = "none" /\ label = "idle"
  \/ op = "execute" /\ label \in {"authorize", "claim", "execute", "commit"}
  \/ op \in Deciding /\ label \in {"update", "audit", "commit"} \cup Settling
  \/ op = "page" /\ label \in {"matching", "audit", "stranded"} \cup Settling
  \/ op = "repair" /\ label \in {"commit"} \cup Settling
  \/ op = "cancel" /\ label \in {"update", "matching", "audit", "commit"}
  \/ op = "propose" /\ label \in {"proposeNext", "proposeAudit", "park", "commit"}

\* What a request is about.
GateAbout(m, label) ==
  /\ GateFits(m.op, label)
  /\ m.op \in Deciding \cup {"execute"} => m.row \in Approvals
  /\ m.op \in {"cancel", "propose"} => m.row \in Tasks
  /\ m.op \in Deciding => m.value \in Verdicts \cup {"withdrawn"}
  /\ m.op = "cancel" => m.value = "cancelled"
  /\ m.op \in {"cancel", "propose"} => \A a \in m.todo : TaskOf[a] = m.row
  /\ label \in {"settlePending", "settleTask", "settleAudit"} => m.task \in Tasks

GateBasis == GateTypeOK /\ \A s \in Sessions : GateAbout(arg[s], at[s])

\* The side effects of approvals and what is on record of them.
OnRecord(a, events) == {<<"intent", a>>, <<"acted", a>>} \subseteq events
IntentFirst(s) ==
  /\ entries[s] # {} => /\ arg[s].op = "execute" /\ at[s] \in {"execute", "commit"} /\ audit = s
                        /\ <<"intent", arg[s].row>> \in entries[s]
                        /\ <<"intent", arg[s].row>> \notin log
                        /\ entries[s] \subseteq {<<"intent", arg[s].row>>, <<"acted", arg[s].row>>}
  /\ at[s] = "execute" => entries[s] = {<<"intent", arg[s].row>>}
  /\ \A a \in Approvals : <<"acted", a>> \in entries[s] => effects[a] > 0
EffectRecorded(a) ==
  /\ effects[a] > 1 => a \in torn
  /\ effects[a] > 0 => \/ a \in torn \/ OnRecord(a, log)
                       \/ \E s \in Sessions : OnRecord(a, entries[s])
  /\ <<"acted", a>> \in log => effects[a] > 0 /\ <<"intent", a>> \in log

ExecutionInv ==
  /\ GateBasis
  /\ \A s \in Sessions : IntentFirst(s)
  /\ \A a \in Approvals : EffectRecorded(a)

-----------------------------------------------------------------------------
LEMMA BasisInit == ASSUME GateInit PROVE GateBasis
<1>1. NoArg \in Arg /\ Untouched \in [Rows -> RowStatus \cup {Keep}]
  BY DEF NoArg, Arg, RowStatus, ApprovalStatus, Untouched
<1>2. rows \in [Rows -> RowStatus]
  BY DEF GateInit, RowStatus, ApprovalStatus, TaskStatus
<1>3. GateTypeOK
  BY <1>1, <1>2 DEF GateInit, GateTypeOK, Labels
<1> QED
  BY <1>3 DEF GateBasis, GateInit, GateAbout, GateFits, NoArg, Deciding

\* The memory of one session changes.
LEMMA SessionMoves ==
  ASSUME GateBasis, NEW s \in Sessions, NEW m \in Arg, NEW label \in Labels, GateAbout(m, label),
         arg' = [arg EXCEPT ![s] = m], at' = [at EXCEPT ![s] = label]
  PROVE  /\ arg' \in [Sessions -> Arg] /\ at' \in [Sessions -> Labels]
         /\ arg'[s] = m /\ at'[s] = label
         /\ \A o \in Sessions \ {s} : arg'[o] = arg[o] /\ at'[o] = at[o]
         /\ \A o \in Sessions : GateAbout(arg'[o], at'[o])
<1>1. /\ arg' \in [Sessions -> Arg] /\ at' \in [Sessions -> Labels]
      /\ arg'[s] = m /\ at'[s] = label
      /\ \A o \in Sessions \ {s} : arg'[o] = arg[o] /\ at'[o] = at[o]
  BY DEF GateBasis, GateTypeOK
<1>2. \A o \in Sessions : GateAbout(arg'[o], at'[o])
  BY <1>1 DEF GateBasis
<1> QED
  BY <1>1, <1>2

\* A transaction writes one row.
LEMMA RowWrite ==
  ASSUME GateBasis, NEW s \in Sessions, NEW x \in Rows, NEW v \in RowStatus, Write(s, x, v)
  PROVE  /\ dirty' \in [Sessions -> [Rows -> RowStatus \cup {Keep}]]
         /\ dirty'[s][x] = v /\ v # Keep
         /\ \A y \in Rows \ {x} : dirty'[s][y] = dirty[s][y]
         /\ \A o \in Sessions \ {s} : dirty'[o] = dirty[o]
<1>1. dirty \in [Sessions -> [Rows -> RowStatus \cup {Keep}]]
  BY DEF GateBasis, GateTypeOK
<1>2. dirty' = [dirty EXCEPT ![s] = [dirty[s] EXCEPT ![x] = v]]
  BY DEF Write
<1>3. [dirty[s] EXCEPT ![x] = v] \in [Rows -> RowStatus \cup {Keep}]
  BY <1>1
<1>4. v # Keep
  BY KeepAssumption
<1> QED
  BY <1>1, <1>2, <1>3, <1>4

\* A transaction ends.
LEMMA TransactionEnds ==
  ASSUME GateBasis, NEW s \in Sessions, Leave(s)
  PROVE  /\ dirty' \in [Sessions -> [Rows -> RowStatus \cup {Keep}]]
         /\ dirty'[s] = Untouched
         /\ \A o \in Sessions \ {s} : dirty'[o] = dirty[o] /\ entries'[o] = entries[o]
         /\ entries' \in [Sessions -> SUBSET Event] /\ entries'[s] = {}
         /\ audit' \in Sessions \cup {Nobody}
         /\ \A o \in Sessions \ {s} : audit = o => audit' = o
<1>1. Untouched \in [Rows -> RowStatus \cup {Keep}]
  BY DEF Untouched
<1> QED
  BY <1>1, GateAssumption DEF GateBasis, GateTypeOK, Leave

\* What a transaction sees, and who takes the audit lock.
LEMMA SeesARow ==
  ASSUME GateBasis, NEW s \in Sessions, NEW x \in Rows
  PROVE  /\ Sees(s, x) \in RowStatus
         /\ dirty[s][x] # Keep => Sees(s, x) = dirty[s][x]
         /\ dirty[s][x] = Keep => Sees(s, x) = rows[x]
BY DEF GateBasis, GateTypeOK, Sees

LEMMA LockTaken ==
  ASSUME GateBasis, NEW s \in Sessions, TakeAuditLock(s)
  PROVE  audit \in {s, Nobody} /\ audit' = s /\ \A o \in Sessions \ {s} : audit # o
BY GateAssumption DEF GateBasis, GateTypeOK, TakeAuditLock, LockHolders

\* What every statement leaves well typed.
LEMMA RequestTypes ==
  ASSUME GateBasis, NEW s \in Sessions
  PROVE  /\ arg[s] \in Arg /\ at[s] \in Labels /\ GateAbout(arg[s], at[s])
         /\ arg[s].todo \subseteq Approvals /\ arg[s].tasks \subseteq Tasks
         /\ arg[s].op \in Ops \cup {"none", "propose", "execute", "repair"}
         /\ arg[s].value \in RowStatus /\ arg[s].row \in Rows \cup {Nobody}
         /\ dirty[s] \in [Rows -> RowStatus \cup {Keep}] /\ entries[s] \subseteq Event
         /\ arg = [arg EXCEPT ![s] = arg[s]] /\ at = [at EXCEPT ![s] = at[s]]
BY DEF GateBasis, GateTypeOK, Arg

-----------------------------------------------------------------------------
\* A step of session s moves it to a request and a label that fit.
SessionStep(s) ==
  \E m \in Arg, label \in Labels :
    GateAbout(m, label) /\ arg' = [arg EXCEPT ![s] = m] /\ at' = [at EXCEPT ![s] = label]

LEMMA GotoStep ==
  ASSUME GateBasis, NEW s \in Sessions, NEW label \in Labels, GateAbout(arg[s], label),
         Goto(s, label), UNCHANGED arg
  PROVE  SessionStep(s)
<1>1. arg' = [arg EXCEPT ![s] = arg[s]] /\ at' = [at EXCEPT ![s] = label]
  BY RequestTypes DEF Goto
<1>2. arg[s] \in Arg
  BY RequestTypes
<1> QED
  BY <1>1, <1>2 DEF SessionStep

LEMMA IdleStep ==
  ASSUME NEW s \in Sessions, Goto(s, "idle"), arg' = [arg EXCEPT ![s] = NoArg]
  PROVE  SessionStep(s)
<1>1. NoArg \in Arg /\ GateAbout(NoArg, "idle") /\ "idle" \in Labels
  BY DEF NoArg, Arg, RowStatus, ApprovalStatus, GateAbout, GateFits, Deciding, Labels
<1> QED
  BY <1>1 DEF SessionStep, Goto

LEMMA SettleSteps ==
  ASSUME GateBasis, NEW s \in Sessions,
         SettleRead(s) \/ SettlePending(s) \/ SettleTask(s) \/ SettleAudit(s)
  PROVE  SessionStep(s)
<1>1. arg[s] \in Arg /\ GateAbout(arg[s], at[s])
  BY RequestTypes
<1>2. CASE SettleRead(s)
  <2>1. CASE arg[s].tasks = {}
    <3> DEFINE m == [arg[s] EXCEPT !.task = Nobody]
               label == IF arg[s].op = "page" THEN "stranded" ELSE "commit"
    <3>1. arg' = [arg EXCEPT ![s] = m] /\ at' = [at EXCEPT ![s] = label]
      BY <1>2, <2>1 DEF SettleRead, Goto, GateBasis, GateTypeOK
    <3>2. m \in Arg /\ label \in Labels
      BY <1>1 DEF Arg, Labels
    <3>3. m.op = arg[s].op /\ m.row = arg[s].row /\ m.value = arg[s].value /\ m.todo = arg[s].todo
      BY <1>1 DEF Arg
    <3>4. GateAbout(m, label)
      BY <1>1, <1>2, <3>3 DEF GateAbout, GateFits, SettleRead, Settling, Deciding
    <3> QED
      BY <3>1, <3>2, <3>4 DEF SessionStep
  <2>2. CASE arg[s].tasks # {}
    <3>1. PICK t \in arg[s].tasks :
            /\ arg' = [arg EXCEPT ![s].task = t, ![s].tasks = @ \ {t}]
            /\ Goto(s, IF Sees(s, t) = "awaiting_approval" THEN "settlePending" ELSE "settle")
      BY <1>2, <2>2 DEF SettleRead
    <3> DEFINE m == [arg[s] EXCEPT !.task = t, !.tasks = arg[s].tasks \ {t}]
               label == IF Sees(s, t) = "awaiting_approval" THEN "settlePending" ELSE "settle"
    <3>2. arg' = [arg EXCEPT ![s] = m] /\ at' = [at EXCEPT ![s] = label]
      BY <3>1 DEF Goto, GateBasis, GateTypeOK, Arg
    <3>3. m \in Arg /\ label \in Labels /\ m.task = t /\ t \in Tasks
      BY <1>1 DEF Arg, Labels
    <3>4. m.op = arg[s].op /\ m.row = arg[s].row /\ m.value = arg[s].value /\ m.todo = arg[s].todo
      BY <1>1 DEF Arg
    <3>5. GateAbout(m, label)
      BY <1>1, <1>2, <3>3, <3>4 DEF GateAbout, GateFits, SettleRead, Settling, Deciding
    <3> QED
      BY <3>2, <3>3, <3>5 DEF SessionStep
  <2> QED
    BY <2>1, <2>2
<1>3. CASE SettlePending(s)
  BY <1>1, <1>3, GotoStep DEF SettlePending, GateAbout, GateFits, Settling, Deciding, Labels
<1>4. CASE SettleTask(s)
  BY <1>1, <1>4, GotoStep DEF SettleTask, GateAbout, GateFits, Settling, Deciding, Labels
<1>5. CASE SettleAudit(s)
  BY <1>1, <1>5, GotoStep DEF SettleAudit, GateAbout, GateFits, Settling, Deciding, Labels
<1> QED
  BY <1>2, <1>3, <1>4, <1>5

\* A request begins with nothing but what it is about.
LEMMA BeginStep ==
  ASSUME GateBasis, NEW s \in Sessions, GateRequest(s)
  PROVE  SessionStep(s)
<1>1. ASSUME NEW a \in Approvals, NEW d \in Verdicts, DecideApproval(s, a, d)
      PROVE  SessionStep(s)
  <2> DEFINE m == [NoArg EXCEPT !.op = "decide", !.row = a, !.value = d]
  <2>1. m \in Arg
    BY <1>1 DEF NoArg, Arg, DecideApproval, Ask, Rows, RowStatus, ApprovalStatus
  <2>2. GateAbout(m, "update")
    BY DEF NoArg, GateAbout, GateFits, Deciding
  <2> QED
    BY <1>1, <2>1, <2>2 DEF DecideApproval, Begin, Goto, SessionStep, Labels
<1>2. ASSUME NEW a \in Approvals, WithdrawAuthorizedAction(s, a)
      PROVE  SessionStep(s)
  <2> DEFINE m == [NoArg EXCEPT !.op = "withdraw", !.row = a, !.value = "withdrawn"]
  <2>1. m \in Arg
    BY <1>2 DEF NoArg, Arg, WithdrawAuthorizedAction, Ask, Rows, RowStatus, ApprovalStatus
  <2>2. GateAbout(m, "update")
    BY DEF NoArg, GateAbout, GateFits, Deciding
  <2> QED
    BY <1>2, <2>1, <2>2 DEF WithdrawAuthorizedAction, Begin, Goto, SessionStep, Labels
<1>3. ASSUME NEW t \in Tasks, CancelTask(s, t)
      PROVE  SessionStep(s)
  <2> DEFINE m == [NoArg EXCEPT !.op = "cancel", !.row = t, !.value = "cancelled"]
  <2>1. m \in Arg
    BY <1>3 DEF NoArg, Arg, CancelTask, Ask, Rows, RowStatus, TaskStatus
  <2>2. GateAbout(m, "update")
    BY DEF NoArg, GateAbout, GateFits, Deciding
  <2> QED
    BY <1>3, <2>1, <2>2 DEF CancelTask, Begin, Goto, SessionStep, Labels
<1>4. ASSUME NEW t \in Tasks, ManuallyReconcileTask(s, t)
      PROVE  SessionStep(s)
  <2> DEFINE m == [NoArg EXCEPT !.op = "repair", !.tasks = {t}]
  <2>1. m \in Arg
    BY DEF NoArg, Arg, Rows, RowStatus, ApprovalStatus
  <2>2. GateAbout(m, "settle")
    BY DEF NoArg, GateAbout, GateFits, Deciding, Settling
  <2> QED
    BY <1>4, <2>1, <2>2 DEF ManuallyReconcileTask, Begin, Goto, SessionStep, Labels
<1>5. ASSUME NEW t \in Tasks, Propose(s, t)
      PROVE  SessionStep(s)
  <2> DEFINE m == [NoArg EXCEPT !.op = "propose", !.row = t, !.todo = {a \in Approvals : TaskOf[a] = t}]
  <2>1. m \in Arg
    BY DEF NoArg, Arg, Rows, RowStatus, ApprovalStatus
  <2>2. GateAbout(m, "proposeNext")
    BY DEF NoArg, GateAbout, GateFits, Deciding
  <2> QED
    BY <1>5, <2>1, <2>2 DEF Propose, Begin, Goto, SessionStep, Labels
<1>6. ASSUME OpenPage(s)
      PROVE  SessionStep(s)
  <2> DEFINE m == [NoArg EXCEPT !.op = "page", !.value = "expired",
                                !.todo = {a \in lapsed : rows[a] = "pending"}]
  <2>1. m \in Arg
    BY <1>6 DEF NoArg, Arg, OpenPage, Ask, RowStatus, ApprovalStatus, GateBasis, GateTypeOK
  <2>2. GateAbout(m, "matching")
    BY DEF NoArg, GateAbout, GateFits, Deciding
  <2> QED
    BY <1>6, <2>1, <2>2 DEF OpenPage, Begin, Goto, SessionStep, Labels
<1> QED
  BY <1>1, <1>2, <1>3, <1>4, <1>5, <1>6 DEF GateRequest

LEMMA UpdateSteps ==
  ASSUME GateBasis, NEW s \in Sessions,
         UpdateRow(s) \/ UpdatedAll(s) \/ (\E a \in Approvals : UpdateMatching(s, a)) \/ WriteAudit(s)
  PROVE  SessionStep(s)
<1>1. arg[s] \in Arg /\ GateAbout(arg[s], at[s]) /\ at = [at EXCEPT ![s] = at[s]] /\ at[s] \in Labels
  BY RequestTypes
<1>2. CASE UpdateRow(s)
  <2>1. CASE arg[s].row \in Tasks
    <3> DEFINE m == [arg[s] EXCEPT !.todo = PendingOf(s, arg[s].row)]
    <3>1. arg' = [arg EXCEPT ![s] = m] /\ at' = [at EXCEPT ![s] = "matching"]
      BY <1>2, <2>1 DEF UpdateRow, Goto, GateBasis, GateTypeOK
    <3>2. m \in Arg
      BY <1>1 DEF Arg, PendingOf
    <3>3. arg[s].op = "cancel"
      BY <1>1, <1>2, <2>1, GateAssumption DEF GateAbout, GateFits, UpdateRow, Settling, Deciding
    <3>4. /\ m.op = "cancel" /\ m.row = arg[s].row /\ m.value = arg[s].value
          /\ \A a \in m.todo : TaskOf[a] = m.row
      BY <1>1, <3>3 DEF Arg, PendingOf
    <3>5. GateAbout(m, "matching")
      BY <1>1, <3>3, <3>4 DEF GateAbout, GateFits, Settling, Deciding
    <3> QED
      BY <3>1, <3>2, <3>5 DEF SessionStep, Labels
  <2>2. CASE arg[s].row \notin Tasks
    BY <1>1, <1>2, <2>2, GotoStep DEF UpdateRow, GateAbout, GateFits, Settling, Deciding, Labels
  <2> QED
    BY <2>1, <2>2
<1>3. CASE UpdatedAll(s)
  BY <1>1, <1>3, GotoStep DEF UpdatedAll, GateAbout, GateFits, Settling, Deciding, Labels
<1>4. CASE \E a \in Approvals : UpdateMatching(s, a)
  <2>1. PICK a \in Approvals : UpdateMatching(s, a)
    BY <1>4
  <2> DEFINE m == [arg[s] EXCEPT !.todo = arg[s].todo \ {a}]
  <2>2. arg' = [arg EXCEPT ![s] = m] /\ at' = [at EXCEPT ![s] = at[s]]
    BY <1>1, <2>1 DEF UpdateMatching, GateBasis, GateTypeOK
  <2>3. m \in Arg
    BY <1>1 DEF Arg
  <2>4. /\ m.op = arg[s].op /\ m.row = arg[s].row /\ m.value = arg[s].value /\ m.task = arg[s].task
        /\ m.todo \subseteq arg[s].todo
    BY <1>1 DEF Arg
  <2>5. GateAbout(m, at[s])
    BY <1>1, <2>4 DEF GateAbout
  <2> QED
    BY <1>1, <2>2, <2>3, <2>5 DEF SessionStep
<1>5. CASE WriteAudit(s)
  <2>1. CASE arg[s].op = "cancel"
    BY <1>1, <1>5, <2>1, GotoStep DEF WriteAudit, GateAbout, GateFits, Settling, Deciding, Labels
  <2>2. CASE arg[s].op # "cancel"
    <3> DEFINE m == [arg[s] EXCEPT !.tasks = {TaskOf[a] : a \in {b \in Approvals : dirty[s][b] # Keep}}]
    <3>1. arg' = [arg EXCEPT ![s] = m] /\ at' = [at EXCEPT ![s] = "settle"]
      BY <1>5, <2>2 DEF WriteAudit, Goto, GateBasis, GateTypeOK
    <3>2. m \in Arg
      BY <1>1, GateAssumption DEF Arg
    <3>3. m.op = arg[s].op /\ m.row = arg[s].row /\ m.value = arg[s].value /\ m.todo = arg[s].todo
      BY <1>1 DEF Arg
    <3>4. GateAbout(m, "settle")
      BY <1>1, <1>5, <2>2, <3>3 DEF GateAbout, GateFits, WriteAudit, Settling, Deciding
    <3> QED
      BY <3>1, <3>2, <3>4 DEF SessionStep, Labels
  <2> QED
    BY <2>1, <2>2
<1> QED
  BY <1>2, <1>3, <1>4, <1>5

LEMMA RunSteps ==
  ASSUME GateBasis, NEW s \in Sessions,
         ListStranded(s) \/ (\E a \in Approvals : ProposeNext(s, a)) \/ ProposeAudit(s) \/ Park(s)
  PROVE  SessionStep(s)
<1>1. arg[s] \in Arg /\ GateAbout(arg[s], at[s])
  BY RequestTypes
<1>2. CASE ListStranded(s)
  <2> DEFINE m == [arg[s] EXCEPT !.op = "repair", !.tasks = {t \in Tasks : Sees(s, t) = "awaiting_approval"}]
  <2>1. arg' = [arg EXCEPT ![s] = m] /\ at' = [at EXCEPT ![s] = "settle"]
    BY <1>2 DEF ListStranded, Goto, GateBasis, GateTypeOK
  <2>2. m \in Arg /\ m.op = "repair"
    BY <1>1 DEF Arg
  <2>3. GateAbout(m, "settle")
    BY <2>2 DEF GateAbout, GateFits, Settling, Deciding
  <2> QED
    BY <2>1, <2>2, <2>3 DEF SessionStep, Labels
<1>3. CASE \E a \in Approvals : ProposeNext(s, a)
  <2>1. PICK a \in Approvals : ProposeNext(s, a)
    BY <1>3
  <2> DEFINE m == [arg[s] EXCEPT !.todo = arg[s].todo \ {a}]
  <2>2. arg' = [arg EXCEPT ![s] = m] /\ at' = [at EXCEPT ![s] = "proposeAudit"]
    BY <2>1 DEF ProposeNext, Goto, GateBasis, GateTypeOK
  <2>3. m \in Arg
    BY <1>1 DEF Arg
  <2>4. /\ m.op = arg[s].op /\ m.row = arg[s].row /\ m.value = arg[s].value
        /\ m.todo \subseteq arg[s].todo
    BY <1>1 DEF Arg
  <2>5. arg[s].op = "propose"
    BY <1>1, <2>1 DEF ProposeNext, GateAbout, GateFits, Settling
  <2>6. GateAbout(m, "proposeAudit")
    BY <1>1, <2>4, <2>5 DEF GateAbout, GateFits
  <2> QED
    BY <2>2, <2>3, <2>6 DEF SessionStep, Labels
<1>4. CASE ProposeAudit(s)
  BY <1>1, <1>4, GotoStep DEF ProposeAudit, GateAbout, GateFits, Settling, Deciding, Labels
<1>5. CASE Park(s)
  BY <1>1, <1>5, GotoStep DEF Park, GateAbout, GateFits, Settling, Deciding, Labels
<1> QED
  BY <1>2, <1>3, <1>4, <1>5

LEMMA ExecutionSteps ==
  ASSUME GateBasis, NEW s \in Sessions,
         Commit(s) \/ Authorize(s) \/ ClaimIntent(s) \/ ExecuteAction(s) \/ GateCrash(s) \/ BreakDeadlock(s)
  PROVE  SessionStep(s)
<1>1. arg[s] \in Arg /\ GateAbout(arg[s], at[s])
  BY RequestTypes
<1>2. CASE Commit(s)
  <2>1. CASE arg[s].op = "decide" /\ arg[s].value = "approved"
    <3> DEFINE m == [arg[s] EXCEPT !.op = "execute"]
    <3>1. arg' = [arg EXCEPT ![s] = m] /\ at' = [at EXCEPT ![s] = "authorize"]
      BY <1>2, <2>1 DEF Commit, Goto, GateBasis, GateTypeOK
    <3>2. m \in Arg /\ m.op = "execute" /\ m.row = arg[s].row
      BY <1>1 DEF Arg
    <3>3. GateAbout(m, "authorize")
      BY <1>1, <2>1, <3>2 DEF GateAbout, GateFits, Deciding
    <3> QED
      BY <3>1, <3>2, <3>3 DEF SessionStep, Labels
  <2>2. CASE ~ (arg[s].op = "decide" /\ arg[s].value = "approved")
    BY <1>2, <2>2, IdleStep DEF Commit
  <2> QED
    BY <2>1, <2>2
<1>3. CASE Authorize(s)
  <2>1. CASE Goto(s, "claim") /\ UNCHANGED arg
    BY <1>1, <1>3, <2>1, GotoStep DEF Authorize, GateAbout, GateFits, Settling, Deciding, Labels
  <2>2. CASE Goto(s, "idle") /\ arg' = [arg EXCEPT ![s] = NoArg]
    BY <2>2, IdleStep
  <2> QED
    BY <1>3, <2>1, <2>2 DEF Authorize
<1>4. CASE ClaimIntent(s)
  BY <1>1, <1>4, GotoStep DEF ClaimIntent, GateAbout, GateFits, Settling, Deciding, Labels
<1>5. CASE ExecuteAction(s)
  BY <1>1, <1>5, GotoStep DEF ExecuteAction, GateAbout, GateFits, Settling, Deciding, Labels
<1>6. CASE GateCrash(s) \/ BreakDeadlock(s)
  BY <1>6, IdleStep DEF GateCrash, BreakDeadlock, Rollback
<1> QED
  BY <1>2, <1>3, <1>4, <1>5, <1>6

LEMMA EveryStep ==
  ASSUME GateBasis, NEW s \in Sessions,
         Statement(s) \/ GateRequest(s) \/ GateCrash(s) \/ BreakDeadlock(s)
  PROVE  SessionStep(s)
BY SettleSteps, BeginStep, UpdateSteps, RunSteps, ExecutionSteps DEF Statement

\* The row of every UPDATE and INSERT is one, and so is what is written to it.
LEMMA RowsWritten ==
  ASSUME GateBasis, NEW s \in Sessions
  PROVE  /\ at[s] = "update" => arg[s].row \in Rows /\ arg[s].value \in RowStatus
         /\ at[s] = "settleTask" => arg[s].task \in Rows
         /\ at[s] = "park" => arg[s].row \in Rows
         /\ {"pending", "withdrawn", "expired", "awaiting_approval", "completed"} \subseteq RowStatus
         /\ Approvals \subseteq Rows /\ Tasks \subseteq Rows
BY RequestTypes DEF GateAbout, GateFits, Settling, Deciding, Rows, RowStatus, ApprovalStatus, TaskStatus

LEMMA BasisNext == ASSUME GateBasis, [GateNext]_gateVars PROVE GateBasis'
<1>1. CASE UNCHANGED gateVars
  BY <1>1 DEF GateBasis, GateTypeOK, gateVars
<1>2. ASSUME NEW a \in Approvals, Lapse(a) PROVE GateBasis'
  BY <1>2 DEF GateBasis, GateTypeOK, Lapse, memory, ghosts
<1>3. ASSUME NEW s \in Sessions, Statement(s) \/ GateRequest(s) \/ GateCrash(s) \/ BreakDeadlock(s)
      PROVE GateBasis'
  <2>1. PICK m \in Arg, label \in Labels :
          GateAbout(m, label) /\ arg' = [arg EXCEPT ![s] = m] /\ at' = [at EXCEPT ![s] = label]
    BY <1>3, EveryStep DEF SessionStep
  <2>2. /\ arg' \in [Sessions -> Arg] /\ at' \in [Sessions -> Labels]
        /\ \A o \in Sessions : GateAbout(arg'[o], at'[o])
    BY <2>1, SessionMoves
  <2> DEFINE Rest == /\ rows' \in [Rows -> RowStatus] /\ lapsed' \subseteq Approvals /\ log' \subseteq Event
                     /\ dirty' \in [Sessions -> [Rows -> RowStatus \cup {Keep}]]
                     /\ entries' \in [Sessions -> SUBSET Event] /\ audit' \in Sessions \cup {Nobody}
                     /\ effects' \in [Approvals -> Nat] /\ torn' \subseteq Approvals
  <2>3. ASSUME UNCHANGED <<rows, lapsed, log, dirty, entries, audit, ghosts>> PROVE Rest
    BY <2>3 DEF GateBasis, GateTypeOK, ghosts
  <2>4. ASSUME TakeAuditLock(s) /\ UNCHANGED <<rows, lapsed, log, dirty, entries, ghosts>> PROVE Rest
    BY <2>4 DEF GateBasis, GateTypeOK, ghosts, TakeAuditLock
  <2>5. ASSUME NEW x \in Rows, NEW v \in RowStatus, Write(s, x, v),
               UNCHANGED <<rows, lapsed, log, entries, audit, ghosts>>
        PROVE  Rest
    <3>1. dirty' \in [Sessions -> [Rows -> RowStatus \cup {Keep}]]
      BY <2>5, RowWrite
    <3> QED
      BY <2>5, <3>1 DEF GateBasis, GateTypeOK, ghosts
  <2>6. ASSUME Commit(s) PROVE Rest
    <3>1. rows' \in [Rows -> RowStatus] /\ log' \subseteq Event
      BY <2>6, SeesARow, RequestTypes DEF Commit, GateBasis, GateTypeOK
    <3> QED
      BY <2>6, <3>1, TransactionEnds DEF Commit, GateBasis, GateTypeOK, ghosts
  <2>7. ASSUME GateCrash(s) \/ BreakDeadlock(s) PROVE Rest
    BY <2>7, TransactionEnds DEF GateCrash, BreakDeadlock, Rollback, GateBasis, GateTypeOK
  <2>8. ASSUME ClaimIntent(s) PROVE Rest
    <3>1. arg[s].row \in Approvals
      BY <2>8, RequestTypes DEF ClaimIntent, GateAbout, GateFits, Settling, Deciding
    <3>2. entries' \in [Sessions -> SUBSET Event]
      BY <2>8, <3>1 DEF ClaimIntent, Note, Event, GateBasis, GateTypeOK
    <3> QED
      BY <2>8, <3>2 DEF ClaimIntent, TakeAuditLock, GateBasis, GateTypeOK, ghosts
  <2>9. ASSUME ExecuteAction(s) PROVE Rest
    <3>1. arg[s].row \in Approvals
      BY <2>9, RequestTypes DEF ExecuteAction, GateAbout, GateFits, Settling, Deciding
    <3>2. entries' \in [Sessions -> SUBSET Event] /\ effects' \in [Approvals -> Nat]
      BY <2>9, <3>1 DEF ExecuteAction, Note, Event, GateBasis, GateTypeOK
    <3> QED
      BY <2>9, <3>2 DEF ExecuteAction, GateBasis, GateTypeOK
  <2>10. Rest
    <3>1. CASE GateRequest(s)
      BY <2>3, <3>1 DEF GateRequest, DecideApproval, WithdrawAuthorizedAction, CancelTask,
        ManuallyReconcileTask, Propose, OpenPage
    <3>2. CASE UpdatedAll(s) \/ ListStranded(s) \/ SettleRead(s) \/ SettlePending(s) \/ Authorize(s)
      BY <2>3, <3>2 DEF UpdatedAll, ListStranded, SettleRead, SettlePending, Authorize
    <3>3. CASE WriteAudit(s) \/ SettleAudit(s) \/ ProposeAudit(s)
      BY <2>4, <3>3 DEF WriteAudit, SettleAudit, ProposeAudit
    <3>4. CASE UpdateRow(s) \/ SettleTask(s) \/ Park(s)
      BY <2>5, <3>4, RowsWritten DEF UpdateRow, SettleTask, Park
    <3>5. ASSUME NEW a \in Approvals, UpdateMatching(s, a) \/ ProposeNext(s, a) PROVE Rest
      <4>1. CASE UNCHANGED dirty
        BY <2>3, <3>5, <4>1 DEF UpdateMatching, ProposeNext
      <4>2. CASE dirty' # dirty
        BY <2>5, <3>5, <4>2, RowsWritten DEF UpdateMatching, ProposeNext
      <4> QED
        BY <4>1, <4>2
    <3> QED
      BY <1>3, <2>6, <2>7, <2>8, <2>9, <3>1, <3>2, <3>3, <3>4, <3>5 DEF Statement
  <2> QED
    BY <2>2, <2>10 DEF GateBasis, GateTypeOK
<1> QED
  BY <1>1, <1>2, <1>3 DEF GateNext

-----------------------------------------------------------------------------
\* The session that executes holds the lock, so it is the only one.
LEMMA OneExecutes ==
  ASSUME ExecutionInv, NEW s \in Sessions, entries[s] # {}, NEW o \in Sessions \ {s}
  PROVE  entries[o] = {} /\ audit # o
BY DEF ExecutionInv, IntentFirst

\* Nothing is added to the record by a step that does not execute.
LEMMA QuietStep ==
  ASSUME ExecutionInv, GateBasis', NEW s \in Sessions, UNCHANGED <<log, entries, effects, torn>>,
         at[s] \notin {"execute", "commit"}, at'[s] # "execute",
         \A o \in Sessions \ {s} : /\ arg'[o] = arg[o] /\ at'[o] = at[o]
                                   /\ audit = o => audit' = o
  PROVE  ExecutionInv'
<1>1. entries[s] = {}
  BY DEF ExecutionInv, IntentFirst
<1>2. \A o \in Sessions : IntentFirst(o)'
  BY <1>1 DEF ExecutionInv, IntentFirst
<1>3. \A a \in Approvals : EffectRecorded(a)'
  BY DEF ExecutionInv, EffectRecorded, OnRecord
<1> QED
  BY <1>2, <1>3 DEF ExecutionInv

LEMMA CommitRecords ==
  ASSUME ExecutionInv, GateBasis', NEW s \in Sessions, Commit(s)
  PROVE  ExecutionInv'
<1>1. GateBasis /\ \A a \in Approvals : EffectRecorded(a)
  BY DEF ExecutionInv
<1>2. /\ log' = log \cup entries[s] /\ entries'[s] = {} /\ UNCHANGED <<effects, torn>>
      /\ \A o \in Sessions \ {s} : /\ entries'[o] = entries[o] /\ arg'[o] = arg[o] /\ at'[o] = at[o]
                                   /\ audit = o => audit' = o
  BY <1>1, TransactionEnds DEF Commit, Goto, ghosts, GateBasis, GateTypeOK
<1>3. at'[s] \in {"idle", "authorize"}
  BY <1>1 DEF Commit, Goto, GateBasis, GateTypeOK
<1>4. \A o \in Sessions : IntentFirst(o)'
  <2>1. IntentFirst(s)'
    BY <1>2, <1>3 DEF IntentFirst
  <2>2. ASSUME NEW o \in Sessions \ {s} PROVE IntentFirst(o)'
    <3>1. IntentFirst(o)
      BY DEF ExecutionInv
    <3>2. entries[o] # {} => log' = log
      BY <1>2, OneExecutes
    <3> QED
      BY <1>2, <3>1, <3>2 DEF IntentFirst
  <2> QED
    BY <2>1, <2>2
<1>5. ASSUME NEW a \in Approvals PROVE EffectRecorded(a)'
  <2>1. <<"acted", a>> \in entries[s] => OnRecord(a, log') /\ effects[a] > 0
    BY <1>2 DEF ExecutionInv, IntentFirst, OnRecord
  <2>2. \A o \in Sessions : OnRecord(a, entries[o]) => OnRecord(a, log') \/ OnRecord(a, entries'[o])
    BY <1>2 DEF OnRecord
  <2> QED
    BY <1>1, <1>2, <2>1, <2>2 DEF EffectRecorded, OnRecord
<1> QED
  BY <1>4, <1>5 DEF ExecutionInv

LEMMA RollbackRecords ==
  ASSUME ExecutionInv, GateBasis', NEW s \in Sessions, Rollback(s)
  PROVE  ExecutionInv'
<1>1. GateBasis /\ \A a \in Approvals : EffectRecorded(a)
  BY DEF ExecutionInv
<1>2. /\ entries'[s] = {} /\ UNCHANGED <<log, effects>> /\ at'[s] = "idle"
      /\ torn' = torn \cup {a \in Approvals : <<"acted", a>> \in entries[s]}
      /\ \A o \in Sessions \ {s} : /\ entries'[o] = entries[o] /\ arg'[o] = arg[o] /\ at'[o] = at[o]
                                   /\ audit = o => audit' = o
  BY <1>1, TransactionEnds DEF Rollback, Goto, GateBasis, GateTypeOK
<1>3. \A o \in Sessions : IntentFirst(o)'
  BY <1>2 DEF ExecutionInv, IntentFirst
<1>4. ASSUME NEW a \in Approvals PROVE EffectRecorded(a)'
  BY <1>1, <1>2 DEF EffectRecorded, OnRecord
<1> QED
  BY <1>3, <1>4 DEF ExecutionInv

LEMMA ClaimRecords ==
  ASSUME ExecutionInv, GateBasis', NEW s \in Sessions, ClaimIntent(s)
  PROVE  ExecutionInv'
<1>1. GateBasis /\ (\A a \in Approvals : EffectRecorded(a)) /\ IntentFirst(s)
  BY DEF ExecutionInv
<1>2. /\ audit' = s /\ UNCHANGED <<log, effects, torn, arg>>
      /\ \A o \in Sessions \ {s} : audit # o /\ at'[o] = at[o] /\ arg'[o] = arg[o]
  BY <1>1, LockTaken DEF ClaimIntent, Goto, ghosts, GateBasis, GateTypeOK
<1>3. entries[s] = {}
  BY <1>1 DEF ClaimIntent, IntentFirst
<1>4. CASE <<"intent", arg[s].row>> \in log
  <2>1. at'[s] = "commit" /\ entries' = entries
    BY <1>1, <1>4 DEF ClaimIntent, Goto, GateBasis, GateTypeOK
  <2> QED
    BY <1>2, <2>1, QuietStep DEF ClaimIntent
<1>5. CASE <<"intent", arg[s].row>> \notin log
  <2>1. /\ at'[s] = "execute" /\ entries'[s] = {<<"intent", arg[s].row>>}
        /\ \A o \in Sessions \ {s} : entries'[o] = entries[o]
    BY <1>1, <1>3, <1>5 DEF ClaimIntent, Goto, Note, GateBasis, GateTypeOK
  <2>2. arg[s].op = "execute"
    BY <1>1, RequestTypes DEF ClaimIntent, GateAbout, GateFits, Settling
  <2>3. IntentFirst(s)'
    BY <1>2, <1>5, <2>1, <2>2 DEF IntentFirst
  <2>4. \A o \in Sessions \ {s} : IntentFirst(o)'
    BY <1>2, <2>1 DEF ExecutionInv, IntentFirst
  <2>5. \A a \in Approvals : EffectRecorded(a)'
    BY <1>1, <1>2, <1>3, <2>1 DEF EffectRecorded, OnRecord
  <2> QED
    BY <2>3, <2>4, <2>5 DEF ExecutionInv
<1> QED
  BY <1>4, <1>5

LEMMA ExecuteRecords ==
  ASSUME ExecutionInv, GateBasis', NEW s \in Sessions, ExecuteAction(s)
  PROVE  ExecutionInv'
<1> DEFINE row == arg[s].row
<1>1. GateBasis /\ (\A a \in Approvals : EffectRecorded(a)) /\ IntentFirst(s)
  BY DEF ExecutionInv
<1>2. /\ UNCHANGED <<log, torn, arg, audit>> /\ at'[s] = "commit"
      /\ \A o \in Sessions \ {s} : at'[o] = at[o] /\ arg'[o] = arg[o]
  BY <1>1 DEF ExecuteAction, Goto, ghosts, GateBasis, GateTypeOK
<1>3. /\ entries[s] = {<<"intent", row>>} /\ arg[s].op = "execute" /\ audit = s
      /\ <<"intent", row>> \notin log
  BY <1>1 DEF IntentFirst, ExecuteAction
<1>4. row \in Approvals
  BY <1>1, <1>3, RequestTypes DEF GateAbout
<1>5. \A o \in Sessions \ {s} : entries[o] = {}
  BY <1>3, OneExecutes
<1>6. effects[row] > 0 => row \in torn
  <2>1. \A o \in Sessions : ~ OnRecord(row, entries[o])
    <3>1. ~ OnRecord(row, entries[s])
      BY <1>3 DEF OnRecord
    <3> QED
      BY <1>5, <3>1 DEF OnRecord
  <2>2. ~ OnRecord(row, log)
    BY <1>3 DEF OnRecord
  <2> QED
    BY <1>1, <1>4, <2>1, <2>2 DEF EffectRecorded
<1>7. CASE UNCHANGED <<effects, entries>>
  <2>1. \A o \in Sessions : IntentFirst(o)'
    BY <1>2, <1>3, <1>7 DEF ExecutionInv, IntentFirst
  <2>2. \A a \in Approvals : EffectRecorded(a)'
    BY <1>1, <1>2, <1>7 DEF EffectRecorded, OnRecord
  <2> QED
    BY <2>1, <2>2 DEF ExecutionInv
<1>8. CASE effects' = [effects EXCEPT ![row] = @ + 1] /\ Note(s, "acted")
  <2>1. effects \in [Approvals -> Nat]
    BY <1>1 DEF GateBasis, GateTypeOK
  <2>2. /\ effects'[row] = effects[row] + 1 /\ effects[row] \in Nat
        /\ \A a \in Approvals \ {row} : effects'[a] = effects[a]
    BY <1>4, <1>8, <2>1
  <2>3. /\ entries'[s] = {<<"intent", row>>, <<"acted", row>>}
        /\ \A o \in Sessions \ {s} : entries'[o] = {}
    BY <1>1, <1>3, <1>5, <1>8 DEF Note, GateBasis, GateTypeOK
  <2>4. IntentFirst(s)'
    BY <1>2, <1>3, <2>2, <2>3 DEF IntentFirst
  <2>5. \A o \in Sessions \ {s} : IntentFirst(o)'
    <3>1. \A o \in Sessions \ {s} : at'[o] # "execute"
      BY <1>2, <1>5 DEF ExecutionInv, IntentFirst
    <3> QED
      BY <2>3, <3>1 DEF IntentFirst
  <2>6. ASSUME NEW a \in Approvals PROVE EffectRecorded(a)'
    <3>1. EffectRecorded(a)
      BY <1>1
    <3>2. CASE a = row
      <4>1. OnRecord(a, entries'[s])
        BY <2>3, <3>2 DEF OnRecord
      <4>2. effects'[a] > 1 => a \in torn'
        BY <1>2, <1>6, <2>2, <3>2
      <4>3. <<"acted", a>> \notin log'
        BY <1>2, <1>3, <3>1, <3>2 DEF EffectRecorded
      <4> QED
        BY <4>1, <4>2, <4>3 DEF EffectRecorded
    <3>3. CASE a # row
      <4>1. \A o \in Sessions : ~ OnRecord(a, entries[o])
        BY <1>3, <1>5, <3>3 DEF OnRecord
      <4> QED
        BY <1>2, <2>2, <3>1, <3>3, <4>1 DEF EffectRecorded
    <3> QED
      BY <3>2, <3>3
  <2> QED
    BY <2>4, <2>5, <2>6 DEF ExecutionInv
<1> QED
  BY <1>7, <1>8 DEF ExecuteAction

LEMMA ExecutionInvNext == ASSUME ExecutionInv, [GateNext]_gateVars PROVE ExecutionInv'
<1>1. GateBasis /\ GateBasis'
  BY BasisNext DEF ExecutionInv
<1>2. CASE UNCHANGED gateVars \/ \E a \in Approvals : Lapse(a)
  <2>1. UNCHANGED <<log, entries, audit, at, arg, effects, torn>>
    BY <1>2 DEF gateVars, Lapse, memory, ghosts
  <2>2. (\A s \in Sessions : IntentFirst(s)') /\ \A a \in Approvals : EffectRecorded(a)'
    BY <2>1 DEF ExecutionInv, IntentFirst, EffectRecorded, OnRecord
  <2> QED
    BY <1>1, <2>2 DEF ExecutionInv
<1>3. ASSUME NEW s \in Sessions, Statement(s) \/ GateRequest(s) \/ GateCrash(s) \/ BreakDeadlock(s)
      PROVE  ExecutionInv'
  <2>1. PICK m \in Arg, label \in Labels :
          GateAbout(m, label) /\ arg' = [arg EXCEPT ![s] = m] /\ at' = [at EXCEPT ![s] = label]
    BY <1>1, <1>3, EveryStep DEF SessionStep
  <2>2. \A o \in Sessions \ {s} : arg'[o] = arg[o] /\ at'[o] = at[o]
    BY <1>1, <2>1, SessionMoves
  <2>3. ASSUME UNCHANGED <<log, entries, audit, ghosts>>,
               at[s] \notin {"execute", "commit"}, at'[s] # "execute"
        PROVE  ExecutionInv'
    BY <1>1, <2>2, <2>3, QuietStep DEF ghosts
  <2>4. ASSUME UNCHANGED <<log, entries, ghosts>>, TakeAuditLock(s),
               at[s] \notin {"execute", "commit"}, at'[s] # "execute"
        PROVE  ExecutionInv'
    BY <1>1, <2>2, <2>4, LockTaken, QuietStep DEF ghosts
  <2>5. CASE GateRequest(s)
    BY <1>1, <2>3, <2>5 DEF GateRequest, DecideApproval, WithdrawAuthorizedAction, CancelTask,
      ManuallyReconcileTask, Propose, OpenPage, Ask, Begin, Goto, GateBasis, GateTypeOK
  <2>6. CASE UpdatedAll(s) \/ ListStranded(s) \/ SettleRead(s) \/ SettlePending(s) \/ Authorize(s)
    BY <1>1, <2>3, <2>6 DEF UpdatedAll, ListStranded, SettleRead, SettlePending, Authorize, Goto,
      GateBasis, GateTypeOK
  <2>7. CASE UpdateRow(s) \/ SettleTask(s) \/ Park(s)
    BY <1>1, <2>3, <2>7 DEF UpdateRow, SettleTask, Park, Goto, GateBasis, GateTypeOK
  <2>8. CASE \E a \in Approvals : UpdateMatching(s, a) \/ ProposeNext(s, a)
    BY <1>1, <2>3, <2>8 DEF UpdateMatching, ProposeNext, Goto, GateBasis, GateTypeOK
  <2>9. CASE WriteAudit(s) \/ SettleAudit(s) \/ ProposeAudit(s)
    BY <1>1, <2>4, <2>9 DEF WriteAudit, SettleAudit, ProposeAudit, Goto, GateBasis, GateTypeOK
  <2>10. CASE Commit(s) \/ GateCrash(s) \/ BreakDeadlock(s)
    BY <1>1, <2>10, CommitRecords, RollbackRecords DEF GateCrash, BreakDeadlock
  <2>11. CASE ClaimIntent(s) \/ ExecuteAction(s)
    BY <1>1, <2>11, ClaimRecords, ExecuteRecords
  <2> QED
    BY <1>3, <2>5, <2>6, <2>7, <2>8, <2>9, <2>10, <2>11 DEF Statement
<1> QED
  BY <1>2, <1>3 DEF GateNext

\* However often an approval is decided, and whoever crashes where: it is
\* executed once, and what was done is on record, a side effect whose
\* transaction was lost apart (execute-on-approval.ts).
THEOREM ApprovalsExecuteOnce == GateSpec => []ExecutedOnceOnRecord
<1>1. GateInit => ExecutionInv
  <2>1. ASSUME GateInit PROVE ExecutionInv
    BY <2>1, BasisInit DEF GateInit, ExecutionInv, IntentFirst, EffectRecorded
  <2> QED
    BY <2>1
<1>2. ExecutionInv /\ [GateNext]_gateVars => ExecutionInv'
  BY ExecutionInvNext
<1>3. ExecutionInv => ExecutedOnceOnRecord
  BY DEF ExecutionInv, EffectRecorded, OnRecord, ExecutedOnceOnRecord
<1> QED
  BY <1>1, <1>2, <1>3, PTL DEF GateSpec

-----------------------------------------------------------------------------
(* The approval gate: tasks and their proposals *)

\* What a transaction has written.
WroteApprovals(s) ==
  \A a \in Approvals : dirty[s][a] # Keep =>
    /\ dirty[s][a] = "pending" <=> arg[s].op = "propose"
    /\ arg[s].op \in {"propose", "cancel"} => TaskOf[a] = arg[s].row
WroteTask(s, t) ==
  \/ /\ arg[s].op = "propose" /\ t = arg[s].row /\ dirty[s][t] \in {"awaiting_approval", "completed"}
     /\ dirty[s][t] = "awaiting_approval" => \E a \in Approvals : dirty[s][a] = "pending"
  \/ arg[s].op = "cancel" /\ t = arg[s].row /\ dirty[s][t] = "cancelled"
  \/ /\ arg[s].op \in Reconciling /\ at[s] \in Settling \cup {"stranded", "commit"}
     /\ dirty[s][t] = "completed" /\ rows[t] # "running"
WroteTasks(s) == \A t \in Tasks : dirty[s][t] # Keep => WroteTask(s, t)
WritesNothing(s) ==
  arg[s].op \in {"none", "execute"} \/ at[s] = "update" => dirty[s] = Untouched

\* From its first audit event on, what a transaction has written is under the lock.
UnderLock == {"settle", "settlePending", "settleTask", "stranded", "proposeNext", "park", "commit"}
RowsLocked(s) ==
  /\ at[s] \in UnderLock /\ dirty[s] # Untouched => audit = s
  /\ at[s] = "settleAudit" /\ (\E a \in Approvals : dirty[s][a] # Keep) => audit = s
  /\ at[s] = "park" => audit = s

\* A running task is written by its run alone.
TaskIsAs(s) ==
  /\ arg[s].op = "propose" => rows[arg[s].row] = "running"
  /\ arg[s].op = "cancel" => rows[arg[s].row] # "running"
  /\ at[s] \in {"settlePending", "settleTask"} => rows[arg[s].task] # "running"

\* A cancellation leaves nothing pending but what it has still to withdraw.
Cancels(s) ==
  arg[s].op = "cancel" /\ at[s] # "update" =>
    /\ dirty[s][arg[s].row] = "cancelled"
    /\ PendingOf(s, arg[s].row) \subseteq arg[s].todo
    /\ at[s] # "matching" => arg[s].todo = {}

\* Who has settled an approval frees its task, or has still to look at it.
Frees(s, t) ==
  \/ t \in arg[s].tasks
  \/ at[s] \in {"settlePending", "settleTask"} /\ t = arg[s].task
  \/ Sees(s, t) # "awaiting_approval"
  \/ PendingOf(s, t) # {}
FreesTasks(s) ==
  arg[s].op \in Reconciling =>
    /\ at[s] \in Settling \cup {"stranded", "commit"} =>
         \A a \in Approvals : dirty[s][a] # Keep => Frees(s, TaskOf[a])
    /\ at[s] \in {"matching", "stranded", "commit"} => arg[s].tasks = {}

\* Who settles and reconciles in one transaction reads under the lock.
ReadsUnderLock(s) ==
  arg[s].op \in Deciding /\ at[s] \in Settling \cup {"commit"} =>
    /\ audit = s
    /\ \A t \in Tasks : dirty[s][t] # Keep => rows[t] = "awaiting_approval"
    /\ at[s] \in {"settlePending", "settleTask"} => Sees(s, arg[s].task) = "awaiting_approval"

GateSession(s) ==
  /\ WroteApprovals(s) /\ WroteTasks(s) /\ WritesNothing(s) /\ RowsLocked(s)
  /\ TaskIsAs(s) /\ Cancels(s) /\ FreesTasks(s) /\ ReadsUnderLock(s)

\* One run works on a task.
OneRunPerTask ==
  \A s, o \in Sessions : arg[s].op = "propose" /\ arg[o].op = "propose" /\ s # o => arg[s].row # arg[o].row

GateInv == GateBasis /\ (\A s \in Sessions : GateSession(s)) /\ OneRunPerTask /\ TaskMatchesApprovals

\* A session that has written nothing.
LEMMA CleanSession ==
  ASSUME NEW s \in Sessions, dirty'[s] = Untouched,
         \/ arg'[s].op \in {"none", "execute"} /\ at'[s] \in {"idle", "authorize", "claim", "execute", "commit"}
         \/ at'[s] = "update" /\ arg'[s].op \in Deciding \cup {"cancel"}
         \/ /\ arg'[s].op \in {"page", "repair", "propose"} /\ at'[s] \in {"settle", "proposeNext", "matching"}
            /\ at'[s] = "matching" => arg'[s].tasks = {},
         arg'[s].op = "propose" => rows'[arg'[s].row] = "running",
         arg'[s].op = "cancel" => rows'[arg'[s].row] # "running"
  PROVE  GateSession(s)'
<1>1. \A x \in Rows : dirty'[s][x] = Keep
  BY DEF Untouched
<1>2. /\ WroteApprovals(s)' /\ WroteTasks(s)'
  BY <1>1 DEF WroteApprovals, WroteTasks, Rows
<1>3. WritesNothing(s)' /\ RowsLocked(s)' /\ TaskIsAs(s)'
  BY <1>1 DEF WritesNothing, RowsLocked, TaskIsAs, Rows
<1>4. Cancels(s)' /\ FreesTasks(s)' /\ ReadsUnderLock(s)'
  BY <1>1 DEF Cancels, FreesTasks, ReadsUnderLock, Rows, Reconciling, Deciding, Settling
<1> QED
  BY <1>2, <1>3, <1>4 DEF GateSession

\* What holds of a session whose steps these are not, while the rows stay.
LEMMA OtherSessionsKeep ==
  ASSUME GateBasis, NEW o \in Sessions, GateSession(o), arg'[o] = arg[o], at'[o] = at[o],
         dirty'[o] = dirty[o], rows' = rows, audit = o => audit' = o
  PROVE  GateSession(o)'
<1>1. \A x : Sees(o, x)' = Sees(o, x)
  BY DEF Sees
<1>2. \A t : PendingOf(o, t)' = PendingOf(o, t)
  BY <1>1 DEF PendingOf
<1>3. WroteApprovals(o)' /\ WroteTasks(o)' /\ WritesNothing(o)' /\ RowsLocked(o)' /\ TaskIsAs(o)'
  BY DEF GateSession, WroteApprovals, WroteTasks, WroteTask, WritesNothing, RowsLocked, TaskIsAs
<1>4. Cancels(o)' /\ FreesTasks(o)' /\ ReadsUnderLock(o)'
  BY <1>1, <1>2 DEF GateSession, Cancels, FreesTasks, Frees, ReadsUnderLock
<1> QED
  BY <1>3, <1>4 DEF GateSession

\* The rows change by a commit under the lock.
LEMMA CommitRows ==
  ASSUME GateInv, NEW s \in Sessions, Commit(s)
  PROVE  /\ \A x \in Rows : rows'[x] = IF dirty[s][x] # Keep THEN dirty[s][x] ELSE rows[x]
         /\ dirty[s] = Untouched => rows' = rows
         /\ dirty[s] # Untouched => audit = s
         /\ \A t \in Tasks : rows'[t] = "running" => rows[t] = "running"
<1>1. GateBasis /\ GateSession(s)
  BY DEF GateInv
<1>2. \A x \in Rows : rows'[x] = IF dirty[s][x] # Keep THEN dirty[s][x] ELSE rows[x]
  BY DEF Commit, Sees
<1>3. dirty[s] = Untouched => rows' = rows
  BY <1>1 DEF Commit, Sees, Untouched, GateBasis, GateTypeOK
<1>4. dirty[s] # Untouched => audit = s
  BY <1>1 DEF Commit, GateSession, RowsLocked, UnderLock
<1>5. \A t \in Tasks : rows'[t] = "running" => rows[t] = "running"
  BY <1>1, <1>2 DEF GateSession, WroteTasks, WroteTask, Rows
<1> QED
  BY <1>2, <1>3, <1>4, <1>5

LEMMA OthersSeeCommit ==
  ASSUME GateInv, NEW s \in Sessions, NEW o \in Sessions \ {s}, Commit(s)
  PROVE  GateSession(o)'
<1>1. GateBasis /\ GateSession(s) /\ GateSession(o) /\ OneRunPerTask
  BY DEF GateInv
<1>2. arg'[o] = arg[o] /\ at'[o] = at[o] /\ dirty'[o] = dirty[o] /\ (audit = o => audit' = o)
  BY <1>1, TransactionEnds DEF Commit, Goto, GateBasis, GateTypeOK
<1>3. CASE dirty[s] = Untouched
  BY <1>1, <1>2, <1>3, CommitRows, OtherSessionsKeep
<1>4. CASE dirty[s] # Untouched
  <2>1. /\ \A x \in Rows : rows'[x] = IF dirty[s][x] # Keep THEN dirty[s][x] ELSE rows[x]
        /\ \A t \in Tasks : rows'[t] = "running" => rows[t] = "running"
        /\ audit # o
    BY <1>4, CommitRows
  <2>2. at[o] \in UnderLock => dirty[o] = Untouched
    BY <1>1, <2>1 DEF GateSession, RowsLocked
  <2>3. at[o] \in Settling \cup {"stranded", "commit"} => \A a \in Approvals : dirty[o][a] = Keep
    BY <1>1, <2>1, <2>2 DEF GateSession, RowsLocked, UnderLock, Untouched, Settling, Rows
  <2>4. GateAbout(arg[o], at[o]) /\ GateAbout(arg[s], at[s])
    BY <1>1, RequestTypes
  <2>5. \A t \in Tasks : rows[t] = "running" /\ dirty[s][t] # Keep => arg[s].op = "propose" /\ t = arg[s].row
    BY <1>1 DEF GateSession, WroteTasks, WroteTask, TaskIsAs
  <2>6. arg[o].op = "propose" => rows'[arg[o].row] = "running"
    BY <1>1, <2>1, <2>4, <2>5 DEF GateSession, TaskIsAs, OneRunPerTask, GateAbout, Rows
  <2>7. /\ arg[o].op = "cancel" => rows'[arg[o].row] # "running"
        /\ at[o] \in {"settlePending", "settleTask"} => rows'[arg[o].task] # "running"
    BY <1>1, <2>1, <2>4 DEF GateSession, TaskIsAs, GateAbout
  <2>8. WroteApprovals(o)' /\ WroteTasks(o)' /\ WritesNothing(o)' /\ RowsLocked(o)' /\ TaskIsAs(o)'
    BY <1>1, <1>2, <2>1, <2>6, <2>7 DEF GateSession, WroteApprovals, WroteTasks, WroteTask, WritesNothing, RowsLocked, TaskIsAs
  <2>9. Cancels(o)'
    <3>1. SUFFICES ASSUME arg[o].op = "cancel", at[o] # "update", NEW a \in Approvals,
                          TaskOf[a] = arg[o].row, Sees(o, a)' = "pending"
                   PROVE  Sees(o, a) = "pending"
      BY <1>1, <1>2 DEF GateSession, Cancels, PendingOf
    <3>2. dirty[o][a] = Keep => rows[a] = "pending"
      <4>1. SUFFICES ASSUME dirty[o][a] = Keep, rows[a] # "pending" PROVE FALSE
        OBVIOUS
      <4>2. dirty[s][a] = "pending" /\ dirty[s][a] # Keep
        BY <1>2, <2>1, <3>1, <4>1 DEF Sees, Rows
      <4>3. arg[s].op = "propose" /\ TaskOf[a] = arg[s].row
        BY <1>1, <4>2 DEF GateSession, WroteApprovals
      <4> QED
        BY <1>1, <3>1, <4>3 DEF GateSession, TaskIsAs
    <3> QED
      BY <1>2, <3>1, <3>2 DEF Sees
  <2>10. FreesTasks(o)' /\ ReadsUnderLock(o)'
    BY <1>1, <1>2, <2>1, <2>3 DEF GateSession, FreesTasks, ReadsUnderLock
  <2> QED
    BY <2>8, <2>9, <2>10 DEF GateSession
<1> QED
  BY <1>3, <1>4

\* What a commit leaves pending is what its transaction saw pending.
LEMMA CommitMatches ==
  ASSUME GateInv, NEW s \in Sessions, Commit(s)
  PROVE  TaskMatchesApprovals'
<1>1. GateBasis /\ GateSession(s) /\ TaskMatchesApprovals /\ GateAbout(arg[s], at[s])
  BY RequestTypes DEF GateInv
<1>2. \A x \in Rows : rows'[x] = IF dirty[s][x] # Keep THEN dirty[s][x] ELSE rows[x]
  BY CommitRows
<1>3. \A x \in Rows : rows'[x] = Sees(s, x)
  BY DEF Commit
<1>4. ASSUME NEW t \in Tasks, rows'[t] = "awaiting_approval"
      PROVE  \E a \in Approvals : TaskOf[a] = t /\ rows'[a] = "pending"
  <2>1. CASE dirty[s][t] # Keep
    <3>1. dirty[s][t] = "awaiting_approval" /\ WroteTask(s, t)
      BY <1>1, <1>2, <1>4, <2>1 DEF GateSession, WroteTasks, Rows
    <3>2. PICK a \in Approvals : arg[s].op = "propose" /\ t = arg[s].row /\ dirty[s][a] = "pending"
      BY <3>1 DEF WroteTask
    <3>3. "pending" # Keep
      BY KeepAssumption DEF RowStatus, ApprovalStatus
    <3>4. TaskOf[a] = t /\ rows'[a] = "pending"
      BY <1>1, <1>2, <3>2, <3>3 DEF GateSession, WroteApprovals, Rows
    <3> QED
      BY <3>4
  <2>2. CASE dirty[s][t] = Keep
    <3>1. rows[t] = "awaiting_approval"
      BY <1>2, <1>4, <2>2 DEF Rows
    <3>2. PICK b \in Approvals : TaskOf[b] = t /\ rows[b] = "pending"
      BY <1>1, <3>1 DEF TaskMatchesApprovals
    <3>3. CASE dirty[s][b] = Keep
      BY <1>2, <3>2, <3>3 DEF Rows
    <3>4. CASE dirty[s][b] # Keep
      <4>1. arg[s].op \notin {"none", "execute"}
        BY <1>1, <3>4 DEF GateSession, WritesNothing, Untouched, Rows
      <4>2. arg[s].op # "propose"
        BY <1>1, <3>1, <3>2, <3>4 DEF GateSession, WroteApprovals, TaskIsAs
      <4>3. arg[s].op # "cancel"
        BY <1>1, <2>2, <3>2, <3>4, KeepAssumption
          DEF GateSession, WroteApprovals, Cancels, Commit, RowStatus, TaskStatus
      <4>4. arg[s].op \in Reconciling /\ at[s] = "commit"
        BY <1>1, <4>1, <4>2, <4>3 DEF GateAbout, GateFits, Commit, Reconciling
      <4>5. arg[s].tasks = {} /\ Frees(s, t)
        BY <1>1, <3>2, <3>4, <4>4 DEF GateSession, FreesTasks
      <4>6. PendingOf(s, t) # {}
        BY <1>3, <1>4, <4>4, <4>5 DEF Frees, Rows
      <4> QED
        BY <1>3, <4>6 DEF PendingOf, Rows
    <3> QED
      BY <3>3, <3>4
  <2> QED
    BY <2>1, <2>2
<1>5. ASSUME NEW t \in Tasks, rows'[t] = "cancelled", NEW a \in Approvals, TaskOf[a] = t, rows'[a] = "pending"
      PROVE  FALSE
  <2>1. CASE dirty[s][t] # Keep
    <3>1. arg[s].op = "cancel" /\ t = arg[s].row
      BY <1>1, <1>2, <1>5, <2>1 DEF GateSession, WroteTasks, WroteTask, Rows
    <3>2. PendingOf(s, t) = {}
      BY <1>1, <3>1 DEF GateSession, Cancels, Commit
    <3> QED
      BY <1>3, <1>5, <3>2 DEF PendingOf, Rows
  <2>2. CASE dirty[s][t] = Keep
    <3>1. rows[t] = "cancelled"
      BY <1>2, <1>5, <2>2 DEF Rows
    <3>2. rows[a] # "pending"
      BY <1>1, <1>5, <3>1 DEF TaskMatchesApprovals
    <3>3. dirty[s][a] # Keep /\ dirty[s][a] = "pending"
      BY <1>2, <1>5, <3>2 DEF Rows
    <3>4. arg[s].op = "propose" /\ arg[s].row = t
      BY <1>1, <1>5, <3>3 DEF GateSession, WroteApprovals
    <3> QED
      BY <1>1, <3>1, <3>4 DEF GateSession, TaskIsAs
  <2> QED
    BY <2>1, <2>2
<1> QED
  BY <1>4, <1>5 DEF TaskMatchesApprovals

-----------------------------------------------------------------------------
\* What the session of a statement keeps of what it wrote.
LEMMA WrittenStays ==
  ASSUME GateBasis, NEW s \in Sessions, GateSession(s), dirty'[s] = dirty[s], rows' = rows,
         arg'[s].row = arg[s].row, arg'[s].op \in {arg[s].op, "repair"},
         arg'[s].op = "repair" => arg[s].op \in {"page", "repair"},
         at'[s] # "update",
         at[s] \in Settling \cup {"stranded", "commit"} => at'[s] \in Settling \cup {"stranded", "commit"}
  PROVE  /\ WroteApprovals(s)' /\ WroteTasks(s)' /\ WritesNothing(s)'
         /\ \A x : Sees(s, x)' = Sees(s, x)
         /\ \A t : PendingOf(s, t)' = PendingOf(s, t)
<1>1. \A x : Sees(s, x)' = Sees(s, x)
  BY DEF Sees
<1>2. \A t : PendingOf(s, t)' = PendingOf(s, t)
  BY <1>1 DEF PendingOf
<1>3. WroteApprovals(s)'
  BY DEF GateSession, WroteApprovals
<1>4. WroteTasks(s)' /\ WritesNothing(s)'
  BY DEF GateSession, WroteTasks, WroteTask, WritesNothing, Reconciling, Deciding
<1> QED
  BY <1>1, <1>2, <1>3, <1>4

LEMMA RequestsAreClean ==
  ASSUME GateInv, NEW s \in Sessions, GateRequest(s)
  PROVE  GateSession(s)'
<1>1. GateBasis /\ GateSession(s) /\ GateAbout(arg[s], at[s])
  BY RequestTypes DEF GateInv
<1>2. at[s] = "idle" /\ UNCHANGED <<rows, dirty>>
  BY DEF GateRequest, DecideApproval, WithdrawAuthorizedAction, CancelTask,
      ManuallyReconcileTask, Propose, OpenPage, Ask
<1>3. dirty'[s] = Untouched
  BY <1>1, <1>2 DEF GateAbout, GateFits, GateSession, WritesNothing, Settling
<1> DEFINE Clean ==
             /\ \/ at'[s] = "update" /\ arg'[s].op \in Deciding \cup {"cancel"}
                \/ /\ arg'[s].op \in {"page", "repair", "propose"} /\ at'[s] \in {"settle", "proposeNext", "matching"}
                   /\ at'[s] = "matching" => arg'[s].tasks = {}
             /\ arg'[s].op = "propose" => rows'[arg'[s].row] = "running"
             /\ arg'[s].op = "cancel" => rows'[arg'[s].row] # "running"
<1>4. at \in [Sessions -> Labels] /\ arg \in [Sessions -> Arg]
  BY <1>1 DEF GateBasis, GateTypeOK
<1>5. ASSUME NEW a \in Approvals, NEW d \in Verdicts, DecideApproval(s, a, d) PROVE Clean
  BY <1>4, <1>5 DEF DecideApproval, Begin, Goto, NoArg, Deciding
<1>6. ASSUME NEW a \in Approvals, WithdrawAuthorizedAction(s, a) PROVE Clean
  BY <1>4, <1>6 DEF WithdrawAuthorizedAction, Begin, Goto, NoArg, Deciding
<1>7. ASSUME NEW t \in Tasks, CancelTask(s, t) PROVE Clean
  BY <1>4, <1>7 DEF CancelTask, Begin, Goto, NoArg
<1>8. ASSUME NEW t \in Tasks, ManuallyReconcileTask(s, t) PROVE Clean
  BY <1>4, <1>8 DEF ManuallyReconcileTask, Begin, Goto, NoArg
<1>9. ASSUME NEW t \in Tasks, Propose(s, t) PROVE Clean
  BY <1>4, <1>9 DEF Propose, Begin, Goto, NoArg
<1>10. ASSUME OpenPage(s) PROVE Clean
  BY <1>4, <1>10 DEF OpenPage, Begin, Goto, NoArg
<1>11. Clean
  BY <1>5, <1>6, <1>7, <1>8, <1>9, <1>10 DEF GateRequest
<1> QED
  BY <1>3, <1>11, CleanSession

LEMMA ExecutionIsClean ==
  ASSUME GateInv, NEW s \in Sessions,
         Commit(s) \/ Rollback(s) \/ Authorize(s) \/ ClaimIntent(s) \/ ExecuteAction(s)
  PROVE  GateSession(s)'
<1>1. GateBasis /\ GateSession(s) /\ GateAbout(arg[s], at[s])
  BY RequestTypes DEF GateInv
<1>2. CASE Commit(s)
  <2>1. dirty'[s] = Untouched
    BY <1>1, <1>2, TransactionEnds DEF Commit
  <2>2. arg'[s].op \in {"none", "execute"} /\ at'[s] \in {"idle", "authorize"}
    BY <1>1, <1>2 DEF Commit, Goto, NoArg, GateBasis, GateTypeOK, Arg
  <2> QED
    BY <2>1, <2>2, CleanSession
<1>3. CASE Rollback(s)
  <2>1. dirty'[s] = Untouched
    BY <1>1, <1>3, TransactionEnds DEF Rollback
  <2>2. arg'[s].op = "none" /\ at'[s] = "idle"
    BY <1>1, <1>3 DEF Rollback, Goto, NoArg, GateBasis, GateTypeOK
  <2> QED
    BY <2>1, <2>2, CleanSession
<1>4. CASE Authorize(s) \/ ClaimIntent(s) \/ ExecuteAction(s)
  <2>1. arg[s].op = "execute"
    BY <1>1, <1>4 DEF GateAbout, GateFits, Authorize, ClaimIntent, ExecuteAction, Settling
  <2>2. dirty'[s] = Untouched
    BY <1>1, <1>4, <2>1 DEF Authorize, ClaimIntent, ExecuteAction, GateSession, WritesNothing
  <2>3. arg'[s].op \in {"none", "execute"} /\ at'[s] \in {"idle", "claim", "execute", "commit"}
    BY <1>1, <1>4, <2>1 DEF Authorize, ClaimIntent, ExecuteAction, Goto, NoArg, GateBasis, GateTypeOK
  <2> QED
    BY <2>2, <2>3, CleanSession
<1> QED
  BY <1>2, <1>3, <1>4

LEMMA UpdateRowKeeps ==
  ASSUME GateInv, NEW s \in Sessions, UpdateRow(s)
  PROVE  GateSession(s)'
<1>1. GateBasis /\ GateSession(s) /\ GateAbout(arg[s], at[s])
  BY RequestTypes DEF GateInv
<1>2. dirty[s] = Untouched /\ rows' = rows
  BY <1>1 DEF UpdateRow, GateSession, WritesNothing
<1>3. arg[s].row \in Rows /\ arg[s].value \in RowStatus
  BY <1>1, RowsWritten DEF UpdateRow
<1>4. /\ dirty'[s][arg[s].row] = arg[s].value /\ arg[s].value # Keep
      /\ \A y \in Rows \ {arg[s].row} : dirty'[s][y] = Keep
  BY <1>1, <1>2, <1>3, RowWrite DEF UpdateRow, Untouched
<1>5. CASE arg[s].row \in Tasks
  <2>1. arg[s].op = "cancel" /\ arg[s].value = "cancelled"
    BY <1>1, <1>5, GateAssumption DEF GateAbout, GateFits, UpdateRow, Settling, Deciding
  <2>2. /\ at'[s] = "matching" /\ arg'[s].op = "cancel" /\ arg'[s].row = arg[s].row
        /\ arg'[s].todo = PendingOf(s, arg[s].row)
    BY <1>1, <1>5, <2>1 DEF UpdateRow, Goto, GateBasis, GateTypeOK, Arg
  <2>3. \A a \in Approvals : dirty'[s][a] = Keep /\ dirty[s][a] = Keep
    BY <1>2, <1>4, <1>5, GateAssumption DEF Rows, Untouched
  <2>4. PendingOf(s, arg[s].row)' = arg'[s].todo
    BY <1>2, <2>2, <2>3 DEF PendingOf, Sees
  <2>5. WroteApprovals(s)' /\ WroteTasks(s)' /\ WritesNothing(s)'
    BY <1>4, <2>1, <2>2, <2>3 DEF WroteApprovals, WroteTasks, WroteTask, WritesNothing, Rows
  <2>6. RowsLocked(s)' /\ TaskIsAs(s)' /\ FreesTasks(s)' /\ ReadsUnderLock(s)'
    BY <1>1, <1>2, <2>1, <2>2 DEF GateSession, RowsLocked, UnderLock, TaskIsAs, FreesTasks, ReadsUnderLock,
      Reconciling, Deciding
  <2>7. Cancels(s)'
    BY <1>4, <2>1, <2>2, <2>4 DEF Cancels
  <2> QED
    BY <2>5, <2>6, <2>7 DEF GateSession
<1>6. CASE arg[s].row \notin Tasks
  <2>1. arg[s].op \in Deciding /\ arg[s].row \in Approvals /\ arg[s].value \in Verdicts \cup {"withdrawn"}
    BY <1>1, <1>6 DEF GateAbout, GateFits, UpdateRow, Settling
  <2>2. at'[s] = "audit" /\ arg' = arg
    BY <1>1, <1>6 DEF UpdateRow, Goto, GateBasis, GateTypeOK
  <2>3. WroteApprovals(s)' /\ WroteTasks(s)' /\ WritesNothing(s)'
    BY <1>4, <1>6, <2>1, <2>2 DEF WroteApprovals, WroteTasks, WritesNothing, Rows, Verdicts, Deciding
  <2>4. RowsLocked(s)' /\ TaskIsAs(s)' /\ FreesTasks(s)' /\ ReadsUnderLock(s)' /\ Cancels(s)'
    BY <2>1, <2>2 DEF RowsLocked, UnderLock, TaskIsAs, FreesTasks, ReadsUnderLock, Cancels, Settling, Deciding
  <2> QED
    BY <2>3, <2>4 DEF GateSession
<1> QED
  BY <1>5, <1>6

LEMMA UpdateMatchingKeeps ==
  ASSUME GateInv, NEW s \in Sessions, NEW a \in Approvals, UpdateMatching(s, a)
  PROVE  GateSession(s)'
<1>1. GateBasis /\ GateSession(s) /\ GateAbout(arg[s], at[s])
  BY RequestTypes DEF GateInv
<1>2. /\ arg[s].op \in {"page", "cancel"} /\ at[s] = "matching" /\ a \in arg[s].todo
      /\ UNCHANGED <<rows, audit, at>>
      /\ arg'[s].op = arg[s].op /\ arg'[s].row = arg[s].row /\ arg'[s].todo = arg[s].todo \ {a}
      /\ arg'[s].tasks = arg[s].tasks
  BY <1>1 DEF UpdateMatching, GateAbout, GateFits, Settling, GateBasis, GateTypeOK, Arg
<1> DEFINE status == IF arg[s].op = "cancel" THEN "withdrawn" ELSE "expired"
<1>3. /\ rows[a] = "pending" => dirty'[s][a] = status
      /\ rows[a] # "pending" => dirty'[s][a] = dirty[s][a]
      /\ \A x \in Rows \ {a} : dirty'[s][x] = dirty[s][x]
  BY <1>1, RowWrite, RowsWritten DEF UpdateMatching
<1>4. WroteApprovals(s)'
  BY <1>1, <1>2, <1>3 DEF GateSession, WroteApprovals, GateAbout, Rows
<1>5. \A t \in Tasks : dirty'[s][t] = dirty[s][t]
  BY <1>3, GateAssumption DEF Rows
<1>6. WroteTasks(s)' /\ WritesNothing(s)' /\ RowsLocked(s)' /\ TaskIsAs(s)'
  BY <1>1, <1>2, <1>5 DEF GateSession, WroteTasks, WroteTask, WritesNothing, RowsLocked, UnderLock, TaskIsAs, Settling
<1>7. FreesTasks(s)' /\ ReadsUnderLock(s)'
  BY <1>1, <1>2 DEF GateSession, FreesTasks, ReadsUnderLock, Settling
<1>8. Cancels(s)'
  <2>1. SUFFICES ASSUME arg[s].op = "cancel" PROVE Cancels(s)'
    BY <1>2 DEF Cancels
  <2>2. arg[s].row \in Tasks /\ dirty'[s][arg[s].row] = "cancelled"
    BY <1>1, <1>2, <1>5, <2>1 DEF GateSession, Cancels, GateAbout
  <2>3. ASSUME NEW b \in Approvals, TaskOf[b] = arg[s].row, Sees(s, b)' = "pending"
        PROVE  b \in arg[s].todo \ {a}
    <3>1. b # a
      <4>1. SUFFICES ASSUME b = a PROVE FALSE
        OBVIOUS
      <4>2. rows[a] # "pending"
        BY <1>3, <2>1, <2>3, <4>1, KeepAssumption DEF Sees, RowStatus, ApprovalStatus
      <4>3. dirty[s][a] = "pending" /\ dirty[s][a] # Keep
        BY <1>2, <1>3, <2>3, <4>1, <4>2 DEF Sees
      <4> QED
        BY <1>1, <2>1, <4>3 DEF GateSession, WroteApprovals
    <3>2. Sees(s, b) = "pending"
      BY <1>2, <1>3, <2>3, <3>1 DEF Sees, Rows
    <3> QED
      BY <1>1, <1>2, <2>1, <2>3, <3>1, <3>2 DEF GateSession, Cancels, PendingOf
  <2> QED
    BY <1>2, <2>2, <2>3 DEF Cancels, PendingOf
<1> QED
  BY <1>4, <1>6, <1>7, <1>8 DEF GateSession

\* The lock, and what a session keeps when it only moves on.
LEMMA UpdatedAllKeeps ==
  ASSUME GateInv, NEW s \in Sessions, UpdatedAll(s)
  PROVE  GateSession(s)'
<1>1. GateBasis /\ GateSession(s) /\ GateAbout(arg[s], at[s])
  BY RequestTypes DEF GateInv
<1>2. /\ arg[s].op \in {"page", "cancel"} /\ at[s] = "matching" /\ arg[s].todo = {}
      /\ UNCHANGED <<rows, audit, arg, dirty>>
      /\ at'[s] \in {"stranded", "audit"}
      /\ at'[s] = "stranded" => arg[s].op = "page" /\ \A a \in Approvals : dirty[s][a] = Keep
  BY <1>1 DEF UpdatedAll, Goto, GateAbout, GateFits, Settling, GateBasis, GateTypeOK
<1>3. /\ WroteApprovals(s)' /\ WroteTasks(s)' /\ WritesNothing(s)'
      /\ \A x : Sees(s, x)' = Sees(s, x)
      /\ \A t : PendingOf(s, t)' = PendingOf(s, t)
  BY <1>1, <1>2, WrittenStays DEF Settling
<1>4. at'[s] = "stranded" => dirty[s] = Untouched
  <2>1. arg[s].op = "page" => \A t \in Tasks : dirty[s][t] = Keep
    BY <1>1, <1>2 DEF GateSession, WroteTasks, WroteTask, Settling
  <2> QED
    BY <1>1, <1>2, <2>1 DEF Rows, Untouched, GateBasis, GateTypeOK
<1>5. RowsLocked(s)' /\ TaskIsAs(s)' /\ Cancels(s)'
  BY <1>1, <1>2, <1>3, <1>4 DEF GateSession, RowsLocked, UnderLock, TaskIsAs, Cancels
<1>6. FreesTasks(s)' /\ ReadsUnderLock(s)'
  BY <1>1, <1>2 DEF GateSession, FreesTasks, ReadsUnderLock, Settling, Deciding
<1> QED
  BY <1>3, <1>5, <1>6 DEF GateSession

LEMMA WriteAuditKeeps ==
  ASSUME GateInv, NEW s \in Sessions, WriteAudit(s)
  PROVE  GateSession(s)'
<1>1. GateBasis /\ GateSession(s) /\ GateAbout(arg[s], at[s])
  BY RequestTypes DEF GateInv
<1>2. /\ arg[s].op \in {"decide", "withdraw", "page", "cancel"} /\ at[s] = "audit" /\ audit' = s
      /\ UNCHANGED <<rows, dirty>> /\ arg'[s].op = arg[s].op /\ arg'[s].row = arg[s].row
      /\ arg[s].op = "cancel" => at'[s] = "commit" /\ arg'[s].todo = arg[s].todo
      /\ arg[s].op # "cancel" =>
           at'[s] = "settle" /\ arg'[s].tasks = {TaskOf[a] : a \in {b \in Approvals : dirty[s][b] # Keep}}
  BY <1>1, LockTaken DEF WriteAudit, Goto, GateAbout, GateFits, Settling, Deciding, GateBasis, GateTypeOK, Arg
<1>3. /\ WroteApprovals(s)' /\ WroteTasks(s)' /\ WritesNothing(s)'
      /\ \A x : Sees(s, x)' = Sees(s, x)
      /\ \A t : PendingOf(s, t)' = PendingOf(s, t)
  BY <1>1, <1>2, WrittenStays DEF Settling
<1>4. RowsLocked(s)' /\ TaskIsAs(s)' /\ Cancels(s)'
  BY <1>1, <1>2, <1>3 DEF GateSession, RowsLocked, TaskIsAs, Cancels
<1>5. FreesTasks(s)'
  BY <1>2 DEF FreesTasks, Frees, Reconciling, Deciding
<1>6. ReadsUnderLock(s)'
  <2>1. arg[s].op \in Deciding => \A t \in Tasks : dirty[s][t] = Keep
    BY <1>1, <1>2 DEF GateSession, WroteTasks, WroteTask, Settling, Deciding
  <2> QED
    BY <1>2, <2>1 DEF ReadsUnderLock, Deciding
<1> QED
  BY <1>3, <1>4, <1>5, <1>6 DEF GateSession

LEMMA SettleReadKeeps ==
  ASSUME GateInv, NEW s \in Sessions, SettleRead(s)
  PROVE  GateSession(s)'
<1>1. GateBasis /\ GateSession(s) /\ GateAbout(arg[s], at[s])
  BY RequestTypes DEF GateInv
<1>2. arg[s].op \in Reconciling /\ at[s] = "settle" /\ UNCHANGED <<rows, dirty, audit>>
  BY <1>1 DEF SettleRead, GateAbout, GateFits, Reconciling
<1>3. CASE arg[s].tasks = {}
  <2>1. /\ at'[s] = IF arg[s].op = "page" THEN "stranded" ELSE "commit"
        /\ arg'[s].op = arg[s].op /\ arg'[s].row = arg[s].row /\ arg'[s].tasks = {}
    BY <1>1, <1>3 DEF SettleRead, Goto, GateBasis, GateTypeOK, Arg
  <2>2. /\ WroteApprovals(s)' /\ WroteTasks(s)' /\ WritesNothing(s)'
        /\ \A x : Sees(s, x)' = Sees(s, x)
        /\ \A t : PendingOf(s, t)' = PendingOf(s, t)
    BY <1>1, <1>2, <2>1, WrittenStays DEF Settling, Reconciling, Deciding
  <2>3. RowsLocked(s)' /\ TaskIsAs(s)' /\ Cancels(s)'
    BY <1>1, <1>2, <2>1 DEF GateSession, RowsLocked, UnderLock, TaskIsAs, Cancels, Reconciling, Deciding
  <2>4. FreesTasks(s)'
    BY <1>1, <1>2, <1>3, <2>1, <2>2 DEF GateSession, FreesTasks, Frees, Settling
  <2>5. ReadsUnderLock(s)'
    BY <1>1, <1>2, <2>1 DEF GateSession, ReadsUnderLock, Settling, Deciding
  <2> QED
    BY <2>2, <2>3, <2>4, <2>5 DEF GateSession
<1>4. CASE arg[s].tasks # {}
  <2>1. PICK t \in arg[s].tasks :
          /\ arg' = [arg EXCEPT ![s].task = t, ![s].tasks = @ \ {t}]
          /\ Goto(s, IF Sees(s, t) = "awaiting_approval" THEN "settlePending" ELSE "settle")
    BY <1>4 DEF SettleRead
  <2>2. t \in Tasks
    BY <1>1, RequestTypes
  <2>3. /\ at'[s] = IF Sees(s, t) = "awaiting_approval" THEN "settlePending" ELSE "settle"
        /\ arg'[s].op = arg[s].op /\ arg'[s].row = arg[s].row /\ arg'[s].tasks = arg[s].tasks \ {t}
        /\ arg'[s].task = t
    BY <1>1, <2>1 DEF Goto, GateBasis, GateTypeOK, Arg
  <2>4. /\ WroteApprovals(s)' /\ WroteTasks(s)' /\ WritesNothing(s)'
        /\ \A x : Sees(s, x)' = Sees(s, x)
        /\ \A u : PendingOf(s, u)' = PendingOf(s, u)
    BY <1>1, <1>2, <2>3, WrittenStays DEF Settling, Reconciling, Deciding
  <2>5. Sees(s, t) = "awaiting_approval" => dirty[s][t] = Keep /\ rows[t] = "awaiting_approval"
    BY <1>1, <1>2, <2>2 DEF GateSession, WroteTasks, WroteTask, Sees, Reconciling, Deciding
  <2>6. RowsLocked(s)' /\ TaskIsAs(s)' /\ Cancels(s)'
    BY <1>1, <1>2, <2>3, <2>5 DEF GateSession, RowsLocked, UnderLock, TaskIsAs, Cancels, Reconciling, Deciding
  <2>7. FreesTasks(s)'
    BY <1>1, <1>2, <2>3, <2>4 DEF GateSession, FreesTasks, Frees, Settling
  <2>8. ReadsUnderLock(s)'
    BY <1>1, <1>2, <2>3, <2>4 DEF GateSession, ReadsUnderLock, Settling
  <2> QED
    BY <2>4, <2>6, <2>7, <2>8 DEF GateSession
<1> QED
  BY <1>3, <1>4

LEMMA SettlePendingKeeps ==
  ASSUME GateInv, NEW s \in Sessions, SettlePending(s)
  PROVE  GateSession(s)'
<1>1. GateBasis /\ GateSession(s) /\ GateAbout(arg[s], at[s])
  BY RequestTypes DEF GateInv
<1>2. /\ arg[s].op \in Reconciling /\ at[s] = "settlePending" /\ UNCHANGED <<rows, dirty, audit, arg>>
      /\ at'[s] = IF PendingOf(s, arg[s].task) = {} THEN "settleTask" ELSE "settle"
  BY <1>1 DEF SettlePending, GateAbout, GateFits, Reconciling, Goto, GateBasis, GateTypeOK
<1>3. /\ WroteApprovals(s)' /\ WroteTasks(s)' /\ WritesNothing(s)'
      /\ \A x : Sees(s, x)' = Sees(s, x)
      /\ \A u : PendingOf(s, u)' = PendingOf(s, u)
  BY <1>1, <1>2, WrittenStays DEF Settling, Reconciling, Deciding
<1>4. RowsLocked(s)' /\ TaskIsAs(s)' /\ Cancels(s)'
  BY <1>1, <1>2 DEF GateSession, RowsLocked, UnderLock, TaskIsAs, Cancels, Reconciling, Deciding
<1>5. FreesTasks(s)'
  BY <1>1, <1>2, <1>3 DEF GateSession, FreesTasks, Frees, Settling
<1>6. ReadsUnderLock(s)'
  BY <1>1, <1>2, <1>3 DEF GateSession, ReadsUnderLock, Settling
<1> QED
  BY <1>3, <1>4, <1>5, <1>6 DEF GateSession

LEMMA SettleTaskKeeps ==
  ASSUME GateInv, NEW s \in Sessions, SettleTask(s)
  PROVE  GateSession(s)'
<1> DEFINE u == arg[s].task
<1>1. GateBasis /\ GateSession(s) /\ GateAbout(arg[s], at[s])
  BY RequestTypes DEF GateInv
<1>2. /\ arg[s].op \in Reconciling /\ at[s] = "settleTask" /\ UNCHANGED <<rows, audit, arg>>
      /\ at'[s] = "settleAudit" /\ u \in Tasks /\ u \in Rows
  BY <1>1, RowsWritten DEF SettleTask, GateAbout, GateFits, Reconciling, Goto, GateBasis, GateTypeOK
<1>3. /\ dirty'[s][u] = "completed" /\ dirty'[s][u] # Keep
      /\ \A x \in Rows \ {u} : dirty'[s][x] = dirty[s][x]
  BY <1>1, <1>2, RowWrite, RowsWritten DEF SettleTask
<1>4. /\ \A a \in Approvals : dirty'[s][a] = dirty[s][a] /\ Sees(s, a)' = Sees(s, a)
      /\ \A t : PendingOf(s, t)' = PendingOf(s, t)
      /\ \A t \in Tasks \ {u} : Sees(s, t)' = Sees(s, t)
  BY <1>2, <1>3, GateAssumption DEF Rows, PendingOf, Sees
<1>5. Sees(s, u)' = "completed"
  BY <1>2, <1>3 DEF Sees
<1>6. WroteApprovals(s)' /\ WroteTasks(s)' /\ WritesNothing(s)'
  BY <1>1, <1>2, <1>3, <1>4 DEF GateSession, WroteApprovals, WroteTasks, WroteTask, WritesNothing, TaskIsAs,
    Settling, Reconciling, Deciding, Rows
<1>7. RowsLocked(s)' /\ TaskIsAs(s)' /\ Cancels(s)'
  BY <1>1, <1>2, <1>4 DEF GateSession, RowsLocked, UnderLock, Untouched, TaskIsAs, Cancels, Reconciling, Deciding, Rows
<1>8. FreesTasks(s)'
  <2>1. ASSUME NEW a \in Approvals, dirty[s][a] # Keep PROVE Frees(s, TaskOf[a])'
    <3>1. Frees(s, TaskOf[a]) /\ TaskOf[a] \in Tasks
      BY <1>1, <1>2, <2>1, GateAssumption DEF GateSession, FreesTasks, Settling
    <3> QED
      BY <1>2, <1>4, <1>5, <3>1 DEF Frees
  <2> QED
    BY <1>2, <1>4, <2>1 DEF FreesTasks
<1>9. ReadsUnderLock(s)'
  <2>1. arg[s].op \in Deciding => audit = s /\ Sees(s, u) = "awaiting_approval"
    BY <1>1, <1>2 DEF GateSession, ReadsUnderLock, Settling
  <2>2. arg[s].op \in Deciding => rows[u] = "awaiting_approval"
    BY <1>1, <1>2, <2>1 DEF GateSession, WroteTasks, WroteTask, Sees, Deciding
  <2> QED
    BY <1>1, <1>2, <1>3, <2>1, <2>2 DEF GateSession, ReadsUnderLock, Settling, Rows
<1> QED
  BY <1>6, <1>7, <1>8, <1>9 DEF GateSession

LEMMA SettleAuditKeeps ==
  ASSUME GateInv, NEW s \in Sessions, SettleAudit(s)
  PROVE  GateSession(s)'
<1>1. GateBasis /\ GateSession(s) /\ GateAbout(arg[s], at[s])
  BY RequestTypes DEF GateInv
<1>2. /\ arg[s].op \in Reconciling /\ at[s] = "settleAudit" /\ UNCHANGED <<rows, dirty, arg>>
      /\ at'[s] = "settle" /\ audit' = s
  BY <1>1, LockTaken DEF SettleAudit, GateAbout, GateFits, Reconciling, Goto, GateBasis, GateTypeOK
<1>3. /\ WroteApprovals(s)' /\ WroteTasks(s)' /\ WritesNothing(s)'
      /\ \A x : Sees(s, x)' = Sees(s, x)
      /\ \A u : PendingOf(s, u)' = PendingOf(s, u)
  BY <1>1, <1>2, WrittenStays DEF Settling, Reconciling, Deciding
<1>4. RowsLocked(s)' /\ TaskIsAs(s)' /\ Cancels(s)'
  BY <1>1, <1>2 DEF GateSession, RowsLocked, UnderLock, TaskIsAs, Cancels, Reconciling, Deciding
<1>5. FreesTasks(s)' /\ ReadsUnderLock(s)'
  BY <1>1, <1>2, <1>3 DEF GateSession, FreesTasks, Frees, ReadsUnderLock, Settling
<1> QED
  BY <1>3, <1>4, <1>5 DEF GateSession

LEMMA ListStrandedKeeps ==
  ASSUME GateInv, NEW s \in Sessions, ListStranded(s)
  PROVE  GateSession(s)'
<1>1. GateBasis /\ GateSession(s) /\ GateAbout(arg[s], at[s])
  BY RequestTypes DEF GateInv
<1>2. /\ arg[s].op = "page" /\ at[s] = "stranded" /\ UNCHANGED <<rows, dirty, audit>>
      /\ at'[s] = "settle" /\ arg'[s].op = "repair" /\ arg'[s].row = arg[s].row
  BY <1>1 DEF ListStranded, GateAbout, GateFits, Settling, Goto, GateBasis, GateTypeOK, Arg
<1>3. /\ WroteApprovals(s)' /\ WroteTasks(s)' /\ WritesNothing(s)'
      /\ \A x : Sees(s, x)' = Sees(s, x)
      /\ \A u : PendingOf(s, u)' = PendingOf(s, u)
  BY <1>1, <1>2, WrittenStays DEF Settling, Reconciling, Deciding
<1>4. RowsLocked(s)' /\ TaskIsAs(s)' /\ Cancels(s)' /\ ReadsUnderLock(s)'
  BY <1>1, <1>2 DEF GateSession, RowsLocked, UnderLock, TaskIsAs, Cancels, ReadsUnderLock, Deciding
<1>5. FreesTasks(s)'
  BY <1>1, <1>2, <1>3 DEF GateSession, FreesTasks, Frees, Reconciling
<1> QED
  BY <1>3, <1>4, <1>5 DEF GateSession

LEMMA ProposeKeeps ==
  ASSUME GateInv, NEW s \in Sessions,
         (\E a \in Approvals : ProposeNext(s, a)) \/ ProposeAudit(s) \/ Park(s)
  PROVE  GateSession(s)'
<1>1. GateBasis /\ GateSession(s) /\ GateAbout(arg[s], at[s])
  BY RequestTypes DEF GateInv
<1>2. arg[s].op = "propose" /\ rows' = rows /\ arg'[s].op = arg[s].op /\ arg'[s].row = arg[s].row
  BY <1>1 DEF ProposeNext, ProposeAudit, Park, GateAbout, GateFits, Settling, GateBasis, GateTypeOK, Arg
<1>3. at'[s] \in {"proposeNext", "proposeAudit", "park", "commit"}
  BY <1>1 DEF ProposeNext, ProposeAudit, Park, Goto, GateBasis, GateTypeOK
<1>4. Cancels(s)' /\ FreesTasks(s)' /\ ReadsUnderLock(s)' /\ TaskIsAs(s)' /\ WritesNothing(s)'
  BY <1>1, <1>2, <1>3 DEF GateSession, TaskIsAs, Cancels, FreesTasks, ReadsUnderLock, WritesNothing,
    Reconciling, Deciding
<1>5. CASE \E a \in Approvals : ProposeNext(s, a)
  <2>1. PICK a \in Approvals : ProposeNext(s, a)
    BY <1>5
  <2>2. TaskOf[a] = arg[s].row /\ at'[s] = "proposeAudit"
    BY <1>1, <1>2, <2>1 DEF ProposeNext, GateAbout, Goto, GateBasis, GateTypeOK
  <2>3. \/ dirty' = dirty
        \/ /\ dirty'[s][a] = "pending" /\ dirty'[s][a] # Keep
           /\ \A x \in Rows \ {a} : dirty'[s][x] = dirty[s][x]
    BY <1>1, <2>1, RowWrite, RowsWritten DEF ProposeNext
  <2>4. WroteApprovals(s)'
    BY <1>1, <1>2, <2>2, <2>3 DEF GateSession, WroteApprovals, Rows
  <2>5. WroteTasks(s)'
    <3>1. \A t \in Tasks : dirty'[s][t] = dirty[s][t]
      BY <2>3, GateAssumption DEF Rows
    <3>2. \A b \in Approvals : dirty[s][b] = "pending" => dirty'[s][b] = "pending"
      BY <2>3 DEF Rows
    <3> QED
      BY <1>1, <1>2, <3>1, <3>2 DEF GateSession, WroteTasks, WroteTask, Reconciling, Deciding
  <2>6. RowsLocked(s)'
    BY <2>2 DEF RowsLocked, UnderLock
  <2> QED
    BY <1>4, <2>4, <2>5, <2>6 DEF GateSession
<1>6. CASE ProposeAudit(s)
  <2>1. audit' = s /\ dirty' = dirty
    BY <1>1, <1>6, LockTaken DEF ProposeAudit
  <2>2. WroteApprovals(s)' /\ WroteTasks(s)' /\ RowsLocked(s)'
    BY <1>1, <1>2, <2>1 DEF GateSession, WroteApprovals, WroteTasks, WroteTask, RowsLocked, Reconciling, Deciding
  <2> QED
    BY <1>4, <2>2 DEF GateSession
<1>7. CASE Park(s)
  <2> DEFINE u == arg[s].row
  <2>1. u \in Tasks /\ u \in Rows /\ at[s] = "park" /\ audit' = audit
    BY <1>1, <1>2, <1>7, RowsWritten DEF Park, GateAbout
  <2>2. /\ dirty'[s][u] = IF \E a \in Approvals : dirty[s][a] = "pending" THEN "awaiting_approval" ELSE "completed"
        /\ \A x \in Rows \ {u} : dirty'[s][x] = dirty[s][x]
    BY <1>1, <1>7, <2>1, RowWrite, RowsWritten DEF Park
  <2>3. \A a \in Approvals : dirty'[s][a] = dirty[s][a]
    BY <2>1, <2>2, GateAssumption DEF Rows
  <2>4. WroteApprovals(s)' /\ WroteTasks(s)'
    BY <1>1, <1>2, <2>1, <2>2, <2>3 DEF GateSession, WroteApprovals, WroteTasks, WroteTask, Reconciling, Deciding, Rows
  <2>5. RowsLocked(s)'
    BY <1>1, <2>1 DEF GateSession, RowsLocked
  <2> QED
    BY <1>4, <2>4, <2>5 DEF GateSession
<1> QED
  BY <1>5, <1>6, <1>7

-----------------------------------------------------------------------------
LEMMA OneRunStays ==
  ASSUME GateInv, [GateNext]_gateVars PROVE OneRunPerTask'
<1>1. GateBasis /\ OneRunPerTask
  BY DEF GateInv
<1>2. CASE arg' = arg
  BY <1>1, <1>2 DEF OneRunPerTask
<1>3. ASSUME NEW s \in Sessions, Statement(s) \/ GateRequest(s) \/ GateCrash(s) \/ BreakDeadlock(s)
      PROVE  OneRunPerTask'
  <2>1. \A o \in Sessions \ {s} : arg'[o] = arg[o]
    BY <1>1, <1>3, EveryStep, SessionMoves DEF SessionStep
  <2>2. ASSUME NEW t \in Tasks, Propose(s, t) PROVE OneRunPerTask'
    <3>1. arg'[s].row = t
      BY <1>1, <2>2 DEF Propose, Begin, NoArg, GateBasis, GateTypeOK
    <3>2. \A o \in Sessions : arg[o].op = "propose" => arg[o].row # t
      BY <2>2 DEF Propose
    <3> QED
      BY <1>1, <2>1, <3>1, <3>2 DEF OneRunPerTask
  <2>3. ASSUME arg'[s].op = "propose" => arg[s].op = "propose" /\ arg'[s].row = arg[s].row
        PROVE  OneRunPerTask'
    BY <1>1, <2>1, <2>3 DEF OneRunPerTask
  <2>4. at \in [Sessions -> Labels] /\ arg \in [Sessions -> Arg]
    BY <1>1 DEF GateBasis, GateTypeOK
  <2>5. ASSUME NEW a \in Approvals, NEW d \in Verdicts, DecideApproval(s, a, d) PROVE OneRunPerTask'
    BY <2>3, <2>4, <2>5 DEF DecideApproval, Begin, NoArg
  <2>6. ASSUME NEW a \in Approvals, WithdrawAuthorizedAction(s, a) PROVE OneRunPerTask'
    BY <2>3, <2>4, <2>6 DEF WithdrawAuthorizedAction, Begin, NoArg
  <2>7. ASSUME NEW t \in Tasks, CancelTask(s, t) \/ ManuallyReconcileTask(s, t) PROVE OneRunPerTask'
    BY <2>3, <2>4, <2>7 DEF CancelTask, ManuallyReconcileTask, Begin, NoArg
  <2>8. ASSUME OpenPage(s) PROVE OneRunPerTask'
    BY <2>3, <2>4, <2>8 DEF OpenPage, Begin, NoArg
  <2>9. ASSUME NEW a \in Approvals, UpdateMatching(s, a) \/ ProposeNext(s, a) PROVE OneRunPerTask'
    BY <2>3, <2>4, <2>9 DEF UpdateMatching, ProposeNext, Arg
  <2>10. CASE UpdateRow(s) \/ WriteAudit(s) \/ ListStranded(s)
    BY <2>3, <2>4, <2>10 DEF UpdateRow, WriteAudit, ListStranded, Arg
  <2>11. CASE SettleRead(s)
    BY <2>3, <2>4, <2>11 DEF SettleRead, Arg
  <2>12. CASE Commit(s) \/ Authorize(s) \/ GateCrash(s) \/ BreakDeadlock(s)
    BY <2>3, <2>4, <2>12 DEF Commit, Authorize, GateCrash, BreakDeadlock, Rollback, NoArg, Arg
  <2>13. CASE UpdatedAll(s) \/ SettlePending(s) \/ SettleTask(s) \/ SettleAudit(s) \/ ProposeAudit(s)
                \/ Park(s) \/ ClaimIntent(s) \/ ExecuteAction(s)
    BY <1>2, <2>13 DEF UpdatedAll, SettlePending, SettleTask, SettleAudit, ProposeAudit, Park,
      ClaimIntent, ExecuteAction
  <2> QED
    BY <1>3, <2>2, <2>5, <2>6, <2>7, <2>8, <2>9, <2>10, <2>11, <2>12, <2>13 DEF Statement, GateRequest
<1>4. CASE UNCHANGED gateVars \/ \E a \in Approvals : Lapse(a)
  BY <1>2, <1>4 DEF gateVars, Lapse, memory
<1> QED
  BY <1>3, <1>4 DEF GateNext

\* The rows change by a commit alone, and a lock is given up by its holder.
LEMMA OthersStay ==
  ASSUME GateBasis, NEW s \in Sessions,
         Statement(s) \/ GateRequest(s) \/ GateCrash(s) \/ BreakDeadlock(s), ~ Commit(s)
  PROVE  /\ rows' = rows
         /\ \A o \in Sessions \ {s} : /\ dirty'[o] = dirty[o] /\ arg'[o] = arg[o] /\ at'[o] = at[o]
                                      /\ audit = o => audit' = o
<1>1. \A o \in Sessions \ {s} : arg'[o] = arg[o] /\ at'[o] = at[o]
  BY EveryStep, SessionMoves DEF SessionStep
<1> DEFINE Rest == rows' = rows /\ \A o \in Sessions \ {s} : dirty'[o] = dirty[o] /\ (audit = o => audit' = o)
<1>2. Rest
  <2>1. CASE GateRequest(s)
    BY <2>1 DEF GateRequest, DecideApproval, WithdrawAuthorizedAction, CancelTask, ManuallyReconcileTask,
      Propose, OpenPage
  <2>2. CASE UpdatedAll(s) \/ ListStranded(s) \/ SettleRead(s) \/ SettlePending(s) \/ Authorize(s) \/ ExecuteAction(s)
    BY <2>2 DEF UpdatedAll, ListStranded, SettleRead, SettlePending, Authorize, ExecuteAction
  <2>3. CASE WriteAudit(s) \/ SettleAudit(s) \/ ProposeAudit(s) \/ ClaimIntent(s)
    BY <2>3, LockTaken DEF WriteAudit, SettleAudit, ProposeAudit, ClaimIntent
  <2>4. CASE UpdateRow(s) \/ SettleTask(s) \/ Park(s)
    BY <2>4, RowWrite, RowsWritten DEF UpdateRow, SettleTask, Park
  <2>5. CASE \E a \in Approvals : UpdateMatching(s, a) \/ ProposeNext(s, a)
    BY <2>5, RowWrite, RowsWritten DEF UpdateMatching, ProposeNext
  <2>6. CASE GateCrash(s) \/ BreakDeadlock(s)
    BY <2>6, TransactionEnds DEF GateCrash, BreakDeadlock, Rollback
  <2> QED
    BY <2>1, <2>2, <2>3, <2>4, <2>5, <2>6 DEF Statement
<1> QED
  BY <1>1, <1>2

LEMMA GateInvNext == ASSUME GateInv, [GateNext]_gateVars PROVE GateInv'
<1>1. GateBasis /\ GateBasis' /\ OneRunPerTask'
  BY BasisNext, OneRunStays DEF GateInv
<1>2. CASE UNCHANGED gateVars \/ \E a \in Approvals : Lapse(a)
  <2>1. UNCHANGED <<rows, audit, dirty, at, arg>>
    BY <1>2 DEF gateVars, Lapse, memory
  <2>2. \A o \in Sessions : GateSession(o)'
    BY <1>1, <2>1, OtherSessionsKeep DEF GateInv
  <2>3. TaskMatchesApprovals'
    BY <2>1 DEF GateInv, TaskMatchesApprovals
  <2> QED
    BY <1>1, <2>2, <2>3 DEF GateInv
<1>3. ASSUME NEW s \in Sessions, Commit(s) PROVE GateInv'
  <2>1. \A o \in Sessions \ {s} : GateSession(o)'
    BY <1>3, OthersSeeCommit
  <2>2. GateSession(s)' /\ TaskMatchesApprovals'
    BY <1>3, ExecutionIsClean, CommitMatches
  <2> QED
    BY <1>1, <2>1, <2>2 DEF GateInv
<1>4. ASSUME NEW s \in Sessions, ~ Commit(s),
             Statement(s) \/ GateRequest(s) \/ GateCrash(s) \/ BreakDeadlock(s)
      PROVE  GateInv'
  <2>1. rows' = rows /\ \A o \in Sessions \ {s} : GateSession(o)'
    BY <1>1, <1>4, OthersStay, OtherSessionsKeep DEF GateInv
  <2>2. TaskMatchesApprovals'
    BY <2>1 DEF GateInv, TaskMatchesApprovals
  <2>3. GateSession(s)'
    BY <1>4, RequestsAreClean, ExecutionIsClean, UpdateRowKeeps, UpdateMatchingKeeps, UpdatedAllKeeps,
      WriteAuditKeeps, SettleReadKeeps, SettlePendingKeeps, SettleTaskKeeps, SettleAuditKeeps,
      ListStrandedKeeps, ProposeKeeps DEF Statement, GateCrash, BreakDeadlock
  <2> QED
    BY <1>1, <2>1, <2>2, <2>3 DEF GateInv
<1> QED
  BY <1>2, <1>3, <1>4 DEF GateNext

LEMMA GateInvInit == ASSUME GateInit PROVE GateInv
<1>1. GateBasis
  BY BasisInit
<1>2. ASSUME NEW s \in Sessions PROVE GateSession(s)
  <2>1. dirty[s] = Untouched /\ at[s] = "idle" /\ arg[s] = NoArg
    BY DEF GateInit
  <2>2. \A x \in Rows : dirty[s][x] = Keep
    BY <2>1 DEF Untouched
  <2> QED
    BY <2>1, <2>2 DEF GateSession, WroteApprovals, WroteTasks, WritesNothing, RowsLocked, UnderLock, TaskIsAs,
      Cancels, FreesTasks, ReadsUnderLock, NoArg, Rows, Reconciling, Deciding
<1>3. OneRunPerTask
  BY DEF GateInit, OneRunPerTask, NoArg
<1>4. TaskMatchesApprovals
  <2>1. PICK waiting \in SUBSET Tasks :
          rows = [x \in Rows |->
                    IF x \in Tasks THEN IF x \in waiting THEN "awaiting_approval" ELSE "running"
                    ELSE IF TaskOf[x] \in waiting THEN "pending" ELSE "absent"]
    BY DEF GateInit
  <2> QED
    BY <2>1, GateAssumption DEF TaskMatchesApprovals, Rows
<1> QED
  BY <1>1, <1>2, <1>3, <1>4 DEF GateInv

\* However decisions, expiries, cancellations and runs interleave, a task that
\* awaits approval has a pending proposal, and a cancelled one has none.
THEOREM TasksMatchApprovals == GateSpec => []TaskMatchesApprovals
<1>1. GateInit => GateInv
  BY GateInvInit
<1>2. GateInv /\ [GateNext]_gateVars => GateInv'
  BY GateInvNext
<1>3. GateInv => TaskMatchesApprovals
  BY DEF GateInv
<1> QED
  BY <1>1, <1>2, <1>3, PTL DEF GateSpec

\* No decision, withdrawal or expiry brings a cancelled task back: of those that
\* commit only the sweeps do, which reconcile without the audit lock.
THEOREM CancelledStaysCancelled == GateSpec => DecisionsKeepCancelled
<1> DEFINE Kept == \A t \in Tasks, s \in Sessions :
                     rows[t] = "cancelled" /\ rows'[t] # "cancelled" /\ at[s] = "commit" /\ at'[s] # "commit"
                       => arg[s].op = "repair"
<1>1. ASSUME GateInv, [GateNext]_gateVars PROVE [Kept]_gateVars
  <2>1. SUFFICES ASSUME NEW t \in Tasks, NEW s \in Sessions, rows[t] = "cancelled", rows'[t] # "cancelled",
                        at[s] = "commit", at'[s] # "commit"
                 PROVE  arg[s].op = "repair"
    OBVIOUS
  <2>2. GateBasis /\ GateSession(s) /\ GateAbout(arg[s], at[s])
    BY <1>1, RequestTypes DEF GateInv
  <2>3. Commit(s)
    <3>1. ASSUME NEW o \in Sessions, Statement(o) \/ GateRequest(o) \/ GateCrash(o) \/ BreakDeadlock(o)
          PROVE  o = s /\ Commit(s)
      <4>1. at'[s] = at[s] \/ o = s
        BY <2>2, <3>1, EveryStep, SessionMoves DEF SessionStep
      <4>2. Commit(o)
        BY <2>1, <2>2, <3>1, OthersStay
      <4> QED
        BY <2>1, <4>1, <4>2
    <3>2. ASSUME UNCHANGED gateVars \/ \E a \in Approvals : Lapse(a) PROVE FALSE
      BY <2>1, <3>2 DEF gateVars, Lapse
    <3> QED
      BY <1>1, <3>1, <3>2 DEF GateNext
  <2>4. dirty[s][t] # Keep /\ dirty[s][t] # "cancelled"
    BY <1>1, <2>1, <2>3, CommitRows DEF Rows
  <2>5. arg[s].op \in Reconciling
    BY <2>1, <2>2, <2>4 DEF GateSession, WroteTasks, WroteTask, TaskIsAs
  <2>6. arg[s].op \notin Deciding
    BY <2>1, <2>2, <2>4 DEF GateSession, ReadsUnderLock
  <2>7. arg[s].op # "page"
    BY <2>1, <2>2 DEF GateAbout, GateFits, Settling, Deciding
  <2> QED
    BY <2>5, <2>6, <2>7 DEF Reconciling
<1>2. GateInit => GateInv
  BY GateInvInit
<1>3. GateInv /\ [GateNext]_gateVars => GateInv'
  BY GateInvNext
<1>4. GateInv /\ [GateNext]_gateVars => [Kept]_gateVars
  BY <1>1
<1> QED
  BY <1>2, <1>3, <1>4, PTL DEF GateSpec, DecisionsKeepCancelled
=============================================================================
