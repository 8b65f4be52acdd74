-------------------------- MODULE VerificationUpload --------------------------
(***************************************************************************)
(* Verification evidence of one attempt at a contract that requires one     *)
(* artifact: the grant to upload it, its redemption against the object      *)
(* store, and the submissions under one idempotency key.                    *)
(*   src/src/domain/verification: upload-grant.ts, ingest.ts,               *)
(*   drizzle-store.ts, and putIfAbsent of documents/s3-object-store.ts.     *)
(*                                                                         *)
(* A file stands for its bytes, size and digest.  Each request is one       *)
(* transaction, open from its first read to its answer.  A runner retries   *)
(* whatever it got no answer to, perhaps while the first request goes on.   *)
(***************************************************************************)
EXTENDS Naturals, FiniteSets

CONSTANTS
  Files,            \* what a runner may declare and send
  NoFile,
  Submissions,      \* what runners may submit under the key
  Runners,          \* requests in flight at one time
  NoRunner,
  PutAttempts,      \* attempts at one conditional PUT (3)
  MaxRunnerFaults   \* bound on crashes and answers that are lost

ASSUME VerificationAssumption ==
  /\ Submissions \subseteq [file : Files \cup {NoFile}, report : {"unsound", "failing", "passing"}]
  /\ NoFile \notin Files /\ NoRunner \notin Runners
  /\ PutAttempts \in Nat \ {0} /\ MaxRunnerFaults \in Nat

VARIABLES
  grant,     \* the file declared in the upload grant
  expired,   \* the grant's expires_at has passed
  uploaded,  \* the 'uploaded' event of the grant
  stored,    \* the object at the grant's key
  astray,    \* conditional PUTs without an answer that may still land
  runner,    \* per request: where it is, its submission, its PUTs, what it found
  evidence,  \* the record of the idempotency key: submission and decision
  inserting, \* the request whose insert of that record is not committed
  told,      \* history: answers given, by submission
  runnerFaults

uploadVars == <<grant, expired, uploaded, stored, astray>>
evidenceVars == <<evidence, inserting, told>>
verificationVars == <<grant, expired, uploaded, stored, astray, runner, evidence, inserting, told,
                      runnerFaults>>

\* A submission names the file it stored, if any; what it reports is unsound
\* (wrong binding, catalog or commands), failing or passing.
NoSubmission == [file |-> NoFile, report |-> "unsound"]
EvidenceDecisions == {"none", "refused", "failed", "verified"}
RunnerSteps == {"idle", "redeem", "send", "put", "head", "reconcile", "complete",
                "prior", "grants", "objects", "save", "commit"}
NoRun == [at |-> "idle", says |-> NoSubmission, puts |-> 0, decision |-> "none"]
NoEvidence == [says |-> NoSubmission, decision |-> "none"]

VerificationTypeOK ==
  /\ grant \in Files \cup {NoFile} /\ expired \in BOOLEAN /\ uploaded \in BOOLEAN
  /\ stored \in Files \cup {NoFile} /\ astray \in Nat
  /\ runner \in [Runners -> [at : RunnerSteps, says : Submissions \cup {NoSubmission}, puts : 0..PutAttempts,
                             decision : EvidenceDecisions]]
  /\ evidence \in [says : Submissions \cup {NoSubmission}, decision : EvidenceDecisions]
  /\ inserting \in Runners \cup {NoRunner}
  /\ told \subseteq [says : Submissions, answer : EvidenceDecisions \cup {"conflict"}]
  /\ runnerFaults \in 0..MaxRunnerFaults

VerificationInit ==
  /\ grant = NoFile /\ expired = FALSE /\ uploaded = FALSE /\ stored = NoFile /\ astray = 0
  /\ runner = [r \in Runners |-> NoRun]
  /\ evidence = NoEvidence /\ inserting = NoRunner /\ told = {} /\ runnerFaults = 0

RunnerFault == runnerFaults < MaxRunnerFaults /\ runnerFaults' = runnerFaults + 1
RunnerAt(r, at) == runner[r].at = at
RunnerGoes(r, at) == runner' = [runner EXCEPT ![r].at = at]
RunnerEnds(r) == runner' = [runner EXCEPT ![r] = NoRun]

-----------------------------------------------------------------------------
\* requestUploadGrant: the first declaration stands; the same one is answered
\* with the grant, another one is a conflict.  Neither changes anything.
RequestUploadGrant(file) ==
  /\ grant = NoFile /\ grant' = file
  /\ UNCHANGED <<expired, uploaded, stored, astray, runner, evidenceVars, runnerFaults>>

GrantExpires ==
  /\ grant # NoFile /\ ~expired /\ expired' = TRUE
  /\ UNCHANGED <<grant, uploaded, stored, astray, runner, evidenceVars, runnerFaults>>

\* redeemUploadGrant: a completed grant is answered at once, an expired one is
\* only reconciled, and what is sent must be what was declared.
RedeemUploadGrant(r, file) ==
  /\ RunnerAt(r, "idle") /\ grant # NoFile /\ ~uploaded
  /\ \/ expired /\ RunnerGoes(r, "reconcile")
     \/ ~expired /\ file = grant /\ RunnerGoes(r, "send")
  /\ UNCHANGED <<uploadVars, evidenceVars, runnerFaults>>

\* putIfAbsent: a retry is not begun after the grant has expired.
BeginPut(r) ==
  /\ RunnerAt(r, "send")
  /\ IF runner[r].puts = PutAttempts \/ (runner[r].puts > 0 /\ expired)
     THEN RunnerEnds(r)
     ELSE runner' = [runner EXCEPT ![r].at = "put", ![r].puts = @ + 1]
  /\ UNCHANGED <<uploadVars, evidenceVars, runnerFaults>>

\* The conditional PUT creates the object or finds one; or its answer is lost,
\* and it lands at any later time or never.
PutIfAbsent(r) ==
  /\ RunnerAt(r, "put")
  /\ \/ /\ stored = NoFile /\ stored' = grant
        /\ RunnerGoes(r, "complete") /\ UNCHANGED <<astray, runnerFaults>>
     \/ /\ stored # NoFile
        /\ RunnerGoes(r, "reconcile") /\ UNCHANGED <<stored, astray, runnerFaults>>
     \/ /\ RunnerFault /\ astray' = astray + 1
        /\ RunnerGoes(r, "head") /\ UNCHANGED stored
  /\ UNCHANGED <<grant, expired, uploaded, evidenceVars>>

PutLands ==
  /\ astray > 0 /\ astray' = astray - 1
  /\ \/ stored' = IF stored = NoFile THEN grant ELSE stored
     \/ UNCHANGED stored
  /\ UNCHANGED <<grant, expired, uploaded, runner, evidenceVars, runnerFaults>>

HeadAfterPut(r) ==
  /\ RunnerAt(r, "head")
  /\ RunnerGoes(r, IF stored # NoFile THEN "reconcile" ELSE "send")
  /\ UNCHANGED <<uploadVars, evidenceVars, runnerFaults>>

\* reconcileExisting: what is there must be what was declared.
ReconcileExisting(r) ==
  /\ RunnerAt(r, "reconcile")
  /\ IF stored = grant THEN RunnerGoes(r, "complete") ELSE RunnerEnds(r)
  /\ UNCHANGED <<uploadVars, evidenceVars, runnerFaults>>

\* The event and the commit; the unique index makes a second one a no-op.
CompleteUpload(r) ==
  /\ RunnerAt(r, "complete")
  /\ uploaded' = TRUE /\ RunnerEnds(r)
  /\ UNCHANGED <<grant, expired, stored, astray, evidenceVars, runnerFaults>>

-----------------------------------------------------------------------------
Answer(r, answer) == told' = told \cup {[says |-> runner[r].says, answer |-> answer]}

\* A recorded submission is answered with its decision, any other with a conflict.
AnswerFor(r) == IF evidence.says = runner[r].says THEN evidence.decision ELSE "conflict"

\* ingestEvidence, once contract, signature and freshness let it in.
IngestEvidence(r, says) ==
  /\ RunnerAt(r, "idle")
  /\ runner' = [runner EXCEPT ![r] = [NoRun EXCEPT !.at = "prior", !.says = says]]
  /\ UNCHANGED <<uploadVars, evidenceVars, runnerFaults>>

\* findExisting, and the gates that need nothing but the submission.
FindExisting(r) ==
  /\ RunnerAt(r, "prior")
  /\ IF evidence # NoEvidence
     THEN RunnerEnds(r) /\ Answer(r, AnswerFor(r))
     ELSE /\ runner' = IF runner[r].says.report = "unsound"
                       THEN [runner EXCEPT ![r].at = "save", ![r].decision = "refused"]
                       ELSE [runner EXCEPT ![r].at = "grants"]
          /\ UNCHANGED told
  /\ UNCHANGED <<uploadVars, evidence, inserting, runnerFaults>>

\* A submitted artifact needs an uploaded grant of the same file.
FindUploadedGrant(r) ==
  /\ RunnerAt(r, "grants")
  /\ runner' = IF runner[r].says.file # NoFile /\ ~(uploaded /\ grant = runner[r].says.file)
               THEN [runner EXCEPT ![r].at = "save", ![r].decision = "refused"]
               ELSE [runner EXCEPT ![r].at = "objects"]
  /\ UNCHANGED <<uploadVars, evidenceVars, runnerFaults>>

\* verifyArtifactAvailability reads the bytes again; the required artifact must
\* be among them, and the required checks must have passed.
Adjudicate(r) ==
  /\ RunnerAt(r, "objects")
  /\ LET says == runner[r].says
         verified == says.report = "passing" /\ says.file # NoFile /\ stored = says.file
     IN runner' = [runner EXCEPT ![r].at = "save",
                                 ![r].decision = IF verified THEN "verified" ELSE "failed"]
  /\ UNCHANGED <<uploadVars, evidenceVars, runnerFaults>>

\* Seeded bug: who loses the insert answers with its own decision.
SaveEvidenceOwn(r) ==
  /\ RunnerAt(r, "save") /\ inserting = NoRunner
  /\ IF evidence = NoEvidence
     THEN inserting' = r /\ RunnerGoes(r, "commit") /\ UNCHANGED told
     ELSE RunnerEnds(r) /\ Answer(r, runner[r].decision) /\ UNCHANGED inserting
  /\ UNCHANGED <<uploadVars, evidence, runnerFaults>>

\* saveEvidence: the insert waits for another one of the key; who loses reads
\* the winner's record and is answered by it.
SaveEvidence(r) ==
  /\ RunnerAt(r, "save") /\ inserting = NoRunner
  /\ IF evidence = NoEvidence
     THEN inserting' = r /\ RunnerGoes(r, "commit") /\ UNCHANGED told
     ELSE RunnerEnds(r) /\ Answer(r, AnswerFor(r)) /\ UNCHANGED inserting
  /\ UNCHANGED <<uploadVars, evidence, runnerFaults>>

\* The commit, and the answer if the runner still hears it.
CommitEvidence(r) ==
  /\ RunnerAt(r, "commit")
  /\ evidence' = [says |-> runner[r].says, decision |-> runner[r].decision]
  /\ inserting' = NoRunner /\ RunnerEnds(r)
  /\ Answer(r, runner[r].decision) \/ UNCHANGED told
  /\ UNCHANGED <<uploadVars, runnerFaults>>

\* A request fails or its process dies: its transaction is undone, a PUT of it
\* that is on its way may land.
RunnerCrash(r) ==
  /\ ~RunnerAt(r, "idle") /\ RunnerFault /\ RunnerEnds(r)
  /\ astray' = astray + IF RunnerAt(r, "put") THEN 1 ELSE 0
  /\ inserting' = IF inserting = r THEN NoRunner ELSE inserting
  /\ UNCHANGED <<grant, expired, uploaded, stored, evidence, told>>

VerificationNext ==
  \/ GrantExpires \/ PutLands \/ \E file \in Files : RequestUploadGrant(file)
  \/ \E r \in Runners :
       \/ \E file \in Files : RedeemUploadGrant(r, file)
       \/ BeginPut(r) \/ PutIfAbsent(r) \/ HeadAfterPut(r) \/ ReconcileExisting(r)
       \/ CompleteUpload(r)
       \/ \E says \in Submissions : IngestEvidence(r, says)
       \/ FindExisting(r) \/ FindUploadedGrant(r) \/ Adjudicate(r) \/ SaveEvidence(r)
       \/ CommitEvidence(r) \/ RunnerCrash(r)

VerificationSpec == VerificationInit /\ [][VerificationNext]_verificationVars

-----------------------------------------------------------------------------
\* What counts as uploaded, and what a decision calls verified, is in the store
\* as it was declared, through lost answers, late writes, crashes and
\* redemptions at the same time (upload-grant.ts; ingest.ts gates 5b and 6).
\* And runners that submit under one idempotency key, together or after a lost
\* answer, are told one decision: that of the record for the submission in it,
\* a conflict for any other (ingest.ts step 3: "a losing changed submission can
\* never inherit the winner's decision").
VerifiedIsStored ==
  /\ uploaded => stored = grant
  /\ evidence.decision = "verified" => uploaded /\ stored = evidence.says.file
  /\ \A t \in told :
       /\ evidence # NoEvidence
       /\ t.answer = IF t.says = evidence.says THEN evidence.decision ELSE "conflict"
=============================================================================
