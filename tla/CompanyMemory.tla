--------------------------- MODULE CompanyMemory ---------------------------
(***************************************************************************)
(* What the prompts of a workspace are given as memory: the active versions *)
(* of its knowledge and its accepted decisions, and the admins who change   *)
(* them at the same time.                                                   *)
(*   src/src/domain/knowledge/knowledge.ts, src/src/domain/decisions/decisions.ts *)
(*                                                                         *)
(* Every operation checks the status it read and then updates by id, under  *)
(* READ COMMITTED.  One that only inserts is a single step.                 *)
(***************************************************************************)
EXTENDS Naturals, Sequences

CONSTANTS
  Curators,           \* admins at work
  MaxVersions,        \* bound on the rows of knowledge_items
  MaxDecisions,       \* bound on the rows of decisions
  MaxMemoryRequests   \* bound on the requests of the admins

ASSUME CompanyMemoryAssumption ==
  MaxVersions \in Nat /\ MaxDecisions \in Nat /\ MaxMemoryRequests \in Nat

VARIABLES
  knowledge,    \* the committed versions, in the order of their commits
  decisionLog,  \* the committed decisions, likewise
  curator,      \* per admin: the request that has read its row
  asked,
  revived,      \* ghost: versions activated over a status that was not draft
  acceptedLast  \* ghost: decisions accepted when a successor was or was about to be

memoryVars == <<knowledge, decisionLog, curator, asked, revived, acceptedLast>>

\* choice: the status of the new version a revision makes, or the
\* applicability an acceptance sets; prior: the decision it supersedes.
AtRest == [op |-> "none", row |-> 0, choice |-> "none", prior |-> 0]

CompanyMemoryTypeOK ==
  /\ Len(knowledge) <= MaxVersions /\ Len(decisionLog) <= MaxDecisions
  /\ \A v \in DOMAIN knowledge :
       knowledge[v] \in [status : {"draft", "active", "archived"}, supersedes : 0..(v - 1)]
  /\ \A d \in DOMAIN decisionLog :
       decisionLog[d] \in [status : {"proposed", "accepted", "rejected", "superseded", "retired"},
                           applicability : {"record", "guidance"}, supersedes : 0..(d - 1)]
  /\ \A p \in Curators :
       curator[p] \in [op : {"none", "activate", "archive", "revise", "accept", "accepting",
                             "reject", "retire"},
                       row : 0..(Len(knowledge) + Len(decisionLog)), prior : 0..Len(decisionLog),
                       choice : {"none", "draft", "active", "keep", "record", "guidance"}]
  /\ asked \in 0..MaxMemoryRequests
  /\ revived \subseteq DOMAIN knowledge /\ acceptedLast \subseteq DOMAIN decisionLog

CompanyMemoryInit ==
  /\ knowledge = <<>> /\ decisionLog = <<>>
  /\ curator = [p \in Curators |-> AtRest]
  /\ asked = 0 /\ revived = {} /\ acceptedLast = {}

Requested(p) == curator[p] = AtRest /\ asked < MaxMemoryRequests /\ asked' = asked + 1

\* A request that passed its checks waits to write.
Reads(p, op, row, choice) ==
  /\ Requested(p)
  /\ curator' = [curator EXCEPT ![p] = [AtRest EXCEPT !.op = op, !.row = row, !.choice = choice]]
  /\ UNCHANGED <<knowledge, decisionLog, revived, acceptedLast>>

Done(p, op) == curator[p].op = op /\ curator' = [curator EXCEPT ![p] = AtRest] /\ UNCHANGED asked

-----------------------------------------------------------------------------
(* Knowledge: a change is a new version. *)

CreateKnowledge(p, status) ==
  /\ Requested(p) /\ Len(knowledge) < MaxVersions
  /\ status \in {"draft", "active"}
  /\ knowledge' = Append(knowledge, [status |-> status, supersedes |-> 0])
  /\ UNCHANGED <<decisionLog, curator, revived, acceptedLast>>

\* activateKnowledge, archiveKnowledge, reviseKnowledge, up to their checks.
ReadKnowledge(p, v) ==
  /\ v \in DOMAIN knowledge
  /\ \/ knowledge[v].status = "draft" /\ Reads(p, "activate", v, "none")
     \/ knowledge[v].status # "archived" /\ Reads(p, "archive", v, "none")
     \/ knowledge[v].status = "active" /\ \E status \in {"draft", "active"} : Reads(p, "revise", v, status)

\* The predecessor is archived in the same transaction.
ActivateKnowledge(p) ==
  LET v == curator[p].row
  IN /\ Done(p, "activate")
     /\ knowledge' = [w \in DOMAIN knowledge |->
          IF w = v THEN [knowledge[w] EXCEPT !.status = "active"]
          ELSE IF w = knowledge[v].supersedes THEN [knowledge[w] EXCEPT !.status = "archived"]
          ELSE knowledge[w]]
     /\ revived' = IF knowledge[v].status = "draft" THEN revived ELSE revived \cup {v}
     /\ UNCHANGED <<decisionLog, acceptedLast>>

ArchiveKnowledge(p) ==
  /\ Done(p, "archive")
  /\ knowledge' = [knowledge EXCEPT ![curator[p].row].status = "archived"]
  /\ UNCHANGED <<decisionLog, revived, acceptedLast>>

\* Seeded bug: a version that is active at once leaves its predecessor active.
ReviseKeepsPredecessor(p) ==
  /\ Done(p, "revise") /\ Len(knowledge) < MaxVersions
  /\ knowledge' = Append(knowledge, [status |-> curator[p].choice, supersedes |-> curator[p].row])
  /\ UNCHANGED <<decisionLog, revived, acceptedLast>>

ReviseKnowledge(p) ==
  LET v == curator[p].row
      status == curator[p].choice
  IN /\ Done(p, "revise") /\ Len(knowledge) < MaxVersions
     /\ knowledge' = Append(IF status = "active" THEN [knowledge EXCEPT ![v].status = "archived"] ELSE knowledge,
                            [status |-> status, supersedes |-> v])
     /\ UNCHANGED <<decisionLog, revived, acceptedLast>>

-----------------------------------------------------------------------------
(* Decisions: proposed by anyone, decided by an admin. *)

\* createDecision; a decision it is to replace may have any status.
CreateDecision(p, applicability, prior) ==
  /\ Requested(p) /\ Len(decisionLog) < MaxDecisions
  /\ prior \in 0..Len(decisionLog)
  /\ decisionLog' = Append(decisionLog, [status |-> "proposed", applicability |-> applicability,
                           supersedes |-> prior])
  /\ UNCHANGED <<knowledge, curator, revived, acceptedLast>>

\* acceptDecision, rejectDecision, retireDecision, up to their checks.
ReadDecision(p, d) ==
  /\ d \in DOMAIN decisionLog
  /\ \/ /\ decisionLog[d].status = "proposed"
        /\ \E promote \in {"keep", "record", "guidance"} : Reads(p, "accept", d, promote)
     \/ decisionLog[d].status \in {"proposed", "accepted"} /\ Reads(p, "reject", d, "none")
     \/ /\ decisionLog[d].status = "accepted" /\ decisionLog[d].applicability = "guidance"
        /\ Reads(p, "retire", d, "none")

\* The row an acceptance in progress has updated is locked until its commit.
Locked(d) == \E q \in Curators : curator[q].op = "accepting" /\ curator[q].row = d

\* The first update of acceptDecision, and its read of the prior: only one
\* that is committed and accepted is superseded.
Accept(p) ==
  LET d == curator[p].row
      prior == decisionLog[d].supersedes
  IN /\ curator[p].op = "accept" /\ ~Locked(d)
     /\ curator' = [curator EXCEPT ![p].op = "accepting",
          ![p].prior = IF prior # 0 /\ decisionLog[prior].status = "accepted" THEN prior ELSE 0]
     /\ UNCHANGED <<knowledge, decisionLog, asked, revived, acceptedLast>>

\* The second update, by id, and the commit.
CommitAcceptance(p) ==
  LET d == curator[p].row
      prior == curator[p].prior
      promote == curator[p].choice
      successor(e) == decisionLog[e].supersedes = d
  IN /\ Done(p, "accepting")
     /\ prior # 0 => ~Locked(prior)
     /\ decisionLog' = [e \in DOMAIN decisionLog |->
          IF e = d THEN [decisionLog[e] EXCEPT !.status = "accepted",
                                                     !.applicability = IF promote = "keep" THEN @ ELSE promote]
          ELSE IF e = prior THEN [decisionLog[e] EXCEPT !.status = "superseded"]
          ELSE decisionLog[e]]
     /\ acceptedLast' =
          IF \E e \in DOMAIN decisionLog : successor(e) /\ (decisionLog[e].status = "accepted" \/ Locked(e))
          THEN acceptedLast \cup {d} ELSE acceptedLast
     /\ UNCHANGED <<knowledge, revived>>

Closes(p, op, status) ==
  /\ Done(p, op) /\ ~Locked(curator[p].row)
  /\ decisionLog' = [decisionLog EXCEPT ![curator[p].row].status = status]
  /\ UNCHANGED <<knowledge, revived, acceptedLast>>

RejectDecision(p) == Closes(p, "reject", "rejected")
RetireDecision(p) == Closes(p, "retire", "retired")

\* A request whose connection is lost rolls back.
MemoryRollback(p) ==
  /\ curator[p] # AtRest /\ curator' = [curator EXCEPT ![p] = AtRest]
  /\ UNCHANGED <<knowledge, decisionLog, asked, revived, acceptedLast>>

CompanyMemoryNext ==
  \E p \in Curators :
    \/ \E status \in {"draft", "active"} : CreateKnowledge(p, status)
    \/ \E v \in 1..MaxVersions : ReadKnowledge(p, v)
    \/ ActivateKnowledge(p) \/ ArchiveKnowledge(p) \/ ReviseKnowledge(p)
    \/ \E applicability \in {"record", "guidance"}, prior \in 0..MaxDecisions : CreateDecision(p, applicability, prior)
    \/ \E d \in 1..MaxDecisions : ReadDecision(p, d)
    \/ Accept(p) \/ CommitAcceptance(p) \/ RejectDecision(p) \/ RetireDecision(p)
    \/ MemoryRollback(p)

CompanyMemorySpec == CompanyMemoryInit /\ [][CompanyMemoryNext]_memoryVars

-----------------------------------------------------------------------------
\* The versions that v was made from: those in every set that has, with v and
\* each of its members, the version that one was made from.
Ancestors(v) ==
  {w \in DOMAIN knowledge :
     \A S \in SUBSET DOMAIN knowledge :
       (\A x \in S \cup {v} : knowledge[x].supersedes # 0 => knowledge[x].supersedes \in S)
         => w \in S}

\* What was replaced stays silent: no prompt is given a version of a knowledge
\* item together with one it was made from ("activating a version archives its
\* predecessor in the same transaction"), unless the older one was activated
\* over a commit that its activation had not read; nor a decision together
\* with the one it replaced ("that prior is marked superseded atomically"),
\* unless the replaced one was accepted last, or while its successor was.
ReplacedIsSilent ==
  /\ \A v \in DOMAIN knowledge : \A w \in Ancestors(v) :
       knowledge[v].status = "active" /\ knowledge[w].status = "active" => w \in revived
  /\ \A d \in DOMAIN decisionLog :
       LET prior == decisionLog[d].supersedes
       IN prior # 0 /\ decisionLog[d].status = "accepted" /\ decisionLog[prior].status = "accepted"
            => prior \in acceptedLast
=============================================================================
