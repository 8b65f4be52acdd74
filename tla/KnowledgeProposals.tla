-------------------------- MODULE KnowledgeProposals --------------------------
(***************************************************************************)
(* What a run suggests as knowledge: drafts in quarantine, each with a      *)
(* proposal that admins promote, revise, split or reject, several at once,  *)
(* while the knowledge page offers the same drafts for activation.          *)
(*   src/src/domain/knowledge/extraction.ts, src/src/domain/knowledge/knowledge.ts *)
(*                                                                         *)
(* Every operation reads the proposal and its draft and then updates both   *)
(* by id, under READ COMMITTED.                                             *)
(***************************************************************************)
EXTENDS Naturals, Sequences

CONSTANTS
  Reviewers,        \* admins at work
  MaxDrafts,        \* bound on the drafts, two of which a run may propose
  MaxWordings,      \* bound on the revisions of a claim
  MaxReviewRequests \* bound on the requests of the admins

ASSUME ProposalAssumption ==
  MaxDrafts \in Nat \ {0, 1} /\ MaxWordings \in Nat /\ MaxReviewRequests \in Nat

VARIABLES
  drafts,      \* the knowledge items, each with its proposal, if it has one
  extraction,  \* knowledge_extraction_status of the run
  reviewer,    \* per admin: the request that has read
  reviews,
  closed,      \* ghost: rejected or split, at any time
  unseen       \* ghost: activated or reworded over a status that had changed since the read

proposalVars == <<drafts, extraction, reviewer, reviews, closed, unseen>>

\* claim: its wording, by number; approved: the one that was activated.
Draft(review, restricted) ==
  [status |-> "draft", review |-> review, claim |-> 1, approved |-> 0,
   suggested |-> restricted, restricted |-> restricted]
NoReview == [op |-> "none", row |-> 0, active |-> FALSE, restricted |-> FALSE]

ProposalsTypeOK ==
  /\ Len(drafts) <= MaxDrafts
  /\ \A d \in DOMAIN drafts :
       drafts[d] \in [status : {"draft", "active", "archived"},
                      review : {"none", "pending", "promoted", "rejected", "split"},
                      claim : 1..(MaxWordings + 1), approved : 0..(MaxWordings + 1),
                      suggested : BOOLEAN, restricted : BOOLEAN]
  /\ extraction \in {"none", "succeeded", "empty", "failed"}
  /\ \A p \in Reviewers :
       reviewer[p] \in [op : {"none", "promote", "revise", "split", "reject", "activate", "archive"},
                        row : 0..Len(drafts), active : BOOLEAN, restricted : BOOLEAN]
  /\ reviews \in 0..MaxReviewRequests
  /\ closed \subseteq DOMAIN drafts /\ unseen \subseteq DOMAIN drafts

ProposalsInit ==
  /\ drafts = <<>> /\ extraction = "none"
  /\ reviewer = [p \in Reviewers |-> NoReview]
  /\ reviews = 0 /\ closed = {} /\ unseen = {}

-----------------------------------------------------------------------------
\* applyKnowledgeCandidatesFromText, once per run under its fence: candidates
\* with the disclosure of what they cite.  An error ends it with what it had
\* inserted, the last item without its proposal.
ApplyCandidates ==
  /\ extraction = "none"
  /\ \/ /\ drafts' \in {<<Draft("pending", restricted)>> : restricted \in BOOLEAN}
        /\ extraction' = "succeeded"
     \/ /\ \E first, last \in BOOLEAN :
             drafts' \in {<<>>, <<Draft("none", last)>>, <<Draft("pending", first), Draft("none", last)>>}
        /\ extraction' = "failed"
     \/ extraction' = "empty" /\ UNCHANGED drafts
  /\ UNCHANGED <<reviewer, reviews, closed, unseen>>

\* A request that passed its checks waits to write.
Opens(p, op, d, active, restricted) ==
  /\ reviewer[p] = NoReview /\ reviews < MaxReviewRequests /\ reviews' = reviews + 1
  /\ reviewer' = [reviewer EXCEPT ![p] =
       [op |-> op, row |-> d, active |-> active, restricted |-> restricted]]
  /\ UNCHANGED <<drafts, extraction, closed, unseen>>

Writes(p, op) ==
  /\ reviewer[p].op = op /\ reviewer' = [reviewer EXCEPT ![p] = NoReview]
  /\ UNCHANGED <<extraction, reviews>>

\* Up to the writes; a restricted proposal is promoted as restricted, and a
\* rejection looks at the proposal alone.
ReadProposal(p, d) ==
  /\ d \in DOMAIN drafts /\ drafts[d].review = "pending"
  /\ \/ Opens(p, "reject", d, FALSE, FALSE)
     \/ /\ drafts[d].status = "draft"
        /\ \/ \E active, restricted \in BOOLEAN :
                (drafts[d].suggested => restricted) /\ Opens(p, "promote", d, active, restricted)
           \/ \E op \in {"revise", "split"} : Opens(p, op, d, FALSE, FALSE)

\* activateKnowledge and archiveKnowledge, up to their writes.
ReadItem(p, d) ==
  /\ d \in DOMAIN drafts
  /\ \/ drafts[d].status = "draft" /\ Opens(p, "activate", d, FALSE, FALSE)
     \/ drafts[d].status # "archived" /\ Opens(p, "archive", d, FALSE, FALSE)

Activated(row) == [row EXCEPT !.status = "active", !.approved = row.claim]

\* Seeded bug: the draft is not read again once it is locked.
PromoteUnchecked(p) ==
  LET d == reviewer[p].row
      decided == [drafts[d] EXCEPT !.review = "promoted", !.restricted = reviewer[p].restricted]
  IN /\ Writes(p, "promote")
     /\ drafts' = [drafts EXCEPT ![d] = IF reviewer[p].active THEN Activated(decided) ELSE decided]
     /\ UNCHANGED <<closed, unseen>>

\* The update of the item locks it; activateKnowledge then reads it again and
\* refuses what is no draft any more, which rolls everything back.
Promote(p) ==
  LET d == reviewer[p].row
      decided == [drafts[d] EXCEPT !.review = "promoted", !.restricted = reviewer[p].restricted]
  IN /\ Writes(p, "promote")
     /\ IF ~reviewer[p].active THEN drafts' = [drafts EXCEPT ![d] = decided]
        ELSE IF drafts[d].status = "draft" THEN drafts' = [drafts EXCEPT ![d] = Activated(decided)]
        ELSE UNCHANGED drafts
     /\ UNCHANGED <<closed, unseen>>

\* The wording alone, whatever has become of the draft.
ReviseDraft(p) ==
  LET d == reviewer[p].row
  IN /\ Writes(p, "revise") /\ drafts[d].claim <= MaxWordings
     /\ drafts' = [drafts EXCEPT ![d].claim = @ + 1]
     /\ unseen' = IF drafts[d].status = "draft" THEN unseen ELSE unseen \cup {d}
     /\ UNCHANGED closed

Retired(d, review) == [drafts EXCEPT ![d].review = review, ![d].status = "archived"]

\* Children inherit the disclosure; the original is archived.
Split(p) ==
  LET d == reviewer[p].row
      child == Draft("pending", drafts[d].suggested)
  IN /\ Writes(p, "split") /\ Len(drafts) + 2 <= MaxDrafts
     /\ drafts' = Retired(d, "split") \o <<child, child>>
     /\ closed' = closed \cup {d} /\ UNCHANGED unseen

Reject(p) ==
  LET d == reviewer[p].row
  IN /\ Writes(p, "reject")
     /\ drafts' = Retired(d, "rejected")
     /\ closed' = closed \cup {d} /\ UNCHANGED unseen

Activate(p) ==
  LET d == reviewer[p].row
  IN /\ Writes(p, "activate")
     /\ drafts' = [drafts EXCEPT ![d] = Activated(drafts[d])]
     /\ unseen' = IF drafts[d].status = "draft" THEN unseen ELSE unseen \cup {d}
     /\ UNCHANGED closed

Archive(p) ==
  /\ Writes(p, "archive")
  /\ drafts' = [drafts EXCEPT ![reviewer[p].row].status = "archived"]
  /\ UNCHANGED <<closed, unseen>>

\* A connection is lost, or two requests that wait for each other's rows end one.
ReviewRollback(p) ==
  /\ reviewer[p] # NoReview /\ reviewer' = [reviewer EXCEPT ![p] = NoReview]
  /\ UNCHANGED <<drafts, extraction, reviews, closed, unseen>>

ProposalsNext ==
  \/ ApplyCandidates
  \/ \E p \in Reviewers :
       \/ \E d \in 1..MaxDrafts : ReadProposal(p, d) \/ ReadItem(p, d)
       \/ Promote(p) \/ ReviseDraft(p) \/ Split(p) \/ Reject(p) \/ Activate(p) \/ Archive(p)
       \/ ReviewRollback(p)

ProposalsSpec == ProposalsInit /\ [][ProposalsNext]_proposalVars

-----------------------------------------------------------------------------
\* Reviews that contradict each other leave nothing to believe: what was
\* rejected, or split ("neither the original nor a duplicate can later be
\* promoted"), is in no prompt, even where a promotion had read it before;
\* what is in the prompts has the wording that was activated; and no review
\* makes what derives from restricted sources less so.  The exceptions are an
\* activation from the knowledge page, and a revision, that had read the draft
\* before it ceased to be one.
ReviewsHold ==
  \A d \in DOMAIN drafts :
    /\ drafts[d].status = "active" =>
         d \in unseen \/ (d \notin closed /\ drafts[d].claim = drafts[d].approved)
    /\ drafts[d].suggested => drafts[d].restricted
=============================================================================
