---------------------------- MODULE RecordsProofs ----------------------------
(***************************************************************************)
(* The records that a company keeps, and that several people change at the  *)
(* same time: what may be believed, what is completed, what a key stands    *)
(* for, what waits for what.  One invariant for each, and the property it   *)
(* gives.                                                                   *)
(***************************************************************************)
EXTENDS KnowledgeProposals, Objectives, AiOperations, Dependencies,
        FiniteSetTheorems, SequenceTheorems, WellFoundedInduction, NaturalsInduction, TLAPS

-----------------------------------------------------------------------------
(* Knowledge proposals *)

DraftRow == [status : {"draft", "active", "archived"},
             review : {"none", "pending", "promoted", "rejected", "split"},
             claim : Nat, approved : Nat, suggested : BOOLEAN, restricted : BOOLEAN]
ReviewRequest == [op : {"none", "promote", "revise", "split", "reject", "activate", "archive"},
                  row : Nat, active : BOOLEAN, restricted : BOOLEAN]

ProposalsTyped ==
  /\ drafts \in Seq(DraftRow) /\ reviewer \in [Reviewers -> ReviewRequest]
  /\ closed \subseteq DOMAIN drafts /\ unseen \subseteq DOMAIN drafts
  /\ extraction = "none" => drafts = <<>>

\* A request has read a draft that there is, and a promotion has decided on a
\* disclosure that is no wider than the one of the sources.
HasRead ==
  \A p \in Reviewers :
    reviewer[p].op # "none" =>
      /\ reviewer[p].row \in DOMAIN drafts
      /\ reviewer[p].op = "promote" => (drafts[reviewer[p].row].suggested => reviewer[p].restricted)

\* What is closed is no draft any more, so no locked re-read can activate it.
ClosedIsOver == \A d \in closed : drafts[d].status # "draft"

ProposalsInv == ProposalsTyped /\ HasRead /\ ClosedIsOver /\ ReviewsHold

LEMMA ProposalsInvInit == ProposalsInit => ProposalsInv
<1> SUFFICES ASSUME ProposalsInit PROVE ProposalsInv
  OBVIOUS
<1>1. reviewer \in [Reviewers -> ReviewRequest] /\ \A p \in Reviewers : reviewer[p].op = "none"
  BY DEF ProposalsInit, NoReview, ReviewRequest
<1>2. drafts = <<>> /\ closed = {} /\ unseen = {}
  BY DEF ProposalsInit
<1> QED
  BY <1>1, <1>2 DEF ProposalsInv, ProposalsTyped, HasRead, ClosedIsOver, ReviewsHold

LEMMA NewDraft ==
  ASSUME NEW review \in {"none", "pending"}, NEW restricted \in BOOLEAN
  PROVE  /\ Draft(review, restricted) \in DraftRow
         /\ Draft(review, restricted).status = "draft"
         /\ Draft(review, restricted).suggested = restricted
         /\ Draft(review, restricted).restricted = restricted
  BY DEF Draft, DraftRow

\* The drafts change, each row to one that may be there, and new rows are drafts.
LEMMA RowsKeep ==
  ASSUME ProposalsInv,
         NEW p \in Reviewers, reviewer[p].op # "none", Writes(p, reviewer[p].op),
         drafts' \in Seq(DraftRow), DOMAIN drafts \subseteq DOMAIN drafts',
         closed \subseteq closed', closed' \subseteq DOMAIN drafts,
         unseen \subseteq unseen', unseen' \subseteq DOMAIN drafts,
         \A d \in DOMAIN drafts :
           /\ drafts'[d].suggested = drafts[d].suggested
           /\ drafts'[d].status = "draft" => drafts[d].status = "draft" /\ (d \in closed' => d \in closed)
           /\ drafts'[d].status = "active" =>
                d \in unseen' \/ (d \notin closed' /\ drafts'[d].claim = drafts'[d].approved)
           /\ drafts'[d].suggested => drafts'[d].restricted,
         \A d \in DOMAIN drafts' \ DOMAIN drafts :
           drafts'[d].status = "draft" /\ (drafts'[d].suggested => drafts'[d].restricted)
  PROVE  ProposalsInv'
<1>1. /\ reviewer' \in [Reviewers -> ReviewRequest] /\ reviewer'[p].op = "none"
      /\ \A q \in Reviewers : q # p => reviewer'[q] = reviewer[q]
  BY DEF Writes, NoReview, ReviewRequest, ProposalsInv, ProposalsTyped
<1>2. ProposalsTyped'
  <2>1. extraction' = extraction /\ extraction # "none"
    BY DEF Writes, ProposalsInv, ProposalsTyped, HasRead
  <2> QED
    BY <1>1, <2>1 DEF ProposalsInv, ProposalsTyped
<1>3. HasRead'
  BY <1>1 DEF ProposalsInv, HasRead
<1>4. ClosedIsOver'
  BY DEF ProposalsInv, ClosedIsOver
<1>5. ReviewsHold'
  BY DEF ProposalsInv, ReviewsHold
<1> QED
  BY <1>2, <1>3, <1>4, <1>5 DEF ProposalsInv

\* The run's candidates: all of them drafts, as restricted as what they cite.
LEMMA CandidatesKeep ==
  ASSUME ProposalsInv, ApplyCandidates
  PROVE  ProposalsInv'
<1>1. /\ drafts = <<>> /\ closed = {} /\ unseen = {}
      /\ UNCHANGED <<reviewer, closed, unseen>> /\ extraction' # "none"
      /\ \A p \in Reviewers : reviewer[p].op = "none"
  BY DEF ApplyCandidates, ProposalsInv, ProposalsTyped, HasRead
<1>2. \/ drafts' = drafts
      \/ \E review \in {"none", "pending"}, last \in BOOLEAN : drafts' = <<Draft(review, last)>>
      \/ \E first, last \in BOOLEAN : drafts' = <<Draft("pending", first), Draft("none", last)>>
  BY <1>1 DEF ApplyCandidates
<1>3. /\ drafts' \in Seq(DraftRow)
      /\ \A d \in DOMAIN drafts' : drafts'[d].status = "draft" /\ (drafts'[d].suggested => drafts'[d].restricted)
  <2>1. CASE drafts' = drafts
    BY <1>1, <2>1
  <2>2. CASE \E review \in {"none", "pending"}, last \in BOOLEAN : drafts' = <<Draft(review, last)>>
    <3>1. PICK review \in {"none", "pending"}, last \in BOOLEAN : drafts' = <<Draft(review, last)>>
      BY <2>2
    <3>2. Draft(review, last) \in DraftRow /\ Draft(review, last).status = "draft"
          /\ (Draft(review, last).suggested => Draft(review, last).restricted)
      BY NewDraft
    <3> QED
      BY <3>1, <3>2
  <2>3. CASE \E first, last \in BOOLEAN : drafts' = <<Draft("pending", first), Draft("none", last)>>
    <3>1. PICK first, last \in BOOLEAN : drafts' = <<Draft("pending", first), Draft("none", last)>>
      BY <2>3
    <3>2. \A review \in {"none", "pending"}, restricted \in BOOLEAN :
            /\ Draft(review, restricted) \in DraftRow /\ Draft(review, restricted).status = "draft"
            /\ Draft(review, restricted).suggested => Draft(review, restricted).restricted
      BY NewDraft
    <3> QED
      BY <3>1, <3>2
  <2> QED
    BY <1>2, <2>1, <2>2, <2>3
<1>4. ProposalsTyped'
  BY <1>1, <1>3 DEF ProposalsInv, ProposalsTyped
<1>5. HasRead' /\ ClosedIsOver'
  BY <1>1 DEF HasRead, ClosedIsOver
<1>6. ReviewsHold'
  BY <1>3 DEF ReviewsHold
<1> QED
  BY <1>4, <1>5, <1>6 DEF ProposalsInv

LEMMA OpensKeeps ==
  ASSUME ProposalsInv, NEW p \in Reviewers, NEW op \in {"promote", "revise", "split", "reject", "activate", "archive"},
         NEW d \in DOMAIN drafts, NEW active \in BOOLEAN, NEW restricted \in BOOLEAN,
         Opens(p, op, d, active, restricted),
         op = "promote" => (drafts[d].suggested => restricted)
  PROVE  ProposalsInv'
<1>1. UNCHANGED <<drafts, extraction, closed, unseen>> /\ d \in Nat
  BY DEF Opens, ProposalsInv, ProposalsTyped
<1>2. /\ reviewer' \in [Reviewers -> ReviewRequest]
      /\ reviewer'[p].op = op /\ reviewer'[p].row = d /\ reviewer'[p].restricted = restricted
      /\ \A q \in Reviewers : q # p => reviewer'[q] = reviewer[q]
  BY <1>1 DEF Opens, ReviewRequest, ProposalsInv, ProposalsTyped
<1>3. ProposalsTyped'
  BY <1>1, <1>2 DEF ProposalsInv, ProposalsTyped
<1>4. HasRead'
  BY <1>1, <1>2 DEF ProposalsInv, HasRead
<1>5. ClosedIsOver' /\ ReviewsHold'
  BY <1>1 DEF ProposalsInv, ClosedIsOver, ReviewsHold
<1> QED
  BY <1>3, <1>4, <1>5 DEF ProposalsInv

LEMMA DraftReadKeeps ==
  ASSUME ProposalsInv, NEW p \in Reviewers, NEW d \in 1..MaxDrafts, ReadProposal(p, d) \/ ReadItem(p, d)
  PROVE  ProposalsInv'
<1>1. d \in DOMAIN drafts
  BY DEF ReadProposal, ReadItem
<1>2. \/ \E active, restricted \in BOOLEAN :
           (drafts[d].suggested => restricted) /\ Opens(p, "promote", d, active, restricted)
      \/ \E op \in {"revise", "split", "reject", "activate", "archive"} : Opens(p, op, d, FALSE, FALSE)
  BY DEF ReadProposal, ReadItem
<1> QED
  BY <1>1, <1>2, OpensKeeps

\* What the writes find: a request has a row, and the rows are as they should be.
LEMMA RowFound ==
  ASSUME ProposalsInv, NEW p \in Reviewers, reviewer[p].op # "none"
  PROVE  /\ reviewer[p].row \in DOMAIN drafts /\ drafts \in Seq(DraftRow)
         /\ closed \subseteq DOMAIN drafts /\ unseen \subseteq DOMAIN drafts
         /\ \A d \in DOMAIN drafts : drafts[d] \in DraftRow
         /\ \A d \in closed : drafts[d].status # "draft"
         /\ \A d \in DOMAIN drafts :
              /\ drafts[d].status = "active" =>
                   d \in unseen \/ (d \notin closed /\ drafts[d].claim = drafts[d].approved)
              /\ drafts[d].suggested => drafts[d].restricted
  BY DEF ProposalsInv, ProposalsTyped, HasRead, ClosedIsOver, ReviewsHold

\* One row changes.
LEMMA OneRow ==
  ASSUME ProposalsInv, NEW p \in Reviewers, reviewer[p].op # "none", Writes(p, reviewer[p].op),
         NEW row \in DraftRow,
         drafts' = [drafts EXCEPT ![reviewer[p].row] = row],
         closed' = closed \/ (closed' = closed \cup {reviewer[p].row} /\ row.status = "archived"),
         unseen' = unseen \/ unseen' = unseen \cup {reviewer[p].row},
         row.suggested = drafts[reviewer[p].row].suggested,
         row.status = "draft" => drafts[reviewer[p].row].status = "draft",
         row.status = "active" =>
           reviewer[p].row \in unseen' \/ (reviewer[p].row \notin closed /\ row.claim = row.approved),
         row.suggested => row.restricted
  PROVE  ProposalsInv'
<1> DEFINE r == reviewer[p].row
<1>1. /\ r \in DOMAIN drafts /\ drafts \in Seq(DraftRow)
      /\ closed \subseteq DOMAIN drafts /\ unseen \subseteq DOMAIN drafts
  BY RowFound
<1>2. /\ drafts' \in Seq(DraftRow) /\ DOMAIN drafts' = DOMAIN drafts /\ drafts'[r] = row
      /\ \A d \in DOMAIN drafts : d # r => drafts'[d] = drafts[d]
  BY <1>1
<1>3. \A d \in DOMAIN drafts :
        /\ drafts[d].status = "active" =>
             d \in unseen \/ (d \notin closed /\ drafts[d].claim = drafts[d].approved)
        /\ drafts[d].suggested => drafts[d].restricted
  BY RowFound
<1>4. \A d \in DOMAIN drafts :
        /\ drafts'[d].suggested = drafts[d].suggested
        /\ drafts'[d].status = "draft" => drafts[d].status = "draft" /\ (d \in closed' => d \in closed)
        /\ drafts'[d].status = "active" =>
             d \in unseen' \/ (d \notin closed' /\ drafts'[d].claim = drafts'[d].approved)
        /\ drafts'[d].suggested => drafts'[d].restricted
  <2> TAKE d \in DOMAIN drafts
  <2>1. CASE d = r
    BY <1>2, <2>1
  <2>2. CASE d # r
    BY <1>2, <1>3, <2>2
  <2> QED
    BY <2>1, <2>2
<1> QED
  BY <1>1, <1>2, <1>4, RowsKeep

\* The update of the item locks it, and only what is still a draft is activated.
LEMMA PromoteKeeps ==
  ASSUME ProposalsInv, NEW p \in Reviewers, Promote(p)
  PROVE  ProposalsInv'
<1> DEFINE r == reviewer[p].row
           decided == [drafts[r] EXCEPT !.review = "promoted", !.restricted = reviewer[p].restricted]
<1>1. /\ reviewer[p].op = "promote" /\ Writes(p, "promote") /\ closed' = closed /\ unseen' = unseen
      /\ \/ ~reviewer[p].active /\ drafts' = [drafts EXCEPT ![r] = decided]
         \/ drafts[r].status = "draft" /\ drafts' = [drafts EXCEPT ![r] = Activated(decided)]
         \/ drafts' = drafts
  BY DEF Promote, Writes
<1>2. /\ r \in DOMAIN drafts /\ drafts[r] \in DraftRow /\ drafts \in Seq(DraftRow)
      /\ closed \subseteq DOMAIN drafts /\ unseen \subseteq DOMAIN drafts
      /\ \A d \in closed : drafts[d].status # "draft"
      /\ drafts[r].status = "active" =>
           r \in unseen \/ (r \notin closed /\ drafts[r].claim = drafts[r].approved)
  BY <1>1, RowFound
<1>3. reviewer[p].restricted \in BOOLEAN /\ (drafts[r].suggested => reviewer[p].restricted)
  BY <1>1 DEF ProposalsInv, ProposalsTyped, ReviewRequest, HasRead
<1>4. /\ decided \in DraftRow /\ decided.suggested = drafts[r].suggested
      /\ decided.restricted = reviewer[p].restricted /\ decided.status = drafts[r].status
      /\ decided.claim = drafts[r].claim /\ decided.approved = drafts[r].approved
  BY <1>2, <1>3 DEF DraftRow
<1> HIDE DEF decided
<1>5. CASE drafts' = [drafts EXCEPT ![r] = decided]
  BY <1>1, <1>2, <1>3, <1>4, <1>5, OneRow
<1>6. CASE drafts[r].status = "draft" /\ drafts' = [drafts EXCEPT ![r] = Activated(decided)]
  <2>1. /\ Activated(decided) \in DraftRow /\ Activated(decided).suggested = decided.suggested
        /\ Activated(decided).restricted = decided.restricted /\ Activated(decided).status = "active"
        /\ Activated(decided).claim = Activated(decided).approved
    BY <1>4 DEF Activated, DraftRow
  <2>2. r \notin closed
    BY <1>2, <1>6
  <2> QED
    BY <1>1, <1>3, <1>4, <1>6, <2>1, <2>2, OneRow
<1>7. CASE drafts' = drafts
  <2>1. drafts' = [drafts EXCEPT ![r] = drafts[r]]
    BY <1>2, <1>7
  <2>2. drafts[r].suggested => drafts[r].restricted
    BY <1>2 DEF ProposalsInv, ReviewsHold
  <2> QED
    BY <1>1, <1>2, <2>1, <2>2, OneRow
<1> QED
  BY <1>1, <1>5, <1>6, <1>7

LEMMA ReviseKeeps ==
  ASSUME ProposalsInv, NEW p \in Reviewers, ReviseDraft(p)
  PROVE  ProposalsInv'
<1> DEFINE r == reviewer[p].row
           next == drafts[r].claim + 1
           row == [drafts[r] EXCEPT !.claim = next]
<1>1. /\ reviewer[p].op = "revise" /\ Writes(p, "revise") /\ closed' = closed
      /\ drafts' = [drafts EXCEPT ![r].claim = @ + 1]
      /\ unseen' = IF drafts[r].status = "draft" THEN unseen ELSE unseen \cup {r}
  BY DEF ReviseDraft, Writes
<1>2. r \in DOMAIN drafts /\ drafts[r] \in DraftRow
  BY <1>1, RowFound
<1>3. next \in Nat
  BY <1>2 DEF DraftRow
<1>4. drafts' = [drafts EXCEPT ![r] = row]
  BY <1>1, <1>2
<1> HIDE DEF next
<1>5. /\ row \in DraftRow /\ row.status = drafts[r].status /\ row.suggested = drafts[r].suggested
      /\ row.restricted = drafts[r].restricted
  BY <1>2, <1>3 DEF DraftRow
<1>6. drafts[r].suggested => drafts[r].restricted
  BY <1>1, RowFound
<1> HIDE DEF row
<1> QED
  BY <1>1, <1>4, <1>5, <1>6, OneRow

\* Rejection, activation and archival from the knowledge page.
LEMMA DecidingItemKeeps ==
  ASSUME ProposalsInv, NEW p \in Reviewers, Reject(p) \/ Activate(p) \/ Archive(p)
  PROVE  ProposalsInv'
<1> DEFINE r == reviewer[p].row
<1>1. reviewer[p].op \in {"reject", "activate", "archive"} /\ Writes(p, reviewer[p].op)
  BY DEF Reject, Activate, Archive, Writes
<1>2. /\ r \in DOMAIN drafts /\ drafts[r] \in DraftRow /\ drafts \in Seq(DraftRow)
      /\ \A d \in closed : drafts[d].status # "draft"
  BY <1>1, RowFound
<1>3. drafts[r].suggested => drafts[r].restricted
  BY <1>1, RowFound
<1>4. CASE Reject(p)
  <2> DEFINE row == [drafts[r] EXCEPT !.review = "rejected", !.status = "archived"]
  <2>1. drafts' = [drafts EXCEPT ![r] = row] /\ closed' = closed \cup {r} /\ unseen' = unseen
    BY <1>2, <1>4 DEF Reject, Retired
  <2>2. /\ row \in DraftRow /\ row.status = "archived" /\ row.suggested = drafts[r].suggested
        /\ row.restricted = drafts[r].restricted
    BY <1>2 DEF DraftRow
  <2> HIDE DEF row
  <2> QED
    BY <1>1, <1>3, <2>1, <2>2, OneRow
<1>5. CASE Activate(p)
  <2> DEFINE row == Activated(drafts[r])
  <2>1. /\ drafts' = [drafts EXCEPT ![r] = row] /\ closed' = closed
        /\ unseen' = IF drafts[r].status = "draft" THEN unseen ELSE unseen \cup {r}
    BY <1>5 DEF Activate
  <2>2. /\ row \in DraftRow /\ row.status = "active" /\ row.suggested = drafts[r].suggested
        /\ row.restricted = drafts[r].restricted /\ row.claim = row.approved
    BY <1>2 DEF DraftRow, Activated
  <2> HIDE DEF row
  <2> QED
    BY <1>1, <1>2, <1>3, <2>1, <2>2, OneRow
<1>6. CASE Archive(p)
  <2> DEFINE row == [drafts[r] EXCEPT !.status = "archived"]
  <2>1. drafts' = [drafts EXCEPT ![r] = row] /\ closed' = closed /\ unseen' = unseen
    BY <1>2, <1>6 DEF Archive
  <2>2. /\ row \in DraftRow /\ row.status = "archived" /\ row.suggested = drafts[r].suggested
        /\ row.restricted = drafts[r].restricted
    BY <1>2 DEF DraftRow
  <2> HIDE DEF row
  <2> QED
    BY <1>1, <1>3, <2>1, <2>2, OneRow
<1> QED
  BY <1>4, <1>5, <1>6

\* The original is archived, and the children are drafts as restricted as it is.
LEMMA SplitKeeps ==
  ASSUME ProposalsInv, NEW p \in Reviewers, Split(p)
  PROVE  ProposalsInv'
<1> DEFINE r == reviewer[p].row
           child == Draft("pending", drafts[r].suggested)
           row == [drafts[r] EXCEPT !.review = "split", !.status = "archived"]
           retired == [drafts EXCEPT ![r] = row]
<1>1. /\ reviewer[p].op = "split" /\ Writes(p, "split") /\ closed' = closed \cup {r} /\ unseen' = unseen
      /\ drafts' = Retired(r, "split") \o <<child, child>>
  BY DEF Split, Writes
<1>2. /\ r \in DOMAIN drafts /\ drafts[r] \in DraftRow /\ drafts \in Seq(DraftRow)
      /\ closed \subseteq DOMAIN drafts /\ unseen \subseteq DOMAIN drafts
  BY <1>1, RowFound
<1>3. Retired(r, "split") = retired
  BY <1>2 DEF Retired
<1>4. /\ row \in DraftRow /\ row.status = "archived" /\ row.suggested = drafts[r].suggested
      /\ row.restricted = drafts[r].restricted
  BY <1>2 DEF DraftRow
<1>5. drafts[r].suggested \in BOOLEAN
  BY <1>2 DEF DraftRow
<1>6. child \in DraftRow /\ child.status = "draft" /\ child.suggested = child.restricted
  BY <1>5, NewDraft
<1> HIDE DEF row, child
<1>7. /\ retired \in Seq(DraftRow) /\ DOMAIN retired = DOMAIN drafts /\ retired[r] = row
      /\ \A d \in DOMAIN drafts : d # r => retired[d] = drafts[d]
  BY <1>2, <1>4
<1> HIDE DEF retired
<1>8. /\ drafts' \in Seq(DraftRow) /\ DOMAIN drafts \subseteq DOMAIN drafts'
      /\ \A d \in DOMAIN drafts : drafts'[d] = retired[d]
      /\ \A d \in DOMAIN drafts' \ DOMAIN drafts : drafts'[d] = child
  BY <1>1, <1>2, <1>3, <1>6, <1>7
<1>9. \A d \in DOMAIN drafts :
        /\ drafts[d].status = "active" =>
             d \in unseen \/ (d \notin closed /\ drafts[d].claim = drafts[d].approved)
        /\ drafts[d].suggested => drafts[d].restricted
  BY <1>1, RowFound
<1>10. \A d \in DOMAIN drafts :
        /\ drafts'[d].suggested = drafts[d].suggested
        /\ drafts'[d].status = "draft" => drafts[d].status = "draft" /\ (d \in closed' => d \in closed)
        /\ drafts'[d].status = "active" =>
             d \in unseen' \/ (d \notin closed' /\ drafts'[d].claim = drafts'[d].approved)
        /\ drafts'[d].suggested => drafts'[d].restricted
  <2> TAKE d \in DOMAIN drafts
  <2>1. CASE d = r
    BY <1>4, <1>7, <1>8, <1>9, <2>1
  <2>2. CASE d # r
    BY <1>1, <1>7, <1>8, <1>9, <2>2
  <2> QED
    BY <2>1, <2>2
<1> QED
  BY <1>1, <1>2, <1>6, <1>8, <1>10, RowsKeep

LEMMA ProposalsInvStep == ProposalsInv /\ [ProposalsNext]_proposalVars => ProposalsInv'
<1> SUFFICES ASSUME ProposalsInv, [ProposalsNext]_proposalVars PROVE ProposalsInv'
  OBVIOUS
<1>1. CASE ApplyCandidates
  BY <1>1, CandidatesKeep
<1>2. ASSUME NEW p \in Reviewers, NEW d \in 1..MaxDrafts, ReadProposal(p, d) \/ ReadItem(p, d)
      PROVE  ProposalsInv'
  BY <1>2, DraftReadKeeps
<1>3. ASSUME NEW p \in Reviewers,
             Promote(p) \/ ReviseDraft(p) \/ Split(p) \/ Reject(p) \/ Activate(p) \/ Archive(p)
      PROVE  ProposalsInv'
  BY <1>3, PromoteKeeps, ReviseKeeps, SplitKeeps, DecidingItemKeeps
<1>4. ASSUME NEW p \in Reviewers, ReviewRollback(p)
      PROVE  ProposalsInv'
  <2>1. UNCHANGED <<drafts, extraction, closed, unseen>> /\ reviewer' = [reviewer EXCEPT ![p] = NoReview]
    BY <1>4 DEF ReviewRollback
  <2>2. /\ reviewer' \in [Reviewers -> ReviewRequest] /\ reviewer'[p].op = "none"
        /\ \A q \in Reviewers : q # p => reviewer'[q] = reviewer[q]
    BY <2>1 DEF ProposalsInv, ProposalsTyped, ReviewRequest, NoReview
  <2>3. ProposalsTyped' /\ HasRead'
    BY <2>1, <2>2 DEF ProposalsInv, ProposalsTyped, HasRead
  <2>4. ClosedIsOver' /\ ReviewsHold'
    BY <2>1 DEF ProposalsInv, ClosedIsOver, ReviewsHold
  <2> QED
    BY <2>3, <2>4 DEF ProposalsInv
<1>5. CASE UNCHANGED proposalVars
  BY <1>5 DEF proposalVars, ProposalsInv, ProposalsTyped, HasRead, ClosedIsOver, ReviewsHold
<1> QED
  BY <1>1, <1>2, <1>3, <1>4, <1>5 DEF ProposalsNext

\* Of any number of admins who promote, revise, split and reject the same drafts at
\* once: what was rejected or split is never active, what is active has the wording
\* that was activated, and nobody's promotion discloses what its sources restrict,
\* the two unlocked writes of the knowledge page and of a revision apart.
THEOREM ReviewsAlwaysHold == ProposalsSpec => []ReviewsHold
<1>1. ProposalsInv => ReviewsHold
  BY DEF ProposalsInv
<1> QED
  BY <1>1, ProposalsInvInit, ProposalsInvStep, PTL DEF ProposalsSpec

-----------------------------------------------------------------------------
(* Objectives *)

Update == [writes : {"nothing", "status", "criteria"}, value : Statuses \cup Seq(Criterion), overtaken : BOOLEAN]

ObjectivesTyped ==
  /\ objective \in [status : Statuses \cup {"none"}, criteria : Seq(Criterion)]
  /\ manager \in [Managers -> Update] /\ crossed \in BOOLEAN
  /\ \A p \in Managers :
       /\ manager[p].writes = "nothing" => manager[p] = Idle
       /\ manager[p].writes = "status" => manager[p].value \in Statuses
       /\ manager[p].writes = "criteria" => manager[p].value \in Seq(Criterion)
  /\ objective.status = "none" => \A p \in Managers : manager[p] = Idle

\* No verdict outlives its measure.
Judged(list) == \A i \in DOMAIN list : list[i].status # "unmet" => list[i].judgedAs = list[i].measure

\* A status goes with a list of criteria.
Earned(status, list) ==
  /\ status \in {"active", "completed"} => list # <<>>
  /\ status = "completed" => \A i \in DOMAIN list : list[i].status # "unmet"

\* What is under way would still be right if it were committed now, unless a
\* change of the other kind has overtaken it.
ObjectivesInv ==
  /\ ObjectivesTyped
  /\ Judged(objective.criteria)
  /\ \A p \in Managers : manager[p].writes = "criteria" => Judged(manager[p].value)
  /\ ~crossed => Earned(objective.status, objective.criteria)
  /\ \A p \in Managers :
       ~manager[p].overtaken =>
         /\ manager[p].writes = "status" /\ ~crossed => Earned(manager[p].value, objective.criteria)
         /\ manager[p].writes = "criteria" => Earned(objective.status, manager[p].value)

LEMMA IdleUpdate == Idle \in Update /\ Idle.writes = "nothing" /\ Idle.overtaken = FALSE
<1>1. <<>> \in Seq(Criterion)
  OBVIOUS
<1> QED
  BY <1>1 DEF Idle, Update

LEMMA ObjectivesInvInit == ObjectivesInit => ObjectivesInv
<1> SUFFICES ASSUME ObjectivesInit PROVE ObjectivesInv
  OBVIOUS
<1>1. /\ objective = [status |-> "none", criteria |-> <<>>] /\ crossed = FALSE
      /\ manager = [p \in Managers |-> Idle] /\ \A p \in Managers : manager[p] = Idle
  BY DEF ObjectivesInit
<1>2. <<>> \in Seq(Criterion)
  OBVIOUS
<1>3. Idle \in Update /\ Idle.writes = "nothing" /\ Idle.overtaken = FALSE
  BY IdleUpdate
<1>4. ObjectivesTyped
  BY <1>1, <1>2, <1>3 DEF ObjectivesTyped
<1>5. Judged(objective.criteria) /\ Earned(objective.status, objective.criteria)
  BY <1>1 DEF Judged, Earned
<1> QED
  BY <1>1, <1>3, <1>4, <1>5 DEF ObjectivesInv

\* A draft begins with criteria that nobody has judged.
LEMMA CreateKeepsObjective ==
  ASSUME ObjectivesInv, CreateObjective
  PROVE  ObjectivesInv'
<1>1. PICK list \in {<<>>} \cup {<<Unmet(m)>> : m \in Measures} :
        objective' = [status |-> "draft", criteria |-> list]
  BY DEF CreateObjective
<1>2. UNCHANGED <<manager, crossed>> /\ \A p \in Managers : manager[p] = Idle
  BY DEF CreateObjective, ObjectivesInv, ObjectivesTyped
<1>3. \A m \in Measures : Unmet(m) \in Criterion /\ Unmet(m).status = "unmet"
  BY DEF Unmet, Criterion
<1>4. list \in Seq(Criterion) /\ Judged(list)
  <2>1. CASE list = <<>>
    BY <2>1 DEF Judged
  <2>2. CASE list # <<>>
    <3>1. PICK m \in Measures : list = <<Unmet(m)>>
      BY <2>2
    <3>2. Unmet(m) \in Criterion /\ Unmet(m).status = "unmet"
      BY <1>3
    <3>3. list \in Seq(Criterion) /\ \A i \in DOMAIN list : list[i] = Unmet(m)
      BY <3>1, <3>2
    <3> QED
      BY <3>2, <3>3 DEF Judged
  <2> QED
    BY <2>1, <2>2
<1>5. Idle.writes = "nothing"
  BY DEF Idle
<1>6. ObjectivesTyped'
  BY <1>1, <1>2, <1>4 DEF ObjectivesInv, ObjectivesTyped, Statuses
<1>7. Earned("draft", list)
  BY DEF Earned
<1>8. objective'.status = "draft" /\ objective'.criteria = list
  BY <1>1
<1> QED
  BY <1>2, <1>4, <1>5, <1>6, <1>7, <1>8 DEF ObjectivesInv

\* A request that has read, and waits to write what was right when it read.
LEMMA PrepareKeeps ==
  ASSUME ObjectivesInv, NEW p \in Managers, NEW writes \in {"status", "criteria"}, NEW value,
         Prepare(p, writes, value),
         writes = "status" => value \in Statuses /\ (~crossed => Earned(value, objective.criteria)),
         writes = "criteria" =>
           value \in Seq(Criterion) /\ Judged(value) /\ Earned(objective.status, value)
  PROVE  ObjectivesInv'
<1>1. /\ UNCHANGED <<objective, crossed>> /\ objective.status # "none"
      /\ manager' = [manager EXCEPT ![p] = [Idle EXCEPT !.writes = writes, !.value = value]]
  BY DEF Prepare
<1> DEFINE u == [Idle EXCEPT !.writes = writes, !.value = value]
<1>2. u \in Update /\ u.writes = writes /\ u.value = value /\ u.overtaken = FALSE
  <2>1. Idle \in Update /\ Idle.overtaken = FALSE
    BY IdleUpdate
  <2>2. value \in Statuses \cup Seq(Criterion)
    OBVIOUS
  <2> QED
    BY <2>1, <2>2 DEF Update
<1> HIDE DEF u
<1>3. /\ manager' \in [Managers -> Update]
      /\ manager'[p].writes = writes /\ manager'[p].value = value /\ manager'[p].overtaken = FALSE
      /\ \A q \in Managers : q # p => manager'[q] = manager[q]
  <2>1. manager' = [manager EXCEPT ![p] = u]
    BY <1>1 DEF u
  <2> QED
    BY <1>2, <2>1 DEF ObjectivesInv, ObjectivesTyped
<1>4. ObjectivesTyped'
  BY <1>1, <1>3 DEF ObjectivesInv, ObjectivesTyped
<1>5. \A q \in Managers :
        /\ manager'[q].writes = "criteria" => Judged(manager'[q].value)
        /\ ~manager'[q].overtaken =>
             /\ manager'[q].writes = "status" /\ ~crossed => Earned(manager'[q].value, objective.criteria)
             /\ manager'[q].writes = "criteria" => Earned(objective.status, manager'[q].value)
  <2> TAKE q \in Managers
  <2>1. CASE q = p
    BY <1>3, <2>1
  <2>2. CASE q # p
    BY <1>3, <2>2 DEF ObjectivesInv
  <2> QED
    BY <2>1, <2>2
<1> QED
  BY <1>1, <1>4, <1>5 DEF ObjectivesInv

LEMMA StatusKeeps ==
  ASSUME ObjectivesInv, NEW p \in Managers, NEW next \in Statuses, SetObjectiveStatus(p, next)
  PROVE  ObjectivesInv'
<1>1. /\ next \in TRANSITIONS[objective.status] /\ Prepare(p, "status", next)
      /\ next = "active" => objective.criteria # <<>>
      /\ next = "completed" => \A i \in DOMAIN objective.criteria : objective.criteria[i].status # "unmet"
  BY DEF SetObjectiveStatus
<1>2. next = "completed" => objective.status = "active"
  <2>1. objective.status \in {"none", "draft", "active", "completed", "cancelled"}
    BY DEF ObjectivesInv, ObjectivesTyped, Statuses
  <2> QED
    BY <1>1, <2>1 DEF TRANSITIONS
<1>3. ~crossed => Earned(next, objective.criteria)
  BY <1>1, <1>2 DEF ObjectivesInv, Earned
<1> QED
  BY <1>1, <1>3, PrepareKeeps

\* A list that is written is judged like the one that was read, and not empty
\* if the objective is active.
LEMMA ListKeeps ==
  ASSUME ObjectivesInv, NEW p \in Managers, NEW value \in Seq(Criterion), Prepare(p, "criteria", value),
         OpenForCriteriaChange, Judged(value), objective.status = "active" => value # <<>>
  PROVE  ObjectivesInv'
<1>1. Earned(objective.status, value)
  BY DEF OpenForCriteriaChange, Earned
<1> QED
  BY <1>1, PrepareKeeps

LEMMA ReplaceIsJudged ==
  ASSUME NEW s \in Seq(Criterion), NEW i \in DOMAIN s, NEW c \in Criterion, Judged(s),
         c.status # "unmet" => c.judgedAs = c.measure
  PROVE  ReplaceAt(s, i, c) \in Seq(Criterion) /\ ReplaceAt(s, i, c) # <<>> /\ Judged(ReplaceAt(s, i, c))
<1> DEFINE r == ReplaceAt(s, i, c)
<1>1. /\ r \in Seq(Criterion) /\ DOMAIN r = DOMAIN s /\ r[i] = c /\ \A k \in DOMAIN s : k # i => r[k] = s[k]
  BY DEF ReplaceAt
<1> HIDE DEF r
<1>2. Judged(r) /\ r # <<>>
  BY <1>1 DEF Judged
<1> QED
  BY <1>1, <1>2 DEF r

LEMMA RemoveIsJudged ==
  ASSUME NEW s \in Seq(Criterion), NEW i \in DOMAIN s, Judged(s)
  PROVE  /\ RemoveAt(s, i) \in Seq(Criterion) /\ Judged(RemoveAt(s, i))
         /\ Len(s) # 1 => RemoveAt(s, i) # <<>>
<1> DEFINE a == SubSeq(s, 1, i - 1)
           b == SubSeq(s, i + 1, Len(s))
<1>1. i \in 1..Len(s) /\ Len(s) \in Nat /\ i \in Nat
  OBVIOUS
<1>2. /\ a \in Seq(Criterion) /\ Len(a) = i - 1 /\ \A k \in 1..(i - 1) : a[k] = s[k]
  BY <1>1
<1>3. /\ b \in Seq(Criterion) /\ Len(b) = Len(s) - i /\ \A k \in 1..(Len(s) - i) : b[k] = s[i + k]
  BY <1>1
<1> HIDE DEF a, b
<1>4. /\ a \o b \in Seq(Criterion) /\ Len(a \o b) = Len(s) - 1
      /\ \A k \in 1..(i - 1) : (a \o b)[k] = s[k]
      /\ \A k \in i..(Len(s) - 1) : (a \o b)[k] = b[k - (i - 1)] /\ k - (i - 1) \in 1..(Len(s) - i)
  BY <1>1, <1>2, <1>3
<1>5. \A k \in DOMAIN (a \o b) : \E j \in DOMAIN s : (a \o b)[k] = s[j]
  <2> TAKE k \in DOMAIN (a \o b)
  <2>1. k \in 1..(Len(s) - 1)
    BY <1>4
  <2>2. CASE k \in 1..(i - 1)
    <3>1. (a \o b)[k] = s[k] /\ k \in DOMAIN s
      BY <1>1, <1>4, <2>2
    <3> QED
      BY <3>1
  <2>3. CASE k \in i..(Len(s) - 1)
    <3>1. (a \o b)[k] = s[i + (k - (i - 1))]
      BY <1>3, <1>4, <2>3
    <3>2. i + (k - (i - 1)) \in DOMAIN s
      BY <1>1, <2>3
    <3> QED
      BY <3>1, <3>2
  <2> QED
    BY <1>1, <2>1, <2>2, <2>3
<1>6. Judged(a \o b)
  BY <1>5 DEF Judged
<1>7. Len(s) # 1 => a \o b # <<>>
  BY <1>1, <1>4
<1>8. RemoveAt(s, i) = a \o b
  BY DEF RemoveAt, a, b
<1> QED
  BY <1>4, <1>6, <1>7, <1>8

LEMMA CriteriaKeep ==
  ASSUME ObjectivesInv, NEW p \in Managers,
         \/ \E m \in Measures : AddCriterion(p, m)
         \/ \E i \in 1..CriteriaCap :
              \/ \E status \in {"met", "waived", "unmet"} : SetCriterionStatus(p, i, status)
              \/ \E m \in Measures : UpdateCriterion(p, i, m)
              \/ RemoveCriterion(p, i)
  PROVE  ObjectivesInv'
<1> DEFINE list == objective.criteria
<1>1. list \in Seq(Criterion) /\ Judged(list)
  BY DEF ObjectivesInv, ObjectivesTyped
<1>2. \A i \in DOMAIN list : list[i] \in Criterion
  BY <1>1
<1>3. \A m \in Measures : Unmet(m) \in Criterion /\ Unmet(m).status = "unmet"
  BY DEF Unmet, Criterion
<1>4. ASSUME NEW m \in Measures, AddCriterion(p, m)
      PROVE  ObjectivesInv'
  <2>1. Prepare(p, "criteria", Append(list, Unmet(m))) /\ OpenForCriteriaChange
    BY <1>4 DEF AddCriterion
  <2>2. Append(list, Unmet(m)) \in Seq(Criterion) /\ Append(list, Unmet(m)) # <<>> /\ Judged(Append(list, Unmet(m)))
    BY <1>1, <1>3 DEF Judged
  <2> QED
    BY <2>1, <2>2, ListKeeps
<1>5. ASSUME NEW i \in 1..CriteriaCap, NEW status \in {"met", "waived", "unmet"}, SetCriterionStatus(p, i, status)
      PROVE  ObjectivesInv'
  <2> DEFINE c == list[i]
             judged == [c EXCEPT !.status = status,
                                 !.judgedAs = IF status = "unmet" THEN "nothing" ELSE c.measure]
  <2>1. /\ OpenForCriteriaChange /\ i \in DOMAIN list
        /\ Prepare(p, "criteria", ReplaceAt(list, i, judged))
    BY <1>5 DEF SetCriterionStatus
  <2>2. judged \in Criterion /\ (judged.status # "unmet" => judged.judgedAs = judged.measure)
    BY <1>2, <2>1 DEF Criterion
  <2> HIDE DEF judged
  <2> QED
    BY <1>1, <2>1, <2>2, ListKeeps, ReplaceIsJudged
<1>6. ASSUME NEW i \in 1..CriteriaCap, NEW m \in Measures, UpdateCriterion(p, i, m)
      PROVE  ObjectivesInv'
  <2> DEFINE c == IF m = list[i].measure THEN list[i] ELSE Unmet(m)
  <2>1. OpenForCriteriaChange /\ i \in DOMAIN list /\ Prepare(p, "criteria", ReplaceAt(list, i, c))
    BY <1>6 DEF UpdateCriterion
  <2>2. c \in Criterion /\ (c.status # "unmet" => c.judgedAs = c.measure)
    BY <1>1, <1>2, <1>3, <2>1 DEF Judged
  <2> HIDE DEF c
  <2> QED
    BY <1>1, <2>1, <2>2, ListKeeps, ReplaceIsJudged
<1>7. ASSUME NEW i \in 1..CriteriaCap, RemoveCriterion(p, i)
      PROVE  ObjectivesInv'
  <2>1. /\ OpenForCriteriaChange /\ i \in DOMAIN list /\ Prepare(p, "criteria", RemoveAt(list, i))
        /\ objective.status = "active" => Len(list) # 1
    BY <1>7 DEF RemoveCriterion
  <2> QED
    BY <1>1, <2>1, ListKeeps, RemoveIsJudged
<1> QED
  BY <1>4, <1>5, <1>6, <1>7

\* A commit overtakes those that write the other column, and no others.
LEMMA CommitKeepsObjective ==
  ASSUME ObjectivesInv, NEW p \in Managers, CommitUpdate(p)
  PROVE  ObjectivesInv'
<1> DEFINE w == manager[p]
           other(q) == q # p /\ manager[q] # Idle /\ manager[q].writes # w.writes
           after(q) == IF q = p THEN Idle ELSE [manager[q] EXCEPT !.overtaken = @ \/ other(q)]
<1>1. /\ w # Idle /\ crossed' = (crossed \/ w.overtaken)
      /\ objective' = IF w.writes = "status" THEN [objective EXCEPT !.status = w.value]
                      ELSE [objective EXCEPT !.criteria = w.value]
      /\ manager' = [q \in Managers |-> after(q)]
  BY DEF CommitUpdate
<1>2. /\ manager \in [Managers -> Update] /\ \A q \in Managers : manager[q] \in Update
      /\ objective \in [status : Statuses \cup {"none"}, criteria : Seq(Criterion)]
      /\ \A q \in Managers : manager[q].writes = "nothing" => manager[q] = Idle
      /\ w.writes = "status" => w.value \in Statuses
      /\ w.writes = "criteria" => w.value \in Seq(Criterion)
      /\ objective.status # "none"
  BY <1>1 DEF ObjectivesInv, ObjectivesTyped
<1>3. w.writes \in {"status", "criteria"}
  BY <1>1, <1>2 DEF Update
<1>4. /\ Idle \in Update /\ Idle.writes = "nothing" /\ Idle.overtaken = FALSE
  BY IdleUpdate
<1>5. ASSUME NEW q \in Managers, q # p
      PROVE  /\ manager'[q] \in Update
             /\ manager'[q].writes = manager[q].writes /\ manager'[q].value = manager[q].value
             /\ ~manager'[q].overtaken =>
                  ~manager[q].overtaken /\ manager[q].writes \in {"nothing", w.writes}
             /\ manager[q] = Idle => manager'[q] = Idle
  <2> DEFINE late == manager[q].overtaken \/ other(q)
  <2>1. manager'[q] = [manager[q] EXCEPT !.overtaken = late]
    BY <1>1, <1>5
  <2>2. late \in BOOLEAN
    BY <1>2, <1>5 DEF Update
  <2>3. late = FALSE => manager[q].overtaken = FALSE /\ (manager[q] = Idle \/ manager[q].writes = w.writes)
    BY <1>2, <1>5 DEF Update
  <2>4. manager[q] = Idle => late = FALSE
    BY <1>4
  <2> HIDE DEF late
  <2>5. manager'[q] \in Update /\ manager'[q].overtaken = late
        /\ manager'[q].writes = manager[q].writes /\ manager'[q].value = manager[q].value
    BY <1>2, <2>1, <2>2 DEF Update
  <2>6. manager[q] = Idle => manager'[q] = Idle
    <3> SUFFICES ASSUME manager[q] = Idle PROVE manager'[q] = Idle
      OBVIOUS
    <3>1. manager'[q] = [Idle EXCEPT !.overtaken = FALSE]
      BY <2>1, <2>4
    <3> QED
      BY <1>4, <3>1 DEF Update
  <2> QED
    BY <1>4, <2>2, <2>3, <2>5, <2>6
<1>6. manager'[p] = Idle
  BY <1>1
<1>7. /\ objective'.status = IF w.writes = "status" THEN w.value ELSE objective.status
      /\ objective'.criteria = IF w.writes = "status" THEN objective.criteria ELSE w.value
      /\ objective' \in [status : Statuses \cup {"none"}, criteria : Seq(Criterion)]
      /\ objective'.status # "none"
  BY <1>1, <1>2, <1>3 DEF Statuses
<1>8. crossed' \in BOOLEAN /\ (~crossed' => ~crossed /\ ~w.overtaken)
  BY <1>1, <1>2 DEF Update, ObjectivesInv, ObjectivesTyped
<1>9. ObjectivesTyped'
  <2>1. manager' \in [Managers -> Update]
    BY <1>1, <1>4, <1>5, <1>6
  <2>2. \A q \in Managers :
          /\ manager'[q].writes = "nothing" => manager'[q] = Idle
          /\ manager'[q].writes = "status" => manager'[q].value \in Statuses
          /\ manager'[q].writes = "criteria" => manager'[q].value \in Seq(Criterion)
    BY <1>2, <1>4, <1>5, <1>6 DEF ObjectivesInv, ObjectivesTyped
  <2> QED
    BY <1>7, <1>8, <2>1, <2>2 DEF ObjectivesTyped
<1>10. /\ Judged(objective'.criteria)
       /\ ~crossed' => Earned(objective'.status, objective'.criteria)
  BY <1>3, <1>7, <1>8 DEF ObjectivesInv
<1>11. \A q \in Managers :
         /\ manager'[q].writes = "criteria" => Judged(manager'[q].value)
         /\ ~manager'[q].overtaken =>
              /\ manager'[q].writes = "status" /\ ~crossed' => Earned(manager'[q].value, objective'.criteria)
              /\ manager'[q].writes = "criteria" => Earned(objective'.status, manager'[q].value)
  <2> TAKE q \in Managers
  <2>1. CASE q = p
    BY <1>4, <1>6, <2>1
  <2>2. CASE q # p
    BY <1>3, <1>5, <1>7, <1>8, <2>2 DEF ObjectivesInv
  <2> QED
    BY <2>1, <2>2
<1> QED
  BY <1>9, <1>10, <1>11 DEF ObjectivesInv

LEMMA ObjectivesInvStep == ObjectivesInv /\ [ObjectivesNext]_objectiveVars => ObjectivesInv'
<1>1. ObjectivesInv /\ ObjectivesNext => ObjectivesInv'
  BY CreateKeepsObjective, StatusKeeps, CriteriaKeep, CommitKeepsObjective DEF ObjectivesNext
<1>2. ObjectivesInv /\ UNCHANGED objectiveVars => ObjectivesInv'
  BY DEF objectiveVars, ObjectivesInv, ObjectivesTyped, Judged, Earned
<1> QED
  BY <1>1, <1>2

\* However many managers change the status and the criteria of an objective at once,
\* a completed one has met its criteria and no verdict outlives its measure, unless a
\* status and a list were changed over one another (objectives.ts updates by id).
THEOREM CompletionAlwaysEarned == ObjectivesSpec => []CompletionIsEarned
<1>1. ObjectivesInv => CompletionIsEarned
  BY DEF ObjectivesInv, CompletionIsEarned, Judged, Earned
<1> QED
  BY <1>1, ObjectivesInvInit, ObjectivesInvStep, PTL DEF ObjectivesSpec

-----------------------------------------------------------------------------
(* AI operations *)

AskRecord == [step : {"idle", "found", "calling", "answered", "refused"}, input : Inputs \cup {NoInput},
              seen : {"none", "dispatched", "completed", "failed"}, prompt : SUBSET Knowledge]
OperationRow == [status : {"none", "dispatched", "completed", "failed"},
                 contextHash : Inputs \cup {NoInput}, resultData : Inputs \cup {NoInput}]

AiTyped ==
  /\ operation \in OperationRow
  /\ injections \subseteq Knowledge /\ relevant \subseteq Knowledge
  /\ asker \in [Askers -> AskRecord] /\ outrun \in BOOLEAN
  /\ prompts \subseteq Inputs \X SUBSET Knowledge /\ returned \subseteq Inputs \X Inputs
  /\ \A a \in Askers : asker[a].step # "idle" => asker[a].input \in Inputs
  /\ operation.status = "completed" => operation.resultData \in Inputs

\* A prompt has what is on record for the key.
Supplied(prompt) ==
  /\ prompt \subseteq injections
  /\ Cardinality(injections) <= PromptCap => prompt = injections

Asking(a) == asker[a].step \in {"calling", "answered", "refused"}

OneRequest ==
  /\ operation.status = "none" => operation.contextHash = NoInput /\ injections = {} /\ prompts = {}
  /\ operation.status # "none" => operation.contextHash \in Inputs
  /\ operation.status = "completed" => operation.resultData = operation.contextHash
  /\ \A a \in Askers :
       /\ asker[a].step = "found" =>
            /\ asker[a].seen \in {"none", "failed"}
            /\ asker[a].seen = "failed" => asker[a].input = operation.contextHash
       /\ Asking(a) => /\ operation.status = "dispatched"
                       /\ asker[a].input = operation.contextHash /\ Supplied(asker[a].prompt)
  /\ \A a, b \in Askers : Asking(a) /\ Asking(b) => a = b
  /\ \A call \in prompts : call[1] = operation.contextHash /\ Supplied(call[2])
  /\ \A pair \in returned : pair[1] = pair[2]

AiInv == AiTyped /\ (outrun \/ OneRequest)

LEMMA AiInvInit == AiInit => AiInv
<1> SUFFICES ASSUME AiInit PROVE AiInv
  OBVIOUS
<1>1. AiTyped
  BY DEF AiInit, AiTyped, OperationRow, AskRecord, NoAsk
<1>2. \A a \in Askers : asker[a].step = "idle"
  BY DEF AiInit, NoAsk
<1>3. OneRequest
  BY <1>2 DEF AiInit, OneRequest, Asking
<1> QED
  BY <1>1, <1>3 DEF AiInv

\* A prompt that can hold all that is relevant holds all of it ...
LEMMA BestIsAll ==
  ASSUME NEW items \in SUBSET Knowledge
  PROVE  Best(items) \subseteq items /\ (Cardinality(items) <= PromptCap => Best(items) = items)
<1>1. IsFiniteSet(items) /\ Cardinality(items) \in Nat /\ PromptCap \in Nat
  BY AiAssumption, FS_Subset, FS_CardinalityType
<1>2. ASSUME Cardinality(items) <= PromptCap, NEW k \in items
      PROVE  Cardinality({j \in items : j < k}) < PromptCap
  <2> DEFINE below == {j \in items : j < k}
             rest == items \ {k}
  <2>1. k \in Nat
    BY AiAssumption
  <2>2. below \subseteq rest
    BY <2>1, AiAssumption
  <2>3. IsFiniteSet(rest) /\ Cardinality(rest) = Cardinality(items) - 1
    BY <1>1, FS_RemoveElement
  <2>4. Cardinality(below) <= Cardinality(rest) /\ IsFiniteSet(below)
    BY <2>2, <2>3, FS_Subset
  <2>5. Cardinality(below) \in Nat
    BY <2>4, FS_CardinalityType
  <2> HIDE DEF below, rest
  <2>6. Cardinality(below) < PromptCap
    BY <1>1, <1>2, <2>3, <2>4, <2>5
  <2> QED
    BY <2>6 DEF below
<1> QED
  BY <1>2 DEF Best

\* ... and so does one that is made again from what is on record.
LEMMA RecordedIsSupplied ==
  ASSUME injections \subseteq Knowledge, NEW prompt \in Recorded
  PROVE  Supplied(prompt) /\ prompt \in SUBSET Knowledge
<1>1. IsFiniteSet(injections) /\ Cardinality(injections) \in Nat /\ PromptCap \in Nat
  BY AiAssumption, FS_Subset, FS_CardinalityType
<1>2. prompt \in SUBSET injections
      /\ Cardinality(prompt) = IF Cardinality(injections) < PromptCap THEN Cardinality(injections) ELSE PromptCap
  BY DEF Recorded
<1>3. Cardinality(injections) <= PromptCap => Cardinality(injections) = Cardinality(prompt)
  BY <1>1, <1>2
<1>4. Cardinality(injections) <= PromptCap => prompt = injections
  BY <1>1, <1>2, <1>3, FS_Subset
<1> QED
  BY <1>2, <1>4 DEF Supplied

LEMMA AskChanges ==
  ASSUME AiTyped, NEW a \in Askers, NEW ask \in AskRecord, asker' = [asker EXCEPT ![a] = ask]
  PROVE  /\ asker' \in [Askers -> AskRecord] /\ asker'[a] = ask
         /\ \A b \in Askers : b # a => asker'[b] = asker[b]
  BY DEF AiTyped

\* A call goes back: with what it found, or because the server went down.
LEMMA AskerLeaves ==
  ASSUME AiInv, NEW a \in Askers, asker' = [asker EXCEPT ![a] = NoAsk],
         UNCHANGED <<operation, injections, relevant, outrun, prompts, returned>>
  PROVE  AiInv'
<1>1. NoAsk \in AskRecord /\ NoAsk.step = "idle"
  BY DEF NoAsk, AskRecord
<1>2. /\ asker' \in [Askers -> AskRecord] /\ asker'[a].step = "idle"
      /\ \A b \in Askers : b # a => asker'[b] = asker[b]
  BY <1>1, AskChanges DEF AiInv
<1>3. AiTyped'
  BY <1>2 DEF AiInv, AiTyped
<1>4. OneRequest => OneRequest'
  BY <1>2 DEF OneRequest, Asking, Supplied
<1> QED
  BY <1>3, <1>4 DEF AiInv

LEMMA ReadingRowKeeps ==
  ASSUME AiInv, NEW a \in Askers, NEW input \in Inputs, BeginOrReuse(a, input)
  PROVE  AiInv'
<1> DEFINE on == operation.status \in {"none", "failed"} /\ operation.contextHash \in {NoInput, input}
           ask == [NoAsk EXCEPT !.step = "found", !.input = input, !.seen = operation.status]
<1>1. /\ UNCHANGED <<operation, injections, relevant, outrun, prompts>> /\ asker[a] = NoAsk
      /\ asker' = [asker EXCEPT ![a] = IF on THEN ask ELSE @]
      /\ returned' = IF ~on /\ operation.status = "completed" /\ operation.contextHash = input
                     THEN returned \cup {<<input, operation.resultData>>} ELSE returned
  BY DEF BeginOrReuse, Goes
<1>2. CASE on
  <2>1. ask \in AskRecord /\ ask.step = "found" /\ ask.input = input /\ ask.seen = operation.status
    BY <1>2 DEF NoAsk, AskRecord
  <2> HIDE DEF ask
  <2>2. asker' = [asker EXCEPT ![a] = ask] /\ returned' = returned
    BY <1>1, <1>2
  <2>3. /\ asker' \in [Askers -> AskRecord] /\ asker'[a] = ask
        /\ \A b \in Askers : b # a => asker'[b] = asker[b]
    BY <2>1, <2>2, AskChanges DEF AiInv
  <2>4. AiTyped'
    <3>1. \A b \in Askers : asker'[b].step # "idle" => asker'[b].input \in Inputs
      BY <2>1, <2>3 DEF AiInv, AiTyped
    <3> QED
      BY <1>1, <2>2, <2>3, <3>1 DEF AiInv, AiTyped
  <2>5. OneRequest => OneRequest'
    BY <1>1, <1>2, <2>1, <2>2, <2>3, AiAssumption DEF OneRequest, Asking, Supplied
  <2> QED
    BY <1>1, <2>4, <2>5 DEF AiInv
<1>3. CASE ~on
  <2>1. asker' = asker
    BY <1>1, <1>3 DEF AiInv, AiTyped
  <2>2. returned' = returned
        \/ (operation.status = "completed" /\ operation.contextHash = input
              /\ returned' = returned \cup {<<input, operation.resultData>>})
    BY <1>1
  <2>3. CASE returned' = returned
    BY <1>1, <2>1, <2>3 DEF AiInv, AiTyped, OneRequest, Asking, Supplied
  <2>4. CASE operation.status = "completed" /\ operation.contextHash = input
              /\ returned' = returned \cup {<<input, operation.resultData>>}
    <3>1. AiTyped'
      BY <1>1, <2>1, <2>4 DEF AiInv, AiTyped
    <3>2. OneRequest => OneRequest'
      BY <1>1, <2>1, <2>4 DEF OneRequest, Asking, Supplied
    <3> QED
      BY <1>1, <3>1, <3>2 DEF AiInv
  <2> QED
    BY <2>2, <2>3, <2>4
<1> QED
  BY <1>2, <1>3

\* The first dispatch of a key, or one that finds the row there already.
LEMMA BeginningKeeps ==
  ASSUME AiInv, NEW a \in Askers, BeginAiOperation(a)
  PROVE  AiInv'
<1> DEFINE row == [status |-> "dispatched", contextHash |-> asker[a].input, resultData |-> NoInput]
           ask == [asker[a] EXCEPT !.step = "calling", !.prompt = Best(relevant)]
<1>1. /\ asker[a].step = "found" /\ asker[a].seen = "none" /\ UNCHANGED <<relevant, prompts, returned>>
      /\ \/ /\ operation' = IF operation.status # "none" THEN operation ELSE row
            /\ injections' = injections \cup relevant
            /\ Dispatches(a, Best(relevant))
         \/ operation.status # "none" /\ asker' = [asker EXCEPT ![a] = NoAsk]
              /\ UNCHANGED <<operation, injections, outrun>>
  BY DEF BeginAiOperation
<1>2. CASE asker' = [asker EXCEPT ![a] = NoAsk] /\ UNCHANGED <<operation, injections, outrun>>
  BY <1>1, <1>2, AskerLeaves
<1>3. CASE /\ operation' = IF operation.status # "none" THEN operation ELSE row
           /\ injections' = injections \cup relevant
           /\ Dispatches(a, Best(relevant))
  <2>1. /\ \/ asker' = [asker EXCEPT ![a].step = "calling", ![a].prompt = Best(relevant)]
           \/ asker' = [asker EXCEPT ![a] = NoAsk]
        /\ outrun' = (outrun \/ operation.status # "none")
    BY <1>1, <1>3 DEF Dispatches
  <2>2. /\ asker[a] \in AskRecord /\ asker[a].input \in Inputs
        /\ relevant \in SUBSET Knowledge /\ operation \in OperationRow /\ injections \in SUBSET Knowledge
    BY <1>1 DEF AiInv, AiTyped
  <2>3. Best(relevant) \subseteq relevant /\ (Cardinality(relevant) <= PromptCap => Best(relevant) = relevant)
    BY <2>2, BestIsAll
  <2>4. /\ ask \in AskRecord /\ ask.step = "calling" /\ ask.input = asker[a].input /\ ask.prompt = Best(relevant)
    BY <2>2, <2>3 DEF AskRecord
  <2>5. NoAsk \in AskRecord /\ NoAsk.step = "idle"
    BY DEF NoAsk, AskRecord
  <2>6. asker' = [asker EXCEPT ![a] = ask] \/ asker' = [asker EXCEPT ![a] = NoAsk]
    BY <2>1
  <2> HIDE DEF ask
  <2>7. /\ asker' \in [Askers -> AskRecord]
        /\ asker'[a] = ask \/ asker'[a] = NoAsk
        /\ \A b \in Askers : b # a => asker'[b] = asker[b]
    BY <2>4, <2>5, <2>6, AskChanges DEF AiInv
  <2>8. AiTyped'
    <3>1. /\ operation' \in OperationRow
          /\ operation'.status = "completed" => operation'.resultData \in Inputs
      BY <1>3, <2>2 DEF OperationRow, AiInv, AiTyped
    <3>2. injections' \subseteq Knowledge /\ outrun' \in BOOLEAN
      BY <1>3, <2>1, <2>2
    <3>3. \A b \in Askers : asker'[b].step # "idle" => asker'[b].input \in Inputs
      BY <2>2, <2>4, <2>5, <2>7 DEF AiInv, AiTyped
    <3> QED
      BY <1>1, <2>7, <3>1, <3>2, <3>3 DEF AiInv, AiTyped
  <2>9. ASSUME ~outrun'
        PROVE  OneRequest'
    <3>1. OneRequest /\ operation.status = "none" /\ ~outrun
      BY <2>1, <2>9 DEF AiInv
    <3>2. /\ operation'.status = "dispatched" /\ operation'.contextHash = asker[a].input
          /\ injections' = relevant /\ prompts' = {} /\ injections = {}
      BY <1>1, <1>3, <3>1 DEF OneRequest
    <3>3. \A b \in Askers : ~Asking(b) /\ (asker[b].step = "found" => asker[b].seen = "none")
      BY <3>1, AiAssumption DEF OneRequest, AiInv, AiTyped
    <3>4. asker'[a].step \in {"idle", "calling"}
          /\ (asker'[a].step = "calling" => asker'[a].input = asker[a].input /\ asker'[a].prompt = Best(relevant))
      BY <2>4, <2>5, <2>7
    <3>5. \A b \in Askers :
            /\ asker'[b].step = "found" => asker'[b].seen = "none"
            /\ asker'[b].step \in {"calling", "answered", "refused"} =>
                 b = a /\ asker'[b].input = asker[a].input /\ asker'[b].prompt = Best(relevant)
      BY <2>7, <3>3, <3>4 DEF Asking
    <3>6. returned' = returned /\ \A pair \in returned : pair[1] = pair[2]
      BY <1>1, <3>1 DEF OneRequest
    <3> QED
      BY <2>2, <2>3, <3>2, <3>5, <3>6 DEF OneRequest, Asking, Supplied
  <2> QED
    BY <2>8, <2>9 DEF AiInv
<1> QED
  BY <1>1, <1>2, <1>3

\* A failed operation is dispatched again, with what is on record for it.
LEMMA RetryKeeps ==
  ASSUME AiInv, NEW a \in Askers, RetryOperation(a)
  PROVE  AiInv'
<1>1. /\ asker[a].step = "found" /\ asker[a].seen # "none"
      /\ UNCHANGED <<injections, relevant, prompts, returned>>
      /\ operation' = [operation EXCEPT !.status = "dispatched"]
  BY DEF RetryOperation
<1>2. PICK prompt \in Recorded : Dispatches(a, prompt)
  BY DEF RetryOperation
<1> DEFINE ask == [asker[a] EXCEPT !.step = "calling", !.prompt = prompt]
<1>3. /\ asker' = [asker EXCEPT ![a] = ask] \/ asker' = [asker EXCEPT ![a] = NoAsk]
      /\ outrun' = (outrun \/ operation.status # asker[a].seen)
  BY <1>2 DEF Dispatches, AiInv, AiTyped
<1>4. /\ asker[a] \in AskRecord /\ asker[a].input \in Inputs
      /\ operation \in OperationRow /\ injections \subseteq Knowledge
  BY <1>1 DEF AiInv, AiTyped
<1>5. Supplied(prompt) /\ prompt \in SUBSET Knowledge
  BY <1>4, RecordedIsSupplied
<1>6. ask \in AskRecord /\ ask.step = "calling" /\ ask.input = asker[a].input /\ ask.prompt = prompt
  BY <1>4, <1>5 DEF AskRecord
<1>7. NoAsk \in AskRecord /\ NoAsk.step = "idle"
  BY DEF NoAsk, AskRecord
<1> HIDE DEF ask
<1>8. /\ asker' \in [Askers -> AskRecord]
      /\ asker'[a] = ask \/ asker'[a] = NoAsk
      /\ \A b \in Askers : b # a => asker'[b] = asker[b]
  BY <1>3, <1>6, <1>7, AskChanges DEF AiInv
<1>9. /\ operation' \in OperationRow /\ operation'.status = "dispatched"
      /\ operation'.contextHash = operation.contextHash
  BY <1>1, <1>4 DEF OperationRow
<1>10. AiTyped'
  <2>1. outrun' \in BOOLEAN
    BY <1>3
  <2>2. \A b \in Askers : asker'[b].step # "idle" => asker'[b].input \in Inputs
    BY <1>4, <1>6, <1>7, <1>8 DEF AiInv, AiTyped
  <2> QED
    BY <1>1, <1>8, <1>9, <2>1, <2>2 DEF AiInv, AiTyped
<1>11. ASSUME ~outrun'
       PROVE  OneRequest'
  <2>1. OneRequest /\ operation.status = asker[a].seen
    BY <1>3, <1>11 DEF AiInv
  <2>2. operation.status = "failed" /\ asker[a].input = operation.contextHash /\ operation.contextHash \in Inputs
    BY <1>1, <2>1 DEF OneRequest
  <2>3. \A b \in Askers : ~Asking(b)
    BY <2>1, <2>2 DEF OneRequest
  <2>4. asker'[a].step \in {"idle", "calling"}
        /\ (asker'[a].step = "calling" => asker'[a].input = asker[a].input /\ asker'[a].prompt = prompt)
    BY <1>6, <1>7, <1>8
  <2>5. \A b \in Askers :
          /\ asker'[b].step = "found" =>
               /\ asker'[b].seen \in {"none", "failed"}
               /\ asker'[b].seen = "failed" => asker'[b].input = operation.contextHash
          /\ asker'[b].step \in {"calling", "answered", "refused"} =>
               b = a /\ asker'[b].input = asker[a].input /\ asker'[b].prompt = prompt
    BY <1>8, <2>1, <2>3, <2>4 DEF OneRequest, Asking
  <2>6. \A set : Supplied(set)' <=> Supplied(set)
    BY <1>1 DEF Supplied
  <2>7. /\ \A call \in prompts : call[1] = operation.contextHash /\ Supplied(call[2])
        /\ \A pair \in returned : pair[1] = pair[2]
    BY <2>1 DEF OneRequest
  <2> QED
    BY <1>1, <1>5, <1>9, <2>2, <2>5, <2>7 DEF OneRequest, Asking, Supplied
<1> QED
  BY <1>10, <1>11 DEF AiInv

LEMMA CallKeeps ==
  ASSUME AiInv, NEW a \in Askers, CallProvider(a)
  PROVE  AiInv'
<1>1. /\ asker[a].step = "calling" /\ UNCHANGED <<operation, injections, relevant, outrun, returned>>
      /\ prompts' = prompts \cup {<<asker[a].input, asker[a].prompt>>}
  BY DEF CallProvider
<1>2. PICK step \in {"answered", "refused"} : asker' = [asker EXCEPT ![a].step = step]
  BY DEF CallProvider
<1>3. asker[a] \in AskRecord /\ asker[a].input \in Inputs /\ asker[a].prompt \in SUBSET Knowledge
  BY <1>1 DEF AiInv, AiTyped, AskRecord
<1>4. /\ asker' \in [Askers -> AskRecord]
      /\ asker'[a].step = step /\ asker'[a].input = asker[a].input /\ asker'[a].prompt = asker[a].prompt
      /\ \A b \in Askers : b # a => asker'[b] = asker[b]
  BY <1>2, <1>3 DEF AiInv, AiTyped, AskRecord
<1>5. AiTyped'
  BY <1>1, <1>3, <1>4 DEF AiInv, AiTyped
<1>6. ASSUME OneRequest
      PROVE  OneRequest'
  <2>1. /\ operation.status = "dispatched" /\ asker[a].input = operation.contextHash
        /\ Supplied(asker[a].prompt) /\ Asking(a)
    BY <1>1, <1>6 DEF OneRequest, Asking
  <2>2. \A b \in Askers : /\ Asking(b)' <=> Asking(b)
                          /\ asker'[b].input = asker[b].input /\ asker'[b].prompt = asker[b].prompt
                          /\ asker'[b].step = "found" => asker'[b] = asker[b]
    BY <1>4, <2>1 DEF Asking
  <2>3. \A call \in prompts' : call[1] = operation.contextHash /\ Supplied(call[2])
    BY <1>1, <1>6, <2>1 DEF OneRequest
  <2> QED
    BY <1>1, <1>6, <2>1, <2>2, <2>3 DEF OneRequest, Supplied
<1> QED
  BY <1>1, <1>5, <1>6 DEF AiInv

\* The end is recorded by the one call that asked.
LEMMA EndKeeps ==
  ASSUME AiInv, NEW a \in Askers, CompleteAiOperation(a) \/ FailAiOperation(a)
  PROVE  AiInv'
<1>1. /\ asker[a].step \in {"answered", "refused"} /\ asker' = [asker EXCEPT ![a] = NoAsk]
      /\ UNCHANGED <<injections, relevant, outrun, prompts>>
      /\ \/ /\ operation' = [operation EXCEPT !.status = "completed", !.resultData = asker[a].input]
            /\ returned' = returned \cup {<<asker[a].input, asker[a].input>>}
         \/ operation' = [operation EXCEPT !.status = "failed"] /\ returned' = returned
  BY DEF CompleteAiOperation, FailAiOperation
<1>2. NoAsk \in AskRecord /\ NoAsk.step = "idle"
  BY DEF NoAsk, AskRecord
<1>3. /\ asker' \in [Askers -> AskRecord] /\ asker'[a].step = "idle"
      /\ \A b \in Askers : b # a => asker'[b] = asker[b]
  BY <1>1, <1>2, AskChanges DEF AiInv
<1>4. asker[a].input \in Inputs /\ operation \in OperationRow
  BY <1>1 DEF AiInv, AiTyped
<1>5. /\ operation' \in OperationRow /\ operation'.contextHash = operation.contextHash
      /\ operation'.status \in {"completed", "failed"}
      /\ operation'.status = "completed" => operation'.resultData = asker[a].input
      /\ returned' = returned \/ returned' = returned \cup {<<asker[a].input, asker[a].input>>}
  BY <1>1, <1>4 DEF OperationRow
<1>6. AiTyped'
  BY <1>1, <1>3, <1>4, <1>5 DEF AiInv, AiTyped
<1>7. ASSUME OneRequest
      PROVE  OneRequest'
  <2>1. Asking(a) /\ operation.status = "dispatched" /\ asker[a].input = operation.contextHash
    BY <1>1, <1>7 DEF OneRequest, Asking
  <2>2. \A b \in Askers : ~Asking(b)'
    BY <1>3, <1>7, <2>1 DEF OneRequest, Asking
  <2>3. \A b \in Askers : asker'[b].step = "found" => asker'[b] = asker[b]
    BY <1>3
  <2> QED
    BY <1>1, <1>5, <1>7, <2>1, <2>2, <2>3 DEF OneRequest, Supplied
<1> QED
  BY <1>1, <1>6, <1>7 DEF AiInv

LEMMA AiInvStep == AiInv /\ [AiNext]_aiVars => AiInv'
<1> SUFFICES ASSUME AiInv, [AiNext]_aiVars PROVE AiInv'
  OBVIOUS
<1>1. CASE Teach
  BY <1>1 DEF Teach, AiInv, AiTyped, OneRequest, Asking, Supplied
<1>2. ASSUME NEW a \in Askers, NEW input \in Inputs, BeginOrReuse(a, input)
      PROVE  AiInv'
  BY <1>2, ReadingRowKeeps
<1>3. ASSUME NEW a \in Askers, BeginAiOperation(a) \/ RetryOperation(a) \/ CallProvider(a)
      PROVE  AiInv'
  BY <1>3, BeginningKeeps, RetryKeeps, CallKeeps
<1>4. ASSUME NEW a \in Askers, CompleteAiOperation(a) \/ FailAiOperation(a)
      PROVE  AiInv'
  BY <1>4, EndKeeps
<1>5. ASSUME NEW a \in Askers, AskerStops(a)
      PROVE  AiInv'
  BY <1>5, AskerLeaves DEF AskerStops
<1>6. CASE UNCHANGED aiVars
  BY <1>6 DEF aiVars, AiInv, AiTyped, OneRequest, Asking, Supplied
<1> QED
  BY <1>1, <1>2, <1>3, <1>4, <1>5, <1>6 DEF AiNext

\* Whatever is retried under one key and however the knowledge changes in between,
\* the provider gets one request for it, from one call at a time, and what a caller
\* is given answers what it asked; unless a call was outrun by another between its
\* first read of the row and its next step (operations.ts, suggest.ts).
THEOREM OneKeyOneRequest == AiSpec => []KeyIsOneRequest
<1>1. AiInv => KeyIsOneRequest
  <2> SUFFICES ASSUME AiInv, ~outrun PROVE KeyIsOneRequest
    BY DEF KeyIsOneRequest
  <2> DEFINE asking == {a \in Askers : asker[a].step \in {"calling", "answered", "refused"}}
  <2>1. OneRequest
    BY DEF AiInv
  <2>2. Cardinality(asking) <= 1
    <3>1. asking = {} \/ \E a \in asking : asking = {a}
      BY <2>1 DEF OneRequest, Asking
    <3> HIDE DEF asking
    <3>2. CASE asking = {}
      <4>1. Cardinality({}) = 0
        BY FS_EmptySet
      <4> QED
        BY <3>2, <4>1
    <3>3. CASE \E a \in asking : asking = {a}
      <4>1. PICK a \in asking : asking = {a}
        BY <3>3
      <4>2. Cardinality({a}) = 1
        BY FS_Singleton
      <4> QED
        BY <4>1, <4>2
    <3> QED
      BY <3>1, <3>2, <3>3
  <2> QED
    BY <2>1, <2>2 DEF OneRequest, Supplied, KeyIsOneRequest
<1> QED
  BY <1>1, AiInvInit, AiInvStep, PTL DEF AiSpec

-----------------------------------------------------------------------------
(* Task dependencies. *)

WalkLevels == 0..WalkLimit
Walks == [edge : Edges \cup {<<>>}, frontier : SUBSET GraphTasks,
          visited : SUBSET GraphTasks, level : WalkLevels, overtaken : BOOLEAN]

\* A walk holds its start and not its goal, and what it is done with leads
\* nowhere outside, as long as nobody added an edge since it began.
WalkIsSound ==
  \A p \in Editors : Walking(p) =>
    LET w == editor[p]
    IN /\ w.edge[2] \in w.visited /\ w.edge[1] \notin w.visited
       /\ ~w.overtaken => \A d \in deps : d[1] \in w.visited \ w.frontier => d[2] \in w.visited

\* Each level that left something to look at had met a task the walk had not met.
WalkIsCounted ==
  /\ \A p \in Editors : Walking(p) =>
       LET w == editor[p] IN w.frontier # {} => Cardinality(w.visited) > w.level
  /\ cutoff # {} => Cardinality(GraphTasks) >= WalkLimit + 2

\* What the edges of E lead to from n is in a set that n is not in.
NoWayBack(E, n) ==
  \E S \in SUBSET GraphTasks : n \notin S /\ \A d \in E : d[1] \in S \cup {n} => d[2] \in S

GraphInv ==
  /\ DependenciesTypeOK /\ WalkIsSound /\ WalkIsCounted
  /\ \A n \in GraphTasks : NoWayBack(deps \ (raced \cup cutoff), n)

LEMMA WalkStarts == 0 \in WalkLevels /\ NoWalk \in Walks
<1>1. 0 \in WalkLevels
  BY DependenciesAssumption DEF WalkLevels
<1> QED
  BY <1>1 DEF Walks, NoWalk

LEMMA WalkTypes ==
  ASSUME DependenciesTypeOK
  PROVE  /\ editor \in [Editors -> Walks] /\ NoWalk \in Walks /\ deps \subseteq Edges /\ raced \cup cutoff \subseteq deps
         /\ \A p \in Editors : Walking(p) => editor[p].edge \in Edges
BY WalkStarts DEF DependenciesTypeOK, Walks, WalkLevels, Walking

LEMMA NoWayBackIsNoCycle ==
  ASSUME NEW E \in SUBSET Edges, NEW n \in GraphTasks, NoWayBack(E, n)
  PROVE  ~OnCycle(E, n)
<1>1. PICK S \in SUBSET GraphTasks : n \notin S /\ \A d \in E : d[1] \in S \cup {n} => d[2] \in S
  BY DEF NoWayBack
<1>2. Targets(E, {n}) \subseteq S /\ Targets(E, S) \subseteq S
  BY <1>1 DEF Targets
<1> QED
  BY <1>1, <1>2 DEF OnCycle, Closure

\* An edge whose dependent does not lead to its prerequisite closes no cycle.
LEMMA SafeEdge ==
  ASSUME NEW D \in SUBSET Edges, NEW G \in SUBSET D, NEW a \in GraphTasks, NEW b \in GraphTasks,
         NEW V \in SUBSET GraphTasks, b \in V, a \notin V, \A d \in D : d[1] \in V => d[2] \in V,
         NEW n \in GraphTasks, NoWayBack(G, n)
  PROVE  NoWayBack(G \cup {<<a, b>>}, n)
<1>1. PICK S \in SUBSET GraphTasks : n \notin S /\ \A d \in G : d[1] \in S \cup {n} => d[2] \in S
  BY DEF NoWayBack
<1> DEFINE Shows(T) == n \notin T /\ \A d \in G \cup {<<a, b>>} : d[1] \in T \cup {n} => d[2] \in T
<1>2. SUFFICES \E T \in SUBSET GraphTasks : Shows(T)
  BY DEF NoWayBack
<1>3. <<a, b>>[1] = a /\ <<a, b>>[2] = b
  OBVIOUS
<1>4. CASE n # a /\ a \notin S
  <2>1. Shows(S)
    BY <1>1, <1>3, <1>4
  <2> QED
    BY <2>1
<1>5. CASE n \notin V /\ (n = a \/ a \in S)
  <2>1. Shows(S \cup V)
    BY <1>1, <1>3, <1>5
  <2> QED
    BY <2>1
<1>6. CASE n \in V /\ a \in S
  <2>1. Shows(S \cap V)
    BY <1>1, <1>3, <1>6
  <2> QED
    BY <2>1
<1> QED
  BY <1>4, <1>5, <1>6

LEMMA FewerEdges ==
  ASSUME NEW E, NEW F \in SUBSET E, NEW n, NoWayBack(E, n) PROVE NoWayBack(F, n)
BY DEF NoWayBack

LEMMA GraphInvInit == ASSUME DependenciesInit PROVE GraphInv
<1>1. DependenciesTypeOK
  BY DependenciesAssumption DEF DependenciesInit, DependenciesTypeOK, NoWalk
<1>2. WalkIsSound /\ WalkIsCounted
  BY DEF DependenciesInit, WalkIsSound, WalkIsCounted, Walking, NoWalk
<1>3. ASSUME NEW n \in GraphTasks PROVE NoWayBack(deps \ (raced \cup cutoff), n)
  <2>1. deps = {} /\ {} \in SUBSET GraphTasks
    BY DEF DependenciesInit
  <2> QED
    BY <2>1 DEF NoWayBack
<1> QED
  BY <1>1, <1>2, <1>3 DEF GraphInv

LEMMA AddKeeps ==
  ASSUME GraphInv, NEW p \in Editors, NEW e \in Edges, AddDependency(p, e) PROVE GraphInv'
<1> DEFINE w == [NoWalk EXCEPT !.edge = e, !.frontier = {e[2]}, !.visited = {e[2]}]
<1>1. /\ editor \in [Editors -> Walks] /\ DependenciesTypeOK /\ WalkIsSound
      /\ e[1] \in GraphTasks /\ e[2] \in GraphTasks
  BY WalkTypes DEF GraphInv, Edges
<1>2. w \in Walks /\ w.edge = e /\ w.frontier = {e[2]} /\ w.visited = {e[2]} /\ w.level = 0
  <2>1. w \in Walks
    BY <1>1, WalkStarts DEF Walks
  <2> QED
    BY <2>1 DEF NoWalk
<1> HIDE DEF w
<1>3. editor' = [editor EXCEPT ![p] = w] /\ UNCHANGED <<deps, raced, cutoff>> /\ e[1] # e[2]
  BY DEF AddDependency, w
<1>4. editor' \in [Editors -> Walks]
  BY <1>1, <1>2, <1>3
<1>5. edits' \in 0..MaxEdits
  BY <1>1, DependenciesAssumption DEF AddDependency, DependenciesTypeOK
<1>6. DependenciesTypeOK'
  BY <1>1, <1>3, <1>4, <1>5 DEF DependenciesTypeOK, Walks, WalkLevels
<1>7. WalkIsSound'
  BY <1>1, <1>2, <1>3 DEF WalkIsSound, Walking
<1>8. WalkIsCounted'
  <2>1. Cardinality({e[2]}) = 1
    BY FS_Singleton
  <2>2. \A q \in Editors : editor'[q] = IF q = p THEN w ELSE editor[q]
    BY <1>1, <1>3
  <2>3. Cardinality(w.visited) > w.level
    BY <1>2, <2>1
  <2>4. ASSUME NEW q \in Editors, Walking(q)', editor'[q].frontier # {}
        PROVE  Cardinality(editor'[q].visited) > editor'[q].level
    BY <2>2, <2>3, <2>4 DEF GraphInv, WalkIsCounted, Walking
  <2>5. cutoff' = cutoff
    BY <1>3
  <2> QED
    BY <2>4, <2>5 DEF GraphInv, WalkIsCounted
<1> QED
  BY <1>3, <1>6, <1>7, <1>8 DEF GraphInv

LEMMA ReachesKeeps ==
  ASSUME GraphInv, NEW p \in Editors, Reaches(p) PROVE GraphInv'
<1> DEFINE w == editor[p]
           found == Targets(deps, w.frontier)
           further == [w EXCEPT !.frontier = found \ w.visited, !.visited = w.visited \cup found,
                                !.level = w.level + 1]
<1>1. /\ editor \in [Editors -> Walks] /\ NoWalk \in Walks /\ DependenciesTypeOK /\ WalkIsSound
      /\ deps \subseteq Edges /\ WalkIsCounted
  BY WalkTypes DEF GraphInv
<1>2. found \subseteq GraphTasks /\ \A d \in deps : d[1] \in w.frontier => d[2] \in found
  BY <1>1 DEF Targets, Edges
<1>3. /\ further \in Walks /\ further.edge = w.edge /\ further.overtaken = w.overtaken
      /\ further.frontier = found \ w.visited /\ further.visited = w.visited \cup found
      /\ further.level = w.level + 1
  <2>1. w \in Walks /\ w.level < WalkLimit
    BY <1>1 DEF Reaches
  <2> DEFINE next == w.level + 1
  <2>2. next \in WalkLevels
    BY <2>1, DependenciesAssumption DEF Walks, WalkLevels
  <2> HIDE DEF next, found
  <2>3. further = [w EXCEPT !.frontier = found \ w.visited, !.visited = w.visited \cup found, !.level = next]
    BY DEF next
  <2> HIDE DEF further
  <2>4. further \in Walks /\ further.edge = w.edge /\ further.overtaken = w.overtaken
        /\ further.frontier = found \ w.visited /\ further.visited = w.visited \cup found
        /\ further.level = next
    BY <1>2, <2>1, <2>2, <2>3 DEF Walks
  <2> QED
    BY <2>4 DEF next
<1>4. Walking(p) /\ w.frontier # {} /\ UNCHANGED <<deps, edits, raced, cutoff>>
  BY DEF Reaches
<1>5. \/ editor' = [editor EXCEPT ![p] = NoWalk]
      \/ w.edge[1] \notin found /\ editor' = [editor EXCEPT ![p] = further]
  BY DEF Reaches
<1>6. CASE editor' = [editor EXCEPT ![p] = NoWalk]
  <2>1. editor' \in [Editors -> Walks]
    BY <1>1, <1>6
  <2>2. NoWalk.edge = <<>>
    BY DEF NoWalk
  <2>3. WalkIsSound' /\ WalkIsCounted'
    BY <1>1, <1>4, <1>6, <2>2 DEF WalkIsSound, WalkIsCounted, Walking
  <2> QED
    BY <1>1, <1>4, <2>1, <2>3 DEF GraphInv, DependenciesTypeOK, Walks, WalkLevels
<1>7. CASE w.edge[1] \notin found /\ editor' = [editor EXCEPT ![p] = further]
  <2> HIDE DEF found, further
  <2>1. editor' \in [Editors -> Walks]
    BY <1>1, <1>3, <1>7
  <2>2. /\ further.edge[2] \in further.visited /\ further.edge[1] \notin further.visited
        /\ ~further.overtaken => \A d \in deps : d[1] \in further.visited \ further.frontier => d[2] \in further.visited
    BY <1>1, <1>2, <1>3, <1>4, <1>7 DEF WalkIsSound
  <2>3. WalkIsSound'
    BY <1>1, <1>4, <1>7, <2>2 DEF WalkIsSound, Walking
  <2>4. further.frontier # {} => Cardinality(further.visited) > further.level
    <3>1. ASSUME NEW x \in found \ w.visited
          PROVE  Cardinality(w.visited \cup found) > w.level + 1
      <4>1. w.visited \cup found \subseteq GraphTasks /\ w.level \in Nat /\ Cardinality(w.visited) > w.level
        BY <1>1, <1>2, <1>4 DEF Walks, WalkLevels, WalkIsCounted
      <4>2. IsFiniteSet(w.visited \cup found) /\ IsFiniteSet(w.visited)
        BY <4>1, DependenciesAssumption, FS_Subset
      <4>3. Cardinality(w.visited \cup {x}) = Cardinality(w.visited) + 1 /\ IsFiniteSet(w.visited \cup {x})
        BY <3>1, <4>2, FS_AddElement
      <4>4. w.visited \cup {x} \subseteq w.visited \cup found
        BY <3>1
      <4>5. Cardinality(w.visited \cup {x}) <= Cardinality(w.visited \cup found)
        BY <4>2, <4>4, FS_Subset
      <4>6. Cardinality(w.visited) \in Nat /\ Cardinality(w.visited \cup found) \in Nat
        BY <4>2, FS_CardinalityType
      <4> QED
        BY <4>1, <4>3, <4>5, <4>6
    <3> QED
      BY <1>3, <3>1
  <2>5. WalkIsCounted'
    BY <1>1, <1>4, <1>7, <2>4 DEF WalkIsCounted, Walking
  <2> QED
    BY <1>1, <1>4, <2>1, <2>3, <2>5 DEF GraphInv, DependenciesTypeOK, Walks, WalkLevels
<1> QED
  BY <1>5, <1>6, <1>7

LEMMA InsertKeeps ==
  ASSUME GraphInv, NEW p \in Editors, InsertDependency(p) PROVE GraphInv'
<1> DEFINE e == editor[p].edge
           V == editor[p].visited
<1>1. /\ editor \in [Editors -> Walks] /\ NoWalk \in Walks /\ DependenciesTypeOK /\ WalkIsSound
      /\ deps \subseteq Edges /\ raced \cup cutoff \subseteq deps /\ e \in Edges /\ Walking(p)
      /\ editor[p].frontier = {} \/ editor[p].level = WalkLimit
      /\ V \in SUBSET GraphTasks /\ WalkIsCounted
  BY WalkTypes DEF GraphInv, InsertDependency, Walks
<1>2. PICK a \in GraphTasks, b \in GraphTasks : e = <<a, b>>
  BY <1>1 DEF Edges
<1>3. /\ deps' = deps \cup {e} /\ edits' = edits
      /\ raced' = IF e \notin deps /\ editor[p].overtaken THEN raced \cup {e} ELSE raced
      /\ cutoff' = IF e \notin deps /\ editor[p].frontier # {} THEN cutoff \cup {e} ELSE cutoff
      /\ editor' = [q \in Editors |->
           IF q = p THEN NoWalk
           ELSE [editor[q] EXCEPT !.overtaken = @ \/ (Walking(q) /\ e \notin deps)]]
  BY DEF InsertDependency
<1>4. ASSUME NEW q \in Editors \ {p}
      PROVE  /\ editor'[q] \in Walks /\ editor'[q].edge = editor[q].edge
             /\ editor'[q].frontier = editor[q].frontier /\ editor'[q].visited = editor[q].visited
             /\ editor'[q].level = editor[q].level
             /\ ~editor'[q].overtaken => ~editor[q].overtaken /\ (Walking(q) => e \in deps)
  BY <1>1, <1>3, <1>4 DEF Walks
<1>5. editor' \in [Editors -> Walks] /\ editor'[p] = NoWalk
  BY <1>1, <1>3, <1>4
<1>6. DependenciesTypeOK'
  BY <1>1, <1>3, <1>5 DEF DependenciesTypeOK, Walks, WalkLevels
<1>7. WalkIsSound'
  <2>1. NoWalk.edge = <<>>
    BY DEF NoWalk
  <2>2. ASSUME NEW q \in Editors, Walking(q)'
        PROVE  LET w == editor'[q]
               IN /\ w.edge[2] \in w.visited /\ w.edge[1] \notin w.visited
                  /\ ~w.overtaken => \A d \in deps' : d[1] \in w.visited \ w.frontier => d[2] \in w.visited
    <3>1. q \in Editors \ {p} /\ Walking(q)
      BY <1>4, <1>5, <2>1, <2>2 DEF Walking
    <3>2. ~editor'[q].overtaken => deps' = deps
      BY <1>3, <1>4, <3>1
    <3> QED
      BY <1>1, <1>4, <3>1, <3>2 DEF WalkIsSound
  <2> QED
    BY <2>2 DEF WalkIsSound
<1>8. ASSUME NEW n \in GraphTasks PROVE NoWayBack(deps' \ (raced' \cup cutoff'), n)
  <2>1. NoWayBack(deps \ (raced \cup cutoff), n)
    BY DEF GraphInv
  <2>2. CASE e \in deps \/ editor[p].overtaken \/ editor[p].frontier # {}
    <3>1. deps' \ (raced' \cup cutoff') = deps \ (raced \cup cutoff)
      BY <1>1, <1>3, <2>2
    <3> QED
      BY <2>1, <3>1
  <2>3. CASE e \notin deps /\ ~editor[p].overtaken /\ editor[p].frontier = {}
    <3>1. b \in V /\ a \notin V /\ \A d \in deps : d[1] \in V => d[2] \in V
      BY <1>1, <1>2, <2>3 DEF WalkIsSound
    <3>2. deps' \ (raced' \cup cutoff') = (deps \ (raced \cup cutoff)) \cup {<<a, b>>}
      BY <1>1, <1>2, <1>3, <2>3
    <3>3. NoWayBack((deps \ (raced \cup cutoff)) \cup {<<a, b>>}, n)
      BY <1>1, <2>1, <3>1, SafeEdge
    <3> QED
      BY <3>2, <3>3
  <2> QED
    BY <2>2, <2>3
<1>9. WalkIsCounted'
  <2>1. ASSUME editor[p].frontier # {}
        PROVE  Cardinality(GraphTasks) >= WalkLimit + 2
    <3>1. WalkLimit \in Nat /\ Cardinality(V) > WalkLimit /\ a \notin V
      BY <1>1, <1>2, <2>1, DependenciesAssumption DEF WalkIsCounted, WalkIsSound
    <3>2. IsFiniteSet(V) /\ IsFiniteSet(GraphTasks) /\ V \cup {a} \subseteq GraphTasks
      BY <1>1, <1>2, DependenciesAssumption, FS_Subset
    <3>3. Cardinality(V \cup {a}) = Cardinality(V) + 1
      BY <3>1, <3>2, FS_AddElement
    <3>4. Cardinality(V \cup {a}) <= Cardinality(GraphTasks)
      BY <3>2, FS_Subset
    <3>5. Cardinality(V) \in Nat /\ Cardinality(GraphTasks) \in Nat
      BY <3>2, FS_CardinalityType
    <3> QED
      BY <3>1, <3>3, <3>4, <3>5
  <2>2. cutoff' # {} => Cardinality(GraphTasks) >= WalkLimit + 2
    BY <1>1, <1>3, <2>1 DEF WalkIsCounted
  <2>3. ASSUME NEW q \in Editors, Walking(q)', editor'[q].frontier # {}
        PROVE  Cardinality(editor'[q].visited) > editor'[q].level
    <3>1. q \in Editors \ {p} /\ Walking(q)
      BY <1>4, <1>5, <2>3 DEF Walking, NoWalk
    <3> QED
      BY <1>1, <1>4, <2>3, <3>1 DEF WalkIsCounted
  <2> QED
    BY <2>2, <2>3 DEF WalkIsCounted
<1> QED
  BY <1>6, <1>7, <1>8, <1>9 DEF GraphInv

LEMMA RemoveKeeps ==
  ASSUME GraphInv, NEW p \in Editors, NEW e \in Edges, RemoveDependency(p, e) PROVE GraphInv'
<1>1. deps' \subseteq deps /\ raced' \cup cutoff' \subseteq deps' /\ editor' = editor
      /\ deps' \ (raced' \cup cutoff') \in SUBSET (deps \ (raced \cup cutoff)) /\ cutoff' \subseteq cutoff
  BY DEF RemoveDependency, GraphInv, DependenciesTypeOK
<1>2. edits' \in 0..MaxEdits
  BY DependenciesAssumption DEF RemoveDependency, GraphInv, DependenciesTypeOK
<1>3. DependenciesTypeOK'
  BY <1>1, <1>2 DEF GraphInv, DependenciesTypeOK
<1>4. WalkIsSound' /\ WalkIsCounted'
  BY <1>1 DEF GraphInv, WalkIsSound, WalkIsCounted, Walking
<1>5. ASSUME NEW n \in GraphTasks PROVE NoWayBack(deps' \ (raced' \cup cutoff'), n)
  BY <1>1, FewerEdges DEF GraphInv
<1> QED
  BY <1>3, <1>4, <1>5 DEF GraphInv

LEMMA GraphInvNext == ASSUME GraphInv, [DependenciesNext]_dependencyVars PROVE GraphInv'
<1>1. CASE UNCHANGED dependencyVars
  BY <1>1 DEF dependencyVars, GraphInv, DependenciesTypeOK, WalkIsSound, WalkIsCounted, Walking, NoWayBack
<1> QED
  BY <1>1, AddKeeps, ReachesKeeps, InsertKeeps, RemoveKeeps DEF DependenciesNext

\* However many editors add and remove edges at once, every cycle has an edge
\* whose reachability walk another addition overtook or gave up at its limit, and
\* no walk gives up in a workspace of fewer tasks than the walk has levels, and
\* two: reaches refuses the rest.
THEOREM CyclesAlwaysHaveACause == DependenciesSpec => []CyclesHaveACause
<1>1. DependenciesInit => GraphInv
  BY GraphInvInit
<1>2. GraphInv /\ [DependenciesNext]_dependencyVars => GraphInv'
  BY GraphInvNext
<1>3. GraphInv => CyclesHaveACause
  <2>1. ASSUME GraphInv, NEW n \in GraphTasks PROVE ~OnCycle(deps \ (raced \cup cutoff), n)
    <3>1. deps \ (raced \cup cutoff) \in SUBSET Edges /\ NoWayBack(deps \ (raced \cup cutoff), n)
      BY <2>1 DEF GraphInv, DependenciesTypeOK
    <3> QED
      BY <3>1, NoWayBackIsNoCycle
  <2> QED
    BY <2>1 DEF CyclesHaveACause, GraphInv, WalkIsCounted
<1> QED
  BY <1>1, <1>2, <1>3, PTL DEF DependenciesSpec

-----------------------------------------------------------------------------
(* What prompts are told of the graph. *)

\* The neighbourhood is a part of the graph.
PartOfGraph(g) == g.edges \subseteq deps /\ g.nodes \subseteq GraphTasks

\* Unless the cap was reached, every edge at a task of the frontier is known, and so are
\* its ends.
Surrounds(g, tasks) ==
  \A d \in deps : d[1] \in tasks \/ d[2] \in tasks => d \in g.edges /\ {d[1], d[2]} \subseteq g.nodes

LEMMA WidenedShape ==
  ASSUME deps \subseteq Edges, NEW g, PartOfGraph(g), g.truncated \in BOOLEAN, NEW h \in Widen(g)
  PROVE  /\ PartOfGraph(h) /\ h.truncated \in BOOLEAN /\ g.edges \subseteq h.edges /\ g.nodes \subseteq h.nodes
         /\ ~h.truncated =>
              /\ ~g.truncated /\ Surrounds(h, g.frontier)
              /\ \A d \in deps : d[1] \in g.frontier \/ d[2] \in g.frontier => {d[1], d[2]} \subseteq h.frontier
<1> DEFINE touching == {d \in deps : d[1] \in g.frontier \/ d[2] \in g.frontier}
           known == g.edges \cup touching
           near == (UNION {{d[1], d[2]} : d \in touching}) \cup Targets(deps, Sources(known, g.frontier))
           fetched == near \ g.nodes
           room == NodeCap - Cardinality(g.nodes)
<1>1. PICK new \in kSubset(Min({room, Cardinality(fetched)}), fetched) :
        h = [edges |-> known, nodes |-> g.nodes \cup new, frontier |-> near \cap (g.nodes \cup new),
             truncated |-> g.truncated \/ new # fetched]
  BY DEF Widen
<1>2. new \subseteq fetched
  BY <1>1 DEF kSubset
<1>3. near \subseteq GraphTasks
  <2>1. \A d \in deps : d[1] \in GraphTasks /\ d[2] \in GraphTasks
    BY DEF Edges
  <2>2. \A d \in touching : {d[1], d[2]} \subseteq GraphTasks
    BY <2>1
  <2>3. \A tasks : Targets(deps, tasks) \subseteq GraphTasks
    BY <2>1 DEF Targets
  <2>4. (UNION {{d[1], d[2]} : d \in touching}) \subseteq GraphTasks
    <3> HIDE DEF touching
    <3>1. ASSUME NEW x \in UNION {{d[1], d[2]} : d \in touching} PROVE x \in GraphTasks
      <4>1. PICK d \in touching : x \in {d[1], d[2]}
        BY <3>1
      <4> QED
        BY <2>2, <4>1
    <3> QED
      BY <3>1
  <2>5. Targets(deps, Sources(known, g.frontier)) \subseteq GraphTasks
    BY <2>3
  <2>6. near = (UNION {{d[1], d[2]} : d \in touching}) \cup Targets(deps, Sources(known, g.frontier))
    OBVIOUS
  <2> DEFINE ends == UNION {{d[1], d[2]} : d \in touching}
  <2>7. ends \subseteq GraphTasks /\ near = ends \cup Targets(deps, Sources(known, g.frontier))
    BY <2>4, <2>6
  <2> HIDE DEF ends, near, known
  <2> QED
    BY <2>5, <2>7
<1>4. touching \subseteq deps /\ known \subseteq deps
  BY DEF PartOfGraph
<1>5. \A d \in deps : d[1] \in g.frontier \/ d[2] \in g.frontier => d \in known /\ {d[1], d[2]} \subseteq near
  OBVIOUS
<1>6. /\ h.edges = known /\ h.nodes = g.nodes \cup new /\ h.frontier = near \cap (g.nodes \cup new)
      /\ h.truncated = (g.truncated \/ new # fetched)
  BY <1>1
<1> HIDE DEF touching, near, room
<1>7. g.edges \subseteq known
  OBVIOUS
<1> HIDE DEF known
<1>8. PartOfGraph(h) /\ h.truncated \in BOOLEAN /\ g.edges \subseteq h.edges /\ g.nodes \subseteq h.nodes
  BY <1>2, <1>3, <1>4, <1>6, <1>7 DEF PartOfGraph
<1>9. ASSUME ~h.truncated
      PROVE  /\ ~g.truncated /\ Surrounds(h, g.frontier)
             /\ \A d \in deps : d[1] \in g.frontier \/ d[2] \in g.frontier => {d[1], d[2]} \subseteq h.frontier
  <2>1. ~g.truncated /\ new = fetched
    BY <1>6, <1>9
  <2>2. near \subseteq h.nodes /\ near \subseteq h.frontier
    BY <1>6, <2>1
  <2> QED
    BY <1>5, <1>6, <2>1, <2>2 DEF Surrounds
<1> QED
  BY <1>8, <1>9

\* A neighbourhood knows the edges at the task and at the tasks next to it.
LEMMA NeighbourhoodIsKnown ==
  ASSUME deps \subseteq Edges, NEW root \in GraphTasks, NEW g \in BuildTaskGraph(root)
  PROVE  /\ PartOfGraph(g)
         /\ ~g.truncated =>
              /\ Surrounds(g, {root})
              /\ \A d \in deps : d[1] = root \/ d[2] = root => Surrounds(g, {d[1], d[2]})
<1>1. PICK h \in Widen(OnlyRoot(root)) : g \in Widen(h)
  BY DEF BuildTaskGraph
<1>2. PartOfGraph(OnlyRoot(root)) /\ OnlyRoot(root).truncated \in BOOLEAN /\ OnlyRoot(root).frontier = {root}
  BY DEF OnlyRoot, PartOfGraph
<1>3. /\ PartOfGraph(h) /\ h.truncated \in BOOLEAN
      /\ ~h.truncated =>
           /\ Surrounds(h, {root})
           /\ \A d \in deps : d[1] = root \/ d[2] = root => {d[1], d[2]} \subseteq h.frontier
  <2>1. PICK first : first = OnlyRoot(root)
    OBVIOUS
  <2>2. /\ PartOfGraph(h) /\ h.truncated \in BOOLEAN
        /\ ~h.truncated =>
             /\ Surrounds(h, first.frontier)
             /\ \A d \in deps : d[1] \in first.frontier \/ d[2] \in first.frontier => {d[1], d[2]} \subseteq h.frontier
    BY <1>1, <1>2, <2>1, WidenedShape
  <2>3. first.frontier = {root}
    BY <1>2, <2>1
  <2> QED
    BY <2>2, <2>3
<1>4. /\ PartOfGraph(g) /\ h.edges \subseteq g.edges /\ h.nodes \subseteq g.nodes
      /\ ~g.truncated => ~h.truncated /\ Surrounds(g, h.frontier)
  BY <1>1, <1>3, WidenedShape
<1>5. ASSUME ~g.truncated
      PROVE  /\ Surrounds(g, {root})
             /\ \A d \in deps : d[1] = root \/ d[2] = root => Surrounds(g, {d[1], d[2]})
  <2>1. Surrounds(h, {root}) /\ Surrounds(g, h.frontier)
    BY <1>3, <1>4, <1>5
  <2>2. Surrounds(g, {root})
    BY <1>4, <2>1 DEF Surrounds
  <2>3. \A d \in deps : d[1] = root \/ d[2] = root => {d[1], d[2]} \subseteq h.frontier
    BY <1>3, <1>4, <1>5
  <2>4. \A tasks \in SUBSET h.frontier : Surrounds(g, tasks)
    BY <2>1 DEF Surrounds
  <2> QED
    BY <2>2, <2>3, <2>4
<1> QED
  BY <1>4, <1>5

LEMMA NeighboursTold ==
  ASSUME deps \subseteq Edges, NEW root \in GraphTasks, NEW g \in BuildTaskGraph(root)
  PROVE  NeighboursAreTold(g, root)
<1> SUFFICES ASSUME ~g.truncated, NEW complete \in SUBSET GraphTasks
             PROVE  /\ BlockersOf(g, root, complete) = Sources(deps, {root}) \ complete
                    /\ UnlockedOnCompletion(g, root, complete) =
                         {d \in Targets(deps, {root}) : Sources(deps, {d}) \ {root} \subseteq complete}
  BY DEF NeighboursAreTold
<1>1. /\ g.edges \subseteq deps /\ Surrounds(g, {root})
      /\ \A d \in deps : d[1] = root \/ d[2] = root => Surrounds(g, {d[1], d[2]})
  BY NeighbourhoodIsKnown DEF PartOfGraph
<1>2. \A n : Surrounds(g, {n}) => Sources(g.edges, {n}) \cap g.nodes = Sources(deps, {n})
  BY <1>1 DEF Surrounds, Sources
<1>3. Targets(g.edges, {root}) \cap g.nodes = Targets(deps, {root})
  BY <1>1 DEF Surrounds, Targets
<1>4. \A n \in Targets(deps, {root}) : Surrounds(g, {n})
  BY <1>1 DEF Surrounds, Targets
<1>5. BlockersOf(g, root, complete) = Sources(deps, {root}) \ complete
  BY <1>1, <1>2 DEF BlockersOf
<1>6. UnlockedOnCompletion(g, root, complete) =
        {d \in Targets(deps, {root}) : Sources(deps, {d}) \ {root} \subseteq complete}
  BY <1>2, <1>3, <1>4 DEF UnlockedOnCompletion
<1> QED
  BY <1>5, <1>6

LEMMA ShortCycleIsKnown ==
  ASSUME deps \subseteq Edges, NEW root \in GraphTasks, NEW g \in BuildTaskGraph(root), ~g.truncated,
         ShortCycle(root)
  PROVE  Circular(g)
<1>1. /\ Surrounds(g, {root})
      /\ \A d \in deps : d[1] = root \/ d[2] = root => Surrounds(g, {d[1], d[2]})
  BY NeighbourhoodIsKnown
<1>2. PICK a \in GraphTasks, b \in GraphTasks :
        /\ <<root, a>> \in deps /\ <<a, b>> \in deps
        /\ <<b, root>> \in deps \/ \E c \in GraphTasks : <<b, c>> \in deps /\ <<c, root>> \in deps
  BY DEF ShortCycle
<1>3. {<<root, a>>, <<a, b>>} \subseteq g.edges /\ {root, a, b} \subseteq g.nodes
  BY <1>1, <1>2 DEF Surrounds
<1>4. CASE <<b, root>> \in deps
  <2>1. <<b, root>> \in g.edges
    BY <1>1, <1>4 DEF Surrounds
  <2> DEFINE ring == {root, a, b}
  <2>2. \A n \in ring : Sources(g.edges, {n}) \cap ring # {}
    BY <1>3, <2>1 DEF Sources
  <2> QED
    BY <1>3, <2>2 DEF Circular
<1>5. ASSUME NEW c \in GraphTasks, <<b, c>> \in deps, <<c, root>> \in deps PROVE Circular(g)
  <2>1. {<<b, c>>, <<c, root>>} \subseteq g.edges /\ c \in g.nodes
    BY <1>1, <1>5 DEF Surrounds
  <2> DEFINE ring == {root, a, b, c}
  <2>2. \A n \in ring : Sources(g.edges, {n}) \cap ring # {}
    BY <1>3, <2>1 DEF Sources
  <2>3. ring \subseteq g.nodes /\ ring # {}
    BY <1>3, <2>1
  <2> HIDE DEF ring
  <2> QED
    BY <2>2, <2>3 DEF Circular
<1> QED
  BY <1>2, <1>4, <1>5

\* Among finite sets there is one with the fewest elements.
LEMMA SmallestIsOne ==
  ASSUME NEW F, F # {}, \A S \in F : IsFiniteSet(S)
  PROVE  \E S \in F : \A T \in F : Cardinality(S) <= Cardinality(T)
<1> DEFINE sizes == {Cardinality(S) : S \in F}
<1>1. \A S \in F : Cardinality(S) \in Nat
  BY FS_CardinalityType
<1>2. sizes \subseteq Nat /\ sizes # {}
  BY <1>1
<1>3. \E x \in sizes : \A y \in sizes : ~ (<<y, x>> \in OpToRel(<, Nat))
  BY <1>2, NatLessThanWellFounded, WFMin
<1>4. PICK x \in sizes : \A y \in sizes : ~ (<<y, x>> \in OpToRel(<, Nat))
  BY <1>3
<1>5. \A y \in sizes : ~ (y < x)
  BY <1>2, <1>4, Zenon DEF OpToRel
<1>6. \A y \in sizes : x <= y
  BY <1>2, <1>5
<1>7. PICK S \in F : x = Cardinality(S)
  OBVIOUS
<1> QED
  BY <1>6, <1>7

\* Where each task waits for another one of them, somebody waits for himself: in the
\* smallest such set nobody could be left out.
LEMMA RingIsCycle ==
  ASSUME deps \subseteq Edges, NEW ring \in SUBSET GraphTasks, ring # {},
         \A n \in ring : Sources(deps, {n}) \cap ring # {}
  PROVE  \E n \in GraphTasks : OnCycle(deps, n)
<1> DEFINE Ring(S) == S # {} /\ \A n \in S : Sources(deps, {n}) \cap S # {}
           rings == {S \in SUBSET ring : Ring(S)}
<1>1. \A S \in rings : IsFiniteSet(S)
  BY DependenciesAssumption, FS_Subset
<1>2. ring \in rings
  OBVIOUS
<1>3. PICK T \in rings : \A S \in rings : Cardinality(T) <= Cardinality(S)
  <2> HIDE DEF rings
  <2> QED BY <1>1, <1>2, SmallestIsOne
<1>4. \A S \in SUBSET T : Ring(S) => S = T
  <2>1. ASSUME NEW S \in SUBSET T, Ring(S) PROVE S = T
    <3>1. S \in rings /\ IsFiniteSet(T)
      BY <1>1, <1>3, <2>1
    <3>2. Cardinality(S) <= Cardinality(T) /\ Cardinality(T) <= Cardinality(S)
      BY <1>3, <3>1, FS_Subset
    <3>3. Cardinality(S) = Cardinality(T)
      BY <1>1, <1>3, <3>1, <3>2, FS_CardinalityType
    <3> QED
      BY <3>1, <3>3, FS_Subset
  <2> QED
    BY <2>1
<1>5. PICK n \in T : n \in GraphTasks
  BY <1>3
<1>6. SUFFICES ASSUME ~OnCycle(deps, n) PROVE FALSE
  BY <1>5
<1>7. PICK S \in SUBSET GraphTasks : Targets(deps, {n}) \subseteq S /\ Targets(deps, S) \subseteq S /\ n \notin S
  BY <1>5, <1>6 DEF OnCycle, Closure
<1>8. \A m \in T : Sources(deps, {m}) \cap T # {}
  BY <1>3
<1>9. T \cap S = {}
  <2>1. ASSUME NEW m \in T \ S PROVE Sources(deps, {m}) \cap (T \ S) # {}
    <3>1. PICK d \in deps : d[1] \in T /\ d[2] = m
      BY <1>8 DEF Sources
    <3>2. d[1] \notin S
      BY <1>7, <2>1, <3>1 DEF Targets
    <3> QED
      BY <3>1, <3>2 DEF Sources
  <2>2. Ring(T \ S)
    BY <1>5, <1>7, <2>1
  <2>3. T \ S = T
    <3> HIDE DEF Ring
    <3> QED BY <1>4, <2>2
  <2> QED
    BY <2>3
<1>10. \A d \in deps : d[1] = n => d[2] \notin T
  BY <1>7, <1>9 DEF Targets
<1>11. \A m \in T : Sources(deps, {m}) \cap (T \ {n}) # {}
  <2>1. ASSUME NEW m \in T PROVE Sources(deps, {m}) \cap (T \ {n}) # {}
    <3>1. PICK d \in deps : d[1] \in T /\ d[2] = m
      BY <1>8 DEF Sources
    <3> QED
      BY <1>10, <3>1 DEF Sources
  <2> QED
    BY <2>1
<1>12. Ring(T \ {n})
  BY <1>5, <1>11
<1> HIDE DEF Ring
<1>13. T \ {n} = T
  BY <1>4, <1>12
<1> QED
  BY <1>5, <1>13

LEMMA CyclesTold ==
  ASSUME deps \subseteq Edges, NEW root \in GraphTasks, NEW g \in BuildTaskGraph(root)
  PROVE  CyclesAreTold(g, root)
<1>1. ASSUME Circular(g) PROVE \E n \in GraphTasks : OnCycle(deps, n)
  <2>1. PICK ring \in SUBSET g.nodes :
          ring # {} /\ \A n \in ring : Sources(g.edges, {n}) \cap ring # {}
    BY <1>1 DEF Circular
  <2>2. g.edges \subseteq deps /\ ring \subseteq GraphTasks /\ ring # {}
    BY <2>1, NeighbourhoodIsKnown DEF PartOfGraph
  <2>3. \A n \in ring : Sources(deps, {n}) \cap ring # {}
    BY <2>1, <2>2 DEF Sources
  <2> QED
    BY <2>2, <2>3, RingIsCycle
<1> QED
  BY <1>1, ShortCycleIsKnown DEF CyclesAreTold

-----------------------------------------------------------------------------
(* The recursive functions of the graph: Kahn's algorithm and the chains.  That a  *)
(* function with such an equation exists is shown with one in hand, and what it   *)
(* gives on the smallest set of tasks where it would be wrong.                    *)

\* A set that loses an element is smaller.
LEMMA SmallerWithout ==
  ASSUME NEW S, IsFiniteSet(S), NEW T \in SUBSET S, T # S
  PROVE  IsFiniteSet(T) /\ Cardinality(T) < Cardinality(S)
<1>1. IsFiniteSet(T) /\ Cardinality(T) <= Cardinality(S)
  BY FS_Subset
<1>2. Cardinality(T) # Cardinality(S)
  BY FS_Subset
<1>3. Cardinality(T) \in Nat /\ Cardinality(S) \in Nat
  BY <1>1, FS_CardinalityType
<1> QED
  BY <1>1, <1>2, <1>3

\* The sets of tasks each of which waits for one of them.
Rings(E, nodes) == {ring \in SUBSET nodes : \A n \in ring : Sources(E, {n}) \cap ring # {}}
Unwaiting(E, nodes) == {n \in nodes : Sources(E, {n}) \cap nodes = {}}
IsPeel(peel, E) ==
  peel = [nodes \in SUBSET GraphTasks |->
            IF Unwaiting(E, nodes) = {} THEN nodes ELSE peel[nodes \ Unwaiting(E, nodes)]]

\* Removing the tasks that wait for nobody breaks no ring.
LEMMA RingsStay ==
  ASSUME NEW E, NEW nodes
  PROVE  /\ Rings(E, nodes \ Unwaiting(E, nodes)) = Rings(E, nodes)
         /\ Unwaiting(E, nodes) = {} => nodes \in Rings(E, nodes)
<1>1. ASSUME NEW ring \in Rings(E, nodes) PROVE ring \subseteq nodes \ Unwaiting(E, nodes)
  BY <1>1 DEF Rings, Unwaiting
<1> QED
  BY <1>1 DEF Rings, Unwaiting

LEMMA PeelExists == ASSUME NEW E PROVE \E peel : IsPeel(peel, E)
<1> DEFINE kept == [nodes \in SUBSET GraphTasks |-> UNION Rings(E, nodes)]
<1>1. ASSUME NEW nodes \in SUBSET GraphTasks
      PROVE  kept[nodes] =
               IF Unwaiting(E, nodes) = {} THEN nodes ELSE kept[nodes \ Unwaiting(E, nodes)]
  <2>1. kept[nodes] = UNION Rings(E, nodes)
        /\ kept[nodes \ Unwaiting(E, nodes)] = UNION Rings(E, nodes \ Unwaiting(E, nodes))
    OBVIOUS
  <2>2. CASE Unwaiting(E, nodes) = {}
    <3>1. nodes \in Rings(E, nodes) /\ \A ring \in Rings(E, nodes) : ring \subseteq nodes
      BY <2>2, RingsStay DEF Rings
    <3>2. UNION Rings(E, nodes) = nodes
      BY <3>1
    <3> QED
      BY <2>1, <2>2, <3>2
  <2>3. CASE Unwaiting(E, nodes) # {}
    BY <2>1, <2>3, RingsStay
  <2> QED
    BY <2>2, <2>3
<1>2. kept = [nodes \in SUBSET GraphTasks |-> kept[nodes]]
  OBVIOUS
<1> HIDE DEF kept
<1>3. IsPeel(kept, E)
  BY <1>1, <1>2 DEF IsPeel
<1> QED
  BY <1>3

\* What is left is not empty exactly where there is a ring.
LEMMA PeelFindsRings ==
  ASSUME NEW E, NEW peel, IsPeel(peel, E), NEW nodes \in SUBSET GraphTasks
  PROVE  peel[nodes] # {} <=> \E ring \in Rings(E, nodes) : ring # {}
<1> DEFINE Finds(N) == peel[N] # {} <=> \E ring \in Rings(E, N) : ring # {}
           wrong == {N \in SUBSET GraphTasks : ~Finds(N)}
<1>1. \A N \in SUBSET GraphTasks :
        peel[N] = IF Unwaiting(E, N) = {} THEN N ELSE peel[N \ Unwaiting(E, N)]
  BY DEF IsPeel
<1>2. \A N \in SUBSET GraphTasks : IsFiniteSet(N)
  BY DependenciesAssumption, FS_Subset
<1>3. SUFFICES ASSUME wrong # {} PROVE FALSE
  OBVIOUS
<1>4. PICK N \in wrong : \A M \in wrong : Cardinality(N) <= Cardinality(M)
  <2>1. \A M \in wrong : IsFiniteSet(M)
    BY <1>2
  <2> HIDE DEF wrong
  <2> QED BY <1>3, <2>1, SmallestIsOne
<1>5. N \in SUBSET GraphTasks /\ ~Finds(N) /\ IsFiniteSet(N)
  BY <1>2
<1>6. CASE Unwaiting(E, N) = {}
  <2>1. N \in Rings(E, N) /\ \A ring \in Rings(E, N) : ring \subseteq N
    BY <1>6, RingsStay DEF Rings
  <2>2. peel[N] = N
    BY <1>1, <1>5, <1>6
  <2> QED
    BY <1>5, <2>1, <2>2
<1>7. CASE Unwaiting(E, N) # {}
  <2> DEFINE M == N \ Unwaiting(E, N)
  <2>1. M \in SUBSET N /\ M # N
    BY <1>7 DEF Unwaiting
  <2>2. Cardinality(M) < Cardinality(N) /\ Cardinality(M) \in Nat /\ Cardinality(N) \in Nat
    <3>1. IsFiniteSet(M) /\ Cardinality(M) < Cardinality(N)
      BY <1>5, <2>1, SmallerWithout
    <3> QED BY <1>5, <3>1, FS_CardinalityType
  <2>3. M \in SUBSET GraphTasks /\ ~(Cardinality(N) <= Cardinality(M))
    BY <1>5, <2>1, <2>2
  <2>4. Finds(M)
    <3> HIDE DEF Finds, M
    <3> QED BY <1>4, <2>3
  <2>5. peel[N] = peel[M] /\ Rings(E, N) = Rings(E, M)
    BY <1>1, <1>5, <1>7, RingsStay
  <2> QED
    BY <1>5, <2>4, <2>5
<1> QED
  BY <1>6, <1>7

\* hasCycle says exactly whether there are tasks that wait for one another.
LEMMA HasCycleFindsRings ==
  ASSUME NEW g, g.nodes \subseteq GraphTasks
  PROVE  HasCycle(g) <=> Circular(g)
<1> DEFINE peel == CHOOSE peel : peel = [nodes \in SUBSET GraphTasks |->
             LET first == {n \in nodes : Sources(g.edges, {n}) \cap nodes = {}}
             IN IF first = {} THEN nodes ELSE peel[nodes \ first]]
           Equation(f) == f = [nodes \in SUBSET GraphTasks |->
             LET first == {n \in nodes : Sources(g.edges, {n}) \cap nodes = {}}
             IN IF first = {} THEN nodes ELSE f[nodes \ first]]
<1>1. HasCycle(g) <=> peel[g.nodes] # {}
  BY DEF HasCycle
<1>2. \A f : Equation(f) <=> IsPeel(f, g.edges)
  BY DEF IsPeel, Unwaiting
<1>3. peel = CHOOSE f : Equation(f)
  OBVIOUS
<1> HIDE DEF peel, Equation
<1>4. \E f : Equation(f)
  BY <1>2, PeelExists
<1>5. Equation(peel)
  BY <1>3, <1>4
<1>6. peel[g.nodes] # {} <=> \E ring \in Rings(g.edges, g.nodes) : ring # {}
  BY <1>2, <1>5, PeelFindsRings
<1>7. Circular(g) <=> \E ring \in Rings(g.edges, g.nodes) : ring # {}
  BY DEF Circular, Rings
<1> QED
  BY <1>1, <1>6, <1>7

-----------------------------------------------------------------------------
(* Chains: before[n] are the tasks that a chain may come from to n. *)

IsChain(chain, before) ==
  chain = [n \in GraphTasks |-> 1 + Max({0} \cup {chain[p] : p \in before[n]})]

\* Every set of tasks has one that no other of the set comes before.
WellFounded(before) ==
  \A tasks \in SUBSET GraphTasks : tasks # {} => \E n \in tasks : before[n] \cap tasks = {}

\* The longest of finitely many chains is one of them, or there is none.
LEMMA LongestOfFinite ==
  ASSUME NEW P, IsFiniteSet(P), NEW f, \A p \in P : f[p] \in Nat,
         NEW longest, longest = Max({0} \cup {f[p] : p \in P})
  PROVE  /\ longest \in Nat /\ \A p \in P : f[p] <= longest
         /\ longest # 0 => \E p \in P : f[p] = longest
<1> DEFINE values == {0} \cup {f[p] : p \in P}
           Above(p) == {q \in P : f[q] > f[p]}
           aboves == {Above(p) : p \in P}
<1>1. values \subseteq Nat
  OBVIOUS
<1>2. \E x \in values : \A y \in values : x >= y
  <2>1. CASE P = {}
    BY <2>1
  <2>2. CASE P # {}
    <3>1. \A S \in aboves : IsFiniteSet(S)
      BY FS_Subset
    <3>2. aboves # {}
      BY <2>2
    <3>3. PICK S \in aboves : \A T \in aboves : Cardinality(S) <= Cardinality(T)
      <4> HIDE DEF aboves
      <4> QED BY <3>1, <3>2, SmallestIsOne
    <3>4. PICK p \in P : S = Above(p)
      OBVIOUS
    <3>5. ASSUME NEW q \in P, f[q] > f[p] PROVE FALSE
      <4>1. Above(q) \subseteq Above(p) /\ q \in Above(p) /\ q \notin Above(q)
        BY <3>5
      <4>2. IsFiniteSet(Above(p)) /\ IsFiniteSet(Above(q))
        BY FS_Subset
      <4>3. Cardinality(Above(q)) < Cardinality(Above(p))
        <5> HIDE DEF Above
        <5>1. Above(q) \in SUBSET Above(p) /\ Above(q) # Above(p)
          BY <4>1
        <5> QED BY <4>2, <5>1, SmallerWithout
      <4>4. Cardinality(Above(p)) <= Cardinality(Above(q))
        <5>1. Above(q) \in aboves
          OBVIOUS
        <5> HIDE DEF Above, aboves
        <5> QED BY <3>3, <3>4, <5>1
      <4>5. Cardinality(Above(p)) \in Nat /\ Cardinality(Above(q)) \in Nat
        <5> HIDE DEF Above
        <5> QED BY <4>2, FS_CardinalityType
      <4> HIDE DEF Above
      <4> QED BY <4>3, <4>4, <4>5
    <3>6. \A q \in P : f[p] >= f[q]
      BY <3>5
    <3> QED
      BY <3>6
  <2> QED
    BY <2>1, <2>2
<1>3. Max(values) \in values /\ \A y \in values : Max(values) >= y
  <2> HIDE DEF values
  <2> QED BY <1>2 DEF Max
<1>4. longest = Max(values)
  OBVIOUS
<1>5. longest \in values /\ \A y \in values : longest >= y
  BY <1>3, <1>4
<1>6. longest \in Nat /\ (longest # 0 => \E p \in P : f[p] = longest)
  BY <1>5
<1>7. \A p \in P : f[p] \in values
  OBVIOUS
<1>8. \A p \in P : f[p] <= longest
  <2> HIDE DEF values
  <2> QED BY <1>1, <1>5, <1>7
<1> QED
  BY <1>6, <1>8

LEMMA ChainExists ==
  ASSUME NEW before \in [GraphTasks -> SUBSET GraphTasks], WellFounded(before)
  PROVE  \E chain \in [GraphTasks -> Nat] : IsChain(chain, before)
<1> DEFINE Step(f, n) == 1 + Max({0} \cup {f[p] : p \in before[n]})
           Counted(T, f) ==
             /\ f \in [GraphTasks \ T -> Nat]
             /\ \A n \in GraphTasks \ T : before[n] \cap T = {} /\ f[n] = Step(f, n)
           open == {T \in SUBSET GraphTasks : \E f : Counted(T, f)}
<1>1. \A T \in open : IsFiniteSet(T)
  BY DependenciesAssumption, FS_Subset
<1>2. open # {}
  <2>1. Counted(GraphTasks, [n \in {} |-> 0])
    OBVIOUS
  <2> HIDE DEF Counted
  <2> QED BY <2>1
<1>3. PICK T \in open : \A U \in open : Cardinality(T) <= Cardinality(U)
  <2> HIDE DEF open
  <2> QED BY <1>1, <1>2, SmallestIsOne
<1>4. PICK f : Counted(T, f)
  OBVIOUS
<1>5. T \in SUBSET GraphTasks
  OBVIOUS
<1>6. ASSUME NEW n \in T, before[n] \cap T = {} PROVE FALSE
  <2> DEFINE U == T \ {n}
             longer == [m \in GraphTasks \ U |-> IF m = n THEN Step(f, n) ELSE f[m]]
  <2>1. before[n] \subseteq GraphTasks \ T
    BY <1>5, <1>6
  <2>2. Step(f, n) \in Nat
    <3>1. IsFiniteSet(before[n]) /\ \A p \in before[n] : f[p] \in Nat
      BY <1>4, <1>5, <2>1, DependenciesAssumption, FS_Subset
    <3>2. Max({0} \cup {f[p] : p \in before[n]}) \in Nat
      BY <3>1, LongestOfFinite
    <3> QED BY <3>2
  <2>3. longer \in [GraphTasks \ U -> Nat]
    <3> HIDE DEF Step
    <3> QED BY <1>4, <2>2
  <2>4. ASSUME NEW m \in GraphTasks \ U PROVE before[m] \cap U = {} /\ longer[m] = Step(longer, m)
    <3>1. before[m] \subseteq GraphTasks \ T
      BY <1>4, <1>5, <2>1, <2>4
    <3>2. \A p \in before[m] : longer[p] = f[p]
      BY <3>1, <1>6
    <3>3. {longer[p] : p \in before[m]} = {f[p] : p \in before[m]}
      <4> HIDE DEF longer
      <4> QED BY <3>2
    <3>4. Step(longer, m) = Step(f, m)
      <4> HIDE DEF longer
      <4> QED BY <3>3
    <3>5. longer[m] = Step(f, m)
      <4>1. CASE m = n
        <5> HIDE DEF Step
        <5> QED BY <4>1, <1>5
      <4>2. CASE m # n
        <5>1. f[m] = Step(f, m)
          BY <1>4, <2>4, <4>2
        <5> HIDE DEF Step
        <5> QED BY <4>2, <5>1, <2>4
      <4> QED BY <4>1, <4>2
    <3> HIDE DEF Step, longer
    <3> QED BY <3>1, <3>4, <3>5
  <2>5. U \in open
    <3>1. Counted(U, longer)
      <4> HIDE DEF Step, longer, U
      <4> QED BY <2>3, <2>4
    <3> HIDE DEF Counted
    <3> QED BY <1>5, <3>1
  <2>6. Cardinality(U) < Cardinality(T) /\ Cardinality(U) \in Nat /\ Cardinality(T) \in Nat
    <3>1. IsFiniteSet(T) /\ U \in SUBSET T /\ U # T
      BY <1>1
    <3> HIDE DEF U
    <3>2. IsFiniteSet(U) /\ Cardinality(U) < Cardinality(T)
      BY <3>1, SmallerWithout
    <3> QED BY <3>1, <3>2, FS_CardinalityType
  <2>7. Cardinality(T) <= Cardinality(U)
    <3> HIDE DEF open, U
    <3> QED BY <1>3, <2>5
  <2> HIDE DEF U
  <2> QED BY <2>6, <2>7
<1>7. T = {}
  <2>1. \A tasks \in SUBSET GraphTasks : tasks # {} => \E n \in tasks : before[n] \cap tasks = {}
    BY DEF WellFounded
  <2> QED BY <1>5, <1>6, <2>1
<1>8. f \in [GraphTasks -> Nat] /\ \A n \in GraphTasks : f[n] = Step(f, n)
  <2> HIDE DEF Step
  <2> QED BY <1>4, <1>7
<1>9. f = [n \in GraphTasks |-> Step(f, n)]
  <2> HIDE DEF Step
  <2> QED BY <1>8
<1> QED
  BY <1>8, <1>9 DEF IsChain

\* What any such function is: numbers from 1, one more than those before.
LEMMA ChainShape ==
  ASSUME NEW before \in [GraphTasks -> SUBSET GraphTasks], WellFounded(before),
         NEW chain, IsChain(chain, before)
  PROVE  \A n \in GraphTasks :
           /\ chain[n] \in Nat \ {0}
           /\ \A p \in before[n] : chain[p] < chain[n]
           /\ chain[n] # 1 => \E p \in before[n] : chain[n] = 1 + chain[p]
<1> DEFINE Longest(n) == Max({0} \cup {chain[p] : p \in before[n]})
           wrong == {n \in GraphTasks : chain[n] \notin Nat}
<1>1. \A n \in GraphTasks : chain[n] = 1 + Longest(n)
  BY DEF IsChain
<1>2. ASSUME NEW n \in GraphTasks, \A p \in before[n] : chain[p] \in Nat
      PROVE  /\ Longest(n) \in Nat /\ \A p \in before[n] : chain[p] <= Longest(n)
             /\ Longest(n) # 0 => \E p \in before[n] : chain[p] = Longest(n)
  <2>1. IsFiniteSet(before[n])
    BY DependenciesAssumption, FS_Subset
  <2>2. PICK P, longest : P = before[n] /\ longest = Longest(n)
    OBVIOUS
  <2>3. IsFiniteSet(P) /\ (\A p \in P : chain[p] \in Nat) /\ longest = Max({0} \cup {chain[p] : p \in P})
    BY <1>2, <2>1, <2>2
  <2>4. /\ longest \in Nat /\ \A p \in P : chain[p] <= longest
        /\ longest # 0 => \E p \in P : chain[p] = longest
    BY <2>3, LongestOfFinite
  <2> HIDE DEF Longest
  <2> QED BY <2>2, <2>4
<1> HIDE DEF Longest
<1>3. wrong = {}
  <2>1. SUFFICES ASSUME wrong # {} PROVE FALSE
    OBVIOUS
  <2>2. PICK n \in wrong : before[n] \cap wrong = {}
    BY <2>1 DEF WellFounded
  <2>3. \A p \in before[n] : chain[p] \in Nat
    BY <2>2
  <2>4. Longest(n) \in Nat
    BY <1>2, <2>3
  <2> QED
    BY <1>1, <2>4
<1>4. \A n \in GraphTasks : \A p \in before[n] : chain[p] \in Nat
  BY <1>3
<1>5. \A n \in GraphTasks :
        /\ Longest(n) \in Nat /\ \A p \in before[n] : chain[p] <= Longest(n)
        /\ Longest(n) # 0 => \E p \in before[n] : chain[p] = Longest(n)
  BY <1>2, <1>4
<1>6. ASSUME NEW n \in GraphTasks
      PROVE  /\ chain[n] \in Nat \ {0} /\ \A p \in before[n] : chain[p] < chain[n]
             /\ chain[n] # 1 => \E p \in before[n] : chain[n] = 1 + chain[p]
  <2>1. chain[n] = 1 + Longest(n) /\ Longest(n) \in Nat
    BY <1>1, <1>5
  <2>2. \A p \in before[n] : chain[p] \in Nat /\ chain[p] <= Longest(n)
    BY <1>4, <1>5
  <2>3. Longest(n) # 0 => \E p \in before[n] : chain[p] = Longest(n)
    BY <1>5
  <2> QED
    BY <2>1, <2>2, <2>3
<1> QED
  BY <1>6

\* Where fewer tasks come before, chains are no longer.
LEMMA FewerAreNoLonger ==
  ASSUME NEW few \in [GraphTasks -> SUBSET GraphTasks], WellFounded(few),
         NEW many \in [GraphTasks -> SUBSET GraphTasks], WellFounded(many),
         \A n \in GraphTasks : few[n] \subseteq many[n],
         NEW short, IsChain(short, few), NEW long, IsChain(long, many)
  PROVE  \A n \in GraphTasks : short[n] <= long[n]
<1> DEFINE wrong == {n \in GraphTasks : ~(short[n] <= long[n])}
<1>1. \A n \in GraphTasks : /\ short[n] \in Nat \ {0}
                            /\ short[n] # 1 => \E p \in few[n] : short[n] = 1 + short[p]
  BY ChainShape
<1>2. \A n \in GraphTasks : long[n] \in Nat \ {0} /\ \A p \in many[n] : long[p] < long[n]
  BY ChainShape
<1>3. SUFFICES ASSUME wrong # {} PROVE FALSE
  OBVIOUS
<1>4. PICK n \in wrong : many[n] \cap wrong = {}
  BY <1>3 DEF WellFounded
<1>5. short[n] # 1
  BY <1>1, <1>2
<1>6. PICK p \in few[n] : short[n] = 1 + short[p]
  BY <1>1, <1>5
<1>7. p \in many[n] /\ p \in GraphTasks
  OBVIOUS
<1>8. short[p] <= long[p]
  BY <1>4, <1>7
<1> QED
  BY <1>1, <1>2, <1>6, <1>7, <1>8

\* The graph without cycles is well-founded, and so is any part of it.
LEMMA NoCycleNoRing ==
  ASSUME deps \subseteq Edges, \A n \in GraphTasks : ~OnCycle(deps, n),
         NEW before \in [GraphTasks -> SUBSET GraphTasks],
         \A n \in GraphTasks : before[n] \subseteq Sources(deps, {n})
  PROVE  WellFounded(before)
<1> SUFFICES ASSUME NEW tasks \in SUBSET GraphTasks, tasks # {},
                    \A n \in tasks : before[n] \cap tasks # {}
             PROVE  FALSE
  BY DEF WellFounded
<1>1. \A n \in tasks : Sources(deps, {n}) \cap tasks # {}
  OBVIOUS
<1> QED
  BY <1>1, RingIsCycle

\* The two chains that the prompt and the graph have are such functions.
ToldBefore(g, complete) == [n \in GraphTasks |-> (Sources(g.edges, {n}) \cap g.nodes) \ complete]
RealBefore(complete) == [n \in GraphTasks |-> Sources(deps, {n}) \ complete]

LEMMA ToldIsChain ==
  ASSUME deps \subseteq Edges, \A n \in GraphTasks : ~OnCycle(deps, n),
         NEW g, PartOfGraph(g), NEW complete
  PROVE  /\ ToldBefore(g, complete) \in [GraphTasks -> SUBSET GraphTasks] /\ WellFounded(ToldBefore(g, complete))
         /\ \E chain : IsChain(chain, ToldBefore(g, complete)) /\ \A n \in GraphTasks : CriticalChain(g, n, complete) = chain[n]
<1> DEFINE before == ToldBefore(g, complete)
<1>1. before \in [GraphTasks -> SUBSET GraphTasks]
  BY DEF PartOfGraph, ToldBefore
<1>2. \A n \in GraphTasks : before[n] \subseteq Sources(deps, {n})
  BY DEF PartOfGraph, Sources, ToldBefore
<1>3. WellFounded(before)
  BY <1>1, <1>2, NoCycleNoRing
<1> DEFINE told == CHOOSE chain : chain = [n \in GraphTasks |->
             1 + Max({0} \cup {chain[p] : p \in (Sources(g.edges, {n}) \cap g.nodes) \ complete})]
           Equation(f) == f = [n \in GraphTasks |->
             1 + Max({0} \cup {f[p] : p \in (Sources(g.edges, {n}) \cap g.nodes) \ complete})]
<1>4. \A n : CriticalChain(g, n, complete) = told[n]
  BY DEF CriticalChain
<1>5. \A f : Equation(f) <=> IsChain(f, before)
  BY DEF IsChain, ToldBefore
<1>6. told = CHOOSE f : Equation(f)
  OBVIOUS
<1> HIDE DEF told, Equation
<1>7. \E f : Equation(f)
  BY <1>1, <1>3, <1>5, ChainExists
<1>8. Equation(told)
  BY <1>6, <1>7
<1> QED
  BY <1>1, <1>3, <1>4, <1>5, <1>8

LEMMA RealIsChain ==
  ASSUME deps \subseteq Edges, \A n \in GraphTasks : ~OnCycle(deps, n), NEW complete
  PROVE  /\ RealBefore(complete) \in [GraphTasks -> SUBSET GraphTasks] /\ WellFounded(RealBefore(complete))
         /\ \E chain : IsChain(chain, RealBefore(complete)) /\ \A n \in GraphTasks : LongestChain(n, complete) = chain[n]
<1> DEFINE before == RealBefore(complete)
<1>1. before \in [GraphTasks -> SUBSET GraphTasks]
  BY DEF Sources, Edges, RealBefore
<1>2. \A n \in GraphTasks : before[n] \subseteq Sources(deps, {n})
  BY DEF RealBefore
<1>3. WellFounded(before)
  BY <1>1, <1>2, NoCycleNoRing
<1> DEFINE real == CHOOSE chain : chain = [n \in GraphTasks |->
             1 + Max({0} \cup {chain[p] : p \in Sources(deps, {n}) \ complete})]
           Equation(f) == f = [n \in GraphTasks |->
             1 + Max({0} \cup {f[p] : p \in Sources(deps, {n}) \ complete})]
<1>4. \A n : LongestChain(n, complete) = real[n]
  BY DEF LongestChain
<1>5. \A f : Equation(f) <=> IsChain(f, before)
  BY DEF IsChain, RealBefore
<1>6. real = CHOOSE f : Equation(f)
  OBVIOUS
<1> HIDE DEF real, Equation
<1>7. \E f : Equation(f)
  BY <1>1, <1>3, <1>5, ChainExists
<1>8. Equation(real)
  BY <1>6, <1>7
<1> QED
  BY <1>1, <1>3, <1>4, <1>5, <1>8

\* Two levels of the graph are enough to tell chains of one, of two, and of more.
LEMMA ChainsTold ==
  ASSUME deps \subseteq Edges, NEW root \in GraphTasks, NEW g \in BuildTaskGraph(root)
  PROVE  ChainsAreTold(g, root)
<1> SUFFICES ASSUME ~g.truncated, \A n \in GraphTasks : ~OnCycle(deps, n),
                    NEW complete \in SUBSET GraphTasks
             PROVE  /\ CriticalChain(g, root, complete) <= LongestChain(root, complete)
                    /\ CriticalChain(g, root, complete) >= Min({3, LongestChain(root, complete)})
  BY DEF ChainsAreTold
<1>1. /\ PartOfGraph(g) /\ Surrounds(g, {root})
      /\ \A d \in deps : d[1] = root \/ d[2] = root => Surrounds(g, {d[1], d[2]})
  BY NeighbourhoodIsKnown
<1> DEFINE few == ToldBefore(g, complete)
           many == RealBefore(complete)
<1>2. /\ \A n \in GraphTasks : few[n] = (Sources(g.edges, {n}) \cap g.nodes) \ complete
      /\ \A n \in GraphTasks : many[n] = Sources(deps, {n}) \ complete
  BY DEF ToldBefore, RealBefore
<1>3. /\ few \in [GraphTasks -> SUBSET GraphTasks] /\ WellFounded(few)
      /\ \E told : IsChain(told, few) /\ \A n \in GraphTasks : CriticalChain(g, n, complete) = told[n]
  BY <1>1, ToldIsChain
<1>4. /\ many \in [GraphTasks -> SUBSET GraphTasks] /\ WellFounded(many)
      /\ \E real : IsChain(real, many) /\ \A n \in GraphTasks : LongestChain(n, complete) = real[n]
  BY RealIsChain
<1> HIDE DEF few, many
<1>5. PICK told, real :
        /\ IsChain(told, few) /\ \A n \in GraphTasks : CriticalChain(g, n, complete) = told[n]
        /\ IsChain(real, many) /\ \A n \in GraphTasks : LongestChain(n, complete) = real[n]
  BY <1>3, <1>4
<1>6. \A n \in GraphTasks : few[n] \subseteq many[n]
  BY <1>1, <1>2 DEF PartOfGraph, Sources
<1>7. \A n \in GraphTasks : Surrounds(g, {n}) => few[n] = many[n]
  <2>1. \A n : Surrounds(g, {n}) => Sources(g.edges, {n}) \cap g.nodes = Sources(deps, {n})
    BY <1>1 DEF Surrounds, Sources, PartOfGraph
  <2> QED
    BY <1>2, <2>1
<1>8. \A p \in many[root] : p \in GraphTasks /\ Surrounds(g, {p})
  BY <1>1, <1>2, <1>4 DEF Surrounds, Sources
<1>9. few[root] = many[root] /\ \A p \in many[root] : p \in GraphTasks /\ few[p] = many[p]
  BY <1>1, <1>7, <1>8
<1>10. \A n \in GraphTasks : told[n] <= real[n]
  BY <1>3, <1>4, <1>5, <1>6, FewerAreNoLonger
<1>11. \A n \in GraphTasks : /\ told[n] \in Nat \ {0}
                             /\ \A p \in few[n] : told[p] < told[n]
  BY <1>3, <1>5, ChainShape
<1>12. \A n \in GraphTasks : /\ real[n] \in Nat \ {0}
                             /\ real[n] # 1 => \E p \in many[n] : real[n] = 1 + real[p]
  BY <1>4, <1>5, ChainShape
<1>13. told[root] >= 3 \/ told[root] >= real[root]
  <2>1. CASE real[root] = 1
    BY <1>11, <2>1
  <2>2. CASE real[root] # 1
    <3>1. PICK p \in many[root] : real[root] = 1 + real[p]
      BY <1>12, <2>2
    <3>2. p \in GraphTasks /\ p \in few[root] /\ few[p] = many[p]
      BY <1>9
    <3>3. told[p] < told[root] /\ told[p] \in Nat \ {0} /\ told[root] \in Nat \ {0} /\ real[p] \in Nat \ {0}
      BY <1>11, <1>12, <3>2
    <3>4. CASE real[p] = 1
      BY <3>1, <3>3, <3>4
    <3>5. CASE real[p] # 1
      <4>1. PICK q \in many[p] : real[p] = 1 + real[q]
        BY <1>12, <3>2, <3>5
      <4>2. q \in few[p] /\ q \in GraphTasks
        BY <1>4, <3>2, <4>1
      <4>3. told[q] < told[p] /\ told[q] \in Nat \ {0}
        BY <1>11, <3>2, <4>2
      <4> QED
        BY <3>3, <4>3
    <3> QED
      BY <3>4, <3>5
  <2> QED
    BY <2>1, <2>2
<1>14. \A k \in Nat : Min({3, k}) \in {3, k} /\ Min({3, k}) <= 3 /\ Min({3, k}) <= k
  BY DEF Min
<1>15. told[root] \in Nat /\ real[root] \in Nat
  BY <1>11, <1>12
<1>16. told[root] >= Min({3, real[root]})
  BY <1>13, <1>14, <1>15
<1> QED
  BY <1>5, <1>10, <1>16

\* The whole of it, for graphs of any size, whatever the cap and whatever the limit of the
\* walk: cycles come from races and from walks that gave up, of which there are none in a
\* workspace of fewer tasks than levels and two, and what a prompt is told of its task is
\* so (dependencies.ts).
THEOREM GraphStaysTrue == DependenciesSpec => []GraphIsTrue
<1>1. DependenciesInit => GraphInv
  BY GraphInvInit
<1>2. GraphInv /\ [DependenciesNext]_dependencyVars => GraphInv'
  BY GraphInvNext
<1>3. ASSUME GraphInv, CyclesHaveACause PROVE GraphIsTrue
  <2>1. deps \subseteq Edges
    BY <1>3 DEF GraphInv, DependenciesTypeOK
  <2>2. ASSUME NEW root \in GraphTasks, NEW g \in BuildTaskGraph(root)
        PROVE  /\ HasCycle(g) <=> Circular(g)
               /\ CyclesAreTold(g, root) /\ NeighboursAreTold(g, root) /\ ChainsAreTold(g, root)
    <3>1. g.nodes \subseteq GraphTasks
      BY <2>1, NeighbourhoodIsKnown DEF PartOfGraph
    <3> QED
      BY <2>1, <3>1, HasCycleFindsRings, CyclesTold, NeighboursTold, ChainsTold
  <2> QED
    BY <1>3, <2>2 DEF GraphIsTrue, PromptsAreTold
<1> QED
  BY <1>1, <1>2, <1>3, CyclesAlwaysHaveACause, PTL DEF DependenciesSpec

-----------------------------------------------------------------------------
(* The types of the records: what the invariants above leave open, mostly bounds. *)

DraftBounds ==
  /\ Len(drafts) <= MaxDrafts /\ extraction \in {"none", "succeeded", "empty", "failed"}
  /\ \A d \in DOMAIN drafts :
       drafts[d].claim \in 1..(MaxWordings + 1) /\ drafts[d].approved \in 0..(MaxWordings + 1)
  /\ \A p \in Reviewers : reviewer[p].op = "none" => reviewer[p] = NoReview
  /\ reviews \in 0..MaxReviewRequests
DraftTypes == ProposalsInv /\ DraftBounds

LEMMA DraftTypesAreTypes == DraftTypes => ProposalsTypeOK
<1> SUFFICES ASSUME DraftTypes PROVE ProposalsTypeOK
  OBVIOUS
<1>1. \A d \in DOMAIN drafts :
        drafts[d] \in [status : {"draft", "active", "archived"},
                       review : {"none", "pending", "promoted", "rejected", "split"},
                       claim : 1..(MaxWordings + 1), approved : 0..(MaxWordings + 1),
                       suggested : BOOLEAN, restricted : BOOLEAN]
  <2>1. \A d \in DOMAIN drafts : drafts[d] \in DraftRow
    BY DEF DraftTypes, ProposalsInv, ProposalsTyped
  <2> QED
    BY <2>1 DEF DraftTypes, DraftBounds, DraftRow
<1>2. ASSUME NEW p \in Reviewers
      PROVE  reviewer[p] \in [op : {"none", "promote", "revise", "split", "reject", "activate", "archive"},
                              row : 0..Len(drafts), active : BOOLEAN, restricted : BOOLEAN]
  <2>1. reviewer[p] \in ReviewRequest /\ Len(drafts) \in Nat /\ DOMAIN drafts = 1..Len(drafts)
    BY DEF DraftTypes, ProposalsInv, ProposalsTyped
  <2>2. reviewer[p].row \in 0..Len(drafts)
    BY <2>1 DEF DraftTypes, DraftBounds, ProposalsInv, HasRead, NoReview
  <2> QED
    BY <2>1, <2>2 DEF ReviewRequest
<1> QED
  BY <1>1, <1>2 DEF ProposalsTypeOK, DraftTypes, DraftBounds, ProposalsInv, ProposalsTyped

LEMMA DraftTypesInit == ProposalsInit => DraftTypes
<1>1. ProposalsInit => DraftBounds
  BY ProposalAssumption DEF ProposalsInit, DraftBounds
<1> QED
  BY <1>1, ProposalsInvInit DEF DraftTypes

\* A request that writes leaves nothing behind.
LEMMA WritesBounds ==
  ASSUME DraftTypes, NEW p \in Reviewers, NEW op, Writes(p, op)
  PROVE  /\ extraction' = extraction /\ reviews' = reviews
         /\ \A q \in Reviewers : reviewer'[q].op = "none" => reviewer'[q] = NoReview
  BY DEF Writes, DraftTypes, DraftBounds, ProposalsInv, ProposalsTyped

\* Writing one row of the drafts: the wording may be the next one, the approved one the present one.
OneRowWritten(d, row) ==
  /\ drafts' = [drafts EXCEPT ![d] = row]
  /\ row.claim \in {drafts[d].claim, drafts[d].claim + 1} /\ row.claim <= MaxWordings + 1
  /\ row.approved \in {drafts[d].approved, drafts[d].claim}

LEMMA OneRowBounds ==
  ASSUME DraftTypes, NEW p \in Reviewers, NEW op, Writes(p, op), NEW d \in DOMAIN drafts,
         NEW row, OneRowWritten(d, row)
  PROVE  DraftBounds'
<1>0. /\ Len(drafts') = Len(drafts) /\ DOMAIN drafts' = DOMAIN drafts /\ drafts'[d] = row
      /\ \A e \in DOMAIN drafts \ {d} : drafts'[e] = drafts[e]
  <2>1. drafts \in Seq(DraftRow)
    BY DEF DraftTypes, ProposalsInv, ProposalsTyped
  <2> QED
    BY <2>1 DEF OneRowWritten
<1>1. ASSUME NEW e \in DOMAIN drafts
      PROVE  drafts'[e].claim \in 1..(MaxWordings + 1) /\ drafts'[e].approved \in 0..(MaxWordings + 1)
  <2>1. drafts[e].claim \in 1..(MaxWordings + 1) /\ drafts[e].approved \in 0..(MaxWordings + 1)
    BY DEF DraftTypes, DraftBounds
  <2> QED
    BY <1>0, <2>1, ProposalAssumption DEF OneRowWritten
<1> QED
  BY <1>0, <1>1, WritesBounds DEF DraftTypes, DraftBounds

LEMMA RowReplaced ==
  ASSUME NEW s \in Seq(DraftRow), NEW d \in DOMAIN s, NEW row \in DraftRow
  PROVE  LET t == [s EXCEPT ![d] = row]
         IN /\ t \in Seq(DraftRow) /\ Len(t) = Len(s) /\ t[d] = row
            /\ \A e \in DOMAIN s : e # d => t[e] = s[e]
OBVIOUS

LEMMA TwoMore ==
  ASSUME NEW s \in Seq(DraftRow), NEW row \in DraftRow
  PROVE  LET t == s \o <<row, row>>
         IN /\ Len(t) = Len(s) + 2 /\ DOMAIN t = 1..(Len(s) + 2)
            /\ \A e \in 1..Len(s) : t[e] = s[e]
            /\ t[Len(s) + 1] = row /\ t[Len(s) + 2] = row
<1> DEFINE two == <<row, row>>
<1>1. two \in Seq(DraftRow) /\ Len(two) = 2 /\ two[1] = row /\ two[2] = row
  OBVIOUS
<1> HIDE DEF two
<1>2. /\ s \o two \in Seq(DraftRow) /\ Len(s \o two) = Len(s) + Len(two)
      /\ \A i \in 1..(Len(s) + Len(two)) : (s \o two)[i] = IF i <= Len(s) THEN s[i] ELSE two[i - Len(s)]
  BY <1>1, ConcatProperties
<1>3. Len(s) \in Nat
  OBVIOUS
<1>4. Len(s \o two) = Len(s) + 2 /\ DOMAIN (s \o two) = 1..(Len(s) + 2)
  BY <1>1, <1>2, <1>3
<1>5. /\ \A e \in 1..Len(s) : (s \o two)[e] = s[e]
      /\ (s \o two)[Len(s) + 1] = two[1] /\ (s \o two)[Len(s) + 2] = two[2]
  BY <1>1, <1>2, <1>3
<1> QED
  BY <1>1, <1>4, <1>5 DEF two

LEMMA DraftBoundsStep ==
  ASSUME DraftTypes, [ProposalsNext]_proposalVars PROVE DraftBounds'
<1>1. /\ drafts \in Seq(DraftRow) /\ reviewer \in [Reviewers -> ReviewRequest]
      /\ \A p \in Reviewers : reviewer[p].op # "none" => reviewer[p].row \in DOMAIN drafts
      /\ \A d \in DOMAIN drafts : drafts[d] \in DraftRow /\ drafts[d].claim <= MaxWordings + 1
  BY ProposalAssumption DEF DraftTypes, DraftBounds, ProposalsInv, ProposalsTyped, HasRead
<1>2. CASE ApplyCandidates
  <2>1. UNCHANGED <<reviewer, reviews>> /\ extraction' \in {"none", "succeeded", "empty", "failed"}
    BY <1>2 DEF ApplyCandidates
  <2>2. \A review, restricted : Draft(review, restricted).claim = 1 /\ Draft(review, restricted).approved = 0
    BY DEF Draft
  <2>3. \/ drafts' = drafts \/ drafts' = <<>> \/ \E a : drafts' = <<a>> /\ a.claim = 1 /\ a.approved = 0
        \/ \E a, b : drafts' = <<a, b>> /\ a.claim = 1 /\ a.approved = 0 /\ b.claim = 1 /\ b.approved = 0
    BY <1>2, <2>2 DEF ApplyCandidates
  <2>4. Len(drafts') <= MaxDrafts /\ \A d \in DOMAIN drafts' :
          drafts'[d].claim \in 1..(MaxWordings + 1) /\ drafts'[d].approved \in 0..(MaxWordings + 1)
    <3>1. CASE drafts' = drafts \/ drafts' = <<>>
      BY <3>1, ProposalAssumption DEF DraftTypes, DraftBounds
    <3>2. ASSUME NEW a, drafts' = <<a>>, a.claim = 1, a.approved = 0
          PROVE  Len(drafts') <= MaxDrafts /\ \A d \in DOMAIN drafts' :
                   drafts'[d].claim \in 1..(MaxWordings + 1) /\ drafts'[d].approved \in 0..(MaxWordings + 1)
      BY <3>2, ProposalAssumption
    <3>3. ASSUME NEW a, NEW b, drafts' = <<a, b>>, a.claim = 1, a.approved = 0, b.claim = 1, b.approved = 0
          PROVE  Len(drafts') <= MaxDrafts /\ \A d \in DOMAIN drafts' :
                   drafts'[d].claim \in 1..(MaxWordings + 1) /\ drafts'[d].approved \in 0..(MaxWordings + 1)
      BY <3>3, ProposalAssumption
    <3> QED
      BY <2>3, <3>1, <3>2, <3>3
  <2> QED
    BY <2>1, <2>4 DEF DraftTypes, DraftBounds
<1>3. ASSUME NEW p \in Reviewers, NEW d \in 1..MaxDrafts, ReadProposal(p, d) \/ ReadItem(p, d)
      PROVE  DraftBounds'
  <2>1. PICK op \in {"promote", "revise", "split", "reject", "activate", "archive"},
             active \in BOOLEAN, restricted \in BOOLEAN : Opens(p, op, d, active, restricted)
    BY <1>3 DEF ReadProposal, ReadItem
  <2>2. /\ reviews < MaxReviewRequests /\ reviews' = reviews + 1 /\ UNCHANGED <<drafts, extraction>>
        /\ \A q \in Reviewers : reviewer'[q].op = "none" => reviewer'[q] = NoReview
    BY <1>1, <2>1 DEF Opens, DraftTypes, DraftBounds
  <2> QED
    BY <2>2, ProposalAssumption DEF DraftTypes, DraftBounds
<1>4. ASSUME NEW p \in Reviewers, Promote(p) PROVE DraftBounds'
  <2> DEFINE d == reviewer[p].row
             decided == [drafts[d] EXCEPT !.review = "promoted", !.restricted = reviewer[p].restricted]
  <2>1. Writes(p, "promote") /\ d \in DOMAIN drafts
    BY <1>1, <1>4 DEF Promote, Writes
  <2>2. \/ drafts' = drafts \/ drafts' = [drafts EXCEPT ![d] = decided]
        \/ drafts' = [drafts EXCEPT ![d] = Activated(decided)]
    BY <1>4 DEF Promote
  <2>3. /\ decided.claim = drafts[d].claim /\ decided.approved = drafts[d].approved
        /\ Activated(decided).claim = drafts[d].claim /\ Activated(decided).approved = drafts[d].claim
    BY <1>1, <2>1 DEF Activated, DraftRow
  <2> HIDE DEF decided
  <2>4. CASE drafts' = drafts
    BY <2>1, <2>4, WritesBounds DEF DraftTypes, DraftBounds
  <2>5. ASSUME NEW row \in {decided, Activated(decided)}, drafts' = [drafts EXCEPT ![d] = row]
        PROVE  DraftBounds'
    <3>1. drafts[d].claim <= MaxWordings + 1
      BY <1>1, <2>1
    <3>2. OneRowWritten(d, row)
      BY <2>3, <2>5, <3>1 DEF OneRowWritten
    <3> HIDE DEF d
    <3> QED
      BY <2>1, <3>2, OneRowBounds
  <2> QED
    BY <2>2, <2>4, <2>5
<1>5. ASSUME NEW p \in Reviewers, ReviseDraft(p) PROVE DraftBounds'
  <2> DEFINE d == reviewer[p].row
             row == [drafts[d] EXCEPT !.claim = @ + 1]
  <2>1. Writes(p, "revise") /\ d \in DOMAIN drafts /\ drafts[d].claim <= MaxWordings
    BY <1>1, <1>5 DEF ReviseDraft, Writes
  <2>2. drafts' = [drafts EXCEPT ![d] = row]
    BY <1>5 DEF ReviseDraft
  <2>3. row.claim = drafts[d].claim + 1 /\ row.approved = drafts[d].approved /\ drafts[d].claim \in Nat
    BY <1>1, <2>1 DEF DraftRow
  <2> HIDE DEF row
  <2>4. OneRowWritten(d, row)
    BY <2>1, <2>2, <2>3, ProposalAssumption DEF OneRowWritten
  <2> HIDE DEF d
  <2> QED
    BY <2>1, <2>4, OneRowBounds
<1>6. ASSUME NEW p \in Reviewers, Split(p) PROVE DraftBounds'
  <2> DEFINE d == reviewer[p].row
             child == Draft("pending", drafts[d].suggested)
             retired == Retired(d, "split")
  <2>1. Writes(p, "split") /\ d \in DOMAIN drafts /\ Len(drafts) + 2 <= MaxDrafts
        /\ drafts' = retired \o <<child, child>>
    BY <1>1, <1>6 DEF Split, Writes
  <2>2. child.claim = 1 /\ child.approved = 0
    BY DEF Draft
  <2>3. /\ retired \in Seq(DraftRow) /\ Len(retired) = Len(drafts)
        /\ \A e \in DOMAIN drafts : retired[e].claim = drafts[e].claim /\ retired[e].approved = drafts[e].approved
    <3> DEFINE row == [drafts[d] EXCEPT !.review = "split", !.status = "archived"]
    <3>1. retired = [drafts EXCEPT ![d] = row]
      BY <1>1, <2>1 DEF Retired
    <3>2. row \in DraftRow /\ row.claim = drafts[d].claim /\ row.approved = drafts[d].approved
      BY <1>1, <2>1 DEF DraftRow
    <3> HIDE DEF row
    <3> HIDE DEF retired
    <3>3. /\ retired \in Seq(DraftRow) /\ Len(retired) = Len(drafts) /\ retired[d] = row
          /\ \A e \in DOMAIN drafts : e # d => retired[e] = drafts[e]
      BY <1>1, <2>1, <3>1, <3>2, RowReplaced
    <3> QED
      BY <3>2, <3>3
  <2>A. child \in DraftRow
    <3>1. drafts[d].suggested \in BOOLEAN
      BY <1>1, <2>1 DEF DraftRow
    <3> QED
      BY <3>1, NewDraft
  <2> HIDE DEF child, retired
  <2>4. /\ Len(drafts') = Len(drafts) + 2 /\ DOMAIN drafts' = 1..(Len(drafts) + 2)
        /\ \A e \in 1..Len(drafts) : drafts'[e] = retired[e]
        /\ drafts'[Len(drafts) + 1] = child /\ drafts'[Len(drafts) + 2] = child
    <3>1. DOMAIN retired = 1..Len(drafts) /\ Len(drafts) \in Nat
      BY <1>1, <2>3
    <3> QED
      <4>1. drafts' = retired \o <<child, child>> /\ retired \in Seq(DraftRow) /\ Len(retired) = Len(drafts)
        BY <2>1, <2>3
      <4> HIDE DEF d
      <4>2. LET t == retired \o <<child, child>>
            IN /\ Len(t) = Len(retired) + 2 /\ DOMAIN t = 1..(Len(retired) + 2)
               /\ \A e \in 1..Len(retired) : t[e] = retired[e]
               /\ t[Len(retired) + 1] = child /\ t[Len(retired) + 2] = child
        BY <2>A, <4>1, TwoMore
      <4> QED
        BY <4>1, <4>2
  <2>5. ASSUME NEW e \in DOMAIN drafts'
        PROVE  drafts'[e].claim \in 1..(MaxWordings + 1) /\ drafts'[e].approved \in 0..(MaxWordings + 1)
    <3>1. CASE e \in 1..Len(drafts)
      <4>1. e \in DOMAIN drafts
        BY <1>1, <3>1
      <4> QED
        BY <2>3, <2>4, <3>1, <4>1 DEF DraftTypes, DraftBounds
    <3>2. CASE e \in {Len(drafts) + 1, Len(drafts) + 2}
      BY <2>2, <2>4, <3>2, ProposalAssumption
    <3> QED
      BY <1>1, <2>4, <3>1, <3>2
  <2> QED
    BY <2>1, <2>4, <2>5, WritesBounds DEF DraftTypes, DraftBounds
<1>7. ASSUME NEW p \in Reviewers, Reject(p) \/ Archive(p) \/ Activate(p) PROVE DraftBounds'
  <2> DEFINE d == reviewer[p].row
  <2>1. PICK op : Writes(p, op) /\ op # "none"
    BY <1>7 DEF Reject, Archive, Activate
  <2>2. d \in DOMAIN drafts
    BY <1>1, <2>1 DEF Writes
  <2>3. PICK row : /\ drafts' = [drafts EXCEPT ![d] = row] /\ row.claim = drafts[d].claim
                   /\ row.approved \in {drafts[d].approved, drafts[d].claim}
    <3>0. drafts \in Seq(DraftRow) /\ drafts[d] \in DraftRow
      BY <1>1, <2>2
    <3>1. CASE Reject(p)
      <4> DEFINE row == [drafts[d] EXCEPT !.review = "rejected", !.status = "archived"]
      <4>1. drafts' = [drafts EXCEPT ![d] = row]
        BY <2>2, <3>0, <3>1 DEF Reject, Retired
      <4>2. row.claim = drafts[d].claim /\ row.approved = drafts[d].approved
        BY <3>0 DEF DraftRow
      <4> HIDE DEF row
      <4> QED
        BY <4>1, <4>2
    <3>2. CASE Archive(p)
      <4> DEFINE row == [drafts[d] EXCEPT !.status = "archived"]
      <4>1. drafts' = [drafts EXCEPT ![d] = row]
        BY <2>2, <3>0, <3>2 DEF Archive
      <4>2. row.claim = drafts[d].claim /\ row.approved = drafts[d].approved
        BY <3>0 DEF DraftRow
      <4> HIDE DEF row
      <4> QED
        BY <4>1, <4>2
    <3>3. CASE Activate(p)
      <4>1. drafts' = [drafts EXCEPT ![d] = Activated(drafts[d])]
        BY <3>3 DEF Activate
      <4>2. Activated(drafts[d]).claim = drafts[d].claim /\ Activated(drafts[d]).approved = drafts[d].claim
        BY <3>0 DEF DraftRow, Activated
      <4> QED
        BY <4>1, <4>2
    <3> QED
      BY <1>7, <3>1, <3>2, <3>3
  <2>4. OneRowWritten(d, row)
    BY <1>1, <2>2, <2>3 DEF OneRowWritten
  <2> HIDE DEF d
  <2> QED
    BY <2>1, <2>2, <2>4, OneRowBounds
<1>8. ASSUME NEW p \in Reviewers, ReviewRollback(p) PROVE DraftBounds'
  BY <1>1, <1>8 DEF ReviewRollback, DraftTypes, DraftBounds
<1>9. CASE UNCHANGED proposalVars
  BY <1>9 DEF proposalVars, DraftTypes, DraftBounds
<1> QED
  BY <1>2, <1>3, <1>4, <1>5, <1>6, <1>7, <1>8, <1>9 DEF ProposalsNext

LEMMA DraftTypesStep == DraftTypes /\ [ProposalsNext]_proposalVars => DraftTypes'
BY DraftBoundsStep, ProposalsInvStep DEF DraftTypes

\* Every step of every knowledge proposal keeps the types of ProposalsTypeOK: the drafts stay
\* within their bound, a draft is approved in a wording that was written, and a reviewer works on
\* a draft there is (knowledge.ts, the extraction from a run and its review).
THEOREM ProposalsStayTyped == ProposalsSpec => []ProposalsTypeOK
BY DraftTypesInit, DraftTypesStep, DraftTypesAreTypes, PTL DEF ProposalsSpec

-----------------------------------------------------------------------------
(* Objectives: a list that was read within the cap is written within it. *)

WithinCap ==
  /\ Len(objective.criteria) <= CriteriaCap
  /\ \A p \in Managers : manager[p].writes = "criteria" => Len(manager[p].value) <= CriteriaCap
  /\ rewrites \in 0..MaxUpdates
ObjectiveTypes == ObjectivesInv /\ WithinCap

LEMMA ObjectiveTypesAreTypes == ObjectiveTypes => ObjectivesTypeOK
<1> SUFFICES ASSUME ObjectiveTypes PROVE ObjectivesTypeOK
  OBVIOUS
<1>1. ASSUME NEW s \in Seq(Criterion), Len(s) <= CriteriaCap PROVE s \in CriteriaLists
  BY <1>1, ObjectivesAssumption DEF CriteriaLists, BoundedSeq, SeqOf
<1> HIDE DEF CriteriaLists
<1>2. objective.status \in Statuses \cup {"none"} /\ objective.criteria \in CriteriaLists
  BY <1>1 DEF ObjectiveTypes, WithinCap, ObjectivesInv, ObjectivesTyped
<1>3. ASSUME NEW p \in Managers
      PROVE  \/ manager[p] = Idle
             \/ /\ manager[p].overtaken \in BOOLEAN
                /\ \/ manager[p].writes = "status" /\ manager[p].value \in Statuses
                   \/ manager[p].writes = "criteria" /\ manager[p].value \in CriteriaLists
  <2>1. /\ manager[p].writes \in {"nothing", "status", "criteria"} /\ manager[p].overtaken \in BOOLEAN
        /\ manager[p].writes = "nothing" => manager[p] = Idle
        /\ manager[p].writes = "status" => manager[p].value \in Statuses
        /\ manager[p].writes = "criteria" => manager[p].value \in Seq(Criterion) /\ Len(manager[p].value) <= CriteriaCap
    BY DEF ObjectiveTypes, WithinCap, ObjectivesInv, ObjectivesTyped, Update
  <2> QED
    BY <1>1, <2>1
<1> QED
  BY <1>2, <1>3 DEF ObjectivesTypeOK, ObjectiveTypes, WithinCap, ObjectivesInv, ObjectivesTyped

LEMMA ObjectiveTypesInit == ObjectivesInit => ObjectiveTypes
<1>1. ObjectivesInit => WithinCap
  BY ObjectivesAssumption DEF ObjectivesInit, WithinCap, Idle
<1> QED
  BY <1>1, ObjectivesInvInit DEF ObjectiveTypes

LEMMA PreparedWithinCap ==
  ASSUME ObjectiveTypes, NEW p \in Managers, NEW writes, NEW value, Prepare(p, writes, value),
         writes = "criteria" => Len(value) <= CriteriaCap
  PROVE  WithinCap'
<1>1. /\ objective' = objective /\ rewrites < MaxUpdates /\ rewrites' = rewrites + 1
      /\ manager' = [manager EXCEPT ![p] = [Idle EXCEPT !.writes = writes, !.value = value]]
  BY DEF Prepare
<1>2. /\ manager'[p].writes = writes /\ manager'[p].value = value
      /\ \A q \in Managers \ {p} : manager'[q] = manager[q]
  BY <1>1 DEF Idle, ObjectiveTypes, ObjectivesInv, ObjectivesTyped
<1>3. rewrites' \in 0..MaxUpdates
  BY <1>1, ObjectivesAssumption DEF ObjectiveTypes, WithinCap
<1> QED
  BY <1>1, <1>2, <1>3 DEF ObjectiveTypes, WithinCap

LEMMA ListsStayWithin ==
  ASSUME NEW s \in Seq(Criterion), NEW i \in DOMAIN s, NEW c
  PROVE  /\ Len(ReplaceAt(s, i, c)) = Len(s) /\ Len(s) \in Nat
         /\ Len(RemoveAt(s, i)) <= Len(s) /\ Len(RemoveAt(s, i)) \in Nat
<1>1. Len(s) \in Nat /\ i \in 1..Len(s)
  OBVIOUS
<1>2. Len(ReplaceAt(s, i, c)) = Len(s)
  BY DEF ReplaceAt
<1> DEFINE front == SubSeq(s, 1, i - 1)
           back == SubSeq(s, i + 1, Len(s))
<1>3. front \in Seq(Criterion) /\ Len(front) = i - 1
  BY <1>1
<1>4. back \in Seq(Criterion) /\ Len(back) = Len(s) - i
  BY <1>1
<1> HIDE DEF front, back
<1>5. Len(front \o back) = Len(s) - 1
  BY <1>1, <1>3, <1>4
<1>6. RemoveAt(s, i) = front \o back
  BY DEF RemoveAt, front, back
<1> QED
  BY <1>1, <1>2, <1>5, <1>6

LEMMA WithinCapStep ==
  ASSUME ObjectiveTypes, [ObjectivesNext]_objectiveVars PROVE WithinCap'
<1> DEFINE list == objective.criteria
<1>1. list \in Seq(Criterion) /\ Len(list) <= CriteriaCap /\ manager \in [Managers -> Update] /\ CriteriaCap \in Nat \ {0}
  BY ObjectivesAssumption DEF ObjectiveTypes, WithinCap, ObjectivesInv, ObjectivesTyped
<1>2. CASE CreateObjective
  <2>1. PICK criteria \in {<<>>} \cup {<<Unmet(m)>> : m \in Measures} :
          objective' = [status |-> "draft", criteria |-> criteria]
    BY <1>2 DEF CreateObjective
  <2>2. Len(criteria) <= CriteriaCap
    <3>1. criteria = <<>> \/ \E m \in Measures : criteria = <<Unmet(m)>>
      BY <2>1
    <3>2. CASE criteria = <<>>
      BY <1>1, <3>2
    <3>3. ASSUME NEW m \in Measures, criteria = <<Unmet(m)>> PROVE Len(criteria) <= CriteriaCap
      <4>1. Len(criteria) = 1
        BY <3>3
      <4> QED
        BY <1>1, <4>1
    <3> QED
      BY <3>1, <3>2, <3>3
  <2>3. objective'.criteria = criteria /\ UNCHANGED <<manager, rewrites>>
    BY <1>2, <2>1 DEF CreateObjective
  <2> QED
    BY <2>2, <2>3 DEF ObjectiveTypes, WithinCap
<1>3. ASSUME NEW p \in Managers, NEW next \in Statuses, SetObjectiveStatus(p, next) PROVE WithinCap'
  BY <1>3, PreparedWithinCap DEF SetObjectiveStatus
<1>4. ASSUME NEW p \in Managers, NEW m \in Measures, AddCriterion(p, m) PROVE WithinCap'
  <2>1. Prepare(p, "criteria", Append(list, Unmet(m))) /\ Len(Append(list, Unmet(m))) <= CriteriaCap
    BY <1>1, <1>4 DEF AddCriterion
  <2> QED
    BY <2>1, PreparedWithinCap
<1>6. ASSUME NEW p \in Managers, NEW i \in 1..CriteriaCap,
             \/ \E status \in {"met", "waived", "unmet"} : SetCriterionStatus(p, i, status)
             \/ \E m \in Measures : UpdateCriterion(p, i, m)
             \/ RemoveCriterion(p, i)
      PROVE  WithinCap'
  <2>1. PICK value : /\ Prepare(p, "criteria", value) /\ i \in DOMAIN list
                     /\ (\E c : value = ReplaceAt(list, i, c)) \/ value = RemoveAt(list, i)
    BY <1>6 DEF SetCriterionStatus, UpdateCriterion, RemoveCriterion
  <2>2. Len(value) <= Len(list) /\ Len(value) \in Nat /\ Len(list) \in Nat
    <3>1. CASE value = RemoveAt(list, i)
      BY <1>1, <2>1, <3>1, ListsStayWithin
    <3>2. ASSUME NEW c, value = ReplaceAt(list, i, c) PROVE Len(value) = Len(list) /\ Len(list) \in Nat
      BY <1>1, <2>1, <3>2, ListsStayWithin
    <3> QED
      BY <2>1, <3>1, <3>2
  <2> QED
    BY <1>1, <2>1, <2>2, PreparedWithinCap
<1>7. ASSUME NEW p \in Managers, CommitUpdate(p) PROVE WithinCap'
  <2> DEFINE w == manager[p]
             other(q) == q # p /\ manager[q] # Idle /\ manager[q].writes # w.writes
  <2>1. /\ w # Idle /\ rewrites' = rewrites
        /\ objective' = IF w.writes = "status" THEN [objective EXCEPT !.status = w.value]
                        ELSE [objective EXCEPT !.criteria = w.value]
        /\ manager' = [q \in Managers |-> IF q = p THEN Idle
                                          ELSE [manager[q] EXCEPT !.overtaken = @ \/ other(q)]]
    BY <1>7 DEF CommitUpdate
  <2>2. w.writes \in {"status", "criteria"}
    BY <1>1, <2>1 DEF ObjectiveTypes, ObjectivesInv, ObjectivesTyped, Update
  <2>3. Len(objective'.criteria) <= CriteriaCap
    <3>1. objective \in [status : Statuses \cup {"none"}, criteria : Seq(Criterion)]
      BY DEF ObjectiveTypes, ObjectivesInv, ObjectivesTyped
    <3>2. objective'.criteria \in {list, w.value} /\ (w.writes = "status" => objective'.criteria = list)
      BY <2>1, <3>1
    <3> QED
      BY <1>1, <2>2, <3>2 DEF ObjectiveTypes, WithinCap
  <2>4. \A q \in Managers : \/ manager'[q].writes = manager[q].writes /\ manager'[q].value = manager[q].value
                            \/ manager'[q] = Idle
    <3> HIDE DEF other
    <3> QED BY <1>1, <2>1 DEF Update
  <2> QED
    BY <2>1, <2>3, <2>4 DEF ObjectiveTypes, WithinCap, Idle
<1>8. CASE UNCHANGED objectiveVars
  BY <1>8 DEF objectiveVars, ObjectiveTypes, WithinCap
<1> QED
  BY <1>2, <1>3, <1>4, <1>6, <1>7, <1>8 DEF ObjectivesNext

LEMMA ObjectiveTypesStep == ObjectiveTypes /\ [ObjectivesNext]_objectiveVars => ObjectiveTypes'
BY WithinCapStep, ObjectivesInvStep DEF ObjectiveTypes

\* Every step keeps the types of ObjectivesTypeOK: above all, the criteria of an objective never
\* grow past the cap, whatever managers commit over one another (objectives.ts).
THEOREM ObjectivesStayTyped == ObjectivesSpec => []ObjectivesTypeOK
BY ObjectiveTypesInit, ObjectiveTypesStep, ObjectiveTypesAreTypes, PTL DEF ObjectivesSpec

-----------------------------------------------------------------------------
(* AI operations: the counts of requests and of lessons. *)

AiCounts == asks \in 0..MaxAsks /\ teachings \in 0..MaxTeachings
AiTypes == AiInv /\ AiCounts

LEMMA AiTypesInit == AiInit => AiTypes
BY AiInvInit, AiAssumption DEF AiTypes, AiCounts, AiInit

LEMMA AiTypesStep == AiTypes /\ [AiNext]_aiVars => AiTypes'
<1> SUFFICES ASSUME AiTypes, [AiNext]_aiVars PROVE AiCounts'
  BY AiInvStep DEF AiTypes
<1>1. \/ UNCHANGED <<asks, teachings>>
      \/ asks < MaxAsks /\ asks' = asks + 1 /\ teachings' = teachings
      \/ teachings < MaxTeachings /\ teachings' = teachings + 1 /\ asks' = asks
  <2>1. CASE Teach
    BY <2>1 DEF Teach
  <2>2. ASSUME NEW a \in Askers, NEW input \in Inputs, BeginOrReuse(a, input)
        PROVE  asks < MaxAsks /\ asks' = asks + 1 /\ teachings' = teachings
    BY <2>2 DEF BeginOrReuse
  <2>3. ASSUME NEW a \in Askers,
               \/ BeginAiOperation(a) \/ RetryOperation(a) \/ CallProvider(a)
               \/ CompleteAiOperation(a) \/ FailAiOperation(a) \/ AskerStops(a)
        PROVE  UNCHANGED <<asks, teachings>>
    BY <2>3 DEF BeginAiOperation, RetryOperation, CallProvider, CompleteAiOperation, FailAiOperation, AskerStops
  <2>4. CASE UNCHANGED aiVars
    BY <2>4 DEF aiVars
  <2> QED
    BY <2>1, <2>2, <2>3, <2>4 DEF AiNext
<1> QED
  BY <1>1, AiAssumption DEF AiTypes, AiCounts

LEMMA AiTypesAreTypes == AiTypes => AiTypeOK
BY DEF AiTypes, AiCounts, AiInv, AiTyped, AiTypeOK, OperationRow, AskRecord

\* Every step keeps the types of AiTypeOK: an operation is in one of the statuses of its table,
\* and what it was asked with and returns are inputs that were made.
THEOREM AiStaysTyped == AiSpec => []AiTypeOK
BY AiTypesInit, AiTypesStep, AiTypesAreTypes, PTL DEF AiSpec

=============================================================================
