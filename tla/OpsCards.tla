------------------------------ MODULE OpsCards ------------------------------
(***************************************************************************)
(* The cards of Ops Chat: a completed turn stores proposals, and the owner  *)
(* confirms or cancels each from any tab.  A card carries out an action, or *)
(* it updates a job: it starts a task whose instructions hold the decisions *)
(* the owner made since the job's latest run.                               *)
(*   src/src/app/api/ops-chat/confirm/route.ts, the proposals of            *)
(*   domain/opschat/conversations.ts, update-card.ts, task-state.ts.        *)
(***************************************************************************)
EXTENDS Naturals, Sequences, FiniteSets

CONSTANTS
  Cards,         \* proposals that turns may make
  Decisions,     \* decisions the owner may make on the job
  Clicks,        \* confirm and cancel requests in flight at one time
  NoClick,
  MaxReruns,     \* bound on re-runs of the job
  MaxCardFaults  \* bound on crashes and lost answers

ASSUME CardsAssumption ==
  NoClick \notin Clicks \cup Cards /\ MaxReruns \in Nat /\ MaxCardFaults \in Nat

VARIABLES
  card,       \* state of each card; "absent" before its turn is complete
  basis,      \* what an update card froze: the run and the decisions it carries
  decided,    \* decisions: "none", "written" in an open transaction, "made"
  known,      \* decisions of a time before the latest run
  jobRun,     \* number of the job's latest run
  updates,    \* update tasks: the run they follow, the decisions in their instructions,
              \* the decisions of a time before their own
  jobLock,    \* holder of the advisory lock on the job
  click,      \* per request: its card and where it is
  acted,      \* ghost: how often the action of a card took effect
  between,    \* ghost: decisions being written when a confirmation read them
  cardFaults

cardVars == <<card, basis, decided, known, jobRun, updates, jobLock, click, acted, between, cardFaults>>
jobState == <<decided, known, jobRun>>

CardStates == {"absent", "pending", "confirming", "done", "error", "stale", "cancelled"}
ClickSteps == {"idle", "confirm", "cancel", "run", "lock", "check", "create", "done", "error", "stale"}
Basis == [run : 0..MaxReruns, carried : SUBSET Decisions]
Unclicked == [at |-> "idle", card |-> NoClick, began |-> {}]
NoBasis == [run |-> 0, carried |-> {}]

CardsTypeOK ==
  /\ card \in [Cards -> CardStates] /\ basis \in [Cards -> Basis]
  /\ decided \in [Decisions -> {"none", "written", "made"}] /\ known \subseteq Decisions
  /\ jobRun \in 0..MaxReruns
  /\ updates \in Seq([run : 0..MaxReruns, card : Cards, carried : SUBSET Decisions, began : SUBSET Decisions])
  /\ jobLock \in Clicks \cup {NoClick}
  /\ click \in [Clicks -> [at : ClickSteps, card : Cards \cup {NoClick}, began : SUBSET Decisions]]
  /\ acted \in [Cards -> Nat] /\ between \subseteq Decisions /\ cardFaults \in 0..MaxCardFaults

\* A job after its run, with the decisions made since and the update cards that already
\* carry them, if there are any.
CardsInit ==
  /\ \E made \in SUBSET Decisions :
       /\ decided = [d \in Decisions |-> IF d \in made THEN "made" ELSE "none"]
       /\ basis \in [Cards -> {NoBasis, [run |-> 0, carried |-> made]}]
  /\ card = [c \in Cards |-> IF basis[c] = NoBasis THEN "absent" ELSE "pending"]
  /\ known = {} /\ jobRun = 0
  /\ updates = <<>> /\ jobLock = NoClick
  /\ click = [k \in Clicks |-> Unclicked]
  /\ acted = [c \in Cards |-> 0] /\ between = {} /\ cardFaults = 0

CardFault == cardFaults < MaxCardFaults /\ cardFaults' = cardFaults + 1
Made == {d \in Decisions : decided[d] = "made"}
Begun == {d \in Decisions : decided[d] # "none"}

\* Only an update card has a basis, and it carries at least one decision.
IsUpdate(c) == basis[c] # NoBasis

\* decisionsAfterRun: what the latest run could not know.
Fresh == Made \ known

\* loadTaskStates: the newest update task created after the latest run, if no
\* decision is of a later time than it.
Superseded ==
  /\ updates # <<>>
  /\ LET u == updates[Len(updates)] IN u.run = jobRun /\ Fresh \subseteq u.began

-----------------------------------------------------------------------------
\* A decision has the time its transaction began, and is seen once it commits:
\* an answer, a rejection or a recorded decision, on any page.
DecisionBegins(d) ==
  /\ decided[d] = "none" /\ decided' = [decided EXCEPT ![d] = "written"]
  /\ UNCHANGED <<card, basis, known, jobRun, updates, jobLock, click, acted, between, cardFaults>>

DecisionCommits(d) ==
  /\ decided[d] = "written" /\ decided' = [decided EXCEPT ![d] = "made"]
  /\ UNCHANGED <<card, basis, known, jobRun, updates, jobLock, click, acted, between, cardFaults>>

RerunJob ==
  /\ jobRun < MaxReruns /\ jobRun' = jobRun + 1
  /\ known' = Begun
  /\ UNCHANGED <<card, basis, decided, updates, jobLock, click, acted, between, cardFaults>>

\* A completed turn stores its proposals (persistReply).
AddProposal(c) ==
  /\ card[c] = "absent" /\ ~IsUpdate(c)
  /\ card' = [card EXCEPT ![c] = "pending"]
  /\ UNCHANGED <<basis, jobState, updates, jobLock, click, acted, between, cardFaults>>

\* propose_update_task: nothing for a job that is superseded or has no decision
\* since its run.  The card waits for the end of its turn.
ProposeUpdateTask(c) ==
  /\ card[c] = "absent" /\ ~IsUpdate(c)
  /\ ~Superseded /\ Fresh # {}
  /\ basis' = [basis EXCEPT ![c] = [run |-> jobRun, carried |-> Fresh]]
  /\ UNCHANGED <<card, jobState, updates, jobLock, click, acted, between, cardFaults>>

AddUpdateProposal(c) ==
  /\ card[c] = "absent" /\ IsUpdate(c)
  /\ card' = [card EXCEPT ![c] = "pending"]
  /\ UNCHANGED <<basis, jobState, updates, jobLock, click, acted, between, cardFaults>>

-----------------------------------------------------------------------------
ClickGoes(k, at) == click' = [click EXCEPT ![k].at = at]
ClickEnds(k) == click' = [click EXCEPT ![k] = Unclicked]

\* The owner sees a card that is pending, and clicks.
Click(k, c, intent) ==
  /\ click[k].at = "idle" /\ card[c] = "pending"
  /\ click' = [click EXCEPT ![k].at = intent, ![k].card = c]
  /\ UNCHANGED <<card, basis, jobState, updates, jobLock, acted, between, cardFaults>>

\* transitionProposal: a compare-and-set; who misses is told so.
TransitionProposal(k, from, to, next) ==
  IF card[click[k].card] = from
  THEN card' = [card EXCEPT ![click[k].card] = to] /\ click' = [click EXCEPT ![k] = next]
  ELSE UNCHANGED card /\ ClickEnds(k)

CancelCard(k) ==
  /\ click[k].at = "cancel"
  /\ TransitionProposal(k, "pending", "cancelled", Unclicked)
  /\ UNCHANGED <<basis, jobState, updates, jobLock, acted, between, cardFaults>>

\* The prechecks and the rate limit may refuse and leave the card as it is.
ConfirmCard(k) ==
  /\ click[k].at = "confirm"
  /\ \/ TransitionProposal(k, "pending", "confirming", [click[k] EXCEPT !.at = "run"])
     \/ ClickEnds(k) /\ UNCHANGED card
  /\ UNCHANGED <<basis, jobState, updates, jobLock, acted, between, cardFaults>>

\* runAction of a card that is no update: it takes effect and returns, refuses
\* because its target is no longer valid, or fails, perhaps after the effect.
RunAction(k) ==
  /\ click[k].at = "run" /\ ~IsUpdate(click[k].card)
  /\ \E end \in {"done", "error", "stale"}, effect \in BOOLEAN :
       /\ end = "done" => effect
       /\ end = "stale" => ~effect
       /\ acted' = [acted EXCEPT ![click[k].card] = @ + IF effect THEN 1 ELSE 0]
       /\ ClickGoes(k, end)
  /\ UNCHANGED <<card, basis, jobState, updates, jobLock, between, cardFaults>>

\* The transaction of an update begins, and with it the time of its task; the
\* agent of the card may be gone.
BeginUpdate(k) ==
  /\ click[k].at = "run" /\ IsUpdate(click[k].card)
  /\ \/ click' = [click EXCEPT ![k].at = "lock", ![k].began = Begun]
     \/ ClickGoes(k, "stale")
  /\ UNCHANGED <<card, basis, jobState, updates, jobLock, acted, between, cardFaults>>

\* Seeded bug: the job is not locked.
LockNoJob(k) ==
  /\ click[k].at = "lock"
  /\ ClickGoes(k, "check") /\ UNCHANGED jobLock
  /\ UNCHANGED <<card, basis, jobState, updates, acted, between, cardFaults>>

\* pg_advisory_xact_lock
LockJob(k) ==
  /\ click[k].at = "lock" /\ jobLock = NoClick
  /\ jobLock' = k /\ ClickGoes(k, "check")
  /\ UNCHANGED <<card, basis, jobState, updates, acted, between, cardFaults>>

\* Seeded bug: the decisions of the card are not compared with those of now.
CurrentRun(c) == basis[c].run = jobRun /\ ~Superseded

\* assertUpdateCardCurrent
Current(c) == basis[c] = [run |-> jobRun, carried |-> Fresh] /\ ~Superseded

CheckUpdate(k) ==
  /\ click[k].at = "check"
  /\ IF Current(click[k].card)
     THEN /\ ClickGoes(k, "create") /\ UNCHANGED jobLock
          /\ between' = between \cup (click[k].began \ Made)
     ELSE /\ ClickGoes(k, "stale") /\ UNCHANGED between
          /\ jobLock' = IF jobLock = k THEN NoClick ELSE jobLock
  /\ UNCHANGED <<card, basis, jobState, updates, acted, cardFaults>>

\* createTask, enqueueRun and the commit, after which the answer may be lost.
CreateUpdateTask(k) ==
  /\ click[k].at = "create"
  /\ updates' = Append(updates, [run |-> basis[click[k].card].run, card |-> click[k].card,
                                 carried |-> basis[click[k].card].carried, began |-> click[k].began])
  /\ acted' = [acted EXCEPT ![click[k].card] = @ + 1]
  /\ jobLock' = IF jobLock = k THEN NoClick ELSE jobLock
  /\ \/ ClickGoes(k, "done") /\ UNCHANGED cardFaults
     \/ ClickGoes(k, "error") /\ CardFault
  /\ UNCHANGED <<card, basis, jobState, between>>

\* The terminal state; a failure to record it leaves the card "confirming".
FinishCard(k) ==
  /\ click[k].at \in {"done", "error", "stale"}
  /\ \/ TransitionProposal(k, "confirming", click[k].at, Unclicked) /\ UNCHANGED cardFaults
     \/ CardFault /\ ClickEnds(k) /\ UNCHANGED card
  /\ UNCHANGED <<basis, jobState, updates, jobLock, acted, between>>

\* The process of a request dies; an open transaction is undone.
ClickCrash(k) ==
  /\ click[k].at # "idle" /\ CardFault
  /\ ClickEnds(k)
  /\ jobLock' = IF jobLock = k THEN NoClick ELSE jobLock
  /\ UNCHANGED <<card, basis, jobState, updates, acted, between>>

CardsNext ==
  \/ \E d \in Decisions : DecisionBegins(d) \/ DecisionCommits(d)
  \/ RerunJob
  \/ \E c \in Cards : \/ AddProposal(c) \/ ProposeUpdateTask(c) \/ AddUpdateProposal(c)
                      \/ \E k \in Clicks, intent \in {"confirm", "cancel"} : Click(k, c, intent)
  \/ \E k \in Clicks : \/ CancelCard(k) \/ ConfirmCard(k) \/ RunAction(k) \/ BeginUpdate(k)
                       \/ LockJob(k) \/ CheckUpdate(k) \/ CreateUpdateTask(k) \/ FinishCard(k)
                       \/ ClickCrash(k)

CardsSpec == CardsInit /\ [][CardsNext]_cardVars

-----------------------------------------------------------------------------
\* What a card shows is what happened: its action took effect at most once, not
\* before the owner confirmed and never after a cancellation; "done" did it,
\* "stale" did not (route.ts: "we must never report a terminal state we did not
\* persist").  And a decision that the update a card started is said to cover
\* is in its instructions, unless its transaction was open when the
\* confirmation read the decisions (tools.ts: a card must not "later mark the
\* old task SUPERSEDED by work that never got that decision").
CardIsTrue ==
  /\ \A c \in Cards :
       /\ acted[c] <= 1
       /\ card[c] = "done" => acted[c] = 1
       /\ card[c] \in {"absent", "pending", "stale", "cancelled"} => acted[c] = 0
  /\ Superseded => Fresh \subseteq updates[Len(updates)].carried \cup between

\* Two update cards of a job, prepared in different turns or conversations and
\* confirmed in two tabs, do not both start (assertUpdateCardCurrent: "two
\* update cards for the same job cannot both pass").
JobUpdatedOnce ==
  \A i, j \in DOMAIN updates :
    updates[i].run = updates[j].run /\ updates[i].carried = updates[j].carried => i = j
=============================================================================
