------------------------------ MODULE OpsProofs ------------------------------
(***************************************************************************)
(* Ops Chat, from both sides: the cards a conversation leaves behind do    *)
(* what they show, and the turns of a conversation are answered one at a   *)
(* time and in order.                                                      *)
(***************************************************************************)
EXTENDS OpsCards, OpsTurns, FiniteSetTheorems, NaturalsInduction, WellFoundedInduction, TLAPS

-----------------------------------------------------------------------------
(* Cards *)

\* A confirmation that has the card: it alone moves it on.
AtWork(k) == click[k].at \in {"run", "lock", "check", "create", "done", "error", "stale"}
InUpdate(k) == click[k].at \in {"lock", "check", "create"}

ClickRecord == [at : ClickSteps, card : Cards \cup {NoClick}, began : SUBSET Decisions]
UpdateTask == [run : Nat, card : Cards, carried : SUBSET Decisions, began : SUBSET Decisions]

CardsTyped ==
  /\ card \in [Cards -> CardStates]
  /\ basis \in [Cards -> [run : Nat, carried : SUBSET Decisions]]
  /\ decided \in [Decisions -> {"none", "written", "made"}] /\ known \subseteq Decisions
  /\ jobRun \in Nat
  /\ updates \in Seq(UpdateTask)
  /\ jobLock \in Clicks \cup {NoClick}
  /\ click \in [Clicks -> ClickRecord]
  /\ acted \in [Cards -> Nat] /\ between \subseteq Decisions

\* Who clicked has a card that was shown, and one confirmation has it at a time.
Clicked ==
  /\ \A k \in Clicks : click[k].at # "idle" => click[k].card \in Cards /\ card[click[k].card] # "absent"
  /\ \A k \in Clicks : AtWork(k) => card[click[k].card] = "confirming"
  /\ \A k, l \in Clicks : AtWork(k) /\ AtWork(l) /\ click[k].card = click[l].card => k = l

\* How often an action took effect, by where its card and its confirmation are.
ActedAt ==
  /\ \A c \in Cards :
       /\ acted[c] <= 1
       /\ card[c] = "done" => acted[c] = 1
       /\ card[c] \in {"absent", "pending", "stale", "cancelled"} => acted[c] = 0
  /\ \A k \in Clicks :
       /\ click[k].at \in {"run", "lock", "check", "create", "stale"} => acted[click[k].card] = 0
       /\ click[k].at = "done" => acted[click[k].card] = 1

\* What a card carries was decided when it was made, so before it was clicked.
Carries ==
  /\ \A c \in Cards : basis[c].carried \subseteq Made
  /\ \A k \in Clicks : InUpdate(k) => basis[click[k].card].carried \subseteq click[k].began

\* The advisory lock covers the check and the insert.
JobLocked == \A k \in Clicks : click[k].at \in {"check", "create"} => jobLock = k

\* A task with this basis would follow the updates there are: it belongs to a
\* later run, or carries more.
Follows(run, carried) ==
  \A i \in DOMAIN updates :
    /\ updates[i].run <= run
    /\ updates[i].run = run => updates[i].carried \subseteq carried /\ updates[i].carried # carried

\* In the instructions of an update of the latest run is what is decided since,
\* as far as its time goes, or it was being written when the update was checked.
Covers(run, carried, began) ==
  run = jobRun => carried \subseteq Fresh /\ began \ known \subseteq carried \cup between

Ordered ==
  /\ \A i \in DOMAIN updates :
       /\ updates[i].run <= jobRun
       /\ updates[i].carried \subseteq updates[i].began
       /\ Covers(updates[i].run, updates[i].carried, updates[i].began)
  /\ \A i, j \in DOMAIN updates :
       i < j => /\ updates[i].run <= updates[j].run
                /\ updates[i].run = updates[j].run =>
                     updates[i].carried \subseteq updates[j].carried
                       /\ updates[i].carried # updates[j].carried

\* What has been checked stays so until it is inserted.
Checked ==
  \A k \in Clicks :
    click[k].at = "create" =>
      LET b == basis[click[k].card]
      IN b.run <= jobRun /\ Follows(b.run, b.carried) /\ Covers(b.run, b.carried, click[k].began)

CardsInv == CardsTyped /\ Clicked /\ ActedAt /\ Carries /\ JobLocked /\ Ordered /\ Checked


\* What the two ways to write a request do.
LEMMA GoesOn ==
  ASSUME CardsTyped, NEW k \in Clicks, NEW at \in ClickSteps, ClickGoes(k, at)
  PROVE  /\ click' \in [Clicks -> ClickRecord]
         /\ click'[k].at = at /\ click'[k].card = click[k].card /\ click'[k].began = click[k].began
         /\ \A l \in Clicks : l # k => click'[l] = click[l]
  BY DEF CardsTyped, ClickGoes, ClickRecord

LEMMA Ends ==
  ASSUME CardsTyped, NEW k \in Clicks, ClickEnds(k)
  PROVE  /\ click' \in [Clicks -> ClickRecord]
         /\ click'[k].at = "idle"
         /\ \A l \in Clicks : l # k => click'[l] = click[l]
  BY DEF CardsTyped, ClickEnds, ClickRecord, Unclicked, ClickSteps

LEMMA CardsInvInit == CardsInit => CardsInv
<1> SUFFICES ASSUME CardsInit PROVE CardsInv
  OBVIOUS
<1>1. PICK made \in SUBSET Decisions :
        /\ decided = [d \in Decisions |-> IF d \in made THEN "made" ELSE "none"]
        /\ basis \in [Cards -> {NoBasis, [run |-> 0, carried |-> made]}]
  BY DEF CardsInit
<1>2. basis \in [Cards -> [run : Nat, carried : SUBSET Decisions]]
  BY <1>1 DEF NoBasis
<1>3. CardsTyped
  BY <1>1, <1>2 DEF CardsInit, CardsTyped, CardStates, ClickRecord, ClickSteps, Unclicked
<1>4. \A c \in Cards : basis[c].carried \subseteq Made
  BY <1>1 DEF NoBasis, Made
<1>5. /\ \A k \in Clicks : click[k].at = "idle"
      /\ \A c \in Cards : acted[c] = 0 /\ card[c] # "done"
      /\ DOMAIN updates = {}
  BY DEF CardsInit, Unclicked
<1>6. Clicked /\ ActedAt /\ JobLocked
  BY <1>5 DEF Clicked, ActedAt, JobLocked, AtWork
<1>7. Carries /\ Ordered /\ Checked
  BY <1>4, <1>5 DEF Carries, Ordered, Checked, InUpdate
<1> QED
  BY <1>3, <1>6, <1>7 DEF CardsInv

-----------------------------------------------------------------------------
\* The owner decides and the job is run again: what a card carries stays decided,
\* and what an update of an earlier run covers no longer matters.
LEMMA DecidingKeeps ==
  ASSUME CardsInv, NEW d \in Decisions, DecisionBegins(d) \/ DecisionCommits(d)
  PROVE  CardsInv'
<1>1. /\ UNCHANGED <<card, basis, known, jobRun, updates, jobLock, click, acted, between>>
      /\ decided' \in [Decisions -> {"none", "written", "made"}]
      /\ \A e \in Decisions : decided[e] = "made" => decided'[e] = "made"
  BY DEF DecisionBegins, DecisionCommits, CardsInv, CardsTyped
<1>2. CardsTyped'
  BY <1>1 DEF CardsInv, CardsTyped
<1>3. Made \subseteq Made' /\ Fresh \subseteq Fresh'
  BY <1>1 DEF Made, Fresh
<1>4. (Clicked /\ ActedAt /\ JobLocked)'
  BY <1>1 DEF CardsInv, Clicked, ActedAt, JobLocked, AtWork
<1>5. Carries'
  BY <1>1, <1>3 DEF CardsInv, Carries, InUpdate
<1>6. Ordered'
  BY <1>1, <1>3 DEF CardsInv, Ordered, Covers
<1>7. Checked'
  BY <1>1, <1>3 DEF CardsInv, Checked, Covers, Follows
<1> QED
  BY <1>2, <1>4, <1>5, <1>6, <1>7 DEF CardsInv

LEMMA RerunJobKeeps ==
  ASSUME CardsInv, RerunJob
  PROVE  CardsInv'
<1>1. /\ UNCHANGED <<card, basis, decided, updates, jobLock, click, acted, between>>
      /\ jobRun \in Nat /\ jobRun' = jobRun + 1 /\ known' \subseteq Decisions
  BY DEF RerunJob, Begun, CardsInv, CardsTyped
<1>2. CardsTyped'
  BY <1>1 DEF CardsInv, CardsTyped
<1>3. (Clicked /\ ActedAt /\ JobLocked /\ Carries)'
  BY <1>1 DEF CardsInv, Clicked, ActedAt, JobLocked, Carries, AtWork, InUpdate, Made
<1>4. /\ \A i \in DOMAIN updates : updates[i].run \in Nat /\ updates[i].run <= jobRun
      /\ \A c \in Cards : basis[c].run \in Nat
  <2>1. \A i \in DOMAIN updates : updates[i] \in UpdateTask
    BY DEF CardsInv, CardsTyped
  <2>2. \A i \in DOMAIN updates : updates[i].run \in Nat
    BY <2>1 DEF UpdateTask
  <2>3. \A i \in DOMAIN updates : updates[i].run <= jobRun
    BY DEF CardsInv, Ordered
  <2>4. \A c \in Cards : basis[c].run \in Nat
    BY DEF CardsInv, CardsTyped
  <2> QED
    BY <2>2, <2>3, <2>4
<1>5. Ordered'
  <2>1. \A i \in DOMAIN updates : updates[i].run <= jobRun' /\ updates[i].run # jobRun'
    BY <1>1, <1>4
  <2> QED
    BY <1>1, <2>1 DEF CardsInv, Ordered, Covers
<1>6. Checked'
  <2>1. ASSUME NEW k \in Clicks, click[k].at = "create"
        PROVE  LET b == basis[click[k].card]
               IN b.run \in Nat /\ b.run <= jobRun /\ Follows(b.run, b.carried)
    BY <2>1, <1>4 DEF CardsInv, Checked, Clicked
  <2> QED
    BY <2>1, <1>1 DEF Checked, Covers, Follows
<1> QED
  BY <1>2, <1>3, <1>5, <1>6 DEF CardsInv

\* A card is made: nobody has clicked it, and what it carries is decided.
LEMMA MakingKeeps ==
  ASSUME CardsInv, NEW c \in Cards,
         AddProposal(c) \/ ProposeUpdateTask(c) \/ AddUpdateProposal(c)
  PROVE  CardsInv'
<1>1. /\ card[c] = "absent"
      /\ UNCHANGED <<decided, known, jobRun, updates, jobLock, click, acted, between>>
      /\ \/ card' = [card EXCEPT ![c] = "pending"] /\ basis' = basis
         \/ basis' = [basis EXCEPT ![c] = [run |-> jobRun, carried |-> Fresh]] /\ card' = card
  BY DEF AddProposal, ProposeUpdateTask, AddUpdateProposal, jobState
<1>2. /\ card' \in [Cards -> CardStates] /\ card'[c] \in {"absent", "pending"}
      /\ basis' \in [Cards -> [run : Nat, carried : SUBSET Decisions]] /\ basis'[c].carried \subseteq Made
      /\ \A e \in Cards : e # c => card'[e] = card[e] /\ basis'[e] = basis[e]
  <2>1. CASE card' = [card EXCEPT ![c] = "pending"] /\ basis' = basis
    BY <1>1, <2>1 DEF CardsInv, CardsTyped, Carries, CardStates
  <2>2. CASE basis' = [basis EXCEPT ![c] = [run |-> jobRun, carried |-> Fresh]] /\ card' = card
    <3>1. Fresh \subseteq Made /\ Fresh \in SUBSET Decisions
      BY DEF Fresh, Made
    <3> QED
      BY <1>1, <2>2, <3>1 DEF CardsInv, CardsTyped
  <2> QED
    BY <1>1, <2>1, <2>2
<1>9. CardsTyped'
  BY <1>1, <1>2 DEF CardsInv, CardsTyped
<1>3. \A k \in Clicks : click[k].at # "idle" => click[k].card \in Cards \ {c}
  BY <1>1 DEF CardsInv, Clicked
<1>4. \A k \in Clicks : AtWork(k) => click[k].at # "idle"
  BY DEF AtWork
<1>5. Clicked'
  BY <1>1, <1>2, <1>3, <1>4 DEF CardsInv, Clicked, AtWork
<1>6. ActedAt'
  BY <1>1, <1>2, <1>3 DEF CardsInv, ActedAt
<1>7. Carries' /\ JobLocked'
  BY <1>1, <1>2, <1>3 DEF CardsInv, Carries, JobLocked, InUpdate, Made
<1>8. Ordered' /\ Checked'
  BY <1>1, <1>2, <1>3 DEF CardsInv, Ordered, Checked, Covers, Follows, Fresh, Made
<1> QED
  BY <1>9, <1>5, <1>6, <1>7, <1>8 DEF CardsInv

-----------------------------------------------------------------------------
\* The parts that a step of one request does not touch unless it writes a task.
LEMMA RecordsKept ==
  ASSUME CardsInv, NEW k \in Clicks,
         UNCHANGED <<basis, decided, known, jobRun, updates, between>>,
         \A l \in Clicks : l # k => click'[l] = click[l],
         click'[k].at # "create",
         click'[k].at \in {"lock", "check"} => basis[click'[k].card].carried \subseteq click'[k].began
  PROVE  (Carries /\ Ordered /\ Checked)'
<1>1. Carries'
  BY DEF CardsInv, Carries, InUpdate, Made
<1>2. Ordered'
  BY DEF CardsInv, Ordered, Covers, Fresh, Made
<1>3. Checked'
  BY DEF CardsInv, Checked, Follows, Covers, Fresh, Made
<1> QED
  BY <1>1, <1>2, <1>3

\* A request ends and leaves its card as it is: refused, too late, or dead.
LEMMA EndingKeeps ==
  ASSUME CardsInv, NEW k \in Clicks, ClickEnds(k),
         UNCHANGED <<card, basis, decided, known, jobRun, updates, acted, between>>,
         jobLock' = jobLock \/ (jobLock = k /\ jobLock' = NoClick)
  PROVE  CardsInv'
<1>1. /\ click' \in [Clicks -> ClickRecord] /\ click'[k].at = "idle"
      /\ \A l \in Clicks : l # k => click'[l] = click[l]
  BY Ends DEF CardsInv
<1>2. CardsTyped'
  BY <1>1 DEF CardsInv, CardsTyped, ClickRecord
<1>3. Clicked' /\ ActedAt'
  BY <1>1 DEF CardsInv, Clicked, ActedAt, AtWork
<1>4. JobLocked'
  BY <1>1 DEF CardsInv, JobLocked
<1>5. (Carries /\ Ordered /\ Checked)'
  BY <1>1, RecordsKept
<1> QED
  BY <1>2, <1>3, <1>4, <1>5 DEF CardsInv

LEMMA ClickKeeps ==
  ASSUME CardsInv, NEW k \in Clicks, NEW c \in Cards, NEW intent \in {"confirm", "cancel"}, Click(k, c, intent)
  PROVE  CardsInv'
<1>1. /\ click' \in [Clicks -> ClickRecord] /\ click'[k].at = intent /\ click'[k].card = c
      /\ \A l \in Clicks : l # k => click'[l] = click[l]
  BY DEF CardsInv, CardsTyped, Click, ClickRecord, ClickSteps
<1>2. UNCHANGED <<card, basis, decided, known, jobRun, updates, jobLock, acted, between>> /\ card[c] = "pending"
  BY DEF Click, jobState
<1>3. CardsTyped'
  BY <1>1, <1>2 DEF CardsInv, CardsTyped, ClickRecord
<1>4. Clicked' /\ ActedAt'
  BY <1>1, <1>2 DEF CardsInv, Clicked, ActedAt, AtWork
<1>5. JobLocked'
  BY <1>1, <1>2 DEF CardsInv, JobLocked
<1>6. (Carries /\ Ordered /\ Checked)'
  BY <1>1, <1>2, RecordsKept
<1> QED
  BY <1>3, <1>4, <1>5, <1>6 DEF CardsInv

\* The compare-and-set of a card that is pending: nobody works on it.
LEMMA CancelKeeps ==
  ASSUME CardsInv, NEW k \in Clicks, CancelCard(k)
  PROVE  CardsInv'
<1> DEFINE c == click[k].card
<1>1. click[k].at = "cancel" /\ c \in Cards
      /\ UNCHANGED <<basis, decided, known, jobRun, updates, jobLock, acted, between>>
  BY DEF CancelCard, CardsInv, Clicked, jobState
<1>2. CASE card[c] # "pending"
  <2>1. ClickEnds(k) /\ UNCHANGED card
    BY <1>2 DEF CancelCard, TransitionProposal
  <2> QED
    BY <1>1, <2>1, EndingKeeps
<1>3. CASE card[c] = "pending"
  <2>1. card' = [card EXCEPT ![c] = "cancelled"] /\ ClickEnds(k)
    BY <1>3 DEF CancelCard, TransitionProposal, ClickEnds
  <2>2. /\ click' \in [Clicks -> ClickRecord] /\ click'[k].at = "idle"
        /\ \A l \in Clicks : l # k => click'[l] = click[l]
    BY <2>1, Ends DEF CardsInv
  <2>3. /\ card' \in [Cards -> CardStates] /\ card'[c] = "cancelled"
        /\ \A e \in Cards : e # c => card'[e] = card[e]
    BY <1>1, <2>1 DEF CardsInv, CardsTyped, CardStates
  <2>4. CardsTyped'
    BY <1>1, <2>2, <2>3 DEF CardsInv, CardsTyped, ClickRecord
  <2>5. \A l \in Clicks : AtWork(l) => click[l].card # c
    BY <1>3 DEF CardsInv, Clicked
  <2>6. Clicked'
    BY <1>1, <2>2, <2>3, <2>5 DEF CardsInv, Clicked, AtWork
  <2>7. ActedAt'
    BY <1>1, <1>3, <2>2, <2>3 DEF CardsInv, ActedAt
  <2>8. JobLocked'
    BY <1>1, <2>2 DEF CardsInv, JobLocked
  <2>9. (Carries /\ Ordered /\ Checked)'
    BY <1>1, <2>2, RecordsKept
  <2> QED
    BY <2>4, <2>6, <2>7, <2>8, <2>9 DEF CardsInv
<1> QED
  BY <1>2, <1>3

LEMMA ConfirmKeeps ==
  ASSUME CardsInv, NEW k \in Clicks, ConfirmCard(k)
  PROVE  CardsInv'
<1> DEFINE c == click[k].card
<1>1. click[k].at = "confirm" /\ c \in Cards
      /\ UNCHANGED <<basis, decided, known, jobRun, updates, jobLock, acted, between>>
  BY DEF ConfirmCard, CardsInv, Clicked, jobState
<1>2. CASE ClickEnds(k) /\ UNCHANGED card
  BY <1>1, <1>2, EndingKeeps
<1>3. CASE card[c] = "pending" /\ card' = [card EXCEPT ![c] = "confirming"] /\ ClickGoes(k, "run")
  <2>2. /\ click' \in [Clicks -> ClickRecord] /\ click'[k].at = "run" /\ click'[k].card = c
        /\ \A l \in Clicks : l # k => click'[l] = click[l]
    BY <1>3, GoesOn DEF CardsInv, ClickSteps
  <2>3. /\ card' \in [Cards -> CardStates] /\ card'[c] = "confirming"
        /\ \A e \in Cards : e # c => card'[e] = card[e]
    BY <1>1, <1>3 DEF CardsInv, CardsTyped, CardStates
  <2>4. CardsTyped'
    BY <1>1, <2>2, <2>3 DEF CardsInv, CardsTyped, ClickRecord
  <2>5. \A l \in Clicks : AtWork(l) => click[l].card # c
    BY <1>3 DEF CardsInv, Clicked
  <2>6. Clicked'
    BY <1>1, <2>2, <2>3, <2>5 DEF CardsInv, Clicked, AtWork
  <2>7. ActedAt'
    BY <1>1, <1>3, <2>2, <2>3 DEF CardsInv, ActedAt
  <2>8. JobLocked'
    BY <1>1, <2>2 DEF CardsInv, JobLocked
  <2>9. (Carries /\ Ordered /\ Checked)'
    BY <1>1, <2>2, RecordsKept
  <2> QED
    BY <2>4, <2>6, <2>7, <2>8, <2>9 DEF CardsInv
<1>4. ClickGoes(k, "run") <=> click' = [click EXCEPT ![k] = [click[k] EXCEPT !.at = "run"]]
  BY DEF ClickGoes, CardsInv, CardsTyped
<1> QED
  BY <1>2, <1>3, <1>4 DEF ConfirmCard, TransitionProposal

\* The one confirmation that has the card runs its action, once.
LEMMA RunKeeps ==
  ASSUME CardsInv, NEW k \in Clicks, RunAction(k)
  PROVE  CardsInv'
<1> DEFINE c == click[k].card
<1>1. /\ click[k].at = "run" /\ AtWork(k) /\ c \in Cards /\ acted[c] = 0 /\ card[c] = "confirming"
      /\ UNCHANGED <<card, basis, decided, known, jobRun, updates, jobLock, between>>
  BY DEF RunAction, CardsInv, Clicked, ActedAt, AtWork, jobState
<1>2. PICK end \in {"done", "error", "stale"}, effect \in BOOLEAN :
        /\ end = "done" => effect
        /\ end = "stale" => ~effect
        /\ acted' = [acted EXCEPT ![c] = @ + IF effect THEN 1 ELSE 0]
        /\ ClickGoes(k, end)
  BY DEF RunAction
<1>3. /\ click' \in [Clicks -> ClickRecord] /\ click'[k].at = end /\ click'[k].card = c
      /\ \A l \in Clicks : l # k => click'[l] = click[l]
  BY <1>2, GoesOn DEF CardsInv, ClickSteps
<1>4. /\ acted' \in [Cards -> Nat] /\ acted'[c] = IF effect THEN 1 ELSE 0
      /\ \A e \in Cards : e # c => acted'[e] = acted[e]
  BY <1>1, <1>2 DEF CardsInv, CardsTyped
<1>5. CardsTyped'
  BY <1>1, <1>3, <1>4 DEF CardsInv, CardsTyped
<1>6. Clicked'
  BY <1>1, <1>3 DEF CardsInv, Clicked, AtWork
<1>7. \A l \in Clicks : l # k /\ AtWork(l) => click[l].card # c
  BY <1>1 DEF CardsInv, Clicked
<1>8. ActedAt'
  <2>1. \A l \in Clicks : click[l].at \in {"run", "lock", "check", "create", "stale", "done"} => AtWork(l)
    BY DEF AtWork
  <2> QED
    BY <1>1, <1>2, <1>3, <1>4, <1>7, <2>1 DEF CardsInv, ActedAt
<1>9. JobLocked'
  BY <1>1, <1>3 DEF CardsInv, JobLocked
<1>10. (Carries /\ Ordered /\ Checked)'
  BY <1>1, <1>3, RecordsKept
<1> QED
  BY <1>5, <1>6, <1>8, <1>9, <1>10 DEF CardsInv

\* The steps of an update up to its insert: the card stays with its confirmation.
LEMMA UpdatingKeeps ==
  ASSUME CardsInv, NEW k \in Clicks,
         click[k].at \in {"run", "lock", "check"},
         UNCHANGED <<card, basis, decided, known, jobRun, updates, acted>>,
         between \subseteq between', between' \subseteq Decisions,
         click' \in [Clicks -> ClickRecord],
         click'[k].at \in {"lock", "check", "create", "stale"}, click'[k].card = click[k].card,
         \A l \in Clicks : l # k => click'[l] = click[l],
         jobLock' \in Clicks \cup {NoClick},
         click'[k].at \in {"check", "create"} => jobLock' = k,
         jobLock' # jobLock => jobLock \in {k, NoClick},
         click'[k].at \in {"lock", "check", "create"} => basis[click[k].card].carried \subseteq click'[k].began,
         click'[k].at = "create" =>
           LET b == basis[click[k].card]
           IN /\ b.run <= jobRun /\ Follows(b.run, b.carried)
              /\ b.carried \subseteq Fresh /\ click'[k].began \ known \subseteq b.carried \cup between'
  PROVE  CardsInv'
<1>1. /\ AtWork(k) /\ card[click[k].card] = "confirming" /\ acted[click[k].card] = 0
      /\ click[k].card \in Cards /\ AtWork(k)' /\ NoClick \notin Clicks
  BY CardsAssumption DEF CardsInv, Clicked, ActedAt, AtWork
<1>2. CardsTyped'
  BY DEF CardsInv, CardsTyped
<1>3. Clicked'
  BY <1>1 DEF CardsInv, Clicked, AtWork
<1>4. ActedAt'
  BY <1>1 DEF CardsInv, ActedAt
<1>5. Carries'
  BY <1>1 DEF CardsInv, Carries, InUpdate, Made
<1>6. JobLocked'
  BY <1>1 DEF CardsInv, JobLocked
<1>7. Ordered'
  BY DEF CardsInv, Ordered, Covers, Fresh, Made
<1>8. Checked'
  BY <1>1 DEF CardsInv, Checked, Follows, Covers, Fresh, Made
<1> QED
  BY <1>2, <1>3, <1>4, <1>5, <1>6, <1>7, <1>8 DEF CardsInv

LEMMA BeginKeeps ==
  ASSUME CardsInv, NEW k \in Clicks, BeginUpdate(k)
  PROVE  CardsInv'
<1>1. /\ click[k].at = "run" /\ click[k].card \in Cards
      /\ UNCHANGED <<card, basis, decided, known, jobRun, updates, jobLock, acted, between>>
      /\ jobLock \in Clicks \cup {NoClick} /\ between \subseteq Decisions
      /\ basis[click[k].card].carried \subseteq Made
  BY DEF BeginUpdate, CardsInv, CardsTyped, Clicked, Carries, jobState
<1>2. CASE ClickGoes(k, "stale")
  <2>1. /\ click' \in [Clicks -> ClickRecord] /\ click'[k].at = "stale" /\ click'[k].card = click[k].card
        /\ \A l \in Clicks : l # k => click'[l] = click[l]
    BY <1>2, GoesOn DEF CardsInv, ClickSteps
  <2> QED
    BY <1>1, <2>1, UpdatingKeeps
<1>3. CASE click' = [click EXCEPT ![k].at = "lock", ![k].began = Begun]
  <2>1. /\ click' \in [Clicks -> ClickRecord] /\ click'[k].at = "lock" /\ click'[k].card = click[k].card
        /\ click'[k].began = Begun /\ \A l \in Clicks : l # k => click'[l] = click[l]
    BY <1>3 DEF CardsInv, CardsTyped, ClickRecord, ClickSteps, Begun
  <2>2. Made \subseteq Begun
    BY DEF Made, Begun
  <2> QED
    BY <1>1, <2>1, <2>2, UpdatingKeeps
<1> QED
  BY <1>2, <1>3 DEF BeginUpdate

LEMMA LockKeeps ==
  ASSUME CardsInv, NEW k \in Clicks, LockJob(k)
  PROVE  CardsInv'
<1>1. /\ click[k].at = "lock" /\ jobLock = NoClick /\ jobLock' = k
      /\ UNCHANGED <<card, basis, decided, known, jobRun, updates, acted, between>>
      /\ between \subseteq Decisions
      /\ basis[click[k].card].carried \subseteq click[k].began
  BY DEF LockJob, CardsInv, CardsTyped, Carries, InUpdate, jobState
<1>2. /\ click' \in [Clicks -> ClickRecord] /\ click'[k].at = "check" /\ click'[k].card = click[k].card
      /\ click'[k].began = click[k].began /\ \A l \in Clicks : l # k => click'[l] = click[l]
  BY GoesOn DEF LockJob, CardsInv, ClickSteps
<1> QED
  BY <1>1, <1>2, UpdatingKeeps

\* The heart of it: a card that is current carries everything decided since the
\* latest run, so more than any update of that run there is.
LEMMA CurrentFollows ==
  ASSUME CardsInv, NEW c \in Cards, Current(c)
  PROVE  basis[c].run = jobRun /\ Follows(basis[c].run, basis[c].carried)
<1>1. basis[c].run = jobRun /\ basis[c].carried = Fresh /\ ~Superseded
  BY DEF Current
<1> SUFFICES ASSUME NEW i \in DOMAIN updates
             PROVE  /\ updates[i].run <= jobRun
                    /\ updates[i].run = jobRun => updates[i].carried \subseteq Fresh /\ updates[i].carried # Fresh
  BY <1>1 DEF Follows
<1>2. updates[i].run <= jobRun /\ (updates[i].run = jobRun => updates[i].carried \subseteq Fresh)
  BY DEF CardsInv, Ordered, Covers
<1>3. ASSUME updates[i].run = jobRun, updates[i].carried = Fresh
      PROVE  FALSE
  <2> DEFINE u == updates[Len(updates)]
  <2>1. /\ updates \in Seq(UpdateTask) /\ jobRun \in Nat
        /\ i \in 1..Len(updates) /\ Len(updates) \in 1..Len(updates) /\ updates # <<>>
    BY DEF CardsInv, CardsTyped
  <2>2. u \in UpdateTask /\ u.run \in Nat /\ DOMAIN updates = 1..Len(updates)
    <3>1. u \in UpdateTask /\ DOMAIN updates = 1..Len(updates)
      BY <2>1
    <3> QED
      BY <3>1 DEF UpdateTask
  <2>3. u.run <= jobRun /\ u.carried \subseteq u.began
    BY <2>1, <2>2 DEF CardsInv, Ordered
  <2>4. i = Len(updates) \/ (jobRun <= u.run /\ (jobRun = u.run => Fresh \subseteq u.carried))
    BY <1>3, <2>1, <2>2 DEF CardsInv, Ordered
  <2>5. u.run = jobRun /\ Fresh \subseteq u.began
    BY <1>3, <2>1, <2>2, <2>3, <2>4
  <2> QED
    BY <1>1, <2>1, <2>5 DEF Superseded
<1> QED
  BY <1>2, <1>3

LEMMA CheckKeeps ==
  ASSUME CardsInv, NEW k \in Clicks, CheckUpdate(k)
  PROVE  CardsInv'
<1> DEFINE c == click[k].card
<1>1. /\ click[k].at = "check" /\ c \in Cards /\ jobLock = k
      /\ UNCHANGED <<card, basis, decided, known, jobRun, updates, acted>>
      /\ basis[c].carried \subseteq click[k].began /\ jobRun \in Nat
      /\ between \subseteq Decisions /\ click[k].began \subseteq Decisions
  BY DEF CheckUpdate, CardsInv, CardsTyped, ClickRecord, Clicked, Carries, InUpdate, JobLocked, jobState
<1>2. CASE Current(c)
  <2>1. jobLock' = jobLock /\ ClickGoes(k, "create") /\ between' = between \cup (click[k].began \ Made)
    BY <1>2 DEF CheckUpdate
  <2>2. /\ click' \in [Clicks -> ClickRecord] /\ click'[k].at = "create" /\ click'[k].card = click[k].card
        /\ click'[k].began = click[k].began /\ \A l \in Clicks : l # k => click'[l] = click[l]
    BY <2>1, GoesOn DEF CardsInv, ClickSteps
  <2>3. basis[c].run = jobRun /\ basis[c].carried = Fresh /\ Follows(basis[c].run, basis[c].carried)
    BY <1>1, <1>2, CurrentFollows DEF Current
  <2>4. click'[k].began \ known \subseteq basis[c].carried \cup between'
    BY <1>1, <2>1, <2>2, <2>3 DEF Fresh
  <2> QED
    BY <1>1, <2>1, <2>2, <2>3, <2>4, UpdatingKeeps
<1>3. CASE ~Current(c)
  <2>1. ClickGoes(k, "stale") /\ between' = between /\ jobLock' = NoClick
    BY <1>1, <1>3 DEF CheckUpdate
  <2>2. /\ click' \in [Clicks -> ClickRecord] /\ click'[k].at = "stale" /\ click'[k].card = click[k].card
        /\ \A l \in Clicks : l # k => click'[l] = click[l]
    BY <2>1, GoesOn DEF CardsInv, ClickSteps
  <2> QED
    BY <1>1, <2>1, <2>2, UpdatingKeeps
<1> QED
  BY <1>2, <1>3

\* The insert: the new task follows all the others, and nobody else has checked.
LEMMA CreateKeeps ==
  ASSUME CardsInv, NEW k \in Clicks, CreateUpdateTask(k)
  PROVE  CardsInv'
<1> DEFINE c == click[k].card
           b == basis[c]
           u == [run |-> b.run, card |-> c, carried |-> b.carried, began |-> click[k].began]
<1>1. /\ click[k].at = "create" /\ AtWork(k) /\ c \in Cards /\ jobLock = k /\ jobLock' = NoClick
      /\ acted[c] = 0 /\ card[c] = "confirming"
      /\ UNCHANGED <<card, basis, decided, known, jobRun, between>>
      /\ acted' = [acted EXCEPT ![c] = @ + 1] /\ updates' = Append(updates, u)
  BY DEF CreateUpdateTask, CardsInv, Clicked, ActedAt, AtWork, JobLocked, jobState
<1>2. PICK end \in {"done", "error"} : ClickGoes(k, end)
  BY DEF CreateUpdateTask
<1>3. /\ click' \in [Clicks -> ClickRecord] /\ click'[k].at = end /\ click'[k].card = c
      /\ \A l \in Clicks : l # k => click'[l] = click[l]
  BY <1>2, GoesOn DEF CardsInv, ClickSteps
<1>4. /\ acted' \in [Cards -> Nat] /\ acted'[c] = 1
      /\ \A e \in Cards : e # c => acted'[e] = acted[e]
  BY <1>1 DEF CardsInv, CardsTyped
<1>5. /\ u \in UpdateTask /\ updates \in Seq(UpdateTask)
      /\ b.carried \subseteq click[k].began
  BY <1>1 DEF CardsInv, CardsTyped, ClickRecord, UpdateTask, Carries, InUpdate
<1>6. /\ updates' \in Seq(UpdateTask) /\ DOMAIN updates' = 1..Len(updates) + 1
      /\ DOMAIN updates = 1..Len(updates) /\ Len(updates) \in Nat
      /\ \A i \in DOMAIN updates : updates'[i] = updates[i]
      /\ updates'[Len(updates) + 1] = u
  <2> HIDE DEF u
  <2> QED
    BY <1>1, <1>5
<1>7. CardsTyped'
  BY <1>1, <1>3, <1>4, <1>6 DEF CardsInv, CardsTyped
<1>8. Clicked'
  BY <1>1, <1>3 DEF CardsInv, Clicked, AtWork
<1>9. \A l \in Clicks : l # k /\ AtWork(l) => click[l].card # c
  BY <1>1 DEF CardsInv, Clicked
<1>10. ActedAt'
  <2>1. \A l \in Clicks : click[l].at \in {"run", "lock", "check", "create", "stale", "done"} => AtWork(l)
    BY DEF AtWork
  <2> QED
    BY <1>1, <1>3, <1>4, <1>9, <2>1 DEF CardsInv, ActedAt
<1>11. \A l \in Clicks : click[l].at \in {"check", "create"} => l = k
  BY <1>1 DEF CardsInv, JobLocked
<1>12. JobLocked' /\ Checked'
  BY <1>3, <1>11 DEF JobLocked, Checked
<1>13. Carries'
  BY <1>1, <1>3 DEF CardsInv, Carries, InUpdate, Made
<1>14. Ordered'
  <2>1. /\ b.run <= jobRun /\ Follows(b.run, b.carried) /\ Covers(b.run, b.carried, click[k].began)
        /\ u.run = b.run /\ u.carried = b.carried /\ u.began = click[k].began
    BY <1>1 DEF CardsInv, Checked
  <2>2. \A i \in DOMAIN updates' : i \in DOMAIN updates \/ i = Len(updates) + 1
    BY <1>6
  <2>3. ASSUME NEW i \in DOMAIN updates'
        PROVE  /\ updates'[i].run <= jobRun
               /\ updates'[i].carried \subseteq updates'[i].began
               /\ Covers(updates'[i].run, updates'[i].carried, updates'[i].began)
    <3> HIDE DEF u
    <3>1. CASE i \in DOMAIN updates
      BY <1>6, <3>1 DEF CardsInv, Ordered
    <3>2. CASE i = Len(updates) + 1
      BY <1>5, <1>6, <2>1, <3>2
    <3> QED
      BY <2>2, <3>1, <3>2
  <2>4. ASSUME NEW i \in DOMAIN updates', NEW j \in DOMAIN updates', i < j
        PROVE  /\ updates'[i].run <= updates'[j].run
               /\ updates'[i].run = updates'[j].run =>
                    updates'[i].carried \subseteq updates'[j].carried
                      /\ updates'[i].carried # updates'[j].carried
    <3> HIDE DEF u
    <3>1. i \in DOMAIN updates
      BY <1>6, <2>2, <2>4
    <3>2. CASE j \in DOMAIN updates
      BY <1>6, <2>4, <3>1, <3>2 DEF CardsInv, Ordered
    <3>3. CASE j = Len(updates) + 1
      BY <1>6, <2>1, <3>1, <3>3 DEF Follows
    <3> QED
      BY <2>2, <3>2, <3>3
  <2>5. \A i \in DOMAIN updates' :
          Covers(updates'[i].run, updates'[i].carried, updates'[i].began)
            => (updates'[i].run = jobRun => updates'[i].carried \subseteq Fresh
                  /\ updates'[i].began \ known \subseteq updates'[i].carried \cup between)
    BY DEF Covers
  <2>6. Fresh' = Fresh
    BY <1>1 DEF Fresh, Made
  <2> QED
    BY <1>1, <2>3, <2>4, <2>5, <2>6 DEF Ordered, Covers
<1> QED
  BY <1>7, <1>8, <1>10, <1>12, <1>13, <1>14 DEF CardsInv

LEMMA FinishKeeps ==
  ASSUME CardsInv, NEW k \in Clicks, FinishCard(k)
  PROVE  CardsInv'
<1> DEFINE c == click[k].card
           end == click[k].at
<1>1. /\ end \in {"done", "error", "stale"} /\ AtWork(k) /\ c \in Cards /\ card[c] = "confirming"
      /\ (end = "stale" => acted[c] = 0) /\ (end = "done" => acted[c] = 1)
      /\ UNCHANGED <<basis, decided, known, jobRun, updates, jobLock, acted, between>>
  BY DEF FinishCard, CardsInv, Clicked, ActedAt, AtWork, jobState
<1>2. CASE ClickEnds(k) /\ UNCHANGED card
  BY <1>1, <1>2, EndingKeeps
<1>3. CASE card' = [card EXCEPT ![c] = end] /\ ClickEnds(k)
  <2>1. /\ click' \in [Clicks -> ClickRecord] /\ click'[k].at = "idle"
        /\ \A l \in Clicks : l # k => click'[l] = click[l]
    BY <1>3, Ends DEF CardsInv
  <2>2. /\ card' \in [Cards -> CardStates] /\ card'[c] = end
        /\ \A e \in Cards : e # c => card'[e] = card[e]
    BY <1>1, <1>3 DEF CardsInv, CardsTyped, CardStates
  <2>3. CardsTyped'
    BY <1>1, <2>1, <2>2 DEF CardsInv, CardsTyped
  <2>4. \A l \in Clicks : l # k /\ AtWork(l) => click[l].card # c
    BY <1>1 DEF CardsInv, Clicked
  <2>5. Clicked'
    BY <1>1, <2>1, <2>2, <2>4 DEF CardsInv, Clicked, AtWork
  <2>6. ActedAt'
    BY <1>1, <2>1, <2>2 DEF CardsInv, ActedAt
  <2>7. JobLocked'
    BY <1>1, <2>1 DEF CardsInv, JobLocked
  <2>8. (Carries /\ Ordered /\ Checked)'
    BY <1>1, <2>1, RecordsKept
  <2> QED
    BY <2>3, <2>5, <2>6, <2>7, <2>8 DEF CardsInv
<1>4. ClickEnds(k) <=> click' = [click EXCEPT ![k] = Unclicked]
  BY DEF ClickEnds
<1> QED
  BY <1>1, <1>2, <1>3, <1>4 DEF FinishCard, TransitionProposal

LEMMA CrashKeeps ==
  ASSUME CardsInv, NEW k \in Clicks, ClickCrash(k)
  PROVE  CardsInv'
<1>1. /\ ClickEnds(k) /\ UNCHANGED <<card, basis, decided, known, jobRun, updates, acted, between>>
      /\ (jobLock' = jobLock \/ (jobLock = k /\ jobLock' = NoClick))
  BY DEF ClickCrash, jobState
<1> QED
  BY <1>1, EndingKeeps

LEMMA CardsInvStep == CardsInv /\ [CardsNext]_cardVars => CardsInv'
<1> SUFFICES ASSUME CardsInv, [CardsNext]_cardVars PROVE CardsInv'
  OBVIOUS
<1>1. ASSUME NEW d \in Decisions, DecisionBegins(d) \/ DecisionCommits(d)
      PROVE  CardsInv'
  BY <1>1, DecidingKeeps
<1>2. CASE RerunJob
  BY <1>2, RerunJobKeeps
<1>3. ASSUME NEW c \in Cards, AddProposal(c) \/ ProposeUpdateTask(c) \/ AddUpdateProposal(c)
      PROVE  CardsInv'
  BY <1>3, MakingKeeps
<1>4. ASSUME NEW c \in Cards, NEW k \in Clicks, NEW intent \in {"confirm", "cancel"}, Click(k, c, intent)
      PROVE  CardsInv'
  BY <1>4, ClickKeeps
<1>5. ASSUME NEW k \in Clicks, CancelCard(k) \/ ConfirmCard(k) \/ RunAction(k) \/ BeginUpdate(k)
      PROVE  CardsInv'
  BY <1>5, CancelKeeps, ConfirmKeeps, RunKeeps, BeginKeeps
<1>6. ASSUME NEW k \in Clicks, LockJob(k) \/ CheckUpdate(k) \/ CreateUpdateTask(k)
      PROVE  CardsInv'
  BY <1>6, LockKeeps, CheckKeeps, CreateKeeps
<1>7. ASSUME NEW k \in Clicks, FinishCard(k) \/ ClickCrash(k)
      PROVE  CardsInv'
  BY <1>7, FinishKeeps, CrashKeeps
<1>8. CASE UNCHANGED cardVars
  <2>1. UNCHANGED <<card, basis, decided, known, jobRun, updates, jobLock, click, acted, between>>
    BY <1>8 DEF cardVars
  <2>2. CardsTyped'
    BY <2>1 DEF CardsInv, CardsTyped
  <2>3. (Clicked /\ ActedAt /\ Carries /\ JobLocked)'
    BY <2>1 DEF CardsInv, Clicked, ActedAt, Carries, JobLocked, AtWork, InUpdate, Made
  <2>4. (Ordered /\ Checked)'
    BY <2>1 DEF CardsInv, Ordered, Checked, Covers, Follows, Fresh, Made
  <2> QED
    BY <2>2, <2>3, <2>4 DEF CardsInv
<1> QED
  BY <1>1, <1>2, <1>3, <1>4, <1>5, <1>6, <1>7, <1>8 DEF CardsNext

LEMMA CardsInvAlways == CardsSpec => []CardsInv
  BY CardsInvInit, CardsInvStep, PTL DEF CardsSpec

\* Of any number of update cards of one job, made in any turns and confirmed in any
\* tabs, two with the same run and the same decisions never both start a task: the
\* advisory lock covers the check and the insert (assertUpdateCardCurrent).
THEOREM JobIsUpdatedOnce == CardsSpec => []JobUpdatedOnce
<1>1. CardsInv => JobUpdatedOnce
  <2> SUFFICES ASSUME CardsInv, NEW i \in DOMAIN updates, NEW j \in DOMAIN updates, i # j,
                      updates[i].run = updates[j].run, updates[i].carried = updates[j].carried
               PROVE  FALSE
    BY DEF JobUpdatedOnce
  <2>1. i \in Nat /\ j \in Nat
    BY DEF CardsInv, CardsTyped
  <2>2. i < j \/ j < i
    BY <2>1
  <2> QED
    BY <2>2 DEF CardsInv, Ordered
<1> QED
  BY <1>1, CardsInvAlways, PTL

\* A card shows what happened, through every crash and lost answer: its action took
\* effect at most once, only after a confirmation, and an update that counts as the
\* answer to the owner's decisions has them in its instructions.
THEOREM CardsAreTrue == CardsSpec => []CardIsTrue
<1>1. CardsInv => CardIsTrue
  <2> SUFFICES ASSUME CardsInv, Superseded
               PROVE  Fresh \subseteq updates[Len(updates)].carried \cup between
    BY DEF CardsInv, ActedAt, CardIsTrue
  <2> DEFINE u == updates[Len(updates)]
  <2>1. u.run = jobRun /\ Fresh \subseteq u.began /\ updates # <<>>
    BY DEF Superseded
  <2>2. Len(updates) \in DOMAIN updates
    BY <2>1 DEF CardsInv, CardsTyped
  <2>3. u.began \ known \subseteq u.carried \cup between
    BY <2>1, <2>2 DEF CardsInv, Ordered, Covers
  <2>4. Fresh \subseteq u.began \ known
    BY <2>1 DEF Fresh
  <2> QED
    BY <2>3, <2>4
<1> QED
  BY <1>1, CardsInvAlways, PTL

-----------------------------------------------------------------------------
(* Turns *)

PastGate == {"spend", "prompt", "run", "complete", "interrupted"}
InConversation == PastGate \cup {"order", "releaseConversation"}
Request == [at : TabSteps, turn : Turns \cup {NoTab}, prompt : SUBSET Turns]

TurnsTyped ==
  /\ place \in [Turns -> Nat] /\ sent \subseteq Turns /\ late \subseteq Turns
  /\ reply \in [Turns -> Replies]
  /\ turnClaim \in [Turns -> Tabs \cup {NoTab}] /\ convClaim \in Tabs \cup {NoTab}
  /\ tab \in [Tabs -> Request] /\ lostClaim \in BOOLEAN
  /\ \E n \in Nat : \A t \in Turns : place[t] <= n

\* A message has its seq from its insert on, and is handled once it is committed.
Placed ==
  /\ \A t \in sent : place[t] > 0
  /\ \A t \in Turns : Answered(t) => t \in sent
  /\ \A p \in Tabs : tab[p].at = "append" => tab[p].turn \in Turns \ sent /\ place[tab[p].turn] > 0
  /\ \A p, q \in Tabs : tab[p].at = "append" /\ tab[q].at = "append" /\ tab[p].turn = tab[q].turn => p = q
  /\ \A p \in Tabs : tab[p].at \notin {"idle", "append"} => tab[p].turn \in sent

\* Before a turn that has passed the gate everything is answered, and nothing
\* that its prompt lacks is completed later.
Gated ==
  /\ \A t, u \in sent \ late : Before(u, t) /\ Answered(t) => Answered(u)
  /\ \A p \in Tabs : tab[p].at \in PastGate =>
       \A u \in sent \ late : Before(u, tab[p].turn) => Answered(u)
  /\ \A p \in Tabs : tab[p].at \in {"run", "complete", "interrupted"} =>
       \A u \in sent \ late :
         Before(u, tab[p].turn) /\ InWindow(u, tab[p].turn) /\ reply[u] = "complete" => u \in tab[p].prompt

\* What the claims protect while their sessions live.
Alone ==
  lostClaim \/ \A p \in Tabs :
    /\ tab[p].at \in InConversation => convClaim = p
    /\ tab[p].at \in InConversation \cup {"converse"} => turnClaim[tab[p].turn] = p
    /\ tab[p].at \in PastGate \cup {"order", "converse"} => ~Answered(tab[p].turn)

TurnsInv == TurnsTyped /\ Placed /\ Gated /\ Alone

-----------------------------------------------------------------------------
\* The largest of some numbers that have a bound exists (the next seq).
LEMMA LargestExists ==
  ASSUME NEW S \in SUBSET Nat, S # {}, NEW n \in Nat, \A x \in S : x <= n
  PROVE  Max(S) \in S /\ \A x \in S : x <= Max(S)
<1> DEFINE Bounds == {m \in Nat : \A x \in S : x <= m}
           Less == {q \in Nat \X Nat : q[1] < q[2]}
<1>1. IsWellFoundedOn(Less, Nat)
  BY NatLessThanWellFounded DEF OpToRel
<1>2. Bounds # {} /\ Bounds \subseteq Nat
  OBVIOUS
<1>3. PICK m \in Bounds : \A k \in Bounds : <<k, m>> \notin Less
  <2> HIDE DEF Bounds, Less
  <2> QED
    BY <1>1, <1>2, WFMin
<1>4. m \in Nat /\ \A k \in Bounds : ~(k < m)
  BY <1>2, <1>3
<1>5. m \in S
  <2> SUFFICES ASSUME m \notin S PROVE FALSE
    OBVIOUS
  <2>1. \A x \in S : x \in Nat /\ x < m
    BY <1>3, <1>4
  <2>2. m - 1 \in Nat /\ m - 1 < m
    <3>1. PICK x \in S : x \in Nat /\ x < m
      BY <2>1
    <3> QED
      BY <1>4, <3>1
  <2>3. m - 1 \in Bounds
    BY <1>4, <2>1, <2>2
  <2> QED
    BY <1>4, <2>2, <2>3
<1>6. \E x \in S : \A y \in S : x >= y
  BY <1>3, <1>5
<1>7. Max(S) \in S /\ \A y \in S : Max(S) >= y
  BY <1>6 DEF Max
<1> QED
  BY <1>7

LEMMA TurnsInvInit == TurnsInit => TurnsInv
<1> SUFFICES ASSUME TurnsInit PROVE TurnsInv
  OBVIOUS
<1>1. TurnsTyped
  <2>1. \A t \in Turns : place[t] <= 0
    BY DEF TurnsInit
  <2> QED
    BY <2>1 DEF TurnsInit, TurnsTyped, Replies, Request, NoRequest, TabSteps
<1>2. \A p \in Tabs : tab[p].at = "idle"
  BY DEF TurnsInit, NoRequest
<1>3. Placed
  BY <1>2 DEF TurnsInit, Placed, Answered
<1>4. Gated /\ Alone
  BY <1>2 DEF TurnsInit, Gated, Alone, PastGate, InConversation
<1> QED
  BY <1>1, <1>3, <1>4 DEF TurnsInv

LEMMA TabGoesOn ==
  ASSUME TurnsTyped, NEW p \in Tabs, NEW at \in TabSteps, Step(p, at)
  PROVE  /\ tab' \in [Tabs -> Request]
         /\ tab'[p].at = at /\ tab'[p].turn = tab[p].turn /\ tab'[p].prompt = tab[p].prompt
         /\ \A q \in Tabs : q # p => tab'[q] = tab[q]
  BY DEF TurnsTyped, Step, Request

LEMMA TabEnds ==
  ASSUME TurnsTyped, NEW p \in Tabs, EndRequest(p)
  PROVE  /\ tab' \in [Tabs -> Request]
         /\ tab'[p].at = "idle"
         /\ \A q \in Tabs : q # p => tab'[q] = tab[q]
  BY DEF TurnsTyped, EndRequest, Request, NoRequest, TabSteps

\* What a request that holds its claims may rely on.
Protected(p) ==
  /\ tab[p].at \in InConversation => convClaim = p
  /\ tab[p].at \in InConversation \cup {"converse"} => turnClaim[tab[p].turn] = p
  /\ tab[p].at \in PastGate \cup {"order", "converse"} => ~Answered(tab[p].turn)

\* A prompt written earlier had, of the messages committed by now, all that are
\* in the window now: commits only push messages out of it.
LEMMA WindowShrinks ==
  ASSUME sent \subseteq sent', sent' \subseteq Turns, \A v \in sent : place'[v] = place[v],
         NEW u \in sent, NEW t \in sent, InWindow(u, t)'
  PROVE  InWindow(u, t)
<1> DEFINE newer == {v \in sent : Before(u, v) /\ ~Before(t, v)}
           newer2 == {v \in sent' : Before(u, v)' /\ ~Before(t, v)'}
<1>1. newer \subseteq newer2 /\ newer2 \subseteq Turns
  BY DEF Before
<1>2. IsFiniteSet(newer2)
  BY <1>1, TurnsAssumption, FS_Subset
<1>3. IsFiniteSet(newer) /\ Cardinality(newer) <= Cardinality(newer2)
  BY <1>1, <1>2, FS_Subset
<1>4. Cardinality(newer) \in Nat /\ Cardinality(newer2) \in Nat
  BY <1>2, <1>3, FS_CardinalityType
<1>5. Cardinality(newer2) < PromptTurns
  BY DEF InWindow
<1> QED
  BY <1>3, <1>4, <1>5, TurnsAssumption DEF InWindow

\* The prompt of a request that does not move stays what it must be.
LEMMA PromptStays ==
  ASSUME TurnsInv, sent \subseteq sent', sent' \subseteq Turns, \A v \in sent : place'[v] = place[v],
         NEW q \in Tabs, tab'[q] = tab[q], tab[q].at \in {"run", "complete", "interrupted"},
         NEW u \in sent \ late, reply[u] = "complete",
         (Before(u, tab[q].turn) /\ InWindow(u, tab[q].turn))'
  PROVE  u \in tab'[q].prompt
<1> DEFINE t == tab[q].turn
<1>1. t \in sent
  BY DEF TurnsInv, Placed
<1>2. InWindow(u, t)'
  OBVIOUS
<1>3. InWindow(u, t)
  <2>1. /\ sent \subseteq sent' /\ sent' \subseteq Turns /\ \A v \in sent : place'[v] = place[v]
        /\ u \in sent /\ tab[q].turn' = tab[q].turn
    OBVIOUS
  <2>2. \A v, w \in sent : InWindow(v, w)' => InWindow(v, w)
    BY <2>1, WindowShrinks
  <2>3. \A w : w = t => (InWindow(u, t)' <=> (InWindow(u, w))')
    BY <2>1 DEF InWindow, Before
  <2> QED
    BY <1>1, <1>2, <2>1, <2>2, <2>3
<1>4. Before(u, t)
  BY <1>1 DEF Before
<1> QED
  BY <1>3, <1>4 DEF TurnsInv, Gated

\* A step of one request that changes neither messages nor replies.
LEMMA RequestKeeps ==
  ASSUME TurnsInv, NEW p \in Tabs,
         UNCHANGED <<place, sent, late, reply>>,
         tab[p].at \notin {"idle", "append"},
         tab' \in [Tabs -> Request], \A q \in Tabs : q # p => tab'[q] = tab[q],
         tab'[p].at # "append", tab'[p].at = "idle" \/ tab'[p].turn = tab[p].turn,
         turnClaim' \in [Turns -> Tabs \cup {NoTab}], convClaim' \in Tabs \cup {NoTab}, lostClaim' = lostClaim,
         tab'[p].at \in PastGate => \A u \in sent \ late : Before(u, tab[p].turn) => Answered(u),
         tab'[p].at \in {"run", "complete", "interrupted"} =>
           \A u \in sent \ late : Before(u, tab[p].turn) /\ InWindow(u, tab[p].turn) /\ reply[u] = "complete"
             => u \in tab'[p].prompt,
         ~lostClaim =>
           /\ Protected(p)'
           /\ \A q \in Tabs : q # p /\ convClaim = q => convClaim' = q
           /\ \A q \in Tabs, t \in Turns : q # p /\ turnClaim[t] = q => turnClaim'[t] = q
  PROVE  TurnsInv'
<1>1. TurnsTyped'
  BY DEF TurnsInv, TurnsTyped
<1>2. Placed'
  BY DEF TurnsInv, Placed, Answered
<1>3. Gated'
  <2>1. PastGate \cap {"idle"} = {} /\ {"run", "complete", "interrupted"} \subseteq PastGate
    BY DEF PastGate
  <2>2. \A q \in Tabs : tab'[q].at \in PastGate => tab'[q].turn = tab[q].turn /\ tab[q].turn \in sent
    BY <2>1 DEF TurnsInv, Placed, PastGate
  <2>3. \A u, t \in sent : InWindow(u, t)' => InWindow(u, t)
    BY WindowShrinks DEF TurnsInv, TurnsTyped
  <2>4. ASSUME NEW q \in Tabs, tab'[q].at \in {"run", "complete", "interrupted"}, NEW u \in sent \ late,
               Before(u, tab[q].turn), InWindow(u, tab[q].turn)', reply[u] = "complete"
        PROVE  u \in tab'[q].prompt
    BY <2>1, <2>2, <2>3, <2>4 DEF TurnsInv, Gated
  <2>5. \A q \in Tabs : tab'[q].at \in {"run", "complete", "interrupted"} =>
          \A u \in sent' \ late' :
            (Before(u, tab[q].turn) /\ InWindow(u, tab[q].turn) /\ reply[u] = "complete")' => u \in tab'[q].prompt
    BY <2>1, <2>2, <2>4 DEF Before, InWindow
  <2> QED
    BY <2>1, <2>5 DEF TurnsInv, Gated, Answered, Before
<1>4. Alone'
  <2>1. \A q \in Tabs : tab[q].at \in InConversation \cup {"converse"} => tab[q].turn \in Turns
    BY DEF TurnsInv, TurnsTyped, Placed, InConversation, PastGate
  <2>2. ASSUME ~lostClaim, NEW q \in Tabs, q # p
        PROVE  Protected(q)'
    <3>1. Protected(q) /\ tab'[q] = tab[q]
      BY <2>2 DEF TurnsInv, Alone, Protected
    <3>2. /\ tab[q].at \in InConversation => convClaim' = q
          /\ tab[q].at \in InConversation \cup {"converse"} => turnClaim'[tab[q].turn] = q
      BY <2>1, <2>2, <3>1 DEF Protected
    <3> QED
      BY <3>1, <3>2 DEF Protected, Answered
  <2>3. ~lostClaim => \A q \in Tabs : Protected(q)'
    BY <2>2
  <2> QED
    BY <2>3 DEF Alone, Protected
<1> QED
  BY <1>1, <1>2, <1>3, <1>4 DEF TurnsInv

LEMMA RequestHas ==
  ASSUME TurnsInv, NEW p \in Tabs, tab[p].at \notin {"idle", "append"}
  PROVE  /\ tab[p].turn \in sent /\ tab[p].turn \in Turns
         /\ turnClaim \in [Turns -> Tabs \cup {NoTab}] /\ convClaim \in Tabs \cup {NoTab}
         /\ ~lostClaim => Protected(p)
  BY DEF TurnsInv, TurnsTyped, Placed, Alone, Protected

LEMMA ClaimKeeps ==
  ASSUME TurnsInv, NEW p \in Tabs, TryClaimTurn(p) \/ ReplayReply(p)
  PROVE  TurnsInv'
<1> USE TurnsAssumption
<1> DEFINE t == tab[p].turn
<1>1. CASE TryClaimTurn(p)
  <2>1. /\ tab[p].at = "claim" /\ UNCHANGED <<place, sent, late, reply, convClaim, lostClaim>>
        /\ turnClaim' = IF turnClaim[t] = NoTab THEN [turnClaim EXCEPT ![t] = p] ELSE turnClaim
        /\ Step(p, "replay")
    BY <1>1 DEF TryClaimTurn, messages
  <2>2. /\ tab' \in [Tabs -> Request] /\ tab'[p].at = "replay" /\ tab'[p].turn = t
        /\ \A q \in Tabs : q # p => tab'[q] = tab[q]
    BY <2>1, TabGoesOn DEF TurnsInv, TabSteps
  <2>3. t \in Turns /\ turnClaim \in [Turns -> Tabs \cup {NoTab}] /\ convClaim \in Tabs \cup {NoTab}
    BY <2>1, RequestHas
  <2>4. /\ turnClaim' \in [Turns -> Tabs \cup {NoTab}]
        /\ \A q \in Tabs, u \in Turns : q # p /\ turnClaim[u] = q => turnClaim'[u] = q
    BY <2>1, <2>3
  <2>5. Protected(p)'
    BY <2>2 DEF Protected, InConversation, PastGate
  <2> QED
    BY <2>1, <2>2, <2>3, <2>4, <2>5, RequestKeeps DEF PastGate
<1>2. CASE ReplayReply(p)
  <2>1. /\ tab[p].at = "replay"
        /\ UNCHANGED <<place, sent, late, reply, turnClaim, convClaim, lostClaim>>
    BY <1>2 DEF ReplayReply, messages, claims
  <2>2. t \in Turns /\ turnClaim \in [Turns -> Tabs \cup {NoTab}] /\ convClaim \in Tabs \cup {NoTab}
    BY <2>1, RequestHas
  <2>3. /\ tab' \in [Tabs -> Request] /\ \A q \in Tabs : q # p => tab'[q] = tab[q]
        /\ \/ tab'[p].at = "releaseTurn" /\ tab'[p].turn = t
           \/ tab'[p].at = "converse" /\ tab'[p].turn = t /\ turnClaim[t] = p /\ ~Answered(t)
           \/ tab'[p].at = "idle"
    BY <1>2, TabGoesOn, TabEnds DEF ReplayReply, TurnsInv, TabSteps
  <2>4. Protected(p)'
    BY <2>1, <2>3 DEF Protected, InConversation, PastGate, Answered
  <2> QED
    BY <2>1, <2>2, <2>3, <2>4, RequestKeeps DEF PastGate
<1> QED
  BY <1>1, <1>2

LEMMA ConversationKeeps ==
  ASSUME TurnsInv, NEW p \in Tabs, TryClaimConversation(p)
  PROVE  TurnsInv'
<1> USE TurnsAssumption
<1> DEFINE t == tab[p].turn
<1>1. /\ tab[p].at = "converse" /\ UNCHANGED <<place, sent, late, reply, turnClaim, lostClaim>>
      /\ \/ convClaim = NoTab /\ convClaim' = p /\ Step(p, "order")
         \/ convClaim' = convClaim /\ Step(p, "releaseTurn")
  BY DEF TryClaimConversation, messages
<1>2. /\ t \in Turns /\ turnClaim \in [Turns -> Tabs \cup {NoTab}] /\ convClaim \in Tabs \cup {NoTab}
      /\ ~lostClaim => turnClaim[t] = p /\ ~Answered(t)
  BY <1>1, RequestHas DEF Protected
<1>3. /\ tab' \in [Tabs -> Request] /\ tab'[p].turn = t /\ \A q \in Tabs : q # p => tab'[q] = tab[q]
      /\ \/ tab'[p].at = "order" /\ convClaim' = p /\ convClaim = NoTab
         \/ tab'[p].at = "releaseTurn" /\ convClaim' = convClaim
  BY <1>1, TabGoesOn DEF TurnsInv, TabSteps
<1>4. ~lostClaim => Protected(p)'
  BY <1>1, <1>2, <1>3 DEF Protected, InConversation, PastGate, Answered
<1> QED
  BY <1>1, <1>2, <1>3, <1>4, RequestKeeps DEF PastGate

\* earliestUnansweredOwnerId lets a turn pass when everything before it is answered.
LEMMA GateKeeps ==
  ASSUME TurnsInv, NEW p \in Tabs, OrderGate(p) \/ SpendGate(p)
  PROVE  TurnsInv'
<1> DEFINE t == tab[p].turn
<1>1. /\ tab[p].at \in {"order", "spend"}
      /\ UNCHANGED <<place, sent, late, reply, turnClaim, convClaim, lostClaim>>
  BY DEF OrderGate, SpendGate, messages, claims
<1>2. /\ t \in Turns /\ t \in sent /\ turnClaim \in [Turns -> Tabs \cup {NoTab}] /\ convClaim \in Tabs \cup {NoTab}
      /\ ~lostClaim => Protected(p)
  BY <1>1, RequestHas
<1>3. PICK at \in {"spend", "prompt", "releaseConversation"} :
        /\ Step(p, at)
        /\ at # "releaseConversation" => \A u \in sent \ late : Before(u, t) => Answered(u)
  <2>1. CASE SpendGate(p)
    BY <2>1 DEF SpendGate, TurnsInv, Gated, PastGate
  <2>2. CASE OrderGate(p)
    <3>1. CASE Unanswered = {} \/ \E u \in Unanswered : u = t /\ \A v \in Unanswered : ~Before(v, u)
      <4>1. \A u \in sent : Before(u, t) => Answered(u)
        BY <3>1 DEF Unanswered
      <4> QED
        BY <2>2, <3>1, <4>1 DEF OrderGate
    <3> QED
      BY <2>2, <3>1 DEF OrderGate
  <2> QED
    BY <2>1, <2>2
<1>4. /\ tab' \in [Tabs -> Request] /\ tab'[p].at = at /\ tab'[p].turn = t
      /\ \A q \in Tabs : q # p => tab'[q] = tab[q]
  BY <1>3, TabGoesOn DEF TurnsInv, TabSteps
<1>5. ~lostClaim => Protected(p)'
  BY <1>1, <1>2, <1>3, <1>4 DEF Protected, InConversation, PastGate, Answered
<1> QED
  BY <1>1, <1>2, <1>3, <1>4, <1>5, RequestKeeps DEF PastGate

LEMMA PromptKeeps ==
  ASSUME TurnsInv, NEW p \in Tabs, LoadPromptTurns(p)
  PROVE  TurnsInv'
<1> DEFINE t == tab[p].turn
           read == {u \in sent : /\ Before(u, t) /\ InWindow(u, t)
                                  /\ reply[u] = "complete"}
<1>1. /\ tab[p].at = "prompt" /\ tab' = [tab EXCEPT ![p].at = "run", ![p].prompt = read]
      /\ UNCHANGED <<place, sent, late, reply, turnClaim, convClaim, lostClaim>>
  BY DEF LoadPromptTurns, messages, claims
<1>2. /\ t \in Turns /\ turnClaim \in [Turns -> Tabs \cup {NoTab}] /\ convClaim \in Tabs \cup {NoTab}
      /\ ~lostClaim => Protected(p)
  BY <1>1, RequestHas
<1>3. read \in SUBSET Turns
  BY DEF TurnsInv, TurnsTyped
<1>4. /\ tab' \in [Tabs -> Request] /\ tab'[p].at = "run" /\ tab'[p].turn = t /\ tab'[p].prompt = read
      /\ \A q \in Tabs : q # p => tab'[q] = tab[q]
  <2> HIDE DEF read
  <2> QED
    BY <1>1, <1>3 DEF TurnsInv, TurnsTyped, Request, TabSteps
<1>5. ~lostClaim => Protected(p)'
  BY <1>1, <1>2, <1>4 DEF Protected, InConversation, PastGate, Answered
<1>6. \A u \in sent \ late : Before(u, t) => Answered(u)
  BY <1>1 DEF TurnsInv, Gated, PastGate
<1> QED
  BY <1>1, <1>2, <1>4, <1>5, <1>6, RequestKeeps DEF PastGate

LEMMA ProviderKeeps ==
  ASSUME TurnsInv, NEW p \in Tabs, RunProvider(p)
  PROVE  TurnsInv'
<1> DEFINE t == tab[p].turn
<1>1. /\ tab[p].at = "run"
      /\ UNCHANGED <<place, sent, late, reply, turnClaim, convClaim, lostClaim>>
  BY DEF RunProvider, messages, claims
<1>2. /\ t \in Turns /\ turnClaim \in [Turns -> Tabs \cup {NoTab}] /\ convClaim \in Tabs \cup {NoTab}
      /\ ~lostClaim => Protected(p)
  BY <1>1, RequestHas
<1>3. PICK end \in {"complete", "interrupted", "releaseConversation"} : Step(p, end)
  BY DEF RunProvider
<1>4. /\ tab' \in [Tabs -> Request] /\ tab'[p].at = end /\ tab'[p].turn = t /\ tab'[p].prompt = tab[p].prompt
      /\ \A q \in Tabs : q # p => tab'[q] = tab[q]
  BY <1>3, TabGoesOn DEF TurnsInv, TabSteps, Replies
<1>5. ~lostClaim => Protected(p)'
  BY <1>1, <1>2, <1>4 DEF Protected, InConversation, PastGate, Answered
<1>6. /\ \A u \in sent \ late : Before(u, t) => Answered(u)
      /\ \A u \in sent \ late :
           Before(u, t) /\ InWindow(u, t) /\ reply[u] = "complete" => u \in tab[p].prompt
  BY <1>1 DEF TurnsInv, Gated, PastGate
<1> QED
  BY <1>1, <1>2, <1>4, <1>5, <1>6, RequestKeeps DEF PastGate

LEMMA ReleaseKeeps ==
  ASSUME TurnsInv, NEW p \in Tabs, ReleaseConversation(p) \/ ReleaseTurn(p)
  PROVE  TurnsInv'
<1> USE TurnsAssumption
<1>1. CASE ReleaseConversation(p)
  <2>1. /\ tab[p].at = "releaseConversation" /\ Step(p, "releaseTurn")
        /\ UNCHANGED <<place, sent, late, reply, turnClaim, lostClaim>>
        /\ convClaim' = IF convClaim = p THEN NoTab ELSE convClaim
    BY <1>1 DEF ReleaseConversation, messages
  <2>2. turnClaim \in [Turns -> Tabs \cup {NoTab}] /\ convClaim \in Tabs \cup {NoTab}
    BY <2>1, RequestHas
  <2>3. /\ tab' \in [Tabs -> Request] /\ tab'[p].at = "releaseTurn" /\ tab'[p].turn = tab[p].turn
        /\ \A q \in Tabs : q # p => tab'[q] = tab[q]
    BY <2>1, TabGoesOn DEF TurnsInv, TabSteps
  <2>4. Protected(p)'
    BY <2>3 DEF Protected, InConversation, PastGate
  <2> QED
    BY <2>1, <2>2, <2>3, <2>4, RequestKeeps DEF PastGate
<1>2. CASE ReleaseTurn(p)
  <2>1. /\ tab[p].at = "releaseTurn" /\ EndRequest(p)
        /\ UNCHANGED <<place, sent, late, reply, convClaim, lostClaim>>
        /\ turnClaim' = [t \in Turns |-> IF turnClaim[t] = p THEN NoTab ELSE turnClaim[t]]
    BY <1>2 DEF ReleaseTurn, messages
  <2>2. turnClaim \in [Turns -> Tabs \cup {NoTab}] /\ convClaim \in Tabs \cup {NoTab}
    BY <2>1, RequestHas
  <2>3. /\ tab' \in [Tabs -> Request] /\ tab'[p].at = "idle"
        /\ \A q \in Tabs : q # p => tab'[q] = tab[q]
    BY <2>1, TabEnds DEF TurnsInv
  <2>4. Protected(p)'
    BY <2>3 DEF Protected, InConversation, PastGate
  <2> QED
    BY <2>1, <2>2, <2>3, <2>4, RequestKeeps DEF PastGate
<1> QED
  BY <1>1, <1>2

\* A reply is written for a turn whose predecessors are answered, and no other
\* request is at work on it.
LEMMA PersistKeeps ==
  ASSUME TurnsInv, NEW p \in Tabs, PersistReply(p)
  PROVE  TurnsInv'
<1> DEFINE t == tab[p].turn
<1>1. /\ tab[p].at \in {"complete", "interrupted"} /\ Step(p, "releaseConversation")
      /\ UNCHANGED <<place, sent, late, turnClaim, convClaim, lostClaim>>
      /\ \/ reply' = reply
         \/ ~Answered(t) /\ reply' = [reply EXCEPT ![t] = tab[p].at]
  BY DEF PersistReply, messages, claims
<1>2. /\ t \in Turns /\ t \in sent /\ turnClaim \in [Turns -> Tabs \cup {NoTab}] /\ convClaim \in Tabs \cup {NoTab}
      /\ ~lostClaim => Protected(p)
  BY <1>1, RequestHas
<1>3. /\ tab' \in [Tabs -> Request] /\ tab'[p].at = "releaseConversation" /\ tab'[p].turn = t
      /\ \A q \in Tabs : q # p => tab'[q] = tab[q]
  BY <1>1, TabGoesOn DEF TurnsInv, TabSteps
<1>4. CASE reply' = reply
  <2>1. ~lostClaim => Protected(p)'
    BY <1>1, <1>2, <1>3 DEF Protected, InConversation, PastGate
  <2> QED
    BY <1>1, <1>2, <1>3, <1>4, <2>1, RequestKeeps DEF PastGate
<1>5. CASE ~Answered(t) /\ reply' = [reply EXCEPT ![t] = tab[p].at]
  <2>1. /\ reply' \in [Turns -> Replies] /\ \A u \in Turns : u # t => reply'[u] = reply[u]
        /\ reply'[t] # "none" /\ \A u \in Turns : Answered(u) => reply'[u] = reply[u]
    BY <1>1, <1>2, <1>5 DEF TurnsInv, TurnsTyped, Replies, Answered
  <2>2. TurnsTyped'
    BY <1>1, <1>3, <2>1 DEF TurnsInv, TurnsTyped
  <2>3. Placed'
    BY <1>1, <1>2, <1>3, <2>1 DEF TurnsInv, Placed, Answered
  <2>4. /\ \A u \in sent \ late : Before(u, t) => Answered(u)
        /\ \A q \in Tabs : tab[q].at \in PastGate =>
             \A u \in sent \ late : Before(u, tab[q].turn) => Answered(u)
    BY <1>1 DEF TurnsInv, Gated, PastGate
  <2>5. \A q \in Tabs : q # p /\ tab[q].at \in PastGate /\ t \in sent \ late => ~Before(t, tab[q].turn)
    BY <1>5, <2>4
  <2>6. sent \subseteq Turns /\ \A u \in Turns : Answered(u) => Answered(u)'
    BY <2>1 DEF TurnsInv, TurnsTyped, Answered
  <2>7. \A u, v \in Turns : Before(u, v)' <=> Before(u, v)
    BY <1>1 DEF Before
  <2>8. Gated'
    <3>1. ASSUME NEW v \in sent \ late, NEW u \in sent \ late, Before(u, v), Answered(v)'
          PROVE  Answered(u)'
      <4>1. CASE v = t
        BY <2>4, <2>6, <3>1, <4>1
      <4>2. CASE v # t
        BY <2>1, <2>6, <3>1, <4>2 DEF TurnsInv, Gated, Answered
      <4> QED
        BY <4>1, <4>2
    <3>2. ASSUME NEW q \in Tabs, tab'[q].at \in PastGate, NEW u \in sent \ late, Before(u, tab[q].turn)
          PROVE  Answered(u)' /\ q # p /\ tab'[q] = tab[q]
      BY <1>3, <2>4, <2>6, <3>2 DEF PastGate
    <3>3. ASSUME NEW q \in Tabs, tab'[q].at \in {"run", "complete", "interrupted"},
                 NEW u \in sent \ late, (Before(u, tab[q].turn) /\ InWindow(u, tab[q].turn))', reply'[u] = "complete"
          PROVE  u \in tab'[q].prompt
      <4>1. q # p /\ tab'[q] = tab[q] /\ tab[q].at \in PastGate
        BY <1>3, <3>3 DEF PastGate
      <4>2. u # t /\ u \in Turns
        BY <1>1, <2>5, <2>6, <3>3, <4>1 DEF Before
      <4>3. reply[u] = "complete" /\ tab[q].at \in {"run", "complete", "interrupted"}
        BY <2>1, <3>3, <4>1, <4>2
      <4> QED
        BY <1>1, <2>6, <3>3, <4>1, <4>3, PromptStays
    <3>4. \A q \in Tabs : tab'[q].turn = tab[q].turn
      BY <1>3
    <3> QED
      BY <1>1, <3>1, <3>2, <3>3, <3>4 DEF Gated, Before
  <2>9. Alone'
    <3>1. ASSUME ~lostClaim, NEW q \in Tabs, q # p
          PROVE  Protected(q)'
      <4>1. Protected(q) /\ tab'[q] = tab[q] /\ turnClaim[t] = p
        BY <1>1, <1>2, <1>3, <3>1 DEF TurnsInv, Alone, Protected, InConversation, PastGate
      <4>2. tab[q].at \in PastGate \cup {"order", "converse"} => tab[q].turn # t /\ tab[q].turn \in Turns
        BY <3>1, <4>1 DEF Protected, InConversation, PastGate, TurnsInv, TurnsTyped, Placed
      <4> QED
        BY <1>1, <2>1, <4>1, <4>2 DEF Protected, Answered
    <3>2. ~lostClaim => Protected(p)'
      BY <1>1, <1>2, <1>3 DEF Protected, InConversation, PastGate
    <3> QED
      BY <1>1, <3>1, <3>2 DEF Alone, Protected
  <2> QED
    BY <2>2, <2>3, <2>8, <2>9 DEF TurnsInv
<1> QED
  BY <1>1, <1>4, <1>5

\* A new message goes behind all the others, and nobody sees it before its commit.
LEMMA AppendKeeps ==
  ASSUME TurnsInv, NEW p \in Tabs, NEW t \in Turns, AppendOwnerMessage(p, t)
  PROVE  TurnsInv'
<1>1. tab[p].at = "idle" /\ UNCHANGED <<sent, reply, late, turnClaim, convClaim, lostClaim>>
  BY DEF AppendOwnerMessage, claims
<1>2. PICK at \in {"append", "claim"} :
        /\ tab' = [tab EXCEPT ![p] = [NoRequest EXCEPT !.at = at, !.turn = t]]
        /\ at = "append" => place[t] = 0 /\ place' = [place EXCEPT ![t] = Max({place[u] : u \in Turns}) + 1]
        /\ at = "claim" => t \in sent /\ place' = place
  BY DEF AppendOwnerMessage
<1>3. /\ tab' \in [Tabs -> Request] /\ tab'[p].at = at /\ tab'[p].turn = t
      /\ \A q \in Tabs : q # p => tab'[q] = tab[q]
  BY <1>2 DEF TurnsInv, TurnsTyped, Request, NoRequest, TabSteps
<1>4. /\ place' \in [Turns -> Nat] /\ \A u \in Turns : u # t => place'[u] = place[u]
      /\ \E n \in Nat : \A u \in Turns : place'[u] <= n
      /\ at = "append" => place'[t] > 0
  <2> DEFINE S == {place[u] : u \in Turns}
             m == Max(S)
  <2>1. place \in [Turns -> Nat]
    BY DEF TurnsInv, TurnsTyped
  <2>2. PICK n \in Nat : \A u \in Turns : place[u] <= n
    BY DEF TurnsInv, TurnsTyped
  <2>3. S \in SUBSET Nat /\ S # {} /\ \A x \in S : x <= n
    BY <2>1, <2>2
  <2>4. m \in Nat /\ \A x \in S : x <= m
    <3> HIDE DEF S
    <3> QED
      BY <2>3, LargestExists
  <2>5. \A u \in Turns : place[u] <= m
    BY <2>4
  <2>6. CASE at = "append"
    <3> HIDE DEF m
    <3>1. place' = [place EXCEPT ![t] = m + 1]
      BY <1>2, <2>6 DEF m
    <3>2. /\ place' \in [Turns -> Nat] /\ \A u \in Turns : u # t => place'[u] = place[u]
          /\ place'[t] = m + 1 /\ m + 1 \in Nat /\ m + 1 > 0
      BY <2>1, <2>4, <3>1
    <3>3. \A u \in Turns : place'[u] <= m + 1
      <4> TAKE u \in Turns
      <4>1. place[u] \in Nat /\ place[u] <= m
        BY <2>1, <2>5
      <4> QED
        BY <2>4, <3>2, <4>1
    <3> QED
      BY <3>2, <3>3
  <2>7. CASE at = "claim"
    BY <1>2, <2>1, <2>2, <2>7
  <2> QED
    BY <2>6, <2>7
<1>5. TurnsTyped'
  BY <1>1, <1>3, <1>4 DEF TurnsInv, TurnsTyped
<1>6. t \in sent => place' = place
  <2>1. \A u \in sent : place[u] > 0
    BY DEF TurnsInv, Placed
  <2> QED
    BY <1>2, <2>1
<1>7. \A u \in sent : u \in Turns /\ place'[u] = place[u]
  BY <1>4, <1>6 DEF TurnsInv, TurnsTyped
<1>8. Placed'
  <2>1. ASSUME NEW q \in Tabs, q # p, tab[q].at = "append"
        PROVE  tab[q].turn \in Turns \ sent /\ place'[tab[q].turn] > 0 /\ (at = "append" => tab[q].turn # t)
    <3>1. tab[q].turn \in Turns \ sent /\ place[tab[q].turn] > 0
      BY <2>1 DEF TurnsInv, Placed
    <3>2. at = "append" => tab[q].turn # t
      BY <1>2, <3>1
    <3>3. at = "claim" => place' = place
      BY <1>2
    <3> QED
      BY <1>4, <3>1, <3>2, <3>3
  <2>2. at = "append" => t \in Turns \ sent
    BY <1>2 DEF TurnsInv, Placed
  <2>3. at = "claim" => t \in sent
    BY <1>2
  <2> QED
    BY <1>1, <1>3, <1>4, <1>7, <2>1, <2>2, <2>3 DEF TurnsInv, Placed, Answered
<1>9. Gated'
  <2>1. \A q \in Tabs : tab'[q].at \in PastGate =>
          q # p /\ tab'[q] = tab[q] /\ tab[q].turn \in sent
    BY <1>3 DEF PastGate, TurnsInv, Placed
  <2>2. {"run", "complete", "interrupted"} \subseteq PastGate
    BY DEF PastGate
  <2>3. ASSUME NEW q \in Tabs, tab'[q].at \in {"run", "complete", "interrupted"},
               NEW u \in sent \ late, (Before(u, tab[q].turn) /\ InWindow(u, tab[q].turn))', reply[u] = "complete"
        PROVE  u \in tab'[q].prompt
    <3>1. tab'[q] = tab[q] /\ tab[q].at \in {"run", "complete", "interrupted"}
      BY <2>1, <2>2, <2>3
    <3>2. sent' = sent /\ sent \subseteq Turns /\ \A v \in sent : place'[v] = place[v]
      BY <1>1, <1>7 DEF TurnsInv, TurnsTyped
    <3> QED
      BY <2>3, <3>1, <3>2, PromptStays
  <2> QED
    BY <1>1, <1>7, <2>1, <2>2, <2>3 DEF TurnsInv, Gated, Before, Answered
<1>10. Alone'
  <2>1. \A q \in Tabs : tab'[q].at \in InConversation \cup PastGate \cup {"converse", "order"} => tab'[q] = tab[q]
    BY <1>3 DEF InConversation, PastGate
  <2> QED
    BY <1>1, <2>1 DEF TurnsInv, Alone, Answered
<1> QED
  BY <1>5, <1>8, <1>9, <1>10 DEF TurnsInv

\* A commit behind a turn that has passed the gate is a late one.
LEMMA CommitKeeps ==
  ASSUME TurnsInv, NEW p \in Tabs, CommitOwnerMessage(p)
  PROVE  TurnsInv'
<1> DEFINE t == tab[p].turn
<1>1. /\ tab[p].at = "append" /\ Step(p, "claim") /\ sent' = sent \cup {t}
      /\ late' = late \cup {u \in {t} : \E v \in Started : Before(u, v)}
      /\ UNCHANGED <<place, reply, turnClaim, convClaim, lostClaim>>
  BY DEF CommitOwnerMessage, claims
<1>2. t \in Turns \ sent /\ place[t] > 0
  BY <1>1 DEF TurnsInv, Placed
<1>3. /\ tab' \in [Tabs -> Request] /\ tab'[p].at = "claim" /\ tab'[p].turn = t
      /\ \A q \in Tabs : q # p => tab'[q] = tab[q]
  BY <1>1, TabGoesOn DEF TurnsInv, TabSteps
<1>4. TurnsTyped'
  BY <1>1, <1>2, <1>3 DEF TurnsInv, TurnsTyped
<1>5. Placed'
  BY <1>1, <1>2, <1>3 DEF TurnsInv, Placed, Answered
<1>6. \A u \in sent' \ late' : u \in sent \ late \/ (u = t /\ \A v \in Started : ~Before(t, v))
  BY <1>1
<1>7. /\ \A v \in Turns : Answered(v) => v \in Started
      /\ \A q \in Tabs : tab[q].at \in PastGate => tab[q].turn \in Started
  BY DEF Started, PastGate, Replies
<1>8. ~Answered(t)
  BY <1>2 DEF TurnsInv, Placed
<1>9. Gated'
  <2>1. \A u, v \in Turns : Before(u, v)' <=> Before(u, v)
    BY <1>1 DEF Before
  <2>2. \A q \in Tabs : tab'[q].at \in PastGate => q # p /\ tab'[q] = tab[q]
    BY <1>3 DEF PastGate
  <2>3. ASSUME NEW v \in sent' \ late', NEW u \in sent' \ late', Before(u, v), Answered(v)
        PROVE  Answered(u)
    <3>1. v \in Turns /\ v \in sent \ late
      BY <1>2, <1>6, <1>8, <2>3 DEF TurnsInv, TurnsTyped
    <3> QED
      BY <1>6, <1>7, <2>3, <3>1 DEF TurnsInv, Gated
  <2>4. ASSUME NEW q \in Tabs, tab'[q].at \in PastGate, NEW u \in sent' \ late', Before(u, tab[q].turn)
        PROVE  u \in sent \ late /\ Answered(u)
    BY <1>6, <1>7, <2>2, <2>4 DEF TurnsInv, Gated
  <2>5. {"run", "complete", "interrupted"} \subseteq PastGate
    BY DEF PastGate
  <2>6. ASSUME NEW q \in Tabs, tab'[q].at \in {"run", "complete", "interrupted"},
               NEW u \in sent' \ late', (Before(u, tab[q].turn) /\ InWindow(u, tab[q].turn))', reply[u] = "complete"
        PROVE  u \in tab'[q].prompt
    <3>1. tab'[q] = tab[q] /\ tab[q].at \in {"run", "complete", "interrupted"}
      BY <2>2, <2>5, <2>6
    <3>2. Before(u, tab[q].turn)
      BY <1>1, <2>6, <3>1 DEF Before
    <3>3. u \in sent \ late
      BY <2>4, <2>5, <2>6, <3>2
    <3>4. sent \subseteq sent' /\ sent' \subseteq Turns
      BY <1>1, <1>4 DEF TurnsTyped
    <3> QED
      BY <1>1, <2>6, <3>1, <3>3, <3>4, PromptStays
  <2> QED
    BY <1>1, <2>2, <2>3, <2>4, <2>5, <2>6 DEF Gated, Before, Answered
<1>10. Alone'
  <2>1. \A q \in Tabs : tab'[q].at \in InConversation \cup PastGate \cup {"converse", "order"} => tab'[q] = tab[q]
    BY <1>3 DEF InConversation, PastGate
  <2> QED
    BY <1>1, <2>1 DEF TurnsInv, Alone, Answered
<1> QED
  BY <1>4, <1>5, <1>9, <1>10 DEF TurnsInv

\* A dead request takes its claims and its open insert with it, and nothing else.
LEMMA DeathKeeps ==
  ASSUME TurnsInv, NEW p \in Tabs, TabCrash(p)
  PROVE  TurnsInv'
<1>1. /\ tab[p].at # "idle" /\ EndRequest(p)
      /\ place' = IF tab[p].at = "append" THEN [place EXCEPT ![tab[p].turn] = 0] ELSE place
      /\ turnClaim' = [t \in Turns |-> IF turnClaim[t] = p THEN NoTab ELSE turnClaim[t]]
      /\ convClaim' = IF convClaim = p THEN NoTab ELSE convClaim
      /\ UNCHANGED <<sent, reply, late, lostClaim>>
  BY DEF TabCrash
<1>2. /\ tab' \in [Tabs -> Request] /\ tab'[p].at = "idle"
      /\ \A q \in Tabs : q # p => tab'[q] = tab[q]
  BY <1>1, TabEnds DEF TurnsInv
<1>3. /\ turnClaim' \in [Turns -> Tabs \cup {NoTab}] /\ convClaim' \in Tabs \cup {NoTab}
      /\ \A q \in Tabs : q # p /\ convClaim = q => convClaim' = q
      /\ \A q \in Tabs, t \in Turns : q # p /\ turnClaim[t] = q => turnClaim'[t] = q
  BY <1>1 DEF TurnsInv, TurnsTyped
<1>4. /\ place' \in [Turns -> Nat]
      /\ \A t \in Turns : place'[t] = place[t] \/ (tab[p].at = "append" /\ t = tab[p].turn /\ place'[t] = 0)
  BY <1>1 DEF TurnsInv, TurnsTyped
<1>5. /\ tab[p].at = "append" => tab[p].turn \notin sent
      /\ \A q \in Tabs : q # p /\ tab[q].at = "append" => ~(tab[p].at = "append" /\ tab[q].turn = tab[p].turn)
  BY DEF TurnsInv, Placed
<1>6. \A t \in sent : t \in Turns /\ place'[t] = place[t]
  BY <1>4, <1>5 DEF TurnsInv, TurnsTyped
<1>7. TurnsTyped'
  <2>1. PICK n \in Nat : \A t \in Turns : place[t] <= n
    BY DEF TurnsInv, TurnsTyped
  <2>2. \A t \in Turns : place'[t] <= n
    BY <1>4, <2>1
  <2> QED
    BY <1>1, <1>2, <1>3, <1>4, <2>2 DEF TurnsInv, TurnsTyped
<1>8. Placed'
  BY <1>1, <1>2, <1>4, <1>5, <1>6 DEF TurnsInv, Placed, Answered
<1>9. Gated'
  <2>1. \A q \in Tabs : tab'[q].at \in PastGate => q # p /\ tab'[q] = tab[q] /\ tab[q].turn \in sent
    BY <1>2 DEF PastGate, TurnsInv, Placed
  <2>2. {"run", "complete", "interrupted"} \subseteq PastGate
    BY DEF PastGate
  <2>3. ASSUME NEW q \in Tabs, tab'[q].at \in {"run", "complete", "interrupted"},
               NEW u \in sent \ late, (Before(u, tab[q].turn) /\ InWindow(u, tab[q].turn))', reply[u] = "complete"
        PROVE  u \in tab'[q].prompt
    <3>1. tab'[q] = tab[q] /\ tab[q].at \in {"run", "complete", "interrupted"}
      BY <2>1, <2>2, <2>3
    <3>2. sent' = sent /\ sent \subseteq Turns /\ \A v \in sent : place'[v] = place[v]
      BY <1>1, <1>6 DEF TurnsInv, TurnsTyped
    <3> QED
      BY <2>3, <3>1, <3>2, PromptStays
  <2> QED
    BY <1>1, <1>6, <2>1, <2>2, <2>3 DEF TurnsInv, Gated, Before, Answered
<1>10. Alone'
  <2>1. \A q \in Tabs : tab'[q].at \in InConversation \cup PastGate \cup {"converse", "order"} =>
          q # p /\ tab'[q] = tab[q] /\ tab[q].turn \in Turns
    BY <1>2 DEF InConversation, PastGate, TurnsInv, TurnsTyped, Placed
  <2> QED
    BY <1>1, <1>3, <2>1 DEF TurnsInv, Alone, Answered
<1> QED
  BY <1>7, <1>8, <1>9, <1>10 DEF TurnsInv

LEMMA LossKeeps ==
  ASSUME TurnsInv, NEW p \in Tabs, ClaimLost(p)
  PROVE  TurnsInv'
<1>1. /\ UNCHANGED <<place, sent, late, reply, tab>> /\ lostClaim' = TRUE
      /\ turnClaim' \in [Turns -> Tabs \cup {NoTab}] /\ convClaim' \in Tabs \cup {NoTab}
  BY DEF ClaimLost, messages, TurnsInv, TurnsTyped
<1>2. TurnsTyped'
  BY <1>1 DEF TurnsInv, TurnsTyped
<1>3. Placed' /\ Gated' /\ Alone'
  BY <1>1 DEF TurnsInv, Placed, Gated, Alone, Before, Answered, InWindow
<1> QED
  BY <1>2, <1>3 DEF TurnsInv

LEMMA TurnsInvStep == TurnsInv /\ [TurnsNext]_turnVars => TurnsInv'
<1> SUFFICES ASSUME TurnsInv, [TurnsNext]_turnVars PROVE TurnsInv'
  OBVIOUS
<1>1. ASSUME NEW p \in Tabs, Handle(p)
      PROVE  TurnsInv'
  BY <1>1, CommitKeeps, ClaimKeeps, ConversationKeeps, GateKeeps, PromptKeeps, ProviderKeeps, PersistKeeps,
     ReleaseKeeps DEF Handle
<1>2. ASSUME NEW p \in Tabs, TabCrash(p) \/ ClaimLost(p) \/ \E t \in Turns : AppendOwnerMessage(p, t)
      PROVE  TurnsInv'
  BY <1>2, DeathKeeps, LossKeeps, AppendKeeps
<1>3. CASE UNCHANGED turnVars
  <2>1. UNCHANGED <<place, sent, late, reply, turnClaim, convClaim, lostClaim, tab>>
    BY <1>3 DEF turnVars
  <2>2. TurnsTyped' /\ Placed'
    BY <2>1 DEF TurnsInv, TurnsTyped, Placed, Answered
  <2>3. Gated' /\ Alone'
    BY <2>1 DEF TurnsInv, Gated, Alone, Before, Answered, InWindow
  <2> QED
    BY <2>2, <2>3 DEF TurnsInv
<1> QED
  BY <1>1, <1>2, <1>3 DEF TurnsNext

LEMMA TurnsInvAlways == TurnsSpec => []TurnsInv
  BY TurnsInvInit, TurnsInvStep, PTL DEF TurnsSpec

\* The messages of a conversation are answered in the order they were sent, and a
\* prompt has the answers before it: for any number of tabs, retries, crashes and
\* lost claims, since the order gate and the unique reply do not rest on a claim.
THEOREM TurnsAnswerInOrder == TurnsSpec => []AnswersInOrder
<1>1. TurnsInv => AnswersInOrder
  <2> SUFFICES ASSUME TurnsInv PROVE AnswersInOrder
    OBVIOUS
  <2>1. \A p \in Tabs : tab[p].at = "run" \/ tab[p].at \in Replies =>
          tab[p].at \in {"run", "complete", "interrupted"} \/ tab[p].at \notin TabSteps
    BY DEF Replies, TabSteps
  <2>2. \A p \in Tabs : tab[p].at \in TabSteps
    BY DEF TurnsInv, TurnsTyped, Request
  <2> QED
    BY <2>1, <2>2 DEF TurnsInv, Gated, AnswersInOrder
<1> QED
  BY <1>1, TurnsInvAlways, PTL

\* While the sessions of the claims live, one request at a time pays a provider in a
\* conversation, and none for a turn that is answered (turn-claim.ts).
THEOREM TurnsRunAlone == TurnsSpec => []RunsAlone
<1>1. TurnsInv => RunsAlone
  <2> SUFFICES ASSUME TurnsInv, ~lostClaim PROVE RunsAlone
    BY DEF RunsAlone
  <2> DEFINE paying == {p \in Tabs : tab[p].at \in {"prompt", "run", "complete", "interrupted"}}
  <2>1. \A p \in paying : p \in Tabs /\ convClaim = p /\ ~Answered(tab[p].turn)
    BY DEF TurnsInv, Alone, InConversation, PastGate
  <2>2. Cardinality(paying) <= 1
    <3>1. paying = {} \/ \E p \in paying : paying = {p}
      BY <2>1
    <3> HIDE DEF paying
    <3>2. CASE paying = {}
      <4>1. Cardinality({}) = 0
        BY FS_EmptySet
      <4> QED
        BY <3>2, <4>1
    <3>3. CASE \E p \in paying : paying = {p}
      <4>1. PICK p \in paying : paying = {p}
        BY <3>3
      <4>2. Cardinality({p}) = 1
        BY FS_Singleton
      <4> QED
        BY <4>1, <4>2
    <3> QED
      BY <3>1, <3>2, <3>3
  <2> QED
    BY <2>1, <2>2 DEF RunsAlone
<1> QED
  BY <1>1, TurnsInvAlways, PTL

-----------------------------------------------------------------------------
(* Types of the cards and of the turns. *)

CardBounds ==
  /\ jobRun <= MaxReruns /\ \A c \in Cards : basis[c].run <= MaxReruns
  /\ cardFaults \in 0..MaxCardFaults
CardTypes == CardsInv /\ CardBounds

LEMMA CardTypesInit == CardsInit => CardTypes
<1> SUFFICES ASSUME CardsInit PROVE CardBounds
  BY CardsInvInit DEF CardTypes
<1>1. \A c \in Cards : basis[c].run = 0
  BY DEF CardsInit, NoBasis
<1> QED
  BY <1>1, CardsAssumption DEF CardsInit, CardBounds

LEMMA CardTypesStep == CardTypes /\ [CardsNext]_cardVars => CardTypes'
<1> SUFFICES ASSUME CardTypes, [CardsNext]_cardVars PROVE CardBounds'
  BY CardsInvStep DEF CardTypes
<1>1. jobRun \in Nat /\ basis \in [Cards -> [run : Nat, carried : SUBSET Decisions]]
  BY DEF CardTypes, CardsInv, CardsTyped
<1>2. \/ UNCHANGED <<jobRun, basis>>
      \/ jobRun < MaxReruns /\ jobRun' = jobRun + 1 /\ basis' = basis
      \/ \E c \in Cards : \E all :
           basis' = [basis EXCEPT ![c] = [run |-> jobRun, carried |-> all]] /\ jobRun' = jobRun
  <2>1. ASSUME NEW d \in Decisions, DecisionBegins(d) \/ DecisionCommits(d) PROVE UNCHANGED <<jobRun, basis>>
    BY <2>1 DEF DecisionBegins, DecisionCommits
  <2>2. CASE RerunJob
    BY <2>2 DEF RerunJob
  <2>3. ASSUME NEW c \in Cards, AddProposal(c) \/ AddUpdateProposal(c) PROVE UNCHANGED <<jobRun, basis>>
    BY <2>3 DEF AddProposal, AddUpdateProposal, jobState
  <2>4. ASSUME NEW c \in Cards, ProposeUpdateTask(c)
        PROVE  \E carried : /\ basis' = [basis EXCEPT ![c] = [run |-> jobRun, carried |-> carried]]
                            /\ jobRun' = jobRun
    BY <2>4 DEF ProposeUpdateTask, jobState
  <2>5. ASSUME NEW c \in Cards, NEW k \in Clicks, NEW intent \in {"confirm", "cancel"}, Click(k, c, intent)
        PROVE  UNCHANGED <<jobRun, basis>>
    BY <2>5 DEF Click, jobState
  <2>6. ASSUME NEW k \in Clicks,
               \/ CancelCard(k) \/ ConfirmCard(k) \/ RunAction(k) \/ BeginUpdate(k)
               \/ LockJob(k) \/ CheckUpdate(k) \/ CreateUpdateTask(k) \/ FinishCard(k) \/ ClickCrash(k)
        PROVE  UNCHANGED <<jobRun, basis>>
    BY <2>6 DEF CancelCard, ConfirmCard, RunAction, BeginUpdate, LockJob, CheckUpdate, CreateUpdateTask,
      FinishCard, ClickCrash, jobState
  <2>7. CASE UNCHANGED cardVars
    BY <2>7 DEF cardVars
  <2> QED
    BY <2>1, <2>2, <2>3, <2>4, <2>5, <2>6, <2>7 DEF CardsNext
<1>3. cardFaults' = cardFaults \/ CardFault
  BY DEF CardsNext, cardVars, DecisionBegins, DecisionCommits, RerunJob, AddProposal, AddUpdateProposal,
    ProposeUpdateTask, Click, CancelCard, ConfirmCard, RunAction, BeginUpdate, LockJob, CheckUpdate,
    CreateUpdateTask, FinishCard, ClickCrash
<1>4. cardFaults' \in 0..MaxCardFaults
  BY <1>3, CardsAssumption DEF CardTypes, CardBounds, CardFault
<1>5. jobRun' <= MaxReruns /\ \A c \in Cards : basis'[c].run <= MaxReruns
  BY <1>1, <1>2, CardsAssumption DEF CardTypes, CardBounds
<1> QED
  BY <1>4, <1>5 DEF CardBounds

LEMMA CardTypesAreTypes == CardTypes => CardsTypeOK
<1> SUFFICES ASSUME CardTypes PROVE CardsTypeOK
  OBVIOUS
<1>1. basis \in [Cards -> Basis] /\ jobRun \in 0..MaxReruns
  BY CardsAssumption DEF CardTypes, CardBounds, CardsInv, CardsTyped, Basis
<1>2. updates \in Seq([run : 0..MaxReruns, card : Cards, carried : SUBSET Decisions, began : SUBSET Decisions])
  <2> DEFINE Told == [run : 0..MaxReruns, card : Cards, carried : SUBSET Decisions, began : SUBSET Decisions]
  <2>1. updates \in Seq(UpdateTask)
    BY DEF CardTypes, CardsInv, CardsTyped
  <2>2. ASSUME NEW i \in 1..Len(updates) PROVE updates[i] \in Told
    <3>1. updates[i] \in UpdateTask /\ updates[i].run <= jobRun
      BY <2>1 DEF CardTypes, CardsInv, Ordered
    <3>2. updates[i].run \in 0..MaxReruns
      BY <1>1, <3>1, CardsAssumption DEF UpdateTask
    <3> QED
      BY <3>1, <3>2 DEF UpdateTask
  <2> HIDE DEF Told
  <2>3. updates \in [1..Len(updates) -> Told] /\ Len(updates) \in Nat
    BY <2>1, <2>2
  <2>4. updates \in Seq(Told)
    BY <2>3
  <2> QED
    BY <2>4 DEF Told
<1> QED
  BY <1>1, <1>2 DEF CardTypes, CardBounds, CardsInv, CardsTyped, CardsTypeOK, ClickRecord

\* Every step keeps the types of CardsTypeOK: a card, the claim of a click on it and the lock of
\* the job are in the states the tables know, and every update of a job is of one of its runs,
\* with decisions there are.
THEOREM CardsStayTyped == CardsSpec => []CardsTypeOK
BY CardTypesInit, CardTypesStep, CardTypesAreTypes, PTL DEF CardsSpec

TurnTypes == TurnsInv /\ turnFaults \in 0..MaxTurnFaults

LEMMA TurnTypesInit == TurnsInit => TurnTypes
BY TurnsInvInit, TurnsAssumption DEF TurnTypes, TurnsInit

LEMMA TurnTypesStep == TurnTypes /\ [TurnsNext]_turnVars => TurnTypes'
<1> SUFFICES ASSUME TurnTypes, [TurnsNext]_turnVars PROVE turnFaults' \in 0..MaxTurnFaults
  BY TurnsInvStep DEF TurnTypes
<1>1. turnFaults' = turnFaults \/ TurnFault
  BY DEF TurnsNext, Handle, turnVars, CommitOwnerMessage, TryClaimTurn, ReplayReply, TryClaimConversation,
    OrderGate, SpendGate, LoadPromptTurns, RunProvider, PersistReply, ReleaseConversation, ReleaseTurn,
    TabCrash, ClaimLost, AppendOwnerMessage
<1> QED
  BY <1>1, TurnsAssumption DEF TurnTypes, TurnFault

LEMMA TurnTypesAreTypes == TurnTypes => TurnsTypeOK
BY DEF TurnTypes, TurnsInv, TurnsTyped, TurnsTypeOK, Request

\* Every step keeps the types of TurnsTypeOK: the claims of turns and conversations are held by
\* tabs there are, and a reply is of one of the kinds a page can show.
THEOREM TurnsStayTyped == TurnsSpec => []TurnsTypeOK
BY TurnTypesInit, TurnTypesStep, TurnTypesAreTypes, PTL DEF TurnsSpec

=============================================================================
