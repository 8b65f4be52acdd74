----------------------------- MODULE Objectives -----------------------------
(***************************************************************************)
(* One objective of a workspace: its status, its success criteria, and the  *)
(* managers who work on it at the same time.                                *)
(*   src/src/domain/objectives/objectives.ts                                *)
(*                                                                         *)
(* Every operation reads the row, checks what it read, and updates by id    *)
(* under READ COMMITTED: the status alone, or the whole list of criteria.   *)
(* A refused operation leaves no trace.                                     *)
(***************************************************************************)
EXTENDS Naturals, Sequences, SequencesExt

CONSTANTS
  Managers,      \* people at work on the objective
  Measures,      \* the pairs of a target and a unit
  CriteriaCap,   \* 20
  MaxUpdates     \* bound on the requests of the managers

ASSUME ObjectivesAssumption ==
  "nothing" \notin Measures /\ CriteriaCap \in Nat \ {0} /\ MaxUpdates \in Nat

VARIABLES
  objective,  \* the committed row
  manager,    \* per manager: the update computed from what was read
  rewrites,
  crossed     \* ghost: a status and a list of criteria were changed at once

objectiveVars == <<objective, manager, rewrites, crossed>>

\* A criterion; judgedAs is the measure it was found met or waived under.
Criterion == [status : {"unmet", "met", "waived"}, measure : Measures,
              judgedAs : Measures \cup {"nothing"}]
Unmet(m) == [status |-> "unmet", measure |-> m, judgedAs |-> "nothing"]

CriteriaLists == BoundedSeq(Criterion, CriteriaCap)
Statuses == {"draft", "active", "completed", "cancelled"}
Idle == [writes |-> "nothing", value |-> <<>>, overtaken |-> FALSE]

ObjectivesTypeOK ==
  /\ objective.status \in Statuses \cup {"none"} /\ objective.criteria \in CriteriaLists
  /\ rewrites \in 0..MaxUpdates /\ crossed \in BOOLEAN
  /\ \A p \in Managers :
       \/ manager[p] = Idle
       \/ /\ manager[p].overtaken \in BOOLEAN
          /\ \/ manager[p].writes = "status" /\ manager[p].value \in Statuses
             \/ manager[p].writes = "criteria" /\ manager[p].value \in CriteriaLists

ObjectivesInit ==
  /\ objective = [status |-> "none", criteria |-> <<>>]
  /\ manager = [p \in Managers |-> Idle]
  /\ rewrites = 0 /\ crossed = FALSE

-----------------------------------------------------------------------------
\* A draft, with criteria nobody has judged.
CreateObjective ==
  /\ objective.status = "none"
  /\ \E criteria \in {<<>>} \cup {<<Unmet(m)>> : m \in Measures} :
       objective' = [status |-> "draft", criteria |-> criteria]
  /\ UNCHANGED <<manager, rewrites, crossed>>

Prepare(p, writes, value) ==
  /\ objective.status # "none" /\ manager[p] = Idle /\ rewrites < MaxUpdates /\ rewrites' = rewrites + 1
  /\ manager' = [manager EXCEPT ![p] = [Idle EXCEPT !.writes = writes, !.value = value]]
  /\ UNCHANGED <<objective, crossed>>

TRANSITIONS ==
  [none |-> {}, draft |-> {"active", "cancelled"}, active |-> {"completed", "cancelled"},
   completed |-> {}, cancelled |-> {}]

\* Activation wants a criterion, completion none that is unmet.
SetObjectiveStatus(p, next) ==
  /\ next \in TRANSITIONS[objective.status]
  /\ next = "active" => objective.criteria # <<>>
  /\ next = "completed" => \A i \in DOMAIN objective.criteria : objective.criteria[i].status # "unmet"
  /\ Prepare(p, "status", next)

\* assertOpenForCriteriaChange
OpenForCriteriaChange == objective.status \notin {"completed", "cancelled"}

SetCriterionStatus(p, i, status) ==
  /\ OpenForCriteriaChange /\ i \in DOMAIN objective.criteria
  /\ LET c == objective.criteria[i]
         judged == [c EXCEPT !.status = status,
                             !.judgedAs = IF status = "unmet" THEN "nothing" ELSE c.measure]
     IN Prepare(p, "criteria", ReplaceAt(objective.criteria, i, judged))

\* A new label leaves the criterion's verdict alone; a new measure resets it.
UpdateCriterion(p, i, m) ==
  /\ OpenForCriteriaChange /\ i \in DOMAIN objective.criteria
  /\ LET c == objective.criteria[i]
     IN Prepare(p, "criteria", ReplaceAt(objective.criteria, i, IF m = c.measure THEN c ELSE Unmet(m)))

AddCriterion(p, m) ==
  /\ OpenForCriteriaChange /\ Len(objective.criteria) < CriteriaCap
  /\ Prepare(p, "criteria", Append(objective.criteria, Unmet(m)))

\* Seeded bug: the last criterion of an active objective may be removed.
RemoveAnyCriterion(p, i) ==
  /\ OpenForCriteriaChange /\ i \in DOMAIN objective.criteria
  /\ Prepare(p, "criteria", RemoveAt(objective.criteria, i))

\* An active objective keeps at least one criterion.
RemoveCriterion(p, i) ==
  /\ OpenForCriteriaChange /\ i \in DOMAIN objective.criteria
  /\ ~(objective.status = "active" /\ Len(objective.criteria) = 1)
  /\ Prepare(p, "criteria", RemoveAt(objective.criteria, i))

\* The update by id and the commit: setObjectiveStatus writes the status,
\* writeCriteria and setCriterionStatus the list.
CommitUpdate(p) ==
  LET w == manager[p]
      other(q) == q # p /\ manager[q] # Idle /\ manager[q].writes # w.writes
  IN /\ w # Idle
     /\ objective' = IF w.writes = "status" THEN [objective EXCEPT !.status = w.value]
                     ELSE [objective EXCEPT !.criteria = w.value]
     /\ crossed' = (crossed \/ w.overtaken)
     /\ manager' = [q \in Managers |-> IF q = p THEN Idle
                                       ELSE [manager[q] EXCEPT !.overtaken = @ \/ other(q)]]
     /\ UNCHANGED rewrites

ObjectivesNext ==
  \/ CreateObjective
  \/ \E p \in Managers :
       \/ \E next \in Statuses : SetObjectiveStatus(p, next)
       \/ \E m \in Measures : AddCriterion(p, m)
       \/ \E i \in 1..CriteriaCap :
            \/ \E status \in {"met", "waived", "unmet"} : SetCriterionStatus(p, i, status)
            \/ \E m \in Measures : UpdateCriterion(p, i, m)
            \/ RemoveCriterion(p, i)
       \/ CommitUpdate(p)

ObjectivesSpec == ObjectivesInit /\ [][ObjectivesNext]_objectiveVars

-----------------------------------------------------------------------------
\* "An objective cannot reach completed while any success criterion is unmet",
\* up to concurrency: unless a change of status and a change of criteria
\* overlapped, an active or completed objective has a criterion and a completed
\* one has none unmet.  Criteria edits that overwrite one another, and changes
\* of status that do, cannot break this.  And whatever overlaps, no verdict
\* outlives the measure it was given under.
CompletionIsEarned ==
  LET c == objective.criteria
  IN /\ ~crossed =>
          /\ objective.status \in {"active", "completed"} => c # <<>>
          /\ objective.status = "completed" => \A i \in DOMAIN c : c[i].status # "unmet"
     /\ \A i \in DOMAIN c : c[i].status # "unmet" => c[i].judgedAs = c[i].measure
=============================================================================
