---------------------------- MODULE Dependencies ----------------------------
(***************************************************************************)
(* The dependency graph of a workspace: editors add and remove edges in     *)
(* transactions under READ COMMITTED, and prompts read the neighbourhood of *)
(* a task.                                                                  *)
(*   src/src/domain/dependencies/dependencies.ts                            *)
(*                                                                         *)
(* An edge is <<prerequisite, dependent>>.  A refused edit rolls back and   *)
(* leaves no trace; the insert is taken with its commit, for nobody reads   *)
(* it earlier.                                                              *)
(***************************************************************************)
EXTENDS Naturals, Sequences, FiniteSets, FiniteSetsExt

CONSTANTS
  GraphTasks,  \* the tasks of the workspace
  DemoTasks,   \* those classified as demonstration work
  Editors,     \* admins editing at the same time
  NodeCap,     \* MAX_NODES
  WalkLimit,   \* levels after which a reachability walk gives up (guard < 1000)
  MaxEdits     \* bound on the requests of the editors

ASSUME DependenciesAssumption ==
  /\ IsFiniteSet(GraphTasks) /\ DemoTasks \subseteq GraphTasks
  /\ NodeCap \in Nat \ {0} /\ WalkLimit \in Nat \ {0} /\ MaxEdits \in Nat

VARIABLES
  deps,    \* the committed edges
  editor,  \* per editor: the edge it adds and its walk
  edits,
  raced,   \* ghost: edges whose walk another addition overtook
  cutoff   \* ghost: edges whose walk gave up with tasks left to look at

dependencyVars == <<deps, editor, edits, raced, cutoff>>

Edges == GraphTasks \X GraphTasks
Sources(E, nodes) == {d[1] : d \in {d \in E : d[2] \in nodes}}
Targets(E, nodes) == {d[2] : d \in {d \in E : d[1] \in nodes}}
NoWalk == [edge |-> <<>>, frontier |-> {}, visited |-> {}, level |-> 0, overtaken |-> FALSE]
Walking(p) == editor[p].edge # <<>>

DependenciesTypeOK ==
  /\ deps \subseteq Edges /\ raced \cup cutoff \subseteq deps /\ edits \in 0..MaxEdits
  /\ editor \in [Editors -> [edge : Edges \cup {<<>>}, frontier : SUBSET GraphTasks,
                             visited : SUBSET GraphTasks, level : 0..WalkLimit,
                             overtaken : BOOLEAN]]

DependenciesInit ==
  /\ deps = {} /\ raced = {} /\ cutoff = {} /\ edits = 0
  /\ editor = [p \in Editors |-> NoWalk]

-----------------------------------------------------------------------------
\* addDependency: no self-edge, no live task behind demonstration work; then
\* the walk starts at the dependent.
AddDependency(p, e) ==
  /\ ~Walking(p) /\ edits < MaxEdits /\ edits' = edits + 1
  /\ e[1] # e[2]
  /\ e[2] \in DemoTasks \/ e[1] \notin DemoTasks
  /\ editor' = [editor EXCEPT ![p] = [NoWalk EXCEPT !.edge = e, !.frontier = {e[2]}, !.visited = {e[2]}]]
  /\ UNCHANGED <<deps, raced, cutoff>>

\* Seeded bug: the walk looks one level far.
ReachesOneLevel(p) ==
  LET w == editor[p]
  IN /\ Walking(p) /\ w.frontier # {}
     /\ editor' = [editor EXCEPT ![p] =
          IF w.edge[1] \in Targets(deps, w.frontier) THEN NoWalk ELSE [w EXCEPT !.frontier = {}]]
     /\ UNCHANGED <<deps, edits, raced, cutoff>>

\* reaches: each level of the walk is one read of what is committed then, and
\* there are WalkLimit levels at most.
Reaches(p) ==
  LET w == editor[p]
      found == Targets(deps, w.frontier)
  IN /\ Walking(p) /\ w.frontier # {} /\ w.level < WalkLimit
     /\ editor' = [editor EXCEPT ![p] =
          IF w.edge[1] \in found THEN NoWalk
          ELSE [w EXCEPT !.frontier = found \ w.visited, !.visited = w.visited \cup found,
                         !.level = w.level + 1]]
     /\ UNCHANGED <<deps, edits, raced, cutoff>>

\* The target was not met, or the walk gave up, which reaches answers alike: the
\* edge is inserted unless it is there already.
InsertDependency(p) ==
  LET e == editor[p].edge
  IN /\ Walking(p) /\ (editor[p].frontier = {} \/ editor[p].level = WalkLimit)
     /\ deps' = deps \cup {e}
     /\ raced' = IF e \notin deps /\ editor[p].overtaken THEN raced \cup {e} ELSE raced
     /\ cutoff' = IF e \notin deps /\ editor[p].frontier # {} THEN cutoff \cup {e} ELSE cutoff
     /\ editor' = [q \in Editors |->
          IF q = p THEN NoWalk
          ELSE [editor[q] EXCEPT !.overtaken = @ \/ (Walking(q) /\ e \notin deps)]]
     /\ UNCHANGED edits

RemoveDependency(p, e) ==
  /\ ~Walking(p) /\ edits < MaxEdits /\ edits' = edits + 1
  /\ e \in deps
  /\ deps' = deps \ {e} /\ raced' = raced \ {e} /\ cutoff' = cutoff \ {e}
  /\ UNCHANGED editor

DependenciesNext ==
  \E p \in Editors :
    \/ \E e \in Edges : AddDependency(p, e) \/ RemoveDependency(p, e)
    \/ Reaches(p)
    \/ InsertDependency(p)

DependenciesSpec == DependenciesInit /\ [][DependenciesNext]_dependencyVars

-----------------------------------------------------------------------------
(* buildTaskGraph, over edges that do not change while it reads them.  Which *)
(* tasks are let in at the cap depends on the order of the rows: a set of    *)
(* outcomes.                                                                 *)

\* One level: the edges at the frontier, their ends, and the tasks that share
\* a prerequisite with the frontier.
Widen(g) ==
  LET touching == {d \in deps : d[1] \in g.frontier \/ d[2] \in g.frontier}
      known == g.edges \cup touching
      near == (UNION {{d[1], d[2]} : d \in touching})
                \cup Targets(deps, Sources(known, g.frontier))
      fetched == near \ g.nodes
      room == NodeCap - Cardinality(g.nodes)
  IN {[edges |-> known, nodes |-> g.nodes \cup new, frontier |-> near \cap (g.nodes \cup new),
       truncated |-> g.truncated \/ new # fetched]
        : new \in kSubset(Min({room, Cardinality(fetched)}), fetched)}

OnlyRoot(root) == [edges |-> {}, nodes |-> {root}, frontier |-> {root}, truncated |-> FALSE]

\* MAX_DEPTH is two levels.
BuildTaskGraph(root) == UNION {Widen(g) : g \in Widen(OnlyRoot(root))}

\* Kahn's algorithm: nodes without incoming edges are removed until none is
\* left; what remains has a cycle.  Edges to tasks outside are passed over.
HasCycle(g) ==
  LET peel[nodes \in SUBSET GraphTasks] ==
        LET first == {n \in nodes : Sources(g.edges, {n}) \cap nodes = {}}
        IN IF first = {} THEN nodes ELSE peel[nodes \ first]
  IN peel[g.nodes] # {}

BlockersOf(g, root, complete) == (Sources(g.edges, {root}) \cap g.nodes) \ complete

UnlockedOnCompletion(g, root, complete) ==
  {d \in Targets(g.edges, {root}) \cap g.nodes :
     (Sources(g.edges, {d}) \cap g.nodes) \ {root} \subseteq complete}

\* The number of tasks on the longest chain of incomplete prerequisites that
\* ends at the root, which counts itself.
CriticalChain(g, root, complete) ==
  LET chain[n \in GraphTasks] ==
        1 + Max({0} \cup {chain[p] : p \in (Sources(g.edges, {n}) \cap g.nodes) \ complete})
  IN chain[root]

-----------------------------------------------------------------------------
\* Everything E leads to from a set of tasks: what is in every set that holds
\* them and is closed under E.
Closure(E, from) ==
  {n \in GraphTasks : \A S \in SUBSET GraphTasks :
     from \subseteq S /\ Targets(E, S) \subseteq S => n \in S}

OnCycle(E, n) == n \in Closure(E, Targets(E, {n}))

\* The longest chain of incomplete prerequisites of a task in the whole graph.
LongestChain(root, complete) ==
  LET chain[n \in GraphTasks] == 1 + Max({0} \cup {chain[p] : p \in Sources(deps, {n}) \ complete})
  IN chain[root]

\* "Refuses an edge that would create a cycle" holds up to concurrency and up to
\* the limit of the walk (addDependency, reaches): every cycle has an edge whose
\* walk another addition overtook, or gave up, and no walk gives up unless the
\* workspace has at least two tasks more than the walk has levels.  Removals,
\* repeated additions and refused ones in between do no harm.
CyclesHaveACause ==
  /\ \A n \in GraphTasks : ~OnCycle(deps \ (raced \cup cutoff), n)
  /\ cutoff # {} => Cardinality(GraphTasks) >= WalkLimit + 2

\* What Kahn's algorithm finds: tasks each of which waits for one of them.
Circular(g) ==
  \E ring \in SUBSET g.nodes :
    ring # {} /\ \A n \in ring : Sources(g.edges, {n}) \cap ring # {}

\* A task waits for itself over at most three others.
ShortCycle(root) ==
  \E a, b \in GraphTasks :
    /\ {<<root, a>>, <<a, b>>} \subseteq deps
    /\ <<b, root>> \in deps \/ \E c \in GraphTasks : {<<b, c>>, <<c, root>>} \subseteq deps

\* A reported cycle exists, and unless the neighbourhood was truncated a cycle of up to
\* four tasks through the task is reported (buildTaskGraph, hasCycle).
CyclesAreTold(g, root) ==
  /\ Circular(g) => \E n \in GraphTasks : OnCycle(deps, n)
  /\ ~g.truncated /\ ShortCycle(root) => Circular(g)

\* Unless it was truncated, the blockers of the task and the tasks it unlocks are exactly
\* those of the whole graph, whatever is complete.
NeighboursAreTold(g, root) ==
  ~g.truncated => \A complete \in SUBSET GraphTasks :
    /\ BlockersOf(g, root, complete) = Sources(deps, {root}) \ complete
    /\ UnlockedOnCompletion(g, root, complete) =
         {d \in Targets(deps, {root}) : Sources(deps, {d}) \ {root} \subseteq complete}

\* And the critical chain is as long as the longest one, or ends at three tasks or more.
ChainsAreTold(g, root) ==
  ~g.truncated /\ ~HasCycle(g) /\ (\A n \in GraphTasks : ~OnCycle(deps, n)) =>
    \A complete \in SUBSET GraphTasks :
      LET told == CriticalChain(g, root, complete)
          real == LongestChain(root, complete)
      IN told <= real /\ told >= Min({3, real})

\* What a prompt is told about a task is so.
PromptsAreTold ==
  deps # {} /\ (\A p \in Editors : ~Walking(p)) =>
    \A root \in GraphTasks : \A g \in BuildTaskGraph(root) :
      /\ HasCycle(g) <=> Circular(g)
      /\ CyclesAreTold(g, root) /\ NeighboursAreTold(g, root) /\ ChainsAreTold(g, root)

\* The graph that prompts are built from is sound, and so are the prompts: a
\* cycle comes from a race or from a walk that gave up, and what a prompt is told
\* of its task is so.
GraphIsTrue == CyclesHaveACause /\ PromptsAreTold
=============================================================================
