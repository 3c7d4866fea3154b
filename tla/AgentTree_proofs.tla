-------------------------- MODULE AgentTree_proofs --------------------------
(***************************************************************************)
(* Proofs about GraphRouting, for any set of definitions, whatever their   *)
(* edges, and about AgentTree: the runs of an agent tree are runs of       *)
(* GraphRouting, whose theorems hold of them; and no agent of any tree     *)
(* is refused for its permissions, nor are a specialist's jobs lost.       *)
(*                                                                         *)
(* BudgetHolds is not inductive: a run that is about to count has already  *)
(* passed the condition that allows it.  SpentInv says so, which needs     *)
(* that nothing else runs beside the node that counts (Alone).             *)
(***************************************************************************)
EXTENDS AgentTree, TLAPS

-----------------------------------------------------------------------------
(* A run of a compiled definition *)

\* What a definition compiled from Graphs looks like while it runs.
RunInv ==
    /\ graph \in Graphs \cup {NoGraph}
    /\ run \in {"none", "running", "ended", "failed"}
    /\ run = "none" => graph = NoGraph
    /\ run \in {"running", "ended"} => graph \in Graphs
    /\ run # "running" => active = {}
    /\ run = "none" => retries = 0
    /\ retries \in Nat

\* A condition that lets the run count at n.
Allows(g, n) ==
    \E e \in Edges(g) : \E c \in Entries(e) : c.counts # NoLimit /\ n \in c.counts

Alone == \A x, y \in active : x = y

SpentInv ==
    graph \in Graphs /\ Sequential(graph) /\ Limited(graph) =>
        /\ Alone
        /\ retries = 0 \/ Allows(graph, retries - 1)
        /\ Budgets # {} => Allows(graph, retries)

-----------------------------------------------------------------------------
(* What a node schedules *)

\* One case at a time.
LEMMA SchedulesCases ==
    ASSUME NEW node
    PROVE  \/ node = Start /\ Schedules(node) = {{Prep(graph.first)}}
           \/ node \in NodesOf(graph) /\ node[1] = "prep" /\ Schedules(node) = {{Agent(node[2])}}
           \/ /\ node \in NodesOf(graph) /\ node[1] = "budget"
              /\ Schedules(node) = {{PrepTarget(node[2])}}
           \/ /\ node \in NodesOf(graph) /\ node[1] = "agent"
              /\ Schedules(node) =
                    IF Group(graph, node[2]) = {} THEN {PlainTargets(graph, node[2])}
                    ELSE {PlainTargets(graph, node[2]) \cup {next} :
                             next \in Chosen(graph, node[2]) \cup Default(graph, node[2])}
           \/ Schedules(node) = {{}}
<1>1. Start[1] = "init"
    BY DEF Start
<1> QED  BY <1>1, Zenon DEF Schedules

\* A router's answer comes from an entry of one of the node's edges.
LEMMA ChosenEntry ==
    ASSUME NEW g, NEW id, NEW next \in Chosen(g, id)
    PROVE  \E e \in Edges(g) : \E c \in Entries(e) :
               /\ MayHold(c)
               /\ next = IF Counts(e.form, c) THEN Budget(c.target) ELSE PrepTarget(c.target)
<1>1. PICK p \in Positions(g, id) : MayHold(At(g, p)) /\ next = Taken(g, p)
    BY DEF Chosen
<1>2. PICK i \in Group(g, id) : p \in {i} \X DOMAIN g.edges[i].entries
    BY <1>1 DEF Positions
<1>3. p[1] = i /\ p[2] \in DOMAIN g.edges[i].entries /\ i \in DOMAIN g.edges
    BY <1>2 DEF Group
<1>4. g.edges[i] \in Edges(g) /\ At(g, p) \in Entries(g.edges[i])
    BY <1>3 DEF Edges, Entries, At
<1> QED  BY <1>1, <1>3, <1>4 DEF Taken

\* A router's default is the alternative of one of the definition's edges.
LEMMA DefaultEdge ==
    ASSUME NEW g, NEW id, NEW next \in Default(g, id)
    PROVE  \E e \in Edges(g) : next = PrepTarget(e.otherwise)
BY DEF Default, Group, Edges

\* A well-formed definition's nodes schedule nodes of the graph only.
LEMMA ScheduledExist ==
    ASSUME graph \in Graphs, WellFormed(graph),
           NEW node, NEW targets \in Schedules(node)
    PROVE  targets \subseteq NodesOf(graph)
<1>1. \A t \in graph.nodes \cup {EndTarget} : PrepTarget(t) \in NodesOf(graph)
    BY DEF PrepTarget, NodesOf
<1>2. \A t \in IncrementTargets(graph) : t \in graph.nodes \cup {EndTarget}
    BY DEF IncrementTargets, WellFormed
<1>3. CASE targets = {Prep(graph.first)}
    BY <1>3, GraphsAssumption DEF GraphsAssumption, NodesOf
<1>4. CASE node \in NodesOf(graph) /\ node[1] = "prep" /\ targets = {Agent(node[2])}
    <2>1. node[2] \in graph.nodes
        BY <1>4 DEF NodesOf, Start, End, Prep, Agent, Budget
    <2> QED  BY <2>1, <1>4 DEF NodesOf
<1>5. CASE node \in NodesOf(graph) /\ node[1] = "budget" /\ targets = {PrepTarget(node[2])}
    <2>1. node[2] \in IncrementTargets(graph)
        BY <1>5 DEF NodesOf, Start, End, Prep, Agent, Budget
    <2> QED  BY <2>1, <1>1, <1>2, <1>5
<1>6. PlainTargets(graph, node[2]) \subseteq NodesOf(graph)
    BY <1>1 DEF PlainTargets, WellFormed
<1>7. ASSUME NEW next \in Chosen(graph, node[2])
      PROVE  next \in NodesOf(graph)
    <2>1. PICK e \in Edges(graph) : \E c \in Entries(e) :
              next = IF Counts(e.form, c) THEN Budget(c.target) ELSE PrepTarget(c.target)
        BY <1>7, ChosenEntry
    <2>2. PICK c \in Entries(e) :
              next = IF Counts(e.form, c) THEN Budget(c.target) ELSE PrepTarget(c.target)
        BY <2>1
    <2>3. CASE Counts(e.form, c)
        <3>1. c.target \in IncrementTargets(graph)
            BY <2>3 DEF IncrementTargets
        <3> QED  BY <3>1, <2>2, <2>3 DEF NodesOf
    <2>4. CASE ~Counts(e.form, c)
        BY <2>4, <2>2, <1>1 DEF WellFormed
    <2> QED  BY <2>3, <2>4
<1>8. ASSUME NEW next \in Default(graph, node[2])
      PROVE  next \in NodesOf(graph)
    BY <1>8, <1>1, DefaultEdge DEF WellFormed
<1>9. CASE \/ targets = PlainTargets(graph, node[2])
           \/ \E next \in Chosen(graph, node[2]) \cup Default(graph, node[2]) :
                 targets = PlainTargets(graph, node[2]) \cup {next}
    BY <1>9, <1>6, <1>7, <1>8
<1> QED  BY SchedulesCases, <1>3, <1>4, <1>5, <1>9

\* A node of a sequential definition schedules at most one other.
LEMMA OneTarget ==
    ASSUME graph \in Graphs, Sequential(graph),
           NEW node, NEW targets \in Schedules(node)
    PROVE  \A x, y \in targets : x = y
<1>1. CASE node \in NodesOf(graph) /\ node[1] = "agent"
           /\ Schedules(node) =
                    IF Group(graph, node[2]) = {} THEN {PlainTargets(graph, node[2])}
                    ELSE {PlainTargets(graph, node[2]) \cup {next} :
                             next \in Chosen(graph, node[2]) \cup Default(graph, node[2])}
    <2>1. node[2] \in graph.nodes
        BY <1>1 DEF NodesOf, Start, End, Prep, Agent, Budget
    <2>2. \/ PlainTargets(graph, node[2]) = {}
          \/ /\ Group(graph, node[2]) = {}
             /\ \A x, y \in PlainTargets(graph, node[2]) : x = y
        BY <2>1 DEF Sequential
    <2> QED  BY <1>1, <2>2
<1> QED  BY SchedulesCases, <1>1

\* Only an agent sends the run through a node that counts, by a condition
\* that still has budget.
LEMMA BudgetScheduled ==
    ASSUME graph \in Graphs, Limited(graph), retries \in Nat,
           NEW node, NEW targets \in Schedules(node),
           NEW t \in targets, t[1] = "budget"
    PROVE  node[1] = "agent" /\ Allows(graph, retries)
<1>1. \A x : PrepTarget(x)[1] # "budget" /\ Prep(x)[1] # "budget" /\ Agent(x)[1] # "budget"
    BY DEF PrepTarget, Prep, Agent, End
<1>2. t \notin PlainTargets(graph, node[2])
    BY <1>1 DEF PlainTargets
<1>3. t \notin Default(graph, node[2])
    BY <1>1, DefaultEdge
<1>4. node[1] = "agent" /\ t \in Chosen(graph, node[2])
    BY <1>1, <1>2, <1>3, SchedulesCases
<1>5. PICK e, c :
          /\ e \in Edges(graph)
          /\ c \in Entries(e)
          /\ MayHold(c)
          /\ t = IF Counts(e.form, c) THEN Budget(c.target) ELSE PrepTarget(c.target)
    BY <1>4, ChosenEntry
<1>6. Counts(e.form, c)
    BY <1>5, <1>1
<1>7. c.counts # NoLimit
    BY <1>5, <1>6, Zenon DEF Counts, Limited
<1>8. retries \in c.counts
    BY <1>5, <1>7 DEF MayHold
<1> QED  BY <1>4, <1>5, <1>7, <1>8 DEF Allows
-----------------------------------------------------------------------------
(* Runs *)

LEMMA RunStarts == RoutingInit => RunInv
BY DEF RoutingInit, RunInv

LEMMA RunSteps == RunInv /\ [RoutingNext]_routing => RunInv'
<1> SUFFICES ASSUME RunInv, [RoutingNext]_routing PROVE RunInv'
    OBVIOUS
<1>1. ASSUME NEW g \in Graphs, Compile(g) PROVE RunInv'
    BY <1>1 DEF Compile, RunInv
<1>2. CASE Superstep
    BY <1>2 DEF Superstep, RunInv, Counted
<1>3. CASE Conflict
    BY <1>3 DEF Conflict, RunInv
<1>4. CASE NextTurn
    BY <1>4 DEF NextTurn, RunInv
<1>5. CASE UNCHANGED routing
    BY <1>5 DEF routing, RunInv
<1> QED  BY <1>1, <1>2, <1>3, <1>4, <1>5 DEF RoutingNext, RoutingRun

LEMMA RoutedStep ==
    RunInv /\ RoutedNodesExist /\ [RoutingNext]_routing => RoutedNodesExist'
<1> SUFFICES ASSUME RunInv, RoutedNodesExist, [RoutingNext]_routing,
                    graph' # NoGraph, WellFormed(graph')
             PROVE  active' \subseteq NodesOf(graph')
    BY DEF RoutedNodesExist
<1>1. ASSUME NEW g \in Graphs, Compile(g) PROVE active' \subseteq NodesOf(graph')
    BY <1>1 DEF Compile, RunInv, NodesOf
<1>2. CASE Superstep
    <2>1. graph \in Graphs /\ graph' = graph
        BY <1>2 DEF Superstep, RunInv
    <2>2. PICK choice \in [active -> UNION {Schedules(node) : node \in active}] :
              /\ \A node \in active : choice[node] \in Schedules(node)
              /\ active' = UNION {choice[node] : node \in active} \ {End}
        BY <1>2 DEF Superstep
    <2>3. \A node \in active : choice[node] \subseteq NodesOf(graph)
        BY <2>1, <2>2, ScheduledExist
    <2> QED  BY <2>1, <2>2, <2>3
<1>3. CASE Conflict
    BY <1>3 DEF Conflict
<1>4. CASE NextTurn
    BY <1>4 DEF NextTurn, NodesOf
<1>5. CASE UNCHANGED routing
    BY <1>5 DEF routing, RoutedNodesExist
<1> QED  BY <1>1, <1>2, <1>3, <1>4, <1>5 DEF RoutingNext, RoutingRun

\* The counter after a superstep, and what the superstep schedules.
LEMMA SpentSuperstep == RunInv /\ SpentInv /\ Superstep => SpentInv'
<1> SUFFICES ASSUME RunInv, SpentInv, Superstep,
                    graph' \in Graphs, Sequential(graph'), Limited(graph')
             PROVE  /\ Alone'
                    /\ retries' = 0 \/ Allows(graph', retries' - 1)
                    /\ Budgets' # {} => Allows(graph', retries')
    BY DEF SpentInv
<1>1. graph' = graph /\ graph \in Graphs /\ Sequential(graph) /\ Limited(graph)
    BY DEF Superstep
<1>2. /\ Alone
      /\ retries = 0 \/ Allows(graph, retries - 1)
      /\ Budgets # {} => Allows(graph, retries)
      /\ retries \in Nat
    BY <1>1 DEF SpentInv, RunInv
<1>3. PICK choice \in [active -> UNION {Schedules(node) : node \in active}] :
          /\ \A node \in active : choice[node] \in Schedules(node)
          /\ active' = UNION {choice[node] : node \in active} \ {End}
    BY DEF Superstep
<1>4. Alone'
    <2>1. \A node \in active : \A x, y \in choice[node] : x = y
        BY <1>1, <1>3, OneTarget
    <2> QED  BY <2>1, <1>2, <1>3 DEF Alone
<1>5. ASSUME Budgets' # {}
      PROVE  Budgets = {} /\ Allows(graph, retries)
    <2>1. PICK t \in active' : t[1] = "budget"
        BY <1>5 DEF Budgets
    <2>2. PICK node \in active : t \in choice[node]
        BY <1>3, <2>1
    <2>3. node[1] = "agent" /\ Allows(graph, retries)
        BY <1>1, <1>2, <1>3, <2>1, <2>2, BudgetScheduled
    <2> QED  BY <2>2, <2>3, <1>2 DEF Budgets, Alone
<1>6. CASE Budgets = {} \/ ~graph.declared
    <2>1. retries' = retries
        BY <1>6 DEF Superstep, Counted
    <2> QED  BY <2>1, <1>1, <1>2, <1>4, <1>5
<1>7. CASE Budgets # {} /\ graph.declared
    <2>1. retries' = retries + 1
        BY <1>7 DEF Superstep, Counted
    <2>2. retries' - 1 = retries
        BY <2>1, <1>2
    <2> QED  BY <2>2, <1>1, <1>2, <1>4, <1>5, <1>7
<1> QED  BY <1>6, <1>7

LEMMA SpentStep == RunInv /\ SpentInv /\ [RoutingNext]_routing => SpentInv'
<1> SUFFICES ASSUME RunInv, SpentInv, [RoutingNext]_routing PROVE SpentInv'
    OBVIOUS
<1>1. Start[1] # "budget"
    BY DEF Start
<1>2. ASSUME NEW g \in Graphs, Compile(g) PROVE SpentInv'
    <2>1. active' \subseteq {Start} /\ retries' = 0
        BY <1>2 DEF Compile, RunInv
    <2> QED  BY <1>1, <2>1 DEF SpentInv, Alone, Budgets
<1>3. CASE Conflict
    BY <1>3 DEF Conflict, SpentInv, Alone, Budgets
<1>4. CASE NextTurn
    BY <1>1, <1>4 DEF NextTurn, SpentInv, Alone, Budgets
<1>5. CASE UNCHANGED routing
    BY <1>5 DEF routing, SpentInv, Alone, Budgets
<1> QED  BY <1>2, <1>3, <1>4, <1>5, SpentSuperstep DEF RoutingNext, RoutingRun
-----------------------------------------------------------------------------
(* Theorems *)

\* In every run of a well-formed definition, whatever its edges, the routers
\* that _wire_conditional_edges builds only name nodes that build added.
THEOREM Routed == RoutingSpec => []RoutedNodesExist
<1>1. RoutingInit => RunInv /\ RoutedNodesExist
    BY RunStarts DEF RoutingInit, RoutedNodesExist
<1>2. RunInv /\ RoutedNodesExist /\ [RoutingNext]_routing => (RunInv /\ RoutedNodesExist)'
    BY RunSteps, RoutedStep
<1> QED  BY <1>1, <1>2, PTL DEF RoutingSpec

\* In every run of a sequential definition, whatever its conditions ask of the
\* shared counter, each turn it counts was allowed by one of them at the count
\* before, in any number of turns.
THEOREM BudgetKept == RoutingSpec => []BudgetHolds
<1>1. RoutingInit => RunInv /\ SpentInv
    BY RunStarts, GraphsAssumption DEF GraphsAssumption, RoutingInit, SpentInv
<1>2. RunInv /\ SpentInv /\ [RoutingNext]_routing => (RunInv /\ SpentInv)'
    BY RunSteps, SpentStep
<1>3. RunInv /\ SpentInv => BudgetHolds
    BY DEF RunInv, SpentInv, BudgetHolds, Allows
<1> QED  BY <1>1, <1>2, <1>3, PTL DEF RoutingSpec

-----------------------------------------------------------------------------
(* An agent tree *)

\* The builder is the one the definition names.
BuilderInv ==
    /\ definition \in Definitions
    /\ builder = "acrylic" => Topology(definition) = "acrylic"

LEMMA AcrylicGraph ==
    ASSUME NEW d \in Definitions, Topology(d) = "acrylic"
    PROVE  d.graph \in Graphs
<1>1. \/ d.topology = "acrylic"
      \/ d.graph # NoGraph
    BY Zenon DEF Topology
<1> QED  BY <1>1, DefinitionsAssumption DEF DefinitionsAssumption

LEMMA BuilderStarts == Init => BuilderInv
BY DEF Init, TreeInit, BuilderInv

LEMMA BuilderSteps == BuilderInv /\ [Next]_vars => BuilderInv'
<1> SUFFICES ASSUME BuilderInv, [Next]_vars PROVE BuilderInv'
    OBVIOUS
<1>1. CASE Choose
    BY <1>1 DEF Choose, BuilderInv
<1>2. CASE \/ \E i \in todo : BuildSpecialist(i) \/ BuildSubgraph(i) \/ BuildStarSubagent(i)
           \/ BuildRoot \/ BuildGraph
    <2>1. UNCHANGED <<definition, builder>>
        BY <1>2 DEF BuildSpecialist, BuildSubgraph, BuildStarSubagent, BuildRoot, BuildGraph,
                    Join, Refuse
    <2> QED  BY <2>1 DEF BuilderInv
<1>3. CASE UNCHANGED tree
    BY <1>3 DEF tree, BuilderInv
<1> QED  BY <1>1, <1>2, <1>3 DEF Next, vars

-----------------------------------------------------------------------------
(* The runs *)

LEMMA TreeRoutes == BuilderInv /\ [Next]_vars => [RoutingNext]_routing
<1> SUFFICES ASSUME BuilderInv, [Next]_vars PROVE [RoutingNext]_routing
    OBVIOUS
<1>1. CASE \/ Choose \/ BuildRoot
           \/ \E i \in todo : BuildSpecialist(i) \/ BuildSubgraph(i) \/ BuildStarSubagent(i)
    BY <1>1 DEF Choose, BuildSpecialist, BuildSubgraph, BuildStarSubagent, BuildRoot
<1>2. CASE BuildGraph
    <2>1. definition.graph \in Graphs /\ Compile(definition.graph)
        BY <1>2, AcrylicGraph DEF BuildGraph, BuilderInv
    <2> QED  BY <2>1 DEF RoutingNext
<1>3. CASE RoutingRun
    BY <1>3 DEF RoutingNext
<1>4. CASE UNCHANGED vars
    BY <1>4 DEF vars
<1> QED  BY <1>1, <1>2, <1>3, <1>4 DEF Next

\* What build_agent_from_definition compiles and runs behaves as the graph of
\* its definition does, so that the theorems about graphs hold of it.
THEOREM Routes == Spec => RoutingSpec
<1>1. Init => BuilderInv /\ RoutingInit
    BY BuilderStarts DEF Init
<1>2. BuilderInv /\ [Next]_vars => BuilderInv' /\ [RoutingNext]_routing
    BY BuilderSteps, TreeRoutes
<1> QED  BY <1>1, <1>2, PTL DEF Spec, RoutingSpec

\* The routers of a session's graph only name nodes that build added.
THEOREM TreeRouted == Spec => []RoutedNodesExist
BY Routes, Routed, PTL

\* The loops of a session's graph keep to the shared budget.
THEOREM TreeBudgetKept == Spec => []BudgetHolds
BY Routes, BudgetKept, PTL

-----------------------------------------------------------------------------
(* The agents *)

LEMMA Permitted ==
    ASSUME NEW d, NEW s, NEW path, NEW backend,
           d.s3 \/ ~Executes(backend)
    PROVE  Subagent(d, s, path, backend).permitted
               => ~Executes(Subagent(d, s, path, backend).backend)
<1>1. /\ Subagent(d, s, path, backend).permitted <=> s.skilled /\ ~d.s3
      /\ Subagent(d, s, path, backend).backend = backend
    BY Zenon DEF Subagent
<1> QED  BY <1>1

LEMMA DiskExecutes ==
    ASSUME NEW d, ~d.s3
    PROVE  ~Executes(SessionBackend(d))
BY DEF Executes, SessionBackend

\* The library has no reason to refuse an agent the builders make.
LEMMA PermissionsStep == PermissionsAccepted /\ [Next]_vars => PermissionsAccepted'
<1> SUFFICES ASSUME PermissionsAccepted, [Next]_vars PROVE PermissionsAccepted'
    OBVIOUS
<1>1. ASSUME NEW new, agents' \subseteq agents \cup new,
             \A a \in new : a.permitted => ~Executes(a.backend)
      PROVE  PermissionsAccepted'
    BY <1>1 DEF PermissionsAccepted, Executes
<1>2. CASE agents' = agents
    BY <1>2 DEF PermissionsAccepted, Executes
<1>3. ASSUME NEW i, BuildSpecialist(i), definition.nodes[i].model PROVE PermissionsAccepted'
    <2> DEFINE n == definition.nodes[i]
               specialist == Specialist(definition, n)
               subs == {Subagent(definition, s, <<n.id, s.id>>, specialist.backend) : s \in n.subs}
    <2>1. agents' = agents \cup ({specialist} \cup subs)
        BY <1>3 DEF BuildSpecialist, Join
    <2>2. specialist.permitted = FALSE
        BY Zenon DEF Specialist
    <2>3. definition.s3 \/ ~Executes(specialist.backend)
        BY DiskExecutes DEF Specialist
    <2>4. \A a \in subs : a.permitted => ~Executes(a.backend)
        BY <2>3, Permitted
    <2> QED  BY <2>1, <2>2, <2>4, <1>1
<1>4. ASSUME NEW i, BuildSubgraph(i) PROVE PermissionsAccepted'
    <2> DEFINE n == definition.nodes[i]
               nodes == {GraphAgent(<<n.id, m>>, FALSE) : m \in n.graph.nodes}
    <2>1. agents' = agents \/ agents' = agents \cup nodes
        BY <1>4 DEF BuildSubgraph, Join, Refuse
    <2>2. \A path : GraphAgent(path, FALSE).permitted = FALSE
        BY Zenon DEF GraphAgent
    <2>3. \A a \in nodes : a.permitted => ~Executes(a.backend)
        BY <2>2
    <2> HIDE DEF nodes
    <2> QED  BY <2>1, <2>3, <1>1, <1>2
<1>5. ASSUME NEW i, BuildStarSubagent(i) PROVE PermissionsAccepted'
    <2> DEFINE n == definition.nodes[i]
               new == Subagent(definition, n, <<n.id>>, SessionBackend(definition))
    <2>1. agents' = agents \cup {new}
        BY <1>5 DEF BuildStarSubagent, Join
    <2>2. new.permitted => ~Executes(new.backend)
        BY Permitted, DiskExecutes
    <2> HIDE DEF new
    <2> QED  BY <2>1, <2>2 DEF PermissionsAccepted, Executes
<1>6. CASE BuildRoot
    <2>1. StarRoot(definition).permitted = FALSE /\ CompositeRoot(definition).permitted = FALSE
        BY Zenon DEF StarRoot, CompositeRoot
    <2>2. \/ agents' = agents
          \/ agents' = agents \cup {StarRoot(definition)}
          \/ agents' = agents \cup {CompositeRoot(definition)}
        BY <1>6 DEF BuildRoot, Refuse
    <2> QED  BY <2>1, <2>2, <1>1, <1>2
<1>7. CASE BuildGraph
    <2>1. \/ agents' = agents
          \/ agents' = {GraphAgent(<<m>>, TRUE) : m \in definition.graph.nodes}
        BY <1>7 DEF BuildGraph, Refuse
    <2>2. \A m : GraphAgent(<<m>>, TRUE).permitted = FALSE
        BY Zenon DEF GraphAgent
    <2> QED  BY <2>1, <2>2, <1>1, <1>2
<1> QED  BY <1>2, <1>3, <1>4, <1>5, <1>6, <1>7
         DEF Next, Choose, BuildSpecialist, Refuse, vars, tree

\* Whatever the definition, no agent the topologies build has permissions on a
\* backend that executes commands, so that a definition's skills never cost
\* the session its graph.
THEOREM Permissions == Spec => []PermissionsAccepted
<1>1. Init => PermissionsAccepted
    BY DEF Init, TreeInit, PermissionsAccepted
<1> QED  BY <1>1, PermissionsStep, PTL DEF Spec

-----------------------------------------------------------------------------
(* Jobs *)

\* The agents that are given tools, and those above them, as they are built.
Above ==
    \A a \in agents : builder # "acrylic" /\ a.tools /\ ~OfNestedGraph(a) =>
        /\ "tracking" \in a.stack
        /\ \/ a.path = <<>>
           \/ \E n : a.path = <<n>>
           \/ \E n, m : /\ a.path = <<n, m>>
                        /\ \E above \in agents : above.path = <<n>> /\ "tracking" \in above.stack

\* Nothing is built before the topology is chosen, what is left to build are
\* nodes of the definition.
TodoInv ==
    /\ builder = "none" => agents = {}
    /\ todo \subseteq DOMAIN definition.nodes

Reported ==
    Orchestrated => \E root \in agents : root.path = <<>> /\ "reporting" \in root.stack

LEMMA TodoStep == TodoInv /\ [Next]_vars => TodoInv'
<1> SUFFICES ASSUME TodoInv, [Next]_vars PROVE TodoInv'
    OBVIOUS
<1>1. CASE Choose
    BY <1>1 DEF Choose, TodoInv, Specialists
<1>2. ASSUME NEW i, BuildSpecialist(i) \/ BuildSubgraph(i) \/ BuildStarSubagent(i)
      PROVE  TodoInv'
    <2>1. /\ UNCHANGED <<definition, builder>>
          /\ builder # "none"
          /\ todo' \subseteq todo
        BY <1>2 DEF BuildSpecialist, BuildSubgraph, BuildStarSubagent, Join, Refuse
    <2> QED  BY <2>1 DEF TodoInv
<1>3. CASE BuildRoot \/ BuildGraph
    <2>1. UNCHANGED <<definition, builder, todo>> /\ builder # "none"
        BY <1>3 DEF BuildRoot, BuildGraph, Refuse
    <2> QED  BY <2>1 DEF TodoInv
<1>4. CASE UNCHANGED tree
    BY <1>4 DEF tree, TodoInv
<1> QED  BY <1>1, <1>2, <1>3, <1>4 DEF Next, vars

LEMMA AboveStep == TodoInv /\ Above /\ [Next]_vars => Above'
<1> SUFFICES ASSUME TodoInv, Above, [Next]_vars PROVE Above'
    OBVIOUS
<1>1. ASSUME agents' = agents, UNCHANGED <<definition, builder>>
      PROVE  Above'
    BY <1>1 DEF Above, OfNestedGraph
<1>2. CASE Choose
    <2>1. agents' = {}
        BY <1>2 DEF Choose, TodoInv
    <2> QED  BY <2>1 DEF Above
<1>3. ASSUME NEW i, BuildSpecialist(i), definition.nodes[i].model PROVE Above'
    <2> DEFINE n == definition.nodes[i]
               specialist == Specialist(definition, n)
               subs == {Subagent(definition, s, <<n.id, s.id>>, specialist.backend) : s \in n.subs}
    <2>1. /\ agents' = agents \cup ({specialist} \cup subs)
          /\ UNCHANGED <<definition, builder>>
        BY <1>3 DEF BuildSpecialist, Join
    <2>2. specialist.path = <<n.id>> /\ "tracking" \in specialist.stack
        BY DEF Specialist, SpecialistStack
    <2>3. \A a \in subs : "tracking" \in a.stack /\ \E m : a.path = <<n.id, m>>
        BY DEF Subagent
    <2> HIDE DEF subs, specialist
    <2> QED  BY <2>1, <2>2, <2>3 DEF Above, OfNestedGraph
<1>4. ASSUME NEW i \in todo, BuildSubgraph(i) PROVE Above'
    <2> DEFINE n == definition.nodes[i]
               nodes == {GraphAgent(<<n.id, m>>, FALSE) : m \in n.graph.nodes}
    <2>1. /\ agents' = agents \/ agents' = agents \cup nodes
          /\ UNCHANGED <<definition, builder>>
          /\ n.subgraph
        BY <1>4 DEF BuildSubgraph, Join, Refuse
    <2>2. \A a \in nodes : \E m : a.path = <<n.id, m>>
        BY DEF GraphAgent
    <2>3. i \in DOMAIN definition.nodes
        BY DEF TodoInv
    <2>4. ASSUME NEW a \in nodes PROVE OfNestedGraph(a)
        <3>1. PICK m : a.path = <<n.id, m>>
            BY <2>2
        <3>2. Len(a.path) = 2 /\ a.path[1] = n.id
            BY <3>1
        <3> QED  BY <3>2, <2>1, <2>3 DEF OfNestedGraph
    <2>5. \A a \in nodes : OfNestedGraph(a)'
        BY <2>1, <2>4 DEF OfNestedGraph
    <2> HIDE DEF nodes
    <2>6. \A a \in agents : OfNestedGraph(a)' <=> OfNestedGraph(a)
        BY <2>1 DEF OfNestedGraph
    <2> QED  BY <2>1, <2>5, <2>6 DEF Above
<1>5. ASSUME NEW i, BuildStarSubagent(i) PROVE Above'
    <2> DEFINE n == definition.nodes[i]
               new == Subagent(definition, n, <<n.id>>, SessionBackend(definition))
    <2>1. agents' = agents \cup {new} /\ UNCHANGED <<definition, builder>>
        BY <1>5 DEF BuildStarSubagent, Join
    <2>2. new.path = <<n.id>> /\ "tracking" \in new.stack
        BY DEF Subagent
    <2> HIDE DEF new
    <2> QED  BY <2>1, <2>2 DEF Above, OfNestedGraph
<1>6. CASE BuildRoot
    <2>1. StarRoot(definition).path = <<>> /\ CompositeRoot(definition).path = <<>>
        BY DEF StarRoot, CompositeRoot
    <2>2. /\ \/ agents' = agents
             \/ agents' = agents \cup {StarRoot(definition)}
             \/ agents' = agents \cup {CompositeRoot(definition)}
          /\ UNCHANGED <<definition, builder>>
        BY <1>6 DEF BuildRoot, Refuse
    <2>3. "tracking" \in StarRoot(definition).stack /\ ~CompositeRoot(definition).tools
        BY DEF StarRoot, CompositeRoot
    <2> QED  BY <2>1, <2>2, <2>3 DEF Above, OfNestedGraph
<1>7. CASE BuildGraph
    <2>1. builder' = "acrylic"
        BY <1>7 DEF BuildGraph, Refuse
    <2> QED  BY <2>1 DEF Above
<1>8. ASSUME NEW i, BuildSpecialist(i), ~definition.nodes[i].model PROVE Above'
    <2>1. agents' = agents /\ UNCHANGED <<definition, builder>>
        BY <1>8 DEF BuildSpecialist, Refuse
    <2> QED  BY <2>1, <1>1
<1>9. CASE UNCHANGED tree
    BY <1>9, <1>1 DEF tree
<1> QED  BY <1>2, <1>3, <1>4, <1>5, <1>6, <1>7, <1>8, <1>9 DEF Next, vars

LEMMA ReportedStep == Reported /\ [Next]_vars => Reported'
<1> SUFFICES ASSUME Reported, [Next]_vars, Orchestrated'
             PROVE  \E root \in agents' : root.path = <<>> /\ "reporting" \in root.stack
    BY DEF Reported
<1>1. CASE BuildRoot
    <2>1. \/ agents' = agents \cup {StarRoot(definition)}
          \/ agents' = agents \cup {CompositeRoot(definition)}
        BY <1>1 DEF BuildRoot, Refuse, Orchestrated
    <2>2. /\ StarRoot(definition).path = <<>> /\ "reporting" \in StarRoot(definition).stack
          /\ CompositeRoot(definition).path = <<>>
          /\ "reporting" \in CompositeRoot(definition).stack
        BY DEF StarRoot, CompositeRoot
    <2> QED  BY <2>1, <2>2
<1>2. CASE \/ Choose
           \/ \E i \in todo : BuildSpecialist(i) \/ BuildSubgraph(i) \/ BuildStarSubagent(i)
    <2>1. status = "building" /\ status' \in {status, "refused"}
        BY <1>2 DEF Choose, BuildSpecialist, BuildSubgraph, BuildStarSubagent, Join, Refuse
    <2> QED  BY <2>1 DEF Orchestrated
<1>3. CASE BuildGraph
    <2>1. builder' = "acrylic"
        BY <1>3 DEF BuildGraph, Refuse
    <2> QED  BY <2>1 DEF Orchestrated
<1>4. CASE UNCHANGED tree
    BY <1>4 DEF tree, Reported, Orchestrated
<1> QED  BY <1>1, <1>2, <1>3, <1>4 DEF Next, vars

\* Whatever the definition's nodes, every agent of a composite or a star that
\* is given tools, but for those of nested graphs, tracks the jobs it starts;
\* so does every agent above it, and the orchestrator reports them.
THEOREM JobsReach == Spec => []JobsReachReporter
<1>1. Init => TodoInv /\ Above /\ Reported
    BY DEF Init, TreeInit, TodoInv, Above, Reported, Orchestrated
<1>2. Above /\ Reported => JobsReachReporter
    <2> SUFFICES ASSUME Above, Reported, Orchestrated,
                        NEW a \in agents, a.tools, ~OfNestedGraph(a)
                 PROVE  /\ "tracking" \in a.stack
                        /\ \A n \in 1..(Len(a.path) - 1) :
                              \E above \in agents :
                                  above.path = SubSeq(a.path, 1, n) /\ "tracking" \in above.stack
                        /\ \E root \in agents : root.path = <<>> /\ "reporting" \in root.stack
        BY DEF JobsReachReporter
    <2>1. /\ "tracking" \in a.stack
          /\ \/ a.path = <<>>
             \/ \E k : a.path = <<k>>
             \/ \E k, m : /\ a.path = <<k, m>>
                          /\ \E above \in agents :
                                above.path = <<k>> /\ "tracking" \in above.stack
        BY DEF Above, Orchestrated
    <2>2. \E root \in agents : root.path = <<>> /\ "reporting" \in root.stack
        BY DEF Reported
    <2>3. ASSUME NEW n \in 1..(Len(a.path) - 1)
          PROVE  \E above \in agents :
                     above.path = SubSeq(a.path, 1, n) /\ "tracking" \in above.stack
        <3>1. PICK k, m : /\ a.path = <<k, m>>
                          /\ \E above \in agents :
                                above.path = <<k>> /\ "tracking" \in above.stack
            BY <2>1, <2>3
        <3>2. n = 1
            BY <2>3, <3>1
        <3> DEFINE s == SubSeq(<<k, m>>, 1, 1)
        <3>3. <<k, m>> \in Seq({k, m}) /\ <<k>> \in Seq({k, m}) /\ Len(<<k, m>>) = 2
            OBVIOUS
        <3>4. s \in Seq({k, m}) /\ Len(s) = 1 /\ s[1] = k
            BY <3>3
        <3> HIDE DEF s
        <3>5. s = <<k>>
            BY <3>3, <3>4
        <3> QED  BY <3>1, <3>2, <3>5 DEF s
    <2> QED  BY <2>1, <2>2, <2>3
<1>3. TodoInv /\ Above /\ Reported /\ [Next]_vars => (TodoInv /\ Above /\ Reported)'
    BY TodoStep, AboveStep, ReportedStep
<1> QED  BY <1>1, <1>2, <1>3, PTL DEF Spec
=============================================================================
