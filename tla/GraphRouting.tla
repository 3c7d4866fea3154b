---------------------------- MODULE GraphRouting ----------------------------
(***************************************************************************)
(* A graph of the acrylic topology: what AcrylicTopologyBuilder compiles   *)
(* from a definition's nodes and edges, and a run of it.                   *)
(*                                                                         *)
(* The builder derives the budget nodes from the edges in one pass and the *)
(* routers that send the run through them in another; all loops share the  *)
(* one counter retry_count.  LangGraph is external: a superstep runs every *)
(* scheduled node on the state before it, a scheduled node runs once       *)
(* however many edges lead to it, a node nobody added is never run, and    *)
(* two nodes that write a declared counter in one superstep fail the run.  *)
(* Agents give the counter back as they got it.                            *)
(***************************************************************************)
EXTENDS Integers, Sequences, FiniteSets

CONSTANTS
    Ids,            \* ids of a definition's nodes
    EndTarget,      \* "__end__", or no target
    Graphs,         \* the definitions: [first, nodes, edges, declared]
    NoLimit,        \* a condition that does not mention retry_count
    NoGraph,        \* before a graph is compiled
    RetryCap        \* bound on the counter

\* The first matching form of an edge: a list of conditions, one condition
\* with its alternative, or neither.
Forms == {"conditions", "condition", "plain"}

\* What a condition asks of the counter: the counts it may hold at, whatever the
\* expression.  It is sure when it asks nothing else.
IsCondition(c) ==
    /\ c.counts = NoLimit \/ c.counts \subseteq Nat
    /\ c.sure \in BOOLEAN
    /\ c.increment \in BOOLEAN
    /\ c.target \in Ids \cup {EndTarget}

ASSUME GraphsAssumption ==
    /\ EndTarget \notin Ids
    /\ NoGraph \notin Graphs
    /\ RetryCap \in Nat
    /\ \A g \in Graphs :
          /\ g.first \in g.nodes
          /\ g.nodes \subseteq Ids
          /\ \A i \in DOMAIN g.edges :
                /\ g.edges[i].form \in Forms
                /\ g.edges[i].source \in Ids
                /\ g.edges[i].otherwise \in Ids \cup {EndTarget}
                /\ \A j \in DOMAIN g.edges[i].entries :
                      IsCondition(g.edges[i].entries[j])

VARIABLES
    graph,      \* the compiled definition
    active,     \* the nodes the next superstep runs
    retries,    \* state["retry_count"]
    run         \* "none", "running", "ended" or "failed"

routing == <<graph, active, retries, run>>

-----------------------------------------------------------------------------
(* The compiled graph *)

Start == <<"init", EndTarget>>

Agent(id) == <<"agent", id>>

Prep(id) == <<"prep", id>>

Budget(id) == <<"budget", id>>

End == <<"end", EndTarget>>

\* _prep_target
PrepTarget(target) == IF target = EndTarget THEN End ELSE Prep(target)

Conditional(edge) == edge.form \in {"conditions", "condition"}

\* Mutated: every condition of a list counts.
Counts_Listed(form, condition) == condition.counts # NoLimit \/ form = "conditions"

\* "increment": true counts in a list of conditions only; a condition that
\* reads the counter always counts.
Counts(form, condition) ==
    condition.counts # NoLimit \/ (form = "conditions" /\ condition.increment)

Entries(edge) == {edge.entries[i] : i \in DOMAIN edge.entries}

Edges(g) == {g.edges[i] : i \in DOMAIN g.edges}

\* Mutated: only a condition that reads the counter gets a budget node.
IncrementTargets_Limited(g) ==
    {c.target : c \in {c \in UNION {Entries(e) : e \in Edges(g)} : c.counts # NoLimit}}

\* increment_targets of _add_budget_nodes
IncrementTargets(g) ==
    UNION {{c.target : c \in {c \in Entries(e) : Counts(e.form, c)}} : e \in Edges(g)}

\* What build adds to the graph; End is always there.
NodesOf(g) ==
    {Start, End} \cup {Prep(id) : id \in g.nodes} \cup {Agent(id) : id \in g.nodes}
        \cup {Budget(target) : target \in IncrementTargets(g)}

\* compile() refuses an edge from or to a node nobody added; a router's
\* answers it cannot see.
Compiles(g) ==
    /\ \A e \in Edges(g) : e.source \in g.nodes
    /\ \A e \in Edges(g) : ~Conditional(e) => PrepTarget(e.otherwise) \in NodesOf(g)
    /\ \A target \in IncrementTargets(g) : PrepTarget(target) \in NodesOf(g)

\* The conditional edges of a source, which build one router between them.
Group(g, id) == {i \in DOMAIN g.edges : Conditional(g.edges[i]) /\ g.edges[i].source = id}

\* The router's conditions, in the definition's order.
Positions(g, id) == UNION {{i} \X DOMAIN g.edges[i].entries : i \in Group(g, id)}

At(g, p) == g.edges[p[1]].entries[p[2]]

Precedes(p, q) == p[1] < q[1] \/ (p[1] = q[1] /\ p[2] < q[2])

\* A condition whose evaluation fails is skipped as a false one.
MayHold(condition) == condition.counts = NoLimit \/ retries \in condition.counts

MayFail(condition) == ~condition.sure \/ ~MayHold(condition)

Taken(g, p) ==
    IF Counts(g.edges[p[1]].form, At(g, p))
    THEN Budget(At(g, p).target) ELSE PrepTarget(At(g, p).target)

\* The first condition that holds.
Chosen(g, id) ==
    {Taken(g, p) : p \in {p \in Positions(g, id) :
        /\ MayHold(At(g, p))
        /\ \A q \in Positions(g, id) : Precedes(q, p) => MayFail(At(g, q))}}

\* When none holds, the default of the group's FIRST edge.
Default(g, id) ==
    {PrepTarget(g.edges[i].otherwise) : i \in {i \in Group(g, id) :
        /\ \A j \in Group(g, id) : i <= j
        /\ \A q \in Positions(g, id) : MayFail(At(g, q))}}

\* The edges beside the router, which all fire.
PlainTargets(g, id) ==
    {PrepTarget(e.otherwise) : e \in {e \in Edges(g) : ~Conditional(e) /\ e.source = id}}

\* What one node may schedule.
Schedules(node) ==
    CASE node = Start -> {{Prep(graph.first)}}
      [] node \in NodesOf(graph) /\ node[1] = "prep" -> {{Agent(node[2])}}
      [] node \in NodesOf(graph) /\ node[1] = "budget" -> {{PrepTarget(node[2])}}
      [] node \in NodesOf(graph) /\ node[1] = "agent" ->
            IF Group(graph, node[2]) = {} THEN {PlainTargets(graph, node[2])}
            ELSE {PlainTargets(graph, node[2]) \cup {next} :
                     next \in Chosen(graph, node[2]) \cup Default(graph, node[2])}
      [] OTHER -> {{}}

-----------------------------------------------------------------------------
(* A run *)

RoutingInit ==
    /\ graph = NoGraph
    /\ active = {}
    /\ retries = 0
    /\ run = "none"

\* build, compile, and the start of a run
Compile(g) ==
    /\ run = "none"
    /\ graph' = g
    /\ UNCHANGED retries
    /\ IF Compiles(g)
       THEN run' = "running" /\ active' = {Start}
       ELSE run' = "failed" /\ UNCHANGED active

Budgets == {node \in active : node[1] = "budget"}

\* Mutated: every loop back counts as the first.
Counted_First == IF Budgets # {} /\ graph.declared THEN 1 ELSE retries

\* increment_budget_node; a count the state's schema does not declare is
\* dropped.
Counted == IF Budgets # {} /\ graph.declared THEN retries + 1 ELSE retries

\* One superstep: every node schedules on the counter as it was before it.
Superstep ==
    /\ run = "running"
    /\ graph.declared => \A x, y \in Budgets : x = y
    /\ Counted <= RetryCap
    /\ \E choice \in [active -> UNION {Schedules(node) : node \in active}] :
          /\ \A node \in active : choice[node] \in Schedules(node)
          /\ active' = UNION {choice[node] : node \in active} \ {End}
    /\ retries' = Counted
    /\ run' = IF active' = {} THEN "ended" ELSE "running"
    /\ UNCHANGED graph

\* The nodes of a superstep that may write the counter: those that count, and
\* the agents, once there is a count to give back.
Writers ==
    {node \in active : node[1] = "budget" \/ (node[1] = "agent" /\ retries > 0)}

\* Two of them write a counter the schema declares.
Conflict ==
    /\ run = "running"
    /\ graph.declared
    /\ \E x, y \in Writers : x # y
    /\ run' = "failed"
    /\ active' = {}
    /\ UNCHANGED <<graph, retries>>

\* The next turn of the session: the checkpointed state keeps the counter.
NextTurn ==
    /\ run = "ended"
    /\ run' = "running"
    /\ active' = {Start}
    /\ UNCHANGED <<graph, retries>>

RoutingRun == Superstep \/ Conflict \/ NextTurn

RoutingNext == (\E g \in Graphs : Compile(g)) \/ RoutingRun

RoutingSpec == RoutingInit /\ [][RoutingNext]_routing

-----------------------------------------------------------------------------
(* Properties *)

RoutingTypeOK ==
    /\ graph \in Graphs \cup {NoGraph}
    /\ active \subseteq {Start} \cup {Prep(id) : id \in Ids} \cup {Agent(id) : id \in Ids}
                          \cup {Budget(target) : target \in Ids \cup {EndTarget}}
    /\ retries \in 0..RetryCap
    /\ run \in {"none", "running", "ended", "failed"}

\* Every target a definition names is one of its nodes, or the end.
WellFormed(g) ==
    \A e \in Edges(g) :
        /\ e.otherwise \in g.nodes \cup {EndTarget}
        /\ \A c \in Entries(e) : c.target \in g.nodes \cup {EndTarget}

\* The routers never send a run of a well-formed definition to a node the
\* builder did not add (it would end silently): _add_budget_nodes and
\* _wire_conditional_edges, which read the edges apart, agree.
RoutedNodesExist == graph # NoGraph /\ WellFormed(graph) => active \subseteq NodesOf(graph)

\* No source has two ways out at once.
Sequential(g) ==
    \A id \in g.nodes :
        \/ PlainTargets(g, id) = {}
        \/ Group(g, id) = {} /\ \A x, y \in PlainTargets(g, id) : x = y

\* A condition counts only when it reads the counter.
Limited(g) ==
    \A e \in Edges(g) : \A c \in Entries(e) : c.counts = NoLimit => ~c.increment

\* Every turn of a loop that the counter of a sequential definition records was
\* allowed by one of its conditions at the count before it, although the loops
\* share one counter, which is read by one node and raised by another.
BudgetHolds ==
    graph # NoGraph /\ Sequential(graph) /\ Limited(graph) =>
        \/ retries = 0
        \/ \E e \in Edges(graph) : \E c \in Entries(e) :
              c.counts # NoLimit /\ retries - 1 \in c.counts

\* Whether every cycle of a definition goes through a condition that no longer
\* holds at some count: without those the nodes can be ranked.
Bounded(g) ==
    /\ g.declared
    /\ Limited(g)
    /\ \A e \in Edges(g) : \A c \in Entries(e) :
          c.counts # NoLimit => \A n \in c.counts : n < RetryCap
    /\ \E rank \in [Ids -> 1..Cardinality(Ids)] :
          \A e \in Edges(g) :
              LET uncounted == {c.target : c \in {c \in Entries(e) : c.counts = NoLimit}}
                                  \cup {e.otherwise}
              IN  \A target \in uncounted \ {EndTarget} : rank[e.source] < rank[target]

\* A run of a definition whose cycles are all limited ends: the budget is
\* spent for good, whichever loop spends it.
RunEnds == (run = "running" /\ Bounded(graph)) ~> (run # "running")

=============================================================================
