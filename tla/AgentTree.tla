----------------------------- MODULE AgentTree -----------------------------
(***************************************************************************)
(* The agents built from a definition: build_agent_from_definition chooses *)
(* a topology; the composite and the star put an orchestrator over         *)
(* specialists and their subagents, each with the middleware, the backend  *)
(* and the checkpointer its builder gives it; an acrylic definition is     *)
(* compiled to a graph and run (GraphRouting).                             *)
(*                                                                         *)
(* create_agent and create_deep_agent are external: a subagent of a deep   *)
(* agent inherits its backend, and tool permissions on a backend that      *)
(* executes commands are refused.                                          *)
(***************************************************************************)
EXTENDS GraphRouting

CONSTANT Definitions    \* [topology, s3, nodes, graph]

\* What the builders are handed, "" for no topology; only a definition with a
\* graph can name the acrylic one.
ASSUME DefinitionsAssumption ==
    \A d \in Definitions :
        /\ d.topology \in {"composite", "acrylic", "star", ""}
        /\ d.graph \in Graphs \cup {NoGraph}
        /\ d.topology = "acrylic" => d.graph # NoGraph

VARIABLES
    definition,     \* the session's definition
    builder,        \* "none" until the topology is chosen
    todo,           \* indices of the specialists left to build
    agents,         \* the agents built so far
    status          \* "building", "built" or "refused"

tree == <<definition, builder, todo, agents, status>>

vars == <<tree, routing>>

Middleware == {"asking", "tracking", "reporting", "retry", "todos", "shell", "delegation"}

Backends == [store : {"db", "shell", "state"}, skills : BOOLEAN]

\* Where an agent is in the tree: <<>> is the orchestrator, <<n>> a specialist
\* or a node of an acrylic graph, <<n, m>> what is nested in a specialist.
Paths == {<<>>} \cup {<<n>> : n \in Ids} \cup {<<n, m>> : n, m \in Ids}

\* tools: whether it is given the definition's tools, or a workspace's.
Agents == [path : Paths, stack : SUBSET Middleware, tools : BOOLEAN, saved : BOOLEAN,
           backend : Backends, permitted : BOOLEAN]

-----------------------------------------------------------------------------
(* What the session hands the builder *)

\* _collect_skills: the composite backend exists when any node declares skills.
Skilled(d) ==
    \E i \in DOMAIN d.nodes : d.nodes[i].skilled \/ \E s \in d.nodes[i].subs : s.skilled

\* resolve_backend, wrapped by _build_composite_backend
SessionBackend(d) == [store |-> IF d.s3 THEN "shell" ELSE "db", skills |-> Skilled(d)]

\* build_s3_backend
ShellBackend == [store |-> "shell", skills |-> FALSE]

StateBackend == [store |-> "state", skills |-> FALSE]

Executes(backend) == backend.store = "shell"

\* The last node of type "orchestrator"; the first node when there is none.
Orchestrators(nodes) == {i \in DOMAIN nodes : nodes[i].type = "orchestrator"}

RootOf(nodes) ==
    IF Orchestrators(nodes) = {} THEN nodes[1]
    ELSE nodes[CHOOSE i \in Orchestrators(nodes) : \A j \in Orchestrators(nodes) : j <= i]

Specialists(nodes) == {i \in DOMAIN nodes : nodes[i].type # "orchestrator"}

\* The topology a definition names, or the one its edges show.
Topology(d) ==
    CASE d.topology \in {"composite", "acrylic", "star"} -> d.topology
      [] d.graph # NoGraph /\ (\E e \in Edges(d.graph) : Conditional(e)) -> "acrylic"
      [] OTHER -> "star"

-----------------------------------------------------------------------------
(* The agents *)

\* _build_orchestrator of the composite: it has no tools but its middleware's.
CompositeRoot(d) ==
    [path |-> <<>>, tools |-> FALSE, saved |-> TRUE, permitted |-> FALSE, backend |-> SessionBackend(d),
     stack |-> {"todos", "asking", "reporting", "retry"}
                   \cup (IF Specialists(d.nodes) = {} THEN {} ELSE {"delegation"})]

\* The star's orchestrator, a deep agent.
StarRoot(d) ==
    [path |-> <<>>, tools |-> TRUE, saved |-> TRUE, permitted |-> FALSE, backend |-> SessionBackend(d),
     stack |-> {"asking", "tracking", "reporting", "delegation"}]

\* build_specialist_middleware
SpecialistStack == {"shell", "tracking", "todos", "retry"}

\* _build_deep_agent_spec and build_specialist: no checkpointer, and on a real
\* disk a backend of its own without the skills' routes.
Specialist(d, n) ==
    [path |-> <<n.id>>, tools |-> TRUE, saved |-> FALSE, permitted |-> FALSE,
     stack |-> SpecialistStack,
     backend |-> IF d.s3 THEN ShellBackend ELSE SessionBackend(d)]

\* Mutated: permissions wherever there are skills.
Subagent_Permitted(d, s, path, backend) ==
    [path |-> path, tools |-> TRUE, saved |-> FALSE, permitted |-> s.skilled,
     backend |-> backend,
     stack |-> {"shell", "tracking", "todos", "retry"}]

\* Mutated: no job tracking in a subagent's stack.
Subagent_Untracked(d, s, path, backend) ==
    [path |-> path, tools |-> TRUE, saved |-> FALSE, permitted |-> s.skilled /\ ~d.s3,
     backend |-> backend, stack |-> {"shell", "todos", "retry"}]

\* build_subagent: the backend is inherited; skills bring permissions, unless
\* the session is on a real disk.
Subagent(d, s, path, backend) ==
    [path |-> path, tools |-> TRUE, saved |-> FALSE, permitted |-> s.skilled /\ ~d.s3,
     backend |-> backend, stack |-> {"shell", "tracking", "todos", "retry"}]

\* compile_node: the builder's checkpointer for the node as well.
GraphAgent(path, saved) ==
    [path |-> path, tools |-> TRUE, saved |-> saved, permitted |-> FALSE, backend |-> StateBackend,
     stack |-> {"todos", "asking", "retry"}]

-----------------------------------------------------------------------------
(* Building *)

TreeInit ==
    /\ definition \in Definitions
    /\ builder = "none"
    /\ todo = {}
    /\ agents = {}
    /\ status = "building"

\* The specialists are built in the definition's order.
IsNext(i) == i \in todo /\ \A j \in todo : i <= j

\* The agents of a specialist join the tree, unless the library refuses their
\* permissions.
Join(new, i) ==
    /\ agents' = agents \cup new
    /\ todo' = todo \ {i}
    /\ status' = IF \E a \in new : a.permitted /\ Executes(a.backend)
                 THEN "refused" ELSE status
    /\ UNCHANGED <<definition, builder>>

\* A ValueError ends the build.
Refuse ==
    /\ status' = "refused"
    /\ UNCHANGED <<definition, builder, todo, agents>>

\* build_agent_from_definition, and the first part of each build
Choose ==
    /\ status = "building"
    /\ builder = "none"
    /\ builder' = Topology(definition)
    /\ todo' = IF builder' = "acrylic" THEN {} ELSE Specialists(definition.nodes)
    /\ status' = IF builder' # "acrylic" /\ definition.nodes = <<>> THEN "refused" ELSE status
    /\ UNCHANGED <<definition, agents, routing>>

\* One specialist of the composite with its nested subagents.
BuildSpecialist(i) ==
    /\ status = "building"
    /\ builder = "composite"
    /\ IsNext(i)
    /\ LET n == definition.nodes[i]
           specialist == Specialist(definition, n)
       IN  /\ ~n.subgraph
           /\ IF ~n.model THEN Refuse
              ELSE Join({specialist} \cup
                        {Subagent(definition, s, <<n.id, s.id>>, specialist.backend) : s \in n.subs}, i)
    /\ UNCHANGED routing

\* A specialist that is a nested acrylic graph, without a checkpointer.
BuildSubgraph(i) ==
    /\ status = "building"
    /\ builder = "composite"
    /\ IsNext(i)
    /\ LET n == definition.nodes[i]
       IN  /\ n.subgraph
           /\ IF ~Compiles(n.graph) THEN Refuse
              ELSE Join({GraphAgent(<<n.id, m>>, FALSE) : m \in n.graph.nodes}, i)
    /\ UNCHANGED routing

\* A specialist of the star is a subagent of its orchestrator.
BuildStarSubagent(i) ==
    /\ status = "building"
    /\ builder = "star"
    /\ IsNext(i)
    /\ LET n == definition.nodes[i]
       IN  Join({Subagent(definition, n, <<n.id>>, SessionBackend(definition))}, i)
    /\ UNCHANGED routing

\* The orchestrator comes last, and must name a model.
BuildRoot ==
    /\ status = "building"
    /\ builder \in {"composite", "star"}
    /\ todo = {}
    /\ IF RootOf(definition.nodes).model
       THEN /\ status' = "built"
            /\ agents' = agents \cup {IF builder = "star" THEN StarRoot(definition)
                                      ELSE CompositeRoot(definition)}
            /\ UNCHANGED <<definition, builder, todo>>
       ELSE Refuse
    /\ UNCHANGED routing

\* AcrylicTopologyBuilder.build
BuildGraph ==
    /\ status = "building"
    /\ builder = "acrylic"
    /\ Compile(definition.graph)
    /\ IF run' = "running"
       THEN /\ status' = "built"
            /\ agents' = {GraphAgent(<<m>>, TRUE) : m \in definition.graph.nodes}
            /\ UNCHANGED <<definition, builder, todo>>
       ELSE Refuse

Init == TreeInit /\ RoutingInit

Next ==
    \/ Choose
    \/ \E i \in todo : BuildSpecialist(i) \/ BuildSubgraph(i) \/ BuildStarSubagent(i)
    \/ BuildRoot \/ BuildGraph
    \/ (RoutingRun /\ UNCHANGED tree)

Spec == Init /\ [][Next]_vars /\ WF_vars((Superstep \/ Conflict) /\ UNCHANGED tree)

-----------------------------------------------------------------------------
(* Properties *)

TypeOK ==
    /\ RoutingTypeOK
    /\ definition \in Definitions
    /\ builder \in {"none", "composite", "star", "acrylic"}
    /\ agents \subseteq Agents
    /\ status \in {"building", "built", "refused"}

Orchestrated == status = "built" /\ builder \in {"composite", "star"}

\* The agents of a graph nested in a specialist's place, of compile_node.
OfNestedGraph(a) ==
    Len(a.path) = 2 /\ \E i \in DOMAIN definition.nodes :
        definition.nodes[i].subgraph /\ definition.nodes[i].id = a.path[1]

\* The jobs an agent starts reach the agent that reports them (ADR-015): every
\* agent that is given tools tracks its jobs, every agent above it carries their
\* ids in its state, and the orchestrator reports.  Not so in a nested graph.
JobsReachReporter ==
    Orchestrated =>
        \A a \in agents : a.tools /\ ~OfNestedGraph(a) =>
            /\ "tracking" \in a.stack
            /\ \A n \in 1..(Len(a.path) - 1) :
                  \E above \in agents :
                      above.path = SubSeq(a.path, 1, n) /\ "tracking" \in above.stack
            /\ \E root \in agents : root.path = <<>> /\ "reporting" \in root.stack

\* "A job-tracking middleware runs on the main agent and on every subagent"
\* (ADR-015): the agents of a nested graph have none.
SubagentsTrack == Orchestrated => \A a \in agents : a.path # <<>> => "tracking" \in a.stack

\* No agent gets permissions on a backend that executes commands, its own or
\* one it inherits: the library refuses them and the session has no graph.
PermissionsAccepted == \A a \in agents : a.permitted => ~Executes(a.backend)

=============================================================================
