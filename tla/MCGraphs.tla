------------------------------ MODULE MCGraphs ------------------------------
(* Definitions for AgentTree: edge shapes on two or three nodes, and trees of *)
(* up to two nodes.                                                           *)
EXTENDS AgentTree, TLC

CONSTANTS a, b, c, end, free, none

Cond(counts, sure, increment, target) ==
    [counts |-> counts, sure |-> sure, increment |-> increment, target |-> target]

Plain(source, target) ==
    [form |-> "plain", source |-> source, entries |-> <<>>, otherwise |-> target]

If(source, condition, alternative) ==
    [form |-> "condition", source |-> source, entries |-> <<condition>>,
     otherwise |-> alternative]

Switch(source, entries, default) ==
    [form |-> "conditions", source |-> source, entries |-> entries, otherwise |-> default]

GraphOf(nodes, edges, declared) ==
    [first |-> a, nodes |-> nodes, edges |-> edges, declared |-> declared]

\* retry_count < 1, retry_count < 2; and retry_count >= 2, which holds up to the
\* bound on the counter.
One == 0..0
Two == 0..1
FromTwo == 2..RetryCap

Limits == {One, Two}

\* A second edge of a loop a -> b -> a, and the first: one condition back, a
\* list of them with a flagged one, a group of two edges.
Loops ==
    {<<Plain(a, b), If(b, Cond(l, s, FALSE, a), end)>> : l \in Limits, s \in BOOLEAN}
    \cup {<<Plain(a, b), Switch(b, <<Cond(free, FALSE, i, end), Cond(l, s, FALSE, a)>>, end)>> :
            l \in Limits, s \in BOOLEAN, i \in BOOLEAN}
    \cup {<<Plain(a, b), If(b, Cond(l, TRUE, FALSE, a), c), If(b, Cond(Two, s, FALSE, b), end)>> :
            l \in Limits, s \in BOOLEAN}

\* Two loops that share the counter; a loop whose exit is another's entry.
Nested ==
    {<<Plain(a, b), If(b, Cond(l, s, FALSE, a), c),
       Switch(c, <<Cond(k, TRUE, FALSE, b), Cond(free, FALSE, i, a)>>, end)>> :
            l \in Limits, k \in Limits, s \in BOOLEAN, i \in BOOLEAN}

\* A loop that leaves by a count, b to the end at two, and goes back before; one
\* that nothing allows at the first turn, one that nothing stops.
Floors ==
    {<<Plain(a, b), Switch(b, <<Cond(FromTwo, s, FALSE, end), Cond(One, FALSE, FALSE, a),
                                Cond(1..1, s, FALSE, a)>>, end)>> : s \in BOOLEAN}
    \cup {<<Plain(a, b), If(b, Cond(FromTwo, TRUE, FALSE, a), end)>>,
          <<Plain(a, b), Switch(b, <<Cond(Two, TRUE, FALSE, a), Cond(FromTwo, FALSE, FALSE, a)>>, end)>>}

\* Fans: a plain edge beside a router, two plain edges.
Fans ==
    {<<Plain(a, b), Plain(a, c), If(b, Cond(l, s, FALSE, a), end), e>> :
            l \in Limits, s \in BOOLEAN,
            e \in {Plain(c, end), If(c, Cond(One, FALSE, FALSE, b), end)}}
    \cup {<<Plain(a, b), If(a, Cond(One, FALSE, FALSE, a), c), Plain(b, end)>>}

\* Two nodes of one superstep that count, whether or not the schema says so.
Counting ==
    {<<Plain(a, b), Plain(a, c), If(b, Cond(l, FALSE, FALSE, c), end),
       If(c, Cond(l, FALSE, FALSE, end), end)>> : l \in Limits}

MCGraphs ==
    {GraphOf({a, b, c}, e, d) : e \in Loops \cup Nested \cup Floors, d \in BOOLEAN}
    \cup {GraphOf({a, b, c}, e, TRUE) : e \in Fans}
    \cup {GraphOf({a, b, c}, e, d) : e \in Counting, d \in BOOLEAN}
    \cup {GraphOf({a, b}, <<Plain(a, b), If(b, Cond(One, FALSE, FALSE, c), end)>>, TRUE),
          GraphOf({a, b}, <<Plain(a, b), If(b, Cond(free, FALSE, FALSE, c), a)>>, TRUE),
          GraphOf({a}, <<Plain(a, end)>>, TRUE)}

Subs == SUBSET {[id |-> c, skilled |-> s] : s \in BOOLEAN}

Nodes(id) ==
    {[id |-> id, type |-> t, subgraph |-> FALSE, model |-> m, skilled |-> s, subs |-> u,
      graph |-> none] :
        t \in {"orchestrator", "specialist"}, m \in BOOLEAN, s \in BOOLEAN, u \in Subs}
    \cup {[id |-> id, type |-> "specialist", subgraph |-> TRUE, model |-> FALSE,
           skilled |-> FALSE, subs |-> {}, graph |-> g] :
        g \in {g \in MCGraphs : Len(g.edges) <= 2}}

Trees == {<<>>} \cup {<<n>> : n \in Nodes(a)} \cup {<<n, m>> : n \in Nodes(a), m \in Nodes(b)}

MCDefinitions ==
    [topology : {"composite", "star"}, s3 : BOOLEAN, nodes : Trees, graph : {none}]
    \cup [topology : {"acrylic", ""}, s3 : {FALSE}, nodes : {<<>>}, graph : MCGraphs]
=============================================================================
