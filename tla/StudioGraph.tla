----------------------------- MODULE StudioGraph -----------------------------
(***************************************************************************)
(* The visual graphs of the Operations Center (graph_v59.py and the        *)
(* definitions built on it in control_plane.py): a graph drawn edge by     *)
(* edge is normalised against the typed ports of its studio, a router      *)
(* graph is planned into an entry, transitions and a stage order, an agent *)
(* graph is checked against the agent it describes, and what passes is     *)
(* stored.  Labels, conditions, edge ids and layout are left out.          *)
(***************************************************************************)
EXTENDS Integers, Sequences, FiniteSets, SequencesExt

CONSTANTS
    Drafts,        \* the drawings begun: [studio, agent, nodes, palette]
    MaxGraphEdges, \* max_edges of the studio
    MaxDrawn,      \* bound on the edges of a drawing
    NoGraph        \* nothing stored, or refused

P(id, type) == [id |-> id, type |-> type]
Ports(in, out) == [in |-> in, out |-> out]

Flow == P("default", "flow")
Answer == P("result", "answer")
Tools == P("tools", "tool")
Context == P("context", "knowledge")
Gate(outs) == Ports(<<Flow>>, <<Flow>> \o [i \in DOMAIN outs |-> P(outs[i], "flow")])

WorkflowPorts ==
    [input     |-> Ports(<<>>, <<Flow>>),
     output    |-> Ports(<<Flow, P("answer", "answer")>>, <<>>),
     agent     |-> Ports(<<Flow, Context, Tools>>, <<Flow, Answer>>),
     team      |-> Ports(<<Flow>>, <<Flow, Answer>>),
     knowledge |-> Ports(<<>>, <<Context>>),
     skill     |-> Ports(<<>>, <<Tools>>),
     plugin    |-> Ports(<<>>, <<Tools>>),
     approval  |-> Gate(<<"approved", "rejected", "timeout">>),
     branch    |-> Gate(<<"true", "false">>),
     parallel  |-> Ports(<<Flow>>, <<Flow>>)]

AgentPorts ==
    [input     |-> Ports(<<>>, <<Flow>>),
     agent     |-> Ports(<<Flow, Context, Tools>>, <<Answer>>),
     knowledge |-> Ports(<<>>, <<Context>>),
     skill     |-> Ports(<<>>, <<Tools>>),
     plugin    |-> Ports(<<>>, <<Tools>>),
     output    |-> Ports(<<P("answer", "answer")>>, <<>>)]

Piece(in, out) == Ports(IF in = "" THEN <<>> ELSE <<P("default", in)>>,
                        IF out = "" THEN <<>> ELSE <<P("default", out)>>)

KnowledgePorts ==
    [data_source    |-> Piece("", "raw"),
     extract        |-> Piece("raw", "text"),
     transform      |-> Piece("text", "text"),
     chunk          |-> Piece("text_or_raw", "chunks"),
     embed          |-> Piece("chunks_or_text", "embeddings"),
     index          |-> Piece("embeddings", "index"),
     knowledge_base |-> Piece("knowledge_sink", "knowledge"),
     qa             |-> Piece("knowledge", "answer"),
     output         |-> Piece("answer_or_knowledge", "")]

RouterOutputs ==
    [classifier         |-> <<"coding", "vision", "default">>,
     condition          |-> <<"true", "false", "default">>,
     capability_filter  |-> <<"matched", "unmatched", "default">>,
     health_filter      |-> <<"healthy", "unhealthy", "default">>,
     approval           |-> <<"approved", "rejected", "timeout", "default">>,
     cost_latency_score |-> <<"default">>,
     load_balance       |-> <<"default">>,
     route              |-> <<"default">>,
     retry              |-> <<"default">>,
     fallback           |-> <<"default">>]

RouterPorts ==
    [type \in DOMAIN RouterOutputs |->
        Ports(<<P("default", "route_flow")>>,
              [i \in DOMAIN RouterOutputs[type] |->
                  P(RouterOutputs[type][i], "route_flow")])]

PortTables == [workflow |-> WorkflowPorts, agent |-> AgentPorts,
               knowledge |-> KnowledgePorts, router |-> RouterPorts]

Sinks ==
    [flow       |-> {"flow"},
     answer     |-> {"answer", "flow", "answer_or_knowledge"},
     knowledge  |-> {"knowledge", "answer_or_knowledge"},
     tool       |-> {"tool"},
     raw        |-> {"raw", "text_or_raw", "chunks_or_text", "knowledge_sink"},
     text       |-> {"text", "text_or_raw", "chunks_or_text", "knowledge_sink"},
     chunks     |-> {"chunks_or_text", "knowledge_sink"},
     embeddings |-> {"embeddings", "knowledge_sink"},
     index      |-> {"index", "knowledge_sink"},
     route_flow |-> {"route_flow"}]

Compatible(source, target) == target \in Sinks[source]

Offered(ports, id) == {i \in DOMAIN ports : id \in {"", ports[i].id}}

\* Default ports come before named ones, and else the first one comes first.
Preferred(ports, i, j) ==
    \/ ports[i].id = "default" /\ ports[j].id # "default"
    \/ (ports[i].id = "default" <=> ports[j].id = "default") /\ i <= j

\* _resolve_ports: the first pair that fits; {} when the named port is unknown or
\* nothing fits.
Resolved(source, target, edge) ==
    LET fits == {p \in Offered(source.out, edge.out) \X Offered(target.in, edge.in) :
                    Compatible(source.out[p[1]].type, target.in[p[2]].type)}
        first(p) == \A q \in fits : IF p[1] = q[1] THEN Preferred(target.in, p[2], q[2])
                                   ELSE Preferred(source.out, p[1], q[1])
    IN  {[from |-> edge.from, out |-> source.out[p[1]].id,
          to |-> edge.to, in |-> target.in[p[2]].id] : p \in {q \in fits : first(q)}}

-----------------------------------------------------------------------------
\* _has_cycle: nodes are untouched (0), on the path (1) or finished (2).

Ids(nodes) == {nodes[i].id : i \in DOMAIN nodes}
Search(ids) == [found : BOOLEAN, mark : [ids -> 0 .. 2]]

\* visit, where `below' holds what the visits of the successors do.
Visit(edges, below, search, n) ==
    IF search.found \/ search.mark[n] = 1 THEN [search EXCEPT !.found = TRUE]
    ELSE IF search.mark[n] = 2 THEN search
    ELSE LET after == FoldLeft(LAMBDA s, e : IF e.from = n THEN below[<<s, e.to>>] ELSE s,
                               [search EXCEPT !.mark[n] = 1], edges)
         IN  IF after.found THEN after ELSE [after EXCEPT !.mark[n] = 2]

\* The path has no more nodes than there are, so no visit is deeper than that.
HasCycle(nodes, edges) ==
    LET ids == Ids(nodes)
        visit[depth \in 0 .. Len(nodes) + 1] ==
            [p \in Search(ids) \X ids |->
                IF depth = 0 THEN p[1] ELSE Visit(edges, visit[depth - 1], p[1], p[2])]
        from(s, n) == IF s.mark[n] = 0 THEN visit[Len(nodes) + 1][<<s, n>>] ELSE s
    IN  FoldLeft(LAMBDA s, node : from(s, node.id),
                 [found |-> FALSE, mark |-> [n \in ids |-> 0]], nodes).found

-----------------------------------------------------------------------------
NodeOf(nodes, id) == CHOOSE node \in ToSet(nodes) : node.id = id
OfType(nodes, type) == {node \in ToSet(nodes) : node.type = type}
PortsAt(studio, nodes, id) == PortTables[studio][NodeOf(nodes, id).type]

Cleaned(studio, nodes, edge) ==
    IF {edge.from, edge.to} \subseteq Ids(nodes) /\ edge.from # edge.to
    THEN Resolved(PortsAt(studio, nodes, edge.from), PortsAt(studio, nodes, edge.to), edge)
    ELSE {}

Distinct(drawn, resolved) == IsInjective(resolved)

\* normalize_graph: {} when the graph is refused, else the one normalised graph.
Normalized(studio, nodes, edges) ==
    LET clean == [i \in DOMAIN edges |-> Cleaned(studio, nodes, edges[i])]
        chosen == [i \in DOMAIN edges |-> CHOOSE e \in clean[i] : TRUE]
    IN  IF /\ Len(edges) <= MaxGraphEdges
           /\ Cardinality(Ids(nodes)) = Len(nodes)
           /\ \A i \in DOMAIN nodes : nodes[i].type \in DOMAIN PortTables[studio]
           /\ \A i \in DOMAIN edges : clean[i] # {}
           /\ Distinct(edges, chosen)
           /\ ~HasCycle(nodes, chosen)
        THEN {[nodes |-> nodes, edges |-> chosen]} ELSE {}

-----------------------------------------------------------------------------
\* router_graph_plan

InDegree(edges, n) == Cardinality({i \in DOMAIN edges : edges[i].to = n})

\* Mutant: a stage is ready at its first incoming edge.
FreedAtOnce(at, target) ==
    IF target \in ToSet(at.ready) \cup ToSet(at.order) THEN at
    ELSE [at EXCEPT !.ready = Append(@, target)]

\* A stage is ready when its last incoming edge is taken ...
Freed(at, target) ==
    LET left == [at EXCEPT !.degree[target] = @ - 1]
    IN  IF left.degree[target] = 0 THEN [left EXCEPT !.ready = Append(@, target)] ELSE left

\* ... and those that are ready are taken in turn (Kahn's order), first the entry.
Taken(edges, at, n) ==
    FoldLeft(LAMBDA a, e : IF e.from = n THEN Freed(a, e.to) ELSE a,
             [at EXCEPT !.ready = Tail(@), !.order = Append(@, n)], edges)

StageOrder(nodes, edges, entry) ==
    FoldLeft(LAMBDA at, node : IF at.ready = <<>> THEN at ELSE Taken(edges, at, Head(at.ready)),
             [ready |-> <<entry>>, order |-> <<>>,
              degree |-> [n \in Ids(nodes) |-> InDegree(edges, n)]], nodes).order

ReachedFrom(edges, start, ids) ==
    FoldSet(LAMBDA n, near : near \cup {e.to : e \in {f \in ToSet(edges) : f.from \in near}},
            {start}, ids)

Connected(graph, entry) == ReachedFrom(graph.edges, entry, Ids(graph.nodes)) = Ids(graph.nodes)

RouterPlan(graph) ==
    LET ids == Ids(graph.nodes)
        edges == graph.edges
        starts == {n \in ids : InDegree(edges, n) = 0}
        entry == CHOOSE n \in starts : TRUE
        order == StageOrder(graph.nodes, edges, entry)
        leaving(n) == {e \in ToSet(edges) : e.from = n}
    IN  IF ids = {}
        THEN {[graph |-> graph, entry |-> NoGraph, order |-> <<>>, transitions |-> <<>>]}
        ELSE
        IF /\ \A i, j \in DOMAIN edges :
                 edges[i].from = edges[j].from /\ edges[i].out = edges[j].out => i = j
           /\ Cardinality(starts) = 1
           /\ Connected(graph, entry)
           /\ Len(order) = Cardinality(ids)
        THEN {[graph |-> graph, entry |-> entry, order |-> order,
               transitions |-> [n \in ids |->
                   [port \in {e.out : e \in leaving(n)} |->
                       (CHOOSE e \in leaving(n) : e.out = port).to]]]}
        ELSE {}

-----------------------------------------------------------------------------
\* The graph of an agent: _agent_default_graph, _validate_agent_graph and
\* _agent_graph_resource_ids.  A node is [id, type, ref]; ref 0 is none.

Kinds == {"knowledge", "skill", "plugin"}
Node(type, ref) == [id |-> <<type, ref>>, type |-> type, ref |-> ref]
Edge(from, out, to, in) == [from |-> from, out |-> out, to |-> to, in |-> in]

\* resources: kind -> set of ids
Resources(resources) ==
    LET nodesOf(kind) == {Node(kind, ref) : ref \in resources[kind]}
    IN  SetToSeq(UNION {nodesOf(kind) : kind \in Kinds})

DefaultNodes(agent, resources) ==
    <<Node("input", 0), Node("agent", agent), Node("output", 0)>> \o Resources(resources)

DefaultEdges(agent, resources) ==
    LET given == Resources(resources)
        port(node) == IF node.type = "knowledge" THEN "context" ELSE "tools"
    IN  <<Edge(<<"input", 0>>, "default", <<"agent", agent>>, "default"),
          Edge(<<"agent", agent>>, "result", <<"output", 0>>, "answer")>>
        \o [i \in DOMAIN given |->
               Edge(given[i].id, port(given[i]), <<"agent", agent>>, port(given[i]))]

Wired(graph, node, agentNode) ==
    \E e \in ToSet(graph.edges) : e.from = node /\ e.to = agentNode

AgentGraph(graph, agent) ==
    LET one(type) == CHOOSE node \in OfType(graph.nodes, type) : TRUE
        refs(kind) == {node.ref : node \in OfType(graph.nodes, kind)}
    IN  IF /\ \A type \in {"input", "agent", "output"} :
                 Cardinality(OfType(graph.nodes, type)) = 1
           /\ one("agent").ref = agent
           /\ Edge(one("input").id, "default", one("agent").id, "default") \in ToSet(graph.edges)
           /\ Edge(one("agent").id, "result", one("output").id, "answer") \in ToSet(graph.edges)
           /\ \A kind \in Kinds :
                 /\ 0 \notin refs(kind)
                 /\ Cardinality(refs(kind)) = Cardinality(OfType(graph.nodes, kind))
                 /\ \A node \in OfType(graph.nodes, kind) : Wired(graph, node.id, one("agent").id)
        THEN {graph} ELSE {}

ResourceIds(graph) ==
    [kind \in Kinds |-> {node.ref : node \in {n \in ToSet(graph.nodes) : n.type = kind /\ n.ref # 0}}]

\* A drawing is one of a studio that exists, and the resources of an agent leave room
\* for its graph: a drawing has 220 nodes at most, a graph may have 500 edges.
ASSUME DraftsAssumption ==
    \A d \in Drafts :
        /\ d.studio \in DOMAIN PortTables
        /\ d.nodes \in Seq(ToSet(d.nodes))
        /\ d.studio = "agent" =>
              Len(DefaultEdges(d.agent, ResourceIds(d))) <= MaxGraphEdges

-----------------------------------------------------------------------------
VARIABLES
    draft,  \* the drawing: [studio, agent, nodes, palette, edges]
    saved   \* the definition stored for it, or NoGraph

graphVars == <<draft, saved>>

\* What the handlers of the four studios store: {} when they answer 422.
Definition(d) ==
    LET graphs == Normalized(d.studio, d.nodes, d.edges)
    IN  CASE d.studio = "router" -> UNION {RouterPlan(g) : g \in graphs}
          [] d.studio = "agent" -> UNION {AgentGraph(g, d.agent) : g \in graphs}
          [] OTHER -> graphs

Drawing(d, edges) ==
    [studio |-> d.studio, agent |-> d.agent, nodes |-> d.nodes, palette |-> d.palette,
     edges |-> edges]

GraphInit ==
    /\ draft \in {Drawing(d, <<>>) : d \in Drafts}
    /\ saved = NoGraph

Draw ==
    /\ Len(draft.edges) < MaxDrawn
    /\ \E edge \in draft.palette : draft' = [draft EXCEPT !.edges = Append(@, edge)]
    /\ UNCHANGED saved

\* POST and PUT
Store ==
    /\ saved' \in Definition(draft)
    /\ UNCHANGED draft

\* DELETE
Discard ==
    /\ saved # NoGraph
    /\ saved' = NoGraph
    /\ UNCHANGED draft

GraphNext == Draw \/ Store \/ Discard

GraphSpec == GraphInit /\ [][GraphNext]_graphVars

-----------------------------------------------------------------------------
GraphOf(definition) ==
    IF draft.studio = "router" THEN definition.graph ELSE definition

(* Every edge stored names ports its two stages have, whose types fit,     *)
(* and no edge is stored twice (_resolve_ports, normalize_graph).          *)
GraphTypeOK ==
    saved # NoGraph =>
        LET graph == GraphOf(saved)
        IN  /\ IsInjective(graph.edges)
            /\ \A e \in ToSet(graph.edges) :
                  /\ \E p \in ToSet(PortsAt(draft.studio, graph.nodes, e.from).out) : p.id = e.out
                  /\ \E p \in ToSet(PortsAt(draft.studio, graph.nodes, e.to).in) : p.id = e.in

(* The depth-first search of _has_cycle finds a cycle exactly when some    *)
(* stage leads back to itself: joins and parallel edges are not cycles.    *)
CyclesAreFound ==
    LET ids == Ids(draft.nodes)
        joins(e) == {e.from, e.to} \subseteq ids
        back(e) == e.from \in ReachedFrom(draft.edges, e.to, ids)
    IN  (\A e \in ToSet(draft.edges) : joins(e)) =>
            (HasCycle(draft.nodes, draft.edges) <=> \E e \in ToSet(draft.edges) : back(e))

(* A stored router pipeline can be run: the stages of its list come after  *)
(* every stage that leads to them, each is there once, the entry is first  *)
(* and leads to all of them, and following the transitions from the entry  *)
(* ends (router_graph_plan and the walk of _apply_router_pipelines).       *)
PipelineRuns ==
    saved # NoGraph /\ draft.studio = "router" =>
        LET place(n) == CHOOSE i \in DOMAIN saved.order : saved.order[i] = n
        IN  /\ ToSet(saved.order) = Ids(saved.graph.nodes)
            /\ IsInjective(saved.order)
            /\ saved.order # <<>> => saved.order[1] = saved.entry
            /\ \A n \in Ids(saved.graph.nodes) :
                  \A port \in DOMAIN saved.transitions[n] :
                      place(n) < place(saved.transitions[n][port])
            /\ saved.order # <<>> =>
                  ReachedFrom(saved.graph.edges, saved.entry, Ids(saved.graph.nodes))
                      = Ids(saved.graph.nodes)

(* The graph regenerated for an agent passes the check a saved graph has   *)
(* to pass, and gives the agent the resources it was generated from.       *)
DefaultGraphStands ==
    draft.studio = "agent" =>
        LET resources == ResourceIds(draft)
        IN  \E g \in Normalized("agent", DefaultNodes(draft.agent, resources),
                                DefaultEdges(draft.agent, resources)) :
                /\ AgentGraph(g, draft.agent) = {g}
                /\ ResourceIds(g) = resources

(* The resources an agent graph gives its agent are exactly those that     *)
(* feed it: knowledge through `context', skills and plugins through        *)
(* `tools' (the ids agent_api takes over from the graph).                  *)
ResourcesFeedTheAgent ==
    saved # NoGraph /\ draft.studio = "agent" =>
        \A kind \in Kinds :
            ResourceIds(saved)[kind] =
                {NodeOf(saved.nodes, e.from).ref : e \in
                    {f \in ToSet(saved.edges) :
                        /\ NodeOf(saved.nodes, f.to).type = "agent"
                        /\ f.in = IF kind = "knowledge" THEN "context" ELSE "tools"
                        /\ NodeOf(saved.nodes, f.from).type = kind}}

(* What is stored of a drawing is sound: its edges, the absence of cycles, *)
(* the order of a pipeline's stages and the resources of an agent.         *)
GraphInv ==
    /\ GraphTypeOK
    /\ CyclesAreFound
    /\ PipelineRuns
    /\ DefaultGraphStands
    /\ ResourcesFeedTheAgent
=============================================================================
