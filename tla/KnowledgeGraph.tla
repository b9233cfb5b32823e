--------------------------- MODULE KnowledgeGraph ---------------------------
(***************************************************************************)
(* The knowledge graph in memory (knowledge-graph.ts) and the tables behind *)
(* it (knowledge-graph-persistence.ts). A mutation returns at once and      *)
(* leaves writes behind, which land one after the other, fail, or are lost  *)
(* with the process; the next process is hydrated from the tables. Nodes    *)
(* have one type and edges may join any two of them.                        *)
(***************************************************************************)
EXTENDS Naturals, Sequences, SequencesExt, FiniteSets, Relation, Subsequences

CONSTANTS
    Nodes,         \* the ids of nodes, each its own name
    Edges,         \* the ids of edges
    NoNode, NoEdge,
    MaxMutations,  \* bound of the model on the mutations
    MaxCrashes     \* bound of the model on the crashes

VARIABLES
    nodes,       \* KnowledgeGraph.nodes
    edges,       \* KnowledgeGraph.edges
    unwritten,   \* the writes that did not land yet, in the order in which they were issued
    nodeTable,   \* graph_nodes
    edgeTable,   \* graph_edges
    failed,      \* history: a write of this process failed
    mutations, crashes

graphVars == <<nodes, edges, unwritten, nodeTable, edgeTable, failed, mutations, crashes>>

Node == [active : BOOLEAN, aliases : SUBSET Nodes]
Edge == [from : Nodes, to : Nodes]

ASSUME GraphAssumption ==
    /\ IsFiniteSet(Edges) /\ Nodes \cap Edges = {}
    /\ NoNode \notin Node /\ NoEdge \notin Edge

GraphTypeOK ==
    /\ nodes \in [Nodes -> Node \cup {NoNode}]
    /\ edges \in [Edges -> Edge \cup {NoEdge}]
    /\ nodeTable \in [Nodes -> Node \cup {NoNode}]
    /\ edgeTable \in [Edges -> Edge \cup {NoEdge}]
    /\ unwritten \in Seq([id : Nodes, row : Node] \cup [id : Edges, row : Edge])
    /\ failed \in BOOLEAN /\ mutations \in 0 .. MaxMutations /\ crashes \in 0 .. MaxCrashes

GraphInit ==
    /\ nodes = [n \in Nodes |-> NoNode] /\ nodeTable = nodes
    /\ edges = [e \in Edges |-> NoEdge] /\ edgeTable = edges
    /\ unwritten = <<>> /\ failed = FALSE /\ mutations = 0 /\ crashes = 0

Known == {n \in Nodes : nodes[n] # NoNode}

Reaches(es, start, target) ==
    LET joined == [x, y \in Nodes |-> \E e \in Edges : es[e] = [from |-> x, to |-> y]]
    IN  TransitiveClosure(joined, Nodes)[start, target]

PathExists(es, start, target) == start = target \/ Reaches(es, start, target)

\* A new edge joins known nodes and closes no circle.
Admits(ns, es, new) ==
    /\ ns[new.from] # NoNode /\ ns[new.to] # NoNode
    /\ ~PathExists(es, new.to, new.from)

NodeWrites(ns, ids) == [i \in DOMAIN ids |-> [id |-> ids[i], row |-> ns[ids[i]]]]
EdgeWrites(es, ids) == [i \in DOMAIN ids |-> [id |-> ids[i], row |-> es[ids[i]]]]

Mutated(ns, es, writes) ==
    /\ mutations < MaxMutations /\ mutations' = mutations + 1
    /\ nodes' = ns /\ edges' = es
    /\ unwritten' = unwritten \o writes
    /\ UNCHANGED <<nodeTable, edgeTable, failed, crashes>>

-----------------------------------------------------------------------------
(* The mutations.                                                           *)

AddNode(n) ==
    /\ n \notin Known
    /\ LET ns == [nodes EXCEPT ![n] = [active |-> TRUE, aliases |-> {}]]
       IN  Mutated(ns, edges, NodeWrites(ns, <<n>>))

AddEdge(e, from, to) ==
    /\ edges[e] = NoEdge /\ Admits(nodes, edges, [from |-> from, to |-> to])
    /\ LET es == [edges EXCEPT ![e] = [from |-> from, to |-> to]]
       IN  Mutated(nodes, es, EdgeWrites(es, <<e>>))

MarkInactive(n) ==
    /\ n \in Known
    /\ LET ns == [nodes EXCEPT ![n].active = FALSE]
       IN  Mutated(ns, edges, NodeWrites(ns, <<n>>))

\* A known alias is written again.
AddAlias(n, alias) ==
    /\ n \in Known
    /\ LET ns == [nodes EXCEPT ![n].aliases = @ \cup ({alias} \ {n})]
       IN  Mutated(ns, edges, NodeWrites(ns, <<n>>))

Touching(es, ids) ==
    SetToSeq({e \in Edges : es[e] # NoEdge /\ (es[e].from \in ids \/ es[e].to \in ids)})

Repointed(edge, from, to) ==
    [from |-> IF edge.from = from THEN to ELSE edge.from, to |-> IF edge.to = from THEN to ELSE edge.to]

\* Fault: an edge between the merged nodes becomes a loop.
MergedWithLoops(canonical, duplicate) ==
    [e \in Edges |-> IF edges[e] = NoEdge THEN NoEdge ELSE Repointed(edges[e], duplicate, canonical)]

\* The edges of the duplicate go to the canonical node, an edge between the two is dropped.
MergedEdges(canonical, duplicate) ==
    [e \in Edges |->
        IF edges[e] = NoEdge THEN NoEdge
        ELSE LET new == Repointed(edges[e], duplicate, canonical)
             IN  IF new.from = new.to THEN NoEdge ELSE new]

\* Fault: only the canonical node is written.
CanonicalWrites(updated, ns, canonical, duplicate) == NodeWrites(updated, <<canonical>>)

\* The canonical node as it was returned, then the duplicate as it is now.
MergedNodeWrites(updated, ns, canonical, duplicate) ==
    NodeWrites(updated, <<canonical>>) \o NodeWrites(ns, <<duplicate>>)

\* A node merged with itself goes on without its new aliases, and inactive.
MergeNodes(canonical, duplicate) ==
    /\ canonical \in Known /\ duplicate \in Known
    /\ LET aliases == (nodes[canonical].aliases \cup nodes[duplicate].aliases \cup {duplicate})
                        \ {canonical}
           updated == [nodes EXCEPT ![canonical].aliases = aliases]
           ns == [updated EXCEPT ![duplicate] = [nodes[duplicate] EXCEPT !.active = FALSE]]
           es == MergedEdges(canonical, duplicate)
       IN  Mutated(ns, es, MergedNodeWrites(updated, ns, canonical, duplicate)
                             \o EdgeWrites(es, Touching(es, {canonical, duplicate})))

SplitNode(source, alias, new, moved) ==
    /\ source \in Known /\ alias \in nodes[source].aliases /\ new \notin Known
    /\ LET ns == [nodes EXCEPT ![new] = [active |-> TRUE, aliases |-> {}],
                               ![source].aliases = @ \ {alias}]
           es == [e \in Edges |->
                     IF e \in moved /\ edges[e] # NoEdge THEN Repointed(edges[e], source, new) ELSE edges[e]]
       IN  Mutated(ns, es, NodeWrites(ns, <<new, source>>)
                             \o EdgeWrites(es, Kept(Touching(es, {new}), moved)))

-----------------------------------------------------------------------------
(* The tables.                                                              *)

\* The update of an edge that is there sets its weight alone.
WriteLands ==
    /\ unwritten # <<>> /\ unwritten' = Tail(unwritten)
    /\ LET w == Head(unwritten)
       IN  \/ /\ w.id \in Nodes
              /\ nodeTable' = [nodeTable EXCEPT ![w.id] = w.row]
              /\ UNCHANGED <<edgeTable, failed>>
           \/ /\ w.id \in Edges /\ edgeTable[w.id] = NoEdge
              /\ IF nodeTable[w.row.from] # NoNode /\ nodeTable[w.row.to] # NoNode
                 THEN edgeTable' = [edgeTable EXCEPT ![w.id] = w.row] /\ UNCHANGED failed
                 ELSE failed' = TRUE /\ UNCHANGED edgeTable
              /\ UNCHANGED nodeTable
           \/ /\ w.id \in Edges /\ edgeTable[w.id] # NoEdge
              /\ UNCHANGED <<nodeTable, edgeTable, failed>>
    /\ UNCHANGED <<nodes, edges, mutations, crashes>>

RowWriteFails ==
    /\ unwritten # <<>> /\ unwritten' = Tail(unwritten)
    /\ failed' = TRUE
    /\ UNCHANGED <<nodes, edges, nodeTable, edgeTable, mutations, crashes>>

\* A row that the graph does not admit is left out.
WithRow(es, e) ==
    IF edgeTable[e] # NoEdge /\ Admits(nodeTable, es, edgeTable[e])
    THEN [es EXCEPT ![e] = edgeTable[e]] ELSE es

\* The rows of the edges are added one after the other, in whatever order they come.
Hydrated(order) ==
    LET add == [p \in [Edges -> Edge \cup {NoEdge}] \X Edges |-> WithRow(p[1], p[2])]
    IN  Reduced(add, [e \in Edges |-> NoEdge], order)

CrashAndHydrate ==
    /\ crashes < MaxCrashes /\ crashes' = crashes + 1
    /\ unwritten' = <<>> /\ failed' = FALSE
    /\ nodes' = nodeTable
    /\ \E order \in SetToSeqs(Edges) : edges' = Hydrated(order)
    /\ UNCHANGED <<nodeTable, edgeTable, mutations>>

GraphNext ==
    \/ WriteLands \/ RowWriteFails \/ CrashAndHydrate
    \/ \E n \in Nodes :
          \/ AddNode(n) \/ MarkInactive(n)
          \/ \E other \in Nodes : AddAlias(n, other) \/ MergeNodes(n, other)
          \/ \E alias, new \in Nodes, moved \in SUBSET Edges : SplitNode(n, alias, new, moved)
    \/ \E e \in Edges, from, to \in Nodes : AddEdge(e, from, to)

GraphSpec == GraphInit /\ [][GraphNext]_graphVars
-----------------------------------------------------------------------------
(* Properties.                                                              *)

\* Through merges, splits, crashes and hydrations from whatever was written, every
\* edge joins two known nodes, and never a node with itself.
EdgesJoinNodes ==
    \A e \in Edges : edges[e] # NoEdge =>
        edges[e].from \in Known /\ edges[e].to \in Known /\ edges[e].from # edges[e].to

\* When the writes have landed and none failed, the table has the nodes as they
\* are in memory: a crash now loses none of them and none of their aliases.
NodesAreDurable == unwritten = <<>> /\ ~failed => nodeTable = nodes

\* What a crash leaves in the tables is a graph, with all the nodes that were
\* written before it.
GraphSurvives == EdgesJoinNodes /\ NodesAreDurable

\* A merge writes the edges in full: "more writes than a precise diff, but always
\* correct" (knowledge-graph-persistence.ts). Violated: an edge that has a row
\* keeps its old ends there, and a dropped one keeps its row.
MergeIsDurable == unwritten = <<>> /\ ~failed /\ crashes = 0 => edgeTable = edges
=============================================================================
