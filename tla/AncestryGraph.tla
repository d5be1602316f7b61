---------------------------- MODULE AncestryGraph ----------------------------
(***************************************************************************)
(* _graph_errors: the check of one declared dependency graph, the same     *)
(* code for the ancestry of a measurement (src/app/dependency_registry.py) *)
(* and of a registry (src/app/registry_observation.py).  A recursive visit *)
(* starts at the output node and follows upstream ids; what it reports     *)
(* decides whether the declaration may be signed and believed.             *)
(*                                                                         *)
(* The recursion is the variable stack: one frame per active call, with    *)
(* the upstream ids its loop has not come to.  The loop runs over a list;  *)
(* the model lets it take the ids in any order.                            *)
(***************************************************************************)
EXTENDS Naturals, Sequences, FiniteSets

CONSTANTS Ids      \* node ids a manifest may use

VARIABLES
    upstream,   \* by_id: the declared nodes with their upstream_node_ids
    output,     \* output_node_id
    stack,      \* active calls of visit, the outermost first
    visited,    \* in the order in which their calls returned
    cycle       \* "ancestry-cycle" has been reported

graphVars == <<upstream, output, stack, visited, cycle>>

Nodes == DOMAIN upstream
Frame == [node: Ids, rest: SUBSET Ids]

(* What the models admit: at least two nodes, and no node upstream of      *)
(* itself.  Ids and upstream ids are unique, so sets stand for the lists.  *)
Declarable(up) ==
    /\ Cardinality(DOMAIN up) >= 2
    /\ \A n \in DOMAIN up : n \notin up[n]

Graphs == UNION {[N -> SUBSET Ids] : N \in SUBSET Ids}

Top == stack[Len(stack)]
Visiting == {stack[i].node : i \in DOMAIN stack}
Visited == {visited[i] : i \in DOMAIN visited}
Call(n) == [node |-> n, rest |-> upstream[n]]

(* The visit starts only at a declared output node.                        *)
GraphInit ==
    /\ upstream \in {up \in Graphs : Declarable(up)}
    /\ output \in Nodes
    /\ stack = <<Call(output)>>
    /\ visited = <<>>
    /\ cycle = FALSE

-----------------------------------------------------------------------------
Skip(n) == [stack EXCEPT ![Len(stack)].rest = @ \ {n}]

Meets(n) ==
    /\ stack # <<>>
    /\ n \in Top.rest
    /\ n \in Visiting \cup Visited \/ n \notin Nodes

\* Faulty variant: a node that was visited is reported like one being visited.
MeetNodeTwice(n) ==
    /\ Meets(n)
    /\ stack' = Skip(n)
    /\ cycle' = (cycle \/ n \in Visiting \cup Visited)
    /\ UNCHANGED <<upstream, output, visited>>

(* The next upstream id is unknown, was visited, or is being visited.      *)
MeetNode(n) ==
    /\ Meets(n)
    /\ stack' = Skip(n)
    /\ cycle' = (cycle \/ n \in Visiting)
    /\ UNCHANGED <<upstream, output, visited>>

EnterNode(n) ==
    /\ stack # <<>>
    /\ n \in Top.rest \cap Nodes
    /\ n \notin Visiting \cup Visited
    /\ stack' = Append(Skip(n), Call(n))
    /\ UNCHANGED <<upstream, output, visited, cycle>>

LeaveNode ==
    /\ stack # <<>>
    /\ Top.rest = {}
    /\ visited' = Append(visited, Top.node)
    /\ stack' = SubSeq(stack, 1, Len(stack) - 1)
    /\ UNCHANGED <<upstream, output, cycle>>

GraphNext == \/ \E n \in Ids : MeetNode(n) \/ EnterNode(n)
             \/ LeaveNode

GraphSpec == GraphInit /\ [][GraphNext]_graphVars

-----------------------------------------------------------------------------
Done == stack = <<>>
UnknownUpstream == \E n \in Nodes : upstream[n] \notin SUBSET Nodes
DisconnectedOutput == output \notin Visited   \* faulty variant
DisconnectedNode == Cardinality(Visited) # Cardinality(Nodes)
WellFormed == Done /\ ~cycle /\ ~UnknownUpstream /\ ~DisconnectedNode

(* The types of the manifest and of the state of the visit.                *)
GraphTypeOK ==
    /\ upstream \in Graphs
    /\ output \in Nodes
    /\ stack \in Seq(Frame)
    /\ visited \in Seq(Ids)
    /\ cycle \in BOOLEAN

(* A visit that reports no cycle leaves an order of the nodes in which     *)
(* everything upstream of a node comes before it: what was visited has no  *)
(* cycle.  At every moment, what has been visited depends on visited nodes *)
(* and, when a cycle was met, on nodes still being visited.                *)
VisitedInOrder ==
    ~cycle => \A i \in DOMAIN visited : \A u \in upstream[visited[i]] \cap Nodes :
                 \E j \in 1 .. i - 1 : visited[j] = u

(* A closed walk along upstream ids.                                       *)
Walk(p) ==
    /\ p # <<>>
    /\ \A i \in DOMAIN p : p[i] \in Nodes
    /\ \A i \in 1 .. Len(p) - 1 : p[i + 1] \in upstream[p[i]]
ClosedWalk(p) == Walk(p) /\ p[1] \in upstream[p[Len(p)]]

(* What the output depends on within k steps, by repeated addition of      *)
(* upstreams, and everything it depends on.                                *)
Within[k \in 0 .. Cardinality(Nodes)] ==
    IF k = 0 THEN {output}
    ELSE Within[k - 1] \cup (Nodes \cap UNION {upstream[n] : n \in Within[k - 1]})

Reached == Within[Cardinality(Nodes)]

CycleReachable ==
    \E k \in 1 .. Cardinality(Nodes) : \E p \in [1 .. k -> Reached] : ClosedWalk(p)

(* The visit reports a cycle if and only if the output depends on one, and *)
(* sees exactly what the output depends on, each node once, so a count of  *)
(* visited nodes below the declared ones is a disconnected node.           *)
VisitIsExact ==
    Done => /\ cycle <=> CycleReachable
            /\ Visited = Reached
            /\ Len(visited) = Cardinality(Visited)

(* A graph that passes has its output as the only node nothing depends on. *)
OutputIsTheOnlySink ==
    WellFormed => {n \in Nodes : \A m \in Nodes : n \notin upstream[m]} = {output}
=============================================================================
