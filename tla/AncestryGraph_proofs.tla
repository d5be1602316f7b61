------------------------ MODULE AncestryGraph_proofs ------------------------
(***************************************************************************)
(* What the recursive check of a declared graph promises for any set of    *)
(* node ids, any graph over them and any order of its lists.               *)
(***************************************************************************)
EXTENDS AncestryGraph, FiniteSetTheorems, WellFoundedInduction, TLAPS

(* Active and finished calls are of different, declared nodes.             *)
CallsAreDistinct ==
    /\ \A i \in DOMAIN stack : stack[i].node \in Nodes /\ stack[i].node \notin Visited
    /\ \A i \in DOMAIN visited : visited[i] \in Nodes
    /\ \A i, j \in DOMAIN stack : stack[i].node = stack[j].node => i = j
    /\ \A i, j \in DOMAIN visited : visited[i] = visited[j] => i = j

(* A call was made by the one below it, for one of its upstream ids; the   *)
(* outermost is for the output, and returns last.                          *)
CallsFollowUpstreams ==
    /\ \A i \in 1 .. Len(stack) - 1 : stack[i + 1].node \in upstream[stack[i].node]
    /\ stack # <<>> => stack[1].node = output
    /\ stack = <<>> => visited # <<>> /\ visited[Len(visited)] = output
    /\ \A i \in DOMAIN visited :
          visited[i] = output \/ \E m \in Nodes : visited[i] \in upstream[m]

(* Until a cycle is met, what the loop of a call has passed has been       *)
(* visited, but for the node it is visiting now.                           *)
PassedWasVisited ==
    ~cycle => \A i \in DOMAIN stack : \A u \in Nodes \cap upstream[stack[i].node] :
                 \/ u \in stack[i].rest
                 \/ u \in Visited
                 \/ i < Len(stack) /\ u = stack[i + 1].node

(* The loop of a call has nothing before it but upstream ids of its node.  *)
RestIsUpstream == \A i \in DOMAIN stack : stack[i].rest \subseteq upstream[stack[i].node]

GraphInv ==
    /\ GraphTypeOK
    /\ RestIsUpstream
    /\ CallsAreDistinct
    /\ CallsFollowUpstreams
    /\ PassedWasVisited
    /\ VisitedInOrder

-----------------------------------------------------------------------------
(* A declared graph maps declared ids to sets of ids.                      *)
LEMMA GraphShape ==
    ASSUME upstream \in Graphs
    PROVE  /\ Nodes \subseteq Ids
           /\ \A n \in Nodes : upstream[n] \subseteq Ids
<1> PICK N \in SUBSET Ids : upstream \in [N -> SUBSET Ids]
  BY DEF Graphs
<1> QED
  BY DEF Nodes

(* The visit begins with the call for the output.                          *)
LEMMA InitEstablishes ==
    GraphInit => GraphInv
<1> SUFFICES ASSUME GraphInit
             PROVE  GraphInv
  OBVIOUS
<1>1. upstream \in Graphs /\ output \in Nodes
  BY DEF GraphInit
<1>2. Call(output) \in Frame /\ stack = <<Call(output)>> /\ visited = <<>> /\ cycle = FALSE
  BY <1>1, GraphShape DEF GraphInit, Call, Frame
<1>3. stack \in Seq(Frame) /\ Len(stack) = 1 /\ stack[1] = Call(output)
  BY <1>2
<1>4. visited \in Seq(Ids) /\ DOMAIN visited = {}
  BY <1>2
<1>5. GraphTypeOK
  BY <1>1, <1>2, <1>3, <1>4 DEF GraphTypeOK
<1>6. CallsAreDistinct
  BY <1>1, <1>3, <1>4 DEF CallsAreDistinct, Call, Visited
<1>7. CallsFollowUpstreams
  BY <1>3, <1>4 DEF CallsFollowUpstreams, Call
<1>8. PassedWasVisited /\ VisitedInOrder /\ RestIsUpstream
  BY <1>3, <1>4 DEF PassedWasVisited, VisitedInOrder, RestIsUpstream, Call
<1> QED
  BY <1>5, <1>6, <1>7, <1>8 DEF GraphInv

(* The loop of the innermost call has passed one id.                       *)
LEMMA SkipShape ==
    ASSUME GraphTypeOK, stack # <<>>, NEW n \in Ids
    PROVE  /\ Skip(n) \in Seq(Frame)
           /\ Len(Skip(n)) = Len(stack) /\ Len(stack) \in Nat \ {0}
           /\ \A i \in DOMAIN stack : Skip(n)[i].node = stack[i].node
           /\ \A i \in 1 .. Len(stack) - 1 : Skip(n)[i] = stack[i]
           /\ Skip(n)[Len(stack)].rest = Top.rest \ {n}
<1> DEFINE L == Len(stack)
           passed == [stack[L] EXCEPT !.rest = @ \ {n}]
<1>1. L \in Nat \ {0} /\ stack \in [1 .. L -> Frame]
  BY DEF GraphTypeOK
<1>2. Skip(n) = [stack EXCEPT ![L] = passed]
  BY DEF Skip
<1>3. stack[L] \in Frame
  BY <1>1
<1>4. passed \in Frame /\ passed.node = stack[L].node /\ passed.rest = stack[L].rest \ {n}
  BY <1>3 DEF Frame
<1> HIDE DEF passed
<1>5. Skip(n) \in [1 .. L -> Frame] /\ Skip(n)[L] = passed
  BY <1>1, <1>2, <1>4
<1>6. \A i \in 1 .. L : i # L => Skip(n)[i] = stack[i]
  BY <1>1, <1>2
<1>7. Skip(n) \in Seq(Frame) /\ Len(Skip(n)) = L
  BY <1>1, <1>5
<1>8. \A i \in 1 .. L : Skip(n)[i].node = stack[i].node
  BY <1>1, <1>4, <1>5, <1>6
<1>9. Skip(n)[L].rest = Top.rest \ {n}
  BY <1>4, <1>5 DEF Top
<1>10. DOMAIN stack = 1 .. L
  BY <1>1
<1>11. \A i \in 1 .. L - 1 : i \in 1 .. L /\ i # L
  <2> HIDE DEF L
  <2>1. L \in Nat
    BY <1>1
  <2> QED
    BY <2>1
<1> QED
  BY <1>1, <1>6, <1>7, <1>8, <1>9, <1>10, <1>11

(* An id that is unknown, visited or being visited is passed over.         *)
LEMMA MeetNodeKeeps ==
    ASSUME GraphInv, NEW n \in Ids, MeetNode(n)
    PROVE  GraphInv'
<1> DEFINE L == Len(stack)
<1>1. /\ stack # <<>> /\ n \in Top.rest
      /\ n \in Visiting \cup Visited \/ n \notin Nodes
      /\ stack' = Skip(n) /\ cycle' = (cycle \/ n \in Visiting)
      /\ UNCHANGED <<upstream, output, visited>>
  BY DEF MeetNode, Meets
<1>2. /\ stack' \in Seq(Frame)
      /\ Len(stack') = L /\ L \in Nat \ {0}
      /\ \A i \in DOMAIN stack : stack'[i].node = stack[i].node
      /\ \A i \in 1 .. L - 1 : stack'[i] = stack[i]
      /\ stack'[L].rest = Top.rest \ {n}
  BY <1>1, SkipShape DEF GraphInv
<1>3. DOMAIN stack = 1 .. L /\ DOMAIN stack' = 1 .. L
  BY <1>2 DEF GraphInv, GraphTypeOK
<1>4. Nodes' = Nodes /\ Visited' = Visited
  BY <1>1 DEF Nodes, Visited
<1>5. GraphTypeOK'
  BY <1>1, <1>2, <1>4 DEF GraphInv, GraphTypeOK
<1>6. CallsAreDistinct'
  BY <1>1, <1>2, <1>3, <1>4 DEF GraphInv, CallsAreDistinct
<1>7. CallsFollowUpstreams'
  BY <1>1, <1>2, <1>3, <1>4 DEF GraphInv, CallsFollowUpstreams
<1>8. PassedWasVisited'
  <2> SUFFICES ASSUME ~cycle', NEW i \in 1 .. L, NEW u \in Nodes \cap upstream[stack[i].node]
               PROVE  \/ u \in stack'[i].rest
                      \/ u \in Visited
                      \/ i < L /\ u = stack'[i + 1].node
    BY <1>1, <1>2, <1>3, <1>4 DEF PassedWasVisited
  <2>1. ~cycle /\ n \notin Visiting
    BY <1>1
  <2>2. u \in stack[i].rest \/ u \in Visited \/ (i < L /\ u = stack[i + 1].node)
    BY <2>1, <1>3 DEF GraphInv, PassedWasVisited
  <2>3. CASE i = L
    BY <2>1, <2>2, <2>3, <1>1, <1>2 DEF Top
  <2>4. CASE i < L
    BY <2>2, <2>4, <1>2, <1>3
  <2> QED
    BY <2>3, <2>4
<1>9. VisitedInOrder'
  <2>1. ~cycle' => ~cycle
    BY <1>1
  <2>2. VisitedInOrder
    BY DEF GraphInv
  <2> QED
    BY <2>1, <2>2, <1>1, <1>4 DEF VisitedInOrder
<1>10. RestIsUpstream'
  BY <1>1, <1>2, <1>3 DEF GraphInv, RestIsUpstream, Top
<1> QED
  BY <1>5, <1>6, <1>7, <1>8, <1>9, <1>10 DEF GraphInv

(* A recursive call begins.                                                *)
LEMMA EnterNodeKeeps ==
    ASSUME GraphInv, NEW n \in Ids, EnterNode(n)
    PROVE  GraphInv'
<1> DEFINE L == Len(stack)
<1>1. /\ stack # <<>> /\ n \in Top.rest /\ n \in Nodes /\ n \notin Visiting /\ n \notin Visited
      /\ stack' = Append(Skip(n), Call(n))
      /\ UNCHANGED <<upstream, output, visited, cycle>>
  BY DEF EnterNode
<1>2. /\ Skip(n) \in Seq(Frame)
      /\ Len(Skip(n)) = L /\ L \in Nat \ {0}
      /\ \A i \in DOMAIN stack : Skip(n)[i].node = stack[i].node
      /\ \A i \in 1 .. L - 1 : Skip(n)[i] = stack[i]
      /\ Skip(n)[L].rest = Top.rest \ {n}
  BY <1>1, SkipShape DEF GraphInv
<1>3. Call(n) \in Frame
  BY <1>1, GraphShape DEF GraphInv, GraphTypeOK, Call, Frame
<1>4. /\ stack' \in Seq(Frame) /\ Len(stack') = L + 1 /\ DOMAIN stack' = 1 .. L + 1
      /\ DOMAIN stack = 1 .. L
      /\ stack'[L + 1] = Call(n)
      /\ \A i \in 1 .. L : stack'[i] = Skip(n)[i]
  BY <1>1, <1>2, <1>3 DEF GraphInv, GraphTypeOK
<1>5. /\ \A i \in 1 .. L : stack'[i].node = stack[i].node
      /\ \A i \in 1 .. L - 1 : stack'[i] = stack[i]
      /\ stack'[L].rest = Top.rest \ {n}
      /\ stack'[L + 1].node = n /\ stack'[L + 1].rest = upstream[n]
  <2>1. \A i \in 1 .. L : stack'[i].node = stack[i].node
    BY <1>2, <1>4
  <2>2. \A i \in 1 .. L - 1 : stack'[i] = stack[i]
    BY <1>2, <1>4
  <2>3. stack'[L].rest = Top.rest \ {n}
    BY <1>2, <1>4
  <2>4. stack'[L + 1].node = n /\ stack'[L + 1].rest = upstream[n]
    BY <1>4 DEF Call
  <2> QED
    BY <2>1, <2>2, <2>3, <2>4
<1>6. Nodes' = Nodes /\ Visited' = Visited
  BY <1>1 DEF Nodes, Visited
<1>7. GraphTypeOK'
  BY <1>1, <1>4, <1>6 DEF GraphInv, GraphTypeOK
<1>8. CallsAreDistinct'
  <2>1. \A i \in 1 .. L : stack[i].node # n
    BY <1>1, <1>4 DEF Visiting
  <2>2. \A i \in 1 .. L + 1 : stack'[i].node \in Nodes /\ stack'[i].node \notin Visited
    BY <1>1, <1>2, <1>4, <1>5 DEF GraphInv, CallsAreDistinct
  <2>3. \A i, j \in 1 .. L : stack'[i].node = stack'[j].node => i = j
    BY <1>4, <1>5 DEF GraphInv, CallsAreDistinct
  <2>4. \A i, j \in 1 .. L + 1 : stack'[i].node = stack'[j].node => i = j
    BY <2>1, <2>3, <1>2, <1>5
  <2> QED
    BY <2>2, <2>4, <1>1, <1>4, <1>6 DEF GraphInv, CallsAreDistinct
<1>9. CallsFollowUpstreams'
  <2>1. n \in upstream[stack[L].node]
    BY <1>1, <1>2, <1>4 DEF GraphInv, RestIsUpstream, Top
  <2> QED
    BY <2>1, <1>1, <1>2, <1>4, <1>5, <1>6 DEF GraphInv, CallsFollowUpstreams
<1>10. PassedWasVisited'
  <2> SUFFICES ASSUME ~cycle, NEW i \in 1 .. L + 1, NEW u \in Nodes \cap upstream[stack'[i].node]
               PROVE  \/ u \in stack'[i].rest
                      \/ u \in Visited
                      \/ i < L + 1 /\ u = stack'[i + 1].node
    BY <1>1, <1>4, <1>6 DEF PassedWasVisited
  <2>1. CASE i = L + 1
    BY <2>1, <1>5
  <2>2. CASE i \in 1 .. L
    <3>1. u \in stack[i].rest \/ u \in Visited \/ (i < L /\ u = stack[i + 1].node)
      BY <2>2, <1>4, <1>5 DEF GraphInv, PassedWasVisited
    <3>2. CASE i = L
      BY <3>1, <3>2, <1>5 DEF Top
    <3>3. CASE i \in 1 .. L - 1
      <4>1. i + 1 \in 1 .. L
        BY <3>3, <1>2
      <4> QED
        BY <3>1, <3>3, <4>1, <1>2, <1>5
    <3> QED
      BY <2>2, <3>2, <3>3, <1>2
  <2> QED
    BY <2>1, <2>2, <1>2
<1>11. VisitedInOrder'
  BY <1>1, <1>6 DEF GraphInv, VisitedInOrder
<1>12. RestIsUpstream'
  BY <1>1, <1>2, <1>4, <1>5, <1>6 DEF GraphInv, RestIsUpstream, Top
<1> QED
  BY <1>7, <1>8, <1>9, <1>10, <1>11, <1>12 DEF GraphInv

(* A call returns: everything its loop has passed has been visited.        *)
LEMMA LeaveNodeKeeps ==
    ASSUME GraphInv, LeaveNode
    PROVE  GraphInv'
<1> DEFINE L == Len(stack)
           V == Len(visited)
           n == Top.node
<1>1. /\ stack # <<>> /\ Top.rest = {}
      /\ visited' = Append(visited, n)
      /\ stack' = SubSeq(stack, 1, L - 1)
      /\ UNCHANGED <<upstream, output, cycle>>
  BY DEF LeaveNode
<1>2. /\ L \in Nat \ {0} /\ DOMAIN stack = 1 .. L
      /\ V \in Nat /\ DOMAIN visited = 1 .. V
      /\ Top = stack[L] /\ Top \in Frame /\ n \in Ids /\ n \in Nodes
  <2>1. L \in Nat \ {0} /\ DOMAIN stack = 1 .. L /\ V \in Nat /\ DOMAIN visited = 1 .. V
    BY <1>1 DEF GraphInv, GraphTypeOK
  <2>2. Top = stack[L] /\ Top \in Frame
    BY <2>1 DEF GraphInv, GraphTypeOK, Top
  <2> QED
    BY <2>1, <2>2 DEF GraphInv, CallsAreDistinct, Frame
<1>3. /\ stack' \in Seq(Frame) /\ Len(stack') = L - 1 /\ DOMAIN stack' = 1 .. L - 1
      /\ \A i \in 1 .. L - 1 : stack'[i] = stack[i]
  BY <1>1, <1>2 DEF GraphInv, GraphTypeOK
<1>4. /\ visited' \in Seq(Ids) /\ Len(visited') = V + 1 /\ DOMAIN visited' = 1 .. V + 1
      /\ visited'[V + 1] = n
      /\ \A i \in 1 .. V : visited'[i] = visited[i]
  BY <1>1, <1>2 DEF GraphInv, GraphTypeOK
<1>5. Nodes' = Nodes /\ Visited' = Visited \cup {n}
  BY <1>1, <1>2, <1>4 DEF Nodes, Visited
<1>6. n \notin Visited
  BY <1>2 DEF GraphInv, CallsAreDistinct
<1>7. GraphTypeOK'
  BY <1>1, <1>3, <1>4, <1>5 DEF GraphInv, GraphTypeOK
<1>8. CallsAreDistinct'
  <2>1. \A i \in 1 .. L - 1 : stack[i].node # n
    BY <1>2 DEF GraphInv, CallsAreDistinct
  <2>2. \A i \in 1 .. V : visited[i] # n
    BY <1>2, <1>6 DEF Visited
  <2>3. \A i \in DOMAIN stack' : stack'[i].node \in Nodes' /\ stack'[i].node \notin Visited'
    BY <2>1, <1>2, <1>3, <1>5 DEF GraphInv, CallsAreDistinct
  <2>4. \A i \in DOMAIN visited' : visited'[i] \in Nodes'
    BY <1>2, <1>4, <1>5 DEF GraphInv, CallsAreDistinct
  <2>5. \A i, j \in DOMAIN stack' : stack'[i].node = stack'[j].node => i = j
    BY <1>2, <1>3 DEF GraphInv, CallsAreDistinct
  <2>6. \A i, j \in DOMAIN visited' : visited'[i] = visited'[j] => i = j
    BY <2>2, <1>2, <1>4 DEF GraphInv, CallsAreDistinct
  <2> QED
    BY <2>3, <2>4, <2>5, <2>6 DEF CallsAreDistinct
<1>9. CallsFollowUpstreams'
  <2>1. n = output \/ \E m \in Nodes : n \in upstream[m]
    <3>1. CASE L = 1
      BY <3>1, <1>1, <1>2 DEF GraphInv, CallsFollowUpstreams
    <3>2. CASE L > 1
      <4>1. L - 1 \in 1 .. Len(stack) - 1 /\ (L - 1) + 1 = L /\ L - 1 \in DOMAIN stack
        BY <3>2, <1>2
      <4> QED
        BY <4>1, <1>2 DEF GraphInv, CallsFollowUpstreams, CallsAreDistinct
    <3> QED
      BY <3>1, <3>2, <1>2
  <2>2. stack' = <<>> => visited' # <<>> /\ visited'[Len(visited')] = output
    <3> SUFFICES ASSUME stack' = <<>>
                 PROVE  n = output
      BY <1>2, <1>4
    <3>1. L - 1 = Len(stack')
      BY <1>3
    <3>2. L = 1
      <4> HIDE DEF L
      <4>1. Len(<<>>) = 0
        OBVIOUS
      <4>2. L - 1 = 0
        BY <3>1, <4>1
      <4> QED
        BY <4>2, <1>2
    <3> QED
      BY <3>2, <1>1, <1>2 DEF GraphInv, CallsFollowUpstreams
  <2>3. stack' # <<>> => stack'[1].node = output'
    BY <1>1, <1>2, <1>3 DEF GraphInv, CallsFollowUpstreams
  <2>4. \A i \in 1 .. Len(stack') - 1 : stack'[i + 1].node \in upstream'[stack'[i].node]
    <3> SUFFICES ASSUME NEW i \in 1 .. Len(stack') - 1
                 PROVE  stack'[i + 1].node \in upstream[stack'[i].node]
      BY <1>1
    <3>1. i \in 1 .. L - 1 /\ i + 1 \in 1 .. L - 1
      BY <1>2, <1>3
    <3> QED
      BY <3>1, <1>2, <1>3 DEF GraphInv, CallsFollowUpstreams
  <2>5. \A i \in DOMAIN visited' :
           visited'[i] = output' \/ \E m \in Nodes' : visited'[i] \in upstream'[m]
    BY <2>1, <1>1, <1>2, <1>4, <1>5 DEF GraphInv, CallsFollowUpstreams
  <2> QED
    BY <2>2, <2>3, <2>4, <2>5, <1>1 DEF CallsFollowUpstreams
<1>10. PassedWasVisited'
  <2> SUFFICES ASSUME ~cycle, NEW i \in 1 .. L - 1, NEW u \in Nodes \cap upstream[stack[i].node]
               PROVE  \/ u \in stack[i].rest
                      \/ u \in Visited \cup {n}
                      \/ i < L - 1 /\ u = stack'[i + 1].node
    BY <1>1, <1>3, <1>5 DEF PassedWasVisited
  <2>1. u \in stack[i].rest \/ u \in Visited \/ (i < L /\ u = stack[i + 1].node)
    BY <1>2 DEF GraphInv, PassedWasVisited
  <2>2. CASE i = L - 1
    BY <2>1, <2>2, <1>2
  <2>3. CASE i < L - 1
    BY <2>1, <2>3, <1>2, <1>3
  <2> QED
    BY <2>2, <2>3, <1>2
<1>11. VisitedInOrder'
  <2> SUFFICES ASSUME ~cycle, NEW i \in 1 .. V + 1, NEW u \in upstream[visited'[i]] \cap Nodes
               PROVE  \E j \in 1 .. i - 1 : visited'[j] = u
    BY <1>1, <1>4, <1>5 DEF VisitedInOrder
  <2>1. CASE i \in 1 .. V
    <3>1. PICK j \in 1 .. i - 1 : visited[j] = u
      BY <2>1, <1>2, <1>4 DEF GraphInv, VisitedInOrder
    <3> QED
      BY <2>1, <3>1, <1>2, <1>4
  <2>2. CASE i = V + 1
    <3>1. u \in Visited
      BY <2>2, <1>1, <1>2, <1>4 DEF GraphInv, PassedWasVisited
    <3>2. PICK j \in 1 .. V : visited[j] = u
      BY <3>1, <1>2 DEF Visited
    <3> QED
      BY <2>2, <3>2, <1>2, <1>4
  <2> QED
    BY <2>1, <2>2, <1>2
<1>12. RestIsUpstream'
  BY <1>1, <1>2, <1>3 DEF GraphInv, RestIsUpstream
<1> QED
  BY <1>7, <1>8, <1>9, <1>10, <1>11, <1>12 DEF GraphInv

-----------------------------------------------------------------------------
(* The invariant of the visit.                                             *)
THEOREM GraphCorrect == GraphSpec => []GraphInv
<1>1. GraphInv /\ [GraphNext]_graphVars => GraphInv'
  <2> SUFFICES ASSUME GraphInv, [GraphNext]_graphVars
               PROVE  GraphInv'
    OBVIOUS
  <2>1. CASE \E n \in Ids : MeetNode(n) \/ EnterNode(n)
    BY <2>1, MeetNodeKeeps, EnterNodeKeeps
  <2>2. CASE LeaveNode
    BY <2>2, LeaveNodeKeeps
  <2>3. CASE UNCHANGED graphVars
    BY <2>3 DEF graphVars, GraphInv, GraphTypeOK, CallsAreDistinct, CallsFollowUpstreams,
                RestIsUpstream, PassedWasVisited, VisitedInOrder, Nodes, Visited
  <2> QED
    BY <2>1, <2>2, <2>3 DEF GraphNext
<1> QED
  BY <1>1, InitEstablishes, PTL DEF GraphSpec

(* The manifest, the active calls and the visited nodes keep their types.  *)
THEOREM GraphTypeCorrect == GraphSpec => []GraphTypeOK
<1>1. GraphInv => GraphTypeOK
  BY DEF GraphInv
<1> QED
  BY <1>1, GraphCorrect, PTL

(* While no cycle is reported, everything visited depends on nodes visited *)
(* before it: what passes has no cycle, in any declared graph.             *)
THEOREM VisitedIsAlwaysInOrder == GraphSpec => []VisitedInOrder
<1>1. GraphInv => VisitedInOrder
  BY DEF GraphInv
<1> QED
  BY <1>1, GraphCorrect, PTL

(* A manifest has finitely many nodes.  Then one that passes has the       *)
(* output as the only node nothing depends on: the count of visited nodes  *)
(* leaves none out, and the output was visited last.                       *)
THEOREM OutputIsAlwaysTheOnlySink ==
    ASSUME IsFiniteSet(Ids)
    PROVE  GraphSpec => []OutputIsTheOnlySink
<1>1. GraphInv => OutputIsTheOnlySink
  <2> SUFFICES ASSUME GraphInv, WellFormed
               PROVE  {n \in Nodes : \A m \in Nodes : n \notin upstream[m]} = {output}
    BY DEF OutputIsTheOnlySink
  <2> DEFINE V == Len(visited)
  <2>1. Nodes \subseteq Ids /\ output \in Nodes /\ V \in Nat /\ DOMAIN visited = 1 .. V
    BY GraphShape DEF GraphInv, GraphTypeOK
  <2>2. stack = <<>> /\ ~cycle /\ V # 0 /\ visited[V] = output
    BY <2>1 DEF GraphInv, WellFormed, Done, CallsFollowUpstreams, GraphTypeOK
  <2>3. Visited = Nodes
    <3>1. Visited \subseteq Nodes
      BY DEF GraphInv, CallsAreDistinct, Visited
    <3>2. IsFiniteSet(Nodes)
      BY <2>1, FS_Subset
    <3> QED
      BY <3>1, <3>2, FS_Subset DEF WellFormed, DisconnectedNode
  <2>4. ASSUME NEW m \in Nodes
        PROVE  output \notin upstream[m]
    <3> SUFFICES ASSUME output \in upstream[m]
                 PROVE  FALSE
      OBVIOUS
    <3>1. PICK i \in 1 .. V : visited[i] = m
      BY <2>1, <2>3 DEF Visited
    <3>2. PICK j \in 1 .. i - 1 : visited[j] = output
      BY <2>1, <2>2, <3>1 DEF GraphInv, VisitedInOrder
    <3> QED
      BY <2>1, <2>2, <3>1, <3>2 DEF GraphInv, CallsAreDistinct
  <2>5. ASSUME NEW n \in Nodes, n # output
        PROVE  \E m \in Nodes : n \in upstream[m]
    <3>1. PICK i \in DOMAIN visited : visited[i] = n
      BY <2>3 DEF Visited
    <3> QED
      BY <2>5, <3>1 DEF GraphInv, CallsFollowUpstreams
  <2> QED
    BY <2>1, <2>4, <2>5
<1> QED
  BY <1>1, GraphCorrect, PTL

-----------------------------------------------------------------------------
(***************************************************************************)
(* The visit is exact.  What the output depends on is defined by recursion *)
(* on the number of steps; it is compared with the walks from the output,  *)
(* and these with what the visit keeps.  In place of an induction, the     *)
(* first number for which a comparison fails is looked at.                 *)
(***************************************************************************)
LEMMA LeastElement ==
    ASSUME NEW S, S \subseteq Nat, S # {}
    PROVE  \E m \in S : \A k \in S : m <= k
<1> DEFINE T == {0 .. k : k \in S}
           R == StrictSubsetOrdering(Nat)
           F == FiniteSubsetsOf(Nat)
<1>1. IsWellFoundedOn(R, F)
  BY FS_StrictSubsetOrderingWellFounded
<1>2. T \subseteq F
  <2>1. ASSUME NEW k \in S
        PROVE  0 .. k \in F
    <3>1. IsFiniteSet(0 .. k)
      BY FS_Interval
    <3>2. 0 .. k \in SUBSET Nat
      OBVIOUS
    <3> QED BY <3>1, <3>2 DEF FiniteSubsetsOf
  <2> QED BY <2>1
<1>3. T # {}
  OBVIOUS
<1>4. PICK I \in T : \A J \in T : ~ (<<J, I>> \in R)
  <2> HIDE DEF R, F, T
  <2> QED BY <1>1, <1>2, <1>3, WFMin
<1>5. PICK m \in S : I = 0 .. m
  OBVIOUS
<1>6. ASSUME NEW k \in S, k < m
      PROVE  FALSE
  <2>1. 0 .. k \in T /\ 0 .. k \subseteq I /\ 0 .. k # I
    BY <1>5, <1>6
  <2>2. <<0 .. k, I>> \in R
    BY <2>1, <1>5 DEF StrictSubsetOrdering
  <2> QED BY <1>4, <2>1, <2>2
<1> QED BY <1>6

(* p is a walk of j steps from the output to n.                            *)
WalkTo(n, j, p) ==
    /\ p \in [0 .. j -> Nodes]
    /\ p[0] = output /\ p[j] = n
    /\ \A i \in 0 .. j - 1 : p[i + 1] \in upstream[p[i]]

Near == [k \in 0 .. Cardinality(Nodes) |->
            {n \in Nodes : \E j \in 0 .. k : \E p : WalkTo(n, j, p)}]

Further(f, k) ==
    IF k = 0 THEN {output} ELSE f[k - 1] \cup (Nodes \cap UNION {upstream[n] : n \in f[k - 1]})

LEMMA NodesAreCounted ==
    ASSUME IsFiniteSet(Ids), upstream \in Graphs
    PROVE  IsFiniteSet(Nodes) /\ Cardinality(Nodes) \in Nat
BY GraphShape, FS_Subset, FS_CardinalityType

(* The walks of at most k steps are those of one step less and their       *)
(* continuations.                                                          *)
LEMMA NearIsRecursive ==
    ASSUME output \in Nodes, Cardinality(Nodes) \in Nat, NEW k \in 0 .. Cardinality(Nodes)
    PROVE  Near[k] = Further(Near, k)
<1>1. Near[k] = {n \in Nodes : \E j \in 0 .. k : \E p : WalkTo(n, j, p)}
  BY DEF Near
<1>2. CASE k = 0
  <2>1. ASSUME NEW n \in Nodes, NEW p, WalkTo(n, 0, p)
        PROVE  n = output
    BY <2>1 DEF WalkTo
  <2>2. WalkTo(output, 0, [i \in 0 .. 0 |-> output])
    BY DEF WalkTo
  <2>3. \A n \in Nodes : (\E j \in 0 .. k : \E p : WalkTo(n, j, p)) <=> n = output
    BY <1>2, <2>1, <2>2
  <2> QED BY <1>1, <1>2, <2>3 DEF Further
<1>3. CASE k # 0
  <2>1. k - 1 \in 0 .. Cardinality(Nodes) /\ k \in Nat
    BY <1>3
  <2>2. Near[k - 1] = {n \in Nodes : \E j \in 0 .. k - 1 : \E p : WalkTo(n, j, p)}
    BY <2>1 DEF Near
  <2>3. ASSUME NEW n \in Nodes, NEW j \in 0 .. k, NEW p, WalkTo(n, j, p)
        PROVE  n \in Near[k - 1] \/ \E m \in Near[k - 1] : n \in upstream[m]
    <3>1. CASE j = k
      <4>1. PICK q : q = [i \in 0 .. k - 1 |-> p[i]]
        OBVIOUS
      <4>2. WalkTo(p[k - 1], k - 1, q)
        BY <2>1, <2>3, <3>1, <4>1 DEF WalkTo
      <4>3. p[k - 1] \in Nodes /\ n \in upstream[p[k - 1]]
        BY <2>1, <2>3, <3>1 DEF WalkTo
      <4>4. k - 1 \in 0 .. k - 1
        BY <2>1, <1>3
      <4> QED BY <2>2, <4>2, <4>3, <4>4
    <3>2. CASE j # k
      BY <2>1, <2>2, <2>3, <3>2
    <3> QED BY <3>1, <3>2
  <2>4. Near[k - 1] \subseteq Near[k]
    BY <1>1, <2>1, <2>2
  <2>5. ASSUME NEW n \in Nodes, NEW m \in Near[k - 1], n \in upstream[m]
        PROVE  n \in Near[k]
    <3>1. PICK j, p : j \in 0 .. k - 1 /\ WalkTo(m, j, p)
      BY <2>2
    <3>2. PICK q : q = [i \in 0 .. j + 1 |-> IF i = j + 1 THEN n ELSE p[i]]
      OBVIOUS
    <3>3. WalkTo(n, j + 1, q)
      <4>1. q \in [0 .. j + 1 -> Nodes] /\ q[0] = output /\ q[j + 1] = n
        BY <2>1, <3>1, <3>2 DEF WalkTo
      <4>2. ASSUME NEW i \in 0 .. j
            PROVE  q[i + 1] \in upstream[q[i]]
        <5>1. CASE i = j
          BY <2>1, <2>5, <3>1, <3>2, <5>1 DEF WalkTo
        <5>2. CASE i # j
          BY <2>1, <3>1, <3>2, <5>2 DEF WalkTo
        <5> QED BY <5>1, <5>2
      <4> QED BY <2>1, <3>1, <4>1, <4>2 DEF WalkTo
    <3> QED BY <1>1, <2>1, <3>1, <3>3
  <2>6. \A n : n \in Near[k] <=>
               n \in Near[k - 1] \cup (Nodes \cap UNION {upstream[m] : m \in Near[k - 1]})
    BY <1>1, <2>3, <2>4, <2>5
  <2> QED BY <1>3, <2>6 DEF Further
<1> QED BY <1>2, <1>3

(* The recursive definition has a solution, so it is one.                  *)
LEMMA WithinIsRecursive ==
    ASSUME output \in Nodes, Cardinality(Nodes) \in Nat
    PROVE  Within = [k \in 0 .. Cardinality(Nodes) |-> Further(Within, k)]
<1>1. Near = [k \in 0 .. Cardinality(Nodes) |-> Further(Near, k)]
  BY NearIsRecursive DEF Near
<1>2. \E f : f = [k \in 0 .. Cardinality(Nodes) |-> Further(f, k)]
  BY <1>1
<1>3. Within = CHOOSE f : f = [k \in 0 .. Cardinality(Nodes) |-> Further(f, k)]
  BY DEF Within, Further
<1> QED BY <1>2, <1>3, Zenon

(* Everything the output depends on is at the end of a walk from it.       *)
LEMMA ReachedByWalks ==
    ASSUME output \in Nodes, Cardinality(Nodes) \in Nat
    PROVE  Reached = {n \in Nodes : \E j \in 0 .. Cardinality(Nodes) : \E p : WalkTo(n, j, p)}
<1> DEFINE Wrong == {k \in 0 .. Cardinality(Nodes) : Within[k] # Near[k]}
<1>1. Wrong = {}
  <2> SUFFICES ASSUME Wrong # {}
               PROVE  FALSE
    OBVIOUS
  <2>1. PICK m \in Wrong : \A k \in Wrong : m <= k
    <3>1. Wrong \subseteq Nat
      OBVIOUS
    <3> HIDE DEF Wrong
    <3> QED BY <3>1, LeastElement
  <2>2. Within[m] = Further(Within, m) /\ Near[m] = Further(Near, m)
    <3>1. Within[m] = [k \in 0 .. Cardinality(Nodes) |-> Further(Within, k)][m]
      BY WithinIsRecursive
    <3> QED BY <3>1, NearIsRecursive
  <2>3. CASE m = 0
    BY <2>2, <2>3 DEF Further
  <2>4. CASE m # 0
    <3>1. m - 1 \in 0 .. Cardinality(Nodes) /\ ~(m <= m - 1)
      BY <2>4
    <3>2. Within[m - 1] = Near[m - 1]
      BY <2>1, <3>1
    <3> QED BY <2>1, <2>2, <2>4, <3>2 DEF Further
  <2> QED BY <2>3, <2>4
<1>2. Cardinality(Nodes) \in 0 .. Cardinality(Nodes)
  OBVIOUS
<1>3. Within[Cardinality(Nodes)] = Near[Cardinality(Nodes)]
  BY <1>1, <1>2
<1> QED BY <1>2, <1>3 DEF Reached, Near

(* Cycle or not, what the loop of a call has passed is visited or being    *)
(* visited.                                                                *)
PassedWasMet ==
    /\ \A i \in DOMAIN stack : \A u \in Nodes \cap upstream[stack[i].node] :
          u \in stack[i].rest \/ u \in Visited \/ u \in Visiting
    /\ \A i \in DOMAIN visited : \A u \in Nodes \cap upstream[visited[i]] :
          u \in Visited \/ u \in Visiting

(* What is visited is something the output depends on, and a cycle that is *)
(* reported is there.                                                      *)
VisitInv ==
    /\ GraphInv
    /\ PassedWasMet
    /\ Visited \subseteq Reached
    /\ cycle => CycleReachable

(* The manifest does not change, nor what is defined from it.              *)
LEMMA ManifestKept ==
    ASSUME UNCHANGED <<upstream, output>>
    PROVE  Nodes' = Nodes /\ Reached' = Reached /\ (CycleReachable' <=> CycleReachable)
<1>1. Nodes' = Nodes
  BY DEF Nodes
<1>2. Within' = Within
  BY <1>1 DEF Within
<1>3. Reached' = Reached
  BY <1>1, <1>2 DEF Reached
<1>4. \A p : ClosedWalk(p)' <=> ClosedWalk(p)
  BY <1>1 DEF ClosedWalk, Walk
<1> QED BY <1>1, <1>3, <1>4 DEF CycleReachable

(* The active calls are a walk from the output, and as many as there are   *)
(* nodes at most.                                                          *)
LEMMA StackIsShort ==
    ASSUME GraphInv, IsFiniteSet(Ids)
    PROVE  Len(stack) <= Cardinality(Nodes)
<1>1. IsFiniteSet(Nodes) /\ Cardinality(Nodes) \in Nat
  BY NodesAreCounted DEF GraphInv, GraphTypeOK
<1>2. PICK n \in Nat : n = Len(stack)
  BY DEF GraphInv, GraphTypeOK
<1>3. DOMAIN stack = 1 .. n
  BY <1>2 DEF GraphInv, GraphTypeOK
<1>4. PICK f : f = [i \in 1 .. n |-> stack[i].node]
  OBVIOUS
<1>5. f \in Injection(1 .. n, Nodes)
  <2>1. f \in [1 .. n -> Nodes]
    BY <1>3, <1>4 DEF GraphInv, CallsAreDistinct
  <2>2. \A i, j \in 1 .. n : f[i] = f[j] => i = j
    BY <1>3, <1>4 DEF GraphInv, CallsAreDistinct
  <2> QED BY <2>1, <2>2 DEF Injection, IsInjective
<1>6. Cardinality(1 .. n) = n
  <2>1. 1 \in Int /\ n \in Int
    OBVIOUS
  <2>2. Cardinality(1 .. n) = IF 1 > n THEN 0 ELSE n - 1 + 1
    BY <2>1, FS_Interval
  <2> QED BY <2>2
<1>7. Cardinality(1 .. n) <= Cardinality(Nodes)
  BY <1>1, <1>5, FS_Injection
<1> QED BY <1>2, <1>6, <1>7

LEMMA ActiveIsReached ==
    ASSUME GraphInv, IsFiniteSet(Ids), NEW i \in DOMAIN stack
    PROVE  stack[i].node \in Reached
<1>1. Cardinality(Nodes) \in Nat
  BY NodesAreCounted DEF GraphInv, GraphTypeOK
<1>2. /\ Len(stack) \in Nat /\ DOMAIN stack = 1 .. Len(stack) /\ stack # <<>>
      /\ Len(stack) <= Cardinality(Nodes)
  BY StackIsShort DEF GraphInv, GraphTypeOK
<1>3. PICK p : p = [k \in 0 .. i - 1 |-> stack[k + 1].node]
  OBVIOUS
<1>4. WalkTo(stack[i].node, i - 1, p)
  <2>1. p \in [0 .. i - 1 -> Nodes]
    BY <1>2, <1>3 DEF GraphInv, CallsAreDistinct
  <2>2. p[0] = output /\ p[i - 1] = stack[i].node
    BY <1>2, <1>3 DEF GraphInv, CallsFollowUpstreams
  <2>3. ASSUME NEW k \in 0 .. (i - 1) - 1
        PROVE  p[k + 1] \in upstream[p[k]]
    <3>1. k + 1 \in 1 .. Len(stack) - 1
      BY <1>2
    <3>2. stack[(k + 1) + 1].node \in upstream[stack[k + 1].node]
      BY <3>1 DEF GraphInv, CallsFollowUpstreams
    <3> QED BY <1>2, <1>3, <3>2
  <2> QED BY <2>1, <2>2, <2>3 DEF WalkTo
<1>5. i - 1 \in 0 .. Cardinality(Nodes) /\ stack[i].node \in Nodes
  BY <1>1, <1>2 DEF GraphInv, CallsAreDistinct
<1>6. output \in Nodes
  BY DEF GraphInv, GraphTypeOK
<1> QED BY <1>1, <1>4, <1>5, <1>6, ReachedByWalks

(* A node that is met while it is being visited closes a walk: the active  *)
(* calls from its own up to the innermost.                                 *)
LEMMA MetTwiceIsACycle ==
    ASSUME GraphInv, IsFiniteSet(Ids), stack # <<>>, NEW n, n \in Top.rest, n \in Visiting
    PROVE  CycleReachable
<1>1. /\ Len(stack) \in Nat \ {0} /\ DOMAIN stack = 1 .. Len(stack)
      /\ Len(stack) <= Cardinality(Nodes) /\ Cardinality(Nodes) \in Nat
  BY StackIsShort, NodesAreCounted DEF GraphInv, GraphTypeOK
<1>2. PICK L \in Nat \ {0} : L = Len(stack)
  BY <1>1
<1>3. PICK i \in 1 .. L : stack[i].node = n
  BY <1>1, <1>2 DEF Visiting
<1>4. PICK k \in Nat : k = L - i + 1
  <2>1. L - i + 1 \in Nat
    BY <1>2, <1>3
  <2> QED BY <2>1
<1>5. PICK p : p = [j \in 1 .. k |-> stack[i + j - 1].node]
  OBVIOUS
<1>6. \A j \in 1 .. k : i + j - 1 \in 1 .. L
  BY <1>2, <1>3, <1>4
<1>7. p \in [1 .. k -> Reached]
  BY <1>1, <1>2, <1>5, <1>6, ActiveIsReached
<1>8. k \in 1 .. Cardinality(Nodes)
  BY <1>1, <1>2, <1>3, <1>4
<1>9. p \in Seq(Reached) /\ Len(p) = k /\ DOMAIN p = 1 .. k
  BY <1>7, <1>8
<1>10. Walk(p)
  <2>1. \A j \in DOMAIN p : p[j] \in Nodes
    BY <1>1, <1>2, <1>5, <1>6, <1>9 DEF GraphInv, CallsAreDistinct
  <2>2. ASSUME NEW j \in 1 .. Len(p) - 1
        PROVE  p[j + 1] \in upstream[p[j]]
    <3>1. i + j - 1 \in 1 .. L - 1 /\ j \in 1 .. k /\ j + 1 \in 1 .. k
      BY <1>2, <1>3, <1>4, <1>9
    <3>2. stack[(i + j - 1) + 1].node \in upstream[stack[i + j - 1].node]
      BY <1>2, <3>1 DEF GraphInv, CallsFollowUpstreams
    <3>3. (i + j - 1) + 1 = i + (j + 1) - 1
      BY <1>3
    <3> QED BY <1>5, <3>1, <3>2, <3>3
  <2>3. p # <<>>
    BY <1>8, <1>9
  <2> QED BY <2>1, <2>2, <2>3 DEF Walk
<1>11. p[1] = n /\ p[k] = stack[L].node
  BY <1>2, <1>3, <1>4, <1>5, <1>8
<1>12. n \in upstream[stack[L].node]
  BY <1>1, <1>2 DEF GraphInv, RestIsUpstream, Top
<1>13. ClosedWalk(p)
  BY <1>9, <1>10, <1>11, <1>12 DEF ClosedWalk
<1> QED BY <1>7, <1>8, <1>13 DEF CycleReachable

LEMMA VisitInvInit ==
    ASSUME IsFiniteSet(Ids), GraphInit
    PROVE  VisitInv
<1>1. GraphInv
  BY InitEstablishes
<1>2. stack = <<Call(output)>> /\ DOMAIN visited = {} /\ ~cycle
  BY DEF GraphInit
<1>3. Visited = {}
  BY <1>2 DEF Visited
<1>4. PassedWasMet
  BY <1>2 DEF PassedWasMet, Call
<1> QED BY <1>1, <1>2, <1>3, <1>4 DEF VisitInv

LEMMA MeetNodeFollows ==
    ASSUME IsFiniteSet(Ids), VisitInv, NEW n \in Ids, MeetNode(n), GraphInv'
    PROVE  VisitInv'
<1>1. /\ stack # <<>> /\ n \in Top.rest
      /\ n \in Visiting \cup Visited \/ n \notin Nodes
      /\ stack' = Skip(n) /\ cycle' = (cycle \/ n \in Visiting)
      /\ UNCHANGED <<upstream, output, visited>>
  BY DEF MeetNode, Meets
<1>2. PICK L : L = Len(stack)
  OBVIOUS
<1>3. /\ L \in Nat \ {0} /\ DOMAIN stack = 1 .. L /\ DOMAIN stack' = 1 .. L
      /\ \A i \in 1 .. L : stack'[i].node = stack[i].node
      /\ \A i \in 1 .. L - 1 : stack'[i] = stack[i]
      /\ stack'[L].rest = stack[L].rest \ {n}
  <2>1. GraphTypeOK /\ stack \in Seq(Frame)
    BY DEF VisitInv, GraphInv, GraphTypeOK
  <2>2. DOMAIN stack = 1 .. L /\ Top = stack[L]
    BY <1>2, <2>1 DEF Top
  <2>3. /\ stack' \in Seq(Frame) /\ Len(stack') = L /\ L \in Nat \ {0}
        /\ \A i \in DOMAIN stack : stack'[i].node = stack[i].node
        /\ \A i \in 1 .. L - 1 : stack'[i] = stack[i]
        /\ stack'[L].rest = Top.rest \ {n}
    BY <1>1, <1>2, <2>1, SkipShape
  <2>4. DOMAIN stack' = 1 .. L
    BY <2>3
  <2> QED BY <2>2, <2>3, <2>4
<1>4. Nodes' = Nodes /\ Reached' = Reached /\ (CycleReachable' <=> CycleReachable)
  BY <1>1, ManifestKept
<1>5. Visited' = Visited /\ Visiting' = Visiting
  BY <1>1, <1>3 DEF Visited, Visiting
<1>6. PassedWasMet'
  <2>1. ASSUME NEW i \in 1 .. L, NEW u \in Nodes \cap upstream[stack[i].node]
        PROVE  u \in stack'[i].rest \/ u \in Visited \/ u \in Visiting
    <3>1. u \in stack[i].rest \/ u \in Visited \/ u \in Visiting
      BY <1>3 DEF VisitInv, PassedWasMet
    <3>2. CASE i = L
      BY <1>1, <1>3, <3>1, <3>2
    <3>3. CASE i # L
      BY <1>3, <3>1, <3>3
    <3> QED BY <3>2, <3>3
  <2> QED BY <1>1, <1>3, <1>4, <1>5, <2>1 DEF VisitInv, PassedWasMet
<1>7. cycle' => CycleReachable'
  BY <1>1, <1>4, MetTwiceIsACycle DEF VisitInv
<1> QED BY <1>4, <1>5, <1>6, <1>7 DEF VisitInv

LEMMA EnterNodeFollows ==
    ASSUME VisitInv, NEW n \in Ids, EnterNode(n), GraphInv'
    PROVE  VisitInv'
<1>1. /\ stack # <<>> /\ n \in Top.rest
      /\ stack' = Append(Skip(n), Call(n))
      /\ UNCHANGED <<upstream, output, visited, cycle>>
  BY DEF EnterNode
<1>2. PICK L : L = Len(stack)
  OBVIOUS
<1>3. /\ Skip(n) \in Seq(Frame)
      /\ Len(Skip(n)) = L /\ L \in Nat \ {0} /\ DOMAIN stack = 1 .. L
      /\ \A i \in 1 .. L : Skip(n)[i].node = stack[i].node
      /\ \A i \in 1 .. L - 1 : Skip(n)[i] = stack[i]
      /\ Skip(n)[L].rest = stack[L].rest \ {n}
  BY <1>1, <1>2, SkipShape DEF VisitInv, GraphInv, GraphTypeOK, Top
<1>4. /\ DOMAIN stack' = 1 .. L + 1 /\ stack'[L + 1] = Call(n)
      /\ \A i \in 1 .. L : stack'[i] = Skip(n)[i]
  BY <1>1, <1>3
<1>5. /\ \A i \in 1 .. L : stack'[i].node = stack[i].node
      /\ \A i \in 1 .. L - 1 : stack'[i] = stack[i]
      /\ stack'[L].rest = stack[L].rest \ {n}
      /\ stack'[L + 1].node = n /\ stack'[L + 1].rest = upstream[n]
  <2>1. L \in 1 .. L /\ \A i \in 1 .. L - 1 : i \in 1 .. L
    BY <1>3
  <2> QED BY <1>3, <1>4, <2>1 DEF Call
<1>6. Nodes' = Nodes /\ Reached' = Reached /\ (CycleReachable' <=> CycleReachable)
  BY <1>1, ManifestKept
<1>7. Visited' = Visited /\ Visiting' = Visiting \cup {n}
  <2>1. Visited' = Visited
    BY <1>1 DEF Visited
  <2>2. \A v : v \in Visiting' <=> v \in Visiting \/ v = n
    BY <1>3, <1>4, <1>5 DEF Visiting
  <2> QED BY <2>1, <2>2
<1>8. PassedWasMet'
  <2>1. ASSUME NEW i \in 1 .. L + 1, NEW u \in Nodes \cap upstream[stack'[i].node]
        PROVE  u \in stack'[i].rest \/ u \in Visited \/ u \in Visiting \cup {n}
    <3>1. CASE i = L + 1
      BY <1>5, <3>1
    <3>2. CASE i # L + 1
      <4>1. i \in 1 .. L
        BY <1>3, <3>2
      <4>2. u \in stack[i].rest \/ u \in Visited \/ u \in Visiting
        BY <1>3, <1>5, <4>1 DEF VisitInv, PassedWasMet
      <4>3. CASE i = L
        BY <1>5, <4>2, <4>3
      <4>4. CASE i # L
        BY <1>3, <1>5, <4>1, <4>2, <4>4
      <4> QED BY <4>3, <4>4
    <3> QED BY <3>1, <3>2
  <2> QED BY <1>1, <1>4, <1>6, <1>7, <2>1 DEF VisitInv, PassedWasMet
<1> QED BY <1>1, <1>6, <1>7, <1>8 DEF VisitInv

LEMMA LeaveNodeFollows ==
    ASSUME IsFiniteSet(Ids), VisitInv, LeaveNode, GraphInv'
    PROVE  VisitInv'
<1>1. PICK n, L, V : n = Top.node /\ L = Len(stack) /\ V = Len(visited)
  OBVIOUS
<1>2. /\ stack # <<>> /\ Top.rest = {}
      /\ visited' = Append(visited, n)
      /\ stack' = SubSeq(stack, 1, L - 1)
      /\ UNCHANGED <<upstream, output, cycle>>
  BY <1>1 DEF LeaveNode
<1>3. /\ L \in Nat \ {0} /\ DOMAIN stack = 1 .. L /\ stack \in Seq(Frame)
      /\ V \in Nat /\ DOMAIN visited = 1 .. V /\ visited \in Seq(Ids)
      /\ stack[L].node = n /\ stack[L].rest = {}
  BY <1>1, <1>2 DEF VisitInv, GraphInv, GraphTypeOK, Top
<1>4. /\ DOMAIN stack' = 1 .. L - 1 /\ \A i \in 1 .. L - 1 : stack'[i] = stack[i]
      /\ DOMAIN visited' = 1 .. V + 1 /\ visited'[V + 1] = n
      /\ \A i \in 1 .. V : visited'[i] = visited[i]
  <2>1. Len(stack) = L /\ Len(visited) = V /\ n \in Ids
    <3>1. stack[L] \in Frame
      BY <1>1, <1>3
    <3> QED BY <1>1, <1>3, <3>1 DEF Frame
  <2>2. DOMAIN stack' = 1 .. L - 1 /\ \A i \in 1 .. L - 1 : stack'[i] = stack[i]
    BY <1>2, <1>3, <2>1
  <2>3. /\ DOMAIN visited' = 1 .. V + 1 /\ visited'[V + 1] = n
        /\ \A i \in 1 .. V : visited'[i] = visited[i]
    BY <1>2, <1>3, <2>1
  <2> QED BY <2>2, <2>3
<1>5. Nodes' = Nodes /\ Reached' = Reached /\ (CycleReachable' <=> CycleReachable)
  BY <1>2, ManifestKept
<1>6. Visited' = Visited \cup {n}
  <2>1. \A v : v \in Visited' <=> v \in Visited \/ v = n
    BY <1>3, <1>4 DEF Visited
  <2> QED BY <2>1
<1>7. Visiting \subseteq Visiting' \cup {n}
  <2>1. ASSUME NEW i \in 1 .. L
        PROVE  stack[i].node \in Visiting' \cup {n}
    <3>1. CASE i = L
      BY <1>3, <3>1
    <3>2. CASE i # L
      <4>1. i \in 1 .. L - 1
        BY <1>3, <3>2
      <4> QED BY <1>4, <4>1 DEF Visiting
    <3> QED BY <3>1, <3>2
  <2> QED BY <1>3, <2>1 DEF Visiting
<1>8. \A u : u \in Visited \/ u \in Visiting => u \in Visited' \/ u \in Visiting'
  BY <1>6, <1>7
<1>9. PassedWasMet'
  <2>1. ASSUME NEW i \in 1 .. L - 1, NEW u \in Nodes \cap upstream[stack[i].node]
        PROVE  u \in stack[i].rest \/ u \in Visited' \/ u \in Visiting'
    BY <1>3, <1>8 DEF VisitInv, PassedWasMet
  <2>2. ASSUME NEW i \in 1 .. V + 1, NEW u \in Nodes \cap upstream[visited'[i]]
        PROVE  u \in Visited' \/ u \in Visiting'
    <3>1. CASE i = V + 1
      <4>1. L \in DOMAIN stack /\ u \in upstream[stack[L].node]
        BY <1>3, <1>4, <2>2, <3>1
      <4>2. u \in Visited \/ u \in Visiting
        BY <1>3, <2>2, <4>1 DEF VisitInv, PassedWasMet
      <4> QED BY <1>8, <4>2
    <3>2. CASE i # V + 1
      <4>1. i \in 1 .. V
        BY <1>3, <3>2
      <4>2. u \in Visited \/ u \in Visiting
        BY <1>3, <1>4, <2>2, <4>1 DEF VisitInv, PassedWasMet
      <4> QED BY <1>8, <4>2
    <3> QED BY <3>1, <3>2
  <2> QED BY <1>2, <1>4, <1>5, <2>1, <2>2 DEF PassedWasMet
<1>10. n \in Reached
  BY <1>3, ActiveIsReached DEF VisitInv
<1> QED BY <1>2, <1>5, <1>6, <1>9, <1>10 DEF VisitInv

(* A manifest has finitely many nodes.  The invariant of the visit over    *)
(* them, for any graph and any order of its lists.                         *)
LEMMA VisitCorrect ==
    ASSUME IsFiniteSet(Ids)
    PROVE  GraphSpec => []VisitInv
<1>1. GraphInit => VisitInv
  BY VisitInvInit
<1>2. VisitInv /\ GraphInv' /\ [GraphNext]_graphVars => VisitInv'
  <2> SUFFICES ASSUME VisitInv, GraphInv', [GraphNext]_graphVars
               PROVE  VisitInv'
    OBVIOUS
  <2>1. CASE \E n \in Ids : MeetNode(n) \/ EnterNode(n)
    BY <2>1, MeetNodeFollows, EnterNodeFollows
  <2>2. CASE LeaveNode
    BY <2>2, LeaveNodeFollows
  <2>3. CASE UNCHANGED graphVars
    <3>1. Nodes' = Nodes /\ Reached' = Reached /\ (CycleReachable' <=> CycleReachable)
      BY <2>3, ManifestKept DEF graphVars
    <3>2. Visited' = Visited /\ Visiting' = Visiting /\ cycle' = cycle /\ stack' = stack
          /\ visited' = visited /\ upstream' = upstream
      BY <2>3 DEF graphVars, Visited, Visiting
    <3> QED BY <3>1, <3>2 DEF VisitInv, PassedWasMet
  <2> QED BY <2>1, <2>2, <2>3 DEF GraphNext
<1> QED BY <1>1, <1>2, GraphCorrect, PTL DEF GraphSpec

(* What is reached is at the end of a walk; its first step out of the      *)
(* visited nodes would leave a visited node for one the visit has met.     *)
LEMMA ReachedIsVisited ==
    ASSUME VisitInv, IsFiniteSet(Ids), Done
    PROVE  Reached \subseteq Visited
<1>1. Visiting = {} /\ output \in Visited /\ output \in Nodes /\ Cardinality(Nodes) \in Nat
  <2>1. DOMAIN stack = {}
    BY DEF Done
  <2>2. visited # <<>> /\ visited[Len(visited)] = output /\ visited \in Seq(Ids)
    BY DEF VisitInv, GraphInv, CallsFollowUpstreams, Done, GraphTypeOK
  <2>3. Len(visited) \in DOMAIN visited
    BY <2>2
  <2> QED BY <2>1, <2>2, <2>3, NodesAreCounted
          DEF Visiting, Visited, VisitInv, GraphInv, GraphTypeOK
<1>2. \A m \in Visited : Nodes \cap upstream[m] \subseteq Visited
  BY <1>1 DEF VisitInv, PassedWasMet, Visited
<1> SUFFICES ASSUME NEW n \in Reached
             PROVE  n \in Visited
  OBVIOUS
<1>3. PICK j, p : j \in 0 .. Cardinality(Nodes) /\ WalkTo(n, j, p)
  BY <1>1, ReachedByWalks
<1> DEFINE Missed == {i \in 0 .. j : p[i] \notin Visited}
<1>4. Missed = {}
  <2> SUFFICES ASSUME Missed # {}
               PROVE  FALSE
    OBVIOUS
  <2>1. PICK i \in Missed : \A k \in Missed : i <= k
    <3>1. Missed \subseteq Nat
      OBVIOUS
    <3> HIDE DEF Missed
    <3> QED BY <3>1, LeastElement
  <2>2. i # 0
    BY <1>1, <1>3 DEF WalkTo
  <2>3. i - 1 \in 0 .. j - 1 /\ i - 1 \in 0 .. j /\ ~(i <= i - 1) /\ (i - 1) + 1 = i
    BY <1>1, <1>3, <2>2
  <2>4. p[i - 1] \in Visited
    BY <2>1, <2>3
  <2>5. p[i] \in Nodes \cap upstream[p[i - 1]]
    BY <1>3, <2>3 DEF WalkTo
  <2> QED BY <1>2, <2>4, <2>5
<1>5. j \in 0 .. j
  BY <1>1, <1>3
<1> QED BY <1>3, <1>4, <1>5 DEF WalkTo

(* On a closed walk, the node that was visited first depends on another.   *)
LEMMA CycleIsReported ==
    ASSUME VisitInv, Visited = Reached, CycleReachable
    PROVE  cycle
<1> SUFFICES ASSUME ~cycle
             PROVE  FALSE
  OBVIOUS
<1>0. PICK k \in 1 .. Cardinality(Nodes) : \E p \in [1 .. k -> Reached] : ClosedWalk(p)
  BY DEF CycleReachable
<1>1. PICK p \in [1 .. k -> Reached] : ClosedWalk(p)
  BY <1>0
<1>2. k \in Nat \ {0} /\ Len(p) = k /\ DOMAIN p = 1 .. k
  <2>1. k \in Nat \ {0}
    OBVIOUS
  <2>2. p \in Seq(Reached)
    BY <2>1
  <2> QED BY <2>1, <2>2
<1>3. PICK V \in Nat : V = Len(visited) /\ DOMAIN visited = 1 .. V
  BY DEF VisitInv, GraphInv, GraphTypeOK
<1> DEFINE Met == {i \in 1 .. V : \E j \in 1 .. k : visited[i] = p[j]}
<1>4. \A j \in 1 .. k : \E i \in 1 .. V : visited[i] = p[j]
  BY <1>1, <1>3 DEF Visited
<1>5. PICK m \in Met : \A i \in Met : m <= i
  <2>1. Met \subseteq Nat
    OBVIOUS
  <2>2. 1 \in 1 .. k
    BY <1>2
  <2>3. Met # {}
    BY <1>4, <2>2
  <2> HIDE DEF Met
  <2> QED BY <2>1, <2>3, LeastElement
<1>6. PICK j \in 1 .. k : visited[m] = p[j]
  OBVIOUS
<1>7. PICK l \in 1 .. k : p[l] \in upstream[p[j]] /\ p[l] \in Nodes
  <2>1. CASE j = k
    <3>1. 1 \in 1 .. k /\ p[1] \in upstream[p[k]] /\ p[1] \in Nodes
      BY <1>1, <1>2 DEF ClosedWalk, Walk
    <3> QED BY <2>1, <3>1
  <2>2. CASE j # k
    <3>1. j + 1 \in 1 .. k /\ j \in 1 .. Len(p) - 1
      BY <1>2, <2>2
    <3>2. p[j + 1] \in upstream[p[j]] /\ p[j + 1] \in Nodes
      BY <1>1, <1>2, <3>1 DEF ClosedWalk, Walk
    <3> QED BY <3>1, <3>2
  <2> QED BY <2>1, <2>2
<1>8. PICK i \in 1 .. m - 1 : visited[i] = p[l]
  BY <1>3, <1>6, <1>7 DEF VisitInv, GraphInv, VisitedInOrder
<1>9. i \in Met /\ ~(m <= i)
  BY <1>3, <1>8
<1> QED BY <1>5, <1>9

(* The visit reports a cycle if and only if the output depends on one, and *)
(* sees exactly what the output depends on, each node once, in any finite  *)
(* declared graph and in any order of its lists (_graph_errors).           *)
THEOREM VisitIsAlwaysExact ==
    ASSUME IsFiniteSet(Ids)
    PROVE  GraphSpec => []VisitIsExact
<1>1. VisitInv => VisitIsExact
  <2> SUFFICES ASSUME VisitInv, Done
               PROVE  /\ cycle <=> CycleReachable
                      /\ Visited = Reached
                      /\ Len(visited) = Cardinality(Visited)
    BY DEF VisitIsExact
  <2>1. Visited = Reached
    BY ReachedIsVisited DEF VisitInv
  <2>2. cycle \in BOOLEAN
    BY DEF VisitInv, GraphInv, GraphTypeOK
  <2>3. cycle <=> CycleReachable
    BY <2>1, <2>2, CycleIsReported DEF VisitInv
  <2>4. Len(visited) = Cardinality(Visited)
    <3>1. PICK V \in Nat : V = Len(visited) /\ DOMAIN visited = 1 .. V
      BY DEF VisitInv, GraphInv, GraphTypeOK
    <3>2. IsFiniteSet(1 .. V) /\ Cardinality(1 .. V) = V
      <4>1. 1 \in Int /\ V \in Int
        OBVIOUS
      <4>2. IsFiniteSet(1 .. V) /\ Cardinality(1 .. V) = IF 1 > V THEN 0 ELSE V - 1 + 1
        BY <4>1, FS_Interval
      <4> QED BY <4>2
    <3>3. visited \in Seq(Ids)
      BY DEF VisitInv, GraphInv, GraphTypeOK
    <3>4. visited \in [1 .. V -> Visited]
      BY <3>1, <3>3 DEF Visited
    <3>5. \A i, j \in 1 .. V : visited[i] = visited[j] => i = j
      BY <3>1 DEF VisitInv, GraphInv, CallsAreDistinct
    <3>6. \A v \in Visited : \E i \in 1 .. V : visited[i] = v
      BY <3>1 DEF Visited
    <3>7. visited \in Surjection(1 .. V, Visited) /\ visited \in Injection(1 .. V, Visited)
      BY <3>4, <3>5, <3>6 DEF Surjection, Injection, IsInjective
    <3> QED BY <3>1, <3>2, <3>7, FS_Surjection
  <2> QED BY <2>1, <2>3, <2>4
<1> QED BY <1>1, VisitCorrect, PTL
=============================================================================
