----------------------------- MODULE StateGraph -----------------------------
(***************************************************************************)
(* The state graph and its queue (src/src/core/graph.ts).  A snapshot is   *)
(* what signatureOf keeps of one, so a node is its own id: the URL, the    *)
(* keys of the storage (not their values) and the risk words on the page.  *)
(***************************************************************************)
EXTENDS Integers, Sequences, SequencesExt, FiniteSetsExt

-----------------------------------------------------------------------------
(* PriorityQueue: a binary heap in an array; heap[1] is its top.            *)

EmptyQueue == [heap |-> <<>>, seq |-> 0]

less(a, b) == IF a.weight # b.weight THEN a.weight < b.weight ELSE a.seq < b.seq

Swapped(heap, i, j) == [heap EXCEPT ![i] = heap[j], ![j] = heap[i]]

\* One turn of the loop of push() for the entry at `at`, and of the one of pop().
Risen(h) ==
  LET parent == h.at \div 2 IN
  IF h.at > 1 /\ less(h.heap[h.at], h.heap[parent])
  THEN [heap |-> Swapped(h.heap, h.at, parent), at |-> parent]
  ELSE h

\* Variant: only the left child is looked at.
SunkLeft(h) ==
  IF 2 * h.at \in DOMAIN h.heap /\ less(h.heap[2 * h.at], h.heap[h.at])
  THEN [heap |-> Swapped(h.heap, h.at, 2 * h.at), at |-> 2 * h.at]
  ELSE h

Sunk(h) ==
  LET family   == {h.at, 2 * h.at, 2 * h.at + 1} \cap DOMAIN h.heap
      smallest == CHOOSE j \in family : \A k \in family \ {j} : less(h.heap[j], h.heap[k])
  IN  [heap |-> Swapped(h.heap, h.at, smallest), at |-> smallest]

\* The loops, with turns to spare.
SiftUp(heap) ==
  LET up[n \in 0 .. Len(heap)] ==
        IF n = 0 THEN [heap |-> heap, at |-> Len(heap)] ELSE Risen(up[n - 1])
  IN  up[Len(heap)].heap

SiftDown(heap) ==
  LET down[n \in 0 .. Len(heap)] ==
        IF n = 0 THEN [heap |-> heap, at |-> 1] ELSE Sunk(down[n - 1])
  IN  down[Len(heap)].heap

push(queue, item, weight) ==
  LET entry == [item |-> item, weight |-> weight, seq |-> queue.seq]
  IN  [heap |-> SiftUp(Append(queue.heap, entry)), seq |-> queue.seq + 1]

pushAll(queue, entries) ==
  LET pushed[n \in 0 .. Len(entries)] ==
        IF n = 0 THEN queue ELSE push(pushed[n - 1], entries[n].item, entries[n].weight)
  IN  pushed[Len(entries)]

\* The queue without its top: the last entry goes there and sinks.
pop(queue) ==
  LET rest == SubSeq(queue.heap, 1, Len(queue.heap) - 1) IN
  [queue EXCEPT !.heap = IF rest = <<>> THEN rest
                         ELSE SiftDown([rest EXCEPT ![1] = queue.heap[Len(queue.heap)]])]

-----------------------------------------------------------------------------
(* Weights: how much of a snapshot smells of risk.                          *)

stateWeight(snapshot) ==
  Max({1, 10 - 3 * (snapshot.urlRisk + Cardinality(snapshot.domMarkers))})

-----------------------------------------------------------------------------
(* StateGraph: its nodes in the order they were added, the first the root.  *)

EmptyGraph == [nodes |-> <<>>, edges |-> <<>>]

size(graph) == Len(graph.nodes)
root(graph) == Head(graph.nodes)

addState(graph, snapshot) ==
  IF Contains(graph.nodes, snapshot) THEN graph
  ELSE [graph EXCEPT !.nodes = Append(@, snapshot)]

addEdge(graph, edge) == [graph EXCEPT !.edges = Append(@, edge)]

\* Nowhere is no state.
Nowhere == [url |-> "nowhere"]

\* walk() of pathTo: the edges out of a state in the order they were added, each
\* state once, and a dead end is taken back.  Calls are nested at most as deep as
\* there are states.  `along` is what the edges up to the i-th have come to.
Walk(graph, node) ==
  LET states == Range(graph.nodes)
      walk[depth \in 0 .. size(graph)] ==
        [current \in states |-> [seen \in SUBSET states |->
           LET entered == [found |-> FALSE, path |-> <<>>, seen |-> seen \cup {current}]
               along[i \in 0 .. Len(graph.edges)] ==
                 IF i = 0 THEN entered
                 ELSE LET before == along[i - 1]
                          edge   == graph.edges[i]
                          down   == walk[depth - 1][edge.to][before.seen]
                      IN  IF before.found \/ edge.from # current THEN before
                          ELSE [down EXCEPT !.path = IF down.found THEN <<edge>> \o @ ELSE @]
           IN  IF current = node THEN [found |-> TRUE, path |-> <<>>, seen |-> seen]
               ELSE IF current \in seen \/ depth = 0
               THEN [found |-> FALSE, path |-> <<>>, seen |-> seen]
               ELSE along[Len(graph.edges)]]]
  IN  walk[size(graph)][root(graph)][{}]

\* The kill chain.
pathTo(graph, node) == Walk(graph, node).path

\* The states swarmDetect's `visit` meets: it goes the way of a search that finds
\* nothing.
Visited(graph) == Walk(graph, Nowhere).seen

\* More keys in the storage, then more of a risk.
richer(n, best) ==
  \/ Cardinality(n.keys) > Cardinality(best.keys)
  \/ Cardinality(n.keys) = Cardinality(best.keys) /\ stateWeight(n) < stateWeight(best)

\* The richest state; of equals the code takes the one it meets first.
Richest(graph) ==
  CHOOSE best \in Visited(graph) : \A n \in Visited(graph) : ~richer(n, best)

=============================================================================
