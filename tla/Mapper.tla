------------------------------- MODULE Mapper -------------------------------
(***************************************************************************)
(* buildStateGraph (src/src/core/mapper.ts): the scout of the State-Graph  *)
(* mode explores the app, the action that smells most of risk first.       *)
(***************************************************************************)
EXTENDS Site, StateGraph

CONSTANTS
  MaxStates,   \* maxStates: 20 in the code
  MaxActions   \* maxActionsPerState: 8 in the code

VARIABLES
  graph, frontier,   \* frontier: `queue`
  scheduled,         \* <<state, label>>
  candidate,         \* what was popped: a state and an action
  ranFrom,           \* observation only: the state its action ran in
  mapping            \* where the mapper is

mapVars == <<graph, frontier, scheduled, candidate, ranFrom, mapping>>

\* captureState.
captureState(page) ==
  [url |-> page.url, urlRisk |-> site.risk[page.url],
   keys |-> IF page.stored THEN {"token"} ELSE {},
   domMarkers |-> UNION {site.controls[page.url][i].words : i \in Places(page)}]

\* discoverCandidates, by their places: labelled, not denied, and no link that
\* leaves the app, as many as a state may have; a hash link is clicked in place.
Candidates(page) ==
  LET all   == site.controls[page.url]
      found == {i \in Places(page) : /\ ~all[i].deny /\ all[i].kind \in {"button", "link", "hash"}
                                     /\ all[i].kind = "link" => Internal(all[i].to)}
  IN  {i \in found : Cardinality({j \in found : j < i}) < MaxActions}

action(c) == [type  |-> IF c.kind = "link" THEN "navigate" ELSE "click",
              label |-> c.name, to |-> c.to, words |-> c.words]

actionWeight(node, c) == Max({1, stateWeight(node) - 2 * Cardinality(c.words)})

\* scheduleNode, which makes `acted` redundant: what is new on the page goes into
\* the queue, of several with one label the first.
scheduleNode(node, page) ==
  LET all   == site.controls[page.url]
      fresh == {i \in Candidates(page) :
                  /\ <<node, all[i].name>> \notin scheduled
                  /\ \A j \in Candidates(page) : j < i => all[j].name # all[i].name}
      list  == Those(all, fresh)
  IN
  /\ frontier' = pushAll(frontier,
                         [i \in DOMAIN list |-> [item |-> [from |-> node, action |-> action(list[i])],
                                                 weight |-> actionWeight(node, list[i])]])
  /\ scheduled' = scheduled \cup {<<node, all[i].name>> : i \in fresh}

MapInit ==
  /\ graph = EmptyGraph /\ frontier = EmptyQueue /\ scheduled = {}
  /\ candidate = Nothing /\ ranFrom = Nothing

MapRoot ==
  /\ mapping = "root"
  /\ graph' = addState(graph, captureState(tab.page))
  /\ scheduleNode(root(graph'), tab.page)
  /\ mapping' = "pop"
  /\ UNCHANGED <<run, tab, pressed, losses, candidate, ranFrom>>

Exploring == frontier.heap # <<>> /\ size(graph) < MaxStates

\* The best candidate, and back to the page of its state if the URL is
\* another one.
MapPop ==
  /\ mapping = "pop" /\ Exploring
  /\ frontier' = pop(frontier)
  /\ candidate' = Head(frontier.heap).item
  /\ IF tab.page.url = candidate'.from.url THEN UNCHANGED <<tab, losses>>
     ELSE Goto(tab, candidate'.from.url)
  /\ mapping' = "perform"
  /\ UNCHANGED <<run, pressed, graph, scheduled, ranFrom>>

\* perform: a link is opened by its URL; of anything else the first with its
\* text is clicked, and a click that finds nothing is swallowed.
MapPerform ==
  LET all   == site.controls[tab.page.url]
      found == Those(all, {i \in Places(tab.page) : all[i].name = candidate.action.label})
  IN
  /\ mapping = "perform"
  /\ ranFrom' = captureState(tab.page)
  /\ IF candidate.action.type = "navigate"
     THEN Goto(tab, candidate.action.to) /\ UNCHANGED pressed
     ELSE /\ UNCHANGED losses
          /\ IF found = <<>> THEN UNCHANGED <<tab, pressed>>
             ELSE /\ tab' = Act(tab, Head(found))
                  /\ pressed' = pressed \cup {[control |-> Head(found), by |-> "pointer"]}
  /\ mapping' = "capture"
  /\ UNCHANGED <<run, graph, frontier, scheduled, candidate>>

MapCapture ==
  LET from == candidate.from
      to   == captureState(tab.page)
      grown == addState(graph, to)
  IN
  /\ mapping = "capture"
  /\ IF to = from
     THEN graph' = grown /\ UNCHANGED <<frontier, scheduled>>
     ELSE /\ graph' = addEdge(grown, [from |-> from, to |-> to, action |-> candidate.action,
                                      ran |-> ranFrom])
          /\ scheduleNode(to, tab.page)
  /\ mapping' = "pop" /\ candidate' = Nothing /\ ranFrom' = Nothing
  /\ UNCHANGED <<run, tab, pressed, losses>>

MapEnd ==
  /\ mapping = "pop" /\ ~Exploring
  /\ mapping' = "mapped"
  /\ UNCHANGED <<run, tab, pressed, losses, graph, frontier, scheduled, candidate,
                 ranFrom>>

MapStep == MapRoot \/ MapPop \/ MapPerform \/ MapCapture \/ MapEnd

-----------------------------------------------------------------------------
(* Properties.                                                              *)

\* The candidate that is taken next weighs the least of all that wait, the
\* oldest of those: whatever has come and gone in the heap before.
RiskiestFirst ==
  \A i \in DOMAIN frontier.heap \ {1} : less(frontier.heap[1], frontier.heap[i])

\* The kill chain of every state of a finished graph is one: it starts at the
\* root, each edge goes on where the one before it ended, and it ends in the
\* state.
KillChainLeads ==
  mapping = "mapped" =>
    \A i \in DOMAIN graph.nodes :
      LET path == pathTo(graph, graph.nodes[i]) IN
      IF i = 1 THEN path = <<>>
      ELSE /\ path # <<>> /\ Head(path).from = root(graph)
           /\ Last(path).to = graph.nodes[i]
           /\ \A k \in 1 .. Len(path) - 1 : path[k].to = path[k + 1].from

\* The state the swarm attacks from is the richest of all that were found, not
\* only of those on one branch.
SeedIsRichest ==
  mapping = "mapped" =>
    \A i \in DOMAIN graph.nodes : ~richer(graph.nodes[i], Richest(graph))

\* An edge was walked on the page of the state it starts from, if every page
\* loaded and none was late.  (Its storage may have moved on since: only the URL
\* is restored.)
EdgesRunOnTheirPage ==
  losses = 0 /\ Prompt =>
    \A i \in DOMAIN graph.edges : graph.edges[i].ran.url = graph.edges[i].from.url

\* The app is explored from its riskiest end, and the graph says how its states
\* are reached and which of them is worth most.
GraphIsSound == RiskiestFirst /\ KillChainLeads /\ SeedIsRichest /\ EdgesRunOnTheirPage

=============================================================================
