-------------------------------- MODULE Crawl --------------------------------
(***************************************************************************)
(* A scout and a mission: in State-Graph mode the mapper explores the app  *)
(* first (src/src/core/swarm.ts), then a mission opens a page of its own,  *)
(* in the richest state the mapper found, and crawls                       *)
(* (src/src/core/agent.ts, openAgentPage and runBehavior).                 *)
(***************************************************************************)
EXTENDS Mapper, Storm

vars == <<run, tab, pressed, losses, mapVars, walkVars, storm>>

Init ==
  /\ run \in Runs
  /\ tab = NewTab("blank", FALSE)
  /\ pressed = {} /\ losses = 0
  /\ MapInit /\ mapping = (IF run.graph THEN "open" ELSE "off")
  /\ WalkInit /\ walking = "boot" /\ StormInit

Mapped == mapping \in {"off", "mapped", "failed"}

ScoutOpen ==
  /\ mapping = "open"
  /\ Goto(tab, site.start)
  /\ mapping' = "root"
  /\ UNCHANGED <<run, pressed, graph, frontier, scheduled, candidate, ranFrom>>

\* Exploring throws: the swarm runs plain.
ScoutFails ==
  /\ ~Mapped /\ mapping # "hung"
  /\ mapping' = "failed"
  /\ UNCHANGED <<run, tab, pressed, losses, graph, frontier, scheduled, candidate,
                 ranFrom>>

\* The richest state, unless nothing was stored in it.
Seeded == mapping = "mapped" /\ Richest(graph).keys # {}

\* A context of the mission's own; a target that does not load leaves it blank.
Boot ==
  /\ Mapped /\ walking = "boot"
  /\ Goto(NewTab("blank", TRUE), site.start)
  /\ walking' = IF Seeded /\ tab'.page.url = site.start THEN "seed" ELSE "begin"
  /\ UNCHANGED <<run, pressed, crawlVars, pageVars, keyVars>>

\* The captured storage is written, and the page reloaded into it; that may
\* fail, and the mission goes on.
Seed ==
  /\ walking = "seed"
  /\ Goto([tab EXCEPT !.page.stored = TRUE], tab.page.url)
  /\ walking' = "begin"
  /\ UNCHANGED <<run, pressed, crawlVars, pageVars, keyVars>>

\* runBehavior.
Begin ==
  /\ walking = "begin"
  /\ UNCHANGED <<run, tab, pressed, losses>>
  /\ CASE run.kind = "walk"     -> Enter("walk")
       [] run.kind = "keyboard" -> Enter("keys")
       [] run.kind = "observe"  -> Enter("look")
       [] run.kind = "fuzz"     ->
            /\ url' = tab.page.url /\ walking' = "turn"
            /\ UNCHANGED <<queue, visited, actions, owed, lost, pageVars, keyVars>>
       [] run.kind = "storm"    -> walking' = "done"
                                   /\ UNCHANGED <<crawlVars, pageVars, keyVars>>

Scout == (ScoutOpen \/ MapStep \/ ScoutFails) /\ UNCHANGED <<walkVars, storm>>
Mission ==
  /\ \/ (Boot \/ Seed \/ Begin \/ WalkStep \/ KeyStep \/ LookStep \/ FuzzStep)
        /\ UNCHANGED storm
     \/ StormStep
  /\ UNCHANGED mapVars
Late == Arrive /\ UNCHANGED <<mapVars, walkVars, storm>>

\* Pages are loaded and controls clicked within a time limit.  What is evaluated
\* in a page, a query for its elements and a key have none: a page whose script
\* never lets go keeps the crawler that asks it.
Hang ==
  /\ \/ mapping \in {"root", "capture"} /\ mapping' = "hung" /\ UNCHANGED <<walking, storm>>
     \/ /\ walking \in {"seed", "query", "handle", "acted", "reloaded", "blur", "tab", "focused",
                        "entered", "watch", "fuzz"}
        /\ walking' = "hung" /\ UNCHANGED <<mapping, storm>>
     \/ /\ storm.at \in {"resources", "links"}
        /\ storm' = [storm EXCEPT !.at = "hung"] /\ UNCHANGED <<mapping, walking>>
  /\ UNCHANGED <<run, tab, pressed, losses, graph, frontier, scheduled, candidate, ranFrom,
                 crawlVars, pageVars, keyVars>>

Hung == mapping = "hung" \/ walking = "hung" \/ storm.at = "hung"
Running == ~Hung /\ walking # "thrown" /\ (walking = "done" => storm.at # "over")
Over == ~Running /\ UNCHANGED vars

Next == Scout \/ Mission \/ Late \/ Hang \/ Over

\* A crawler that does not hang goes on.  This is WF_vars(Scout \/ Mission) with
\* its ENABLED spelled out: as long as it runs there is a step to take, which the
\* check for deadlocks shows.
Fairness == []<>~Running \/ []<><<Scout \/ Mission>>_vars

Spec == Init /\ [][Next]_vars /\ Fairness

-----------------------------------------------------------------------------
(* Properties.                                                              *)

TypeOK ==
  /\ mapping \in {"off", "open", "root", "pop", "perform", "capture", "mapped", "failed", "hung"}
  /\ walking \in {"boot", "seed", "begin", "walk", "query", "handle", "acted", "reloaded",
                  "keys", "blur", "tab", "focused", "entered", "typed", "look", "watch",
                  "turn", "fuzz", "done", "thrown", "hung"}
  /\ storm.at \in {"wait", "resources", "links", "send", "over", "hung"} /\ storm.sent \in 0 .. budget
  /\ queue \in Seq(DOMAIN site.controls) /\ Len(queue) <= QueueCap
  /\ Len(tab.trace) <= Capacity
  /\ actions \in 0 .. budget

\* Every crawl of an app with finitely many URLs comes to an end, whatever the
\* app does meanwhile (new controls, focus traps, pages that come late), unless a
\* page keeps one of its questions for ever.
CrawlEnds == <>~Running

=============================================================================
