------------------------------- MODULE Walker -------------------------------
(***************************************************************************)
(* The behaviours that crawl the app page by page: walkDom                 *)
(* (src/src/core/domWalker.ts) with the pointer, and keyboardWalk          *)
(* (keyboardWalk.ts) with Tab and Enter.                                   *)
(***************************************************************************)
EXTENDS Site, FiniteSetsExt

CONSTANTS
  QueueCap,    \* URLs that may wait: 20 in the code
  TabCap,      \* Tab presses on one page: 60 in the code
  StreakCap    \* how often one element may have the focus in a row: 3

ASSUME WalkerAssumption == QueueCap \in Nat \ {0}

VARIABLES
  queue, visited, url,   \* the crawl
  actions,               \* actions so far, what the budget is about
  pass, scan, hi, seen,  \* walkDom: one page, its handles, signatures acted on
  tabs, streak,          \* keyboardWalk: one page
  walking,               \* where the behaviour is
  owed, lost             \* observation only: links met, links a full queue lost

crawlVars == <<queue, visited, url, actions, owed, lost>>
pageVars  == <<pass, scan, hi, seen>>
keyVars   == <<tabs, streak>>
walkVars  == <<crawlVars, pageVars, keyVars, walking>>

\* maxActions: the mission's part of the swarm's.
budget == run.budget
Denied(c) == c.deny /\ ~run.allowDestructive
None == [page |-> Nothing, list |-> <<>>]

WalkInit ==
  /\ queue = <<>> /\ visited = {} /\ url = "" /\ actions = 0
  /\ pass = 0 /\ scan = None /\ hi = 1 /\ seen = {}
  /\ tabs = 0 /\ streak = [name |-> "", n |-> 0]
  /\ owed = {} /\ lost = {}

\* The first URL of the crawl is the page the behaviour is given.
Enter(step) ==
  /\ queue' = <<tab.page.url>>
  /\ walking' = step
  /\ UNCHANGED <<visited, url, actions, owed, lost, pageVars, keyVars>>

Press(c, by) == pressed' = pressed \cup {[control |-> c, by |-> by]}

\* A URL joins the queue unless it was visited or the queue is full.
Queued(target) ==
  /\ queue' = IF target \notin visited /\ Len(queue) < QueueCap
              THEN Append(queue, target) ELSE queue
  /\ lost' = IF target \notin visited /\ Len(queue) >= QueueCap
             THEN lost \cup {target} ELSE lost

\* The next URL, loaded unless the tab is on it.
Route(step) ==
  /\ queue # <<>> /\ actions < budget
  /\ queue' = Tail(queue)
  /\ UNCHANGED <<run, pressed, actions, owed, lost, scan>>
  /\ IF Head(queue) \in visited
     THEN UNCHANGED <<tab, losses, visited, url, pass, hi, seen, keyVars, walking>>
     ELSE /\ url' = Head(queue)
          /\ visited' = visited \cup {url'}
          /\ IF tab.page.url = url' THEN UNCHANGED <<tab, losses>> ELSE Goto(tab, url')
          /\ pass' = 0 /\ hi' = 1 /\ seen' = {}
          /\ tabs' = 0 /\ streak' = [name |-> "", n |-> 0]
          /\ walking' = step

\* Nothing waits, or the budget is spent.
Finish(step) ==
  /\ walking = step
  /\ queue = <<>> \/ actions >= budget
  /\ walking' = "done"
  /\ UNCHANGED <<run, tab, pressed, losses, crawlVars, pageVars, keyVars>>

Unchanged(others) == UNCHANGED <<run, losses, visited, url, others>>

-----------------------------------------------------------------------------
(* walkDom: in-place controls first, links second, and a new query of the   *)
(* page after every action.                                                 *)

Query == scan' = [page |-> tab'.page, list |-> Visible(tab'.page)] /\ hi' = 1

WalkRoute == walking = "walk" /\ Route("query")

\* A pass starts with a query; one in the middle of a navigation throws, and
\* the pass is over.
WalkQuery ==
  /\ walking = "query"
  /\ UNCHANGED <<tab, pressed, crawlVars, keyVars, seen>>
  /\ Unchanged(<<>>)
  /\ \/ Query /\ walking' = "handle" /\ UNCHANGED pass
     \/ /\ tab.coming # Nothing
        /\ pass' = pass + 1
        /\ walking' = IF pass = 1 THEN "walk" ELSE "query"
        /\ UNCHANGED <<scan, hi>>

PassOver == hi > Len(scan.list) \/ actions >= budget
\* A handle answers as long as the page is the one it was taken from.
Alive == tab.page = scan.page
handle == scan.list[hi]

\* What a pass leaves to the other, to the deny-list, or takes for one it has
\* acted on: another control may have the same selectors.
Passed(c) ==
  \/ ~Alive \/ Denied(c) \/ (c.kind # "link" /\ c.sign \in seen)
  \/ pass = 0 /\ c.kind \in {"link", "hash", "password"}
  \/ pass = 1 /\ c.kind \notin {"link", "hash"}

WalkSkip ==
  /\ walking = "handle" /\ ~PassOver /\ Passed(handle)
  /\ hi' = hi + 1
  /\ UNCHANGED <<tab, pressed, crawlVars, keyVars, pass, scan, seen, walking>>
  /\ Unchanged(<<>>)

\* Links are not clicked: those of the app wait for their turn.
WalkLink ==
  /\ walking = "handle" /\ ~PassOver /\ ~Passed(handle) /\ handle.kind = "link"
  /\ hi' = hi + 1
  /\ IF Internal(handle.to) THEN Queued(handle.to) ELSE UNCHANGED <<queue, lost>>
  /\ UNCHANGED <<tab, pressed, actions, owed, keyVars, pass, scan, seen, walking>>
  /\ Unchanged(<<>>)

\* The action is recorded, then performed.
WalkAct ==
  /\ walking = "handle" /\ ~PassOver /\ ~Passed(handle) /\ handle.kind # "link"
  /\ LET type == IF handle.kind = "text" THEN "input" ELSE "click"
         told == Record(tab, type, handle.id)
     IN  IF run.dryRun THEN tab' = told /\ UNCHANGED pressed
         ELSE tab' = Act(told, handle) /\ Press(handle, "pointer")
  /\ seen' = seen \cup {handle.sign}
  /\ actions' = actions + 1
  /\ walking' = "acted"
  /\ UNCHANGED <<queue, owed, lost, keyVars, pass, scan, hi>>
  /\ Unchanged(<<>>)

\* The session-killer reloads in the middle of the flow, and says so.
WalkReload ==
  /\ walking = "acted" /\ run.chaos /\ handle.kind \notin {"link", "hash"}
  /\ LET told == Record(tab, "navigate", tab.page.url)
     IN  tab' = IF run.dryRun THEN told ELSE Loaded(told, told.page.url)
  /\ walking' = "reloaded"
  /\ UNCHANGED <<pressed, crawlVars, keyVars, pageVars>>
  /\ Unchanged(<<>>)

\* Variant: the handles from before the action are walked on.
WalkOnOld ==
  /\ walking \in {"acted", "reloaded"}
  /\ walking' = "handle" /\ hi' = hi + 1
  /\ UNCHANGED <<tab, pressed, crawlVars, keyVars, pass, scan, seen>>
  /\ Unchanged(<<>>)

\* An action that moved the page ends the walk of it: the URL it led to waits
\* for its turn, or the URL without its hash, and the rest of the page is left.
\* (A hash link that leads to a URL that was visited leaves the walk on the new
\* page.)  So does a query that throws in the middle of a navigation.
WalkAfter ==
  LET hash == handle.kind = "hash"
      next == tab.page.url
      base == site.base[next]
  IN
  /\ walking \in {"acted", "reloaded"}
  /\ UNCHANGED <<tab, pressed, actions, owed, keyVars, pass, seen>>
  /\ Unchanged(<<>>)
  /\ CASE next = url             -> UNCHANGED <<queue, lost>>
       [] next # url /\ (hash \/ next \notin visited) -> Queued(next)
       [] OTHER -> IF Internal(base) THEN Queued(base) ELSE UNCHANGED <<queue, lost>>
  /\ \/ /\ next = url \/ (hash /\ queue' = queue)
        /\ walking' = "handle" /\ Query
     \/ /\ IF next = url THEN tab.coming # Nothing
           ELSE hash => queue' # queue \/ tab.coming # Nothing
        /\ walking' = "walk" /\ UNCHANGED <<scan, hi>>

\* The pass is through.  After the second one every link of the page is owed.
WalkPassEnd ==
  /\ walking = "handle" /\ PassOver
  /\ pass' = pass + 1
  /\ walking' = IF pass = 1 THEN "walk" ELSE "query"
  /\ owed' = IF pass = 1 /\ actions < budget /\ Alive
             THEN owed \cup {c.to : c \in {x \in Range(scan.list) : x.kind = "link" /\ ~Denied(x)
                                                          /\ Internal(x.to)}}
             ELSE owed
  /\ UNCHANGED <<tab, pressed, queue, actions, lost, keyVars, scan, hi, seen>>
  /\ Unchanged(<<>>)

WalkStep == WalkRoute \/ WalkQuery \/ WalkSkip \/ WalkLink \/ WalkAct
            \/ WalkReload \/ WalkAfter \/ WalkPassEnd \/ Finish("walk")

-----------------------------------------------------------------------------
(* keyboardWalk: Tab moves the focus, Enter activates what has it.          *)

Focusable(page) == {i \in Places(page) : site.controls[page.url][i].focus}
Holders(t) == {i \in Focusable(t.page) : site.controls[t.page.url][i].id = t.focus}
\* The element that has the focus, if one has.
Focused(t) == {site.controls[t.page.url][i] : i \in Holders(t)}

\* The focus one Tab further: past the last element it leaves the page, unless
\* the page traps it.
NextFocus(t) ==
  LET order == Focusable(t.page)
      after == {i \in order : \A j \in Holders(t) : j < i}
      stops == IF after # {} THEN after
               ELSE IF t.page.url \in site.traps THEN order ELSE {}
  IN  IF stops = {} THEN "none" ELSE site.controls[t.page.url][Min(stops)].id

KeyRoute == walking = "keys" /\ Route("blur")

\* The focus goes back to the top of the document.
KeyBlur ==
  /\ walking = "blur"
  /\ tab' = [tab EXCEPT !.focus = "none"]
  /\ walking' = "tab"
  /\ UNCHANGED <<pressed, crawlVars, keyVars, pageVars>>
  /\ Unchanged(<<>>)

\* One Tab.  No element has the focus then, or one of the same tag and label over
\* and over: that is the end of the page.
KeyTab ==
  LET told  == Record(tab, "keypress", tab.focus)
      moved == IF run.dryRun THEN told ELSE [told EXCEPT !.focus = NextFocus(told)]
      count(name) == IF name = streak.name THEN streak.n + 1 ELSE 1
  IN
  /\ walking = "tab" /\ tabs < TabCap /\ actions < budget
  /\ tab' = moved
  /\ tabs' = tabs + 1
  /\ \/ Focused(moved) = {} /\ walking' = "keys" /\ UNCHANGED streak
     \/ \E c \in Focused(moved) :
          /\ streak' = [name |-> c.name, n |-> count(c.name)]
          /\ walking' = IF count(c.name) > StreakCap THEN "keys" ELSE "focused"
  /\ UNCHANGED <<pressed, crawlVars, pageVars>>
  /\ Unchanged(<<>>)

\* Variant: the count of the page is started over.
KeyPageEndOver ==
  /\ walking = "tab" /\ (tabs >= TabCap \/ actions >= budget)
  /\ walking' = (IF actions >= budget THEN "keys" ELSE "tab")
  /\ tabs' = 0
  /\ UNCHANGED <<tab, pressed, crawlVars, streak, pageVars>>
  /\ Unchanged(<<>>)

KeyPageEnd ==
  /\ walking = "tab" /\ (tabs >= TabCap \/ actions >= budget)
  /\ walking' = "keys"
  /\ UNCHANGED <<tab, pressed, crawlVars, keyVars, pageVars>>
  /\ Unchanged(<<>>)

\* A page that changed meanwhile has taken the focus away: the key has no
\* effect, as it would on the body.
KeyGone ==
  /\ walking = "focused" /\ Focused(tab) = {}
  /\ tab' = Record(tab, "keypress", "none")
  /\ actions' = actions + 1
  /\ walking' = "entered"
  /\ UNCHANGED <<pressed, queue, owed, lost, keyVars, pageVars>>
  /\ Unchanged(<<>>)

\* Links are not activated, and passwords are not typed.
KeyPass ==
  /\ walking = "focused"
  /\ \E c \in Focused(tab) :
       /\ c.kind \in {"link", "hash", "password"}
       /\ IF c.kind = "link" /\ Internal(c.to) THEN Queued(c.to) ELSE UNCHANGED <<queue, lost>>
  /\ walking' = "tab"
  /\ UNCHANGED <<tab, pressed, actions, owed, keyVars, pageVars>>
  /\ Unchanged(<<>>)

\* Text is typed; Enter goes to everything else, whatever its label says.  (In
\* a dry run Tab is not pressed, and nothing ever has the focus.)
KeyAct ==
  /\ walking = "focused"
  /\ \E c \in Focused(tab) :
       /\ c.kind \in {"button", "text"}
       /\ tab' = Act(Record(tab, IF c.kind = "text" THEN "input" ELSE "keypress", c.id), c)
       /\ Press(c, "keyboard")
       /\ walking' = IF c.kind = "text" THEN "typed" ELSE "entered"
  /\ actions' = actions + 1
  /\ UNCHANGED <<queue, owed, lost, keyVars, pageVars>>
  /\ Unchanged(<<>>)

\* Escape, in case something opened; then, as after text, a page that moved is
\* left for its turn in the queue.
KeyAfter ==
  /\ walking \in {"entered", "typed"}
  /\ tab' = IF walking = "entered" THEN Record(tab, "keypress", "escape") ELSE tab
  /\ IF tab.page.url = url THEN walking' = "tab" /\ UNCHANGED <<queue, lost>>
     ELSE /\ walking' = "keys"
          /\ IF Internal(site.base[tab.page.url]) THEN Queued(site.base[tab.page.url])
             ELSE UNCHANGED <<queue, lost>>
  /\ UNCHANGED <<pressed, actions, owed, keyVars, pageVars>>
  /\ Unchanged(<<>>)

KeyStep == KeyRoute \/ KeyBlur \/ KeyTab \/ KeyPageEnd \/ KeyGone \/ KeyPass
           \/ KeyAct \/ KeyAfter \/ Finish("keys")

-----------------------------------------------------------------------------
(* Properties.                                                              *)

\* When the first pass over a page is through and the budget is not, every
\* in-place control the page shows by then has been acted on, or one with its
\* selectors, those that appeared only because another one was clicked included.
ControlsAreTried ==
  walking = "handle" /\ PassOver /\ pass = 0 /\ actions < budget /\ Prompt =>
    \A c \in Range(Visible(tab.page)) :
      c.kind \in {"button", "text"} /\ ~Denied(c) => c.sign \in seen

\* A crawl that ends before its budget does has asked for every page of the app
\* it met a link to, except for those a full queue turned away.  (A page that
\* does not load is not asked for again.)
LinksAreFollowed ==
  walking = "done" /\ actions < budget => owed \subseteq visited \cup lost

\* A trace says which page it was on: each action of the recording is preceded
\* by the navigation to its page, or the buffer has shifted that one out.  (A
\* target that did not load is no page.)
TraceSaysItsPage ==
  \A i \in DOMAIN tab.trace :
    LET moves == {k \in 1 .. i : tab.trace[k].type = "navigate"} IN
    IF moves = {} THEN tab.shifted \/ tab.trace[i].on = "blank"
    ELSE tab.trace[Max(moves)].what = tab.trace[i].on

\* As --help and the README say: without --allow-destructive no control on the
\* deny-list is activated.
DeniedAreRefused ==
  run.allowDestructive \/ \A p \in pressed : ~p.control.deny

=============================================================================
