------------------------------- MODULE Fuzzer -------------------------------
(***************************************************************************)
(* Two more behaviours: observe (src/src/core/observe.ts), which crawls    *)
(* and does not act, and fuzz (src/src/core/fuzzer.ts), which acts at      *)
(* random on one page.  Which control it prefers is coverage guidance: any *)
(* choice is one it may make.                                              *)
(***************************************************************************)
EXTENDS Walker

LookRoute == walking = "look" /\ Route("watch")

\* collectInternalLinks, after the page was watched: every link it has.
LookLinks ==
  LET all   == site.controls[tab.page.url]
      links == Those(all, {i \in Places(tab.page) : all[i].kind = "link" /\ Internal(all[i].to)
                                                    /\ all[i].to \notin visited})
      room  == QueueCap - Len(queue)
      taken == SubSeq(links, 1, Min({room, Len(links)}))
  IN
  /\ walking = "watch"
  /\ queue' = queue \o [i \in DOMAIN taken |-> taken[i].to]
  /\ owed' = owed \cup {links[i].to : i \in DOMAIN links}
  /\ lost' = lost \cup {links[i].to : i \in DOMAIN links \ DOMAIN taken}
  /\ actions' = actions + 1
  /\ walking' = "look"
  /\ UNCHANGED <<tab, pressed, keyVars, pageVars>>
  /\ Unchanged(<<>>)

LookStep == LookRoute \/ LookLinks \/ Finish("look")

-----------------------------------------------------------------------------
(* fuzz.  `hi` counts the turns.                                            *)

Turn(done) ==
  /\ hi' = hi + 1
  /\ actions' = IF done THEN actions + 1 ELSE actions
  /\ walking' = "turn"
  /\ UNCHANGED <<queue, owed, lost, keyVars, pass, scan, seen>>
  /\ Unchanged(<<>>)

\* A turn starts on the page the fuzzer was given.
FuzzHome ==
  /\ walking = "turn" /\ hi <= budget
  /\ IF tab.page.url = url THEN UNCHANGED <<tab, losses>> ELSE Goto(tab, url)
  /\ walking' = "fuzz"
  /\ UNCHANGED <<run, pressed, crawlVars, pageVars, keyVars>>

FuzzScroll ==
  /\ walking = "fuzz"
  /\ tab' = Record(tab, "scroll", "page")
  /\ Turn(TRUE) /\ UNCHANGED pressed

Actionable ==
  {c \in Range(Visible(tab.page)) : /\ ~Denied(c) /\ c.kind # "password"
                                    /\ c.kind = "link" => Internal(c.to)}

FuzzFill ==
  /\ walking = "fuzz"
  /\ \E c \in Actionable :
       /\ c.kind = "text"
       /\ LET told == Record(tab, "input", c.id)
          IN  IF run.dryRun THEN tab' = told /\ UNCHANGED pressed
              ELSE /\ tab' = Act([told EXCEPT !.focus = c.id], c)
                   /\ Press(c, "pointer")
  /\ Turn(TRUE)

\* A click, and with it the focus.
FuzzClick ==
  /\ walking = "fuzz"
  /\ \E c \in Actionable :
       /\ c.kind # "text"
       /\ LET told == Record(tab, "click", c.id)
          IN  IF run.dryRun THEN tab' = told /\ UNCHANGED pressed
              ELSE /\ tab' = Act([told EXCEPT !.focus = IF c.focus THEN c.id ELSE @], c)
                   /\ Press(c, "pointer")
  /\ Turn(TRUE)

FuzzHover ==
  /\ walking = "fuzz"
  /\ \E c \in Actionable : tab' = Record(tab, "hover", c.id)
  /\ Turn(TRUE) /\ UNCHANGED pressed

\* A key goes to what has the focus.  focus() on an element that cannot have it
\* does nothing, and is no error.
FuzzKey ==
  /\ walking = "fuzz"
  /\ \E c \in Actionable, key \in {"Enter", "Tab", "Escape"} :
       LET told == Record(tab, "keypress", c.id)
           held == [told EXCEPT !.focus = IF c.focus THEN c.id ELSE @]
           hit  == {x \in Focused(held) : x.kind \in {"button", "link", "hash"}}
       IN  IF run.dryRun THEN tab' = told /\ UNCHANGED pressed
           ELSE IF key = "Tab" THEN tab' = [held EXCEPT !.focus = NextFocus(held)]
                                    /\ UNCHANGED pressed
           ELSE IF key = "Enter" /\ hit # {}
           THEN \E x \in hit : tab' = Act(held, x) /\ Press(x, "keyboard")
           ELSE tab' = held /\ UNCHANGED pressed
  /\ Turn(TRUE)

\* Nothing to act on, or the budget of turns is spent.
FuzzEnd ==
  /\ \/ walking = "fuzz" /\ Actionable = {}
     \/ walking = "turn" /\ hi > budget
  /\ walking' = "done"
  /\ UNCHANGED <<run, tab, pressed, losses, crawlVars, pageVars, keyVars>>

\* The query for the elements is not guarded: in the middle of a navigation it
\* throws, and the mission is lost.
FuzzThrows ==
  /\ walking = "fuzz" /\ tab.coming # Nothing
  /\ walking' = "thrown"
  /\ UNCHANGED <<run, tab, pressed, losses, crawlVars, pageVars, keyVars>>

FuzzStep == FuzzHome \/ FuzzScroll \/ FuzzFill \/ FuzzClick \/ FuzzHover
            \/ FuzzKey \/ FuzzEnd \/ FuzzThrows

=============================================================================
