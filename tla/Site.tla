-------------------------------- MODULE Site --------------------------------
(***************************************************************************)
(* The app under test as a crawler meets it, and the tab that shows it.    *)
(* The app is external: which controls a page has, what they do and how    *)
(* late is given by Apps.  The tab is what src/src/core/agent.ts wires to  *)
(* it: the listener that records where the page went, and the ring buffer  *)
(* of the recorder (src/src/core/recorder.ts).                             *)
(*                                                                         *)
(* A control has                                                           *)
(*   id     what it is, on its page                                        *)
(*   name   its label, by which the mapper and the keyboard walk tell it   *)
(*          from another                                                   *)
(*   sign   its selectors, by which walkDom does.  The two inputs of a     *)
(*          form, or the buttons of two rows with one text, have one       *)
(*          selector if they have no id: cssPathOf compares tagName, which *)
(*          is in upper case, and never gets to number the siblings        *)
(*   kind   "button", "text", "password", "link" or "hash"                 *)
(*   to     the URL it leads to, Here if it stays                          *)
(*   needs  when it is shown: "always", "token", "stranger" or "open"      *)
(*   sets   what it changes: "nothing", "token" or "open"                  *)
(*   late   whether that happens after the crawler's wait for it           *)
(*   deny   whether its label is on the DESTRUCTIVE list                   *)
(*   words  the risk words of its label                                    *)
(*   focus  whether it can have the keyboard focus                         *)
(*   calls  the URLs it fetches                                            *)
(* "open" stands for what a page shows beside its URL and its storage.     *)
(***************************************************************************)
EXTENDS Naturals, Sequences, SequencesExt, FiniteSets

CONSTANTS
  Apps,       \* the apps, by name
  Runs,       \* what may be asked for: an app, a behaviour and its options
  Capacity,   \* actions the recorder keeps; 25 in the code
  MaxLosses   \* bound: page loads that fail in a run

Here == ""

\* What an app is made of: URLs with their controls, and the paths there are, in
\* their order.
Requests(app) == [path : Range(app.order), query : BOOLEAN]

IsControl(app, c) ==
  /\ c.to \in {Here} \cup DOMAIN app.controls /\ c.calls \in Seq(Requests(app))
  /\ IsFiniteSet(c.words)

IsApp(app) ==
  LET urls == DOMAIN app.controls IN
  /\ Here \notin urls /\ {"blank", app.start} \cup app.internal \subseteq urls
  /\ app.order \in Seq(Range(app.order)) /\ app.risk \in [urls -> Nat]
  /\ \A u \in urls :
       /\ app.controls[u] \in Seq(Range(app.controls[u]))
       /\ \A i \in DOMAIN app.controls[u] : IsControl(app, app.controls[u][i])
       /\ app.base[u] \in urls \cap Range(app.order)
       /\ app.calls[u] \in Seq(Requests(app))

ASSUME SiteAssumption ==
  /\ Capacity \in Nat \ {0}
  /\ \A r \in Runs : /\ r.app \in DOMAIN Apps /\ r.budget \in Nat
                     /\ r.kind \in {"walk", "keyboard", "observe", "fuzz", "storm"}
  /\ \A a \in DOMAIN Apps : IsApp(Apps[a])

VARIABLES
  run,        \* the run: fixed from the start
  tab,        \* the page, what is still to come on it, and its recording
  pressed,    \* observation only: what was activated, and how
  losses      \* observation only: page loads that failed

\* The elements of a sequence at some of its places, in order.
Those(s, places) ==
  LET kept[n \in 0 .. Len(s)] ==
        IF n = 0 THEN <<>>
        ELSE IF n \in places THEN Append(kept[n - 1], s[n]) ELSE kept[n - 1]
  IN  kept[Len(s)]

Nothing == [kind |-> "nothing"]
site == Apps[run.app]

\* No page is late.
Prompt == \A u \in DOMAIN site.controls : \A i \in DOMAIN site.controls[u] :
            ~site.controls[u][i].late

Internal(url) == url \in site.internal

Url(path, query) == [path |-> path, query |-> query]
OwnOrigin(m) == m.path \notin site.foreign

Shown(c, page) ==
  CASE c.needs = "always"   -> TRUE
    [] c.needs = "token"    -> page.shown
    [] c.needs = "stranger" -> ~page.shown
    [] c.needs = "open"     -> page.open

\* What a query of the page's elements finds, in document order: the controls at
\* these places.
Places(page) ==
  LET all == site.controls[page.url] IN {i \in DOMAIN all : Shown(all[i], page)}
Visible(page) == Those(site.controls[page.url], Places(page))

\* A fresh document: it shows what the storage says, and nothing is open.
Load(page, url) == [url |-> url, stored |-> page.stored, shown |-> page.stored,
                    open |-> FALSE]

\* What a control makes of a page.  Leaving a URL by a click loads the other
\* one as far as a crawler can see.
Outcome(page, c) ==
  LET token  == page.stored \/ c.sets = "token"
      stayed == [page EXCEPT !.stored = token, !.shown = @ \/ c.sets = "token",
                             !.open = @ \/ c.sets = "open"]
  IN  IF c.to \in {Here, page.url} THEN stayed ELSE Load(stayed, c.to)

-----------------------------------------------------------------------------
(* The recording.                                                           *)

NewTab(url, wired) ==
  [page |-> [url |-> url, stored |-> FALSE, shown |-> FALSE, open |-> FALSE],
   coming |-> Nothing, wired |-> wired, trace |-> <<>>, lastNav |-> "",
   shifted |-> FALSE, focus |-> "none", entries |-> <<>>, issued |-> <<>>]

\* ActionRecorder.record; `on` is where the page was, for the properties.
Record(t, type, what) ==
  IF ~t.wired THEN t
  ELSE LET all == Append(t.trace, [type |-> type, what |-> what, on |-> t.page.url])
       IN  [t EXCEPT !.trace = IF Len(all) > Capacity THEN Tail(all) ELSE all,
                     !.shifted = @ \/ Len(all) > Capacity]

\* Variant: a URL that is in the recording already is not recorded again.
RecordMoveOnce(t) ==
  IF \E i \in DOMAIN t.trace : t.trace[i].what = t.page.url THEN t
  ELSE [Record(t, "navigate", t.page.url) EXCEPT !.lastNav = t.page.url]

\* The framenavigated listener: the second event of a pair is dropped.
RecordMove(t) ==
  IF t.page.url = t.lastNav THEN t
  ELSE [Record(t, "navigate", t.page.url) EXCEPT !.lastNav = t.page.url]

\* What the page fetches is among the document's `entries`; the listener keeps
\* the URLs of the app itself.
New(urls, known) == Those(urls, {i \in DOMAIN urls : urls[i] \notin Range(known)})
Own(urls) == Those(urls, {i \in DOMAIN urls : OwnOrigin(urls[i])})
Fetch(t, urls) ==
  IF ~t.wired THEN t
  ELSE [t EXCEPT !.entries = @ \o New(urls, @),
                 !.issued = @ \o New(Own(urls), @)]

\* A document, and what it fetches as it loads.
FetchDocument(t, url) ==
  LET asked == Fetch(t, <<Url(site.base[url], FALSE)>>)
  IN  Fetch([asked EXCEPT !.entries = <<>>], site.calls[url])

\* The page is another one: what was to come on the old document is off, and
\* so is the focus if the document is new.
Commit(t, page) ==
  LET moved == page.url # t.page.url
      fresh == site.base[page.url] # site.base[t.page.url]
      at    == [t EXCEPT !.page = page,
                         !.coming = IF moved THEN Nothing ELSE @,
                         !.focus = IF moved THEN "none" ELSE @]
  IN  RecordMove(IF fresh THEN FetchDocument(at, page.url) ELSE at)

\* goto and reload.
Loaded(t, url) ==
  FetchDocument(
    RecordMove([t EXCEPT !.page = Load(@, url), !.coming = Nothing, !.focus = "none"]),
    url)

\* An action that may change the page: now, or after the wait for it.
Act(t, c) ==
  IF c.late THEN [t EXCEPT !.coming = c]
  ELSE Commit(Fetch(t, c.calls), Outcome(t.page, c))

\* What a late control does to the page it was on.
Arrive ==
  /\ tab.coming # Nothing
  /\ tab' = Commit(Fetch([tab EXCEPT !.coming = Nothing], tab.coming.calls),
                   Outcome(tab.page, tab.coming))
  /\ UNCHANGED <<run, pressed, losses>>

\* goto(url).catch(() => {}): a page that does not load leaves the tab as it is.
Goto(t, url) ==
  \/ tab' = Loaded(t, url) /\ losses' = losses
  \/ losses < MaxLosses /\ losses' = losses + 1 /\ tab' = t

=============================================================================
