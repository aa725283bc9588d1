------------------------------ MODULE MCCrawl -------------------------------
(***************************************************************************)
(* Small apps for Crawl, and what is asked of them.                        *)
(***************************************************************************)
EXTENDS Crawl, TLC

Button(id) == [id |-> id, name |-> id, sign |-> id, kind |-> "button", to |-> Here, needs |-> "always",
               sets |-> "nothing", late |-> FALSE, deny |-> FALSE, words |-> {},
               focus |-> TRUE, calls |-> <<>>]
Link(id, to) == [Button(id) EXCEPT !.kind = "link", !.to = to]

Login  == [Button("login") EXCEPT !.needs = "stranger", !.sets = "token", !.words = {"login"}]
Menu   == [Button("menu") EXCEPT !.sets = "open",
                                 !.calls = <<Url("/api", TRUE), Url("/api/pay", FALSE)>>]
Delete == [Button("delete") EXCEPT !.needs = "open", !.deny = TRUE, !.words = {"delete"}]
Undo   == [Button("undo") EXCEPT !.needs = "open",
                                 !.calls = <<Url("cdn", FALSE), Url("/api/undo", FALSE)>>]
Card   == [Button("card") EXCEPT !.focus = FALSE]
Search == [Button("search") EXCEPT !.kind = "text"]
\* Another field of the form, and another row of the list: what they do is their
\* own, their selectors are not.
Filter == [Search EXCEPT !.id = "filter", !.name = "filter"]
Undo2  == [Undo EXCEPT !.id = "undo2", !.to = "/saved", !.calls = <<>>]
Pin    == [Button("pin") EXCEPT !.kind = "password"]
Tab2   == [Button("tab2") EXCEPT !.kind = "hash", !.to = "/#2"]
Admin  == [Link("admin", "/admin") EXCEPT !.needs = "token", !.words = {"admin"}]
Save   == [Button("save") EXCEPT !.to = "/saved", !.late = TRUE]

Site3(start, controls, internal, traps) ==
  LET pages == [u \in DOMAIN controls \cup {"blank"} |->
                  IF u = "blank" THEN <<>> ELSE controls[u]]
  IN  [start |-> start, controls |-> pages, internal |-> internal, traps |-> traps,
       calls |-> [u \in DOMAIN pages |-> IF u = start THEN <<Url("/app.js", FALSE)>>
                                         ELSE IF u = "/a" THEN <<Url("/api", FALSE)>> ELSE <<>>],
       foreign |-> {"blank", "ext", "cdn"}, static |-> {"/app.js"}, risky |-> {"/admin", "/api/pay"},
       order |-> <<"/", "/a", "/admin", "/api", "/api/pay", "/api/undo", "/app.js", "/b", "/help",
                   "/saved", "blank", "cdn", "ext">>,
       breaks |-> {"/api", "/api/undo"} \X {"rewrite", "post", "headers"},
       base |-> [u \in DOMAIN pages |-> IF u = "/#2" THEN "/" ELSE u],
       risk |-> [u \in DOMAIN pages |-> IF u = "/admin" THEN 1 ELSE 0]]

\* A shop: the admin page shows to whoever is logged in, and a menu opens in
\* place.
Shop == Site3("/",
  ("/"      :> <<Login, Menu, Delete, Undo, Admin, Tab2>>) @@
  ("/#2"    :> <<Search, Link("home", "/")>>) @@
  ("/admin" :> <<Card, Menu, Delete, Pin>>),
  {"/", "/#2", "/admin"}, {})

\* A manual: more links than the queue takes, one of them to somebody else, and
\* a button that leads on after a while.
Manual == Site3("/",
  ("/"      :> <<Save, Link("a", "/a"), Link("b", "/b"), Link("other", "ext"), Link("c", "/saved")>>) @@
  ("/a"     :> <<Search, Link("home", "/")>>) @@
  ("/b"     :> <<Save, Menu, Undo, Undo2>>) @@
  ("/saved" :> <<Link("a", "/a")>>) @@
  ("ext"    :> <<Menu>>),
  {"/", "/a", "/b", "/saved"}, {})

\* A form whose menu opens late, and a page of links that traps the focus.
Form == Site3("/",
  ("/"     :> <<[Menu EXCEPT !.late = TRUE], Link("help", "/help"), Search, Filter, Card,
                [Button("out") EXCEPT !.to = "ext"], Delete>>) @@
  ("/help" :> <<Link("form", "/"), Tab2>>) @@
  ("/#2"   :> <<Delete>>) @@
  ("ext"   :> <<Menu>>),
  {"/", "/help", "/#2"}, {"/help"})

MCApps == [shop |-> Shop, manual |-> Manual, form |-> Form]

Ask(app, kind) == [app |-> app, kind |-> kind,
                   budget |-> IF kind = "fuzz" THEN 3 ELSE 6, graph |-> FALSE, chaos |-> FALSE,
                   dryRun |-> FALSE, allowDestructive |-> FALSE,
                   http |-> FALSE, mutations |-> FALSE, allowed |-> TRUE]

\* With --http-fuzz, and storms of their own.  A budget of 9 is more than the
\* storm after a walk of the shop needs, and less than one with mutations does.
MCStorms ==
  {[Ask(app, kind) EXCEPT !.http = TRUE, !.budget = 9] :
     app \in {"shop", "manual"}, kind \in {"walk", "observe"}}
    \cup {[Ask("shop", "fuzz") EXCEPT !.http = TRUE, !.mutations = TRUE],
          [Ask("form", "walk") EXCEPT !.http = TRUE, !.dryRun = TRUE],
          [Ask("form", "observe") EXCEPT !.http = TRUE, !.allowed = FALSE]}
    \cup {[Ask(app, "storm") EXCEPT !.budget = 9] : app \in DOMAIN MCApps}
    \cup {[Ask("shop", "storm") EXCEPT !.allowDestructive = TRUE],
          [Ask("manual", "storm") EXCEPT !.dryRun = TRUE]}

MCRuns ==
  {Ask(app, kind) : app \in DOMAIN MCApps, kind \in {"walk", "keyboard", "observe", "fuzz"}}
    \cup {[Ask(app, kind) EXCEPT !.graph = TRUE] : app \in {"shop", "manual"}, kind \in {"walk", "observe"}}
    \cup {[Ask("form", "walk") EXCEPT !.chaos = TRUE], [Ask("shop", "walk") EXCEPT !.allowDestructive = TRUE],
          [Ask("shop", "walk") EXCEPT !.dryRun = TRUE, !.chaos = TRUE],
          [Ask("form", "keyboard") EXCEPT !.dryRun = TRUE], [Ask("form", "fuzz") EXCEPT !.dryRun = TRUE]}
    \cup MCStorms

\* The walks with the keyboard alone.
MCKeyRuns == {r \in MCRuns : r.kind = "keyboard"}

=============================================================================
