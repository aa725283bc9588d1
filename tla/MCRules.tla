------------------------------ MODULE MCRules -------------------------------
(***************************************************************************)
(* Program texts and apps for Rules.  Every text states a fee, a machine,  *)
(* or both, in one or more places; every app may or may not do as it says. *)
(***************************************************************************)
EXTENDS Rules

SlotOrder == <<"attr", "text">>

Other == [is |-> "other", name |-> ""]
Const(v) == [is |-> "const", name |-> "FREE", value |-> v]
FeeRule(const) == [is |-> "rule", name |-> "total", op |-> ">=", const |-> const, value |-> 50, sets |-> 0]
Row(name, kind, key, items) == [is |-> "row", name |-> name, kind |-> kind, key |-> key, items |-> items]
To(event, s) == [event |-> event, to |-> s]

\* { open: { pay: "paid" }, paid: { void: "open" } }
Actions == <<Row("orders", "obj", "open", {To("pay", "paid")}), Row("orders", "obj", "paid", {To("void", "open")})>>
\* { open: ["paid"], paid: [] }
Lists   == <<Row("orders", "arr", "open", {To("paid", "paid")}), Row("orders", "arr", "paid", {})>>
\* { open: { pay: "paid", note: "open" }, paid: { void: "open" } }: a note may always
\* be made of an open order, and moves nothing.
Notes   == <<Row("orders", "obj", "open", {To("pay", "paid"), To("note", "open")}),
             Row("orders", "obj", "paid", {To("void", "open")})>>
\* { open: { pay: "paid" }, paid: ["open"] } is no machine.
Mixed   == <<Row("orders", "obj", "open", {To("pay", "paid")}), Row("orders", "arr", "paid", {To("open", "open")})>>

Script(kind, own, loads, text) == [kind |-> kind, sameOrigin |-> own, loads |-> loads, file |-> "s.js", text |-> text]
File(code, text) == [code |-> code, readable |-> TRUE, text |-> text]
NoRepo == [git |-> FALSE, diff |-> <<>>, listsUntracked |-> FALSE, untracked |-> <<>>, walk |-> <<>>,
           files |-> [f \in {"a.ts", "b.ts", "c.md"} |-> File(FALSE, <<>>)]]
Raw(is) == [is |-> is, file |-> "", at |-> 0]
DiffOf(file, start, marks) ==
  <<Raw("diff"), [Raw("+++") EXCEPT !.file = file], [Raw("@@") EXCEPT !.at = start]>>
    \o [n \in DOMAIN marks |-> Raw(marks[n])]

Served(text) == <<Script("vendor", TRUE, TRUE, <<Other>>), Script("app", FALSE, TRUE, <<FeeRule("")>>),
                  Script("inline", TRUE, TRUE, <<Other>>), Script("app", TRUE, TRUE, text)>>
NoNews == [f \in {} |-> {}]
Text(scripts, repo, diff, local, news) ==
  [scripts |-> scripts, repo |-> repo, asks |-> [diff |-> diff, repo |-> local], news |-> news]

\* The page serves the machine; the change is the constant of the fee, in a file
\* that states the machine too.
FeeFile == <<Const(50), Other, FeeRule("FREE")>> \o Actions
ChangedConst ==
  Text(Served(Actions \o <<FeeRule("FREE")>>),
       [NoRepo EXCEPT !.git = TRUE, !.walk = <<"c.md", "a.ts">>, !.files["a.ts"] = File(TRUE, FeeFile),
                      !.diff = DiffOf("a.ts", 1, <<"-", "+">>)],
       TRUE, TRUE, [f \in {"a.ts"} |-> {1}])
\* A row of the machine is changed, and the page serves all of it.
ChangedRow(rows) ==
  Text(Served(<<FeeRule("")>> \o rows),
       [NoRepo EXCEPT !.git = TRUE, !.files["b.ts"] = File(TRUE, <<FeeRule("")>> \o rows),
                      !.diff = DiffOf("b.ts", 3, <<"-", "+", "\\">>) \o DiffOf("/dev/null", 0, <<"-">>)],
       TRUE, FALSE, [f \in {"b.ts"} |-> {3}])
\* A file git does not track yet.
NewFile ==
  Text(<<>>, [NoRepo EXCEPT !.git = TRUE, !.listsUntracked = TRUE, !.untracked = <<"c.md", "b.ts">>,
                            !.files["b.ts"] = File(TRUE, <<FeeRule("")>>)],
       TRUE, FALSE, [f \in {"b.ts"} |-> {1}])
\* No repository to ask.
OnlyServed(rows) == Text(Served(rows), NoRepo, TRUE, TRUE, NoNews)

TableOf(rows) == AsTransitionTable("orders", rows)
App(table, rows, look) ==
  [table |-> table, rows |-> rows, starts |-> [e \in ToSet(rows) |-> "open"], alike |-> TRUE, look |-> look,
   leaks |-> FALSE, wired |-> {e.intent : e \in table.edges} \cup ToSet(table.states), offers |-> "all",
   fee |-> "right", input |-> TRUE, clamps |-> FALSE]
Look(a, b) == [slot \in {"attr", "text"} |-> IF slot = "attr" THEN a ELSE b]
World(text, a, dry) ==
  [app |-> a, scripts |-> text.scripts, repo |-> text.repo, asks |-> text.asks, news |-> text.news, dryRun |-> dry]

\* The fee: typed, clamped, right or wrong, or not on the page.
FeeApps == {[App(TableOf(Actions), <<1>>, Look("entity", "entity")) EXCEPT !.fee = f, !.clamps = c, !.input = i] :
              f \in {"right", "strict"}, c \in BOOLEAN, i \in BOOLEAN}
\* One order on the page, alone or shown twice, or the first regions of two.
Single(rows) ==
  {[App(TableOf(rows), r, Look("entity", "entity")) EXCEPT !.leaks = l, !.offers = o, !.wired = @ \ w,
                                                          !.alike = FALSE] :
     r \in {<<1>>, <<1, 1>>, <<1, 2>>}, l \in BOOLEAN, o \in {"all", "legal", "none"}, w \in {{}, {"void", "open"}}}
\* A list of orders, told apart by one slot or two. A value that goes with the
\* position may come first: the order's own then vouches for it. Or it comes alone,
\* or behind the order's own, and confirms whatever is in its place.
List(rows, ents, looks) ==
  {[App(TableOf(rows), ents, look) EXCEPT !.leaks = l, !.offers = o, !.starts[ents[1]] = s] :
     look \in looks, l \in BOOLEAN, o \in {"all", "legal"}, s \in {"open", "paid"}}
Positional == {Look("position", "same"), Look("entity", "position")}
Looks2 == {Look("position", "entity"), Look("count", "entity"), Look("entity", "entity"), Look("count", "same")}

SmallWorlds ==
  {World(text, a, FALSE) : text \in {ChangedConst, NewFile}, a \in FeeApps}
  \cup {World(OnlyServed(rows), a, FALSE) : rows \in {Mixed}, a \in Single(Actions)}
  \cup UNION {{World(text, a, FALSE) : text \in {ChangedRow(rows), OnlyServed(rows)}, a \in Single(rows)} :
                rows \in {Actions, Lists, Notes}}
  \cup UNION {{World(ChangedRow(rows), a, FALSE) : a \in List(rows, <<1, 2>>, Looks2)} : rows \in {Actions, Lists}}
  \cup {World(ChangedRow(Actions), a, FALSE) : a \in List(Actions, <<1, 2>>, Positional)}
  \cup {World(ChangedRow(Actions), App(TableOf(Actions), <<1, 2>>, Look("entity", "same")), TRUE)}
ThreeOrders == {World(ChangedRow(Actions), a, FALSE) : a \in {b \in List(Actions, <<1, 2, 3>>, {Look("position", "entity")}) : b.offers = "all"}}
TheWorlds == SmallWorlds \cup ThreeOrders

=============================================================================
