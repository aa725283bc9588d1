-------------------------------- MODULE Rules -------------------------------
(***************************************************************************)
(* Invariant discovery (core/discovery/runtime.ts, drivers.ts): read the   *)
(* rules the program text states, tie each to the page, bring the page to  *)
(* the states the plan asks for, judge what it shows, and repeat what      *)
(* looks like a violation.  The page moves under the experiment: regions   *)
(* are re-ordered, vanish or are reused for another thing, an answer comes *)
(* late, a reading fails.                                                  *)
(***************************************************************************)
EXTENDS Plan, Entities

CONSTANTS
  Worlds,         \* program texts and apps: see MCRules
  MaxCandidates,  \* the mission's budget
  MaxNoise,       \* disturbances in a run: see `noise`
  MaxRerenders    \* times the list is rendered anew, in a run

ASSUME RulesAssumption == MaxCandidates \in Nat /\ MaxNoise \in Nat /\ MaxRerenders \in Nat

VARIABLES
  world,     \* the text and the app, never changed: see MCRules
  order,     \* what the page lists, in document order
  st,        \* the state of each thing listed
  late,      \* a move of the app that has not landed: [ent, next], or NoMove
  shown,     \* the figure the numeric readout last showed
  noise,     \* late answers, moves of other visitors, and renderings that mislead
  rerenders,
  pc, cands, at,       \* candidates attempted, and which is next
  traces,              \* what is reported of each
  plan, k, replaying,  \* the plan being driven, its state, whether once more
  obs,                 \* observations of this candidate
  scoped, listeners,   \* the session: bound inside entities; dialog handlers on the page
  spec, path, cur,     \* one drive: the entity, the setup left, the state read
  picked, seen,        \* what the entity was, and all that was read for it
  tagged,              \* what the node that was found for a click belongs to by now
  clicked, astray      \* all that was clicked; whether a tagged node was reused

pageVars    == <<order, st, late, shown, noise, rerenders>>
driveVars   == <<spec, path, cur, picked, seen, tagged, clicked, astray>>
sessionVars == <<plan, k, replaying, obs, scoped>>
vars == <<world, pageVars, pc, cands, at, traces, sessionVars, listeners, driveVars>>

NoMove == [ent |-> 0, next |-> None]
app    == world.app
Rule   == cands[at].rule
Table  == cands[at].table

\* The page as it is now.
Value(slot, pos, e) ==
  CASE app.look[slot] = "entity"   -> 50 + e
    [] app.look[slot] = "position" -> 10 + pos
    [] app.look[slot] = "count"    -> pos
    [] OTHER                       -> 7
Page == [n \in DOMAIN order |->
           [ent |-> order[n], state |-> st[order[n]],
            vals |-> [slot \in ToSet(Slots) |-> Value(slot, n, order[n])]]]

\* What the app does when a move is tried, and which moves it shows.
Declared(s, intent) == {e \in app.table.edges : e.from = s /\ e.intent = intent}
Elsewhere(s, intent) == IF app.table.form = "successor-list" THEN {intent} ELSE ToSet(app.table.states) \ {s}
Moved(s, intent) ==
  IF intent \notin app.wired THEN {s}
  ELSE IF Declared(s, intent) # {} THEN {e.next : e \in Declared(s, intent)}
  ELSE IF app.leaks THEN Elsewhere(s, intent) ELSE {s}
Intents == {e.intent : e \in app.table.edges}
Offered(s) ==
  CASE app.offers = "all"   -> Intents
    [] app.offers = "legal" -> {e.intent : e \in {f \in app.table.edges : f.from = s}}
    [] OTHER -> {}

\* What the app charges: as the text says, or off by one at the threshold.
Fee(rule, v) ==
  LET applies == IF app.fee = "right" THEN Holds(rule.op, v, rule.value)
                 ELSE Holds(rule.op, v, rule.value) /\ v # rule.value
  IN  IF applies THEN rule.sets ELSE rule.sets + 5
TypedIn(rule, v) == IF app.clamps THEN Max({v, rule.value}) ELSE v

-----------------------------------------------------------------------------
\* Served text, or none if the page cannot be asked, then what the caller
\* collected; the budget cuts the rest.
Candidates(w, scripts) ==
  FirstOf(InferFromEvidence(ServedJs(scripts) \o LocalEvidence(w.repo, w.asks)), MaxCandidates)

\* What the worlds may be.  A text tells the truth about the moves it allows; the
\* app may have others.  An action may be allowed that leaves the state alone.
IsPage(a) == a.rows \in Seq(Nat) /\ a.starts \in [ToSet(a.rows) -> ToSet(a.table.states)]
IsMachine(table) ==
  /\ table.form \in {"action-map", "successor-list"}
  /\ \A e \in table.edges :
       /\ {e.from, e.next} \subseteq ToSet(table.states)
       /\ table.form = "successor-list" => e.intent = e.next
       /\ \A f \in table.edges : f.from = e.from /\ f.intent = e.intent => f.next = e.next

\* A text is a list of lines, each row of a table with as many items as it has;
\* and `news`, the lines that are new, is what the diff of the repository says, in
\* no more files than are read.
IsText(text) ==
  /\ text \in Seq(ToSet(text))
  /\ \A j \in DOMAIN text : text[j].is = "row" => IsFiniteSet(text[j].items)
IsRepo(repo, news) ==
  LET changed == {DiffChunk(f, repo.files[f].text, news[f]) : f \in DOMAIN news} IN
  /\ repo.walk \in Seq(DOMAIN repo.files)
  /\ \A f \in DOMAIN repo.files : IsText(repo.files[f].text)
  /\ DOMAIN news \subseteq DOMAIN repo.files
  /\ GitDiff(repo).chunks \in Seq(changed) /\ ToSet(GitDiff(repo).chunks) = changed

ASSUME WorldsAssumption ==
  \A w \in Worlds :
    /\ IsPage(w.app) /\ IsMachine(w.app.table) /\ IsRepo(w.repo, w.news)
    /\ w.scripts \in Seq(ToSet(w.scripts)) /\ \A s \in ToSet(w.scripts) : IsText(s.text)
    /\ \A scripts \in {w.scripts, <<>>} : \A c \in ToSet(Candidates(w, scripts)) :
         c.rule.family = "transition" => c.table = w.app.table

Init ==
  /\ world \in Worlds
  /\ cands \in {Candidates(world, scripts) : scripts \in {world.scripts, <<>>}}
  /\ order = world.app.rows /\ st = world.app.starts /\ late = NoMove /\ shown = NoFigure
  /\ noise = 0 /\ rerenders = 0
  /\ pc = "next" /\ at = 1 /\ traces = <<>>
  /\ plan = <<>> /\ k = 1 /\ replaying = FALSE /\ obs = <<>>
  /\ scoped = FALSE /\ listeners = 0
  /\ spec = NoSpec /\ path = <<>> /\ cur = None /\ picked = 0
  /\ seen = {} /\ tagged = {} /\ clicked = {} /\ astray = FALSE

DriveOver == /\ spec' = NoSpec /\ path' = <<>> /\ cur' = None /\ picked' = 0
             /\ seen' = {} /\ tagged' = {} /\ clicked' = {} /\ astray' = FALSE

\* finish(): one candidate, one trace; what belongs to it is dropped.
Finish(verdict, why) ==
  /\ traces' = Append(traces, [rule |-> Rule, verdict |-> verdict, why |-> why, noise |-> noise'])
  /\ at' = at + 1 /\ pc' = "next"
  /\ plan' = <<>> /\ k' = 1 /\ replaying' = FALSE /\ obs' = <<>> /\ scoped' = FALSE
  /\ DriveOver

PlanNext ==
  /\ pc = "next"
  /\ UNCHANGED <<world, pageVars, cands, listeners>>
  /\ IF at \notin DOMAIN cands
     THEN pc' = "end" /\ UNCHANGED <<at, traces, sessionVars, driveVars>>
     ELSE LET p == PlanExperiment(cands[at])
          IN  IF p = <<>> THEN Finish("unknown", "planning")
              ELSE /\ plan' = p /\ pc' = "bind"
                   /\ UNCHANGED <<at, traces, k, replaying, obs, scoped, driveVars>>

-----------------------------------------------------------------------------
(* Binding: what the rule names must be on the page, once. *)

Bound(inside) ==
  IF world.dryRun THEN Finish("unknown", "dry run")
  ELSE /\ pc' = "drive" /\ scoped' = inside
       /\ UNCHANGED <<at, traces, plan, k, replaying, obs, driveVars>>

\* locateField: exactly one control and one readout match the rule's names best.
Located == app.input

BindNumericBoundary ==
  /\ pc = "bind" /\ Rule.family = "numeric"
  /\ UNCHANGED <<world, pageVars, cands, listeners>>
  /\ IF Located THEN Bound(FALSE) ELSE Finish("unknown", "binding")

\* Enough of the machine's moves must be offered by one and the same thing:
\* two, or all there are.
MovesOf(table) == IF table.form = "action-map" THEN {e.intent : e \in table.edges} ELSE ToSet(table.states)
Needed(table)  == Min({Cardinality(MovesOf(table)), 2})
Linked(s)      == Cardinality(Offered(s) \cap MovesOf(Table))

\* A page that is one thing must also offer the very action in question; a
\* list page that offers too little is looked at again as a new visitor.
FreshStates == {st, app.starts}
Looks == IF Table.form = "action-map" \/ Linked(st[order[1]]) >= Needed(Table) THEN {st} ELSE FreshStates
LinkedAsOne(s) == /\ Linked(s[order[1]]) >= Needed(Table)
                  /\ Table.form = "action-map" => Rule.intent \in Offered(s[order[1]])

\* The handler that accepts dialogs goes on the page once it is bound.
BindStateTransition ==
  /\ pc = "bind" /\ Rule.family = "transition"
  /\ UNCHANGED <<world, order, late, shown, noise, rerenders, cands>>
  /\ LET mode == Mode(Page, app.alike)
         best == \E n \in DOMAIN order : Linked(st[order[n]]) >= Needed(Table)
         OnPage(inside) == listeners' = listeners + 1 /\ Bound(inside)
         Unbound == UNCHANGED listeners /\ Finish("unknown", "binding")
     IN  CASE mode = "entities" -> st' = st /\ IF best THEN OnPage(TRUE) ELSE Unbound
           [] mode = "single"   -> \E s \in Looks : st' = s /\ IF LinkedAsOne(s) THEN OnPage(FALSE) ELSE Unbound
           [] OTHER             -> st' = st /\ Unbound

-----------------------------------------------------------------------------
(* What becomes of a drive: a failed one, or what was shown before and after. *)

Failed == [failed |-> TRUE, before |-> None, after |-> None]
Ran(b, a) == [failed |-> FALSE, before |-> b, after |-> a]
Reads(state, number) == [state |-> state, input |-> number, number |-> number]

Planned == plan[k]
Judged(run) ==
  IF run.failed \/ ~Observable(Rule, run.after) THEN "unknown"
  ELSE Evaluate(Rule, run.before, run.after)
Observation(run) ==
  [label |-> Planned.label, applicable |-> Planned.applicable, failed |-> run.failed,
   readable |-> ~run.failed /\ Observable(Rule, run.after),
   verdict |-> Judged(run), reproduced |-> FALSE,
   moved |-> ~run.failed /\ run.after.state # None /\ run.after.state \in Planned.mustReach]

Advance == /\ k' = k + 1 /\ replaying' = FALSE
           /\ pc' = IF k = Len(plan) THEN "restore" ELSE "drive"

\* Variant: one sighting counts as reproduced.
DeliverUnreplayed(run) ==
  /\ obs' = Append(obs, [Observation(run) EXCEPT !.reproduced = Judged(run) = "violated"])
  /\ Advance /\ DriveOver
  /\ UNCHANGED <<world, cands, at, traces, plan, scoped, listeners>>

\* What violates is driven once more before it counts.
Deliver(run) ==
  /\ IF replaying
     THEN obs' = [obs EXCEPT ![Len(obs)].reproduced = Judged(run) = "violated"] /\ Advance
     ELSE /\ obs' = Append(obs, Observation(run))
          /\ IF Judged(run) = "violated" THEN replaying' = TRUE /\ pc' = "drive" /\ k' = k ELSE Advance
  /\ DriveOver
  /\ UNCHANGED <<world, cands, at, traces, plan, scoped, listeners>>

\* A number is typed and the readout read when it has stopped moving. The value
\* the input then holds is what counts; a slow update shows the old figure. An update
\* that is slower than the wait in every run is a late answer in each of them.
DriveNumeric ==
  /\ pc = "drive" /\ Rule.family = "numeric"
  /\ UNCHANGED <<order, st, late, rerenders>>
  /\ \/ UNCHANGED <<shown, noise>> /\ Deliver(Failed)
     \/ LET v == TypedIn(Rule, Planned.value) IN
        /\ shown' = Fee(Rule, v)
        /\ \/ UNCHANGED noise /\ \E figure \in {Fee(Rule, v), NoFigure} :
                Deliver(Ran([state |-> None, input |-> v], [state |-> None, number |-> figure]))
           \/ noise < MaxNoise /\ noise' = noise + 1 /\ shown # NoFigure
              /\ Deliver(Ran([state |-> None, input |-> v], [state |-> None, number |-> shown]))

-----------------------------------------------------------------------------
(* Driving a move. Every reading looks for its entity anew; a click does too, *)
(* and then waits for the node it has found.                                 *)

\* Where the session looks: one entity of the list, or the whole page.
InScope == IF spec # NoSpec THEN Resolve(Page, spec)
           ELSE {n \in DOMAIN Page : Mode(Page, app.alike) = "single" /\ n = 1}

\* settledState(): the state shown there, or nothing.
Readable(r)  == r = None \/ \E n \in InScope : Page[n].state = r
ReadFrom(r)  == {Page[n].ent : n \in {m \in InScope : Page[m].state = r}}

GiveUp == UNCHANGED pageVars /\ Deliver(Failed)

\* The entity that needs the least setup, the first such in the list.
PickEntity ==
  /\ pc = "drive" /\ Rule.family = "transition" /\ scoped
  /\ LET Setup(n) == Routes(Table, Page[n].state, Planned.in)
         able  == {n \in DOMAIN Page : Setup(n) # {}}
         Steps(n) == Len(CHOOSE p \in Setup(n) : TRUE)
         least == {n \in able : \A m \in able : Steps(n) < Steps(m) \/ (Steps(n) = Steps(m) /\ n <= m)}
     IN  IF Mode(Page, app.alike) # "entities" \/ able = {} THEN GiveUp
         ELSE /\ \E n \in least : spec' = SpecOf(Page, n) /\ picked' = Page[n].ent
              /\ pc' = "first"
              /\ UNCHANGED <<world, pageVars, cands, at, traces, sessionVars, listeners, path, cur, seen, tagged, clicked, astray>>

WholePage ==
  /\ pc = "drive" /\ Rule.family = "transition" /\ ~scoped
  /\ pc' = "first" /\ picked' = IF order = <<>> THEN 0 ELSE order[1]
  /\ UNCHANGED <<world, pageVars, cands, at, traces, sessionVars, listeners, spec, path, cur, seen, tagged, clicked, astray>>

SetOut(r) ==
  /\ cur' = r /\ path' \in Routes(Table, r, Planned.in) /\ seen' = ReadFrom(r)
  /\ pc' = IF path' = <<>> THEN "attempt" ELSE "step"
  /\ UNCHANGED <<world, order, late, shown, noise, rerenders, cands, at, traces, sessionVars, listeners,
                 spec, picked, tagged, clicked, astray>>

\* The way to the planned state starts from what is read now. A whole page that
\* has none is opened again as a new visitor.
ReadFirst ==
  /\ pc = "first"
  /\ \E r \in {q \in ToSet(Table.states) \cup {None} : Readable(q)} :
       IF r # None /\ Routes(Table, r, Planned.in) # {} THEN SetOut(r) /\ st' = st
       ELSE IF r = None \/ scoped THEN GiveUp
       ELSE \E s \in FreshStates :
              /\ st' = s
              /\ \/ SetOut(s[order[1]])
                 \/ UNCHANGED <<order, late, shown, noise, rerenders>> /\ Deliver(Failed)

\* An attempt is two calls. The first looks for the control in scope and tags its
\* node, or it is not offered.
Locate(intent, then) ==
  \/ \E n \in InScope :
       /\ intent \in Offered(Page[n].state)
       /\ tagged' = {Page[n].ent} /\ pc' = then
       /\ UNCHANGED <<world, pageVars, cands, at, traces, sessionVars, listeners,
                      spec, path, cur, picked, seen, clicked, astray>>
  \/ GiveUp

\* The second clicks that node, whatever it belongs to and offers by then. A node
\* that is gone times out.
Moves(e, intent) ==
  \E to \in Moved(st[e], intent) :
    \/ st' = [st EXCEPT ![e] = to] /\ UNCHANGED <<late, noise>>
    \/ /\ noise < MaxNoise /\ late = NoMove /\ to # st[e]
       /\ late' = [ent |-> e, next |-> to] /\ noise' = noise + 1 /\ UNCHANGED st
OnNode(e, intent) == IF intent \in Offered(st[e]) THEN {intent} ELSE Offered(st[e])
Click(intent, then) ==
  \/ \E e \in tagged : \E i \in OnNode(e, intent) :
       /\ Moves(e, i) /\ clicked' = clicked \cup {e} /\ tagged' = {} /\ pc' = then
       /\ UNCHANGED <<world, order, shown, rerenders, cands, at, traces, sessionVars, listeners,
                      spec, path, cur, picked, seen, astray>>
  \/ GiveUp

LocateStep == pc = "step" /\ Locate(path[1].intent, "press")
ClickStep  == pc = "press" /\ Click(path[1].intent, "settle")

\* A setup step must reach the state the text declares.
Settle ==
  /\ pc = "settle"
  /\ \E r \in {q \in ToSet(Table.states) \cup {None} : Readable(q)} :
       IF r = None \/ r # path[1].next THEN GiveUp
       ELSE /\ cur' = r /\ path' = Tail(path) /\ seen' = seen \cup ReadFrom(r)
            /\ pc' = IF path' = <<>> THEN "attempt" ELSE "step"
            /\ UNCHANGED <<world, pageVars, cands, at, traces, sessionVars, listeners,
                           spec, picked, tagged, clicked, astray>>

LocateMove == pc = "attempt" /\ Locate(Planned.intent, "click")
ClickMove  == pc = "click" /\ Click(Planned.intent, "outcome")

\* The same entity or nothing: scoped, an unreadable outcome is a failed drive.
ReadOutcome ==
  /\ pc = "outcome"
  /\ \E r \in {q \in ToSet(Table.states) \cup {None} : Readable(q)} :
       /\ UNCHANGED pageVars
       /\ Deliver(IF r = None /\ scoped THEN Failed
                  ELSE Ran([state |-> cur, input |-> NoFigure], [state |-> r, number |-> NoFigure]))

-----------------------------------------------------------------------------
(* The end of a candidate. *)

Saw(verdict) == \E n \in DOMAIN obs : obs[n].verdict = verdict
Proven       == \E n \in DOMAIN obs : obs[n].verdict = "violated" /\ obs[n].reproduced

\* Variant: one control that worked vouches for all.
VouchedByAny == \E n \in DOMAIN obs : ~obs[n].failed

\* Every control that was supposed to move, moved.
Vouched == \A n \in DOMAIN plan : plan[n].mustReach # {} => obs[n].moved

Verdict == IF Proven THEN "violated"
           ELSE IF Saw("preserved") /\ ~Saw("violated") /\ Vouched THEN "preserved"
           ELSE "unknown"

Executed == \E n \in DOMAIN obs : obs[n].applicable /\ ~obs[n].failed
Observed == \E n \in DOMAIN obs : obs[n].applicable /\ obs[n].readable
Why == IF Saw("preserved") /\ ~Saw("violated") /\ ~Vouched THEN "control"
       ELSE IF ~Executed THEN "execution" ELSE IF ~Observed THEN "observation"
       ELSE "concluded"

\* The page is left as it was found: the handler goes.
Conclude ==
  /\ pc = "restore"
  /\ UNCHANGED <<world, pageVars, cands>>
  /\ listeners' = IF Rule.family = "transition" THEN listeners - 1 ELSE listeners
  /\ Finish(Verdict, Why)

-----------------------------------------------------------------------------
(* What the page does on its own, while a move is being driven. *)

Moving  == {"first", "step", "press", "settle", "attempt", "click", "outcome"}
Driving == pc \in Moving \/ (pc = "drive" /\ Rule.family = "transition")
inDrive == <<spec, path, cur, picked, seen, clicked>>
unmoved == <<world, shown, pc, cands, at, traces, sessionVars, listeners, inDrive>>

\* An identity survives the rendering if no value that goes with the position can
\* confirm it: the first value is the entity's own, and one of its own is asked for
\* when that one is gone; or all that must vouch for it are.
Own(slot) == app.look[slot] = "entity"
OwnIdentity(s) ==
  LET others == {w[1] : w \in s.witnesses} IN
  IF Own(s.slot) THEN others = {} \/ \E slot \in others : Own(slot)
  ELSE others # {} /\ \A slot \in others : Own(slot)

\* The list is rendered anew: in another order, or without one of its entries. A
\* node stays with its entity, or is reused for the one that is in its place now.
Rerender ==
  /\ Driving /\ Len(order) > 1 /\ app.alike /\ rerenders < MaxRerenders
  /\ rerenders' = rerenders + 1
  /\ order' \in {s \in UNION {[1 .. n -> ToSet(order)] : n \in {Len(order) - 1, Len(order)}} :
                   IsInjective(s) /\ s # order}
  /\ \/ tagged' = tagged \cap ToSet(order') /\ astray' = astray
     \/ \E n \in DOMAIN order \cap DOMAIN order' :
          /\ order[n] \in tagged /\ order'[n] # order[n]
          /\ tagged' = {order'[n]} /\ astray' = TRUE
  /\ IF (spec # NoSpec /\ ~OwnIdentity(spec)) \/ ~(tagged' \subseteq tagged)
     THEN noise < MaxNoise /\ noise' = noise + 1 ELSE noise' = noise
  /\ UNCHANGED <<unmoved, st, late>>

\* A late answer lands.
Land ==
  /\ Driving /\ late # NoMove
  /\ st' = [st EXCEPT ![late.ent] = late.next] /\ late' = NoMove
  /\ UNCHANGED <<unmoved, tagged, astray, order, noise, rerenders>>

\* Another visitor, or a job of the server, moves something.
SomebodyElse ==
  /\ Driving /\ noise < MaxNoise /\ noise' = noise + 1
  /\ \E n \in DOMAIN order, e \in app.table.edges :
       e.from = st[order[n]] /\ st' = [st EXCEPT ![order[n]] = e.next]
  /\ UNCHANGED <<unmoved, tagged, astray, order, late, rerenders>>

\* The page is closed: waiting on it throws, past restore().
PageCloses ==
  /\ pc \in {"bind", "settle", "first", "outcome", "drive"} /\ pc' = "thrown"
  /\ UNCHANGED <<world, pageVars, cands, at, traces, sessionVars, listeners, driveVars>>

Step == \/ PlanNext \/ BindNumericBoundary \/ BindStateTransition
        \/ DriveNumeric \/ PickEntity \/ WholePage \/ ReadFirst \/ LocateStep \/ ClickStep
        \/ Settle \/ LocateMove \/ ClickMove \/ ReadOutcome \/ Conclude
Next == Step \/ Rerender \/ Land \/ SomebodyElse \/ PageCloses

Spec == Init /\ [][Next]_vars /\ WF_vars(Step)

-----------------------------------------------------------------------------
\* A rule is broken by the app: it charges something else where the rule
\* applies, or the move does change the state.
Breaks(rule) == IF rule.family = "numeric" THEN app.fee # "right"
                ELSE Moved(rule.from, rule.intent) # {rule.from}

\* "Proof means it happens again, not once" (runtime.ts): a finding is a rule the
\* app really breaks, though once an answer came late, another visitor acted, or the
\* page gave a node or an identity to another row.
FindingsAreReal ==
  \A n \in DOMAIN traces :
    traces[n].verdict = "violated" /\ traces[n].noise <= 1 => Breaks(traces[n].rule)

\* "A refusal can't be told from a no-op" (runtime.ts): when nothing interferes, a
\* move that is called refused is, and the page has been able to make a move: it is
\* no dead button, unless the move that must vouch for it is allowed to be idle.
CanMove(rule) == \E s \in ToSet(app.table.states), i \in Intents :
                   /\ app.table.form = "action-map" => i = rule.intent
                   /\ Moved(s, i) # {s}
Idle(rule) == \E e \in AllowedMoves(app.table, rule.from, rule.intent) : e.next = e.from
PreservedIsVouched ==
  \A n \in DOMAIN traces :
    traces[n].verdict = "preserved" /\ traces[n].noise = 0 /\ traces[n].rule.family = "transition" =>
      ~Breaks(traces[n].rule) /\ (CanMove(traces[n].rule) \/ Idle(traces[n].rule))

\* "Observe the same entity or nothing" (drivers.ts): whatever the list does
\* meanwhile, all that a drive reads belongs to the entity it chose, and all that it
\* clicks too unless the list reused the node between finding and clicking it. An
\* identity that a value of the position can confirm promises nothing.
SameEntity == spec # NoSpec /\ OwnIdentity(spec) =>
  /\ seen \subseteq {picked}
  /\ clicked \cup tagged \subseteq {picked} \/ astray
  /\ \A n \in Resolve(Page, spec) : Page[n].ent = picked

\* "A per-run cap can never drop the rule the change introduced" (infer.ts): a
\* rule on a line that is new in the repository is attempted, unless the rules
\* of the change alone fill the budget.
TouchedRules ==
  UNION {{c.rule : c \in ToSet(InferCandidates(DiffChunk(f, world.repo.files[f].text, world.news[f])))} :
           f \in DOMAIN world.news}
ChangedComesFirst ==
  world.asks.diff /\ pc = "next" /\ traces = <<>> =>
    \/ \A rule \in TouchedRules : \E n \in DOMAIN cands : cands[n].rule = rule
    \/ Len(cands) = MaxCandidates /\ \A n \in DOMAIN cands : cands[n].rule \in TouchedRules

=============================================================================
