---------------------------- MODULE RulesProofs ----------------------------
(***************************************************************************)
(* Theorems about invariant discovery, for any program texts, apps, slots  *)
(* and bounds in which values and tables say what WorldsAssumption asks.   *)
(* One drive is about one entity; with at most one disturbance in a run a  *)
(* rule reported as broken is broken; with none, a move reported as        *)
(* refused is refused by a page that is able to make one; and the rules    *)
(* that a change introduced are attempted before any other.                *)
(***************************************************************************)
EXTENDS Rules, FiniteSetTheorems, SequenceTheorems, WellFoundedInduction, TLAPS

-----------------------------------------------------------------------------
(* The strengthening. *)

OfMove == Rule.family = "transition"

Given == /\ world \in Worlds
         /\ cands \in {Candidates(world, scripts) : scripts \in {world.scripts, <<>>}}

\* What the page lists, and that a move under way was counted.
Listed ==
  /\ order \in Seq(Nat) /\ ToSet(order) \subseteq ToSet(app.rows)
  /\ st = [e \in ToSet(app.rows) |-> st[e]]
  /\ noise \in Nat /\ (late # NoMove => noise >= 1)

\* Where the run is with its candidate.
Station ==
  /\ pc \in {"next", "bind", "drive", "restore", "thrown", "end"} \cup Moving
  /\ pc \in {"bind", "drive", "restore"} \cup Moving =>
       at \in DOMAIN cands /\ plan = PlanExperiment(cands[at]) /\ plan # <<>>
  /\ pc \in Moving => OfMove
  /\ pc \in {"next", "bind"} => k = 1 /\ ~replaying /\ obs = <<>>
  /\ replaying \in BOOLEAN
  /\ pc \in {"drive"} \cup Moving /\ OfMove => k \in {1, 2} /\ Len(obs) = IF replaying THEN k ELSE k - 1
  /\ pc = "restore" /\ OfMove => Len(obs) = 2

\* Where the session looks. A page that is one thing stays as it is.
Session ==
  /\ pc \notin Moving \cup {"thrown"} => spec = NoSpec /\ seen = {} /\ tagged = {} /\ clicked = {}
  /\ pc \in Moving /\ scoped => spec # NoSpec
  /\ pc \in {"drive"} \cup Moving /\ OfMove /\ ~scoped => order # <<>> /\ (Len(order) = 1 \/ ~app.alike)
  /\ pc \in Moving /\ ~scoped => spec = NoSpec /\ picked = order[1]
  /\ pc \in Moving => picked \in ToSet(app.rows)

\* What an identity says of the entity's own values is so; and one that no value of
\* a position can confirm is all that is read and, but for a node that was reused,
\* all that is clicked.
Its(slot, value) == Own(slot) => value = 50 + picked
Identity ==
  spec # NoSpec =>
    /\ spec.slot \in ToSet(Slots) /\ Its(spec.slot, spec.value)
    /\ \A w \in spec.witnesses : w[1] \in ToSet(Slots) /\ Its(w[1], w[2])
    /\ picked \in ToSet(app.rows)
    /\ OwnIdentity(spec) => seen \subseteq {picked} /\ (clicked \cup tagged \subseteq {picked} \/ astray)

\* The way to the planned state.
Way ==
  /\ pc \in {"step", "press", "settle"} => path \in Seq(Table.edges) /\ path # <<>> /\ Leads(path, cur, Planned.in)
  /\ pc \in {"attempt", "click", "outcome"} => cur = Planned.in

\* The one disturbance is over. A run that was repeated had it before.
Spent  == noise = 1 /\ late = NoMove
Redone == replaying /\ noise <= 1 /\ ~Breaks(Rule)
Repeated == Redone => noise = 1 /\ (OfMove => late = NoMove)

\* The session still looks at the entity it chose.
Kept == \/ ~scoped \/ OwnIdentity(spec)
        \/ \A n \in Resolve(Page, spec) : order[n] = picked
Steady == pc \in Moving => /\ noise <= 1 => Kept \/ Spent
                           /\ Redone => Kept

\* What the entity does, between the reading before the attempt and the one after.
AsRead == st[picked] = cur
Held   == tagged \subseteq {picked} /\ Planned.intent \in Offered(cur)
Went   == st[picked] \in Moved(cur, Planned.intent)
Tried ==
  /\ pc = "attempt" /\ noise <= 1 => AsRead \/ Spent
  /\ pc = "attempt" /\ Redone => AsRead
  /\ pc = "click" /\ noise <= 1 => (AsRead /\ Held) \/ Spent
  /\ pc = "click" /\ Redone => AsRead /\ Held
  /\ pc = "outcome" /\ noise <= 1 => AsRead \/ Went \/ Spent
  /\ pc = "outcome" /\ noise = 0 => Went
  /\ pc = "outcome" /\ Redone => AsRead \/ Went

\* The page can make a move, or the plan has none but an idle one to vouch for it.
Able(rule) == CanMove(rule) \/ Idle(rule)
IsList(s) == Len(s) \in Nat /\ s = [n \in 1 .. Len(s) |-> s[n]]
\* What was observed of the candidate, and what was told of those before.
IsObservation(o) ==
  o = [label |-> o.label, applicable |-> o.applicable, failed |-> o.failed, readable |-> o.readable,
       verdict |-> o.verdict, reproduced |-> o.reproduced, moved |-> o.moved]
Seen ==
  /\ IsList(obs) /\ \A n \in DOMAIN obs : IsObservation(obs[n])
  /\ \A n \in DOMAIN obs :
       /\ noise <= 1 /\ ~Breaks(Rule) => ~obs[n].reproduced
       /\ noise = 0 /\ OfMove /\ obs[n].verdict = "preserved" => ~Breaks(Rule)
       /\ noise = 0 /\ OfMove /\ obs[n].moved => Able(Rule)
Told == IsList(traces) /\ FindingsAreReal /\ PreservedIsVouched

Inv == /\ Given /\ Listed /\ Station /\ Session /\ Identity
       /\ Steady /\ Way /\ Repeated /\ Tried /\ Seen /\ Told

-----------------------------------------------------------------------------
(* Lemmas on lists. *)

LEMMA IsListSays ==
  ASSUME NEW s, IsList(s)
  PROVE  s \in Seq({s[n] : n \in 1 .. Len(s)}) /\ DOMAIN s = 1 .. Len(s) /\ Len(s) \in Nat
BY DEF IsList

LEMMA MakesList ==
  ASSUME NEW L \in Nat, NEW S, NEW s \in [1 .. L -> S]
  PROVE  s \in Seq(S) /\ Len(s) = L /\ DOMAIN s = 1 .. L /\ IsList(s)
BY DEF IsList

LEMMA SeqIsList ==
  ASSUME NEW S, NEW s \in Seq(S)
  PROVE  IsList(s) /\ DOMAIN s = 1 .. Len(s)
<1>1. Len(s) \in Nat /\ s \in [1 .. Len(s) -> S]
  OBVIOUS
<1> QED
  BY <1>1, MakesList

LEMMA Appended ==
  ASSUME NEW s, IsList(s), NEW e
  PROVE  /\ IsList(Append(s, e)) /\ Len(Append(s, e)) = Len(s) + 1
         /\ DOMAIN Append(s, e) = 1 .. Len(s) + 1 /\ Append(s, e)[Len(s) + 1] = e
         /\ \A n \in 1 .. Len(s) : Append(s, e)[n] = s[n]
<1> DEFINE S == {s[n] : n \in 1 .. Len(s)} \cup {e}
<1>1. s \in Seq(S) /\ Len(s) \in Nat
  <2>1. Len(s) \in Nat /\ s = [n \in 1 .. Len(s) |-> s[n]]
    BY DEF IsList
  <2>2. s \in [1 .. Len(s) -> S]
    BY <2>1
  <2> HIDE DEF S
  <2> QED
    BY <2>1, <2>2, MakesList
<1> HIDE DEF S
<1>2. e \in S
  BY DEF S
<1>3. Append(s, e) \in Seq(S) /\ Len(Append(s, e)) = Len(s) + 1
  BY <1>1, <1>2
<1>4. Append(s, e)[Len(s) + 1] = e /\ \A n \in 1 .. Len(s) : Append(s, e)[n] = s[n]
  BY <1>1, <1>2
<1>5. IsList(Append(s, e)) /\ DOMAIN Append(s, e) = 1 .. Len(s) + 1
  BY <1>1, <1>3, SeqIsList
<1> QED
  BY <1>3, <1>4, <1>5

\* The mark on the last observation.
LEMMA Marked ==
  ASSUME NEW s, IsList(s), NEW e, NEW t, t = [s EXCEPT ![Len(s)] = e]
  PROVE  /\ IsList(t) /\ Len(t) = Len(s) /\ DOMAIN t = 1 .. Len(s)
         /\ \A n \in 1 .. Len(s) : t[n] = IF n = Len(s) THEN e ELSE s[n]
<1>1. Len(s) \in Nat /\ s = [n \in 1 .. Len(s) |-> s[n]] /\ DOMAIN s = 1 .. Len(s)
  BY IsListSays DEF IsList
<1> DEFINE S == {s[n] : n \in 1 .. Len(s)} \cup {e}
<1>2. t \in [1 .. Len(s) -> S]
  BY <1>1
<1>3. \A n \in 1 .. Len(s) : t[n] = IF n = Len(s) THEN e ELSE s[n]
  BY <1>1
<1> HIDE DEF S
<1> QED
  BY <1>1, <1>2, <1>3, MakesList

-----------------------------------------------------------------------------
(* What the worlds may be. *)

LEMMA WorldSays ==
  ASSUME Given
  PROVE  /\ IsPage(app) /\ IsMachine(app.table)
         /\ \A n \in DOMAIN cands : cands[n].rule.family = "transition" => cands[n].table = app.table
<1>1. IsPage(world.app) /\ IsMachine(world.app.table)
  BY WorldsAssumption DEF Given
<1>2. PICK scripts \in {world.scripts, <<>>} : cands = Candidates(world, scripts)
  BY DEF Given
<1>3. \A c \in ToSet(cands) : c.rule.family = "transition" => c.table = world.app.table
  BY WorldsAssumption, <1>2 DEF Given
<1>4. \A n \in DOMAIN cands : cands[n] \in ToSet(cands)
  BY DEF ToSet
<1> QED
  BY <1>1, <1>3, <1>4 DEF app

LEMMA PageSays ==
  ASSUME Given, Listed
  PROVE  /\ DOMAIN Page = DOMAIN order /\ DOMAIN Page = 1 .. Len(order) /\ Len(order) \in Nat
         /\ Page \in Seq({Page[n] : n \in 1 .. Len(order)}) /\ Len(Page) = Len(order)
         /\ \A n \in DOMAIN Page : Page[n].ent = order[n] /\ Page[n].state = st[order[n]] /\ order[n] \in Nat
         /\ \A n \in DOMAIN Page : order[n] \in ToSet(app.rows)
         /\ \A n \in DOMAIN Page, slot \in ToSet(Slots) : Page[n].vals[slot] = Value(slot, n, order[n])
<1>1. order \in Seq(Nat) /\ ToSet(order) \subseteq ToSet(app.rows)
  BY DEF Listed
<1>2. Len(order) \in Nat /\ DOMAIN order = 1 .. Len(order) /\ \A n \in DOMAIN order : order[n] \in Nat
  BY <1>1
<1>3. \A n \in DOMAIN order : order[n] \in ToSet(app.rows)
  BY <1>1 DEF ToSet
<1>4. DOMAIN Page = DOMAIN order
  BY DEF Page
<1>5. \A n \in DOMAIN Page : Page[n].ent = order[n] /\ Page[n].state = st[order[n]]
  BY DEF Page
<1>6. \A n \in DOMAIN Page, slot \in ToSet(Slots) : Page[n].vals[slot] = Value(slot, n, order[n])
  BY DEF Page
<1>7. Page \in Seq({Page[n] : n \in 1 .. Len(order)}) /\ Len(Page) = Len(order)
  <2> DEFINE S == {Page[n] : n \in 1 .. Len(order)}
  <2>1. Page \in [1 .. Len(order) -> S]
    BY <1>2, <1>4 DEF Page
  <2> HIDE DEF S
  <2>2. Page \in Seq(S) /\ Len(Page) = Len(order)
    BY <1>2, <2>1, MakesList
  <2> QED
    BY <2>2 DEF S
<1> QED
  BY <1>2, <1>3, <1>4, <1>5, <1>6, <1>7

-----------------------------------------------------------------------------
(* Identity: which slots tell the things of a list apart, and that what an   *)
(* identity stands for is what it was made from.                             *)

LEMMA LeastExists ==
  ASSUME NEW T, T \subseteq Nat, T # {}
  PROVE  \E n \in T : \A m \in T : n <= m
<1>1. IsWellFoundedOn(OpToRel(<, Nat), Nat)
  BY NatLessThanWellFounded
<1>2. PICK n \in T : \A m \in T : ~(<<m, n>> \in OpToRel(<, Nat))
  BY <1>1, WFMin
<1>3. ASSUME NEW m \in T PROVE n <= m
  <2>1. ~(<<m, n>> \in OpToRel(<, Nat))
    BY <1>2
  <2>2. m \in Nat /\ n \in Nat
    OBVIOUS
  <2>3. ~(m < n)
    BY <2>1, <2>2 DEF OpToRel
  <2> QED
    BY <2>2, <2>3
<1> QED
  BY <1>3

LEMMA MinSays ==
  ASSUME NEW T, T \subseteq Nat, T # {}
  PROVE  Min(T) \in T /\ \A m \in T : Min(T) <= m
BY LeastExists DEF Min

\* What an entity of the list is known by.
LEMMA SpecSays ==
  ASSUME Given, Listed, Mode(Page, app.alike) = "entities", NEW n \in DOMAIN Page,
         NEW spc, spc = SpecOf(Page, n)
  PROVE  /\ spc.slot \in ToSet(Slots) /\ spc # NoSpec
         /\ Own(spc.slot) => spc.value = 50 + order[n]
         /\ \A w \in spc.witnesses : w[1] \in ToSet(Slots) /\ (Own(w[1]) => w[2] = 50 + order[n])
         /\ \A m \in Resolve(Page, spc) : order[m] = order[n]
<1> DEFINE usable == PickSlot(Page)
           first  == Min(usable)
           At(j)  == Page[n].vals[Slots[j]]
           wit    == {j \in usable \ {first} : Cardinality({m \in usable : m < j}) <= MaxWitnesses}
<1>1. usable # {}
  BY PageSays DEF Mode
<1>2. usable \subseteq DOMAIN Slots /\ DOMAIN Slots \subseteq Nat
  <2>1. Len(Slots) \in Nat /\ DOMAIN Slots = 1 .. Len(Slots)
    <3>1. IsList(Slots)
      BY SlotsAssumption, SeqIsList
    <3> QED
      BY <3>1, IsListSays
  <2> QED
    BY <2>1 DEF PickSlot
<1>3. first \in usable
  BY <1>1, <1>2, MinSays
<1>4. spc.slot = Slots[first] /\ spc.value = At(first) /\ spc.witnesses = {<<Slots[j], At(j)>> : j \in wit}
  BY DEF SpecOf
<1>5. \A j \in usable : Slots[j] \in ToSet(Slots)
  BY <1>2 DEF ToSet
<1>6. \A j \in usable : Own(Slots[j]) => At(j) = 50 + order[n]
  BY <1>5, PageSays DEF Value, Own
<1>7. IsInjective(ValuesAt(Page, Slots[first]))
  BY <1>3 DEF PickSlot, Identifies
<1> HIDE DEF usable, first
<1>8. \A j \in wit : j \in usable
  OBVIOUS
<1> HIDE DEF wit
<1>9. spc.slot \in ToSet(Slots) /\ (Own(spc.slot) => spc.value = 50 + order[n])
  BY <1>3, <1>4, <1>5, <1>6
<1>10. spc # NoSpec
  <2>1. spc.slot # "" /\ NoSpec.slot = ""
    BY <1>9, SlotsAssumption DEF NoSpec
  <2> QED
    BY <2>1
<1>11. \A w \in spc.witnesses : w[1] \in ToSet(Slots) /\ (Own(w[1]) => w[2] = 50 + order[n])
  BY <1>4, <1>5, <1>6, <1>8
<1>12. {j \in DOMAIN Page : Page[j].vals[spc.slot] = spc.value} = {n}
  <2>1. ASSUME NEW j \in DOMAIN Page, Page[j].vals[spc.slot] = spc.value PROVE j = n
    BY <1>4, <1>7, <2>1 DEF IsInjective, ValuesAt
  <2> QED
    BY <1>4, <2>1
<1>13. Cardinality({n}) = 1
  BY FS_Singleton
<1>14. ASSUME NEW m \in Resolve(Page, spc) PROVE m = n
  <2> DEFINE byPrimary == {j \in DOMAIN Page : Page[j].vals[spc.slot] = spc.value}
             vouched   == {j \in byPrimary : spc.witnesses = {} \/ Agree(spc, Page[j]) # {}}
  <2>1. Cardinality(byPrimary) = 1 /\ byPrimary = {n}
    BY <1>12, <1>13
  <2>2. m \in vouched
    BY <1>14, <2>1 DEF Resolve
  <2> QED
    BY <2>1, <2>2
<1> QED
  BY <1>9, <1>10, <1>11, <1>14

\* An identity that no value of a position can confirm stands for what it was made
\* from, or for nothing.
LEMMA ResolveSays ==
  ASSUME Given, Listed, Identity, spec # NoSpec, OwnIdentity(spec), NEW n \in Resolve(Page, spec)
  PROVE  n \in DOMAIN Page /\ order[n] = picked
<1>1. n \in DOMAIN Page
  BY DEF Resolve
<1>2. order[n] \in Nat /\ \A e \in ToSet(app.rows) : e \in Nat
  <2>1. app.rows \in Seq(Nat)
    BY WorldSays DEF IsPage
  <2>2. ToSet(app.rows) \subseteq Nat
    BY <2>1 DEF ToSet
  <2> QED
    BY <1>1, <2>2, PageSays
<1>3. picked \in Nat
  BY <1>2 DEF Identity
<1>4. ASSUME NEW w \in Agree(spec, Page[n]), Own(w[1]) PROVE order[n] = picked
  <2>1. w \in spec.witnesses /\ Page[n].vals[w[1]] = w[2]
    BY DEF Agree
  <2>2. w[1] \in ToSet(Slots) /\ w[2] = 50 + picked
    BY <1>4, <2>1 DEF Identity, Its
  <2>3. Value(w[1], n, order[n]) = w[2]
    BY <1>1, <2>1, <2>2, PageSays
  <2> QED
    BY <1>2, <1>3, <1>4, <2>2, <2>3 DEF Value, Own
<1>5. ASSUME Page[n].vals[spec.slot] = spec.value, Own(spec.slot) PROVE order[n] = picked
  <2>1. Value(spec.slot, n, order[n]) = spec.value
    BY <1>1, <1>5, PageSays DEF Identity
  <2> QED
    BY <1>2, <1>3, <1>5, <2>1 DEF Value, Own, Identity, Its
<1>6. \/ Page[n].vals[spec.slot] = spec.value /\ (spec.witnesses = {} \/ Agree(spec, Page[n]) # {})
      \/ spec.witnesses # {} /\ Agree(spec, Page[n]) = spec.witnesses
  BY DEF Resolve
<1>7. IF Own(spec.slot) THEN spec.witnesses = {} \/ \E w \in spec.witnesses : Own(w[1])
      ELSE spec.witnesses # {} /\ \A w \in spec.witnesses : Own(w[1])
  BY DEF OwnIdentity
<1>8. Agree(spec, Page[n]) \subseteq spec.witnesses
  BY DEF Agree
<1> QED
  BY <1>1, <1>4, <1>5, <1>6, <1>7, <1>8

-----------------------------------------------------------------------------
(* The machine, the plan and the verdict of a run. *)

\* A move that may leave the state alone does nothing else.
LEMMA MovedSays ==
  ASSUME Given, NEW s, NEW i, s \in Moved(s, i)
  PROVE  Moved(s, i) = {s}
<1>1. IsMachine(app.table)
  BY WorldSays
<1>2. CASE i \notin app.wired
  BY <1>2 DEF Moved
<1>3. CASE i \in app.wired /\ Declared(s, i) # {}
  <2>1. Moved(s, i) = {e.next : e \in Declared(s, i)}
    BY <1>3 DEF Moved
  <2>2. \A e, f \in Declared(s, i) : e.next = f.next
    BY <1>1 DEF Declared, IsMachine
  <2> QED
    BY <2>1, <2>2
<1>4. CASE i \in app.wired /\ Declared(s, i) = {}
  BY <1>4 DEF Moved, Elsewhere
<1> QED
  BY <1>2, <1>3, <1>4

LEMMA TableSays ==
  ASSUME Given, at \in DOMAIN cands, OfMove
  PROVE  Table = app.table /\ IsMachine(Table)
BY WorldSays DEF OfMove, Rule, Table

\* The move in question, then an allowed one from another state.
IsControl(e) ==
  /\ e \in app.table.edges /\ e.from # Rule.from /\ (e.from = e.next => Idle(Rule))
  /\ app.table.form = "action-map" => e.intent = Rule.intent

LEMMA PlanSays ==
  ASSUME Given, at \in DOMAIN cands, OfMove, plan = PlanExperiment(cands[at]), plan # <<>>
  PROVE  /\ Len(plan) = 2 /\ DOMAIN plan = {1, 2}
         /\ plan[1].in = Rule.from /\ plan[1].intent = Rule.intent /\ plan[1].mustReach = {}
         /\ \E e : /\ IsControl(e)
                   /\ plan[2].in = e.from /\ plan[2].intent = e.intent /\ plan[2].mustReach = {e.next}
<1> DEFINE allowed == AllowedMoves(Table, Rule.from, Rule.intent)
           control == CHOOSE e \in allowed : TRUE
<1>1. Table = app.table /\ IsMachine(app.table)
  BY TableSays
<1>2. plan = PlanStateTransition(cands[at])
  BY DEF PlanExperiment, OfMove, Rule
<1>3. allowed # {}
  BY <1>2 DEF PlanStateTransition, Rule, Table
<1>4. plan = <<[label |-> "forbidden", value |-> 0, in |-> Rule.from, intent |-> Rule.intent,
                mustReach |-> {}, applicable |-> TRUE],
               [label |-> "allowed-control", value |-> 0, in |-> control.from, intent |-> control.intent,
                mustReach |-> {control.next}, applicable |-> FALSE]>>
  BY <1>2, <1>3 DEF PlanStateTransition, Rule, Table
<1>5. control \in allowed
  BY <1>3
<1>6. ASSUME NEW e \in allowed PROVE IsControl(e)
  <2> DEFINE away == {f \in Table.edges : f.from # Rule.from}
             same == {f \in away : f.intent = Rule.intent /\ (Table.form = "action-map" \/ f.from # Rule.intent)}
             any  == {f \in away : Table.form = "successor-list" /\ f.next # f.from}
  <2>1. e \in same \/ e \in any
    BY <1>6 DEF AllowedMoves
  <2>2. e \in Table.edges /\ e.from # Rule.from
    BY <2>1
  <2>3. Table.form = "action-map" => e.intent = Rule.intent
    BY <2>1
  <2>4. e.from = e.next => Idle(Rule)
    BY <1>1, <1>6 DEF Idle
  <2> QED
    BY <1>1, <2>2, <2>3, <2>4 DEF IsControl
<1> HIDE DEF allowed, control
<1>7. IsControl(control)
  BY <1>5, <1>6
<1> QED
  BY <1>4, <1>7

LEMMA ControlMoves ==
  ASSUME Given, NEW e, IsControl(e), e.next \in Moved(e.from, e.intent)
  PROVE  Able(Rule)
<1>1. e.from \in ToSet(app.table.states) /\ e.intent \in Intents
  BY WorldSays DEF IsMachine, IsControl, Intents
<1>2. Moved(e.from, e.intent) # {e.from} \/ Idle(Rule)
  BY DEF IsControl
<1> QED
  BY <1>1, <1>2 DEF Able, CanMove, IsControl

LEMMA FailedSays == Judged(Failed) = "unknown" /\ ~Observation(Failed).moved /\ Observation(Failed).verdict = "unknown"
BY DEF Judged, Failed, Observation

\* What is read is the entity's state, or the one disturbance is over.
IsRead(r) == /\ noise <= 1 => r = None \/ r = st[picked] \/ Spent
             /\ Redone => r = None \/ r = st[picked]

\* What one run of a move may say: a move the app does not make is seen only
\* after the one disturbance, never when it is repeated; and with none, a state
\* that is kept was kept by the app.
LEMMA OutcomeSays ==
  ASSUME Given, Station, Way, Repeated, Tried, pc = "outcome", NEW r, IsRead(r),
         NEW run, run = Ran([state |-> cur, input |-> NoFigure], [state |-> r, number |-> NoFigure])
  PROVE  /\ noise <= 1 /\ ~Breaks(Rule) /\ Judged(run) = "violated" =>
              ~replaying /\ noise = 1 /\ late = NoMove
         /\ noise = 0 /\ Judged(run) = "preserved" => ~Breaks(Rule)
         /\ noise = 0 /\ Observation(run).moved => Able(Rule)
<1>1. OfMove /\ at \in DOMAIN cands /\ plan = PlanExperiment(cands[at]) /\ plan # <<>> /\ k \in {1, 2}
  BY DEF Station, Moving
<1>2. cur = Planned.in
  BY DEF Way
<1>3. /\ plan[1].in = Rule.from /\ plan[1].intent = Rule.intent /\ plan[1].mustReach = {}
      /\ \E e : /\ IsControl(e)
                /\ plan[2].in = e.from /\ plan[2].intent = e.intent /\ plan[2].mustReach = {e.next}
  BY <1>1, PlanSays
<1>4. Breaks(Rule) <=> Moved(Rule.from, Rule.intent) # {Rule.from}
  BY <1>1 DEF Breaks, OfMove
<1>5. /\ Judged(run) \in {"violated", "preserved"} => cur = Rule.from /\ r # None
      /\ Judged(run) = "violated" => r # Rule.from
      /\ Judged(run) = "preserved" => r = Rule.from
  BY <1>1 DEF Judged, Evaluate, Observable, Ran, OfMove
<1>6. ASSUME cur = Rule.from PROVE Planned.intent = Rule.intent
  BY <1>1, <1>2, <1>3, <1>6 DEF Planned, IsControl
<1>7. ASSUME noise <= 1, ~Breaks(Rule), Judged(run) = "violated"
      PROVE  ~replaying /\ noise = 1 /\ late = NoMove
  <2>1. cur = Rule.from /\ r # None /\ r # Rule.from /\ Moved(cur, Planned.intent) = {Rule.from}
    BY <1>4, <1>5, <1>6, <1>7
  <2>2. r # st[picked] \/ (~AsRead /\ ~Went)
    BY <2>1 DEF AsRead, Went
  <2>3. (r = st[picked] \/ Spent) /\ (AsRead \/ Went \/ Spent)
    BY <1>7, <2>1 DEF Tried, IsRead
  <2>4. Redone => r = st[picked] /\ (AsRead \/ Went)
    BY <1>7, <2>1 DEF Tried, IsRead
  <2> QED
    BY <1>7, <2>2, <2>3, <2>4 DEF Spent, Redone, Station
<1>8. ASSUME noise = 0, Judged(run) = "preserved" PROVE ~Breaks(Rule)
  <2>1. cur = Rule.from /\ st[picked] = cur
    BY <1>5, <1>8 DEF IsRead, Spent
  <2>2. cur \in Moved(cur, Planned.intent)
    BY <1>8, <2>1 DEF Tried, Went
  <2>3. Moved(cur, Planned.intent) = {cur}
    BY <2>2, MovedSays
  <2> QED
    BY <1>4, <1>6, <2>1, <2>3
<1>9. ASSUME noise = 0, Observation(run).moved PROVE Able(Rule)
  <2>1. r \in Planned.mustReach /\ r # None
    BY <1>9 DEF Observation, Ran
  <2>2. k = 2 /\ r = st[picked]
    BY <1>1, <1>3, <1>9, <2>1 DEF Planned, IsRead, Spent
  <2>3. PICK e : /\ IsControl(e)
                 /\ plan[2].in = e.from /\ plan[2].intent = e.intent /\ plan[2].mustReach = {e.next}
    BY <1>3
  <2>4. e.next \in Moved(e.from, e.intent)
    BY <1>2, <1>9, <2>1, <2>2, <2>3 DEF Planned, Tried, Went
  <2> QED
    BY <2>3, <2>4, ControlMoves
<1> QED
  BY <1>7, <1>8, <1>9

\* And one of a figure: the app that charges what the text says shows another
\* figure only when an update is slow.
LEMMA FigureSays ==
  ASSUME app.fee = "right", Rule.family = "numeric", NEW v, NEW figure \in {Fee(Rule, v), NoFigure}
  PROVE  Judged(Ran([state |-> None, input |-> v], [state |-> None, number |-> figure])) # "violated"
BY DEF Judged, Ran, Observable, Evaluate, Fee

-----------------------------------------------------------------------------
(* What every step has in common. *)

LEMMA SameWorld ==
  ASSUME world' = world
  PROVE  /\ app' = app /\ Intents' = Intents
         /\ \A s, i : Moved(s, i)' = Moved(s, i)
         /\ \A rule : (Breaks(rule)' <=> Breaks(rule)) /\ (Able(rule)' <=> Able(rule))
<1>1. app' = app /\ Intents' = Intents
  BY DEF app, Intents
<1>2. \A s, i : Moved(s, i)' = Moved(s, i)
  BY <1>1 DEF Moved, Declared, Elsewhere
<1>3. ASSUME NEW rule PROVE Breaks(rule)' <=> Breaks(rule)
  BY <1>1, <1>2 DEF Breaks
<1>4. ASSUME NEW rule PROVE Able(rule)' <=> Able(rule)
  BY <1>1, <1>2 DEF Able, CanMove, Idle
<1> QED
  BY <1>1, <1>2, <1>3, <1>4

LEMMA SameRule ==
  ASSUME UNCHANGED <<world, cands, at>>
  PROVE  /\ Rule' = Rule /\ Table' = Table /\ (OfMove' <=> OfMove)
         /\ (Breaks(Rule)' <=> Breaks(Rule)) /\ (Able(Rule)' <=> Able(Rule))
<1>1. Rule' = Rule /\ Table' = Table
  BY DEF Rule, Table
<1> QED
  BY <1>1, SameWorld DEF OfMove

\* A candidate that is done: nothing of it is left but what is told of it.
LEMMA FinishKeeps ==
  ASSUME Inv, NEW verdict, NEW why, Finish(verdict, why), UNCHANGED <<world, cands>>, Listed', noise' = noise,
         verdict = "violated" /\ noise <= 1 => Breaks(Rule),
         verdict = "preserved" /\ noise = 0 /\ OfMove => ~Breaks(Rule) /\ Able(Rule)
  PROVE  Inv'
<1> DEFINE new == [rule |-> Rule, verdict |-> verdict, why |-> why, noise |-> noise']
<1>1. /\ traces' = Append(traces, new)
      /\ pc' = "next" /\ k' = 1 /\ replaying' = FALSE /\ obs' = <<>>
      /\ spec' = NoSpec /\ seen' = {} /\ tagged' = {} /\ clicked' = {}
  BY DEF Finish, DriveOver
<1>2. Given'
  BY DEF Inv, Given
<1>3. Station'
  BY <1>1 DEF Station, Moving
<1>4. Session' /\ Identity' /\ Steady'
  BY <1>1 DEF Session, Identity, Steady, Moving
<1>5. Way' /\ Tried' /\ Repeated'
  BY <1>1 DEF Way, Tried, Repeated, Redone
<1>6. Seen'
  <2>1. IsList(<<>>) /\ DOMAIN <<>> = {}
    BY DEF IsList
  <2> QED
    BY <1>1, <2>1 DEF Seen
<1>7. Told'
  <2>1. IsList(traces) /\ FindingsAreReal /\ PreservedIsVouched
    BY DEF Inv, Told
  <2>2. /\ IsList(traces') /\ DOMAIN traces' = 1 .. Len(traces) + 1 /\ DOMAIN traces = 1 .. Len(traces)
        /\ Len(traces) \in Nat
        /\ traces'[Len(traces) + 1] = new /\ \A n \in 1 .. Len(traces) : traces'[n] = traces[n]
    BY <1>1, <2>1, Appended, IsListSays
  <2>3. \A n \in DOMAIN traces' : traces'[n] = new \/ (n \in DOMAIN traces /\ traces'[n] = traces[n])
    BY <2>2
  <2>4. new.rule = Rule /\ new.verdict = verdict /\ new.noise = noise
    OBVIOUS
  <2> HIDE DEF new
  <2>5. \A n \in DOMAIN traces' :
          traces'[n].verdict = "violated" /\ traces'[n].noise <= 1 => Breaks(traces'[n].rule)
    BY <2>1, <2>3, <2>4 DEF FindingsAreReal
  <2>6. \A n \in DOMAIN traces' :
          traces'[n].verdict = "preserved" /\ traces'[n].noise = 0 /\ traces'[n].rule.family = "transition" =>
            ~Breaks(traces'[n].rule) /\ Able(traces'[n].rule)
    BY <2>1, <2>3, <2>4 DEF PreservedIsVouched, OfMove, Able
  <2>7. FindingsAreReal'
    BY <2>5, SameWorld DEF FindingsAreReal
  <2>8. PreservedIsVouched'
    BY <2>6, SameWorld DEF PreservedIsVouched, Able
  <2> QED
    BY <2>2, <2>7, <2>8 DEF Told
<1> QED
  BY <1>2, <1>3, <1>4, <1>5, <1>6, <1>7 DEF Inv

\* A run that is over: observed, or the mark of the one it repeats.
LEMMA DeliverKeeps ==
  ASSUME Inv, NEW run, Deliver(run), pc \in {"drive"} \cup Moving, order' = order, Listed', noise <= noise',
         noise' <= 1 /\ ~Breaks(Rule) /\ Judged(run) = "violated" =>
           ~replaying /\ noise' = 1 /\ (OfMove => late' = NoMove),
         noise' = 0 /\ OfMove /\ Judged(run) = "preserved" => ~Breaks(Rule),
         noise' = 0 /\ OfMove /\ Observation(run).moved => Able(Rule)
  PROVE  Inv'
<1>1. /\ UNCHANGED <<world, cands, at, traces, plan, scoped>>
      /\ spec' = NoSpec /\ seen' = {} /\ tagged' = {} /\ clicked' = {} /\ pc' \in {"drive", "restore"}
  BY DEF Deliver, DriveOver, Advance
<1>2. /\ Rule' = Rule /\ Table' = Table /\ (OfMove' <=> OfMove)
      /\ (Breaks(Rule)' <=> Breaks(Rule)) /\ (Able(Rule)' <=> Able(Rule))
  BY <1>1, SameRule
<1>3. (noise' <= 1 => noise <= 1) /\ (noise' = 0 => noise = 0)
  BY DEF Inv, Listed
<1>4. /\ IsList(obs) /\ DOMAIN obs = 1 .. Len(obs) /\ Len(obs) \in Nat
      /\ \A n \in 1 .. Len(obs) :
           /\ IsObservation(obs[n])
           /\ noise <= 1 /\ ~Breaks(Rule) => ~obs[n].reproduced
           /\ noise = 0 /\ OfMove /\ obs[n].verdict = "preserved" => ~Breaks(Rule)
           /\ noise = 0 /\ OfMove /\ obs[n].moved => Able(Rule)
  BY IsListSays DEF Inv, Seen
<1>5. Given'
  BY <1>1 DEF Inv, Given
<1>6. Session' /\ Identity' /\ Steady' /\ Way' /\ Tried'
  <2>1. pc' \notin Moving
    BY <1>1 DEF Moving
  <2>2. app' = app
    BY <1>1, SameWorld
  <2>3. Session'
    BY <1>1, <1>2, <2>1, <2>2 DEF Inv, Session
  <2> QED
    BY <1>1, <2>1, <2>3 DEF Identity, Steady, Way, Tried, Moving
<1>7. Repeated'
  BY <1>2, <1>3 DEF Deliver, Advance, Repeated, Redone
<1>8. Told'
  <2>1. traces' = traces /\ world' = world
    BY <1>1
  <2> QED
    BY <2>1, SameWorld DEF Inv, Told, FindingsAreReal, PreservedIsVouched, Able
<1>9. Station' /\ Seen'
  <2>1. OfMove => Len(plan) = 2 /\ k \in {1, 2} /\ Len(obs) = IF replaying THEN k ELSE k - 1
    BY PlanSays DEF Inv, Station, Moving
  <2>2. at' \in DOMAIN cands' /\ plan' = PlanExperiment(cands'[at']) /\ plan' # <<>>
    BY <1>1 DEF Inv, Station, Moving
  <2>3. CASE replaying
    <3> DEFINE mark == [obs[Len(obs)] EXCEPT !.reproduced = (Judged(run) = "violated")]
    <3>1. obs' = [obs EXCEPT ![Len(obs)] = mark] /\ k' = k + 1 /\ replaying' = FALSE
          /\ pc' = IF k = Len(plan) THEN "restore" ELSE "drive"
      BY <2>3 DEF Deliver, Advance
    <3>2. /\ IsList(obs') /\ Len(obs') = Len(obs) /\ DOMAIN obs' = 1 .. Len(obs)
          /\ \A n \in 1 .. Len(obs) : obs'[n] = IF n = Len(obs) THEN mark ELSE obs[n]
      <4> HIDE DEF mark
      <4> QED
        BY <1>4, <3>1, Marked
    <3> HIDE DEF mark
    <3>3. Station'
      <4>1. OfMove' /\ pc' = "drive" => k' \in {1, 2} /\ Len(obs') = k' - 1
        BY <1>2, <2>1, <2>3, <3>1, <3>2
      <4>2. OfMove' /\ pc' = "restore" => Len(obs') = 2
        BY <1>1, <1>2, <2>1, <2>3, <3>1, <3>2
      <4> QED
        BY <1>1, <2>2, <3>1, <4>1, <4>2 DEF Station, Moving
    <3> USE DEF mark
    <3>4. ASSUME Len(obs) \in 1 .. Len(obs)
          PROVE  /\ IsObservation(mark) /\ mark.verdict = obs[Len(obs)].verdict /\ mark.moved = obs[Len(obs)].moved
                 /\ mark.reproduced = (Judged(run) = "violated")
      <4>1. IsObservation(obs[Len(obs)])
        BY <1>4, <3>4
      <4> QED
        BY <4>1 DEF IsObservation
    <3> HIDE DEF mark
    <3>5. ASSUME NEW n \in 1 .. Len(obs)
          PROVE  /\ IsObservation(obs'[n])
                 /\ noise' <= 1 /\ ~Breaks(Rule) => ~obs'[n].reproduced
                 /\ noise' = 0 /\ OfMove /\ obs'[n].verdict = "preserved" => ~Breaks(Rule)
                 /\ noise' = 0 /\ OfMove /\ obs'[n].moved => Able(Rule)
      <4>1. CASE n = Len(obs)
        BY <1>3, <1>4, <2>3, <3>2, <3>4, <4>1
      <4>2. CASE n # Len(obs)
        BY <1>3, <1>4, <3>2, <4>2
      <4> QED
        BY <4>1, <4>2
    <3>6. Seen'
      BY <1>2, <3>2, <3>5 DEF Seen, IsObservation
    <3> QED
      BY <3>3, <3>6
  <2>4. CASE ~replaying
    <3> DEFINE new == Observation(run)
    <3>1. /\ obs' = Append(obs, new)
          /\ \/ replaying' = TRUE /\ pc' = "drive" /\ k' = k
             \/ k' = k + 1 /\ replaying' = FALSE /\ pc' = IF k = Len(plan) THEN "restore" ELSE "drive"
      BY <2>4 DEF Deliver, Advance
    <3>2. /\ IsList(obs') /\ Len(obs') = Len(obs) + 1 /\ DOMAIN obs' = 1 .. Len(obs) + 1
          /\ obs'[Len(obs) + 1] = new /\ \A n \in 1 .. Len(obs) : obs'[n] = obs[n]
      <4> HIDE DEF new
      <4> QED
        BY <1>4, <3>1, Appended
    <3> HIDE DEF new
    <3>3. Station'
      <4>1. OfMove' /\ pc' = "drive" => k' \in {1, 2} /\ Len(obs') = IF replaying' THEN k' ELSE k' - 1
        BY <1>2, <2>1, <2>4, <3>1, <3>2
      <4>2. OfMove' /\ pc' = "restore" => Len(obs') = 2
        BY <1>1, <1>2, <2>1, <2>4, <3>1, <3>2
      <4> QED
        BY <1>1, <2>2, <3>1, <4>1, <4>2 DEF Station, Moving
    <3> USE DEF new
    <3>4. IsObservation(new) /\ new.verdict = Judged(run) /\ ~new.reproduced
      BY DEF Observation, IsObservation
    <3> HIDE DEF new
    <3>5. ASSUME NEW n \in 1 .. Len(obs) + 1
          PROVE  /\ IsObservation(obs'[n])
                 /\ noise' <= 1 /\ ~Breaks(Rule) => ~obs'[n].reproduced
                 /\ noise' = 0 /\ OfMove /\ obs'[n].verdict = "preserved" => ~Breaks(Rule)
                 /\ noise' = 0 /\ OfMove /\ obs'[n].moved => Able(Rule)
      <4>1. CASE n = Len(obs) + 1
        BY <3>2, <3>4, <4>1 DEF new
      <4>2. CASE n # Len(obs) + 1
        <5>1. n \in 1 .. Len(obs)
          BY <1>4, <4>2
        <5> QED
          BY <1>3, <1>4, <3>2, <5>1
      <4> QED
        BY <4>1, <4>2
    <3>6. Seen'
      BY <1>2, <3>2, <3>5 DEF Seen, IsObservation
    <3> QED
      BY <3>3, <3>6
  <2> QED
    BY <2>3, <2>4
<1> QED
  BY <1>5, <1>6, <1>7, <1>8, <1>9 DEF Inv

\* What a step keeps that leaves the candidate and what was observed alone.
LEMMA FrameKeeps ==
  ASSUME Inv, UNCHANGED <<world, cands, at, traces, obs, replaying>>, Listed',
         (noise' = noise /\ late' \in {late, NoMove}) \/ noise' = noise + 1
  PROVE  Given' /\ Repeated' /\ Seen' /\ Told'
<1>1. (Breaks(Rule)' <=> Breaks(Rule)) /\ (Able(Rule)' <=> Able(Rule)) /\ (OfMove' <=> OfMove)
  BY SameRule
<1>2. noise \in Nat /\ noise' \in Nat
  BY DEF Inv, Listed
<1>3. (noise' <= 1 => noise <= 1) /\ (noise' = 0 => noise = 0)
  BY <1>2
<1>4. Given'
  BY DEF Inv, Given
<1>5. Told'
  BY SameWorld DEF Inv, Told, FindingsAreReal, PreservedIsVouched, Able
<1>6. Seen'
  BY <1>1, <1>3 DEF Inv, Seen
<1>7. Repeated'
  BY <1>1, <1>2, <1>3 DEF Inv, Repeated, Redone
<1> QED
  BY <1>4, <1>5, <1>6, <1>7

LEMMA PageStays ==
  ASSUME Inv, world' = world, UNCHANGED <<order, late, noise>>, st' = st \/ st' = app.starts
  PROVE  Listed'
<1>1. app' = app
  BY SameWorld
<1>2. st' = [e \in ToSet(app.rows) |-> st'[e]]
  BY WorldSays DEF Inv, Listed, IsPage
<1> QED
  BY <1>1, <1>2 DEF Inv, Listed

\* What is in scope is the entity's as long as the session looks at it.
LEMMA ScopeSays ==
  ASSUME Inv, pc \in Moving, NEW n \in InScope
  PROVE  /\ n \in DOMAIN Page /\ Page[n].ent = order[n] /\ Page[n].state = st[order[n]]
         /\ Kept \/ OwnIdentity(spec) => order[n] = picked
<1>1. n \in DOMAIN Page /\ (Kept \/ OwnIdentity(spec) => order[n] = picked)
  <2>1. CASE scoped
    <3>1. spec # NoSpec /\ n \in Resolve(Page, spec)
      BY <2>1 DEF Inv, Session, InScope
    <3>2. n \in DOMAIN Page
      BY <3>1 DEF Resolve
    <3>3. OwnIdentity(spec) => order[n] = picked
      BY <3>1, ResolveSays DEF Inv
    <3> QED
      BY <2>1, <3>1, <3>2, <3>3 DEF Kept
  <2>2. CASE ~scoped
    <3>1. spec = NoSpec /\ picked = order[1]
      BY <2>2 DEF Inv, Session
    <3> QED
      BY <3>1 DEF InScope
  <2> QED
    BY <2>1, <2>2
<1> QED
  BY <1>1, PageSays DEF Inv

LEMMA ReadSays ==
  ASSUME Inv, pc \in Moving, NEW r
  PROVE  /\ Readable(r) => IsRead(r)
         /\ OwnIdentity(spec) => ReadFrom(r) \subseteq {picked}
<1>1. Readable(r) /\ Kept => r = None \/ r = st[picked]
  BY ScopeSays DEF Readable
<1>2. OwnIdentity(spec) => ReadFrom(r) \subseteq {picked}
  BY ScopeSays DEF ReadFrom
<1> QED
  BY <1>1, <1>2 DEF Inv, Steady, IsRead

\* Which entity an identity stands for does not depend on the states shown.
LEMMA KeptStays ==
  ASSUME Inv, UNCHANGED <<world, order, scoped, spec, picked>>
  PROVE  Kept => Kept'
<1>1. app' = app
  BY SameWorld
<1>2. DOMAIN Page = 1 .. Len(order) /\ Len(Page) = Len(order) /\ Len(order) \in Nat /\ DOMAIN order = 1 .. Len(order)
  BY PageSays DEF Inv
<1>3. DOMAIN Page' = DOMAIN Page /\ \A n \in DOMAIN Page : Page'[n].vals = Page[n].vals
  BY <1>1 DEF Page, Value
<1>4. Len(Page') = Len(Page)
  <2> DEFINE S == {Page'[n] : n \in 1 .. Len(order)}
  <2>1. Page' \in [1 .. Len(order) -> S]
    BY <1>2 DEF Page
  <2> HIDE DEF S
  <2> QED
    BY <1>2, <2>1, MakesList
<1>5. Page' = <<>> <=> Page = <<>>
  BY <1>2, <1>3
<1>6. \A j \in DOMAIN Page : Agree(spec', Page'[j]) = Agree(spec, Page[j])
  BY <1>3 DEF Agree
<1>7. Resolve(Page, spec)' = Resolve(Page, spec)
  <2> DEFINE byPrimary == {j \in DOMAIN Page : Page[j].vals[spec.slot] = spec.value}
             byAll     == {j \in DOMAIN Page : Agree(spec, Page[j]) = spec.witnesses}
             vouched   == {j \in byPrimary : spec.witnesses = {} \/ Agree(spec, Page[j]) # {}}
  <2>1. byPrimary' = byPrimary
    BY <1>3
  <2>2. byAll' = byAll
    BY <1>3, <1>6
  <2>3. vouched' = vouched
    BY <1>3, <1>6, <2>1
  <2>4. Resolve(Page, spec) =
          IF Len(Page) < 2 THEN {}
          ELSE IF Cardinality(byPrimary) = 1 THEN vouched
          ELSE IF byPrimary = {} /\ spec.witnesses # {} /\ Cardinality(byAll) = 1 THEN byAll
          ELSE {}
    BY DEF Resolve
  <2>5. Resolve(Page, spec)' =
          IF Len(Page') < 2 THEN {}
          ELSE IF Cardinality(byPrimary') = 1 THEN vouched'
          ELSE IF byPrimary' = {} /\ spec'.witnesses # {} /\ Cardinality(byAll') = 1 THEN byAll'
          ELSE {}
    BY DEF Resolve
  <2> HIDE DEF byPrimary, byAll, vouched
  <2> QED
    BY <1>4, <2>1, <2>2, <2>3, <2>4, <2>5
<1>8. OwnIdentity(spec)' <=> OwnIdentity(spec)
  BY <1>1 DEF OwnIdentity, Own
<1> QED
  BY <1>7, <1>8 DEF Kept

LEMMA SteadyStays ==
  ASSUME Inv, UNCHANGED <<world, cands, at, replaying, order, scoped, spec, picked>>, pc \in Moving,
         (noise' = noise /\ late' \in {late, NoMove}) \/ noise' = noise + 1
  PROVE  Steady'
<1>1. Kept => Kept'
  BY KeptStays
<1>2. (Breaks(Rule)' <=> Breaks(Rule)) /\ noise \in Nat
  BY SameRule DEF Inv, Listed
<1>3. Redone' => Kept
  BY <1>2 DEF Inv, Steady, Redone
<1>4. noise' <= 1 => Kept \/ Spent'
  BY <1>2 DEF Inv, Steady, Spent
<1> QED
  BY <1>1, <1>3, <1>4 DEF Steady

LEMMA RouteSays ==
  ASSUME NEW table, NEW from, NEW to, NEW p \in Routes(table, from, to)
  PROVE  p \in Seq(table.edges) /\ Leads(p, from, to)
<1>1. PICK n \in 0 .. Len(table.states) - 1 : p \in [1 .. n -> table.edges] /\ Leads(p, from, to)
  BY DEF Routes
<1>2. n \in Nat
  OBVIOUS
<1> QED
  BY <1>1, <1>2, MakesList

LEMMA GiveUpKeeps ==
  ASSUME Inv, pc \in {"drive"} \cup Moving, GiveUp
  PROVE  Inv'
<1>1. Deliver(Failed) /\ UNCHANGED pageVars
  BY DEF GiveUp
<1>2. world' = world /\ UNCHANGED <<order, st, late, noise>>
  BY <1>1 DEF Deliver, pageVars
<1>3. Listed' /\ noise <= noise'
  BY <1>2, PageStays DEF Inv, Listed
<1> QED
  BY <1>1, <1>2, <1>3, FailedSays, DeliverKeeps

-----------------------------------------------------------------------------
(* The steps of the run. *)

LEMMA PlanNextKeeps ==
  ASSUME Inv, PlanNext
  PROVE  Inv'
<1>1. pc = "next" /\ UNCHANGED <<world, cands>> /\ UNCHANGED <<order, st, late, noise>>
  BY DEF PlanNext, pageVars
<1>2. Listed'
  BY <1>1, PageStays
<1>3. /\ k = 1 /\ ~replaying /\ obs = <<>> /\ replaying \in BOOLEAN
      /\ spec = NoSpec /\ seen = {} /\ tagged = {} /\ clicked = {}
  BY <1>1 DEF Inv, Station, Session, Moving
<1>4. CASE Finish("unknown", "planning")
  BY <1>1, <1>2, <1>4, FinishKeeps
<1>5. ASSUME UNCHANGED <<at, traces, k, replaying, obs, scoped, driveVars>>,
             \/ pc' = "end"
             \/ /\ at \in DOMAIN cands /\ plan' = PlanExperiment(cands[at]) /\ plan' # <<>>
                /\ pc' = "bind"
      PROVE  Inv'
  <2>1. Given' /\ Repeated' /\ Seen' /\ Told'
    BY <1>1, <1>2, <1>5, FrameKeeps
  <2>2. Station'
    BY <1>1, <1>3, <1>5 DEF Station, Moving
  <2>3. Session' /\ Identity' /\ Steady' /\ Way' /\ Tried'
    BY <1>3, <1>5 DEF Session, Identity, Steady, Way, Tried, Moving, driveVars
  <2> QED
    BY <1>2, <2>1, <2>2, <2>3 DEF Inv
<1> QED
  BY <1>4, <1>5 DEF PlanNext, sessionVars

\* Bound: a dry run ends here, any other goes on to the drives.
LEMMA BoundKeeps ==
  ASSUME Inv, pc = "bind", NEW inside, Bound(inside), UNCHANGED <<world, cands, order, late, noise>>, Listed',
         OfMove \/ Rule.family = "numeric",
         OfMove /\ ~inside => order # <<>> /\ (Len(order) = 1 \/ ~app.alike)
  PROVE  Inv'
<1>1. /\ k = 1 /\ ~replaying /\ obs = <<>> /\ replaying \in BOOLEAN
      /\ spec = NoSpec /\ seen = {} /\ tagged = {} /\ clicked = {}
      /\ at \in DOMAIN cands /\ plan = PlanExperiment(cands[at]) /\ plan # <<>>
  BY DEF Inv, Station, Session, Moving
<1>2. CASE Finish("unknown", "dry run")
  BY <1>2, FinishKeeps
<1>3. CASE pc' = "drive" /\ scoped' = inside /\ UNCHANGED <<at, traces, plan, k, replaying, obs, driveVars>>
  <2>1. Given' /\ Repeated' /\ Seen' /\ Told'
    BY <1>3, FrameKeeps
  <2>2. (OfMove' <=> OfMove) /\ app' = app
    BY <1>3, SameRule, SameWorld
  <2>3. Len(<<>>) = 0
    OBVIOUS
  <2>4. Station'
    BY <1>1, <1>3, <2>2, <2>3 DEF Station, Moving
  <2>5. Session' /\ Identity' /\ Steady' /\ Way' /\ Tried'
    BY <1>1, <1>3, <2>2 DEF Session, Identity, Steady, Way, Tried, Moving, driveVars
  <2> QED
    BY <2>1, <2>4, <2>5 DEF Inv
<1> QED
  BY <1>2, <1>3 DEF Bound

LEMMA BindNumericBoundaryKeeps ==
  ASSUME Inv, BindNumericBoundary
  PROVE  Inv'
<1>1. pc = "bind" /\ Rule.family = "numeric" /\ UNCHANGED <<world, cands>> /\ UNCHANGED <<order, st, late, noise>>
  BY DEF BindNumericBoundary, pageVars
<1>2. Listed' /\ ~OfMove
  BY <1>1, PageStays DEF OfMove
<1>3. CASE Bound(FALSE)
  BY <1>1, <1>2, <1>3, BoundKeeps
<1>4. CASE Finish("unknown", "binding")
  BY <1>1, <1>2, <1>4, FinishKeeps
<1> QED
  BY <1>3, <1>4 DEF BindNumericBoundary

LEMMA BindStateTransitionKeeps ==
  ASSUME Inv, BindStateTransition
  PROVE  Inv'
<1>1. pc = "bind" /\ OfMove /\ UNCHANGED <<world, order, late, noise, cands>>
  BY DEF BindStateTransition, OfMove
<1>2. st' = st \/ st' = app.starts
  BY DEF BindStateTransition, Looks, FreshStates
<1>3. Listed'
  BY <1>1, <1>2, PageStays
<1>4. \/ Finish("unknown", "binding")
      \/ Bound(TRUE)
      \/ Mode(Page, app.alike) = "single" /\ Bound(FALSE)
  BY DEF BindStateTransition
<1>5. CASE Finish("unknown", "binding")
  BY <1>1, <1>3, <1>5, FinishKeeps
<1>6. CASE Bound(TRUE)
  BY <1>1, <1>3, <1>6, BoundKeeps
<1>7. CASE Mode(Page, app.alike) = "single" /\ Bound(FALSE)
  <2>1. order # <<>> /\ (Len(order) = 1 \/ ~app.alike)
    <3>1. Page # <<>> /\ (Len(Page) = 1 \/ ~app.alike)
      BY <1>7 DEF Mode
    <3>2. Len(Page) = Len(order) /\ Len(order) \in Nat /\ DOMAIN Page = 1 .. Len(order)
      BY PageSays DEF Inv
    <3>3. order # <<>>
      <4>1. ASSUME order = <<>> PROVE FALSE
        <5>1. Page = <<>>
          BY <4>1 DEF Page
        <5> QED
          BY <3>1, <5>1
      <4> QED
        BY <4>1
    <3> QED
      BY <3>1, <3>2, <3>3
  <2> QED
    BY <1>1, <1>3, <1>7, <2>1, BoundKeeps
<1> QED
  BY <1>4, <1>5, <1>6, <1>7

\* An app that charges what the text says is seen to break it only after the one
\* slow update, and not when it is tried again.
LEMMA DriveNumericKeeps ==
  ASSUME Inv, DriveNumeric
  PROVE  Inv'
<1>1. pc = "drive" /\ Rule.family = "numeric" /\ ~OfMove /\ UNCHANGED <<order, st, late>>
  BY DEF DriveNumeric, OfMove
<1>2. PICK run : /\ Deliver(run)
                 /\ \/ noise' = noise /\ run = Failed
                    \/ noise' = noise /\ \E v : \E figure \in {Fee(Rule, v), NoFigure} :
                         run = Ran([state |-> None, input |-> v], [state |-> None, number |-> figure])
                    \/ noise' = noise + 1
  BY DEF DriveNumeric
<1>3. noise \in Nat
  BY DEF Inv, Listed
<1>4. Listed' /\ noise <= noise'
  <2>1. app' = app
    BY <1>2, SameWorld DEF Deliver
  <2> QED
    BY <1>1, <1>2, <1>3, <2>1 DEF Inv, Listed
<1>5. ASSUME noise' <= 1, ~Breaks(Rule), Judged(run) = "violated" PROVE ~replaying /\ noise' = 1
  <2>1. app.fee = "right"
    BY <1>1, <1>5 DEF Breaks
  <2>2. noise' = noise + 1
    BY <1>1, <1>2, <1>5, <2>1, FigureSays, FailedSays
  <2> QED
    BY <1>3, <1>5, <2>2 DEF Inv, Repeated, Redone
<1> QED
  BY <1>1, <1>2, <1>4, <1>5, DeliverKeeps

\* A drive that begins: its session looks at one entity, or at the page.
LEMMA DriveBegins ==
  ASSUME Inv, pc = "drive", OfMove, pc' = "first", UNCHANGED <<world, cands, at, traces, order, st, late, noise>>,
         UNCHANGED <<plan, k, replaying, obs, scoped>>, picked' \in ToSet(app.rows), Identity', Kept',
         IF scoped THEN spec' # NoSpec ELSE spec' = NoSpec /\ picked' = order[1]
  PROVE  Inv'
<1>1. app' = app /\ (OfMove' <=> OfMove)
  BY SameWorld, SameRule
<1>2. Listed'
  BY PageStays
<1>3. Given' /\ Repeated' /\ Seen' /\ Told'
  BY <1>2, FrameKeeps
<1>4. Station'
  BY <1>1 DEF Inv, Station, Moving
<1>5. Steady'
  BY DEF Steady
<1>6. Session'
  BY <1>1 DEF Inv, Session, Moving
<1>7. Way' /\ Tried'
  BY DEF Way, Tried
<1> QED
  BY <1>2, <1>3, <1>4, <1>5, <1>6, <1>7 DEF Inv

LEMMA PickEntityKeeps ==
  ASSUME Inv, PickEntity
  PROVE  Inv'
<1>1. pc = "drive" /\ OfMove /\ scoped
  BY DEF PickEntity, OfMove
<1>2. CASE GiveUp
  BY <1>1, <1>2, GiveUpKeeps
<1>3. ASSUME ~GiveUp PROVE Inv'
  <2>1. /\ Mode(Page, app.alike) = "entities" /\ pc' = "first"
        /\ UNCHANGED <<world, cands, at, traces>> /\ UNCHANGED pageVars /\ UNCHANGED sessionVars
        /\ UNCHANGED <<seen, tagged, clicked>>
        /\ \E n \in DOMAIN Page : spec' = SpecOf(Page, n) /\ picked' = Page[n].ent
    BY <1>3 DEF PickEntity
  <2>2. PICK n \in DOMAIN Page : spec' = SpecOf(Page, n) /\ picked' = Page[n].ent
    BY <2>1
  <2>3. picked' = order[n] /\ picked' \in ToSet(app.rows)
    BY <2>2, PageSays DEF Inv
  <2>4. /\ spec'.slot \in ToSet(Slots) /\ spec' # NoSpec
        /\ Own(spec'.slot) => spec'.value = 50 + order[n]
        /\ \A w \in spec'.witnesses : w[1] \in ToSet(Slots) /\ (Own(w[1]) => w[2] = 50 + order[n])
        /\ \A m \in Resolve(Page, spec') : order[m] = order[n]
    BY <2>1, <2>2, SpecSays DEF Inv
  <2>5. seen' = {} /\ tagged' = {} /\ clicked' = {} /\ app' = app
    BY <1>1, <2>1, SameWorld DEF Inv, Session, Moving
  <2>6. Identity' /\ Kept'
    <3>1. Page' = Page /\ order' = order
      BY <2>1, <2>5 DEF Page, Value, pageVars
    <3>2. \A m \in Resolve(Page, spec)' : order'[m] = picked'
      BY <2>3, <2>4, <3>1
    <3> QED
      BY <2>3, <2>4, <2>5, <3>2 DEF Identity, Its, Own, Kept
  <2>7. UNCHANGED <<order, st, late, noise>> /\ UNCHANGED <<plan, k, replaying, obs, scoped>>
    BY <2>1 DEF pageVars, sessionVars
  <2> QED
    BY <1>1, <2>1, <2>3, <2>4, <2>6, <2>7, DriveBegins
<1> QED
  BY <1>2, <1>3

LEMMA WholePageKeeps ==
  ASSUME Inv, WholePage
  PROVE  Inv'
<1>1. /\ pc = "drive" /\ OfMove /\ ~scoped /\ pc' = "first" /\ UNCHANGED spec
      /\ UNCHANGED <<world, cands, at, traces>> /\ UNCHANGED <<order, st, late, noise>>
      /\ UNCHANGED <<plan, k, replaying, obs, scoped>>
  BY DEF WholePage, OfMove, pageVars, sessionVars
<1>2. order # <<>> /\ spec = NoSpec
  BY <1>1 DEF Inv, Session, Moving
<1>3. picked' = order[1]
  BY <1>2 DEF WholePage
<1>4. order[1] \in ToSet(app.rows)
  <2>1. 1 \in DOMAIN order
    BY <1>2 DEF Inv, Listed
  <2> QED
    BY <2>1, PageSays DEF Inv
<1>5. Identity' /\ Kept'
  BY <1>1, <1>2 DEF Identity, Kept
<1> QED
  BY <1>1, <1>2, <1>3, <1>4, <1>5, DriveBegins

\* The identity hangs on what the session is bound to.
LEMMA IdentityKeeps ==
  ASSUME Inv, world' = world, UNCHANGED <<spec, picked>>,
         OwnIdentity(spec) => seen' \subseteq seen \cup {picked},
         OwnIdentity(spec) => \/ clicked' \cup tagged' \subseteq clicked \cup tagged \cup {picked} /\ astray' = astray
                              \/ astray'
  PROVE  Identity'
<1>1. app' = app
  BY SameWorld
<1>2. OwnIdentity(spec)' <=> OwnIdentity(spec)
  BY <1>1 DEF OwnIdentity, Own
<1> QED
  BY <1>1, <1>2 DEF Inv, Identity, Its, Own

\* A step on the way: the drive goes on with the same entity.
LEMMA DriveGoesOn ==
  ASSUME Inv, pc \in Moving, pc' \in Moving, UNCHANGED <<world, cands, at, traces, order>>,
         UNCHANGED <<plan, k, replaying, obs, scoped, spec, picked>>, Identity', Listed',
         (noise' = noise /\ late' \in {late, NoMove}) \/ noise' = noise + 1, Way', Tried'
  PROVE  Inv'
<1>1. app' = app /\ (OfMove' <=> OfMove)
  BY SameWorld, SameRule
<1>2. Given' /\ Repeated' /\ Seen' /\ Told'
  BY FrameKeeps
<1>3. Station'
  BY <1>1 DEF Inv, Station, Moving
<1>4. Session'
  BY <1>1 DEF Inv, Session, Moving
<1>5. Steady'
  BY SteadyStays
<1> QED
  BY <1>2, <1>3, <1>4, <1>5 DEF Inv

\* What is read last and found in the planned state is tried from there.
LEMMA ArrivedSays ==
  ASSUME Inv, UNCHANGED <<cands, at, plan, k>>, pc' = IF path' = <<>> THEN "attempt" ELSE "step",
         path' \in Seq(Table.edges), Leads(path', cur', Planned.in),
         noise' <= 1 => AsRead' \/ Spent', Redone' => AsRead'
  PROVE  Way' /\ Tried'
<1>1. Planned' = Planned /\ Table' = Table
  BY DEF Planned, Table
<1>2. path' = <<>> => cur' = Planned.in
  BY DEF Leads
<1>3. Leads(path', cur', Planned'.in)
  BY <1>1
<1> QED
  BY <1>1, <1>2, <1>3 DEF Way, Tried

LEMMA SetOutKeeps ==
  ASSUME Inv, pc = "first", NEW r, SetOut(r), st' = st \/ st' = app.starts,
         noise <= 1 => r = st'[picked] \/ Spent, Redone => r = st'[picked]
  PROVE  Inv'
<1>1. /\ UNCHANGED <<world, cands, at, traces, order, late, noise>>
      /\ UNCHANGED <<plan, k, replaying, obs, scoped, spec, picked>>
      /\ UNCHANGED <<tagged, clicked, astray>>
      /\ cur' = r /\ seen' = ReadFrom(r) /\ pc' = IF path' = <<>> THEN "attempt" ELSE "step"
      /\ path' \in Routes(Table, r, Planned.in)
  BY DEF SetOut, sessionVars
<1>2. pc \in Moving /\ pc' \in Moving
  BY <1>1 DEF Moving
<1>3. Listed'
  BY <1>1, PageStays
<1>4. Identity'
  BY <1>1, <1>2, ReadSays, IdentityKeeps
<1>5. path' \in Seq(Table.edges) /\ Leads(path', cur', Planned.in)
  BY <1>1, RouteSays
<1>6. Way' /\ Tried'
  <2>1. (Redone' <=> Redone) /\ (Spent' <=> Spent) /\ (AsRead' <=> r = st'[picked])
    BY <1>1, SameRule DEF Redone, Spent, AsRead
  <2> QED
    BY <1>1, <1>5, <2>1, ArrivedSays
<1> QED
  BY <1>1, <1>2, <1>3, <1>4, <1>6, DriveGoesOn

LEMMA ReadFirstKeeps ==
  ASSUME Inv, ReadFirst
  PROVE  Inv'
<1>1. pc = "first" /\ pc \in Moving
  BY DEF ReadFirst, Moving
<1>2. PICK r : /\ Readable(r)
               /\ \/ r # None /\ SetOut(r) /\ st' = st
                  \/ GiveUp
                  \/ ~scoped /\ \E s \in FreshStates :
                       /\ st' = s
                       /\ \/ SetOut(s[order[1]])
                          \/ UNCHANGED <<order, late, shown, noise, rerenders>> /\ Deliver(Failed)
  BY DEF ReadFirst
<1>3. CASE r # None /\ SetOut(r) /\ st' = st
  <2>1. (noise <= 1 => r = st'[picked] \/ Spent) /\ (Redone => r = st'[picked])
    BY <1>1, <1>2, <1>3, ReadSays DEF IsRead
  <2> QED
    BY <1>1, <1>3, <2>1, SetOutKeeps
<1>4. CASE GiveUp
  BY <1>1, <1>4, GiveUpKeeps
<1>5. ASSUME ~scoped, NEW s \in FreshStates, st' = s, SetOut(s[order[1]]) PROVE Inv'
  <2>1. s[order[1]] = st'[picked] /\ (st' = st \/ st' = app.starts)
    BY <1>1, <1>5 DEF Inv, Session, FreshStates
  <2> QED
    BY <1>1, <1>5, <2>1, SetOutKeeps
<1>6. ASSUME NEW s \in FreshStates, st' = s, UNCHANGED <<order, late, noise>>, Deliver(Failed) PROVE Inv'
  <2>1. Listed'
    BY <1>6, PageStays DEF Deliver, FreshStates
  <2>2. noise <= noise'
    BY <1>6 DEF Inv, Listed
  <2> QED
    BY <1>1, <1>6, <2>1, <2>2, FailedSays, DeliverKeeps
<1> QED
  BY <1>2, <1>3, <1>4, <1>5, <1>6

LEMMA SettleKeeps ==
  ASSUME Inv, Settle
  PROVE  Inv'
<1>1. pc = "settle" /\ pc \in Moving
  BY DEF Settle, Moving
<1>2. PICK r : /\ Readable(r)
               /\ \/ GiveUp
                  \/ /\ r # None /\ r = path[1].next
                     /\ cur' = r /\ path' = Tail(path) /\ seen' = seen \cup ReadFrom(r)
                     /\ UNCHANGED <<tagged, clicked, astray>>
                     /\ pc' = IF path' = <<>> THEN "attempt" ELSE "step"
                     /\ UNCHANGED <<world, cands, at, traces, spec, picked>>
                     /\ UNCHANGED pageVars /\ UNCHANGED sessionVars
  BY DEF Settle
<1>3. CASE GiveUp
  BY <1>1, <1>3, GiveUpKeeps
<1>4. CASE ~GiveUp
  <2>1. /\ r = path[1].next /\ cur' = r /\ path' = Tail(path) /\ seen' = seen \cup ReadFrom(r)
        /\ UNCHANGED <<tagged, clicked, astray>> /\ r # None /\ IsRead(r)
        /\ pc' = IF path' = <<>> THEN "attempt" ELSE "step"
        /\ UNCHANGED <<world, cands, at, traces, spec, picked>> /\ UNCHANGED <<order, st, late, noise>>
        /\ UNCHANGED <<plan, k, replaying, obs, scoped>>
    BY <1>1, <1>2, <1>4, ReadSays DEF pageVars, sessionVars
  <2>2. path \in Seq(Table.edges) /\ path # <<>> /\ Leads(path, cur, Planned.in)
    BY <1>1 DEF Inv, Way
  <2>3. /\ Len(path) \in Nat /\ Len(path) >= 1 /\ path' \in Seq(Table.edges) /\ Len(path') = Len(path) - 1
        /\ \A n \in 1 .. Len(path) - 1 : path'[n] = path[n + 1]
    BY <2>1, <2>2
  <2>4. Leads(path', cur', Planned.in)
    <3>1. CASE Len(path) = 1
      <4>1. path' = <<>>
        BY <2>3, <3>1
      <4> QED
        BY <2>1, <2>2, <3>1, <4>1 DEF Leads
    <3>2. CASE Len(path) > 1
      <4>1. path' # <<>>
        BY <2>3, <3>2
      <4>2. path'[1] = path[2] /\ path[1].next = path[2].from /\ path'[Len(path')] = path[Len(path)]
        BY <2>2, <2>3, <3>2 DEF Leads
      <4>3. \A n \in 1 .. Len(path') - 1 : path'[n].next = path'[n + 1].from
        BY <2>2, <2>3 DEF Leads
      <4> QED
        BY <2>1, <2>2, <4>1, <4>2, <4>3 DEF Leads
    <3> QED
      BY <2>3, <3>1, <3>2
  <2>5. Way' /\ Tried'
    <3>1. (Redone' <=> Redone) /\ (Spent' <=> Spent) /\ (AsRead' <=> r = st[picked])
      BY <2>1, SameRule DEF Redone, Spent, AsRead
    <3> QED
      BY <2>1, <2>3, <2>4, <3>1, ArrivedSays DEF IsRead
  <2>6. Listed'
    BY <2>1, PageStays
  <2>7. pc' \in Moving /\ Identity'
    BY <1>1, <2>1, ReadSays, IdentityKeeps DEF Moving
  <2> QED
    BY <1>1, <2>1, <2>5, <2>6, <2>7, DriveGoesOn
<1> QED
  BY <1>3, <1>4

\* The node that is tagged is the entity's, and offers the move from what was read.
LEMMA LocateKeeps ==
  ASSUME Inv, NEW intent, NEW then, Locate(intent, then),
         \/ pc = "step" /\ then = "press"
         \/ pc = "attempt" /\ then = "click" /\ intent = Planned.intent
  PROVE  Inv'
<1>1. pc \in Moving /\ then \in Moving
  BY DEF Moving
<1>2. CASE GiveUp
  BY <1>1, <1>2, GiveUpKeeps
<1>3. CASE ~GiveUp
  <2>1. PICK n \in InScope :
          /\ intent \in Offered(Page[n].state) /\ tagged' = {Page[n].ent} /\ pc' = then
          /\ UNCHANGED <<world, cands, at, traces, spec, path, cur, picked, seen, clicked, astray>>
          /\ UNCHANGED <<order, st, late, noise>> /\ UNCHANGED <<plan, k, replaying, obs, scoped>>
    BY <1>3 DEF Locate, pageVars, sessionVars
  <2>2. Page[n].ent = order[n] /\ Page[n].state = st[order[n]] /\ (Kept \/ OwnIdentity(spec) => order[n] = picked)
    BY <1>1, ScopeSays
  <2>3. Listed' /\ Identity'
    BY <2>1, <2>2, PageStays, IdentityKeeps
  <2>4. /\ app' = app /\ Planned' = Planned /\ Table' = Table
        /\ (Spent' <=> Spent) /\ (Redone' <=> Redone) /\ (AsRead' <=> AsRead)
    BY <2>1, SameWorld, SameRule DEF Planned, Spent, Redone, AsRead
  <2>5. Way'
    BY <2>1, <2>4 DEF Inv, Way
  <2>6. Tried'
    <3>1. CASE then = "press"
      BY <2>1, <3>1 DEF Tried
    <3>2. CASE pc = "attempt" /\ then = "click" /\ intent = Planned.intent
      <4>1. Kept /\ AsRead => Held'
        <5>1. ASSUME Kept, AsRead PROVE tagged' = {picked} /\ Planned.intent \in Offered(cur)
          BY <2>1, <2>2, <3>2, <5>1 DEF AsRead
        <5>2. Offered(cur)' = Offered(cur)
          BY <2>1, <2>4 DEF Offered, Intents
        <5> QED
          BY <2>1, <2>4, <5>1, <5>2 DEF Held
      <4>2. /\ noise <= 1 => (AsRead \/ Spent) /\ (Kept \/ Spent)
            /\ Redone => AsRead /\ Kept
        BY <1>1, <3>2 DEF Inv, Tried, Steady
      <4> QED
        BY <2>1, <2>4, <3>2, <4>1, <4>2 DEF Tried
    <3> QED
      BY <3>1, <3>2
  <2> QED
    BY <1>1, <2>1, <2>3, <2>5, <2>6, DriveGoesOn
<1> QED
  BY <1>2, <1>3

\* A click moves what the node belongs to at once, or later and is counted.
LEMMA ClickSays ==
  ASSUME Inv, NEW intent, NEW e \in tagged, NEW i \in OnNode(e, intent), Moves(e, i)
  PROVE  /\ \/ UNCHANGED <<late, noise>> /\ \E to : st' = [st EXCEPT ![e] = to]
            \/ late = NoMove /\ noise' = noise + 1 /\ st' = st
         /\ picked \in ToSet(app.rows) /\ AsRead /\ Held /\ intent = Planned.intent /\ noise' = noise =>
              st'[picked] \in Moved(cur, intent)
<1>1. PICK to \in Moved(st[e], i) :
        \/ st' = [st EXCEPT ![e] = to] /\ UNCHANGED <<late, noise>>
        \/ late = NoMove /\ noise' = noise + 1 /\ st' = st
  BY DEF Moves
<1>2. noise + 1 # noise
  BY DEF Inv, Listed
<1>3. ASSUME picked \in ToSet(app.rows), AsRead, Held, intent = Planned.intent, noise' = noise
      PROVE  st'[picked] \in Moved(cur, intent)
  <2>1. e = picked /\ i = intent /\ st[e] = cur
    BY <1>3 DEF Held, AsRead, OnNode
  <2>2. st' = [st EXCEPT ![picked] = to]
    BY <1>1, <1>2, <1>3, <2>1
  <2>3. st'[picked] = to
    BY <1>3, <2>2 DEF Inv, Listed
  <2> QED
    BY <1>1, <2>1, <2>3
<1> QED
  BY <1>1, <1>3

LEMMA ClickKeeps ==
  ASSUME Inv, NEW intent, NEW then, Click(intent, then),
         \/ pc = "press" /\ then = "settle"
         \/ pc = "click" /\ then = "outcome" /\ intent = Planned.intent
  PROVE  Inv'
<1>1. pc \in Moving /\ then \in Moving
  BY DEF Moving
<1>2. CASE GiveUp
  BY <1>1, <1>2, GiveUpKeeps
<1>3. CASE ~GiveUp
  <2>1. /\ pc' = then /\ UNCHANGED <<world, order, cands, at, traces, spec, path, cur, picked, seen, astray>>
        /\ UNCHANGED <<plan, k, replaying, obs, scoped>>
    BY <1>3 DEF Click, sessionVars
  <2>2. picked \in ToSet(app.rows)
    BY <1>1 DEF Inv, Session
  <2>3. /\ \/ UNCHANGED <<late, noise>> /\ \E e, to : st' = [st EXCEPT ![e] = to]
           \/ late = NoMove /\ noise' = noise + 1 /\ st' = st
        /\ AsRead /\ Held /\ intent = Planned.intent /\ noise' = noise => st'[picked] \in Moved(cur, intent)
        /\ clicked' \cup tagged' \subseteq clicked \cup tagged
    <3>1. PICK e \in tagged : \E i \in OnNode(e, intent) :
            Moves(e, i) /\ clicked' = clicked \cup {e} /\ tagged' = {}
      BY <1>3 DEF Click
    <3> QED
      BY <2>2, <3>1, ClickSays
  <2>4. noise \in Nat /\ (late # NoMove => noise >= 1)
    BY DEF Inv, Listed
  <2>5. app' = app /\ Rule' = Rule /\ Table' = Table /\ Planned' = Planned /\ (Breaks(Rule)' <=> Breaks(Rule))
    BY <2>1, SameWorld, SameRule DEF Planned
  <2>6. Listed'
    <3>1. st' = [x \in ToSet(app.rows) |-> st'[x]]
      BY <2>3 DEF Inv, Listed
    <3> QED
      BY <2>1, <2>3, <2>4, <2>5, <3>1 DEF Inv, Listed
  <2>7. Identity'
    BY <2>1, <2>3, IdentityKeeps
  <2>8. Way'
    <3>1. CASE pc = "press" /\ then = "settle"
      <4>1. path \in Seq(Table.edges) /\ path # <<>> /\ Leads(path, cur, Planned.in)
        BY <3>1 DEF Inv, Way
      <4>2. path' \in Seq(Table'.edges) /\ path' # <<>> /\ Leads(path', cur', Planned'.in)
        BY <2>1, <2>5, <4>1
      <4> QED
        BY <2>1, <3>1, <4>2 DEF Way
    <3>2. CASE pc = "click" /\ then = "outcome"
      BY <2>1, <2>5, <3>2 DEF Inv, Way
    <3> QED
      BY <3>1, <3>2
  <2>9. Tried'
    <3>1. CASE then = "settle"
      BY <2>1, <3>1 DEF Tried
    <3>2. CASE pc = "click" /\ then = "outcome" /\ intent = Planned.intent
      <4>1. (noise <= 1 => (AsRead /\ Held) \/ Spent) /\ (Redone => AsRead /\ Held /\ Spent)
        BY <1>1, <3>2 DEF Inv, Tried, Repeated, Station, Spent
      <4>2. Went' <=> st'[picked] \in Moved(cur, Planned.intent)
        BY <2>1, <2>5, SameWorld DEF Went
      <4>3. AsRead' <=> st'[picked] = cur
        BY <2>1 DEF AsRead
      <4>4. noise = 0 => ~Spent
        BY DEF Spent
      <4>5. CASE noise' = noise
        <5>1. late' = late
          BY <2>3, <2>4, <4>5
        <5>2. (Spent' <=> Spent) /\ (Redone' <=> Redone)
          BY <2>1, <2>5, <4>5, <5>1 DEF Spent, Redone
        <5>3. AsRead /\ Held => Went'
          BY <2>3, <3>2, <4>2, <4>5
        <5> QED
          BY <2>1, <2>4, <3>2, <4>1, <4>4, <4>5, <5>2, <5>3 DEF Tried
      <4>6. CASE noise' = noise + 1 /\ st' = st
        <5>1. noise' <= 1 => noise = 0 /\ noise <= 1
          BY <2>4, <4>6
        <5>2. noise' <= 1 => AsRead'
          BY <4>1, <4>3, <4>4, <4>6, <5>1 DEF AsRead
        <5>3. noise' # 0 /\ (Redone' => noise' <= 1)
          BY <2>4, <4>6 DEF Redone
        <5> QED
          BY <2>1, <3>2, <5>2, <5>3 DEF Tried
      <4> QED
        BY <2>3, <4>5, <4>6
    <3> QED
      BY <3>1, <3>2
  <2>10. (noise' = noise /\ late' \in {late, NoMove}) \/ noise' = noise + 1
    BY <2>3
  <2> QED
    BY <1>1, <2>1, <2>6, <2>7, <2>8, <2>9, <2>10, DriveGoesOn
<1> QED
  BY <1>2, <1>3

LEMMA AttemptsKeep ==
  ASSUME Inv, LocateStep \/ ClickStep \/ LocateMove \/ ClickMove
  PROVE  Inv'
<1>1. CASE LocateStep
  BY <1>1, LocateKeeps DEF LocateStep
<1>2. CASE ClickStep
  BY <1>2, ClickKeeps DEF ClickStep
<1>3. CASE LocateMove
  BY <1>3, LocateKeeps DEF LocateMove
<1>4. CASE ClickMove
  BY <1>4, ClickKeeps DEF ClickMove
<1> QED
  BY <1>1, <1>2, <1>3, <1>4

LEMMA ReadOutcomeKeeps ==
  ASSUME Inv, ReadOutcome
  PROVE  Inv'
<1>1. pc = "outcome" /\ pc \in Moving /\ UNCHANGED <<order, st, late, noise>>
  BY DEF ReadOutcome, Moving, pageVars
<1>2. PICK r : /\ Readable(r)
               /\ \/ Deliver(Failed)
                  \/ Deliver(Ran([state |-> cur, input |-> NoFigure], [state |-> r, number |-> NoFigure]))
  BY DEF ReadOutcome
<1>3. Listed' /\ noise <= noise'
  BY <1>1, <1>2, PageStays DEF Deliver, Inv, Listed
<1>4. CASE Deliver(Failed)
  BY <1>1, <1>3, <1>4, FailedSays, DeliverKeeps
<1>5. CASE Deliver(Ran([state |-> cur, input |-> NoFigure], [state |-> r, number |-> NoFigure]))
  <2> DEFINE run == Ran([state |-> cur, input |-> NoFigure], [state |-> r, number |-> NoFigure])
  <2>1. IsRead(r)
    BY <1>1, <1>2, ReadSays
  <2>2. /\ noise <= 1 /\ ~Breaks(Rule) /\ Judged(run) = "violated" =>
             ~replaying /\ noise = 1 /\ late = NoMove
        /\ noise = 0 /\ Judged(run) = "preserved" => ~Breaks(Rule)
        /\ noise = 0 /\ Observation(run).moved => Able(Rule)
    BY <1>1, <2>1, OutcomeSays DEF Inv
  <2>3. Deliver(run)
    BY <1>5
  <2> HIDE DEF run
  <2> QED
    BY <1>1, <1>3, <2>2, <2>3, DeliverKeeps
<1> QED
  BY <1>2, <1>4, <1>5

\* A verdict is what the observations allow.
LEMMA ConcludeKeeps ==
  ASSUME Inv, Conclude
  PROVE  Inv'
<1>1. /\ pc = "restore" /\ UNCHANGED <<world, cands>> /\ UNCHANGED <<order, st, late, noise>>
      /\ Finish(Verdict, Why)
  BY DEF Conclude, pageVars
<1>2. Listed'
  BY <1>1, PageStays
<1>3. ASSUME Verdict = "violated", noise <= 1 PROVE Breaks(Rule)
  <2>1. PICK n \in DOMAIN obs : obs[n].reproduced
    BY <1>3 DEF Verdict, Proven
  <2> QED
    BY <1>3, <2>1 DEF Inv, Seen
<1>4. ASSUME Verdict = "preserved", noise = 0, OfMove PROVE ~Breaks(Rule) /\ Able(Rule)
  <2>1. Saw("preserved") /\ Vouched
    BY <1>4 DEF Verdict
  <2>2. ~Breaks(Rule)
    BY <1>4, <2>1 DEF Saw, Inv, Seen
  <2>3. at \in DOMAIN cands /\ plan = PlanExperiment(cands[at]) /\ plan # <<>> /\ Len(obs) = 2
    BY <1>1, <1>4 DEF Inv, Station
  <2>4. 2 \in DOMAIN plan /\ plan[2].mustReach # {}
    BY <1>4, <2>3, PlanSays DEF Inv
  <2>5. 2 \in DOMAIN obs
    BY <2>3, IsListSays DEF Inv, Seen
  <2>6. obs[2].moved
    BY <2>1, <2>4 DEF Vouched
  <2> QED
    BY <1>4, <2>2, <2>5, <2>6 DEF Inv, Seen
<1> QED
  BY <1>1, <1>2, <1>3, <1>4, FinishKeeps

-----------------------------------------------------------------------------
(* What the page does on its own. *)

\* The list in another order, or without one of its entries.
LEMMA RerenderKeeps ==
  ASSUME Inv, Rerender
  PROVE  Inv'
<1>1. /\ Len(order) > 1 /\ app.alike /\ UNCHANGED <<world, cands, at, traces, st, late, pc, path, cur>>
      /\ UNCHANGED <<plan, k, replaying, obs, scoped, spec, picked, seen, clicked>>
      /\ pc \in {"drive"} \cup Moving /\ OfMove
      /\ (tagged' \subseteq tagged /\ astray' = astray) \/ astray'
      /\ tagged = {} => tagged' = {}
      /\ \/ noise' = noise /\ tagged' \subseteq tagged /\ (spec = NoSpec \/ OwnIdentity(spec))
         \/ noise' = noise + 1
  BY DEF Rerender, unmoved, sessionVars, inDrive, Driving, Moving, OfMove, Inv, Station
<1>2. Len(order) \in Nat /\ ToSet(order) \subseteq ToSet(app.rows) /\ ToSet(order) \subseteq Nat
  <2>1. order \in Seq(Nat) /\ ToSet(order) \subseteq ToSet(app.rows)
    BY DEF Inv, Listed
  <2>2. ToSet(order) \subseteq Nat
    BY <2>1 DEF ToSet
  <2> QED
    BY <2>1, <2>2
<1>3. PICK n \in {Len(order) - 1, Len(order)} : order' \in [1 .. n -> ToSet(order)] /\ IsInjective(order')
  BY DEF Rerender
<1>4. n \in Nat /\ n >= 1
  BY <1>1, <1>2, <1>3
<1>5. /\ order' \in Seq(ToSet(order)) /\ Len(order') = n /\ DOMAIN order' = 1 .. n
      /\ ToSet(order') \subseteq ToSet(order)
  <2>1. order' \in Seq(ToSet(order)) /\ Len(order') = n /\ DOMAIN order' = 1 .. n
    BY <1>3, <1>4, MakesList
  <2>2. \A m \in DOMAIN order' : order'[m] \in ToSet(order)
    BY <1>3
  <2> QED
    BY <2>1, <2>2 DEF ToSet
<1>6. app' = app /\ Rule' = Rule /\ Table' = Table /\ Planned' = Planned /\ (OfMove' <=> OfMove)
      /\ (Breaks(Rule)' <=> Breaks(Rule))
  BY <1>1, SameWorld, SameRule DEF Planned
<1>7. Listed'
  <2>1. order' \in Seq(Nat)
    BY <1>2, <1>3, <1>4, MakesList
  <2> QED
    BY <1>1, <1>5, <1>6, <2>1 DEF Inv, Listed
<1>8. Given' /\ Repeated' /\ Seen' /\ Told'
  BY <1>1, <1>7, FrameKeeps
<1>9. Station'
  BY <1>1, <1>6 DEF Inv, Station, Moving
<1>10. Session'
  <2>1. Len(order) # 1
    <3>1. \A size \in Nat : size > 1 => size # 1
      OBVIOUS
    <3> QED
      BY <1>1, <1>2, <3>1
  <2>2. scoped
    BY <1>1, <2>1, Zenon DEF Inv, Session
  <2>3. /\ pc \notin Moving \cup {"thrown"} => spec = NoSpec /\ seen = {} /\ tagged = {} /\ clicked = {}
        /\ pc \in Moving => picked \in ToSet(app.rows) /\ spec # NoSpec
    BY <2>2 DEF Inv, Session
  <2> QED
    BY <1>1, <1>6, <2>2, <2>3 DEF Session
<1>11. Identity'
  <2>1. (clicked' \cup tagged' \subseteq clicked \cup tagged \cup {picked} /\ astray' = astray) \/ astray'
    BY <1>1
  <2> QED
    BY <1>1, <2>1, IdentityKeeps
<1>12. Way'
  BY <1>1, <1>6 DEF Inv, Way
<1>13. noise \in Nat /\ (late # NoMove => noise >= 1)
  BY DEF Inv, Listed
<1>14. Tried' /\ Steady'
  <2>1. CASE noise' = noise /\ tagged' \subseteq tagged /\ (spec = NoSpec \/ OwnIdentity(spec))
    <3>1. /\ (Went' <=> Went) /\ (AsRead' <=> AsRead) /\ (Spent' <=> Spent) /\ (Redone' <=> Redone)
          /\ Offered(cur)' = Offered(cur)
      BY <1>1, <1>6, <2>1, SameWorld DEF Went, AsRead, Spent, Redone, Offered
    <3>2. Held => Held'
      BY <1>1, <1>6, <2>1, <3>1 DEF Held
    <3>3. Tried'
      BY <1>1, <2>1, <3>1, <3>2 DEF Inv, Tried
    <3>4. pc \in Moving => Kept'
      BY <1>1, <1>6, <2>1 DEF Inv, Session, Kept, OwnIdentity, Own
    <3> QED
      BY <1>1, <3>3, <3>4 DEF Steady
  <2>2. CASE noise' = noise + 1
    <3>1. noise' <= 1 => Spent'
      BY <1>1, <1>13, <2>2 DEF Spent
    <3>2. noise' # 0
      BY <1>13, <2>2
    <3>3. ~Redone'
      BY <1>1, <1>6, <1>13, <2>2 DEF Redone, Inv, Repeated
    <3> QED
      BY <3>1, <3>2, <3>3 DEF Tried, Steady
  <2> QED
    BY <1>1, <2>1, <2>2
<1> QED
  BY <1>7, <1>8, <1>9, <1>10, <1>11, <1>12, <1>14 DEF Inv

\* The one disturbance: it is over, and it is not one of a run that is repeated.
LEMMA DisturbedKeeps ==
  ASSUME Inv, UNCHANGED <<world, cands, at, traces, order, pc, path, cur>>,
         UNCHANGED <<plan, k, replaying, obs, scoped, spec, picked, seen, tagged, clicked, astray>>,
         pc \in {"drive"} \cup Moving, OfMove,
         st' = [e \in ToSet(app.rows) |-> st'[e]],
         \/ late # NoMove /\ late' = NoMove /\ noise' = noise
         \/ late' = late /\ noise' = noise + 1
  PROVE  Inv'
<1>1. app' = app /\ Rule' = Rule /\ Table' = Table /\ Planned' = Planned /\ (OfMove' <=> OfMove)
      /\ (Breaks(Rule)' <=> Breaks(Rule))
  BY SameWorld, SameRule DEF Planned
<1>2. noise \in Nat /\ (late # NoMove => noise >= 1)
  BY DEF Inv, Listed
<1>3. Listed'
  BY <1>1, <1>2 DEF Inv, Listed
<1>4. Given' /\ Repeated' /\ Seen' /\ Told'
  BY <1>3, FrameKeeps
<1>5. Station'
  BY <1>1 DEF Inv, Station, Moving
<1>6. Session'
  BY <1>1 DEF Inv, Session, Moving
<1>7. Identity'
  BY IdentityKeeps
<1>8. Way'
  BY <1>1 DEF Inv, Way
<1>9. Tried'
  <2>1. noise' <= 1 => Spent'
    BY <1>2 DEF Spent
  <2>2. noise' # 0
    BY <1>2
  <2>3. ~Redone'
    <3>1. SUFFICES ASSUME Redone' PROVE FALSE
      OBVIOUS
    <3>2. noise' <= 1 /\ replaying /\ ~Breaks(Rule)
      BY <1>1, <3>1 DEF Redone
    <3>3. noise = 1 /\ late = NoMove
      BY <1>2, <3>2 DEF Inv, Repeated, Redone
    <3> QED
      BY <3>2, <3>3
  <2> QED
    BY <2>1, <2>2, <2>3 DEF Tried
<1>10. Steady'
  <2>1. pc \in Moving => Steady'
    BY SteadyStays
  <2> QED
    BY <2>1 DEF Steady
<1> QED
  BY <1>3, <1>4, <1>5, <1>6, <1>7, <1>8, <1>9, <1>10 DEF Inv

LEMMA LandKeeps ==
  ASSUME Inv, Land
  PROVE  Inv'
<1>1. /\ UNCHANGED <<world, cands, at, traces, order, pc, path, cur>>
      /\ UNCHANGED <<plan, k, replaying, obs, scoped, spec, picked, seen, tagged, clicked, astray>>
      /\ late # NoMove /\ late' = NoMove /\ noise' = noise /\ st' = [st EXCEPT ![late.ent] = late.next]
      /\ pc \in {"drive"} \cup Moving /\ OfMove
  BY DEF Land, unmoved, sessionVars, inDrive, Driving, Moving, OfMove, Inv, Station
<1>2. st' = [e \in ToSet(app.rows) |-> st'[e]]
  BY <1>1 DEF Inv, Listed
<1> QED
  BY <1>1, <1>2, DisturbedKeeps

LEMMA SomebodyElseKeeps ==
  ASSUME Inv, SomebodyElse
  PROVE  Inv'
<1>1. /\ UNCHANGED <<world, cands, at, traces, order, pc, path, cur>>
      /\ UNCHANGED <<plan, k, replaying, obs, scoped, spec, picked, seen, tagged, clicked, astray>>
      /\ late' = late /\ noise' = noise + 1 /\ \E e, to : st' = [st EXCEPT ![e] = to]
      /\ pc \in {"drive"} \cup Moving /\ OfMove
  BY DEF SomebodyElse, unmoved, sessionVars, inDrive, Driving, Moving, OfMove, Inv, Station
<1>2. st' = [e \in ToSet(app.rows) |-> st'[e]]
  BY <1>1 DEF Inv, Listed
<1> QED
  BY <1>1, <1>2, DisturbedKeeps

LEMMA PageClosesKeeps ==
  ASSUME Inv, PageCloses
  PROVE  Inv'
<1>1. /\ pc' = "thrown" /\ UNCHANGED <<world, cands, at, traces, order, st, late, noise>>
      /\ UNCHANGED <<plan, k, replaying, obs, scoped, spec, picked, seen, tagged, clicked, astray>>
  BY DEF PageCloses, pageVars, sessionVars, driveVars
<1>2. Listed'
  BY <1>1, PageStays
<1>3. Given' /\ Repeated' /\ Seen' /\ Told'
  BY <1>1, <1>2, FrameKeeps
<1>4. Station' /\ Session' /\ Steady' /\ Way' /\ Tried'
  BY <1>1 DEF Inv, Station, Session, Steady, Way, Tried, Moving
<1>5. Identity'
  BY <1>1, IdentityKeeps
<1> QED
  BY <1>2, <1>3, <1>4, <1>5 DEF Inv

-----------------------------------------------------------------------------
(* The theorems. *)

LEMMA RulesStarts == Init => Inv
<1>1. SUFFICES ASSUME Init PROVE Inv
  OBVIOUS
<1>2. /\ order = app.rows /\ st = app.starts /\ late = NoMove /\ noise = 0
      /\ pc = "next" /\ traces = <<>> /\ k = 1 /\ replaying = FALSE /\ obs = <<>> /\ spec = NoSpec
      /\ seen = {} /\ tagged = {} /\ clicked = {}
  BY <1>1 DEF Init, app
<1>3. Given
  BY <1>1 DEF Init, Given
<1>4. Listed
  <2>1. /\ app.rows \in Seq(Nat)
        /\ app.starts \in [ToSet(app.rows) -> ToSet(app.table.states)]
    BY <1>3, WorldSays DEF IsPage
  <2> QED
    BY <1>2, <2>1 DEF Listed
<1>5. IsList(<<>>) /\ DOMAIN <<>> = {}
  BY DEF IsList
<1>6. Station /\ Session /\ Identity /\ Steady
  BY <1>2 DEF Station, Session, Identity, Steady, Moving
<1>7. Way /\ Repeated /\ Tried
  BY <1>2 DEF Way, Repeated, Redone, Tried
<1>8. Seen /\ Told
  BY <1>2, <1>5 DEF Seen, Told, FindingsAreReal, PreservedIsVouched
<1> QED
  BY <1>3, <1>4, <1>6, <1>7, <1>8 DEF Inv

LEMMA RulesStays == Inv /\ [Next]_vars => Inv'
<1>1. SUFFICES ASSUME Inv, [Next]_vars PROVE Inv'
  OBVIOUS
<1>2. CASE PlanNext
  BY <1>1, <1>2, PlanNextKeeps
<1>3. CASE BindNumericBoundary
  BY <1>1, <1>3, BindNumericBoundaryKeeps
<1>4. CASE BindStateTransition
  BY <1>1, <1>4, BindStateTransitionKeeps
<1>5. CASE DriveNumeric
  BY <1>1, <1>5, DriveNumericKeeps
<1>6. CASE PickEntity
  BY <1>1, <1>6, PickEntityKeeps
<1>7. CASE WholePage
  BY <1>1, <1>7, WholePageKeeps
<1>8. CASE ReadFirst
  BY <1>1, <1>8, ReadFirstKeeps
<1>9. CASE LocateStep \/ ClickStep \/ LocateMove \/ ClickMove
  BY <1>1, <1>9, AttemptsKeep
<1>10. CASE Settle
  BY <1>1, <1>10, SettleKeeps
<1>12. CASE ReadOutcome
  BY <1>1, <1>12, ReadOutcomeKeeps
<1>13. CASE Conclude
  BY <1>1, <1>13, ConcludeKeeps
<1>14. CASE Rerender
  BY <1>1, <1>14, RerenderKeeps
<1>15. CASE Land
  BY <1>1, <1>15, LandKeeps
<1>16. CASE SomebodyElse
  BY <1>1, <1>16, SomebodyElseKeeps
<1>17. CASE PageCloses
  BY <1>1, <1>17, PageClosesKeeps
<1>18. CASE UNCHANGED vars
  <2>1. /\ UNCHANGED <<world, cands, at, traces, order, st, late, noise, pc, path, cur>>
        /\ UNCHANGED <<plan, k, replaying, obs, scoped, spec, picked, seen, tagged, clicked, astray>>
    BY <1>18 DEF vars, pageVars, sessionVars, driveVars
  <2>2. Listed' /\ Identity'
    BY <1>1, <2>1, PageStays, IdentityKeeps
  <2>3. Given' /\ Repeated' /\ Seen' /\ Told'
    BY <1>1, <2>1, <2>2, FrameKeeps
  <2>4. app' = app /\ Rule' = Rule /\ Table' = Table /\ Planned' = Planned /\ (OfMove' <=> OfMove)
        /\ (Breaks(Rule)' <=> Breaks(Rule))
    BY <2>1, SameWorld, SameRule DEF Planned
  <2>5. Station' /\ Session' /\ Way'
    BY <1>1, <2>1, <2>4 DEF Inv, Station, Session, Way, Moving
  <2>6. /\ (Went' <=> Went) /\ (AsRead' <=> AsRead) /\ (Spent' <=> Spent) /\ (Redone' <=> Redone)
        /\ (Held' <=> Held)
    BY <2>1, <2>4, SameWorld DEF Went, AsRead, Spent, Redone, Held, Offered
  <2>7. Tried'
    BY <1>1, <2>1, <2>6 DEF Inv, Tried
  <2>8. Steady'
    <3>1. pc \in Moving => Steady'
      BY <1>1, <2>1, SteadyStays
    <3> QED
      BY <2>1, <3>1 DEF Steady
  <2> QED
    BY <2>2, <2>3, <2>5, <2>7, <2>8 DEF Inv
<1> QED
  BY <1>1, <1>2, <1>3, <1>4, <1>5, <1>6, <1>7, <1>8, <1>9, <1>10, <1>12, <1>13, <1>14, <1>15,
     <1>16, <1>17, <1>18 DEF Next, Step

LEMMA SameEntityFollows == Inv => SameEntity
<1>1. SUFFICES ASSUME Inv, spec # NoSpec, OwnIdentity(spec)
               PROVE  /\ seen \subseteq {picked} /\ (clicked \cup tagged \subseteq {picked} \/ astray)
                      /\ \A n \in Resolve(Page, spec) : Page[n].ent = picked
  BY DEF SameEntity
<1>2. seen \subseteq {picked} /\ (clicked \cup tagged \subseteq {picked} \/ astray)
  BY <1>1 DEF Inv, Identity
<1>3. ASSUME NEW n \in Resolve(Page, spec) PROVE Page[n].ent = picked
  BY <1>1, ResolveSays, PageSays DEF Inv
<1> QED
  BY <1>2, <1>3

\* "Observe the same entity or nothing" (drivers.ts): whatever the list does
\* meanwhile, a drive whose identity no value of a position can confirm reads the
\* entity it chose and nothing else, and clicks nothing else unless the list reused
\* the node between finding and clicking it.
THEOREM SameEntityHolds == Spec => []SameEntity
<1>1. Spec => []Inv
  BY RulesStarts, RulesStays, PTL DEF Spec
<1> QED
  BY <1>1, SameEntityFollows, PTL

\* "Proof means it happens again, not once" (runtime.ts): one late answer, one move
\* of another visitor or one rendering that misleads, in the whole run, makes no
\* finding of a rule the app keeps.
THEOREM FindingsAreRealHolds == Spec => []FindingsAreReal
<1>1. Spec => []Inv
  BY RulesStarts, RulesStays, PTL DEF Spec
<1>2. Inv => FindingsAreReal
  BY DEF Inv, Told
<1> QED
  BY <1>1, <1>2, PTL

\* "A refusal can't be told from a no-op" (runtime.ts): when nothing interferes,
\* a move is reported as refused only if the app refuses it, and only on a page
\* that is able to make a move, or where an idle one must vouch for it.
THEOREM PreservedIsVouchedHolds == Spec => []PreservedIsVouched
<1>1. Spec => []Inv
  BY RulesStarts, RulesStays, PTL DEF Spec
<1>2. Inv => PreservedIsVouched
  BY DEF Inv, Told
<1> QED
  BY <1>1, <1>2, PTL

-----------------------------------------------------------------------------
(* Loops over lists: what they make exists, and holds what every turn keeps. *)

\* Induction up to a bound.
LEMMA Climbs ==
  ASSUME NEW L \in Nat, NEW A, 0 \in A, \A n \in 0 .. L - 1 : n \in A => n + 1 \in A
  PROVE  \A n \in 0 .. L : n \in A
<1>1. SUFFICES ASSUME (0 .. L) \ A # {} PROVE FALSE
  OBVIOUS
<1>2. PICK n \in (0 .. L) \ A : \A m \in (0 .. L) \ A : n <= m
  <2>1. (0 .. L) \ A \subseteq Nat
    OBVIOUS
  <2> QED
    BY <1>1, <2>1, LeastExists
<1>3. n - 1 \in A /\ n - 1 \in 0 .. L - 1 /\ n = n - 1 + 1
  BY <1>2
<1> QED
  BY <1>2, <1>3

\* A loop of L turns over values in S.
Steps(L, S) == [1 .. L -> [S -> S]]
Loops(L, S, start, step, made) ==
  /\ made \in [0 .. L -> S]
  /\ made[0] = start /\ \A n \in 1 .. L : made[n] = step[n][made[n - 1]]

\* A loop makes one value after each of its turns.
LEMMA LoopsEnd ==
  ASSUME NEW L \in Nat, NEW S, NEW start \in S, NEW step \in Steps(L, S)
  PROVE  \E made : Loops(L, S, start, step, made)
<1> USE DEF Steps
<1> DEFINE upTo(n, made) == made[0] = start /\ \A z \in 1 .. n : made[z] = step[z][made[z - 1]]
           A == {n \in 0 .. L : \E made \in [0 .. n -> S] : upTo(n, made)}
<1>1. 0 \in A
  <2>1. [z \in 0 .. 0 |-> start] \in [0 .. 0 -> S] /\ upTo(0, [z \in 0 .. 0 |-> start])
    OBVIOUS
  <2>2. \E made \in [0 .. 0 -> S] : upTo(0, made)
    BY <2>1
  <2> QED
    BY <2>2
<1>2. ASSUME NEW n \in 0 .. L - 1, n \in A PROVE n + 1 \in A
  <2>1. PICK made \in [0 .. n -> S] : upTo(n, made)
    BY <1>2
  <2>2. step[n + 1][made[n]] \in S
    BY <2>1
  <2> DEFINE more == [z \in 0 .. n + 1 |-> IF z <= n THEN made[z] ELSE step[n + 1][made[n]]]
  <2>3. more \in [0 .. n + 1 -> S]
    BY <2>1, <2>2
  <2>4. more[0] = start
    BY <2>1
  <2>5. ASSUME NEW z \in 1 .. n + 1 PROVE more[z] = step[z][more[z - 1]]
    <3>1. CASE z <= n
      <4>1. more[z] = made[z] /\ more[z - 1] = made[z - 1] /\ z \in 1 .. n
        BY <3>1
      <4> QED
        BY <2>1, <4>1
    <3>2. CASE z = n + 1
      <4>1. more[z] = step[n + 1][made[n]] /\ more[z - 1] = made[n]
        BY <3>2
      <4> QED
        BY <3>2, <4>1
    <3> QED
      BY <3>1, <3>2
  <2> HIDE DEF more
  <2>6. upTo(n + 1, more)
    BY <2>4, <2>5
  <2> QED
    BY <2>3, <2>6
<1> HIDE DEF A
<1>3. 0 .. L \subseteq A
  BY <1>1, <1>2, Climbs
<1>4. L \in A
  BY <1>3
<1> QED
  BY <1>4 DEF A, Loops

\* What Those keeps, element by element.
LEMMA ThoseUnrolls ==
  ASSUME NEW T, NEW s \in Seq(T), NEW places
  PROVE  \E kept :
           /\ kept[0] = <<>>
           /\ \A n \in 1 .. Len(s) :
                kept[n] = IF n \in places THEN Append(kept[n - 1], s[n]) ELSE kept[n - 1]
           /\ \A n \in 0 .. Len(s) : kept[n] \in Seq(T)
           /\ Those(s, places) = kept[Len(s)]
<1> DEFINE L == Len(s)
           S == Seq(T)
           then(n, made) == IF n \in places THEN Append(made, s[n]) ELSE made
           body(g) == [n \in 0 .. L |-> IF n = 0 THEN <<>> ELSE then(n, g[n - 1])]
           kept == CHOOSE g : g = body(g)
           step == [n \in 1 .. L |-> [made \in S |-> then(n, made)]]
<1>1. L \in Nat /\ \A n \in 1 .. L : s[n] \in T
  OBVIOUS
<1>2. <<>> \in S /\ \A n \in 1 .. L : \A made \in S : then(n, made) \in S
  BY <1>1
<1>7. Those(s, places) = kept[L]
  BY DEF Those
<1> HIDE DEF L, S, then
<1>3. PICK g : Loops(L, S, <<>>, step, g)
  <2>1. step \in Steps(L, S)
    BY <1>2 DEF Steps
  <2> HIDE DEF step
  <2> QED
    BY <1>1, <1>2, <2>1, LoopsEnd
<1>4. \A n \in 1 .. L : g[n] = then(n, g[n - 1])
  <2> TAKE n \in 1 .. L
  <2>1. n - 1 \in 0 .. L
    BY <1>1
  <2>2. g[n - 1] \in S
    BY <1>3, <2>1 DEF Loops
  <2> QED
    BY <1>3, <2>2 DEF Loops
<1>5. g = body(g)
  BY <1>1, <1>3, <1>4 DEF Loops
<1>6. kept = body(kept)
  BY <1>5
<1> HIDE DEF kept
<1>8. kept[0] = <<>> /\ \A n \in 1 .. L : kept[n] = then(n, kept[n - 1])
  BY <1>1, <1>6
<1> DEFINE A == {n \in 0 .. L : kept[n] \in S}
<1>9. 0 \in A
  BY <1>8, <1>1, <1>2
<1>10. ASSUME NEW n \in 0 .. L - 1, n \in A PROVE n + 1 \in A
  <2>1. n + 1 \in 1 .. L /\ n + 1 - 1 = n /\ kept[n] \in S
    BY <1>1, <1>10
  <2>2. kept[n + 1] = then(n + 1, kept[n])
    BY <1>8, <2>1
  <2> QED
    BY <1>1, <1>2, <2>1, <2>2
<1> HIDE DEF A
<1>11. \A n \in 0 .. L : n \in A
  BY <1>1, <1>9, <1>10, Climbs
<1> QED
  BY <1>7, <1>8, <1>11 DEF L, S, A, then

\* Those is made of the elements at the places, and of all of them.
LEMMA ThoseSays ==
  ASSUME NEW T, NEW s \in Seq(T), NEW places
  PROVE  /\ Those(s, places) \in Seq(T)
         /\ \A z \in DOMAIN Those(s, places) :
              \E i \in DOMAIN s : i \in places /\ Those(s, places)[z] = s[i]
         /\ \A i \in DOMAIN s : i \in places =>
              \E z \in DOMAIN Those(s, places) : Those(s, places)[z] = s[i]
<1>1. PICK kept :
        /\ kept[0] = <<>>
        /\ \A n \in 1 .. Len(s) :
             kept[n] = IF n \in places THEN Append(kept[n - 1], s[n]) ELSE kept[n - 1]
        /\ \A n \in 0 .. Len(s) : kept[n] \in Seq(T)
        /\ Those(s, places) = kept[Len(s)]
  BY ThoseUnrolls
<1> DEFINE L == Len(s)
           from(n) == \A z \in DOMAIN kept[n] : \E i \in 1 .. n : i \in places /\ kept[n][z] = s[i]
           onto(n) == \A i \in 1 .. n : i \in places => \E z \in DOMAIN kept[n] : kept[n][z] = s[i]
           A == {n \in 0 .. L : from(n) /\ onto(n)}
<1>2. L \in Nat /\ DOMAIN s = 1 .. L
  OBVIOUS
<1>3. 0 \in A
  BY <1>1, <1>2
<1>4. ASSUME NEW n \in 0 .. L - 1, n \in A PROVE n + 1 \in A
  <2>1. n + 1 \in 1 .. L /\ n + 1 - 1 = n /\ kept[n] \in Seq(T) /\ from(n) /\ onto(n) /\ n + 1 \in 0 .. L
    BY <1>1, <1>2, <1>4
  <2>2. kept[n + 1] = IF n + 1 \in places THEN Append(kept[n], s[n + 1]) ELSE kept[n]
    BY <1>1, <2>1
  <2>3. CASE n + 1 \notin places
    <3>1. kept[n + 1] = kept[n]
      BY <2>2, <2>3
    <3>2. from(n + 1) /\ onto(n + 1)
      BY <2>1, <2>3, <3>1
    <3> QED
      BY <2>1, <3>2
  <2>4. CASE n + 1 \in places
    <3> DEFINE m == Len(kept[n])
    <3>1. /\ kept[n + 1] = Append(kept[n], s[n + 1]) /\ m \in Nat
          /\ DOMAIN kept[n] = 1 .. m /\ DOMAIN kept[n + 1] = 1 .. m + 1
          /\ kept[n + 1][m + 1] = s[n + 1] /\ \A z \in 1 .. m : kept[n + 1][z] = kept[n][z]
      <4>1. s[n + 1] \in T
        BY <1>2, <2>1
      <4> QED
        BY <2>1, <2>2, <2>4, <4>1
    <3> HIDE DEF m
    <3>2. from(n + 1)
      BY <2>1, <2>4, <3>1
    <3>3. ASSUME NEW i \in 1 .. n + 1, i \in places
          PROVE  \E z \in DOMAIN kept[n + 1] : kept[n + 1][z] = s[i]
      <4>1. CASE i = n + 1
        BY <3>1, <4>1
      <4>2. CASE i # n + 1
        <5>1. i \in 1 .. n
          BY <4>2
        <5>2. PICK z \in DOMAIN kept[n] : kept[n][z] = s[i]
          BY <2>1, <3>3, <5>1
        <5> QED
          BY <3>1, <5>2
      <4> QED
        BY <4>1, <4>2
    <3> QED
      BY <2>1, <3>2, <3>3
  <2> QED
    BY <2>3, <2>4
<1> HIDE DEF A, L
<1>5. L \in A
  <2>1. \A n \in 0 .. L : n \in A
    BY <1>2, <1>3, <1>4, Climbs
  <2> QED
    BY <1>2, <2>1
<1>6. from(L) /\ onto(L)
  BY <1>5 DEF A
<1>7. Those(s, places) = kept[L] /\ kept[L] \in Seq(T)
  BY <1>1, <1>2 DEF L
<1> QED
  BY <1>2, <1>6, <1>7

\* One list after another.
LEMMA Joined ==
  ASSUME NEW T, NEW s \in Seq(T), NEW t \in Seq(T)
  PROVE  /\ s \o t \in Seq(T) /\ DOMAIN s = 1 .. Len(s) /\ DOMAIN t = 1 .. Len(t)
         /\ Len(s) \in Nat /\ Len(t) \in Nat
         /\ DOMAIN (s \o t) = 1 .. Len(s) + Len(t)
         /\ \A z \in 1 .. Len(s) : (s \o t)[z] = s[z]
         /\ \A z \in 1 .. Len(t) : (s \o t)[Len(s) + z] = t[z]
OBVIOUS

\* A flat list is made of the elements of the lists in it, and of all of them.
LEMMA FlattenSays ==
  ASSUME NEW T, NEW seqs \in Seq(Seq(T))
  PROVE  /\ FlattenSeq(seqs) \in Seq(T)
         /\ \A z \in DOMAIN FlattenSeq(seqs) :
              \E n \in DOMAIN seqs : \E m \in DOMAIN seqs[n] : FlattenSeq(seqs)[z] = seqs[n][m]
         /\ \A n \in DOMAIN seqs : \A m \in DOMAIN seqs[n] :
              \E z \in DOMAIN FlattenSeq(seqs) : FlattenSeq(seqs)[z] = seqs[n][m]
<1> DEFINE L == Len(seqs)
           S == Seq(T)
           then(n, made) == made \o seqs[n]
           body(g) == [i \in 1 .. L |-> IF i = 1 THEN seqs[i] ELSE g[i - 1] \o seqs[i]]
           flat == CHOOSE g : g = body(g)
           step == [n \in 1 .. L |-> [made \in S |-> then(n, made)]]
<1>1. L \in Nat /\ DOMAIN seqs = 1 .. L /\ \A n \in 1 .. L : seqs[n] \in S
  OBVIOUS
<1>2. CASE L = 0
  <2>1. FlattenSeq(seqs) = seqs /\ DOMAIN seqs = {} /\ seqs = <<>>
    BY <1>1, <1>2 DEF FlattenSeq
  <2> QED
    BY <2>1
<1>3. CASE L # 0
  <2>1. FlattenSeq(seqs) = flat[L]
    BY <1>3 DEF FlattenSeq
  <2>2. <<>> \in S /\ \A n \in 1 .. L : \A made \in S : then(n, made) \in S
    BY <1>1
  <2> HIDE DEF S, L
  <2>3. PICK g : Loops(L, S, <<>>, step, g)
    <3>1. step \in Steps(L, S)
      BY <2>2 DEF Steps
    <3> HIDE DEF step
    <3> QED
      BY <1>1, <2>2, <3>1, LoopsEnd
  <2>4. \A n \in 1 .. L : g[n] = then(n, g[n - 1]) /\ g[n] \in S
    <3> TAKE n \in 1 .. L
    <3>1. n - 1 \in 0 .. L /\ n \in 0 .. L
      BY <1>1
    <3>2. g[n - 1] \in S /\ g[n] \in S
      BY <2>3, <3>1 DEF Loops
    <3> QED
      BY <2>3, <3>2 DEF Loops
  <2> DEFINE h == [n \in 1 .. L |-> g[n]]
  <2>5. g[0] = <<>>
    BY <2>3 DEF Loops
  <2>6. \A i \in 1 .. L : h[i] = IF i = 1 THEN seqs[i] ELSE h[i - 1] \o seqs[i]
    <3> TAKE i \in 1 .. L
    <3>1. CASE i = 1
      <4>1. h[1] = <<>> \o seqs[1] /\ seqs[1] \in Seq(T)
        <5>1. seqs[1] \in Seq(T)
          BY <1>1, <3>1 DEF S
        <5>2. g[1] = g[0] \o seqs[1] /\ h[1] = g[1]
          <6>1. 1 \in 1 .. L /\ 1 - 1 = 0
            BY <1>1, <1>3
          <6> QED
            BY <2>4, <6>1
        <5> HIDE DEF h
        <5> QED
          BY <2>5, <5>1, <5>2
      <4>2. <<>> \o seqs[1] = seqs[1]
        BY <4>1
      <4> QED
        BY <3>1, <4>1, <4>2
    <3>2. CASE i # 1
      <4>1. i - 1 \in 1 .. L
        BY <1>1, <3>2
      <4> QED
        BY <2>4, <3>2, <4>1
    <3> QED
      BY <3>1, <3>2
  <2>7. h = body(h)
    <3>1. body(h) = [i \in 1 .. L |-> h[i]]
      BY <2>6
    <3> QED
      BY <3>1
  <2>8. flat = body(flat)
    <3> HIDE DEF h
    <3> QED
      BY <2>7
  <2> HIDE DEF flat, h
  <2>9. flat[1] = seqs[1] /\ \A i \in 1 .. L - 1 : flat[i + 1] = flat[i] \o seqs[i + 1]
    <3>1. \A i \in 1 .. L : flat[i] = IF i = 1 THEN seqs[i] ELSE flat[i - 1] \o seqs[i]
      BY <2>8
    <3>2. 1 \in 1 .. L
      BY <1>1, <1>3
    <3>3. \A j \in 1 .. L : j # 1 => flat[j] = flat[j - 1] \o seqs[j]
      BY <3>1
    <3>4. ASSUME NEW i \in 1 .. L - 1 PROVE flat[i + 1] = flat[i] \o seqs[i + 1]
      <4> DEFINE j == i + 1
      <4>1. j \in 1 .. L /\ j # 1 /\ j - 1 = i /\ j = i + 1
        BY <1>1
      <4> HIDE DEF j
      <4>2. flat[j] = flat[j - 1] \o seqs[j]
        BY <3>3, <4>1, Zenon
      <4> QED
        BY <4>1, <4>2, Zenon
    <3> QED
      BY <3>1, <3>2, <3>4
  <2> DEFINE from(n) == \A z \in DOMAIN flat[n] : \E i \in 1 .. n : \E m \in DOMAIN seqs[i] : flat[n][z] = seqs[i][m]
             onto(n) == \A i \in 1 .. n : \A m \in DOMAIN seqs[i] : \E z \in DOMAIN flat[n] : flat[n][z] = seqs[i][m]
             A == {n \in 0 .. L : n >= 1 => flat[n] \in S /\ from(n) /\ onto(n)}
  <2>10. 0 \in A
    BY <1>1
  <2>11. ASSUME NEW n \in 0 .. L - 1, n \in A PROVE n + 1 \in A
    <3>1. n + 1 \in 0 .. L /\ n \in Nat /\ L \in Nat
      BY <1>1, <2>11
    <3>2. CASE n = 0
      <4>1. flat[1] = seqs[1] /\ seqs[1] \in S /\ 1 .. 1 = {1} /\ n + 1 = 1
        BY <1>1, <1>3, <2>9, <3>2
      <4>2. from(1) /\ onto(1)
        BY <4>1
      <4> QED
        BY <3>1, <4>1, <4>2
    <3>3. CASE n # 0
      <4>1. n + 1 \in 2 .. L /\ n + 1 - 1 = n /\ n + 1 \in 1 .. L
        BY <3>1, <3>3
      <4>2. flat[n + 1] = flat[n] \o seqs[n + 1] /\ flat[n] \in Seq(T) /\ seqs[n + 1] \in Seq(T) /\ from(n) /\ onto(n)
        <5>1. flat[n] \in S /\ from(n) /\ onto(n)
          BY <2>11, <3>1, <3>3
        <5>2. seqs[n + 1] \in S
          BY <1>1, <4>1
        <5>3. flat[n + 1] = flat[n] \o seqs[n + 1]
          <6>1. n \in 1 .. L - 1
            BY <1>1, <2>11, <3>3
          <6> HIDE DEF from, onto, A
          <6> QED
            BY <2>9, <6>1
        <5>4. flat[n] \in Seq(T) /\ seqs[n + 1] \in Seq(T)
          BY <5>1, <5>2 DEF S
        <5> HIDE DEF from, onto
        <5> QED
          BY <5>1, <5>3, <5>4
      <4> DEFINE a == Len(flat[n])
                 b == Len(seqs[n + 1])
                 f == flat[n + 1]
      <4>3. /\ a \in Nat /\ b \in Nat /\ DOMAIN flat[n] = 1 .. a /\ DOMAIN seqs[n + 1] = 1 .. b
            /\ f \in Seq(T) /\ DOMAIN f = 1 .. a + b
            /\ \A z \in 1 .. a : f[z] = flat[n][z]
            /\ \A z \in 1 .. b : f[a + z] = seqs[n + 1][z]
        <5>1. flat[n] \in Seq(T) /\ seqs[n + 1] \in Seq(T) /\ flat[n + 1] = flat[n] \o seqs[n + 1]
          BY <4>2
        <5> DEFINE u == flat[n]
                   v == seqs[n + 1]
        <5>2. u \in Seq(T) /\ v \in Seq(T) /\ f = u \o v /\ a = Len(u) /\ b = Len(v)
          BY <5>1
        <5> HIDE DEF u, v, a, b, f
        <5>3. /\ a \in Nat /\ b \in Nat /\ DOMAIN u = 1 .. a /\ DOMAIN v = 1 .. b
              /\ f \in Seq(T) /\ DOMAIN f = 1 .. a + b
              /\ \A z \in 1 .. a : f[z] = u[z]
              /\ \A z \in 1 .. b : f[a + z] = v[z]
          BY <5>2, Joined
        <5> QED
          BY <5>3 DEF u, v
      <4> HIDE DEF a, b, f
      <4>4. ASSUME NEW z \in 1 .. a + b PROVE \E i \in 1 .. n + 1 : \E m \in DOMAIN seqs[i] : f[z] = seqs[i][m]
        <5>1. CASE z <= a
          <6>1. z \in DOMAIN flat[n] /\ f[z] = flat[n][z]
            BY <4>3, <5>1
          <6>2. PICK i \in 1 .. n : \E m \in DOMAIN seqs[i] : flat[n][z] = seqs[i][m]
            BY <4>2, <6>1
          <6>3. i \in 1 .. n + 1
            BY <3>1
          <6> QED
            BY <6>1, <6>2, <6>3
        <5>2. CASE z > a
          <6>1. z - a \in 1 .. b /\ a + (z - a) = z
            BY <4>3, <5>2
          <6>2. f[z] = seqs[n + 1][z - a] /\ z - a \in DOMAIN seqs[n + 1] /\ n + 1 \in 1 .. n + 1
            BY <3>1, <4>3, <6>1
          <6> QED
            BY <6>2
        <5> QED
          BY <4>3, <5>1, <5>2
      <4>5. ASSUME NEW i \in 1 .. n + 1, NEW m \in DOMAIN seqs[i] PROVE \E z \in 1 .. a + b : f[z] = seqs[i][m]
        <5>1. CASE i = n + 1
          <6>1. m \in 1 .. b /\ a + m \in 1 .. a + b
            BY <4>3, <5>1
          <6> QED
            BY <4>3, <5>1, <6>1
        <5>2. CASE i # n + 1
          <6>1. i \in 1 .. n
            BY <3>1, <5>2
          <6>2. PICK z \in 1 .. a : flat[n][z] = seqs[i][m]
            <7>1. onto(n) /\ DOMAIN flat[n] = 1 .. a
              BY <4>2, <4>3
            <7>2. \E z \in DOMAIN flat[n] : flat[n][z] = seqs[i][m]
              BY <4>5, <6>1, <7>1
            <7> QED
              BY <7>1, <7>2
          <6>3. z \in 1 .. a + b /\ f[z] = flat[n][z]
            BY <4>3
          <6> QED
            BY <6>2, <6>3
        <5> QED
          BY <5>1, <5>2
      <4>6. from(n + 1) /\ onto(n + 1) /\ flat[n + 1] \in S
        <5>1. f \in S /\ DOMAIN f = 1 .. a + b
          BY <4>3 DEF S
        <5>2. flat[n + 1] \in S /\ DOMAIN flat[n + 1] = 1 .. a + b
          BY <5>1 DEF f
        <5>3. from(n + 1)
          BY <4>4, <5>2 DEF f
        <5>4. onto(n + 1)
          BY <4>5, <5>2 DEF f
        <5> QED
          BY <5>2, <5>3, <5>4
      <4> QED
        BY <3>1, <4>6
    <3> QED
      BY <3>2, <3>3
  <2> HIDE DEF A
  <2>12. \A n \in 0 .. L : n \in A
    BY <1>1, <2>10, <2>11, Climbs
  <2>13. L \in A /\ L >= 1
    BY <1>1, <1>3, <2>12
  <2>14. flat[L] \in S /\ from(L) /\ onto(L)
    BY <2>13 DEF A
  <2>15. DOMAIN seqs = 1 .. L /\ flat[L] \in Seq(T)
    BY <1>1, <2>14 DEF S, L
  <2>16. from(L) /\ onto(L)
    BY <2>14
  <2> DEFINE all == FlattenSeq(seqs)
  <2>17. all = flat[L]
    BY <2>1
  <2> HIDE DEF flat, all
  <2>18. all \in Seq(T)
    BY <2>15, <2>17
  <2>19. \A z \in DOMAIN all : \E i \in 1 .. L : \E m \in DOMAIN seqs[i] : all[z] = seqs[i][m]
    BY <2>16, <2>17
  <2>20. \A i \in 1 .. L : \A m \in DOMAIN seqs[i] : \E z \in DOMAIN all : all[z] = seqs[i][m]
    BY <2>16, <2>17
  <2>21. \A z \in DOMAIN all : \E i \in DOMAIN seqs : \E m \in DOMAIN seqs[i] : all[z] = seqs[i][m]
    BY <2>15, <2>19
  <2>22. \A i \in DOMAIN seqs : \A m \in DOMAIN seqs[i] : \E z \in DOMAIN all : all[z] = seqs[i][m]
    BY <2>15, <2>20
  <2> QED
    BY <2>18, <2>21, <2>22 DEF all
<1> QED
  BY <1>2, <1>3

\* What a finite set is listed as.
LEMMA SetToSeqSays ==
  ASSUME NEW S, IsFiniteSet(S)
  PROVE  SetToSeq(S) \in Seq(S)
<1> DEFINE n == Cardinality(S)
<1>1. n \in Nat /\ ExistsBijection(1 .. n, S)
  BY FS_CardinalityType
<1>2. PICK f : f \in Bijection(1 .. n, S)
  BY <1>1 DEF ExistsBijection
<1>3. f \in [1 .. n -> S] /\ IsInjective(f)
  BY <1>2 DEF Bijection, Injection, Surjection, IsInjective
<1>4. SetToSeq(S) \in [1 .. n -> S]
  BY <1>3 DEF SetToSeq
<1> HIDE DEF n
<1> QED
  BY <1>1, <1>4, MakesList

-----------------------------------------------------------------------------
(* The same for whatever is a list.                                         *)

LEMMA ThoseLists ==
  ASSUME NEW s, IsList(s), NEW places
  PROVE  /\ IsList(Those(s, places))
         /\ \A z \in DOMAIN Those(s, places) :
              \E i \in DOMAIN s : i \in places /\ Those(s, places)[z] = s[i]
         /\ \A i \in DOMAIN s : i \in places =>
              \E z \in DOMAIN Those(s, places) : Those(s, places)[z] = s[i]
<1> DEFINE T == {s[n] : n \in 1 .. Len(s)}
<1>1. s \in Seq(T)
  BY IsListSays
<1> HIDE DEF T
<1> QED
  BY <1>1, ThoseSays, SeqIsList

LEMMA FlattenLists ==
  ASSUME NEW seqs, IsList(seqs), \A n \in DOMAIN seqs : IsList(seqs[n])
  PROVE  /\ IsList(FlattenSeq(seqs))
         /\ \A z \in DOMAIN FlattenSeq(seqs) :
              \E n \in DOMAIN seqs : \E m \in DOMAIN seqs[n] : FlattenSeq(seqs)[z] = seqs[n][m]
         /\ \A n \in DOMAIN seqs : \A m \in DOMAIN seqs[n] :
              \E z \in DOMAIN FlattenSeq(seqs) : FlattenSeq(seqs)[z] = seqs[n][m]
<1> DEFINE Of(n) == {seqs[n][m] : m \in 1 .. Len(seqs[n])}
           T == UNION {Of(n) : n \in 1 .. Len(seqs)}
<1>1. DOMAIN seqs = 1 .. Len(seqs) /\ Len(seqs) \in Nat /\ seqs = [n \in 1 .. Len(seqs) |-> seqs[n]]
  BY IsListSays DEF IsList
<1>2. ASSUME NEW n \in 1 .. Len(seqs) PROVE seqs[n] \in Seq(T)
  <2>1. seqs[n] \in Seq(Of(n)) /\ DOMAIN seqs[n] = 1 .. Len(seqs[n])
    BY <1>1, IsListSays
  <2>2. Of(n) \subseteq T
    OBVIOUS
  <2> HIDE DEF T, Of
  <2> QED
    BY <2>1, <2>2
<1> HIDE DEF T
<1>3. seqs \in [1 .. Len(seqs) -> Seq(T)]
  BY <1>1, <1>2
<1>4. seqs \in Seq(Seq(T))
  BY <1>1, <1>3, MakesList
<1> QED
  BY <1>4, FlattenSays, SeqIsList

LEMMA JoinedLists ==
  ASSUME NEW s, IsList(s), NEW t, IsList(t)
  PROVE  /\ IsList(s \o t) /\ DOMAIN s = 1 .. Len(s) /\ DOMAIN t = 1 .. Len(t)
         /\ Len(s) \in Nat /\ Len(t) \in Nat
         /\ DOMAIN (s \o t) = 1 .. Len(s) + Len(t)
         /\ \A z \in 1 .. Len(s) : (s \o t)[z] = s[z]
         /\ \A z \in 1 .. Len(t) : (s \o t)[Len(s) + z] = t[z]
<1> DEFINE A == {s[n] : n \in 1 .. Len(s)}
           B == {t[n] : n \in 1 .. Len(t)}
<1>1. s \in Seq(A) /\ t \in Seq(B)
  BY IsListSays
<1> HIDE DEF A, B
<1> DEFINE T == A \cup B
<1>2. s \in Seq(T) /\ t \in Seq(T)
  BY <1>1
<1> HIDE DEF T
<1>3. s \o t \in Seq(T)
  BY <1>2
<1> DEFINE both == s \o t
<1>4. /\ both \in Seq(T) /\ DOMAIN s = 1 .. Len(s) /\ DOMAIN t = 1 .. Len(t)
      /\ Len(s) \in Nat /\ Len(t) \in Nat
      /\ DOMAIN both = 1 .. Len(s) + Len(t)
      /\ \A z \in 1 .. Len(s) : both[z] = s[z]
      /\ \A z \in 1 .. Len(t) : both[Len(s) + z] = t[z]
  BY <1>2, Joined
<1> HIDE DEF both
<1>5. IsList(both)
  BY <1>4, SeqIsList
<1> QED
  BY <1>4, <1>5 DEF both

LEMMA FirstOfSays ==
  ASSUME NEW s, IsList(s), NEW n \in Nat
  PROVE  /\ IsList(FirstOf(s, n)) /\ DOMAIN FirstOf(s, n) \subseteq DOMAIN s
         /\ n <= Len(s) => Len(FirstOf(s, n)) = n
         /\ Len(s) < n => Len(FirstOf(s, n)) = Len(s)
         /\ \A z \in DOMAIN FirstOf(s, n) : FirstOf(s, n)[z] = s[z]
         /\ DOMAIN s = 1 .. Len(s) /\ Len(s) \in Nat
<1> DEFINE T == {s[i] : i \in 1 .. Len(s)}
           l == Len(s)
           m == Min({n, l})
           f == FirstOf(s, n)
<1>1. l \in Nat /\ DOMAIN s = 1 .. l /\ \A i \in 1 .. l : s[i] \in T
  BY IsListSays
<1>2. f = SubSeq(s, 1, m)
  BY DEF FirstOf
<1> HIDE DEF T, l
<1>3. m \in {n, l} /\ m <= n /\ m <= l
  <2>1. {n, l} \subseteq Nat /\ {n, l} # {}
    BY <1>1
  <2> HIDE DEF m
  <2>2. \A i \in {n, l} : Min({n, l}) <= i
    BY <2>1, MinSays
  <2>3. Min({n, l}) \in {n, l}
    BY <2>1, MinSays
  <2> QED
    BY <2>2, <2>3 DEF m
<1> HIDE DEF m, f
<1>4. m \in Nat /\ m <= l /\ (n <= l => m = n) /\ (l < n => m = l)
  BY <1>1, <1>3
<1>5. f \in Seq(T) /\ Len(f) = m /\ \A z \in 1 .. m : f[z] = s[z]
  <2>1. \A i \in 1 .. m : s[i] \in T
    BY <1>1, <1>4
  <2>2. 1 \in Int /\ m \in Int
    BY <1>4
  <2>3. /\ SubSeq(s, 1, m) \in Seq(T)
        /\ Len(SubSeq(s, 1, m)) = IF 1 <= m THEN m - 1 + 1 ELSE 0
        /\ \A i \in 1 .. m - 1 + 1 : SubSeq(s, 1, m)[i] = s[1 + i - 1]
    BY <2>1, <2>2, SubSeqProperties
  <2>4. m - 1 + 1 = m /\ \A i \in 1 .. m : 1 + i - 1 = i
    BY <1>4
  <2>5. Len(SubSeq(s, 1, m)) = m
    BY <1>4, <2>3
  <2>6. \A i \in 1 .. m : SubSeq(s, 1, m)[i] = s[i]
    BY <2>3, <2>4
  <2> QED
    BY <1>2, <2>3, <2>5, <2>6
<1>6. IsList(f) /\ DOMAIN f = 1 .. m
  BY <1>5, SeqIsList
<1>7. 1 .. m \subseteq 1 .. l
  BY <1>1, <1>4
<1> QED
  BY <1>1, <1>4, <1>5, <1>6, <1>7 DEF f, l

\* A list of what is made of each element.
LEMMA MappedList ==
  ASSUME NEW s, DOMAIN s = 1 .. Len(s), Len(s) \in Nat, NEW t, DOMAIN t = DOMAIN s, t = [n \in DOMAIN s |-> t[n]]
  PROVE  IsList(t) /\ Len(t) = Len(s)
<1> DEFINE S == {t[n] : n \in 1 .. Len(s)}
<1>1. t \in [1 .. Len(s) -> S]
  OBVIOUS
<1> HIDE DEF S
<1> QED
  BY <1>1, MakesList

\* The places of a text, in order.
LEMMA InOrderSays ==
  ASSUME NEW text, IsList(text), NEW places
  PROVE  /\ IsList(InOrder(places, text))
         /\ \A z \in DOMAIN InOrder(places, text) :
              InOrder(places, text)[z] \in DOMAIN text \cap places
<1> DEFINE all == [j \in DOMAIN text |-> j]
<1>1. IsList(all)
  <2>1. DOMAIN text = 1 .. Len(text) /\ Len(text) \in Nat /\ DOMAIN all = DOMAIN text /\ all = [n \in DOMAIN text |-> all[n]]
    BY IsListSays
  <2> HIDE DEF all
  <2> QED
    BY <2>1, MappedList
<1>2. \A i \in DOMAIN all : i \in DOMAIN text /\ all[i] = i
  OBVIOUS
<1> HIDE DEF all
<1>3. InOrder(places, text) = Those(all, places)
  BY DEF InOrder, all
<1> QED
  BY <1>1, <1>2, <1>3, ThoseLists

LEMMA ImageIsFinite ==
  ASSUME NEW S, IsFiniteSet(S), NEW f, DOMAIN f = S
  PROVE  IsFiniteSet({f[x] : x \in S})
<1> DEFINE T == {f[x] : x \in S}
           g == [x \in S |-> f[x]]
<1>1. g \in [S -> T] /\ \A t \in T : \E x \in S : g[x] = t
  OBVIOUS
<1> HIDE DEF T, g
<1>2. g \in Surjection(S, T)
  BY <1>1 DEF Surjection
<1>3. IsFiniteSet(T)
  BY <1>2, FS_Surjection
<1> QED
  BY <1>3 DEF T

LEMMA RangeIsFinite ==
  ASSUME NEW s, DOMAIN s = 1 .. Len(s), Len(s) \in Nat
  PROVE  IsFiniteSet(DOMAIN s) /\ IsFiniteSet({s[n] : n \in DOMAIN s})
<1>1. IsFiniteSet(1 .. Len(s))
  <2>1. 1 \in Int /\ Len(s) \in Int
    OBVIOUS
  <2> QED
    BY <2>1, FS_Interval
<1> QED
  BY <1>1, ImageIsFinite

-----------------------------------------------------------------------------
(* What a chunk of program text is read as.                                 *)

\* Candidates are of the chunk they were read from.
OfChunk(s, chunk) ==
  IsList(s) /\ \A z \in DOMAIN s : s[z] = Candidate(s[z].rule, s[z].table, chunk)

LEMMA CandidateSays ==
  ASSUME NEW rule, NEW table, NEW chunk
  PROVE  /\ Candidate(rule, table, chunk).rule = rule /\ Candidate(rule, table, chunk).table = table
         /\ Candidate(rule, table, chunk).source = chunk.source
         /\ Candidate(rule, table, chunk).changed = (chunk.source = "git_diff")
         /\ Candidate(rule, table, chunk).seenIn = {chunk.source}
BY DEF Candidate

LEMMA TextSays ==
  ASSUME NEW text, IsText(text)
  PROVE  /\ IsList(text) /\ DOMAIN text = 1 .. Len(text) /\ Len(text) \in Nat
         /\ \A j \in DOMAIN text : text[j].is = "row" => IsFiniteSet(text[j].items)
<1>1. text \in Seq(ToSet(text)) /\ \A j \in DOMAIN text : text[j].is = "row" => IsFiniteSet(text[j].items)
  BY DEF IsText
<1> HIDE DEF IsText
<1>2. Len(text) \in Nat
  BY <1>1
<1> QED
  BY <1>1, <1>2, SeqIsList

LEMMA ThresholdsAreOfChunk ==
  ASSUME NEW chunk, IsText(chunk.text)
  PROVE  OfChunk(ThresholdCandidates(chunk), chunk)
<1> DEFINE text  == chunk.text
           rules == {j \in DOMAIN text : text[j].is = "rule"}
           lines == InOrder({j \in rules : Resolved(text, j) /\ Counts(chunk, LinesOfRule(text, j))}, text)
           Of(j) == Candidate(Threshold(text[j].name, text[j].op, ValueAt(text, j), text[j].sets), NoTable, chunk)
           all   == [n \in DOMAIN lines |-> Of(lines[n])]
<1>1. ThresholdCandidates(chunk) = all
  BY DEF ThresholdCandidates
<1>2. IsList(lines)
  BY TextSays, InOrderSays
<1>3. ASSUME NEW z \in DOMAIN all PROVE all[z] = Candidate(all[z].rule, all[z].table, chunk)
  <2>1. all[z] = Of(lines[z])
    OBVIOUS
  <2> HIDE DEF all, lines
  <2> QED
    BY <2>1, CandidateSays
<1>4. DOMAIN all = DOMAIN lines /\ all = [n \in DOMAIN lines |-> all[n]]
  OBVIOUS
<1> HIDE DEF all, lines
<1>5. DOMAIN lines = 1 .. Len(lines) /\ Len(lines) \in Nat
  BY <1>2, IsListSays
<1>6. IsList(all)
  BY <1>4, <1>5, MappedList
<1> QED
  BY <1>1, <1>3, <1>6 DEF OfChunk

\* A table has as many moves as its rows say, and leaves out no more than those.
LEMMA LeftOutIsFinite ==
  ASSUME NEW text, IsText(text), NEW name, NEW s
  PROVE  IsFiniteSet(LeftOut(AsTransitionTable(name, RowsOf(text, name)), s))
<1> DEFINE rows  == RowsOf(text, name)
           table == AsTransitionTable(name, rows)
           Of(n) == {[from |-> rows[n].key, intent |-> it.event, next |-> it.to] : it \in rows[n].items}
<1>1. /\ IsList(rows) /\ DOMAIN rows = 1 .. Len(rows) /\ Len(rows) \in Nat
      /\ \A n \in DOMAIN rows : IsFiniteSet(rows[n].items)
  <2>1. IsList(rows) /\ \A n \in DOMAIN rows :
          \E i \in DOMAIN text : i \in LinesThat(text, "row", name) /\ rows[n] = text[i]
    BY TextSays, ThoseLists DEF RowsOf
  <2>2. \A i \in LinesThat(text, "row", name) : IsFiniteSet(text[i].items)
    BY TextSays DEF LinesThat
  <2> HIDE DEF rows
  <2> QED
    BY <2>1, <2>2, IsListSays
<1>2. table.edges = UNION {Of(n) : n \in DOMAIN rows} /\ table.states = [n \in DOMAIN rows |-> rows[n].key]
  BY DEF AsTransitionTable
<1> HIDE DEF table, rows
<1>3. IsFiniteSet(table.edges)
  <2>1. ASSUME NEW n \in DOMAIN rows PROVE IsFiniteSet(Of(n))
    <3> DEFINE f == [it \in rows[n].items |-> [from |-> rows[n].key, intent |-> it.event, next |-> it.to]]
    <3>1. Of(n) = {f[it] : it \in rows[n].items} /\ DOMAIN f = rows[n].items
      OBVIOUS
    <3>2. IsFiniteSet(rows[n].items)
      BY <1>1
    <3> HIDE DEF f, Of
    <3> QED
      BY <3>1, <3>2, ImageIsFinite
  <2> DEFINE g == [n \in DOMAIN rows |-> Of(n)]
             all == {g[n] : n \in DOMAIN rows}
  <2>2. all = {Of(n) : n \in DOMAIN rows} /\ DOMAIN g = DOMAIN rows
    OBVIOUS
  <2>3. IsFiniteSet(DOMAIN rows)
    BY <1>1, RangeIsFinite
  <2>4. \A S \in all : IsFiniteSet(S)
    BY <2>1, <2>2
  <2> HIDE DEF g, Of
  <2>5. IsFiniteSet(all)
    BY <2>2, <2>3, ImageIsFinite
  <2>6. table.edges = UNION all
    BY <1>2, <2>2
  <2> HIDE DEF all
  <2>7. IsFiniteSet(UNION all)
    BY <2>4, <2>5, FS_UNION
  <2> QED
    BY <2>6, <2>7
<1>4. CASE table.form = "action-map"
  <2> DEFINE f == [e \in table.edges |-> e.intent]
  <2>1. {e.intent : e \in table.edges} = {f[e] : e \in table.edges} /\ DOMAIN f = table.edges
    OBVIOUS
  <2> HIDE DEF f
  <2>2. IsFiniteSet({e.intent : e \in table.edges})
    BY <1>3, <2>1, ImageIsFinite
  <2>3. LeftOut(table, s) \in SUBSET {e.intent : e \in table.edges}
    BY <1>4 DEF LeftOut
  <2> QED
    BY <2>2, <2>3, FS_Subset DEF table, rows
<1>5. CASE table.form # "action-map"
  <2>1. DOMAIN table.states = 1 .. Len(table.states) /\ Len(table.states) \in Nat
    <3> DEFINE t == table.states
    <3>1. DOMAIN t = DOMAIN rows /\ t = [n \in DOMAIN rows |-> t[n]]
      BY <1>2
    <3> HIDE DEF t
    <3>2. IsList(t)
      BY <1>1, <3>1, MappedList
    <3> QED
      BY <3>2, IsListSays DEF t
  <2>2. IsFiniteSet(ToSet(table.states))
    BY <2>1, RangeIsFinite DEF ToSet
  <2>3. LeftOut(table, s) \in SUBSET ToSet(table.states)
    BY <1>5 DEF LeftOut
  <2> QED
    BY <2>2, <2>3, FS_Subset DEF table, rows
<1> QED
  BY <1>4, <1>5

LEMMA TablesAreOfChunk ==
  ASSUME NEW chunk, IsText(chunk.text), NEW name
  PROVE  OfChunk(TableCandidates(chunk, name), chunk)
<1> DEFINE rows  == RowsOf(chunk.text, name)
           table == AsTransitionTable(name, rows)
           MovesOut(j) == SetToSeq(LeftOut(table, chunk.text[j].key))
           Row(j) == [n \in DOMAIN MovesOut(j) |-> Candidate(Stays(name, chunk.text[j].key, MovesOut(j)[n]), table, chunk)]
           lines == InOrder({j \in LinesThat(chunk.text, "row", name) : Counts(chunk, {j})}, chunk.text)
           all   == [n \in DOMAIN lines |-> Row(lines[n])]
<1>1. TableCandidates(chunk, name) = IF IsTable(rows) THEN FlattenSeq(all) ELSE <<>>
  BY DEF TableCandidates
<1>2. IsList(all)
  <2>1. IsList(lines)
    BY TextSays, InOrderSays
  <2>2. DOMAIN lines = 1 .. Len(lines) /\ Len(lines) \in Nat
    BY <2>1, IsListSays
  <2>3. DOMAIN all = DOMAIN lines /\ all = [n \in DOMAIN lines |-> all[n]]
    OBVIOUS
  <2> HIDE DEF all, lines
  <2> QED
    BY <2>2, <2>3, MappedList
<1>3. ASSUME NEW j PROVE OfChunk(Row(j), chunk)
  <2>1. IsFiniteSet(LeftOut(table, chunk.text[j].key))
    BY LeftOutIsFinite
  <2> DEFINE moves == MovesOut(j)
             row   == Row(j)
  <2>2. DOMAIN moves = 1 .. Len(moves) /\ Len(moves) \in Nat
    <3>1. MovesOut(j) \in Seq(LeftOut(table, chunk.text[j].key))
      BY <2>1, SetToSeqSays
    <3> HIDE DEF MovesOut
    <3>2. Len(moves) \in Nat
      BY <3>1
    <3> QED
      BY <3>1, <3>2, SeqIsList
  <2>3. \A z \in DOMAIN row : row[z] = Candidate(row[z].rule, row[z].table, chunk)
    <3> HIDE DEF MovesOut, table
    <3> QED
      BY CandidateSays
  <2>4. DOMAIN row = DOMAIN moves /\ row = [n \in DOMAIN moves |-> row[n]]
    <3> HIDE DEF MovesOut, table
    <3> QED
      OBVIOUS
  <2> HIDE DEF row, moves
  <2>5. IsList(row)
    BY <2>2, <2>4, MappedList
  <2>6. OfChunk(row, chunk)
    BY <2>3, <2>5 DEF OfChunk
  <2> QED
    BY <2>6 DEF row
<1>4. \A n \in DOMAIN all : OfChunk(all[n], chunk)
  <2> HIDE DEF Row
  <2> QED
    BY <1>3
<1> HIDE DEF all, rows
<1>5. CASE IsTable(rows)
  <2>1. /\ IsList(FlattenSeq(all))
        /\ \A z \in DOMAIN FlattenSeq(all) :
             \E n \in DOMAIN all : \E m \in DOMAIN all[n] : FlattenSeq(all)[z] = all[n][m]
    BY <1>2, <1>4, FlattenLists DEF OfChunk
  <2>2. \A z \in DOMAIN FlattenSeq(all) : FlattenSeq(all)[z] = Candidate(FlattenSeq(all)[z].rule, FlattenSeq(all)[z].table, chunk)
    BY <1>4, <2>1 DEF OfChunk
  <2> QED
    BY <1>1, <1>5, <2>1, <2>2 DEF OfChunk
<1>6. CASE ~IsTable(rows)
  <2>1. <<>> \in Seq({}) /\ DOMAIN <<>> = {}
    OBVIOUS
  <2> QED
    BY <1>1, <1>6, <2>1, SeqIsList DEF OfChunk
<1> QED
  BY <1>5, <1>6

\* Whatever is read from a chunk is of it.
LEMMA ChunkSays ==
  ASSUME NEW chunk, IsText(chunk.text)
  PROVE  OfChunk(InferCandidates(chunk), chunk)
<1> DEFINE rowed == {m \in DOMAIN chunk.text : chunk.text[m].is = "row"}
           names == SetToSeq({chunk.text[j].name : j \in rowed})
           each  == [n \in DOMAIN names |-> TableCandidates(chunk, names[n])]
<1>1. OfChunk(TransitionCandidates(chunk), chunk)
  <2>1. IsFiniteSet({chunk.text[j].name : j \in rowed})
    <3>1. IsFiniteSet(DOMAIN chunk.text)
      BY TextSays, RangeIsFinite
    <3>2. IsFiniteSet(rowed)
      <4>1. rowed \in SUBSET DOMAIN chunk.text
        OBVIOUS
      <4> HIDE DEF rowed
      <4> QED
        BY <3>1, <4>1, FS_Subset
    <3> DEFINE f == [j \in rowed |-> chunk.text[j].name]
    <3>3. DOMAIN f = rowed /\ {f[j] : j \in rowed} = {chunk.text[j].name : j \in rowed}
      OBVIOUS
    <3> HIDE DEF f, rowed
    <3> QED
      BY <3>2, <3>3, ImageIsFinite
  <2>2. DOMAIN names = 1 .. Len(names) /\ Len(names) \in Nat
    <3>1. names \in Seq({chunk.text[j].name : j \in rowed})
      BY <2>1, SetToSeqSays
    <3> HIDE DEF names
    <3>2. Len(names) \in Nat
      BY <3>1
    <3> QED
      BY <3>1, <3>2, SeqIsList
  <2>3. TransitionCandidates(chunk) = FlattenSeq(each)
    BY DEF TransitionCandidates
  <2>4. DOMAIN each = DOMAIN names /\ each = [n \in DOMAIN names |-> each[n]]
    <3> HIDE DEF names
    <3> QED
      OBVIOUS
  <2>5. \A n \in DOMAIN each : OfChunk(each[n], chunk)
    <3> HIDE DEF names
    <3> QED
      BY TablesAreOfChunk
  <2> HIDE DEF each, names
  <2>6. IsList(each)
    BY <2>2, <2>4, MappedList
  <2>7. /\ IsList(FlattenSeq(each))
        /\ \A z \in DOMAIN FlattenSeq(each) :
             \E n \in DOMAIN each : \E m \in DOMAIN each[n] : FlattenSeq(each)[z] = each[n][m]
    BY <2>5, <2>6, FlattenLists DEF OfChunk
  <2>8. \A z \in DOMAIN FlattenSeq(each) : FlattenSeq(each)[z] = Candidate(FlattenSeq(each)[z].rule, FlattenSeq(each)[z].table, chunk)
    BY <2>5, <2>7 DEF OfChunk
  <2> QED
    BY <2>3, <2>7, <2>8 DEF OfChunk
<1> DEFINE a == ThresholdCandidates(chunk)
           b == TransitionCandidates(chunk)
           all == a \o b
<1>2. OfChunk(all, chunk)
  <2>1. OfChunk(a, chunk) /\ OfChunk(b, chunk)
    BY <1>1, ThresholdsAreOfChunk
  <2> HIDE DEF a, b
  <2>2. /\ IsList(all) /\ DOMAIN a = 1 .. Len(a) /\ DOMAIN b = 1 .. Len(b)
        /\ Len(a) \in Nat /\ Len(b) \in Nat
        /\ DOMAIN all = 1 .. Len(a) + Len(b)
        /\ \A z \in 1 .. Len(a) : all[z] = a[z]
        /\ \A z \in 1 .. Len(b) : all[Len(a) + z] = b[z]
    BY <2>1, JoinedLists DEF OfChunk
  <2> HIDE DEF all
  <2>3. ASSUME NEW z \in DOMAIN all PROVE all[z] = Candidate(all[z].rule, all[z].table, chunk)
    <3>1. CASE z <= Len(a)
      <4>1. z \in 1 .. Len(a)
        BY <2>2, <3>1
      <4> QED
        BY <2>1, <2>2, <4>1 DEF OfChunk
    <3>2. CASE z > Len(a)
      <4>1. z - Len(a) \in 1 .. Len(b) /\ Len(a) + (z - Len(a)) = z
        BY <2>2, <3>2
      <4>2. all[z] = b[z - Len(a)]
        BY <2>2, <4>1
      <4> QED
        BY <2>1, <2>2, <4>1, <4>2 DEF OfChunk
    <3> QED
      BY <2>2, <3>1, <3>2
  <2> QED
    BY <2>2, <2>3 DEF OfChunk
<1> DEFINE first == {n \in DOMAIN all : \A m \in 1 .. n - 1 : all[m].rule # all[n].rule}
<1>3. InferCandidates(chunk) = Those(all, first)
  BY DEF InferCandidates
<1> HIDE DEF all, first
<1>4. IsList(Those(all, first)) /\ \A z \in DOMAIN Those(all, first) : \E i \in DOMAIN all : Those(all, first)[z] = all[i]
  BY <1>2, ThoseLists DEF OfChunk
<1> QED
  BY <1>2, <1>3, <1>4 DEF OfChunk

-----------------------------------------------------------------------------
(* The same rule read several times is known once, and as changed if one of  *)
(* the copies is.                                                            *)

\* What merging keeps a candidate to.
CandidatesOf(rules, tables) ==
  {c \in [rule : rules, table : tables, source : DOMAIN Priority, changed : BOOLEAN,
          seenIn : SUBSET DOMAIN Priority] : c.changed = (c.source = "git_diff")}

\* The source of the change has the highest priority.
LEMMA KeepSays ==
  ASSUME NEW rules, NEW tables, NEW prior \in CandidatesOf(rules, tables), NEW c \in CandidatesOf(rules, tables), prior.rule = c.rule
  PROVE  /\ Keep(prior, c) \in CandidatesOf(rules, tables) /\ Keep(prior, c).rule = c.rule
         /\ Keep(prior, c).changed = (prior.changed \/ c.changed)
<1> DEFINE S == DOMAIN Priority
           one == [c EXCEPT !.seenIn = @ \cup prior.seenIn]
           two == [prior EXCEPT !.seenIn = @ \cup c.seenIn]
<1>1. S = {"git_diff", "repo_source", "served_js"}
  BY DEF Priority
<1>2. /\ Priority["git_diff"] = 3 /\ Priority["repo_source"] = 2 /\ Priority["served_js"] = 1
  BY DEF Priority
<1>3. /\ prior \in [rule : rules, table : tables, source : S, changed : BOOLEAN, seenIn : SUBSET S]
      /\ c \in [rule : rules, table : tables, source : S, changed : BOOLEAN, seenIn : SUBSET S]
      /\ prior.changed = (prior.source = "git_diff") /\ c.changed = (c.source = "git_diff")
  BY DEF CandidatesOf
<1>4. Keep(prior, c) = IF Priority[c.source] > Priority[prior.source] THEN one ELSE two
  BY DEF Keep
<1> HIDE DEF S
<1>5. /\ one \in [rule : rules, table : tables, source : S, changed : BOOLEAN, seenIn : SUBSET S]
      /\ one.rule = c.rule /\ one.changed = c.changed /\ one.source = c.source
  BY <1>3
<1>6. /\ two \in [rule : rules, table : tables, source : S, changed : BOOLEAN, seenIn : SUBSET S]
      /\ two.rule = prior.rule /\ two.changed = prior.changed /\ two.source = prior.source
  BY <1>3
<1>7. one \in CandidatesOf(rules, tables) /\ two \in CandidatesOf(rules, tables)
  BY <1>3, <1>5, <1>6 DEF CandidatesOf, S
<1> HIDE DEF one, two
<1>8. CASE Priority[c.source] > Priority[prior.source]
  <2>1. prior.source # "git_diff"
    BY <1>1, <1>2, <1>3, <1>8
  <2>2. ~prior.changed
    BY <1>3, <2>1
  <2>3. Keep(prior, c) = one
    BY <1>4, <1>8
  <2>4. one.changed = (prior.changed \/ c.changed)
    BY <1>3, <1>5, <2>2
  <2> QED
    BY <1>5, <1>7, <2>3, <2>4
<1>9. CASE ~(Priority[c.source] > Priority[prior.source])
  <2>1. c.source = "git_diff" => prior.source = "git_diff"
    BY <1>1, <1>2, <1>3, <1>9
  <2>2. c.changed => prior.changed
    BY <1>3, <2>1
  <2>3. Keep(prior, c) = two
    BY <1>4, <1>9
  <2>4. two.changed = (prior.changed \/ c.changed)
    BY <1>3, <1>6, <2>2
  <2> QED
    BY <1>6, <1>7, <2>3, <2>4
<1> QED
  BY <1>8, <1>9

\* What merging one more candidate makes of what is known.
IsMerged(known, c, all) ==
  /\ \A i \in DOMAIN all : all[i].changed =>
       \/ all[i].rule = c.rule /\ c.changed
       \/ i \in DOMAIN known /\ known[i].rule = all[i].rule /\ known[i].changed
  /\ \A i \in DOMAIN known :
       i \in DOMAIN all /\ all[i].rule = known[i].rule /\ (known[i].changed => all[i].changed)
  /\ \E i \in DOMAIN all : all[i].rule = c.rule /\ (c.changed => all[i].changed)

LEMMA MergeSays ==
  ASSUME NEW rules, NEW tables, NEW known \in Seq(CandidatesOf(rules, tables)), NEW c \in CandidatesOf(rules, tables)
  PROVE  Merge(known, c) \in Seq(CandidatesOf(rules, tables)) /\ IsMerged(known, c, Merge(known, c))
<1> DEFINE T == CandidatesOf(rules, tables)
           L == Len(known)
           all == Merge(known, c)
           same == {n \in DOMAIN known : known[n].rule = c.rule}
<1>1. known \in Seq(T) /\ L \in Nat /\ DOMAIN known = 1 .. L /\ \A n \in 1 .. L : known[n] \in T
  OBVIOUS
<1>2. c \in T
  OBVIOUS
<1>3. all = IF same = {} THEN Append(known, c) ELSE [known EXCEPT ![Min(same)] = Keep(known[Min(same)], c)]
  BY DEF Merge
<1> HIDE DEF T, L, all
<1>4. CASE same = {}
  <2>1. /\ all \in Seq(T) /\ DOMAIN all = 1 .. L + 1 /\ all[L + 1] = c
        /\ \A n \in 1 .. L : all[n] = known[n]
    <3>1. all = Append(known, c)
      BY <1>3, <1>4
    <3> HIDE DEF same
    <3> QED
      BY <1>1, <1>2, <3>1 DEF L
  <2>2. \A i \in DOMAIN all : i = L + 1 \/ i \in 1 .. L
    BY <1>1, <2>1
  <2>3. \A n \in 1 .. L : n \in 1 .. L + 1
    BY <1>1
  <2>4. L + 1 \in 1 .. L + 1
    BY <1>1
  <2> QED
    BY <1>1, <2>1, <2>2, <2>3, <2>4 DEF T, all, IsMerged
<1>5. CASE same # {}
  <2> DEFINE m == Min(same)
             kept == Keep(known[m], c)
  <2>1. m \in same
    <3>1. same \subseteq Nat
      BY <1>1
    <3> HIDE DEF same
    <3> QED
      BY <1>5, <3>1, MinSays
  <2>2. m \in 1 .. L /\ known[m].rule = c.rule /\ known[m] \in T
    BY <1>1, <2>1
  <2>3. kept \in T /\ kept.rule = c.rule /\ kept.changed = (known[m].changed \/ c.changed)
    <3> HIDE DEF m
    <3> QED
      BY <1>2, <2>2, KeepSays DEF T
  <2>4. all = [known EXCEPT ![m] = kept]
    BY <1>3, <1>5
  <2> HIDE DEF m, kept, same
  <2>5. /\ all \in Seq(T) /\ DOMAIN all = 1 .. L /\ all[m] = kept
        /\ \A n \in 1 .. L : n # m => all[n] = known[n]
    BY <1>1, <2>2, <2>3, <2>4
  <2>6. ASSUME NEW i \in 1 .. L, all[i].changed
        PROVE  \/ all[i].rule = c.rule /\ c.changed
               \/ known[i].rule = all[i].rule /\ known[i].changed
    <3>1. CASE i = m
      BY <2>2, <2>3, <2>5, <2>6, <3>1
    <3>2. CASE i # m
      BY <2>5, <2>6, <3>2
    <3> QED
      BY <3>1, <3>2
  <2>7. ASSUME NEW i \in 1 .. L PROVE all[i].rule = known[i].rule /\ (known[i].changed => all[i].changed)
    <3>1. CASE i = m
      BY <2>2, <2>3, <2>5, <3>1
    <3>2. CASE i # m
      BY <2>5, <3>2
    <3> QED
      BY <3>1, <3>2
  <2>8. all[m].rule = c.rule /\ (c.changed => all[m].changed)
    BY <2>3, <2>5
  <2> QED
    BY <1>1, <2>2, <2>5, <2>6, <2>7, <2>8 DEF T, all, IsMerged
<1> QED
  BY <1>4, <1>5

LEMMA MergedUnrolls ==
  ASSUME NEW rules, NEW tables, NEW read \in Seq(CandidatesOf(rules, tables))
  PROVE  \E known :
           /\ known[0] = <<>> /\ Merged(read) = known[Len(read)]
           /\ \A n \in 0 .. Len(read) : known[n] \in Seq(CandidatesOf(rules, tables))
           /\ \A n \in 1 .. Len(read) : known[n] = Merge(known[n - 1], read[n])
<1> DEFINE L == Len(read)
           T == CandidatesOf(rules, tables)
           S == Seq(T)
           then(n, made) == Merge(made, read[n])
           body(g) == [n \in 0 .. L |-> IF n = 0 THEN <<>> ELSE then(n, g[n - 1])]
           known == CHOOSE g : g = body(g)
           step == [n \in 1 .. L |-> [made \in S |-> then(n, made)]]
<1>1. L \in Nat /\ \A n \in 1 .. L : read[n] \in T
  OBVIOUS
<1>2. <<>> \in S /\ \A n \in 1 .. L : \A made \in S : then(n, made) \in S
  <2>1. ASSUME NEW n \in 1 .. L, NEW made \in S PROVE Merge(made, read[n]) \in S
    <3>1. read[n] \in CandidatesOf(rules, tables) /\ made \in Seq(CandidatesOf(rules, tables))
      BY <1>1
    <3> QED
      BY <3>1, MergeSays
  <2> QED
    BY <2>1
<1>3. Merged(read) = known[L]
  BY DEF Merged
<1> HIDE DEF L, S, then
<1>4. PICK g : Loops(L, S, <<>>, step, g)
  <2>1. step \in Steps(L, S)
    BY <1>2 DEF Steps
  <2> HIDE DEF step
  <2> QED
    BY <1>1, <1>2, <2>1, LoopsEnd
<1>5. \A n \in 1 .. L : g[n] = then(n, g[n - 1])
  <2> TAKE n \in 1 .. L
  <2>1. n - 1 \in 0 .. L
    BY <1>1
  <2>2. g[n - 1] \in S
    BY <1>4, <2>1 DEF Loops
  <2> QED
    BY <1>4, <2>2 DEF Loops
<1>6. g = body(g)
  BY <1>1, <1>4, <1>5 DEF Loops
<1>7. known = body(known)
  BY <1>6
<1> HIDE DEF known
<1>8. known[0] = <<>> /\ \A n \in 1 .. L : known[n] = then(n, known[n - 1])
  BY <1>1, <1>7
<1> DEFINE A == {n \in 0 .. L : known[n] \in S}
<1>9. 0 \in A
  BY <1>1, <1>2, <1>8
<1>10. ASSUME NEW n \in 0 .. L - 1, n \in A PROVE n + 1 \in A
  <2>1. n + 1 \in 1 .. L /\ n + 1 - 1 = n /\ known[n] \in S
    BY <1>1, <1>10
  <2>2. known[n + 1] = then(n + 1, known[n])
    BY <1>8, <2>1
  <2> QED
    BY <1>1, <1>2, <2>1, <2>2
<1> HIDE DEF A
<1>11. \A n \in 0 .. L : n \in A
  BY <1>1, <1>9, <1>10, Climbs
<1> QED
  BY <1>3, <1>8, <1>11 DEF L, S, T, A, then

LEMMA MergedSays ==
  ASSUME NEW rules, NEW tables, NEW read \in Seq(CandidatesOf(rules, tables))
  PROVE  /\ IsList(Merged(read))
         /\ \A i \in DOMAIN Merged(read) : Merged(read)[i].changed =>
              \E z \in DOMAIN read : read[z].rule = Merged(read)[i].rule /\ read[z].changed
         /\ \A z \in DOMAIN read : read[z].changed =>
              \E i \in DOMAIN Merged(read) : Merged(read)[i].rule = read[z].rule /\ Merged(read)[i].changed
<1> DEFINE T == CandidatesOf(rules, tables)
           L == Len(read)
<1>1. PICK known :
        /\ known[0] = <<>> /\ Merged(read) = known[L]
        /\ \A n \in 0 .. L : known[n] \in Seq(T)
        /\ \A n \in 1 .. L : known[n] = Merge(known[n - 1], read[n])
  BY MergedUnrolls
<1>2. L \in Nat /\ DOMAIN read = 1 .. L /\ \A n \in 1 .. L : read[n] \in T
  OBVIOUS
<1> HIDE DEF T, L
<1> DEFINE from(n) == \A i \in DOMAIN known[n] : known[n][i].changed =>
                        \E z \in 1 .. n : read[z].rule = known[n][i].rule /\ read[z].changed
           onto(n) == \A z \in 1 .. n : read[z].changed =>
                        \E i \in DOMAIN known[n] : known[n][i].rule = read[z].rule /\ known[n][i].changed
           A == {n \in 0 .. L : from(n) /\ onto(n)}
<1>3. 0 \in A
  BY <1>1, <1>2
<1>4. ASSUME NEW n \in 0 .. L - 1, n \in A PROVE n + 1 \in A
  <2>1. n + 1 \in 1 .. L /\ n + 1 \in 0 .. L /\ n + 1 - 1 = n /\ n \in Nat /\ from(n) /\ onto(n)
    BY <1>2, <1>4
  <2> DEFINE old == known[n]
             all == known[n + 1]
             c   == read[n + 1]
  <2>2. old \in Seq(T) /\ all = Merge(old, c) /\ c \in T
    BY <1>1, <1>2, <2>1
  <2>3. /\ \A i \in DOMAIN all : all[i].changed =>
             \/ all[i].rule = c.rule /\ c.changed
             \/ i \in DOMAIN old /\ old[i].rule = all[i].rule /\ old[i].changed
        /\ \A i \in DOMAIN old :
             i \in DOMAIN all /\ all[i].rule = old[i].rule /\ (old[i].changed => all[i].changed)
        /\ \E i \in DOMAIN all : all[i].rule = c.rule /\ (c.changed => all[i].changed)
    <3> HIDE DEF from, onto, A, old, all, c
    <3>1. old \in Seq(CandidatesOf(rules, tables)) /\ c \in CandidatesOf(rules, tables)
      BY <2>2 DEF T
    <3>2. IsMerged(old, c, all)
      BY <2>2, <3>1, MergeSays
    <3> QED
      BY <3>2 DEF IsMerged
  <2>4. from(n + 1)
    <3> SUFFICES ASSUME NEW i \in DOMAIN all, all[i].changed
                 PROVE  \E z \in 1 .. n + 1 : read[z].rule = all[i].rule /\ read[z].changed
      OBVIOUS
    <3>1. CASE all[i].rule = c.rule /\ c.changed
      <4>1. n + 1 \in 1 .. n + 1
        BY <2>1
      <4> QED
        BY <3>1, <4>1
    <3>2. CASE i \in DOMAIN old /\ old[i].rule = all[i].rule /\ old[i].changed
      <4>1. PICK z \in 1 .. n : read[z].rule = old[i].rule /\ read[z].changed
        BY <2>1, <3>2
      <4>2. z \in 1 .. n + 1
        BY <2>1
      <4> QED
        BY <3>2, <4>1, <4>2
    <3> QED
      BY <2>3, <3>1, <3>2
  <2>5. onto(n + 1)
    <3> SUFFICES ASSUME NEW z \in 1 .. n + 1, read[z].changed
                 PROVE  \E i \in DOMAIN all : all[i].rule = read[z].rule /\ all[i].changed
      OBVIOUS
    <3>1. CASE z = n + 1
      BY <2>3, <3>1
    <3>2. CASE z # n + 1
      <4>1. z \in 1 .. n
        BY <2>1, <3>2
      <4>2. PICK i \in DOMAIN old : old[i].rule = read[z].rule /\ old[i].changed
        BY <2>1, <4>1
      <4> QED
        BY <2>3, <4>2
    <3> QED
      BY <3>1, <3>2
  <2> QED
    BY <2>1, <2>4, <2>5
<1> HIDE DEF A
<1>5. L \in A
  <2>1. \A n \in 0 .. L : n \in A
    BY <1>2, <1>3, <1>4, Climbs
  <2> QED
    BY <1>2, <2>1
<1>6. from(L) /\ onto(L)
  BY <1>5 DEF A
<1>7. IsList(Merged(read))
  <2>1. known[L] \in Seq(T)
    BY <1>1, <1>2
  <2> QED
    BY <1>1, <2>1, SeqIsList
<1> QED
  BY <1>1, <1>2, <1>6, <1>7

-----------------------------------------------------------------------------
(* The chunks that are read.                                                *)

\* Chunks of one source, each with a text.
OneSource(chunks, source) ==
  IsList(chunks) /\ \A n \in DOMAIN chunks : chunks[n].source = source /\ IsText(chunks[n].text)

LEMMA ServedJsSays ==
  ASSUME NEW scripts, IsList(scripts), \A j \in DOMAIN scripts : IsText(scripts[j].text)
  PROVE  OneSource(ServedJs(scripts), "served_js")
<1> DEFINE good(s) == IsList(s) /\ \A j \in DOMAIN s : IsText(s[j].text)
           kept(s, places) == Those(s, places)
<1>1. ASSUME NEW s, good(s), NEW places PROVE good(Those(s, places))
  <2>1. IsList(Those(s, places)) /\ \A z \in DOMAIN Those(s, places) : \E i \in DOMAIN s : Those(s, places)[z] = s[i]
    BY <1>1, ThoseLists
  <2> QED
    BY <1>1, <2>1
<1>2. ASSUME NEW s, good(s), NEW t, good(t) PROVE good(s \o t)
  <2>1. /\ IsList(s \o t) /\ DOMAIN s = 1 .. Len(s) /\ DOMAIN t = 1 .. Len(t)
        /\ Len(s) \in Nat /\ Len(t) \in Nat
        /\ DOMAIN (s \o t) = 1 .. Len(s) + Len(t)
        /\ \A z \in 1 .. Len(s) : (s \o t)[z] = s[z]
        /\ \A z \in 1 .. Len(t) : (s \o t)[Len(s) + z] = t[z]
    BY <1>2, JoinedLists
  <2>2. ASSUME NEW j \in DOMAIN (s \o t) PROVE IsText((s \o t)[j].text)
    <3>1. CASE j <= Len(s)
      <4>1. j \in 1 .. Len(s)
        BY <2>1, <3>1
      <4> QED
        BY <1>2, <2>1, <4>1
    <3>2. CASE j > Len(s)
      <4>1. j - Len(s) \in 1 .. Len(t) /\ Len(s) + (j - Len(s)) = j
        BY <2>1, <3>2
      <4>2. (s \o t)[j] = t[j - Len(s)]
        BY <2>1, <4>1
      <4> QED
        BY <1>2, <2>1, <4>1, <4>2
    <3> QED
      BY <2>1, <3>1, <3>2
  <2> QED
    BY <2>1, <2>2
<1>3. ASSUME NEW s, good(s), NEW n \in Nat PROVE good(FirstOf(s, n))
  <2>1. /\ IsList(FirstOf(s, n)) /\ DOMAIN FirstOf(s, n) \subseteq DOMAIN s
        /\ \A z \in DOMAIN FirstOf(s, n) : FirstOf(s, n)[z] = s[z]
    BY <1>3, FirstOfSays
  <2> QED
    BY <1>3, <2>1
<1> DEFINE OfKind(kind) == Those(scripts, {j \in DOMAIN scripts : scripts[j].kind = kind})
           all  == ServedOrder(scripts)
           its  == Those(all, {j \in DOMAIN all : all[j].kind = "inline" \/ all[j].sameOrigin})
           own  == FirstOf(its, MaxScripts)
           read == Those(own, {j \in DOMAIN own : own[j].loads})
           chunks == [j \in DOMAIN read |-> Chunk("served_js", read[j].file, read[j].text)]
<1>4. ServedJs(scripts) = chunks
  BY DEF ServedJs
<1>5. all = OfKind("inline") \o OfKind("app") \o OfKind("vendor")
  BY DEF ServedOrder
<1>6. good(scripts)
  OBVIOUS
<1> HIDE DEF good
<1>7. good(all)
  <2>1. good(OfKind("inline")) /\ good(OfKind("app")) /\ good(OfKind("vendor"))
    BY <1>1, <1>6
  <2> HIDE DEF OfKind
  <2>2. good(OfKind("inline") \o OfKind("app"))
    BY <1>2, <2>1
  <2> QED
    BY <1>2, <1>5, <2>1, <2>2
<1> HIDE DEF all
<1>8. good(its)
  BY <1>1, <1>7
<1> HIDE DEF its
<1>9. good(own)
  <2>1. MaxScripts \in Nat
    BY CapsAssumption
  <2> QED
    BY <1>3, <1>8, <2>1
<1> HIDE DEF own
<1>10. good(read)
  BY <1>1, <1>9
<1> HIDE DEF read
<1>11. IsList(chunks)
  <2>1. DOMAIN read = 1 .. Len(read) /\ Len(read) \in Nat
    BY <1>10, IsListSays DEF good
  <2>2. DOMAIN chunks = DOMAIN read /\ chunks = [n \in DOMAIN read |-> chunks[n]]
    OBVIOUS
  <2> HIDE DEF chunks
  <2> QED
    BY <2>1, <2>2, MappedList
<1>12. \A n \in DOMAIN chunks : chunks[n].source = "served_js" /\ IsText(chunks[n].text)
  BY <1>10 DEF good, Chunk
<1> QED
  BY <1>4, <1>11, <1>12 DEF OneSource

LEMMA RepoSourceSays ==
  ASSUME NEW repo, repo.walk \in Seq(DOMAIN repo.files), \A f \in DOMAIN repo.files : IsText(repo.files[f].text)
  PROVE  OneSource(RepoSource(repo), "repo_source")
<1> DEFINE its  == Those(repo.walk, {j \in DOMAIN repo.walk : IsCode(repo, repo.walk[j])})
           code == FirstOf(its, MaxRepoFiles)
           chunks == [j \in DOMAIN code |-> Chunk("repo_source", code[j], repo.files[code[j]].text)]
<1>1. RepoSource(repo) = chunks
  BY DEF RepoSource
<1>2. its \in Seq(DOMAIN repo.files)
  BY ThoseSays
<1> HIDE DEF its
<1>3. /\ IsList(code) /\ DOMAIN code \subseteq DOMAIN its
      /\ \A z \in DOMAIN code : code[z] = its[z]
  <2>1. MaxRepoFiles \in Nat /\ IsList(its)
    BY <1>2, CapsAssumption, SeqIsList
  <2> QED
    BY <2>1, FirstOfSays
<1> HIDE DEF code
<1>4. \A z \in DOMAIN code : code[z] \in DOMAIN repo.files
  BY <1>2, <1>3
<1>5. IsList(chunks)
  <2>1. DOMAIN code = 1 .. Len(code) /\ Len(code) \in Nat
    BY <1>3, IsListSays
  <2>2. DOMAIN chunks = DOMAIN code /\ chunks = [n \in DOMAIN code |-> chunks[n]]
    OBVIOUS
  <2> HIDE DEF chunks
  <2> QED
    BY <2>1, <2>2, MappedList
<1>6. \A n \in DOMAIN chunks : chunks[n].source = "repo_source" /\ IsText(chunks[n].text)
  BY <1>4 DEF Chunk
<1> QED
  BY <1>1, <1>5, <1>6 DEF OneSource

ChangedChunks(w) == {DiffChunk(f, w.repo.files[f].text, w.news[f]) : f \in DOMAIN w.news}
AllEvidence(w, scripts) == ServedJs(scripts) \o LocalEvidence(w.repo, w.asks)

\* What a run reads: texts of the three sources, and of the change all that is new.
LEMMA EvidenceSays ==
  ASSUME NEW w \in Worlds, w.asks.diff, NEW scripts \in {w.scripts, <<>>}
  PROVE  LET chunks == AllEvidence(w, scripts) IN
         /\ IsList(chunks)
         /\ \A n \in DOMAIN chunks : chunks[n].source \in DOMAIN Priority /\ IsText(chunks[n].text)
         /\ {chunks[n] : n \in {m \in DOMAIN chunks : chunks[m].source = "git_diff"}} = ChangedChunks(w)
<1> DEFINE news == GitDiff(w.repo).chunks
           served == ServedJs(scripts)
           local == IF w.asks.repo THEN RepoSource(w.repo) ELSE <<>>
           chunks == AllEvidence(w, scripts)
<1>1. /\ IsRepo(w.repo, w.news) /\ w.scripts \in Seq(ToSet(w.scripts))
      /\ \A s \in ToSet(w.scripts) : IsText(s.text)
  BY WorldsAssumption
<1>2. /\ w.repo.walk \in Seq(DOMAIN w.repo.files)
      /\ \A f \in DOMAIN w.repo.files : IsText(w.repo.files[f].text)
      /\ DOMAIN w.news \subseteq DOMAIN w.repo.files
      /\ news \in Seq(ChangedChunks(w)) /\ ToSet(news) = ChangedChunks(w)
  BY <1>1 DEF IsRepo, ChangedChunks
<1>3. <<>> \in Seq({}) /\ DOMAIN <<>> = {}
  OBVIOUS
<1>4. OneSource(served, "served_js")
  <2>1. IsList(w.scripts) /\ \A j \in DOMAIN w.scripts : IsText(w.scripts[j].text)
    BY <1>1, SeqIsList DEF ToSet
  <2>2. IsList(scripts) /\ \A j \in DOMAIN scripts : IsText(scripts[j].text)
    <3>1. IsList(<<>>)
      BY <1>3, SeqIsList
    <3> QED
      BY <1>3, <2>1, <3>1
  <2> QED
    BY <2>2, ServedJsSays
<1>5. OneSource(local, "repo_source")
  <2>1. CASE w.asks.repo
    BY <1>2, <2>1, RepoSourceSays
  <2>2. CASE ~w.asks.repo
    BY <1>3, <2>2, SeqIsList DEF OneSource
  <2> QED
    BY <2>1, <2>2
<1>6. OneSource(news, "git_diff") /\ ToSet(news) = ChangedChunks(w)
  <2>1. \A c \in ChangedChunks(w) : c.source = "git_diff" /\ IsText(c.text)
    BY <1>2 DEF ChangedChunks, DiffChunk
  <2>2. \A n \in DOMAIN news : news[n] \in ToSet(news)
    BY DEF ToSet
  <2> HIDE DEF news
  <2> QED
    BY <1>2, <2>1, <2>2, SeqIsList DEF OneSource
<1>7. chunks = served \o (news \o local)
  BY DEF AllEvidence, LocalEvidence
<1> HIDE DEF news, served, local, chunks
<1> DEFINE mid == news \o local
           a == Len(served)
           b == Len(news)
           c == Len(local)
<1>8. /\ IsList(served) /\ IsList(news) /\ IsList(local)
      /\ \A n \in DOMAIN served : served[n].source = "served_js" /\ IsText(served[n].text)
      /\ \A n \in DOMAIN news : news[n].source = "git_diff" /\ IsText(news[n].text)
      /\ \A n \in DOMAIN local : local[n].source = "repo_source" /\ IsText(local[n].text)
  BY <1>4, <1>5, <1>6 DEF OneSource
<1>9. /\ IsList(mid) /\ Len(mid) = b + c /\ DOMAIN news = 1 .. b /\ DOMAIN local = 1 .. c
      /\ b \in Nat /\ c \in Nat
      /\ \A n \in 1 .. b : mid[n] = news[n]
      /\ \A n \in 1 .. c : mid[b + n] = local[n]
  <2>1. /\ IsList(mid) /\ DOMAIN news = 1 .. b /\ DOMAIN local = 1 .. c
        /\ b \in Nat /\ c \in Nat /\ DOMAIN mid = 1 .. b + c
        /\ \A n \in 1 .. b : mid[n] = news[n]
        /\ \A n \in 1 .. c : mid[b + n] = local[n]
    BY <1>8, JoinedLists
  <2>2. DOMAIN mid = 1 .. Len(mid) /\ Len(mid) \in Nat
    BY <2>1, IsListSays
  <2> HIDE DEF mid, b, c
  <2>3. Len(mid) = b + c
    BY <2>1, <2>2
  <2> QED
    BY <2>1, <2>3
<1> HIDE DEF mid, b, c
<1>10. /\ IsList(chunks) /\ DOMAIN served = 1 .. a /\ a \in Nat /\ DOMAIN chunks = 1 .. a + (b + c)
       /\ \A n \in 1 .. a : chunks[n] = served[n]
       /\ \A n \in 1 .. b + c : chunks[a + n] = mid[n]
  <2>1. chunks = served \o mid
    BY <1>7 DEF mid
  <2>2. /\ IsList(served \o mid) /\ DOMAIN served = 1 .. Len(served) /\ Len(served) \in Nat
        /\ DOMAIN (served \o mid) = 1 .. Len(served) + Len(mid)
        /\ \A z \in 1 .. Len(served) : (served \o mid)[z] = served[z]
        /\ \A z \in 1 .. Len(mid) : (served \o mid)[Len(served) + z] = mid[z]
    <3>1. IsList(served) /\ IsList(mid)
      BY <1>8, <1>9
    <3> QED
      BY <3>1, JoinedLists
  <2> QED
    BY <1>9, <2>1, <2>2 DEF a
<1> HIDE DEF a
<1>11. \A n \in 1 .. b : a + n \in DOMAIN chunks /\ chunks[a + n] = news[n]
  BY <1>9, <1>10
<1>12. \A n \in 1 .. c : a + (b + n) \in DOMAIN chunks /\ chunks[a + (b + n)] = local[n]
  <2> TAKE n \in 1 .. c
  <2>1. b + n \in 1 .. b + c
    BY <1>9
  <2>2. a + (b + n) \in 1 .. a + (b + c)
    BY <1>9, <1>10, <2>1
  <2> QED
    BY <1>9, <1>10, <2>1, <2>2
<1>13. ASSUME NEW n \in DOMAIN chunks
       PROVE  \/ n \in DOMAIN served /\ chunks[n] = served[n]
              \/ \E m \in DOMAIN news : chunks[n] = news[m]
              \/ \E m \in DOMAIN local : chunks[n] = local[m]
  <2>1. CASE n <= a
    BY <1>10, <2>1
  <2>2. CASE a < n /\ n <= a + b
    <3>1. n - a \in 1 .. b /\ a + (n - a) = n
      BY <1>9, <1>10, <2>2
    <3> QED
      BY <1>9, <1>11, <3>1
  <2>3. CASE a + b < n
    <3>1. n - (a + b) \in 1 .. c /\ a + (b + (n - (a + b))) = n
      BY <1>9, <1>10, <2>3
    <3> QED
      BY <1>9, <1>12, <3>1
  <2> QED
    BY <1>9, <1>10, <2>1, <2>2, <2>3
<1>14. {"git_diff", "served_js", "repo_source"} \subseteq DOMAIN Priority
  BY DEF Priority
<1>15. \A n \in DOMAIN chunks : chunks[n].source \in DOMAIN Priority /\ IsText(chunks[n].text)
  BY <1>8, <1>13, <1>14
<1>16. \A n \in DOMAIN chunks : chunks[n].source = "git_diff" => chunks[n] \in ToSet(news)
  BY <1>8, <1>13 DEF ToSet
<1>17. \A d \in ToSet(news) : \E n \in DOMAIN chunks : chunks[n] = d /\ chunks[n].source = "git_diff"
  BY <1>8, <1>9, <1>11 DEF ToSet
<1>18. {chunks[n] : n \in {m \in DOMAIN chunks : chunks[m].source = "git_diff"}} = ChangedChunks(w)
  BY <1>6, <1>16, <1>17
<1> QED
  BY <1>10, <1>15, <1>18 DEF chunks

-----------------------------------------------------------------------------
(* What is read from the change comes first.                                *)

Read(w, scripts) ==
  LET chunks == AllEvidence(w, scripts) IN FlattenSeq([n \in DOMAIN chunks |-> InferCandidates(chunks[n])])
NewRules(w) == UNION {{c.rule : c \in ToSet(InferCandidates(d))} : d \in ChangedChunks(w)}

\* All that is read, before it is merged: each copy is marked as changed if its
\* text is of the diff, and those have the rules of the change.
LEMMA AllReadSays ==
  ASSUME NEW w \in Worlds, w.asks.diff, NEW scripts \in {w.scripts, <<>>},
         NEW read, read = Read(w, scripts)
  PROVE  /\ \E rules, tables : read \in Seq(CandidatesOf(rules, tables))
         /\ \A z \in DOMAIN read : read[z].changed => read[z].rule \in NewRules(w)
         /\ \A rule \in NewRules(w) : \E z \in DOMAIN read : read[z].rule = rule /\ read[z].changed
<1> DEFINE chunks == AllEvidence(w, scripts)
           each == [n \in DOMAIN chunks |-> InferCandidates(chunks[n])]
           rules == {read[z].rule : z \in DOMAIN read}
           tables == {read[z].table : z \in DOMAIN read}
<1>1. /\ IsList(chunks)
      /\ \A n \in DOMAIN chunks : chunks[n].source \in DOMAIN Priority /\ IsText(chunks[n].text)
      /\ {chunks[n] : n \in {m \in DOMAIN chunks : chunks[m].source = "git_diff"}} = ChangedChunks(w)
  BY EvidenceSays
<1>2. read = FlattenSeq(each)
  BY DEF Read
<1> HIDE DEF chunks
<1>3. DOMAIN each = DOMAIN chunks /\ \A n \in DOMAIN each : each[n] = InferCandidates(chunks[n]) /\ OfChunk(each[n], chunks[n])
  BY <1>1, ChunkSays
<1>4. IsList(each)
  <2>1. DOMAIN chunks = 1 .. Len(chunks) /\ Len(chunks) \in Nat
    BY <1>1, IsListSays
  <2>2. DOMAIN each = DOMAIN chunks /\ each = [n \in DOMAIN chunks |-> each[n]]
    OBVIOUS
  <2> HIDE DEF each
  <2> QED
    BY <2>1, <2>2, MappedList
<1> HIDE DEF each
<1>5. /\ IsList(read)
      /\ \A z \in DOMAIN read : \E n \in DOMAIN each : \E m \in DOMAIN each[n] : read[z] = each[n][m]
      /\ \A n \in DOMAIN each : \A m \in DOMAIN each[n] : \E z \in DOMAIN read : read[z] = each[n][m]
  BY <1>2, <1>3, <1>4, FlattenLists DEF OfChunk
<1>6. ASSUME NEW z \in DOMAIN read
      PROVE  \E n \in DOMAIN chunks : /\ read[z] \in ToSet(InferCandidates(chunks[n]))
                                      /\ read[z] = Candidate(read[z].rule, read[z].table, chunks[n])
  <2>1. PICK n \in DOMAIN each : \E m \in DOMAIN each[n] : read[z] = each[n][m]
    BY <1>5
  <2>2. PICK m \in DOMAIN each[n] : read[z] = each[n][m]
    BY <2>1
  <2>3. n \in DOMAIN chunks /\ each[n] = InferCandidates(chunks[n])
    BY <1>3
  <2>4. read[z] \in ToSet(InferCandidates(chunks[n]))
    BY <2>2, <2>3 DEF ToSet
  <2>5. read[z] = Candidate(read[z].rule, read[z].table, chunks[n])
    BY <1>3, <2>2 DEF OfChunk
  <2> QED
    BY <2>3, <2>4, <2>5
<1>7. ASSUME NEW z \in DOMAIN read PROVE read[z] \in CandidatesOf(rules, tables)
  <2>1. PICK n \in DOMAIN chunks : read[z] = Candidate(read[z].rule, read[z].table, chunks[n])
    BY <1>6
  <2>2. read[z].rule \in rules /\ read[z].table \in tables /\ chunks[n].source \in DOMAIN Priority
    BY <1>1
  <2> HIDE DEF rules, tables
  <2>3. Candidate(read[z].rule, read[z].table, chunks[n]) \in CandidatesOf(rules, tables)
    BY <2>2 DEF Candidate, CandidatesOf
  <2> QED
    BY <2>1, <2>3
<1>8. read \in Seq(CandidatesOf(rules, tables))
  <2>1. DOMAIN read = 1 .. Len(read) /\ Len(read) \in Nat /\ read = [n \in 1 .. Len(read) |-> read[n]]
    BY <1>5, IsListSays DEF IsList
  <2> HIDE DEF rules, tables
  <2>2. read \in [1 .. Len(read) -> CandidatesOf(rules, tables)]
    BY <1>7, <2>1
  <2> QED
    BY <2>1, <2>2, MakesList
<1>9. ASSUME NEW z \in DOMAIN read, read[z].changed PROVE read[z].rule \in NewRules(w)
  <2>1. PICK n \in DOMAIN chunks : /\ read[z] \in ToSet(InferCandidates(chunks[n]))
                                   /\ read[z] = Candidate(read[z].rule, read[z].table, chunks[n])
    BY <1>6
  <2>2. chunks[n].source = "git_diff"
    <3>1. read[z].changed = (chunks[n].source = "git_diff")
      BY <2>1, CandidateSays
    <3> QED
      BY <1>9, <3>1
  <2>3. chunks[n] \in ChangedChunks(w)
    BY <1>1, <2>2
  <2> QED
    BY <2>1, <2>3 DEF NewRules
<1>10. ASSUME NEW rule \in NewRules(w) PROVE \E z \in DOMAIN read : read[z].rule = rule /\ read[z].changed
  <2>1. PICK d \in ChangedChunks(w) : rule \in {c.rule : c \in ToSet(InferCandidates(d))}
    BY DEF NewRules
  <2>2. PICK n \in DOMAIN chunks : chunks[n] = d /\ chunks[n].source = "git_diff"
    BY <1>1
  <2>3. PICK m \in DOMAIN each[n] : each[n][m].rule = rule
    BY <1>3, <2>1, <2>2 DEF ToSet
  <2>4. PICK z \in DOMAIN read : read[z] = each[n][m]
    BY <1>3, <1>5
  <2>5. read[z] = Candidate(read[z].rule, read[z].table, chunks[n])
    BY <1>3, <2>4 DEF OfChunk
  <2>6. read[z].changed
    <3>1. read[z].changed = (chunks[n].source = "git_diff")
      BY <2>5, CandidateSays
    <3> QED
      BY <2>2, <3>1
  <2> QED
    BY <2>3, <2>4, <2>6
<1> HIDE DEF rules, tables
<1>11. \E rs, ts : read \in Seq(CandidatesOf(rs, ts))
  BY <1>8
<1> QED
  BY <1>9, <1>10, <1>11

\* Unless they fill the budget alone, the rules of the change are all attempted.
LEMMA ChangedAreCandidates ==
  ASSUME NEW w \in Worlds, w.asks.diff, NEW scripts \in {w.scripts, <<>>}
  PROVE  LET some == Candidates(w, scripts) IN
         \/ \A rule \in NewRules(w) : \E n \in DOMAIN some : some[n].rule = rule
         \/ Len(some) = MaxCandidates /\ \A n \in DOMAIN some : some[n].rule \in NewRules(w)
<1>0. PICK read : read = Read(w, scripts)
  OBVIOUS
<1> DEFINE all  == Merged(read)
           fromChange == {n \in DOMAIN all : all[n].changed}
           a == Those(all, fromChange)
           b == Those(all, DOMAIN all \ fromChange)
           some == Candidates(w, scripts)
<1>1. some = FirstOf(a \o b, MaxCandidates)
  BY <1>0 DEF Candidates, InferFromEvidence, Read, AllEvidence
<1>2. /\ IsList(all)
      /\ \A i \in DOMAIN all : all[i].changed => all[i].rule \in NewRules(w)
      /\ \A rule \in NewRules(w) : \E i \in DOMAIN all : all[i].rule = rule /\ all[i].changed
  <2>1. PICK rules, tables : read \in Seq(CandidatesOf(rules, tables))
    BY <1>0, AllReadSays
  <2>2. /\ \A z \in DOMAIN read : read[z].changed => read[z].rule \in NewRules(w)
        /\ \A rule \in NewRules(w) : \E z \in DOMAIN read : read[z].rule = rule /\ read[z].changed
    BY <1>0, AllReadSays
  <2>3. /\ IsList(all)
        /\ \A i \in DOMAIN all : all[i].changed => \E z \in DOMAIN read : read[z].rule = all[i].rule /\ read[z].changed
        /\ \A z \in DOMAIN read : read[z].changed => \E i \in DOMAIN all : all[i].rule = read[z].rule /\ all[i].changed
    BY <2>1, MergedSays
  <2> HIDE DEF all
  <2>4. \A i \in DOMAIN all : all[i].changed => all[i].rule \in NewRules(w)
    BY <2>2, <2>3
  <2>5. ASSUME NEW rule \in NewRules(w) PROVE \E i \in DOMAIN all : all[i].rule = rule /\ all[i].changed
    <3>1. PICK z \in DOMAIN read : read[z].rule = rule /\ read[z].changed
      BY <2>2
    <3> QED
      BY <2>3, <3>1
  <2> QED
    BY <2>3, <2>4, <2>5
<1> HIDE DEF all, some
<1>3. /\ IsList(a) /\ \A z \in DOMAIN a : a[z].rule \in NewRules(w)
      /\ \A rule \in NewRules(w) : \E z \in DOMAIN a : a[z].rule = rule
  <2>1. /\ IsList(a)
        /\ \A z \in DOMAIN a : \E i \in DOMAIN all : i \in fromChange /\ a[z] = all[i]
        /\ \A i \in DOMAIN all : i \in fromChange => \E z \in DOMAIN a : a[z] = all[i]
    <3> HIDE DEF fromChange
    <3> QED
      BY <1>2, ThoseLists
  <2> HIDE DEF a
  <2>2. ASSUME NEW rule \in NewRules(w) PROVE \E z \in DOMAIN a : a[z].rule = rule
    <3>1. PICK i \in DOMAIN all : all[i].rule = rule /\ all[i].changed
      BY <1>2
    <3>2. PICK z \in DOMAIN a : a[z] = all[i]
      BY <2>1, <3>1
    <3> QED
      BY <3>1, <3>2
  <2> QED
    BY <1>2, <2>1, <2>2
<1>4. IsList(b)
  <2> HIDE DEF fromChange
  <2> QED
    BY <1>2, ThoseLists
<1> HIDE DEF a, b
<1> DEFINE ab == a \o b
<1>5. /\ IsList(ab) /\ DOMAIN a = 1 .. Len(a) /\ Len(a) \in Nat /\ Len(b) \in Nat
      /\ DOMAIN ab = 1 .. Len(a) + Len(b) /\ \A z \in 1 .. Len(a) : ab[z] = a[z]
  BY <1>3, <1>4, JoinedLists
<1>6. MaxCandidates \in Nat
  BY RulesAssumption
<1> HIDE DEF ab
<1>7. /\ IsList(some) /\ (MaxCandidates <= Len(ab) => Len(some) = MaxCandidates)
      /\ (Len(ab) < MaxCandidates => Len(some) = Len(ab))
      /\ \A z \in DOMAIN some : some[z] = ab[z]
      /\ DOMAIN ab = 1 .. Len(ab) /\ Len(ab) \in Nat
  BY <1>1, <1>5, <1>6, FirstOfSays DEF ab
<1>8. DOMAIN some = 1 .. Len(some) /\ Len(some) \in Nat
  BY <1>7, IsListSays
<1>9. Len(ab) = Len(a) + Len(b)
  BY <1>5, <1>7
<1>10. CASE Len(a) <= MaxCandidates
  <2>1. ASSUME NEW rule \in NewRules(w) PROVE \E n \in DOMAIN some : some[n].rule = rule
    <3>1. PICK z \in 1 .. Len(a) : a[z].rule = rule
      BY <1>3, <1>5
    <3>2. z \in 1 .. Len(some)
      BY <1>5, <1>6, <1>7, <1>9, <1>10
    <3> QED
      BY <1>5, <1>7, <1>8, <3>1, <3>2
  <2> QED
    BY <2>1 DEF some
<1>11. CASE MaxCandidates < Len(a)
  <2>1. Len(some) = MaxCandidates
    BY <1>5, <1>6, <1>7, <1>9, <1>11
  <2>2. \A n \in DOMAIN some : n \in 1 .. Len(a)
    BY <1>5, <1>6, <1>8, <1>11, <2>1
  <2>3. \A n \in DOMAIN some : some[n].rule \in NewRules(w)
    BY <1>3, <1>5, <1>7, <2>2
  <2> QED
    BY <2>1, <2>3 DEF some
<1> QED
  BY <1>5, <1>6, <1>10, <1>11

LEMMA ChangedComesFirstFollows == Given => ChangedComesFirst
<1> SUFFICES ASSUME Given, world.asks.diff
             PROVE  \/ \A rule \in TouchedRules : \E n \in DOMAIN cands : cands[n].rule = rule
                    \/ Len(cands) = MaxCandidates /\ \A n \in DOMAIN cands : cands[n].rule \in TouchedRules
  BY DEF ChangedComesFirst
<1>1. world \in Worlds
  BY DEF Given
<1>2. PICK scripts \in {world.scripts, <<>>} : cands = Candidates(world, scripts)
  BY DEF Given
<1>3. TouchedRules = NewRules(world)
  BY DEF TouchedRules, NewRules, ChangedChunks
<1> QED
  BY <1>1, <1>2, <1>3, ChangedAreCandidates

\* "A per-run cap can never drop the rule the change introduced" (infer.ts): for
\* any texts, however often they state a rule and whatever the cap, the rules on
\* new lines are attempted before any other.
THEOREM ChangedComesFirstHolds == Spec => []ChangedComesFirst
<1>1. Spec => []Inv
  BY RulesStarts, RulesStays, PTL DEF Spec
<1>2. Inv => ChangedComesFirst
  BY ChangedComesFirstFollows DEF Inv
<1> QED
  BY <1>1, <1>2, PTL

=============================================================================
