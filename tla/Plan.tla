-------------------------------- MODULE Plan --------------------------------
(***************************************************************************)
(* How a rule is put to the test (core/discovery/plan.ts) and how it is    *)
(* judged (compile.ts, core/invariant.ts): the states to bring the app to, *)
(* and whether the rule applies there.                                     *)
(***************************************************************************)
EXTENDS Infer

None == "none"

Holds(op, a, b) ==
  CASE op = ">=" -> a >= b [] op = ">" -> a > b [] op = "<=" -> a <= b [] op = "<" -> a < b

\* One step is the last decimal of the threshold: here 1.
BoundaryValues(t, op) ==
  LET clear == Max({t, -t, 10})
  IN  <<[label |-> "below", value |-> t - 1], [label |-> "boundary", value |-> t],
        [label |-> "just-above", value |-> t + 1],
        IF op \in {">=", ">"} THEN [label |-> "clearly-above", value |-> t + clear]
        ELSE [label |-> "clearly-below", value |-> t - clear]>>

PlanNumericBoundary(rule) ==
  LET vals == BoundaryValues(rule.value, rule.op)
  IN  [n \in DOMAIN vals |->
         [label |-> vals[n].label, value |-> vals[n].value, in |-> "", intent |-> "", mustReach |-> {},
          applicable |-> Holds(rule.op, vals[n].value, rule.value)]]

\* A move that is allowed, in another state: the same one if there is one.
FirstState(states, S) == states[Min({n \in DOMAIN states : states[n] \in S})]
AllowedMoves(table, from, intent) ==
  LET elsewhere == {e \in table.edges : e.from # from}
      same      == {e \in elsewhere : e.intent = intent /\ (table.form = "action-map" \/ e.from # intent)}
      any       == {e \in elsewhere : table.form = "successor-list" /\ e.next # e.from}
      fit       == IF same # {} THEN same ELSE any
  IN  {e \in fit : e.from = FirstState(table.states, {f.from : f \in fit})}

\* Without such a move nothing vouches for the experiment: no plan.
PlanStateTransition(c) ==
  LET allowed == AllowedMoves(c.table, c.rule.from, c.rule.intent)
      control == CHOOSE e \in allowed : TRUE
  IN  IF allowed = {} THEN <<>>
      ELSE <<[label |-> "forbidden", value |-> 0, in |-> c.rule.from, intent |-> c.rule.intent,
              mustReach |-> {}, applicable |-> TRUE],
             [label |-> "allowed-control", value |-> 0, in |-> control.from, intent |-> control.intent,
              mustReach |-> {control.next}, applicable |-> FALSE]>>

PlanExperiment(c) ==
  IF c.rule.family = "numeric" THEN PlanNumericBoundary(c.rule) ELSE PlanStateTransition(c)

\* The shortest ways from one state to another along declared moves.
Leads(p, from, to) ==
  IF p = <<>> THEN from = to
  ELSE /\ p[1].from = from /\ p[Len(p)].next = to
       /\ \A n \in 1 .. Len(p) - 1 : p[n].next = p[n + 1].from
Routes(table, from, to) ==
  LET all == UNION {{p \in [1 .. n -> table.edges] : Leads(p, from, to)} : n \in 0 .. Len(table.states) - 1}
  IN  {p \in all : \A q \in all : Len(p) <= Len(q)}

-----------------------------------------------------------------------------
(* The verdict of one run. Before and after are [state, number], None or    *)
(* NoFigure where the page did not show it.                                  *)

NoFigure == -999

Observable(rule, after) ==
  IF rule.family = "numeric" THEN after.number # NoFigure ELSE after.state # None

Evaluate(rule, before, after) ==
  LET applies == IF rule.family = "numeric" THEN before.input # NoFigure /\ Holds(rule.op, before.input, rule.value)
                                            ELSE before.state = rule.from
      kept    == IF rule.family = "numeric" THEN after.number = rule.sets ELSE after.state = rule.from
  IN  IF ~applies THEN "unknown" ELSE IF kept THEN "preserved" ELSE "violated"
=============================================================================
