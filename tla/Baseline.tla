------------------------------ MODULE Baseline ------------------------------
(***************************************************************************)
(* The baseline agent (core/hypothesis/baseline.ts): a model with tools in *)
(* a browser, one call a turn, under the budgets of the pipeline.          *)
(***************************************************************************)
EXTENDS Ledger

CONSTANTS
  MaxTurns,       \* maxTurns
  MaxInvalid,     \* MAX_CONSECUTIVE_INVALID
  TurnIn, TurnOut \* size of a turn's request

VARIABLES
  pc, stopped,
  turn, invalidInARow,
  metrics,    \* valid, invalid and missing calls, errors, actions
  claims      \* what report() was called with: the turns

agentVars == <<turn, invalidInARow, metrics, claims>>
vars      == <<ledgerVars, pc, stopped, agentVars>>

Count0 == [turns |-> 0, valid |-> 0, invalid |-> 0, none |-> 0, errors |-> 0, actions |-> 0]
AgentInit == turn = 0 /\ invalidInARow = 0 /\ metrics = Count0 /\ claims = {}
Init == LedgerInit /\ AgentInit /\ pc = "start" /\ stopped = "no"

Acts  == {"goto", "click", "fill", "press", "reload"}
Tools == Acts \cup {"look", "report", "done"}

\* What a reply may ask for: a tool of the registry, another, or none; with
\* arguments that pass the schema and the tool's own check, or not.
Calls == [name : Tools \cup {"unknown", "none"}, wellFormed : BOOLEAN]
StatusOfCall(c) ==
  IF c.name = "none" THEN "no_tool_call"
  ELSE IF c.name = "unknown" \/ ~c.wellFormed THEN "invalid_tool_call" ELSE "valid"

Stop(why) == pc' = "end" /\ stopped' = why

Open ==
  /\ pc = "start" /\ pc' \in {"turn", "thrown"}
  /\ UNCHANGED <<ledgerVars, stopped, agentVars>>

Counted(c, status) ==
  metrics' = [metrics EXCEPT
    !.turns = @ + 1,
    !.valid = IF status \in {"ok", "tool_error"} THEN @ + 1 ELSE @,
    !.invalid = IF status = "invalid_tool_call" THEN @ + 1 ELSE @,
    !.none = IF status = "no_tool_call" THEN @ + 1 ELSE @,
    !.errors = IF status = "tool_error" THEN @ + 1 ELSE @,
    !.actions = IF status = "ok" /\ c.name \in Acts THEN @ + 1 ELSE @]

\* The first call of the reply is taken; a tool that throws is an error of the
\* turn. Unusable replies in a row end the session.
Take(c, status) ==
  /\ Counted(c, status)
  /\ turn' = turn + 1
  /\ claims' = IF status = "ok" /\ c.name = "report" THEN claims \cup {turn + 1} ELSE claims
  /\ invalidInARow' = IF status \in {"invalid_tool_call", "no_tool_call"}
                      THEN invalidInARow + 1 ELSE 0
  /\ CASE status = "ok" /\ c.name = "done"  -> Stop("done")
       [] invalidInARow' >= MaxInvalid      -> Stop("invalid calls")
       [] OTHER                             -> UNCHANGED <<pc, stopped>>

Turn ==
  /\ pc = "turn" /\ turn < MaxTurns
  /\ \E a \in AskedTools(TurnIn, TurnOut) :
       /\ Record(a)
       /\ IF a.says # "answered" THEN Stop(a.says) /\ UNCHANGED agentVars
          ELSE \E c \in Calls :
                 \E s \in IF StatusOfCall(c) = "valid" THEN {"ok", "tool_error"}
                                                      ELSE {StatusOfCall(c)} :
                   Take(c, s)

Enough ==
  /\ pc = "turn" /\ Stop(IF turn = MaxTurns THEN "turn cap" ELSE "wall-clock")
  /\ UNCHANGED <<ledgerVars, agentVars>>

\* look() evaluates in the page, without a limit.
Hang == pc \in {"start", "turn"} /\ pc' = "hung" /\ UNCHANGED <<ledgerVars, stopped, agentVars>>

Next == Open \/ Turn \/ Enough \/ Hang

\* Every turn is one of a valid call, an invalid one or none; claims are made
\* by calls that ran.
MetricsAddUp ==
  /\ metrics.turns = metrics.valid + metrics.invalid + metrics.none
  /\ metrics.errors + metrics.actions <= metrics.valid
  /\ claims \subseteq 1 .. metrics.turns
=============================================================================
