---------------------------- MODULE HealContract ----------------------------
(***************************************************************************)
(* What a caller may assume of one call of heal()                          *)
(* (src/src/core/heal/index.ts): it pays for at most MaxCalls generations, *)
(* never from an empty budget, and its final status says truthfully how    *)
(* the call ended.  Patrol!HealOutcome is the same contract, taken in one  *)
(* step.                                                                   *)
(***************************************************************************)
EXTENDS Naturals

CONSTANT MaxCalls  \* paid tiers of one heal

VARIABLES
  capped,   \* the session has a budget at all
  budget,   \* what is left of it
  calls,    \* generations this heal has paid for
  outcome   \* "running", the final status, or "thrown"

vars == <<capped, budget, calls, outcome>>

Outcomes == {"healed", "failed", "no-llm", "budget-exhausted", "thrown"}

Init ==
  /\ capped \in BOOLEAN
  /\ budget \in Nat
  /\ calls = 0
  /\ outcome = "running"

\* A paid generation.
Pay ==
  /\ outcome = "running"
  /\ calls < MaxCalls
  /\ capped => budget > 0
  /\ calls' = calls + 1
  /\ budget' = IF capped THEN budget - 1 ELSE budget
  /\ UNCHANGED <<capped, outcome>>

\* "no-llm" means that no model was asked, "budget-exhausted" that a model
\* would have been asked if the budget were not spent.
Finish(o) ==
  /\ outcome = "running"
  /\ o = "no-llm" => calls = 0
  /\ o = "budget-exhausted" => capped /\ budget = 0 /\ calls < MaxCalls
  /\ outcome' = o
  /\ UNCHANGED <<capped, budget, calls>>

Next == Pay \/ \E o \in Outcomes : Finish(o)

Spec == Init /\ [][Next]_vars
=============================================================================
