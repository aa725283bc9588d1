----------------------------- MODULE Investigate ----------------------------
(***************************************************************************)
(* The investigation loop (core/hypothesis/investigate.ts): one experiment *)
(* at a time, proposed by a model from the controls observed in a state,   *)
(* bound to them or rejected, run, and answered with a new state to go on  *)
(* from.                                                                   *)
(***************************************************************************)
EXTENDS Experiment, FiniteSets

CONSTANTS
  Specified,      \* claims whose verified quote and literals make them stated requirements
  MaxIterations,  \* maxIterations
  MaxStates,      \* maxStates
  MaxNoPlan,      \* iterations in a row without a valid proposal: 3
  PlanIn, PlanOut, QuoteIn, QuoteOut   \* sizes of the two requests

ASSUME InvestigateAssumption ==
  /\ Specified \subseteq Claims
  /\ {MaxIterations, MaxStates, PlanIn, PlanOut, QuoteIn, QuoteOut} \subseteq Nat
  /\ MaxNoPlan \in Nat \ {0}

VARIABLES
  pc,
  stopped,    \* stoppedBecause
  n,          \* iteration
  tries,      \* attempts of this iteration
  noPlan,     \* noPlanInARow
  states,     \* states[k].path: the controls of the steps that lead there
  failed,     \* element ids held unusable
  plan,       \* the plan at work
  seen,       \* fingerprints
  proposed, duplicates,  \* iterations with a hypothesis, and those skipped
  results     \* [claim, status, cited]

loopVars == <<n, tries, noPlan, states, failed, plan, seen, proposed, duplicates, results>>
vars     == <<ledgerVars, expVars, pc, stopped, loopVars>>

Elements == Ctls \cup Reads
NoPlan   == [from |-> 0]
Replies  == [from : 1 .. MaxStates, ctl : Ctls \cup {NoCtl}, read : Reads, claim : Claims]

TypeOK ==
  /\ LedgerTypeOK /\ ExpTypeOK
  /\ n \in 0 .. MaxIterations /\ tries \in 0 .. 2 /\ noPlan \in 0 .. MaxNoPlan
  /\ failed \subseteq Elements /\ plan \in Replies \cup {NoPlan} /\ seen \subseteq Replies

LoopInit ==
  /\ n = 0 /\ tries = 0 /\ noPlan = 0 /\ states = <<>> /\ failed = {}
  /\ plan = NoPlan /\ seen = {} /\ proposed = 0 /\ duplicates = 0 /\ results = <<>>

Init == LedgerInit /\ ExpInit /\ LoopInit /\ pc = "start" /\ stopped = "no"

Stop(why) == pc' = "end" /\ stopped' = why

-----------------------------------------------------------------------------

\* The fresh application is observed: state s0. A page that does not open ends
\* the investigation without a report.
Observe ==
  /\ pc = "start"
  /\ \/ pc' = "loop" /\ states' = <<[path |-> {}]>>
     \/ pc' = "thrown" /\ UNCHANGED states
  /\ UNCHANGED <<ledgerVars, expVars, stopped, n, tries, noPlan, failed, plan, seen,
                 proposed, duplicates, results>>

Iterate ==
  /\ pc = "loop"
  /\ IF n = MaxIterations THEN Stop("iterations") /\ UNCHANGED <<n, tries>>
     ELSE \/ Stop("wall-clock") /\ UNCHANGED <<n, tries>>
          \/ pc' = "ask" /\ n' = n + 1 /\ tries' = 0 /\ UNCHANGED stopped
  /\ UNCHANGED <<ledgerVars, expVars, noPlan, states, failed, plan, seen,
                 proposed, duplicates, results>>

\* planFromReply: bound to elements of the state it names, none of them held
\* unusable. Ids are looked up alone: c1 of one state is c1 of every state.
Bound(r) == r.from <= Len(states) /\ r.ctl \notin failed /\ r.read \notin failed

\* One bad iteration is not the end of it; MaxNoPlan in a row are.
NoProposal ==
  IF tries = 0 THEN pc' = "ask" /\ tries' = 1 /\ UNCHANGED <<noPlan, stopped>>
  ELSE /\ noPlan' = noPlan + 1 /\ tries' = 0
       /\ IF noPlan' >= MaxNoPlan THEN Stop("no proposal") ELSE pc' = "loop" /\ UNCHANGED stopped

AfterNoPlan == NoProposal /\ UNCHANGED <<expVars, n, states, failed, plan, seen, proposed, duplicates, results>>

\* The controls the steps of a plan use, those of the way to its state first.
PathOf(r) == states[r.from].path \cup {r.ctl}
Fingerprint(r) == r

Execute(r) ==
  /\ noPlan' = 0 /\ tries' = 0 /\ proposed' = proposed + 1
  /\ IF Fingerprint(r) \in seen
     THEN pc' = "loop" /\ duplicates' = duplicates + 1 /\ UNCHANGED <<exp, seen, plan>>
     ELSE /\ pc' = "run" /\ plan' = r /\ seen' = seen \cup {Fingerprint(r)}
          /\ Begin(r.claim, PathOf(r) \ {NoCtl})
          /\ UNCHANGED duplicates
  /\ UNCHANGED <<bugs, resets, app, stopped, n, states, failed, results>>

\* The next experiment is asked for, after the ledger's guard.
Ask ==
  /\ pc = "ask"
  /\ \E a \in Asked(PlanIn, PlanOut) :
       /\ Record(a)
       /\ IF a.says # "answered"
          THEN Stop(a.says) /\ UNCHANGED <<expVars, loopVars>>
          ELSE \/ AfterNoPlan                 \* not JSON, or against the schema
               \/ \E r \in Replies : IF Bound(r) THEN Execute(r) ELSE AfterNoPlan

RunExperiment ==
  /\ pc = "run" /\ (FirstRun \/ Replay)
  /\ UNCHANGED <<ledgerVars, pc, stopped, loopVars>>

Throw ==
  /\ pc = "run" /\ ExpThrows /\ pc' = "thrown"
  /\ UNCHANGED <<ledgerVars, stopped, loopVars>>

\* The elements an unjudged experiment is blamed on: the control of the step
\* that failed in its first run, or the readings empty in its last.
Blamed ==
  IF exp.outcome # "unknown" THEN {}
  ELSE IF exp.bad # "ran" THEN {exp.bad} \cap Ctls
  ELSE IF exp.empty THEN {plan.read} ELSE {}

Conclude(status, cited) ==
  /\ results' = Append(results, [claim |-> exp.claim, status |-> status, cited |-> cited])
  /\ failed' = failed \cup Blamed
  /\ pc' = "revise"
  /\ UNCHANGED <<expVars, stopped, n, tries, noPlan, states, plan, seen, proposed, duplicates>>

\* A finding stands only if, asked alone, the cited text states the expectation.
Judge ==
  /\ pc = "run" /\ exp.phase = "done"
  /\ LET status == StatusOf(exp.outcome, exp.claim \in Specified)
     IN IF status # "finding" THEN Conclude(status, FALSE) /\ UNCHANGED ledgerVars
        ELSE \E a \in Asked(QuoteIn, QuoteOut) :
               /\ Record(a)
               /\ \/ a.says = "answered" /\ Conclude("finding", TRUE)
                  \/ Conclude("lead", FALSE)

\* An experiment that ran and changed the app leaves a state to continue from,
\* if the way there can be walked once more.
Extends ==
  /\ exp.outcome # "environment" /\ exp.bad = "ran"
  /\ plan.ctl # NoCtl /\ Len(states) < MaxStates

Revise ==
  /\ pc = "revise"
  /\ \/ Extends /\ states' = Append(states, [path |-> PathOf(plan)]) /\ app' = "left"
     \/ UNCHANGED states /\ IF Extends THEN app' \in {StartOf, "left"} ELSE UNCHANGED app
  /\ pc' = "loop" /\ exp' = Idle /\ plan' = NoPlan
  /\ UNCHANGED <<ledgerVars, bugs, resets, stopped, n, tries, noPlan, failed, seen,
                 proposed, duplicates, results>>

\* Reading a page and counting its elements have no limit: one that is busy for
\* ever keeps the loop for ever.
Hang ==
  /\ pc \in {"start", "revise"} \/ (pc = "run" /\ exp.phase # "done")
  /\ pc' = "hung"
  /\ UNCHANGED <<ledgerVars, expVars, stopped, loopVars>>

Next == Hang \/ Observe \/ Iterate \/ Ask \/ RunExperiment \/ Throw \/ Judge \/ Revise

Spec == Init /\ [][Next]_vars /\ WF_vars(Next)

-----------------------------------------------------------------------------
With(status) == Cardinality({i \in DOMAIN results : results[i].status = status})

\* A finding is a claim the app breaks, that the project states, in a text
\* that was asked about: given a reset, and at most one unnoticed disturbance.
FindingsAreReal ==
  resets => \A i \in DOMAIN results : results[i].status = "finding" =>
    results[i].claim \in bugs \cap Specified /\ results[i].cited

\* The report's counts: every proposal was skipped as a duplicate or has one
\* result, and every result one status.
BooksBalance ==
  pc \in {"loop", "end"} =>
    /\ proposed = duplicates + Len(results)
    /\ Len(results) = With("finding") + With("lead") + With("held")
                    + With("unknown") + With("environment")
=============================================================================
