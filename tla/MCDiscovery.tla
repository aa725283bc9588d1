---------------------------- MODULE MCDiscovery -----------------------------
(***************************************************************************)
(* bench/karnezz/run.ts: one process runs one arm, on one ledger.  The     *)
(* variables of the arms that do not run stand still.                      *)
(***************************************************************************)
EXTENDS Investigate

CONSTANTS
  doc, gen,
  Raws, MaxExperiments, GenIn, GenOut,    \* of Discover
  MaxTurns, MaxInvalid, TurnIn, TurnOut   \* of Baseline

VARIABLES
  arm,
  accepted, generation, queue, executed, notRun,
  turn, invalidInARow, metrics, claims

Hypothesis(id, shape, kind, quote, claim, priority, key) ==
  [id |-> id, shape |-> shape, kind |-> kind, quote |-> quote, literal |-> FALSE,
   claim |-> claim, priority |-> priority, key |-> key]
\* Up to ten are accepted: the last one ties with the second.
MCRaws ==
        {Hypothesis(1, "good", "doc", "doc", doc, 1, 1),
         Hypothesis(2, "good", "doc", "nowhere", gen, 2, 1),
         Hypothesis(3, "good", "universal", "test", doc, 2, 2),
         Hypothesis(3, "good", "ui", "ui", doc, 2, 1),
         Hypothesis(10, "good", "ui", "ui", doc, 2, 1),
         Hypothesis(0, "dangling", "doc", "doc", doc, 3, 4)}
  \cup {Hypothesis(id, "good", "doc", "doc", gen, 1, 4) : id \in 4 .. 9}

Batch == INSTANCE Discover
Agent == INSTANCE Baseline

ASSUME DiscoveryAssumption ==
  /\ Raws \subseteq Batch!Raw
  /\ {MaxExperiments, GenIn, GenOut, MaxTurns, MaxInvalid, TurnIn, TurnOut} \subseteq Nat

batchVars == <<accepted, generation, queue, executed, notRun>>
agentVars == <<turn, invalidInARow, metrics, claims>>

MCInit ==
  /\ arm \in {"pipeline", "investigate", "baseline"}
  /\ Init /\ Batch!BatchInit /\ Agent!AgentInit

Pipeline  == arm = "pipeline" /\ Batch!Next /\ UNCHANGED <<loopVars, agentVars>>
Investigation == arm = "investigate" /\ Next /\ UNCHANGED <<batchVars, agentVars>>
BaselineArm == arm = "baseline" /\ Agent!Next /\ UNCHANGED <<loopVars, batchVars, expVars>>

MCNext == (Pipeline \/ Investigation \/ BaselineArm) /\ UNCHANGED arm

MCSpec == MCInit /\ [][MCNext]_<<vars, arm, batchVars, agentVars>>
          /\ WF_<<vars, arm, batchVars, agentVars>>(MCNext)

\* In both arms: what a report calls a finding is real, and stated somewhere.
FindingsHold == FindingsAreReal /\ Batch!FindingsAreReal
\* The report of each arm accounts for all that was generated, run and charged.
ReportsAddUp == TypeOK /\ BooksBalance /\ Batch!NothingDropped /\ Agent!MetricsAddUp

\* Whatever the model and the budget do, the arm does not go round for ever:
\* every loop has a cap, and it ends or stops in a page that never answers.
EndsByItself == <>(pc \in {"end", "thrown", "hung"})
=============================================================================
