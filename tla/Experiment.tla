----------------------------- MODULE Experiment -----------------------------
(***************************************************************************)
(* One hypothesis put to the running app (core/hypothesis/execute.ts): the *)
(* script runs in a fresh session, its relations are judged by the shared  *)
(* evaluator, and a violation is replayed in a second fresh session before *)
(* it is called one.  What a run leaves in the app stays there until the   *)
(* operator's reset, where one is given.                                   *)
(***************************************************************************)
EXTENDS Ledger, Sequences

CONSTANTS
  Claims,     \* behaviours a hypothesis may be about
  Ctls,       \* control ids; every observation numbers its own from c1
  Reads       \* readable ids

VARIABLES
  bugs,       \* the claims the app really breaks, from its starting state
  resets,     \* a reset was supplied (isolation "reset-per-run")
  app,        \* "initial", or what earlier runs left
  exp         \* the hypothesis at work; of its runs, the step that failed in
              \* the first, whether the last had an empty reading

expVars == <<bugs, resets, app, exp>>

NoCtl == "none"
Idle  == [phase |-> "idle"]

ExpTypeOK ==
  /\ bugs \subseteq Claims /\ resets \in BOOLEAN /\ app \in {"initial", "left"}
  /\ exp.phase \in {"idle", "first", "replay", "done"}
  /\ exp.phase # "idle" => exp.claim \in Claims /\ exp.bad \in {"ran", "step"} \cup Ctls

ExpInit ==
  /\ bugs \in SUBSET Claims /\ resets \in BOOLEAN
  /\ app = "initial" /\ exp = Idle

\* What a run shows, its trace: the session was set up; the step that could
\* not run (the id of its control, "step" for one without); a reading came
\* back empty; each relation had what it compares, which may be less than all
\* readings, or not be met by a reading that is there but no number; they held;
\* the app's own dependencies failed meanwhile.  A script whose steps all ran
\* and whose relations could be compared.
Complete(t) == t.setup /\ t.bad = "ran" /\ t.comparable

\* The evaluator's verdict: never judged past what was observed.
VerdictOf(t) ==
  IF ~Complete(t) THEN "unknown" ELSE IF t.held THEN "preserved" ELSE "violated"

\* Where a run starts: a reset runs before each one.
StartOf == IF resets THEN "initial" ELSE app

\* The traces of one run started at s.  From the starting state the relations
\* hold iff the claim is no bug, unless a failing dependency or (once in an
\* experiment) something that goes unnoticed disturbs the page.
Traces(s) ==
  LET T == {t \in [setup : BOOLEAN, bad : {"ran", "step"} \cup exp.ctls,
                   empty : BOOLEAN, comparable : BOOLEAN, held : BOOLEAN, env : BOOLEAN] :
              /\ ~t.setup => t.bad = "ran" /\ ~t.empty /\ ~t.comparable /\ t.env
              /\ ~Complete(t) => ~t.held}
  IN {t \in T : \/ ~Complete(t) \/ t.env \/ s # "initial" \/ ~exp.flaked
                \/ t.held = (exp.claim \notin bugs)}
Flaked(s, t) ==
  exp.flaked \/ (Complete(t) /\ ~t.env /\ s = "initial" /\ t.held # (exp.claim \notin bugs))

\* runHypothesis: the first run.
Begin(claim, ctls) ==
  exp' = [phase |-> "first", claim |-> claim, ctls |-> ctls, bad |-> "ran",
          empty |-> FALSE, outcome |-> "none", flaked |-> FALSE]

Ran(t, s, phase, outcome) ==
  /\ exp' = [exp EXCEPT !.phase = phase, !.outcome = outcome, !.empty = t.empty,
                        !.bad = IF exp.phase = "first" THEN t.bad ELSE @,
                        !.flaked = phase = "replay" /\ Flaked(s, t)]
  /\ app' = IF t.setup THEN "left" ELSE s
  /\ UNCHANGED <<bugs, resets>>

FirstOutcome(t) ==
  IF t.env /\ VerdictOf(t) # "preserved" THEN "environment"
  ELSE CASE VerdictOf(t) = "unknown"   -> "unknown"
         [] VerdictOf(t) = "preserved" -> "disproven"
         [] VerdictOf(t) = "violated"  -> "none"

FirstRun ==
  /\ exp.phase = "first"
  /\ \E s \in {StartOf} : \E t \in Traces(s) :
       Ran(t, s, IF FirstOutcome(t) = "none" THEN "replay" ELSE "done", FirstOutcome(t))

ReplayOutcome(t) ==
  IF t.env THEN "environment"
  ELSE IF VerdictOf(t) = "violated" THEN "supported_violation" ELSE "unknown"

\* Variant: the replay starts from what the first run left behind.
ReplayFromFirst   == app

\* A violation again, from a fresh session and a fresh app.
ReplayStart == StartOf

\* Variant: a replay is repeated until it shows the violation.
ReplayUntilItRepeats ==
  /\ exp.phase = "replay"
  /\ \E s \in {ReplayStart} : \E t \in Traces(s) :
       Ran(t, s, IF ReplayOutcome(t) = "unknown" THEN "replay" ELSE "done", ReplayOutcome(t))

Replay ==
  /\ exp.phase = "replay"
  /\ \E s \in {ReplayStart} : \E t \in Traces(s) : Ran(t, s, "done", ReplayOutcome(t))

\* The reset command, or the browser, fails: the hypothesis rejects.
ExpThrows == exp.phase \in {"first", "replay"} /\ exp' = Idle
             /\ UNCHANGED <<bugs, resets, app>>

\* What a result may be called: a replayed violation of a requirement the
\* project states is a finding, any other a lead.
StatusOf(outcome, specified) ==
  CASE outcome = "supported_violation" -> IF specified THEN "finding" ELSE "lead"
    [] outcome = "disproven"           -> "held"
    [] OTHER                           -> outcome

=============================================================================
