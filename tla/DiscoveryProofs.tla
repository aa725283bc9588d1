---------------------------- MODULE DiscoveryProofs ---------------------------
(***************************************************************************)
(* Theorems about the three arms of hypothesis discovery, for any claims,  *)
(* caps and sizes of requests: the ledger holds its cap, what an arm calls *)
(* a finding is a claim the app breaks, and its report adds up.            *)
(***************************************************************************)
EXTENDS MCDiscovery, FiniteSetTheorems, TLAPS

(* The ledger.                                                              *)

LedgerInv == LedgerTypeOK /\ SpendUnderCap

\* What a guarded request may cost: nothing if it was refused, and otherwise
\* not more than its size, its underestimate and its allowance.
LEMMA CostIsBounded ==
  ASSUME NEW est \in Nat, NEW out \in Nat, NEW a \in Asked(est, out)
  PROVE  /\ a.cost \in Nat
         /\ a.cost # 0 => Guard(est, out) /\ a.cost <= est + Under + out
<1>1. CASE ~Guard(est, out)
  BY <1>1 DEF Asked, Refused
<1>2. CASE Guard(est, out)
  <2>1. PICK r \in Responses(est, out) : a = TextReply(r)
    BY <1>2 DEF Asked
  <2>2. r.usage \in Nat /\ r.usage <= est + Under + out
    BY LedgerAssumption DEF Responses
  <2>3. a.cost \in {0, r.usage}
    BY <2>1 DEF TextReply, AnthropicReply, OpenAiReply, OllamaReply, Thrown, Answered
  <2> QED
    BY <1>2, <2>2, <2>3, LedgerAssumption
<1> QED
  BY <1>1, <1>2

LEMMA ToolsCostIsBounded ==
  ASSUME NEW est \in Nat, NEW out \in Nat, NEW a \in AskedTools(est, out)
  PROVE  /\ a.cost \in Nat
         /\ a.cost # 0 => Guard(est, out) /\ a.cost <= est + Under + out
<1>1. CASE ~Guard(est, out)
  BY <1>1 DEF AskedTools, Refused
<1>2. CASE Guard(est, out)
  <2>1. PICK r \in Responses(est, out) : a = ToolsReply(r)
    BY <1>2 DEF AskedTools
  <2>2. r.usage \in Nat /\ r.usage <= est + Under + out
    BY LedgerAssumption DEF Responses
  <2>3. a.cost \in {0, r.usage}
    BY <2>1 DEF ToolsReply, OpenAiReply, OllamaReply, Thrown, Answered
  <2> QED
    BY <1>2, <2>2, <2>3, LedgerAssumption
<1> QED
  BY <1>1, <1>2

\* Recording such a request keeps the ledger under its cap.
LEMMA RecordKeepsCap ==
  ASSUME LedgerInv, NEW est \in Nat, NEW out \in Nat, NEW a, Record(a),
         a.cost \in Nat, a.cost # 0 => Guard(est, out) /\ a.cost <= est + Under + out
  PROVE  LedgerInv'
BY LedgerAssumption DEF LedgerInv, LedgerTypeOK, SpendUnderCap, Record, Guard

\* The ledger of the batch and that of the agent are the same one.
LEMMA OneLedger ==
  ASSUME NEW est, NEW out, NEW a
  PROVE  /\ Batch!Asked(est, out) = Asked(est, out)
         /\ Agent!AskedTools(est, out) = AskedTools(est, out)
         /\ Batch!Record(a) <=> Record(a)
         /\ Agent!Record(a) <=> Record(a)
<1>1. Batch!Asked(est, out) = Asked(est, out)
  BY DEF Asked, Guard, Refused, Responses, TextReply, AnthropicReply, OpenAiReply,
         OllamaReply, Thrown, Answered, Batch!Asked, Batch!Guard, Batch!Refused,
         Batch!Responses, Batch!TextReply, Batch!AnthropicReply, Batch!OpenAiReply,
         Batch!OllamaReply, Batch!Thrown, Batch!Answered
<1>2. Agent!AskedTools(est, out) = AskedTools(est, out)
  BY DEF AskedTools, Guard, Refused, Responses, ToolsReply, OpenAiReply, OllamaReply,
         Thrown, Answered, Agent!AskedTools, Agent!Guard, Agent!Refused,
         Agent!Responses, Agent!ToolsReply, Agent!OpenAiReply, Agent!OllamaReply,
         Agent!Thrown, Agent!Answered
<1> QED
  BY <1>1, <1>2 DEF Record, Batch!Record, Agent!Record

-----------------------------------------------------------------------------

mcVars == <<vars, arm, batchVars, agentVars>>

LEMMA SizesAreNat ==
  {PlanIn, PlanOut, QuoteIn, QuoteOut, GenIn, GenOut, TurnIn, TurnOut} \subseteq Nat
BY InvestigateAssumption, DiscoveryAssumption

LEMMA LedgerInit0 == MCInit => LedgerInv
<1> SUFFICES ASSUME MCInit PROVE LedgerInv
  OBVIOUS
<1>1. spent = 0 /\ \E f \in BOOLEAN, b \in BOOLEAN, k \in BOOLEAN, p \in {"ollama", "other"} :
                     transport = TransportOf(f, b, k, p)
  BY DEF MCInit, Init, LedgerInit
<1>2. transport \in Transports
  BY <1>1 DEF Transports, TransportOf
<1> QED
  BY <1>1, <1>2, LedgerAssumption DEF LedgerInv, LedgerTypeOK, SpendUnderCap

LEMMA LedgerStep == LedgerInv /\ [MCNext]_mcVars => LedgerInv'
<1> SUFFICES ASSUME LedgerInv, [MCNext]_mcVars PROVE LedgerInv'
  OBVIOUS
<1>0. ASSUME UNCHANGED ledgerVars PROVE LedgerInv'
  BY <1>0 DEF LedgerInv, LedgerTypeOK, SpendUnderCap, ledgerVars
<1>a. ASSUME NEW est \in Nat, NEW out \in Nat, NEW a \in Asked(est, out), Record(a)
      PROVE  LedgerInv'
  BY <1>a, CostIsBounded, RecordKeepsCap
<1>1. CASE UNCHANGED mcVars
  BY <1>1, <1>0 DEF mcVars, vars, ledgerVars
<1>2. CASE Investigation
  <2>1. CASE Observe \/ Iterate \/ RunExperiment \/ Throw \/ Revise \/ Hang
    BY <2>1, <1>0 DEF Observe, Iterate, RunExperiment, Throw, Revise, Hang
  <2>2. CASE Ask
    BY <2>2, <1>a, SizesAreNat DEF Ask
  <2>3. CASE Judge
    BY <2>3, <1>0, <1>a, SizesAreNat DEF Judge
  <2> QED
    BY <1>2, <2>1, <2>2, <2>3 DEF Investigation, Next
<1>3. CASE Pipeline
  <2>1. CASE Batch!Inventory \/ Batch!Take \/ Batch!RunExperiment \/ Batch!Throw
             \/ Batch!Keep \/ Batch!Report \/ Batch!Hang
    BY <2>1, <1>0 DEF Batch!Inventory, Batch!Take, Batch!RunExperiment, Batch!Throw,
                      Batch!Keep, Batch!Report, Batch!Hang, Batch!ledgerVars, ledgerVars
  <2>2. CASE Batch!Generate
    <3>1. PICK a \in Asked(GenIn, GenOut) : Record(a)
      BY <2>2, OneLedger DEF Batch!Generate
    <3> QED
      BY <3>1, <1>a, SizesAreNat
  <2> QED
    BY <1>3, <2>1, <2>2 DEF Pipeline, Batch!Next
<1>4. CASE BaselineArm
  <2>1. CASE Agent!Open \/ Agent!Enough \/ Agent!Hang
    BY <2>1, <1>0 DEF Agent!Open, Agent!Enough, Agent!Hang, Agent!ledgerVars, ledgerVars
  <2>2. CASE Agent!Turn
    <3>1. PICK a \in AskedTools(TurnIn, TurnOut) : Record(a)
      BY <2>2, OneLedger DEF Agent!Turn
    <3> QED
      BY <3>1, SizesAreNat, ToolsCostIsBounded, RecordKeepsCap
  <2> QED
    BY <1>4, <2>1, <2>2 DEF BaselineArm, Agent!Next
<1> QED
  BY <1>1, <1>2, <1>3, <1>4 DEF MCNext

\* In every arm, whatever its calls cost and in whatever order they fail, the
\* ledger never exceeds its cap by more than the underestimate of one request
\* (core/hypothesis/ledger.ts, guard and record).
THEOREM SpendUnderCapHolds == MCSpec => []SpendUnderCap
<1>1. LedgerInv => SpendUnderCap
  BY DEF LedgerInv
<1> QED
  BY LedgerInit0, LedgerStep, <1>1, PTL DEF MCSpec, mcVars

-----------------------------------------------------------------------------
(* Experiments.                                                             *)

Outcomes == {"none", "environment", "unknown", "disproven", "supported_violation"}

ExpShape ==
  exp.phase # "idle" =>
    /\ exp = [phase |-> exp.phase, claim |-> exp.claim, ctls |-> exp.ctls,
              bad |-> exp.bad, empty |-> exp.empty, outcome |-> exp.outcome,
              flaked |-> exp.flaked]
    /\ exp.outcome \in Outcomes /\ exp.flaked \in BOOLEAN

\* What was seen once is a bug unless the one disturbance is used up; what was
\* seen twice is one.
Shown ==
  resets =>
    /\ exp.phase = "replay" => exp.flaked \/ exp.claim \in bugs
    /\ exp.phase = "done" /\ exp.outcome = "supported_violation" => exp.claim \in bugs

ExpInv == ExpShape /\ Shown

\* From the app's starting state a judged run that fails tells of a bug, or of
\* the one disturbance.
LEMMA ViolationTells ==
  ASSUME NEW s, s = "initial", NEW t \in Traces(s), VerdictOf(t) = "violated", ~t.env
  PROVE  /\ exp.flaked => exp.claim \in bugs
         /\ Flaked(s, t) \/ exp.claim \in bugs
<1>1. Complete(t) /\ ~t.held /\ t.held \in BOOLEAN
  BY DEF VerdictOf, Complete, Traces
<1> QED
  BY <1>1 DEF Traces, Flaked

LEMMA BeginKeeps ==
  ASSUME NEW claim, NEW ctls, Begin(claim, ctls), UNCHANGED <<bugs, resets>>
  PROVE  ExpInv' /\ exp'.claim = claim
BY DEF Begin, ExpInv, ExpShape, Shown, Outcomes

LEMMA RunShape ==
  ASSUME ExpShape, exp.phase # "idle", NEW t, NEW s, NEW phase,
         NEW outcome \in Outcomes, Ran(t, s, phase, outcome)
  PROVE  /\ ExpShape' /\ exp'.phase = phase /\ exp'.outcome = outcome
         /\ exp'.claim = exp.claim
         /\ exp'.flaked = (phase = "replay" /\ Flaked(s, t))
         /\ UNCHANGED <<bugs, resets>>
BY DEF Ran, ExpShape

LEMMA FirstRunKeeps ==
  ASSUME ExpInv, FirstRun
  PROVE  ExpInv' /\ exp'.claim = exp.claim
<1>1. PICK t \in Traces(StartOf) :
        Ran(t, StartOf, IF FirstOutcome(t) = "none" THEN "replay" ELSE "done", FirstOutcome(t))
  BY DEF FirstRun
<1>2. /\ FirstOutcome(t) \in Outcomes \ {"supported_violation"}
      /\ FirstOutcome(t) = "none" => VerdictOf(t) = "violated" /\ ~t.env
  BY DEF FirstOutcome, VerdictOf, Outcomes
<1>3. exp.phase # "idle"
  BY DEF FirstRun
<1> DEFINE phase == IF FirstOutcome(t) = "none" THEN "replay" ELSE "done"
<1>4. /\ ExpShape' /\ exp'.phase = phase /\ exp'.outcome = FirstOutcome(t)
      /\ exp'.claim = exp.claim
      /\ exp'.flaked = (phase = "replay" /\ Flaked(StartOf, t))
      /\ UNCHANGED <<bugs, resets>>
  BY <1>1, <1>2, <1>3, RunShape DEF ExpInv
<1>5. resets => StartOf = "initial"
  BY DEF StartOf
<1>6. Shown'
  BY <1>2, <1>4, <1>5, ViolationTells DEF Shown
<1> QED
  BY <1>4, <1>6 DEF ExpInv

LEMMA ReplayKeeps ==
  ASSUME ExpInv, Replay
  PROVE  ExpInv' /\ exp'.claim = exp.claim
<1>1. PICK t \in Traces(StartOf) : Ran(t, StartOf, "done", ReplayOutcome(t))
  BY DEF Replay, ReplayStart
<1>2. /\ ReplayOutcome(t) \in Outcomes
      /\ ReplayOutcome(t) = "supported_violation" => VerdictOf(t) = "violated" /\ ~t.env
  BY DEF ReplayOutcome, Outcomes
<1>3. exp.phase = "replay"
  BY DEF Replay
<1>4. /\ ExpShape' /\ exp'.phase = "done" /\ exp'.outcome = ReplayOutcome(t)
      /\ exp'.claim = exp.claim /\ UNCHANGED <<bugs, resets>>
  BY <1>1, <1>2, <1>3, RunShape DEF ExpInv
<1>5. resets => StartOf = "initial"
  BY DEF StartOf
<1>6. Shown'
  BY <1>2, <1>3, <1>4, <1>5, ViolationTells DEF Shown, ExpInv
<1> QED
  BY <1>4, <1>6 DEF ExpInv

\* The experiments of the batch are the same ones.
LEMMA OneExperiment ==
  /\ Batch!FirstRun <=> FirstRun
  /\ Batch!Replay <=> Replay
  /\ Batch!ExpThrows <=> ExpThrows
  /\ \A claim, ctls : Batch!Begin(claim, ctls) <=> Begin(claim, ctls)
  /\ \A outcome, specified : Batch!StatusOf(outcome, specified) = StatusOf(outcome, specified)
<1>1. /\ Batch!ExpThrows <=> ExpThrows
      /\ \A claim, ctls : Batch!Begin(claim, ctls) <=> Begin(claim, ctls)
      /\ \A outcome, specified : Batch!StatusOf(outcome, specified) = StatusOf(outcome, specified)
  BY DEF ExpThrows, Begin, StatusOf, Idle, Batch!ExpThrows, Batch!Begin, Batch!StatusOf, Batch!Idle
<1>2. Batch!StartOf = StartOf /\ Batch!ReplayStart = ReplayStart
  BY DEF StartOf, ReplayStart, Batch!StartOf, Batch!ReplayStart
<1>3. ASSUME NEW s PROVE Batch!Traces(s) = Traces(s)
  BY DEF Traces, Complete, Batch!Traces, Batch!Complete
<1>4. ASSUME NEW t, NEW s, NEW phase, NEW outcome
      PROVE  Batch!Ran(t, s, phase, outcome) <=> Ran(t, s, phase, outcome)
  BY DEF Ran, Flaked, Complete, Batch!Ran, Batch!Flaked, Batch!Complete
<1>5. ASSUME NEW t
      PROVE  Batch!FirstOutcome(t) = FirstOutcome(t) /\ Batch!ReplayOutcome(t) = ReplayOutcome(t)
  BY DEF FirstOutcome, ReplayOutcome, VerdictOf, Complete,
         Batch!FirstOutcome, Batch!ReplayOutcome, Batch!VerdictOf, Batch!Complete
<1>6. Batch!FirstRun <=> FirstRun
  BY <1>2, <1>3, <1>4, <1>5 DEF FirstRun, Batch!FirstRun
<1>7. Batch!Replay <=> Replay
  BY <1>2, <1>3, <1>4, <1>5 DEF Replay, Batch!Replay
<1> QED
  BY <1>1, <1>6, <1>7

-----------------------------------------------------------------------------
(* Findings.                                                                *)

Results == [claim : Claims, status : Outcomes \cup {"finding", "lead", "held"}, cited : BOOLEAN]

\* The experiment that runs is about the claim its result will name.
FindingsInv ==
  /\ ExpInv
  /\ pc = "run" => exp.phase # "idle"
  /\ arm = "pipeline" /\ pc = "run" => exp.claim = Head(queue).claim
  /\ arm = "investigate" /\ pc = "run" => exp.claim \in Claims
  /\ results \in Seq(Results)
  /\ FindingsHold

LEMMA FindingsInit == MCInit => FindingsInv
BY DEF MCInit, Init, ExpInit, LoopInit, Batch!BatchInit, FindingsInv, ExpInv, ExpShape,
       Shown, Idle, FindingsHold, FindingsAreReal, Batch!FindingsAreReal

LEMMA StatusTells ==
  ASSUME NEW outcome \in Outcomes, NEW specified \in BOOLEAN
  PROVE  /\ StatusOf(outcome, specified) \in Outcomes \cup {"finding", "lead", "held"}
         /\ StatusOf(outcome, specified) = "finding" =>
              outcome = "supported_violation" /\ specified
<1>1. CASE outcome = "supported_violation"
  BY <1>1 DEF StatusOf
<1>2. CASE outcome # "supported_violation"
  BY <1>2 DEF StatusOf, Outcomes
<1> QED
  BY <1>1, <1>2

LEMMA InvestigationKeeps ==
  ASSUME FindingsInv, Investigation, UNCHANGED arm
  PROVE  FindingsInv'
<1> USE DEF FindingsInv
<1>0. UNCHANGED <<executed, queue>> /\ arm = "investigate" /\ UNCHANGED <<bugs, resets>>
  BY DEF Investigation, batchVars, Next, Observe, Iterate, Ask, AfterNoPlan, Execute,
         RunExperiment, FirstRun, Replay, Ran, Throw, ExpThrows, Judge, Conclude, Revise,
         Hang, expVars
<1>a. Batch!FindingsAreReal'
  BY <1>0 DEF FindingsHold, Batch!FindingsAreReal
<1>b. ASSUME UNCHANGED results PROVE FindingsHold'
  BY <1>0, <1>a, <1>b DEF FindingsHold, FindingsAreReal
<1>c. ASSUME UNCHANGED expVars PROVE ExpInv'
  BY <1>c DEF expVars, ExpInv, ExpShape, Shown
<1>1. CASE Observe \/ Iterate \/ Hang
  <2>1. UNCHANGED <<expVars, results>> /\ pc' # "run"
    BY <1>1 DEF Observe, Iterate, Hang, loopVars, Stop
  <2> QED
    BY <2>1, <1>0, <1>b, <1>c
<1>2. CASE Ask
  <2>1. CASE UNCHANGED <<expVars, loopVars>> /\ pc' = "end"
    BY <2>1, <1>0, <1>b, <1>c DEF loopVars
  <2>2. CASE AfterNoPlan
    <3>1. UNCHANGED <<expVars, results>> /\ pc' # "run"
      BY <2>2 DEF AfterNoPlan, NoProposal, Stop
    <3> QED
      BY <3>1, <1>0, <1>b, <1>c
  <2>3. ASSUME NEW r \in Replies, Execute(r) PROVE FindingsInv'
    <3>1. UNCHANGED results
      BY <2>3 DEF Execute
    <3>2. CASE UNCHANGED exp /\ pc' = "loop"
      BY <3>1, <3>2, <1>0, <1>b, <1>c, <2>3 DEF Execute, expVars
    <3>3. CASE Begin(r.claim, PathOf(r) \ {NoCtl}) /\ pc' = "run"
      <4>1. ExpInv' /\ exp'.claim = r.claim /\ exp'.phase = "first"
        BY <3>3, <1>0, BeginKeeps DEF Begin
      <4> QED
        BY <4>1, <3>1, <1>0, <1>b DEF Replies
    <3> QED
      BY <3>2, <3>3, <2>3 DEF Execute
  <2> QED
    BY <1>2, <2>1, <2>2, <2>3 DEF Ask, Stop
<1>3. CASE RunExperiment
  <2>1. ExpInv' /\ exp'.claim = exp.claim
    BY <1>3, FirstRunKeeps, ReplayKeeps DEF RunExperiment
  <2>2. UNCHANGED <<pc, results>>
    BY <1>3 DEF RunExperiment, loopVars
  <2>3. exp'.phase # "idle"
    BY <1>3 DEF RunExperiment, FirstRun, Replay, Ran, ExpInv, ExpShape
  <2> QED
    BY <2>1, <2>2, <2>3, <1>0, <1>b
<1>4. CASE Throw
  <2>1. exp' = Idle /\ pc' = "thrown" /\ UNCHANGED results
    BY <1>4 DEF Throw, ExpThrows, loopVars
  <2> QED
    BY <2>1, <1>0, <1>b DEF ExpInv, ExpShape, Shown, Idle
<1>5. CASE Judge
  <2>1. exp.phase = "done" /\ exp.outcome \in Outcomes /\ exp.claim \in Claims
    BY <1>5, <1>0 DEF Judge, ExpInv, ExpShape
  <2>2. ASSUME NEW status \in Outcomes \cup {"finding", "lead", "held"},
               NEW cited \in BOOLEAN, Conclude(status, cited),
               status = "finding" =>
                 exp.outcome = "supported_violation" /\ exp.claim \in Specified /\ cited
        PROVE  FindingsInv'
    <3>1. /\ pc' = "revise" /\ UNCHANGED expVars
          /\ results' = Append(results, [claim |-> exp.claim, status |-> status, cited |-> cited])
      BY <2>2 DEF Conclude
    <3>2. [claim |-> exp.claim, status |-> status, cited |-> cited] \in Results
      BY <2>1 DEF Results
    <3>3. results' \in Seq(Results)
      BY <3>1, <3>2
    <3>4. resets /\ status = "finding" => exp.claim \in bugs
      BY <2>1, <2>2 DEF ExpInv, Shown
    <3>5. FindingsAreReal'
      BY <3>1, <3>2, <3>4, <2>2, <1>0 DEF FindingsAreReal, FindingsHold
    <3> QED
      BY <3>1, <3>3, <3>5, <1>0, <1>a, <1>c DEF FindingsHold
  <2> DEFINE status == StatusOf(exp.outcome, exp.claim \in Specified)
  <2>3. /\ status \in Outcomes \cup {"finding", "lead", "held"}
        /\ status = "finding" => exp.outcome = "supported_violation" /\ exp.claim \in Specified
    <3>1. CASE exp.outcome = "supported_violation"
      BY <3>1 DEF StatusOf
    <3>2. CASE exp.outcome # "supported_violation"
      BY <3>2, <2>1 DEF StatusOf, Outcomes
    <3> QED
      BY <3>1, <3>2
  <2>4. CASE status # "finding"
    <3>1. Conclude(status, FALSE)
      BY <1>5, <2>4 DEF Judge
    <3> QED
      BY <2>2, <2>3, <2>4, <3>1
  <2>5. CASE status = "finding"
    <3>1. Conclude("finding", TRUE) \/ Conclude("lead", FALSE)
      BY <1>5, <2>5 DEF Judge
    <3> QED
      BY <2>2, <2>3, <2>5, <3>1
  <2> QED
    BY <2>4, <2>5
<1>6. CASE Revise
  <2>1. exp' = Idle /\ pc' = "loop" /\ UNCHANGED results
    BY <1>6 DEF Revise
  <2> QED
    BY <2>1, <1>0, <1>b DEF ExpInv, ExpShape, Shown, Idle
<1> QED
  BY <1>1, <1>2, <1>3, <1>4, <1>5, <1>6 DEF Investigation, Next

\* In the batch a result names the hypothesis at the head of the queue, the one
\* whose experiment has just ended.
LEMMA PipelineKeeps ==
  ASSUME FindingsInv, Pipeline, UNCHANGED arm
  PROVE  FindingsInv'
<1> USE DEF FindingsInv
<1>0. UNCHANGED results /\ arm = "pipeline" /\ UNCHANGED <<bugs, resets>>
  BY OneExperiment DEF Pipeline, loopVars, Batch!Next, Batch!Inventory, Batch!Generate,
     Batch!Take, Batch!RunExperiment, FirstRun, Replay, Ran, Batch!Throw, ExpThrows,
     Batch!Keep, Batch!Report, Batch!Hang, Batch!expVars
<1>a. FindingsAreReal'
  BY <1>0 DEF FindingsHold, FindingsAreReal
<1>b. ASSUME UNCHANGED executed PROVE FindingsHold'
  BY <1>0, <1>a, <1>b DEF FindingsHold, Batch!FindingsAreReal
<1>c. ASSUME UNCHANGED exp PROVE ExpInv'
  BY <1>0, <1>c DEF ExpInv, ExpShape, Shown
<1>1. CASE Batch!Inventory \/ Batch!Generate \/ Batch!Report \/ Batch!Hang
  <2>1. UNCHANGED <<exp, executed>> /\ pc' # "run"
    BY <1>1 DEF Batch!Inventory, Batch!Generate, Batch!Report, Batch!Hang, Batch!expVars,
                Batch!batchVars
  <2> QED
    BY <2>1, <1>0, <1>b, <1>c
<1>2. CASE Batch!Take
  <2>1. UNCHANGED executed
    BY <1>2 DEF Batch!Take
  <2>2. CASE UNCHANGED <<exp, pc>> /\ pc = "loop"
    BY <2>1, <2>2, <1>0, <1>b, <1>c
  <2>3. CASE Batch!Begin(Head(queue).claim, {}) /\ UNCHANGED queue
    <3>1. ExpInv' /\ exp'.claim = Head(queue).claim /\ exp'.phase = "first"
      BY <2>3, <1>0, BeginKeeps, OneExperiment DEF Begin
    <3> QED
      BY <3>1, <2>1, <2>3, <1>0, <1>b
  <2> QED
    BY <1>2, <2>2, <2>3 DEF Batch!Take
<1>3. CASE Batch!RunExperiment
  <2>0. FirstRun \/ Replay
    BY <1>3, OneExperiment DEF Batch!RunExperiment
  <2>1. ExpInv' /\ exp'.claim = exp.claim
    BY <2>0, FirstRunKeeps, ReplayKeeps
  <2>2. UNCHANGED <<pc, queue, executed>>
    BY <1>3 DEF Batch!RunExperiment, Batch!batchVars
  <2>3. exp'.phase # "idle"
    BY <2>0 DEF FirstRun, Replay, Ran, ExpInv, ExpShape
  <2> QED
    BY <2>1, <2>2, <2>3, <1>0, <1>b
<1>4. CASE Batch!Throw
  <2>1. exp' = Idle /\ pc' = "thrown" /\ UNCHANGED executed
    BY <1>4, OneExperiment DEF Batch!Throw, ExpThrows, Batch!batchVars
  <2> QED
    BY <2>1, <1>0, <1>b DEF ExpInv, ExpShape, Shown, Idle
<1>5. CASE Batch!Keep
  <2> DEFINE h == Head(queue)
             status == StatusOf(exp.outcome, Batch!IsSpecified(h))
  <2>1. /\ exp' = Idle /\ pc' = "loop"
        /\ executed' = executed \cup {[id |-> h.id, claim |-> h.claim, quote |-> h.quote,
                                       status |-> status]}
    BY <1>5, OneExperiment DEF Batch!Keep, Batch!Idle, Idle
  <2>2. exp.phase = "done" /\ exp.outcome \in Outcomes /\ exp.claim = h.claim
    BY <1>5, <1>0 DEF Batch!Keep, ExpInv, ExpShape
  <2>3. Batch!IsSpecified(h) \in BOOLEAN /\ (Batch!IsSpecified(h) => h.quote # "nowhere")
    BY DEF Batch!IsSpecified, Batch!ExpectationOf
  <2>4. status = "finding" => exp.outcome = "supported_violation" /\ Batch!IsSpecified(h)
    BY <2>2, <2>3, StatusTells
  <2>5. resets /\ status = "finding" => h.claim \in bugs /\ h.quote # "nowhere"
    BY <2>2, <2>3, <2>4 DEF ExpInv, Shown
  <2> HIDE DEF status
  <2>6. Batch!FindingsAreReal'
    BY <2>1, <2>5, <1>0 DEF FindingsHold, Batch!FindingsAreReal
  <2> QED
    BY <2>1, <2>6, <1>0, <1>a DEF FindingsHold, ExpInv, ExpShape, Shown, Idle
<1> QED
  BY <1>1, <1>2, <1>3, <1>4, <1>5 DEF Pipeline, Batch!Next

\* The agent runs no experiment.
LEMMA BaselineKeeps ==
  ASSUME FindingsInv, BaselineArm, UNCHANGED arm
  PROVE  FindingsInv'
<1>1. arm = "baseline" /\ UNCHANGED <<exp, bugs, resets, results, executed>>
  BY DEF BaselineArm, loopVars, batchVars, expVars
<1>2. pc # "run" /\ pc' # "run"
  BY DEF BaselineArm, Agent!Next, Agent!Open, Agent!Turn, Agent!Enough, Agent!Hang, Agent!Take,
         Agent!Stop
<1> QED
  BY <1>1, <1>2 DEF FindingsInv, ExpInv, ExpShape, Shown, FindingsHold, FindingsAreReal,
     Batch!FindingsAreReal

LEMMA FindingsStep == FindingsInv /\ [MCNext]_mcVars => FindingsInv'
<1> SUFFICES ASSUME FindingsInv, [MCNext]_mcVars PROVE FindingsInv'
  OBVIOUS
<1>1. CASE UNCHANGED mcVars
  BY <1>1 DEF mcVars, vars, expVars, loopVars, batchVars, FindingsInv, ExpInv, ExpShape,
     Shown, FindingsHold, FindingsAreReal, Batch!FindingsAreReal
<1>2. CASE MCNext
  BY <1>2, InvestigationKeeps, PipelineKeeps, BaselineKeeps DEF MCNext
<1> QED
  BY <1>1, <1>2

\* In the batch and in the investigation, with the app reset before each run and
\* at most one unnoticed disturbance in an experiment, a finding is a claim the
\* app breaks and the project states: the first run, its judgement, the replay,
\* the quote and the report may not lose hold of it on the way
\* (core/hypothesis/execute.ts, investigate.ts and index.ts).
THEOREM FindingsHoldHolds == MCSpec => []FindingsHold
<1>1. FindingsInv => FindingsHold
  BY DEF FindingsInv
<1> QED
  BY FindingsInit, FindingsStep, <1>1, PTL DEF MCSpec, mcVars

-----------------------------------------------------------------------------
(* The order of a batch: a strict total order of hypotheses with indices of *)
(* their own, so a finite batch can be listed in it, and has a first one.   *)

Distinct(S) == \A g, h \in S : g.id = h.id => g = h

LEMMA BeforeOrders ==
  ASSUME NEW S \in SUBSET Batch!Raw, Distinct(S)
  PROVE  /\ \A g \in S : ~Batch!Before(g, g)
         /\ \A g, h \in S : Batch!Before(g, h) => ~Batch!Before(h, g)
         /\ \A g, h, k \in S : Batch!Before(g, h) /\ Batch!Before(h, k) => Batch!Before(g, k)
         /\ \A g, h \in S : g # h => Batch!Before(g, h) \/ Batch!Before(h, g)
<1>1. \A g \in S : g.priority \in Nat /\ g.id \in 0 .. 99
  BY DEF Batch!Raw
<1>2. \A i, j \in 0 .. 99 :
        /\ Batch!Spelled(i) \in Nat
        /\ i = j \/ Batch!Spelled(i) < Batch!Spelled(j) \/ Batch!Spelled(j) < Batch!Spelled(i)
  BY DEF Batch!Spelled
<1>3. \A g, h \in S : /\ Batch!Spelled(g.id) \in Nat
                      /\ \/ g = h
                         \/ Batch!Spelled(g.id) < Batch!Spelled(h.id)
                         \/ Batch!Spelled(h.id) < Batch!Spelled(g.id)
  BY <1>1, <1>2 DEF Distinct
<1> QED
  BY <1>1, <1>3 DEF Batch!Before

\* The batch counts as everyone does.
LEMMA OneCount ==
  /\ \A S : Batch!IsFiniteSet(S) <=> IsFiniteSet(S)
  /\ \A S : Batch!Cardinality(S) = Cardinality(S)
<1>1. \A S : Batch!IsFiniteSet(S) <=> IsFiniteSet(S)
  BY Zenon DEF IsFiniteSet, Batch!IsFiniteSet
<1>2. \A S : Batch!Cardinality(S) = Cardinality(S)
  BY Zenon DEF Cardinality, Batch!Cardinality
<1> QED
  BY <1>1, <1>2

\* How many hypotheses of S come before h.
Rank(S, h) == Cardinality({g \in S : Batch!Before(g, h)})

\* A later one has more before it, and none has all of S.
LEMMA RankGrows ==
  ASSUME NEW S \in SUBSET Batch!Raw, Distinct(S), IsFiniteSet(S),
         NEW g \in S, NEW h \in S, Batch!Before(g, h)
  PROVE  Rank(S, g) < Rank(S, h)
<1> DEFINE X == {k \in S : Batch!Before(k, g)}
           Y == {k \in S : Batch!Before(k, h)}
<1>1. X \subseteq Y /\ g \in Y /\ g \notin X
  BY BeforeOrders
<1>2. IsFiniteSet(Y) /\ IsFiniteSet(X)
  BY FS_Subset
<1>3. Cardinality(X) <= Cardinality(Y) /\ Cardinality(X) # Cardinality(Y)
  <2>1. Cardinality(X) <= Cardinality(Y) /\ (Cardinality(Y) = Cardinality(X) => Y = X)
    BY <1>1, <1>2, FS_Subset
  <2> QED
    BY <1>1, <2>1
<1>4. Cardinality(X) \in Nat /\ Cardinality(Y) \in Nat
  BY <1>2, FS_CardinalityType
<1> QED
  BY <1>3, <1>4 DEF Rank

LEMMA RankBound ==
  ASSUME NEW S \in SUBSET Batch!Raw, Distinct(S), IsFiniteSet(S), NEW h \in S
  PROVE  Rank(S, h) \in 0 .. Cardinality(S) - 1
<1> DEFINE X == {g \in S : Batch!Before(g, h)}
<1>1. X \subseteq S /\ h \notin X /\ X # S
  BY BeforeOrders
<1>2. IsFiniteSet(X) /\ Cardinality(X) <= Cardinality(S) /\ Cardinality(X) # Cardinality(S)
  BY <1>1, FS_Subset
<1>3. Cardinality(X) \in Nat /\ Cardinality(S) \in Nat
  BY <1>2, FS_CardinalityType
<1> QED
  BY <1>2, <1>3 DEF Rank

\* A batch can be listed in its order: each hypothesis at its rank.
LEMMA InOrderLists ==
  ASSUME NEW S \in SUBSET Batch!Raw, Distinct(S), IsFiniteSet(S)
  PROVE  /\ Cardinality(S) \in Nat
         /\ Batch!InOrder(S) \in [1 .. Cardinality(S) -> S]
         /\ \A i, j \in 1 .. Cardinality(S) :
              i < j => Batch!Before(Batch!InOrder(S)[i], Batch!InOrder(S)[j])
<1> DEFINE size == Cardinality(S)
           r == [h \in S |-> Rank(S, h) + 1]
<1>1. size \in Nat /\ IsFiniteSet(1 .. size) /\ Cardinality(1 .. size) = size
  BY FS_CardinalityType, FS_Interval
<1>2. \A h \in S : r[h] \in 1 .. size
  BY <1>1, RankBound
<1>3. \A g, h \in S : Batch!Before(g, h) => r[g] < r[h]
  BY <1>1, RankBound, RankGrows
<1> HIDE DEF r, size
<1>4. r \in [S -> 1 .. size]
  BY <1>2 DEF r
<1>5. \A g, h \in S : r[g] = r[h] => g = h
  BY <1>1, <1>2, <1>3, BeforeOrders
<1>6. r \in Injection(S, 1 .. size)
  BY <1>4, <1>5 DEF Injection, IsInjective
<1>7. r \in Surjection(S, 1 .. size)
  BY <1>6, <1>1, FS_Injection DEF size
<1>8. \A k \in 1 .. size : \E h \in S : r[h] = k
  BY <1>7 DEF Surjection
<1> DEFINE s == [k \in 1 .. size |-> CHOOSE h \in S : r[h] = k]
<1>9. \A k \in 1 .. size : s[k] \in S /\ r[s[k]] = k
  BY <1>8
<1> HIDE DEF s
<1>10. ASSUME NEW i \in 1 .. size, NEW j \in 1 .. size, i < j
       PROVE  Batch!Before(s[i], s[j])
  <2>1. CASE Batch!Before(s[j], s[i])
    <3>1. r[s[j]] < r[s[i]]
      BY <1>9, <1>3, <2>1
    <3> QED
      BY <1>9, <3>1, <1>1, <1>10
  <2>2. CASE s[j] = s[i]
    BY <1>9, <2>2, <1>10, <1>1
  <2> QED
    BY <2>1, <2>2, <1>9, BeforeOrders
<1>11. s \in [1 .. size -> S]
  BY <1>9 DEF s
<1> DEFINE m == Batch!Cardinality(S)
<1>12. m = size
  BY OneCount DEF size
<1> HIDE DEF m
<1>13. \E t \in [1 .. m -> S] : \A i, j \in 1 .. m : i < j => Batch!Before(t[i], t[j])
  BY <1>10, <1>11, <1>12
<1>14. /\ Batch!InOrder(S) \in [1 .. m -> S]
       /\ \A i, j \in 1 .. m :
            i < j => Batch!Before(Batch!InOrder(S)[i], Batch!InOrder(S)[j])
  <2>1. Batch!InOrder(S) = CHOOSE t \in [1 .. m -> S] :
          \A i, j \in 1 .. m : i < j => Batch!Before(t[i], t[j])
    BY DEF Batch!InOrder, m
  <2> QED
    BY <1>13, <2>1, Zenon
<1> QED
  BY <1>1, <1>12, <1>14 DEF size

\* Nothing is listed twice, and everything is.
LEMMA InOrderOnce ==
  ASSUME NEW S \in SUBSET Batch!Raw, Distinct(S), IsFiniteSet(S)
  PROVE  /\ \A i, j \in 1 .. Cardinality(S) :
              Batch!InOrder(S)[i] = Batch!InOrder(S)[j] => i = j
         /\ \A h \in S : \E i \in 1 .. Cardinality(S) : Batch!InOrder(S)[i] = h
<1> DEFINE size == Cardinality(S)
           s == Batch!InOrder(S)
<1>1. /\ size \in Nat /\ s \in [1 .. size -> S]
      /\ \A i, j \in 1 .. size : i < j => Batch!Before(s[i], s[j])
  BY InOrderLists
<1>2. IsFiniteSet(1 .. size) /\ Cardinality(1 .. size) = size
  BY <1>1, FS_Interval
<1> HIDE DEF s, size
<1>3. ASSUME NEW i \in 1 .. size, NEW j \in 1 .. size, s[i] = s[j], i # j PROVE FALSE
  <2>1. i < j \/ j < i
    BY <1>1, <1>3
  <2>2. Batch!Before(s[i], s[j]) \/ Batch!Before(s[j], s[i])
    BY <1>1, <2>1
  <2> QED
    BY <1>1, <1>3, <2>2, BeforeOrders
<1>4. s \in Injection(1 .. size, S)
  BY <1>1, <1>3 DEF Injection, IsInjective
<1>5. s \in Surjection(1 .. size, S)
  BY <1>4, <1>2, FS_Injection DEF size
<1> QED
  BY <1>3, <1>5 DEF s, size, Surjection

\* Of the hypotheses of one kind the first in order is kept.
LEMMA FirstIsKept ==
  ASSUME NEW H \in SUBSET Batch!Raw, Distinct(H), IsFiniteSet(H), NEW h \in H
  PROVE  \E g \in Batch!Kept(H) : g.key = h.key /\ (g = h \/ Batch!Before(g, h))
<1> DEFINE S == {g \in H : g.key = h.key}
           s == Batch!InOrder(S)
           size == Cardinality(S)
<1>1. /\ S \in SUBSET Batch!Raw /\ Distinct(S) /\ IsFiniteSet(S) /\ h \in S
  BY FS_Subset DEF Distinct
<1>2. /\ size \in Nat /\ s \in [1 .. size -> S]
      /\ \A i, j \in 1 .. size : i < j => Batch!Before(s[i], s[j])
      /\ \A g \in S : \E i \in 1 .. size : s[i] = g
  <2> HIDE DEF S
  <2> QED
    BY <1>1, InOrderLists, InOrderOnce
<1> HIDE DEF s, size
<1>3. 1 \in 1 .. size
  BY <1>1, <1>2
<1>4. s[1] \in S
  BY <1>2, <1>3
<1>5. \A g \in S : g = s[1] \/ Batch!Before(s[1], g)
  BY <1>2, <1>3
<1>6. s[1] \in Batch!Kept(H)
  BY <1>4, <1>5 DEF Batch!Kept
<1> QED
  BY <1>1, <1>4, <1>5, <1>6

-----------------------------------------------------------------------------
(* The report of the batch.                                                 *)

In(q, h) == \E i \in DOMAIN q : q[i] = h
Once(q)  == \A i, j \in DOMAIN q : q[i] = q[j] => i = j

\* Each hypothesis that was accepted waits, or was executed, or is named as not
\* run: one of the three.  One that was dropped without a cap has another, that
\* comes before it, in its place.
BatchInv ==
  /\ accepted \in SUBSET Batch!Raw /\ Distinct(accepted)
  /\ queue \in Seq(accepted) /\ Once(queue)
  /\ \A h \in accepted :
       /\ In(queue, h) \/ Batch!Done(h) \/ h.id \in notRun
       /\ ~(Batch!Done(h) /\ h.id \in notRun)
       /\ In(queue, h) => ~Batch!Done(h) /\ h.id \notin notRun
       /\ h.id \in notRun =>
            \/ stopped # "all executed"
            \/ \E g \in accepted : /\ g.key = h.key /\ Batch!Before(g, h)
                                   /\ In(queue, g) \/ Batch!Done(g)
  /\ arm = "pipeline" /\ pc = "run" => queue # <<>>
  /\ arm = "pipeline" /\ pc = "end" => queue = <<>>
  /\ arm = "pipeline" /\ pc \in {"start", "generate"} => executed = {}
  /\ arm # "pipeline" => accepted = {}

(* What the investigation and the agent count.                              *)

ExpTypes ==
  /\ ExpTypeOK
  /\ exp.phase # "idle" => exp.ctls \subseteq Ctls
  /\ exp.phase = "done" => exp.outcome # "none"

LoopTypes ==
  /\ n \in 0 .. MaxIterations /\ tries \in 0 .. 2 /\ noPlan \in 0 .. MaxNoPlan
  /\ failed \subseteq Elements /\ plan \in Replies \cup {NoPlan} /\ seen \subseteq Replies
  /\ noPlan < MaxNoPlan \/ (arm = "investigate" /\ pc = "end")
  /\ states \in Seq([path : SUBSET (Ctls \cup {NoCtl})])
  /\ arm = "investigate" /\ pc \in {"run", "revise"} =>
       plan \in Replies /\ plan.from <= Len(states)

Stated == {"finding", "lead", "held", "unknown", "environment"}

\* Every proposal but the one at work has its result, or was a duplicate.
Books ==
  /\ \A i \in DOMAIN results : results[i].status \in Stated
  /\ Len(results) = With("finding") + With("lead") + With("held")
                  + With("unknown") + With("environment")
  /\ duplicates \in Nat
  /\ arm # "investigate" => results = <<>> /\ proposed = 0 /\ duplicates = 0
  /\ arm = "investigate" /\ pc \notin {"thrown", "hung"} =>
       proposed = duplicates + Len(results) + (IF pc = "run" THEN 1 ELSE 0)

Counts == [turns : Nat, valid : Nat, invalid : Nat, none : Nat, errors : Nat, actions : Nat]

AgentInv == metrics \in Counts /\ turn = metrics.turns /\ Agent!MetricsAddUp

ReportInv == BatchInv /\ ExpTypes /\ LoopTypes /\ Books /\ AgentInv

\* What is left of a queue when its head is taken off.
LEMMA TailOnce ==
  ASSUME NEW S, NEW q \in Seq(S), q # <<>>, Once(q)
  PROVE  /\ Head(q) \in S /\ Tail(q) \in Seq(S) /\ Once(Tail(q))
         /\ In(q, Head(q)) /\ \A h : In(Tail(q), h) <=> In(q, h) /\ h # Head(q)
<1>1. /\ Len(q) \in Nat \ {0} /\ Head(q) = q[1] /\ Head(q) \in S /\ Tail(q) \in Seq(S)
      /\ DOMAIN q = 1 .. Len(q) /\ DOMAIN Tail(q) = 1 .. Len(q) - 1
      /\ \A i \in 1 .. Len(q) - 1 : Tail(q)[i] = q[i + 1]
  OBVIOUS
<1>2. Once(Tail(q))
  <2> SUFFICES ASSUME NEW i \in 1 .. Len(q) - 1, NEW j \in 1 .. Len(q) - 1,
                      Tail(q)[i] = Tail(q)[j]
               PROVE  i = j
    BY <1>1 DEF Once
  <2>1. i + 1 \in DOMAIN q /\ j + 1 \in DOMAIN q /\ q[i + 1] = q[j + 1]
    BY <1>1
  <2>2. i + 1 = j + 1
    BY <2>1 DEF Once
  <2> QED
    BY <2>2
<1>3. In(q, Head(q))
  BY <1>1 DEF In
<1>4. ASSUME NEW h, In(Tail(q), h) PROVE In(q, h) /\ h # Head(q)
  <2>1. PICK i \in 1 .. Len(q) - 1 : q[i + 1] = h
    BY <1>1, <1>4 DEF In
  <2>2. i + 1 \in DOMAIN q /\ i + 1 # 1 /\ 1 \in DOMAIN q
    BY <1>1
  <2>3. q[i + 1] # q[1]
    BY <2>2 DEF Once
  <2> QED
    BY <1>1, <2>1, <2>2, <2>3 DEF In
<1>5. ASSUME NEW h, In(q, h), h # Head(q) PROVE In(Tail(q), h)
  <2>1. PICK i \in 1 .. Len(q) : q[i] = h
    BY <1>1, <1>5 DEF In
  <2>2. i - 1 \in 1 .. Len(q) - 1 /\ Tail(q)[i - 1] = h
    BY <1>1, <1>5, <2>1
  <2> QED
    BY <1>1, <2>2 DEF In
<1> QED
  BY <1>1, <1>2, <1>3, <1>4, <1>5

\* Nothing is accepted before the reply.
LEMMA BatchInit0 == MCInit => BatchInv
<1> SUFFICES ASSUME MCInit PROVE BatchInv
  OBVIOUS
<1>1. accepted = {} /\ queue = <<>> /\ executed = {} /\ pc = "start"
  BY DEF MCInit, Batch!BatchInit, Init
<1>2. queue \in Seq(accepted) /\ Once(queue)
  BY <1>1 DEF Once
<1> QED
  BY <1>1, <1>2 DEF BatchInv, Distinct

\* The reply is ordered and cleared of near-duplicates: what is kept waits,
\* what is not is named, and has one before it that is kept.
LEMMA BatchPrioritizes ==
  ASSUME NEW H \in SUBSET Batch!Raw, Distinct(H), IsFiniteSet(H),
         executed = {}, executed' = {}, pc' = "loop", arm' = "pipeline",
         Batch!Prioritized(H)
  PROVE  BatchInv'
<1> DEFINE K == Batch!Kept(H)
           q == Batch!InOrder(K)
           size == Cardinality(K)
<1>1. K \in SUBSET Batch!Raw /\ K \subseteq H /\ Distinct(K) /\ IsFiniteSet(K)
  BY FS_Subset DEF Batch!Kept, Distinct
<1> HIDE DEF K
<1>2. /\ size \in Nat /\ q \in [1 .. size -> K]
      /\ \A i, j \in 1 .. size : q[i] = q[j] => i = j
      /\ \A h \in K : \E i \in 1 .. size : q[i] = h
  BY <1>1, InOrderLists, InOrderOnce
<1>3. /\ accepted' = H /\ queue' = q /\ notRun' = {h.id : h \in H \ K}
  BY DEF Batch!Prioritized, K
<1> HIDE DEF q, size
<1>4. q \in Seq(H) /\ Once(q) /\ \A h : In(q, h) <=> h \in K
  <2>1. DOMAIN q = 1 .. size
    BY <1>2
  <2>2. q \in [1 .. size -> H]
    BY <1>1, <1>2
  <2> QED
    BY <1>2, <2>1, <2>2 DEF In, Once
<1>5. \A h \in H : h.id \in notRun' <=> h \notin K
  BY <1>3 DEF Distinct
<1>6. \A h \in H : ~Batch!Done(h)'
  BY DEF Batch!Done
<1>7. ASSUME NEW h \in H, h \notin K
      PROVE  \E g \in H : g.key = h.key /\ Batch!Before(g, h) /\ In(q, g)
  <2>1. PICK g \in K : g.key = h.key /\ (g = h \/ Batch!Before(g, h))
    BY FirstIsKept DEF K
  <2> QED
    BY <1>1, <1>4, <1>7, <2>1
<1>8. \A h \in accepted' :
       /\ In(queue', h) \/ Batch!Done(h)' \/ h.id \in notRun'
       /\ ~(Batch!Done(h)' /\ h.id \in notRun')
       /\ In(queue', h) => ~Batch!Done(h)' /\ h.id \notin notRun'
       /\ h.id \in notRun' =>
            \E g \in accepted' : /\ g.key = h.key /\ Batch!Before(g, h)
                                 /\ In(queue', g) \/ Batch!Done(g)'
  BY <1>3, <1>4, <1>5, <1>6, <1>7
<1>9. queue' \in Seq(accepted') /\ Once(queue') /\ accepted' \in SUBSET Batch!Raw
      /\ Distinct(accepted')
  BY <1>3, <1>4
<1> QED
  BY <1>8, <1>9 DEF BatchInv

\* A step that leaves the batch alone.
LEMMA BatchKept ==
  ASSUME BatchInv, UNCHANGED <<batchVars, stopped, arm>>,
         arm = "pipeline" =>
           /\ pc' = "run" => queue # <<>>
           /\ pc' = "end" => queue = <<>>
           /\ pc' \in {"start", "generate"} => executed = {}
  PROVE  BatchInv'
BY DEF BatchInv, batchVars, Batch!Done, In, Once, Distinct

\* The head of the queue leaves it for one of the two lists of the report; for
\* the one of those not run, under a cap.
LEMMA BatchAnswers ==
  ASSUME BatchInv, arm = "pipeline", arm' = arm, queue # <<>>, queue' = Tail(queue),
         pc' = "loop", UNCHANGED accepted,
         \/ /\ stopped' # "all executed" /\ notRun' = notRun \cup {Head(queue).id}
            /\ UNCHANGED executed
         \/ /\ UNCHANGED <<notRun, stopped>>
            /\ \A h : Batch!Done(h)' <=> Batch!Done(h) \/ h.id = Head(queue).id
  PROVE  BatchInv'
<1> DEFINE head == Head(queue)
<1>1. /\ head \in accepted /\ queue' \in Seq(accepted) /\ Once(queue') /\ In(queue, head)
      /\ \A h : In(queue', h) <=> In(queue, h) /\ h # head
  BY TailOnce DEF BatchInv
<1> HIDE DEF head
<1>2. \A h \in accepted : h.id = head.id <=> h = head
  BY <1>1 DEF BatchInv, Distinct
<1>3. ~Batch!Done(head) /\ head.id \notin notRun
  BY <1>1 DEF BatchInv
<1>4. CASE /\ stopped' # "all executed" /\ notRun' = notRun \cup {head.id}
           /\ UNCHANGED executed
  <2>1. \A h \in accepted : h.id \in notRun' <=> h.id \in notRun \/ h = head
    BY <1>2, <1>4
  <2>2. \A h \in accepted : Batch!Done(h)' <=> Batch!Done(h)
    BY <1>4 DEF Batch!Done
  <2>3. \A h \in accepted :
          /\ In(queue', h) \/ Batch!Done(h)' \/ h.id \in notRun'
          /\ ~(Batch!Done(h)' /\ h.id \in notRun')
          /\ In(queue', h) => ~Batch!Done(h)' /\ h.id \notin notRun'
    BY <1>1, <1>3, <2>1, <2>2 DEF BatchInv
  <2> QED
    BY <1>1, <1>4, <2>3 DEF BatchInv
<1>5. CASE /\ UNCHANGED <<notRun, stopped>>
           /\ \A h : Batch!Done(h)' <=> Batch!Done(h) \/ h.id = head.id
  <2>1. \A h \in accepted : Batch!Done(h)' <=> Batch!Done(h) \/ h = head
    BY <1>2, <1>5
  <2>2. \A h \in accepted :
          /\ In(queue', h) \/ Batch!Done(h)' \/ h.id \in notRun'
          /\ ~(Batch!Done(h)' /\ h.id \in notRun')
          /\ In(queue', h) => ~Batch!Done(h)' /\ h.id \notin notRun'
    BY <1>1, <1>3, <1>5, <2>1 DEF BatchInv
  <2>3. \A g \in accepted : In(queue, g) \/ Batch!Done(g) => In(queue', g) \/ Batch!Done(g)'
    BY <1>1, <2>1
  <2>4. \A h \in accepted : h.id \in notRun' =>
          \/ stopped' # "all executed"
          \/ \E g \in accepted : /\ g.key = h.key /\ Batch!Before(g, h)
                                 /\ In(queue', g) \/ Batch!Done(g)'
    BY <1>5, <2>3 DEF BatchInv
  <2> QED
    BY <1>1, <2>2, <2>4 DEF BatchInv
<1> QED
  BY <1>4, <1>5 DEF head

\* The reply, or what there is without one.
LEMMA BatchGenerates ==
  ASSUME BatchInv, arm = "pipeline", arm' = arm, Batch!Generate
  PROVE  BatchInv'
<1>1. executed = {} /\ executed' = {} /\ pc' = "loop" /\ arm' = "pipeline"
  BY DEF BatchInv, Batch!Generate
<1>2. CASE Batch!Prioritized({})
  <2>1. {} \in SUBSET Batch!Raw /\ Distinct({}) /\ IsFiniteSet({})
    BY FS_EmptySet DEF Distinct
  <2> QED
    BY <1>1, <1>2, <2>1, BatchPrioritizes
<1>3. ASSUME NEW reply \in Batch!Replies, Batch!Prioritized({raw \in reply : Batch!Accepts(raw)})
      PROVE  BatchInv'
  <2> DEFINE H == {raw \in reply : Batch!Accepts(raw)}
  <2>1. reply \in SUBSET Batch!Raw /\ Distinct(H) /\ IsFiniteSet(reply)
    BY OneCount, DiscoveryAssumption DEF Batch!Replies, Distinct
  <2>2. H \in SUBSET Batch!Raw /\ Distinct(H) /\ IsFiniteSet(H)
    BY <2>1, FS_Subset
  <2> HIDE DEF H
  <2>3. Batch!Prioritized(H)
    BY <1>3 DEF H
  <2> QED
    BY <1>1, <2>2, <2>3, BatchPrioritizes
<1>4. \/ Batch!Prioritized({})
      \/ \E reply \in Batch!Replies : Batch!Prioritized({raw \in reply : Batch!Accepts(raw)})
  BY DEF Batch!Generate
<1> QED
  BY <1>2, <1>3, <1>4

\* Every step of every arm keeps the account of the batch.
LEMMA BatchStep ==
  ASSUME BatchInv, FindingsInv, MCNext
  PROVE  BatchInv'
<1>0. UNCHANGED arm
  BY DEF MCNext
<1>1. CASE Investigation
  <2>1. arm # "pipeline" /\ UNCHANGED batchVars
    BY <1>1 DEF Investigation
  <2> QED
    BY <1>0, <2>1 DEF BatchInv, batchVars, Batch!Done, In, Once, Distinct
<1>2. CASE BaselineArm
  <2>1. arm # "pipeline" /\ UNCHANGED batchVars
    BY <1>2 DEF BaselineArm
  <2> QED
    BY <1>0, <2>1 DEF BatchInv, batchVars, Batch!Done, In, Once, Distinct
<1>3. CASE Pipeline
  <2>0. arm = "pipeline"
    BY <1>3 DEF Pipeline
  <2>1. CASE Batch!Inventory
    BY <1>0, <2>0, <2>1, BatchKept DEF Batch!Inventory, Batch!batchVars, batchVars, BatchInv
  <2>2. CASE Batch!Generate
    BY <1>0, <2>0, <2>2, BatchGenerates
  <2>3. CASE Batch!Take
    <3>1. CASE /\ stopped' = (IF Batch!Cardinality(executed) >= MaxExperiments
                              THEN "experiment cap" ELSE "wall-clock")
               /\ notRun' = notRun \cup {Head(queue).id} /\ queue' = Tail(queue)
               /\ UNCHANGED <<exp, pc>>
      <4>1. stopped' # "all executed"
        BY <3>1
      <4> QED
        BY <1>0, <2>0, <2>3, <3>1, <4>1, BatchAnswers DEF Batch!Take
    <3>2. CASE pc' = "run" /\ UNCHANGED <<stopped, notRun, queue>>
      BY <1>0, <2>0, <2>3, <3>2, BatchKept DEF Batch!Take, batchVars
    <3> QED
      BY <2>3, <3>1, <3>2 DEF Batch!Take
  <2>4. CASE Batch!RunExperiment
    BY <1>0, <2>0, <2>4, BatchKept DEF Batch!RunExperiment, Batch!batchVars, batchVars, BatchInv
  <2>5. CASE Batch!Throw
    BY <1>0, <2>0, <2>5, BatchKept DEF Batch!Throw, Batch!batchVars, batchVars, BatchInv
  <2>6. CASE Batch!Keep
    <3>1. queue # <<>>
      BY <2>0, <2>6 DEF Batch!Keep, BatchInv
    <3>2. \A h : Batch!Done(h)' <=> Batch!Done(h) \/ h.id = Head(queue).id
      <4> DEFINE h == Head(queue)
                 x == [id |-> h.id, claim |-> h.claim, quote |-> h.quote,
                       status |-> Batch!StatusOf(exp.outcome, Batch!IsSpecified(h))]
      <4>1. executed' = executed \cup {x} /\ x.id = h.id
        BY <2>6 DEF Batch!Keep
      <4> HIDE DEF x
      <4> QED
        BY <4>1 DEF Batch!Done
    <3> QED
      BY <1>0, <2>0, <2>6, <3>1, <3>2, BatchAnswers DEF Batch!Keep
  <2>7. CASE Batch!Report
    BY <1>0, <2>0, <2>7, BatchKept DEF Batch!Report, Batch!batchVars, batchVars
  <2>8. CASE Batch!Hang
    BY <1>0, <2>0, <2>8, BatchKept DEF Batch!Hang, Batch!batchVars, batchVars
  <2> QED
    BY <1>3, <2>1, <2>2, <2>3, <2>4, <2>5, <2>6, <2>7, <2>8 DEF Pipeline, Batch!Next
<1> QED
  BY <1>1, <1>2, <1>3 DEF MCNext

\* At the end nothing waits.
LEMMA BatchInvSays ==
  ASSUME BatchInv
  PROVE  Batch!NothingDropped
<1>1. CASE arm = "pipeline"
  <2>1. pc = "end" => queue = <<>>
    BY <1>1 DEF BatchInv
  <2>2. \A h : ~In(<<>>, h)
    BY DEF In
  <2>3. \A g, h \in accepted : Batch!Before(g, h) => g # h /\ g.priority >= h.priority
    <3>1. \A g \in accepted : g.priority \in Nat
      BY DEF BatchInv, Batch!Raw
    <3>2. \A g \in accepted : ~Batch!Before(g, g)
      BY BeforeOrders DEF BatchInv
    <3>3. \A g, h \in accepted : Batch!Before(g, h) => g.priority >= h.priority
      BY <3>1 DEF Batch!Before
    <3> QED
      BY <3>2, <3>3
  <2> QED
    BY <2>1, <2>2, <2>3 DEF BatchInv, Batch!NothingDropped
<1>2. CASE arm # "pipeline"
  BY <1>2 DEF BatchInv, Batch!NothingDropped
<1> QED
  BY <1>1, <1>2

-----------------------------------------------------------------------------
(* The experiment, the loop and the counts.                                 *)

\* An experiment begins with controls that were observed.
LEMMA BeginTypes ==
  ASSUME ExpTypes, NEW claim \in Claims, NEW ctls \in SUBSET Ctls, Begin(claim, ctls),
         UNCHANGED <<bugs, resets, app>>
  PROVE  ExpTypes'
BY DEF ExpTypes, ExpTypeOK, Begin

\* A run, or a replay, has a verdict when it is done.
LEMMA RunTypes ==
  ASSUME ExpTypes, ExpInv, FirstRun \/ Replay
  PROVE  ExpTypes'
<1>1. /\ exp.phase \in {"first", "replay"} /\ exp.claim \in Claims
      /\ exp.bad \in {"ran", "step"} \cup Ctls /\ exp.ctls \subseteq Ctls
      /\ bugs \subseteq Claims /\ resets \in BOOLEAN /\ app \in {"initial", "left"}
  BY DEF FirstRun, Replay, ExpTypes, ExpTypeOK
<1>2. StartOf \in {"initial", "left"}
  BY <1>1 DEF StartOf
<1>3. ASSUME NEW t \in Traces(StartOf), NEW phase \in {"replay", "done"},
             NEW outcome \in Outcomes, phase = "done" => outcome # "none",
             Ran(t, StartOf, phase, outcome)
      PROVE  ExpTypes'
  <2>1. t.bad \in {"ran", "step"} \cup Ctls
    BY <1>1 DEF Traces
  <2>2. /\ exp'.phase = phase /\ exp'.outcome = outcome /\ exp'.claim = exp.claim
        /\ exp'.ctls = exp.ctls /\ exp'.bad \in {exp.bad, t.bad}
    BY <1>1, <1>3 DEF Ran, ExpInv, ExpShape
  <2>3. app' \in {"initial", "left"} /\ UNCHANGED <<bugs, resets>>
    BY <1>2, <1>3 DEF Ran
  <2> QED
    BY <1>1, <1>3, <2>1, <2>2, <2>3 DEF ExpTypes, ExpTypeOK
<1>4. CASE FirstRun
  <2>1. PICK t \in Traces(StartOf) :
          Ran(t, StartOf, IF FirstOutcome(t) = "none" THEN "replay" ELSE "done", FirstOutcome(t))
    BY <1>4 DEF FirstRun
  <2>2. FirstOutcome(t) \in Outcomes
    BY DEF FirstOutcome, VerdictOf, Outcomes
  <2> QED
    BY <1>3, <2>1, <2>2
<1>5. CASE Replay
  <2>1. PICK t \in Traces(StartOf) : Ran(t, StartOf, "done", ReplayOutcome(t))
    BY <1>5 DEF Replay, ReplayStart
  <2>2. ReplayOutcome(t) \in Outcomes /\ ReplayOutcome(t) # "none"
    BY DEF ReplayOutcome, Outcomes
  <2> QED
    BY <1>3, <2>1, <2>2
<1> QED
  BY <1>4, <1>5

\* An experiment is put away.
LEMMA IdleTypes ==
  ASSUME ExpTypes, exp' = Idle, UNCHANGED <<bugs, resets>>, app' \in {"initial", "left"}
  PROVE  ExpTypes'
BY DEF ExpTypes, ExpTypeOK, Idle

\* A step that leaves the experiment alone.
LEMMA ExpTypesKept ==
  ASSUME ExpTypes, UNCHANGED expVars
  PROVE  ExpTypes'
BY DEF ExpTypes, ExpTypeOK, expVars

\* A result counts once, under its status.
LEMMA ResultCounted ==
  ASSUME results \in Seq(Results), NEW r \in Results, results' = Append(results, r)
  PROVE  /\ With(r.status)' = With(r.status) + 1
         /\ \A status : status # r.status => With(status)' = With(status)
         /\ \A status : With(status) \in Nat
         /\ Len(results') = Len(results) + 1
<1> DEFINE at(status) == {i \in 1 .. Len(results) : results[i].status = status}
<1>1. /\ Len(results) \in Nat /\ DOMAIN results = 1 .. Len(results)
      /\ DOMAIN results' = 1 .. Len(results) + 1 /\ Len(results') = Len(results) + 1
      /\ results'[Len(results) + 1] = r
      /\ \A i \in 1 .. Len(results) : results'[i] = results[i]
  OBVIOUS
<1>2. \A status : IsFiniteSet(at(status)) /\ Cardinality(at(status)) \in Nat
  <2> TAKE status
  <2>1. IsFiniteSet(1 .. Len(results))
    BY <1>1, FS_Interval
  <2>2. IsFiniteSet(at(status))
    BY <2>1, FS_Subset
  <2> QED
    BY <2>2, FS_CardinalityType
<1>3. \A status : With(status) = Cardinality(at(status))
  BY <1>1 DEF With
<1>4. Len(results) + 1 \notin at(r.status)
  BY <1>1
<1>5. {i \in DOMAIN results' : results'[i].status = r.status}
      = at(r.status) \cup {Len(results) + 1}
  BY <1>1
<1>6. \A status : status # r.status =>
        {i \in DOMAIN results' : results'[i].status = status} = at(status)
  BY <1>1
<1> HIDE DEF at
<1>7. With(r.status)' = With(r.status) + 1
  <2>1. With(r.status)' = Cardinality(at(r.status) \cup {Len(results) + 1})
    BY <1>5 DEF With
  <2> QED
    BY <1>2, <1>3, <1>4, <2>1, FS_AddElement
<1>8. \A status : status # r.status => With(status)' = With(status)
  BY <1>3, <1>6 DEF With
<1> QED
  BY <1>1, <1>2, <1>3, <1>7, <1>8

\* The counts of the arms that do not run stand still.
LEMMA OthersStand ==
  ASSUME LoopTypes, Books, UNCHANGED <<loopVars, arm>>, arm # "investigate"
  PROVE  Books' /\ LoopTypes'
BY DEF LoopTypes, Books, loopVars, With

\* The way to a state the loop knows.
LEMMA WayOf ==
  ASSUME NEW C, NEW s \in Seq([path : SUBSET C]), NEW k \in 1 .. Len(s)
  PROVE  s[k].path \in SUBSET C
<1> DEFINE P == [path : SUBSET C]
<1>1. s \in Seq(P) /\ \A p \in P : p.path \in SUBSET C
  OBVIOUS
<1> HIDE DEF P
<1>2. s[k] \in P
  BY <1>1
<1> QED
  BY <1>1, <1>2

\* Adding one to one of five numbers adds one to their sum.
LEMMA OneOfFive ==
  ASSUME NEW w \in Stated,
         NEW f \in [Stated -> Nat], NEW g \in [Stated -> Nat], g[w] = f[w] + 1,
         \A v \in Stated : v # w => g[v] = f[v]
  PROVE  g["finding"] + g["lead"] + g["held"] + g["unknown"] + g["environment"]
         = f["finding"] + f["lead"] + f["held"] + f["unknown"] + f["environment"] + 1
<1>1. \A v \in Stated : f[v] \in Nat /\ g[v] \in Nat
  OBVIOUS
<1>2. CASE w = "finding"
  BY <1>1, <1>2 DEF Stated
<1>3. CASE w = "lead"
  BY <1>1, <1>3 DEF Stated
<1>4. CASE w = "held"
  BY <1>1, <1>4 DEF Stated
<1>5. CASE w = "unknown"
  BY <1>1, <1>5 DEF Stated
<1>6. CASE w = "environment"
  BY <1>1, <1>6 DEF Stated
<1> QED
  BY <1>2, <1>3, <1>4, <1>5, <1>6 DEF Stated

\* Every step of the loop keeps the types of its state, and its books: a
\* proposal is a duplicate, is at work, or has its one result.
LEMMA InvestigationTypes ==
  ASSUME ExpTypes, LoopTypes, Books, FindingsInv, Investigation, UNCHANGED arm
  PROVE  ExpTypes' /\ LoopTypes' /\ Books'
<1>0. arm = "investigate"
  BY DEF Investigation
<1>a. ASSUME UNCHANGED <<results, proposed, duplicates>>, pc' # "run",
             pc \notin {"run", "thrown", "hung"}
      PROVE  Books'
  BY <1>0, <1>a DEF Books, With
<1>1. CASE Observe
  <2>1. LoopTypes'
    <3>1. <<[path |-> {}]>> \in Seq([path : SUBSET (Ctls \cup {NoCtl})])
      OBVIOUS
    <3> QED
      BY <1>1, <3>1 DEF LoopTypes, Observe
  <2>2. ExpTypes' /\ Books'
    BY <1>1, <1>a, ExpTypesKept DEF Observe
  <2> QED
    BY <2>1, <2>2
<1>2. CASE Iterate
  <2>1. LoopTypes'
    BY <1>2, InvestigateAssumption DEF LoopTypes, Iterate, Stop
  <2>2. ExpTypes' /\ Books'
    BY <1>2, <1>a, ExpTypesKept DEF Iterate, Stop
  <2> QED
    BY <2>1, <2>2
<1>3. CASE Ask
  <2>1. CASE UNCHANGED <<expVars, loopVars>> /\ pc' = "end" /\ pc = "ask"
    <3>1. LoopTypes'
      BY <1>0, <2>1 DEF LoopTypes, loopVars
    <3>2. ExpTypes' /\ Books'
      BY <2>1, <1>a, ExpTypesKept DEF loopVars
    <3> QED
      BY <3>1, <3>2
  <2>2. CASE AfterNoPlan /\ pc = "ask"
    <3>1. LoopTypes'
      <4>1. noPlan \in Nat /\ noPlan < MaxNoPlan /\ MaxNoPlan \in Nat
        BY <2>2, InvestigateAssumption DEF LoopTypes
      <4>2. tries' \in 0 .. 2 /\ noPlan' \in 0 .. MaxNoPlan
            /\ (noPlan' < MaxNoPlan \/ pc' = "end") /\ pc' \notin {"run", "revise"}
        <5>1. CASE tries = 0
          BY <2>2, <4>1, <5>1 DEF AfterNoPlan, NoProposal
        <5>2. CASE tries # 0
          <6>1. /\ noPlan' = noPlan + 1 /\ tries' = 0
                /\ \/ noPlan' >= MaxNoPlan /\ pc' = "end"
                   \/ ~(noPlan' >= MaxNoPlan) /\ pc' = "loop"
            BY <2>2, <5>2 DEF AfterNoPlan, NoProposal, Stop
          <6> QED
            BY <4>1, <6>1
        <5> QED
          BY <5>1, <5>2
      <4> QED
        BY <1>0, <2>2, <4>2 DEF LoopTypes, AfterNoPlan
    <3>2. ExpTypes' /\ Books'
      BY <2>2, <1>a, ExpTypesKept DEF AfterNoPlan, NoProposal, Stop
    <3> QED
      BY <3>1, <3>2
  <2>3. ASSUME NEW r \in Replies, Bound(r), Execute(r), pc = "ask"
        PROVE  ExpTypes' /\ LoopTypes' /\ Books'
    <3>1. r.from \in 1 .. Len(states) /\ r.claim \in Claims /\ r.ctl \in Ctls \cup {NoCtl}
      BY <2>3, InvestigateAssumption DEF Bound, Replies, LoopTypes
    <3>2. /\ noPlan' = 0 /\ tries' = 0 /\ proposed' = proposed + 1
          /\ UNCHANGED <<bugs, resets, app, stopped, n, states, failed, results>>
      BY <2>3 DEF Execute
    <3>3. CASE pc' = "loop" /\ duplicates' = duplicates + 1 /\ UNCHANGED <<exp, seen, plan>>
      <4>1. LoopTypes'
        BY <3>2, <3>3, InvestigateAssumption DEF LoopTypes
      <4>2. ExpTypes'
        BY <3>2, <3>3, ExpTypesKept DEF expVars
      <4>3. Books'
        <5>1. Len(results) \in Nat
          BY DEF FindingsInv
        <5> QED
          BY <1>0, <2>3, <3>2, <3>3, <5>1 DEF Books, With
      <4> QED
        BY <4>1, <4>2, <4>3
    <3>4. CASE /\ pc' = "run" /\ plan' = r /\ seen' = seen \cup {Fingerprint(r)}
               /\ Begin(r.claim, PathOf(r) \ {NoCtl}) /\ UNCHANGED duplicates
      <4>1. LoopTypes'
        BY <2>3, <3>1, <3>2, <3>4, InvestigateAssumption DEF LoopTypes, Fingerprint
      <4>2. ExpTypes'
        <5>1. states[r.from].path \subseteq Ctls \cup {NoCtl}
          <6>1. states \in Seq([path : SUBSET (Ctls \cup {NoCtl})])
            BY DEF LoopTypes
          <6> QED
            BY <3>1, <6>1, WayOf
        <5>2. PathOf(r) \ {NoCtl} \in SUBSET Ctls
          BY <3>1, <5>1 DEF PathOf
        <5> QED
          BY <3>1, <3>2, <3>4, <5>2, BeginTypes
      <4>3. Books'
        <5>1. Len(results) \in Nat
          BY DEF FindingsInv
        <5> QED
          BY <1>0, <2>3, <3>2, <3>4, <5>1 DEF Books, With
      <4> QED
        BY <4>1, <4>2, <4>3
    <3> QED
      BY <2>3, <3>3, <3>4 DEF Execute
  <2> QED
    BY <1>3, <2>1, <2>2, <2>3 DEF Ask, Stop
<1>4. CASE RunExperiment
  <2>1. ExpTypes'
    BY <1>4, RunTypes DEF RunExperiment, FindingsInv
  <2>2. LoopTypes' /\ Books'
    BY <1>4 DEF RunExperiment, loopVars, LoopTypes, Books, With
  <2> QED
    BY <2>1, <2>2
<1>5. CASE Throw
  <2>1. ExpTypes'
    BY <1>5, IdleTypes DEF Throw, ExpThrows, ExpTypes, ExpTypeOK
  <2>2. LoopTypes'
    BY <1>5 DEF Throw, loopVars, LoopTypes
  <2>3. Books'
    BY <1>0, <1>5 DEF Throw, loopVars, Books, With
  <2> QED
    BY <2>1, <2>2, <2>3
<1>6. CASE Judge
  <2> DEFINE status == StatusOf(exp.outcome, exp.claim \in Specified)
  <2>1. /\ exp.phase = "done" /\ exp.outcome \in Outcomes \ {"none"} /\ exp.claim \in Claims
        /\ exp.bad \in {"ran", "step"} \cup Ctls
        /\ pc = "run" /\ plan \in Replies /\ plan.from <= Len(states)
    BY <1>0, <1>6 DEF Judge, FindingsInv, ExpInv, ExpShape, ExpTypes, ExpTypeOK, LoopTypes
  <2>2. status \in Stated
    <3>1. CASE exp.outcome = "supported_violation"
      BY <3>1 DEF StatusOf, Stated
    <3>2. CASE exp.outcome # "supported_violation"
      BY <3>2, <2>1 DEF StatusOf, Outcomes, Stated
    <3> QED
      BY <3>1, <3>2
  <2>3. ASSUME NEW what \in Stated, NEW cited \in BOOLEAN, Conclude(what, cited)
        PROVE  ExpTypes' /\ LoopTypes' /\ Books'
    <3> DEFINE r == [claim |-> exp.claim, status |-> what, cited |-> cited]
    <3>1. /\ pc' = "revise" /\ failed' = failed \cup Blamed /\ results' = Append(results, r)
          /\ UNCHANGED <<expVars, stopped, n, tries, noPlan, states, plan, seen, proposed,
                         duplicates>>
      BY <2>3 DEF Conclude
    <3>2. r \in Results /\ r.status = what
      BY <2>1, <2>3 DEF Results, Stated, Outcomes
    <3>3. Blamed \subseteq Elements
      BY <2>1 DEF Blamed, Elements, Replies
    <3>4. LoopTypes'
      BY <2>1, <3>1, <3>3 DEF LoopTypes
    <3>5. ExpTypes'
      BY <3>1, ExpTypesKept
    <3>6. Books'
      <4> HIDE DEF r
      <4>1. /\ With(what)' = With(what) + 1
            /\ \A other : other # what => With(other)' = With(other)
            /\ \A other : With(other) \in Nat
            /\ Len(results') = Len(results) + 1 /\ Len(results) \in Nat
        BY <3>1, <3>2, ResultCounted DEF FindingsInv
      <4>2. \A i \in DOMAIN results' : results'[i].status \in Stated
        <5>1. /\ results \in Seq(Results) /\ \A i \in DOMAIN results : results[i].status \in Stated
          BY DEF FindingsInv, Books
        <5> QED
          BY <3>1, <3>2, <5>1
      <4>3. Len(results') = With("finding")' + With("lead")' + With("held")'
                          + With("unknown")' + With("environment")'
        <5>1. Len(results) = With("finding") + With("lead") + With("held")
                           + With("unknown") + With("environment")
          BY DEF Books
        <5> DEFINE f == [v \in Stated |-> With(v)]
                   g == [v \in Stated |-> With(v)']
        <5>2. f \in [Stated -> Nat] /\ g \in [Stated -> Nat]
          <6>1. \A v \in Stated : With(v)' \in Nat
            BY <4>1
          <6> QED
            BY <4>1, <6>1
        <5>3. g[what] = f[what] + 1 /\ \A v \in Stated : v # what => g[v] = f[v]
          BY <4>1
        <5>4. \A v \in Stated : f[v] = With(v) /\ g[v] = With(v)'
          OBVIOUS
        <5> HIDE DEF f, g
        <5>5. g["finding"] + g["lead"] + g["held"] + g["unknown"] + g["environment"]
              = f["finding"] + f["lead"] + f["held"] + f["unknown"] + f["environment"] + 1
          BY <5>2, <5>3, OneOfFive
        <5> QED
          BY <4>1, <5>1, <5>4, <5>5 DEF Stated
      <4>4. proposed = duplicates + Len(results) + 1 /\ duplicates \in Nat
        BY <1>0, <2>1 DEF Books
      <4>5. proposed' = duplicates' + Len(results') /\ pc' # "run"
        BY <3>1, <4>1, <4>4
      <4> QED
        BY <1>0, <3>1, <4>2, <4>3, <4>4, <4>5 DEF Books
    <3> QED
      BY <3>4, <3>5, <3>6
  <2>4. "finding" \in Stated /\ "lead" \in Stated
    BY DEF Stated
  <2>5. CASE status # "finding"
    <3>1. Conclude(status, FALSE)
      BY <1>6, <2>5 DEF Judge
    <3> QED
      BY <2>2, <2>3, <3>1
  <2>6. CASE status = "finding"
    <3>1. Conclude("finding", TRUE) \/ Conclude("lead", FALSE)
      BY <1>6, <2>6 DEF Judge
    <3> QED
      BY <2>3, <2>4, <3>1
  <2> QED
    BY <2>5, <2>6
<1>7. CASE Revise
  <2>1. /\ pc = "revise" /\ plan \in Replies /\ plan.from \in 1 .. Len(states)
        /\ states \in Seq([path : SUBSET (Ctls \cup {NoCtl})])
    BY <1>0, <1>7, InvestigateAssumption DEF Revise, LoopTypes, Replies
  <2>2. PathOf(plan) \in SUBSET (Ctls \cup {NoCtl})
    <3>1. states[plan.from].path \in SUBSET (Ctls \cup {NoCtl})
      BY <2>1, WayOf
    <3>2. plan.ctl \in Ctls \cup {NoCtl}
      BY <2>1 DEF Replies
    <3> QED
      BY <3>1, <3>2 DEF PathOf
  <2>3. states' \in Seq([path : SUBSET (Ctls \cup {NoCtl})])
    <3>1. [path |-> PathOf(plan)] \in [path : SUBSET (Ctls \cup {NoCtl})]
      BY <2>2
    <3> QED
      BY <1>7, <2>1, <3>1 DEF Revise
  <2>4. LoopTypes'
    BY <1>7, <2>1, <2>3 DEF LoopTypes, Revise
  <2>5. app' \in {"initial", "left"}
    BY <1>7 DEF Revise, StartOf, ExpTypes, ExpTypeOK
  <2>6. ExpTypes'
    BY <1>7, <2>5, IdleTypes DEF Revise
  <2>7. Books'
    BY <1>7, <1>a DEF Revise
  <2> QED
    BY <2>4, <2>6, <2>7
<1>8. CASE Hang
  <2>1. /\ UNCHANGED expVars /\ UNCHANGED loopVars
        /\ pc \in {"start", "run", "revise"} /\ pc' = "hung"
    BY <1>8 DEF Hang
  <2>2. ExpTypes'
    BY <2>1, ExpTypesKept
  <2>3. LoopTypes'
    BY <2>1 DEF LoopTypes, loopVars
  <2>4. Books'
    BY <1>0, <2>1 DEF Books, With, loopVars
  <2> QED
    BY <2>2, <2>3, <2>4
<1> QED
  BY <1>1, <1>2, <1>3, <1>4, <1>5, <1>6, <1>7, <1>8 DEF Investigation, Next

\* Every step of the batch keeps the types of the experiment: what it runs is
\* the claim at the head of the queue.
LEMMA PipelineTypes ==
  ASSUME BatchInv, ExpTypes, LoopTypes, Books, FindingsInv, Pipeline, UNCHANGED arm
  PROVE  ExpTypes' /\ LoopTypes' /\ Books'
<1>0. arm = "pipeline" /\ UNCHANGED loopVars
  BY DEF Pipeline
<1>1. LoopTypes' /\ Books'
  BY <1>0, OthersStand
<1> SUFFICES ExpTypes'
  BY <1>1
<1>2. ASSUME UNCHANGED expVars PROVE ExpTypes'
  BY <1>2, ExpTypesKept
<1>3. CASE Batch!Inventory \/ Batch!Generate \/ Batch!Report \/ Batch!Hang
  BY <1>2, <1>3 DEF Batch!Inventory, Batch!Generate, Batch!Report, Batch!Hang, expVars,
     Batch!expVars
<1>4. CASE Batch!Take
  <2>1. queue # <<>> /\ UNCHANGED <<bugs, resets, app>>
    BY <1>4 DEF Batch!Take
  <2>2. Head(queue).claim \in Claims
    <3>1. queue \in Seq(accepted) /\ accepted \in SUBSET Batch!Raw
      BY DEF BatchInv
    <3>2. Head(queue) \in accepted
      BY <2>1, <3>1
    <3> QED
      BY <3>1, <3>2 DEF Batch!Raw
  <2>3. CASE UNCHANGED exp
    BY <1>2, <2>1, <2>3 DEF expVars
  <2>4. CASE Begin(Head(queue).claim, {})
    BY <2>1, <2>2, <2>4, BeginTypes
  <2> QED
    BY <1>4, <2>3, <2>4, OneExperiment DEF Batch!Take
<1>5. CASE Batch!RunExperiment
  <2>1. FirstRun \/ Replay
    BY <1>5, OneExperiment DEF Batch!RunExperiment
  <2> QED
    BY <2>1, RunTypes DEF FindingsInv
<1>6. CASE Batch!Throw
  <2>1. ExpThrows
    BY <1>6, OneExperiment DEF Batch!Throw
  <2> QED
    BY <2>1, IdleTypes DEF ExpThrows, ExpTypes, ExpTypeOK
<1>7. CASE Batch!Keep
  BY <1>7, IdleTypes DEF Batch!Keep, Batch!Idle, Idle, ExpTypes, ExpTypeOK
<1> QED
  BY <1>3, <1>4, <1>5, <1>6, <1>7 DEF Pipeline, Batch!Next

-----------------------------------------------------------------------------
(* The agent's counts.                                                      *)

\* A turn is counted once, as a valid call, an invalid one or none; it is an
\* error or an action only if it is valid, and never both.
LEMMA TurnCounted ==
  ASSUME AgentInv, NEW c \in Agent!Calls,
         NEW s \in {"ok", "tool_error", "invalid_tool_call", "no_tool_call"},
         Agent!Take(c, s)
  PROVE  AgentInv'
<1>1. /\ metrics \in Counts /\ turn = metrics.turns
      /\ claims \subseteq 1 .. metrics.turns
      /\ metrics.turns = metrics.valid + metrics.invalid + metrics.none
      /\ metrics.errors + metrics.actions <= metrics.valid
  BY DEF AgentInv, Agent!MetricsAddUp
<1>2. /\ metrics.turns \in Nat /\ metrics.valid \in Nat /\ metrics.invalid \in Nat
      /\ metrics.none \in Nat /\ metrics.errors \in Nat /\ metrics.actions \in Nat
  BY <1>1 DEF Counts
<1>3. /\ metrics'.turns = metrics.turns + 1
      /\ metrics'.valid = IF s \in {"ok", "tool_error"} THEN metrics.valid + 1 ELSE metrics.valid
      /\ metrics'.invalid = IF s = "invalid_tool_call" THEN metrics.invalid + 1
                                                        ELSE metrics.invalid
      /\ metrics'.none = IF s = "no_tool_call" THEN metrics.none + 1 ELSE metrics.none
      /\ metrics'.errors = IF s = "tool_error" THEN metrics.errors + 1 ELSE metrics.errors
      /\ metrics'.actions = IF s = "ok" /\ c.name \in Agent!Acts THEN metrics.actions + 1
                                                                  ELSE metrics.actions
  BY <1>1 DEF Agent!Take, Agent!Counted, Counts
<1>4. metrics' \in Counts
  <2>1. metrics = [turns |-> metrics.turns, valid |-> metrics.valid,
                   invalid |-> metrics.invalid, none |-> metrics.none,
                   errors |-> metrics.errors, actions |-> metrics.actions]
    BY <1>1 DEF Counts
  <2>2. metrics' = [turns |-> metrics'.turns, valid |-> metrics'.valid,
                    invalid |-> metrics'.invalid, none |-> metrics'.none,
                    errors |-> metrics'.errors, actions |-> metrics'.actions]
    BY <2>1 DEF Agent!Take, Agent!Counted
  <2>3. /\ metrics'.turns \in Nat /\ metrics'.valid \in Nat /\ metrics'.invalid \in Nat
        /\ metrics'.none \in Nat /\ metrics'.errors \in Nat /\ metrics'.actions \in Nat
    BY <1>2, <1>3
  <2> QED
    BY <2>2, <2>3 DEF Counts
<1>5. turn' = turn + 1 /\ claims' \subseteq claims \cup {turn + 1}
  BY DEF Agent!Take
<1>6. claims' \subseteq 1 .. metrics'.turns
  BY <1>1, <1>2, <1>3, <1>5
<1>7. /\ metrics'.turns = metrics'.valid + metrics'.invalid + metrics'.none
      /\ metrics'.errors + metrics'.actions <= metrics'.valid
  <2>1. CASE s = "ok"
    BY <1>1, <1>2, <1>3, <2>1
  <2>2. CASE s = "tool_error"
    BY <1>1, <1>2, <1>3, <2>2
  <2>3. CASE s = "invalid_tool_call"
    BY <1>1, <1>2, <1>3, <2>3
  <2>4. CASE s = "no_tool_call"
    BY <1>1, <1>2, <1>3, <2>4
  <2> QED
    BY <2>1, <2>2, <2>3, <2>4
<1> QED
  BY <1>1, <1>3, <1>4, <1>5, <1>6, <1>7 DEF AgentInv, Agent!MetricsAddUp

LEMMA AgentInit0 == MCInit => AgentInv
<1> SUFFICES ASSUME MCInit PROVE AgentInv
  OBVIOUS
<1>1. turn = 0 /\ claims = {} /\ metrics = Agent!Count0
  BY DEF MCInit, Agent!AgentInit
<1> QED
  BY <1>1 DEF AgentInv, Agent!MetricsAddUp, Agent!Count0, Counts

LEMMA AgentStep ==
  ASSUME AgentInv, BaselineArm
  PROVE  AgentInv'
<1>1. ASSUME UNCHANGED agentVars PROVE AgentInv'
  BY <1>1 DEF agentVars, AgentInv, Agent!MetricsAddUp
<1>2. CASE Agent!Open \/ Agent!Enough \/ Agent!Hang
  BY <1>1, <1>2 DEF Agent!Open, Agent!Enough, Agent!Hang, agentVars, Agent!agentVars
<1>3. CASE Agent!Turn
  <2>1. CASE UNCHANGED Agent!agentVars
    BY <1>1, <2>1 DEF agentVars, Agent!agentVars
  <2>2. ASSUME NEW c \in Agent!Calls,
               NEW s \in IF Agent!StatusOfCall(c) = "valid" THEN {"ok", "tool_error"}
                                                            ELSE {Agent!StatusOfCall(c)},
               Agent!Take(c, s)
        PROVE  AgentInv'
    <3>1. s \in {"ok", "tool_error", "invalid_tool_call", "no_tool_call"}
      BY DEF Agent!StatusOfCall
    <3> QED
      BY <2>2, <3>1, TurnCounted
  <2> QED
    BY <1>3, <2>1, <2>2 DEF Agent!Turn
<1> QED
  BY <1>2, <1>3 DEF BaselineArm, Agent!Next

-----------------------------------------------------------------------------
(* The reports.                                                             *)

LEMMA ReportInit == MCInit => ReportInv
<1> SUFFICES ASSUME MCInit PROVE ReportInv
  OBVIOUS
<1>1. ExpInit /\ LoopInit /\ pc = "start"
  BY DEF MCInit, Init
<1>2. ExpTypes
  BY <1>1 DEF ExpInit, ExpTypes, ExpTypeOK, Idle
<1>3. LoopTypes
  BY <1>1, InvestigateAssumption DEF LoopInit, LoopTypes
<1>4. Books
  <2>1. results = <<>> /\ proposed = 0 /\ duplicates = 0 /\ DOMAIN results = {} /\ Len(results) = 0
    BY <1>1 DEF LoopInit
  <2>2. \A status : With(status) = 0
    <3> TAKE status
    <3>1. {i \in DOMAIN results : results[i].status = status} = {}
      BY <2>1
    <3> QED
      BY <3>1, FS_EmptySet DEF With
  <2> QED
    BY <1>1, <2>1, <2>2 DEF Books
<1> QED
  BY <1>2, <1>3, <1>4, BatchInit0, AgentInit0 DEF ReportInv

LEMMA ReportStep == FindingsInv /\ ReportInv /\ [MCNext]_mcVars => ReportInv'
<1> SUFFICES ASSUME FindingsInv, ReportInv, [MCNext]_mcVars PROVE ReportInv'
  OBVIOUS
<1>0. BatchInv /\ ExpTypes /\ LoopTypes /\ Books /\ AgentInv
  BY DEF ReportInv
<1>2. CASE UNCHANGED mcVars
  <2>1. UNCHANGED <<expVars, loopVars, agentVars, arm, pc>>
    BY <1>2 DEF mcVars, vars
  <2>0. BatchInv'
    BY <1>0, <1>2 DEF mcVars, vars, batchVars, BatchInv, Batch!Done, In, Once, Distinct
  <2>2. ExpTypes'
    BY <1>0, <2>1, ExpTypesKept
  <2>3. LoopTypes'
    BY <1>0, <2>1 DEF LoopTypes, loopVars
  <2>4. Books'
    BY <1>0, <2>1 DEF Books, With, loopVars
  <2>5. AgentInv'
    BY <1>0, <2>1 DEF AgentInv, Agent!MetricsAddUp, agentVars
  <2> QED
    BY <2>0, <2>2, <2>3, <2>4, <2>5 DEF ReportInv
<1>1. ASSUME MCNext PROVE BatchInv'
  BY <1>0, <1>1, BatchStep
<1>3. CASE MCNext /\ Pipeline /\ UNCHANGED arm
  <2>1. AgentInv'
    BY <1>0, <1>3 DEF Pipeline, AgentInv, Agent!MetricsAddUp, agentVars
  <2> QED
    BY <1>0, <1>1, <1>3, <2>1, PipelineTypes DEF ReportInv
<1>4. CASE MCNext /\ Investigation /\ UNCHANGED arm
  <2>1. AgentInv'
    BY <1>0, <1>4 DEF Investigation, AgentInv, Agent!MetricsAddUp, agentVars
  <2> QED
    BY <1>0, <1>1, <1>4, <2>1, InvestigationTypes DEF ReportInv
<1>5. CASE MCNext /\ BaselineArm /\ UNCHANGED arm
  <2>1. arm = "baseline" /\ UNCHANGED <<loopVars, expVars>>
    BY <1>5 DEF BaselineArm
  <2>2. ExpTypes' /\ LoopTypes' /\ Books'
    BY <1>0, <1>5, <2>1, ExpTypesKept, OthersStand
  <2> QED
    BY <1>0, <1>1, <1>5, <2>2, AgentStep DEF ReportInv
<1> QED
  BY <1>2, <1>3, <1>4, <1>5 DEF MCNext

\* At the end the books balance: only the investigation keeps any.
LEMMA BooksSay ==
  ASSUME Books, FindingsInv
  PROVE  BooksBalance
<1>1. CASE arm = "investigate"
  BY <1>1 DEF Books, BooksBalance, FindingsInv
<1>2. CASE arm # "investigate"
  <2>1. results = <<>> /\ proposed = 0 /\ duplicates = 0 /\ Len(results) = 0
    BY <1>2 DEF Books
  <2> QED
    BY <2>1 DEF Books, BooksBalance
<1> QED
  BY <1>1, <1>2

\* Whatever the model answers and the caps are: every hypothesis a batch accepted
\* is executed or named as not run, once, and none gives way but to one of the
\* same property and target that was executed and is worth no less; every proposal of the investigation was a duplicate or has
\* one result, counted once; and the agent's turns are the calls it counted
\* (core/hypothesis/index.ts, investigate.ts and baseline.ts).
THEOREM ReportsAddUpHolds == MCSpec => []ReportsAddUp
<1>1. LedgerInv /\ FindingsInv /\ ReportInv => ReportsAddUp
  <2> SUFFICES ASSUME LedgerInv, FindingsInv, ReportInv PROVE ReportsAddUp
    OBVIOUS
  <2>1. TypeOK
    BY DEF LedgerInv, ReportInv, ExpTypes, LoopTypes, TypeOK
  <2>2. BooksBalance
    BY BooksSay DEF ReportInv
  <2>3. Batch!NothingDropped
    BY BatchInvSays DEF ReportInv
  <2> QED
    BY <2>1, <2>2, <2>3 DEF ReportsAddUp, ReportInv, AgentInv
<1> QED
  BY LedgerInit0, LedgerStep, FindingsInit, FindingsStep, ReportInit, ReportStep, <1>1,
     PTL DEF MCSpec, mcVars

=============================================================================
