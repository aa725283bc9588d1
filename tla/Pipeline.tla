------------------------------- MODULE Pipeline -------------------------------
(***************************************************************************)
(* One run() of the orchestrator (src/src/core/orchestrator.ts): what the  *)
(* swarm detected is reproduced, finding by finding, over one replay       *)
(* engine; what reproduces in own code is healed; a healed finding earns a *)
(* regression test (prove.ts); and the run log (events.ts) tells all of it.*)
(*                                                                         *)
(* Detection is its result (module Swarm), a heal is its contract          *)
(* (HealContract), uploads are in module Ingest.                           *)
(***************************************************************************)
EXTENDS Repro

CONSTANTS
  MaxSpend,   \* the session budget, where there is one
  HealCalls   \* paid tiers of one heal

ASSUME PipelineAssumption ==
  Len(Oracles) \in Nat /\ MaxSpend \in Nat /\ HealCalls \in Nat

VARIABLES
  options,    \* --repro, --heal, a session budget, a key for a model
  pc,
  found,      \* the findings of the run
  todo,       \* the findings the loop still has before it
  heal,       \* status of f.heal
  remaining,  \* options.budget.remaining
  tests,      \* findings with a regression test
  log,        \* .aztrx/events.jsonl
  paid        \* observation only: completions paid for in this run

runVars == <<options, pc, found, todo, heal, remaining, tests, log, paid>>
vars    == <<reproVars, runVars>>

Options == [repro : BOOLEAN, heal : BOOLEAN, capped : BOOLEAN, model : BOOLEAN]
HealStatuses == {"healed", "unfixed", "skipped", "no-llm", "budget-exhausted"}

TypeOK ==
  /\ ReproTypeOK
  /\ options \in Options
  /\ pc \in {"detect", "repro", "heal", "prove", "report", "returned", "thrown", "hung"}
  /\ found \subseteq Findings /\ todo \subseteq found /\ tests \subseteq found
  /\ heal \in [Findings -> HealStatuses \cup {"none"}]
  /\ remaining \in 0 .. MaxSpend /\ paid \in Nat
  /\ target # 0 => pc \in {"repro", "hung"} /\ target \in found

Init ==
  /\ ReproInit
  /\ options \in Options
  /\ pc = "detect" /\ found = {} /\ todo = {}
  /\ heal = [f \in Findings |-> "none"] /\ remaining = MaxSpend
  /\ tests = {} /\ log = <<>> /\ paid = 0

\* The findings of S as a loop over the report meets them.
InOrder(S) ==
  CHOOSE seq \in [1 .. Cardinality(S) -> S] :
    \A i, j \in DOMAIN seq : i < j => seq[i] < seq[j]

Event(type, f, what) == [type |-> type, of |-> f, what |-> what]
Events(type, seq, what) ==
  [k \in DOMAIN seq |-> Event(type, seq[k], what[seq[k]])]

Started  == <<Event("run_start", 0, "")>>
Seen(seq) == Events("finding", seq, [f \in Findings |-> ""])

-----------------------------------------------------------------------------
(* Detection and reproduction.                                              *)

\* The log begins anew, and gets every finding.
Detect ==
  /\ pc = "detect"
  /\ found' \in SUBSET Findings
  /\ log' = Started \o Seen(InOrder(found'))
  /\ pc' = IF options.repro THEN "repro" ELSE "heal"
  /\ todo' = IF options.repro THEN found' ELSE {}
  /\ UNCHANGED <<reproVars, options, heal, remaining, tests, paid>>

Tell(f, type, what) == log' = Append(log, Event(type, f, what))

\* The loops go through the findings in the order of the report.
IsNext(f) == f \in todo /\ \A g \in todo : f <= g

\* The next crash or error: replayed, unless it comes from a static scan.
NextRepro(f) ==
  /\ pc = "repro" /\ IsNext(f) /\ ~oracle[f].static
  /\ StartRepro(f)
  /\ todo' = todo \ {f}
  /\ UNCHANGED <<options, pc, found, heal, remaining, tests, log, paid>>

\* A leaked secret is proven by the scan that found it.
StaticRepro(f) ==
  /\ pc = "repro" /\ stage = "idle" /\ IsNext(f) /\ oracle[f].static
  /\ \E r \in {Failed, [verdict |-> "deterministic", steps |-> History(f),
                         runs |-> 1]} :
       repro' = [repro EXCEPT ![f] = r] /\ Tell(f, "repro", r.verdict)
  /\ todo' = todo \ {f}
  /\ UNCHANGED <<oracle, searchVars, browser, spent, options, pc, found, heal,
                 remaining, tests, paid>>

ReproStep ==
  /\ pc = "repro"
  /\ (\E seen \in BOOLEAN : Replay(seen)) \/ Retry \/ WriteSpec
  /\ UNCHANGED runVars

ReproConcluded ==
  /\ pc = "repro"
  /\ Conclude
  /\ Tell(target, "repro", repro'[target].verdict)
  /\ UNCHANGED <<options, pc, found, todo, heal, remaining, tests, paid>>

\* Variant: a reproduction that fails is not told of.
ReproFailedQuietly ==
  /\ pc = "repro"
  /\ GiveUp
  /\ UNCHANGED runVars

\* One reproduction that fails does not abort the run.
ReproFailed ==
  /\ pc = "repro"
  /\ GiveUp
  /\ Tell(target, "repro", "unreliable")
  /\ UNCHANGED <<options, pc, found, todo, heal, remaining, tests, paid>>

\* Variant: the engine is closed after the loop only.
ReproThrowsOpen ==
  /\ pc = "repro"
  /\ GiveUp
  /\ pc' = "thrown"
  /\ UNCHANGED <<options, found, todo, heal, remaining, tests, log, paid>>

\* The failure cannot be logged either: the run rejects, past the finally.
ReproThrows ==
  /\ pc = "repro" /\ target # 0
  /\ (Replaying /\ attempt = 1) \/ stage = "spec" \/ Measured
  /\ repro' = [repro EXCEPT ![target] = Failed]
  /\ stage' = "idle" /\ target' = 0 /\ current' = <<>>
  /\ browser' = FALSE
  /\ pc' = "thrown"
  /\ UNCHANGED <<oracle, at, budget, runs, hits, attempt, spent, options, found,
                 todo, heal, remaining, tests, log, paid>>

-----------------------------------------------------------------------------
(* Healing and the end of the run.                                          *)

Reproducible(f) == repro[f].verdict \in {"deterministic", "flaky"}

HealTargets ==
  IF options.heal THEN {f \in found : Reproducible(f) /\ oracle[f].own} ELSE {}

\* engine.close(), in the finally; then the targets of the heal.
CloseEngine ==
  /\ pc = "repro" /\ todo = {} /\ stage = "idle"
  /\ browser' = FALSE
  /\ pc' = "heal"
  /\ todo' = HealTargets
  /\ UNCHANGED <<oracle, searchVars, repro, spent, options, found, heal,
                 remaining, tests, log, paid>>

\* What heal() promises: HealContract in one step.
HealOutcome(status, n) ==
  /\ options.capped => n <= remaining
  /\ n > 0 => options.model
  /\ status = "no-llm" => n = 0
  /\ status = "budget-exhausted" =>
       options.capped /\ options.model /\ n < HealCalls /\ remaining = n

\* One heal, with the payments it makes.  Whatever it throws is "skipped".
HealOne(f, status, n) ==
  /\ pc = "heal" /\ IsNext(f)
  /\ HealOutcome(status, n)
  /\ heal' = [heal EXCEPT ![f] = status]
  /\ Tell(f, "heal", status)
  /\ remaining' = IF options.capped THEN remaining - n ELSE remaining
  /\ paid' = paid + n
  /\ IF status = "healed" THEN pc' = "prove" /\ UNCHANGED todo
     ELSE todo' = todo \ {f} /\ UNCHANGED pc
  /\ UNCHANGED <<reproVars, options, found, tests>>

\* proveItFixed asks the model once, whatever the budget, and may not get, or
\* not be able to write, a test.
Prove(f) ==
  /\ pc = "prove" /\ IsNext(f)
  /\ \/ options.model /\ paid' = paid + 1 /\ tests' \in {tests, tests \cup {f}}
     \/ UNCHANGED <<paid, tests>>       \* the call fails
  /\ todo' = todo \ {f}
  /\ pc' = "heal"
  /\ UNCHANGED <<reproVars, options, found, heal, remaining, log>>

WriteReport ==
  /\ pc = "heal" /\ todo = {}
  /\ pc' = "report"
  /\ UNCHANGED <<reproVars, options, found, todo, heal, remaining, tests, log, paid>>

\* The last event; the findings are returned.
Return ==
  /\ pc = "report"
  /\ Tell(0, "run_end", "")
  /\ pc' = "returned"
  /\ UNCHANGED <<reproVars, options, found, todo, heal, remaining, tests, paid>>

\* Detection throws, the report or the log cannot be written.
RunThrows ==
  /\ pc \in {"detect", "heal", "report"}
  /\ pc' = "thrown"
  /\ UNCHANGED <<reproVars, options, found, todo, heal, remaining, tests, log, paid>>

\* A replay, and the walks and the heals around it, ask the page and wait
\* without a limit: a recorded request is sent again by a fetch in the page,
\* and a server that never answers it keeps the run for ever.
RunHangs ==
  /\ pc \in {"detect", "heal"} \/ (pc = "repro" /\ Replaying)
  /\ pc' = "hung"
  /\ UNCHANGED <<reproVars, options, found, todo, heal, remaining, tests, log, paid>>

Next ==
  \/ Detect \/ ReproStep \/ ReproConcluded \/ ReproFailed \/ ReproThrows
  \/ CloseEngine \/ WriteReport \/ Return \/ RunThrows \/ RunHangs
  \/ \E f \in Findings :
       \/ NextRepro(f) \/ StaticRepro(f) \/ Prove(f)
       \/ \E status \in HealStatuses, n \in 0 .. HealCalls : HealOne(f, status, n)

Spec == Init /\ [][Next]_vars

\* One process: what it awaits returns, throws, or hangs for good (RunHangs).
FairSpec == Spec /\ WF_vars(Next)

-----------------------------------------------------------------------------
(* Properties.                                                              *)

Reproduced == {f \in Findings : repro[f].runs > 0}

\* Cutting a history down keeps the bug: a reproduction that is shorter than
\* what was recorded still shows it, and one of them that passes as reliable
\* shows it whatever its length.
ReproShowsTheBug ==
  \A f \in Reproduced :
    /\ ~oracle[f].static
    /\ Len(repro[f].steps) < oracle[f].steps \/ Reproducible(f)
    => MayShow(f, repro[f].steps)

Without(seq, k) == SubSeq(seq, 1, k - 1) \o SubSeq(seq, k + 1, Len(seq))

\* Of a stable bug, minimize() leaves no step that could go, as long as its
\* budget lasts: whatever the order and the sizes in which chunks were cut.
NothingToCut ==
  \A f \in Reproduced \ spent :
    LET steps == repro[f].steps IN
    oracle[f].stable /\ ~oracle[f].static /\ Len(steps) > 1
    => \A k \in DOMAIN steps : ~MayShow(f, Without(steps, k))

\* A bug that shows every time is never called flaky or unreliable, whatever
\* was cut and whichever replays had to be made twice; only a reproduction
\* that could not be carried out is.
StableIsDeterministic ==
  \A f \in Reproduced :
    oracle[f].stable /\ MayShow(f, History(f)) => repro[f].verdict = "deterministic"

\* No browser of the engine is left open while heals boot theirs, or behind a
\* run, on whichever path the reproductions ended; one that hangs has not.
EngineIsClosed == pc \notin {"repro", "hung"} => ~browser

\* What the log has to tell up to now.
ReproTold == {f \in found : repro[f].verdict # "none"}
HealTold  == {f \in found : heal[f] # "none"}

Story ==
  Started \o Seen(InOrder(found))
  \o Events("repro", InOrder(ReproTold), [f \in Findings |-> repro[f].verdict])
  \o Events("heal", InOrder(HealTold), heal)

\* The log of a run that returned is the whole story in order: each finding,
\* each reproduction and each heal once, with the outcome the report has.
LogTellsTheRun ==
  pc = "returned" => log = Append(Story, Event("run_end", 0, ""))

\* What a run says of a bug in its verdict and its steps is so.
VerdictsAreRight ==
  TypeOK /\ ReproShowsTheBug /\ NothingToCut /\ StableIsDeterministic

\* No run goes round for ever: the search for a minimal history, its retries
\* and the loops over the findings come to an end however often a bug hides,
\* or stop in a replay, a walk or a heal that never returns.
RunComesToEnd == <>(pc \in {"returned", "thrown", "hung"})

=============================================================================
