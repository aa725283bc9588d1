---------------------------- MODULE PipelineProofs ----------------------------
(***************************************************************************)
(* Theorems about Pipeline, for any findings, any oracles and any budget of *)
(* replays: the browser of the replay engine never outlives the            *)
(* reproductions, a reproduction that is reported shows its bug, and what  *)
(* is said of a stable bug is so: its history is minimal, its verdict      *)
(* deterministic; and the log of a run that returned tells all of it.      *)
(***************************************************************************)
EXTENDS Pipeline, FiniteSetTheorems, TLAPS

(* EngineIsClosed is inductive as it stands.                                *)

LEMMA EngineStep == EngineIsClosed /\ [Next]_vars => EngineIsClosed'
<1> SUFFICES ASSUME EngineIsClosed, [Next]_vars PROVE EngineIsClosed'
  OBVIOUS
<1> USE DEF EngineIsClosed, reproVars, runVars, searchVars
<1>1. CASE Detect
  BY <1>1 DEF Detect
<1>2. CASE ReproStep
  BY <1>2 DEF ReproStep
<1>3. CASE ReproConcluded
  BY <1>3 DEF ReproConcluded
<1>4. CASE ReproFailed
  BY <1>4 DEF ReproFailed
<1>5. CASE ReproThrows
  BY <1>5 DEF ReproThrows
<1>6. CASE CloseEngine
  BY <1>6 DEF CloseEngine
<1>7. CASE WriteReport \/ Return \/ RunThrows \/ RunHangs
  BY <1>7 DEF WriteReport, Return, RunThrows, RunHangs
<1>8. ASSUME NEW f \in Findings, NextRepro(f) \/ StaticRepro(f) \/ Prove(f)
      PROVE  EngineIsClosed'
  BY <1>8 DEF NextRepro, StaticRepro, Prove
<1>9. ASSUME NEW f \in Findings, NEW status \in HealStatuses,
             NEW n \in 0 .. HealCalls, HealOne(f, status, n)
      PROVE  EngineIsClosed'
  BY <1>9 DEF HealOne
<1>10. CASE UNCHANGED vars
  BY <1>10 DEF vars
<1> QED
  BY <1>1, <1>2, <1>3, <1>4, <1>5, <1>6, <1>7, <1>8, <1>9, <1>10 DEF Next

\* The browser that the replays share is closed on every path out of the
\* reproductions: the finally of run(), also past a handler that throws.
THEOREM EngineIsClosedHolds == Spec => []EngineIsClosed
<1>1. Init => EngineIsClosed
  BY DEF Init, ReproInit, EngineIsClosed
<1> QED
  BY <1>1, EngineStep, PTL DEF Spec

-----------------------------------------------------------------------------
(* What the search and the measurement know while they run: the steps that *)
(* are left are the whole history or have been seen to fail, and a replay  *)
(* that was counted has shown the bug with them.                           *)

SearchInv ==
  /\ stage \in Stages /\ runs \in Nat /\ hits \in Nat
  /\ \A f \in Findings : oracle[f].steps \in Nat
  /\ stage # "idle" =>
       /\ target \in Findings
       /\ Len(current) < oracle[target].steps => MayShow(target, current)
  /\ stage = "validate" /\ hits > 0 => MayShow(target, current)
  /\ stage \notin {"idle", "validate"} => hits = 0

ShowsInv == DOMAIN repro = Findings /\ SearchInv /\ ReproShowsTheBug

\* A replay leaves the reports alone, and what it cuts off was not needed.
LEMMA ReplayStep ==
  ASSUME SearchInv, NEW seen \in BOOLEAN, Replay(seen)
  PROVE  SearchInv'
<1> USE DEF SearchInv, Replay, MayShow, Stages
<1>1. CASE AfterSanity(seen)
  BY <1>1 DEF AfterSanity, EndSearch
<1>2. CASE AfterCut(seen)
  <2>1. CASE seen
    <3>1. current' = Complement /\ MayShow(target, Complement)
      BY <1>2, <2>1 DEF AfterCut, Keep, Asked
    <3> QED
      BY <1>2, <3>1 DEF AfterCut, EndSearch
  <2>2. CASE ~seen
    <3>1. current' = current
      BY <1>2, <2>2 DEF AfterCut, Keep
    <3> QED
      BY <1>2, <3>1 DEF AfterCut, EndSearch
  <2> QED
    BY <2>1, <2>2
<1>3. CASE AfterRun(seen)
  <2>1. CASE seen
    <3>1. MayShow(target, current)
      BY <1>3, <2>1 DEF AfterRun, Asked
    <3> QED
      BY <1>3, <3>1 DEF AfterRun
  <2>2. CASE ~seen
    BY <1>3, <2>2 DEF AfterRun
  <2> QED
    BY <2>1, <2>2
<1> QED
  BY <1>1, <1>2, <1>3

\* A reproduction starts from the whole history.
LEMMA StartStep ==
  ASSUME SearchInv, NEW f \in Findings, StartRepro(f)
  PROVE  SearchInv'
<1>1. Len(History(f)) = oracle[f].steps
  BY DEF History, SearchInv
<1> QED
  BY <1>1 DEF StartRepro, SearchInv, Stages

\* What is reported was measured: at least one replay of a verdict that
\* counts as reproducible has shown the bug.
LEMMA ConcludeStep ==
  ASSUME ShowsInv, Conclude
  PROVE  ShowsInv'
<1> USE DEF ShowsInv, SearchInv
<1>1. target \in Findings /\ runs = ReproRuns /\ ReproRuns \in Nat \ {0}
  BY ReproAssumption DEF Conclude, Measured
<1>2. Verdict \in {"deterministic", "flaky"} => MayShow(target, current)
  BY <1>1 DEF Verdict, Conclude, Measured
<1>3. ASSUME NEW f \in Findings, f # target PROVE repro'[f] = repro[f]
  BY <1>3 DEF Conclude
<1>4. repro'[target] = [verdict |-> Verdict, steps |-> current, runs |-> runs]
  BY <1>1 DEF Conclude
<1>5. ReproShowsTheBug'
  <2> SUFFICES ASSUME NEW f \in Findings,
                      repro'[f].runs > 0, ~oracle'[f].static,
                      Len(repro'[f].steps) < oracle'[f].steps \/ Reproducible(f)'
               PROVE  MayShow(f, repro[f].steps)'
    BY DEF ReproShowsTheBug, Reproduced
  <2> USE DEF MayShow, Reproducible
  <2>1. oracle' = oracle
    BY DEF Conclude
  <2>2. CASE f = target
    BY <1>1, <1>2, <1>4, <2>1, <2>2 DEF Conclude, Measured
  <2>3. CASE f # target
    BY <1>3, <2>1, <2>3 DEF ReproShowsTheBug, Reproduced
  <2> QED
    BY <2>2, <2>3
<1>6. DOMAIN repro' = Findings /\ SearchInv'
  BY DEF Conclude, Stages
<1> QED
  BY <1>5, <1>6

\* A reproduction that failed reports nothing that was replayed.
LEMMA FailStep ==
  ASSUME ShowsInv, NEW g \in Findings, UNCHANGED oracle,
         NEW r, repro' = [repro EXCEPT ![g] = r], oracle[g].static \/ r.runs = 0
  PROVE  DOMAIN repro' = Findings /\ ReproShowsTheBug'
<1> USE DEF ShowsInv, ReproShowsTheBug, Reproduced, Reproducible, MayShow
<1>1. repro'[g] = r /\ \A f \in Findings : f # g => repro'[f] = repro[f]
  OBVIOUS
<1> QED
  BY <1>1

LEMMA GiveUpStep ==
  ASSUME ShowsInv, GiveUp
  PROVE  ShowsInv'
<1>1. target \in Findings
  BY DEF GiveUp, Replaying, Measured, ShowsInv, SearchInv
<1>2. DOMAIN repro' = Findings /\ ReproShowsTheBug'
  BY <1>1, FailStep DEF GiveUp, Failed
<1> QED
  BY <1>2 DEF ShowsInv, SearchInv, GiveUp, Stages

-----------------------------------------------------------------------------
LEMMA ShowsInit == Init => ShowsInv
<1> SUFFICES ASSUME Init PROVE ShowsInv
  OBVIOUS
<1> USE DEF Init, ReproInit
<1>1. \A f \in Findings : oracle[f].steps \in Nat
  BY ReproAssumption
<1>2. \A f \in Findings : repro[f].runs = 0
  BY DEF NoRepro
<1> QED
  BY <1>1, <1>2 DEF ShowsInv, SearchInv, Stages, ReproShowsTheBug, Reproduced

LEMMA ShowsStep == ShowsInv /\ [Next]_vars => ShowsInv'
<1> SUFFICES ASSUME ShowsInv, [Next]_vars PROVE ShowsInv'
  OBVIOUS
<1>1. ASSUME UNCHANGED <<oracle, searchVars, repro>> PROVE ShowsInv'
  BY <1>1 DEF ShowsInv, SearchInv, ReproShowsTheBug, Reproduced, Reproducible,
              MayShow, searchVars
<1>2. CASE Detect \/ CloseEngine \/ WriteReport \/ Return \/ RunThrows \/ RunHangs \/ UNCHANGED vars
  BY <1>1, <1>2 DEF Detect, CloseEngine, WriteReport, Return, RunThrows, RunHangs, vars,
                    reproVars
<1>3. CASE ReproStep
  <2>1. ASSUME SearchInv', UNCHANGED <<oracle, repro>> PROVE ShowsInv'
    BY <2>1 DEF ShowsInv, ReproShowsTheBug, Reproduced, Reproducible, MayShow
  <2>2. ASSUME NEW seen \in BOOLEAN, Replay(seen) PROVE ShowsInv'
    BY <2>1, <2>2, ReplayStep DEF ShowsInv, Replay
  <2>3. CASE Retry \/ WriteSpec
    <3>1. SearchInv'
      BY <2>3 DEF Retry, WriteSpec, ShowsInv, SearchInv, MayShow, Stages
    <3> QED
      BY <2>1, <2>3, <3>1 DEF Retry, WriteSpec
  <2> QED
    BY <1>3, <2>2, <2>3 DEF ReproStep
<1>4. CASE ReproConcluded
  BY <1>4, ConcludeStep DEF ReproConcluded
<1>5. CASE ReproFailed
  BY <1>5, GiveUpStep DEF ReproFailed
<1>6. CASE ReproThrows
  <2>1. target \in Findings
    BY <1>6 DEF ReproThrows, Replaying, Measured, ShowsInv, SearchInv
  <2>2. DOMAIN repro' = Findings /\ ReproShowsTheBug'
    BY <1>6, <2>1, FailStep DEF ReproThrows, Failed
  <2> QED
    BY <1>6, <2>2 DEF ShowsInv, SearchInv, ReproThrows, Stages
<1>7. ASSUME NEW f \in Findings PROVE NextRepro(f) => ShowsInv'
  <2> SUFFICES ASSUME NextRepro(f) PROVE ShowsInv'
    OBVIOUS
  <2>1. SearchInv'
    BY StartStep DEF NextRepro, ShowsInv
  <2> QED
    BY <2>1 DEF NextRepro, StartRepro, ShowsInv, ReproShowsTheBug, Reproduced,
                Reproducible, MayShow
<1>8. ASSUME NEW f \in Findings PROVE StaticRepro(f) => ShowsInv'
  <2> SUFFICES ASSUME StaticRepro(f) PROVE ShowsInv'
    OBVIOUS
  <2>1. DOMAIN repro' = Findings /\ ReproShowsTheBug'
    BY FailStep DEF StaticRepro
  <2>2. SearchInv'
    BY DEF StaticRepro, searchVars, ShowsInv, SearchInv, MayShow
  <2> QED
    BY <2>1, <2>2 DEF ShowsInv
<1>9. ASSUME NEW f \in Findings, NEW status, NEW n,
             Prove(f) \/ HealOne(f, status, n)
      PROVE  ShowsInv'
  BY <1>1, <1>9 DEF Prove, HealOne, reproVars
<1> QED
  BY <1>2, <1>3, <1>4, <1>5, <1>6, <1>7, <1>8, <1>9 DEF Next

\* The promise of the minimizer and of the validator, for any history and any
\* oracle, also one that is flaky or not monotone, and any number of crashes
\* of the browser: a history that was cut still shows the bug, and so does
\* each reproduction that is called deterministic or flaky.
THEOREM ReproShowsTheBugHolds == Spec => []ReproShowsTheBug
<1>1. ShowsInv => ReproShowsTheBug
  BY DEF ShowsInv
<1> QED
  BY <1>1, ShowsInit, ShowsStep, PTL DEF Spec

-----------------------------------------------------------------------------
(* What the search and the measurement know of a bug that shows every time *)
(* it may: Typed is the state of minimize() and validate(), Evidence what  *)
(* their replays have shown.                                               *)

Steps == 1 .. oracle[target].steps

Typed ==
  /\ oracle \in [Findings -> UNION {Oracles[f] : f \in Findings}]
  /\ \A f \in Findings : oracle[f] \in Oracles[f]
  /\ stage \in Stages /\ target \in Findings \cup {0}
  /\ stage = "idle" <=> target = 0
  /\ budget \in 0 .. MaxReplays
  /\ runs \in 0 .. ReproRuns /\ hits \in 0 .. runs
  /\ attempt \in 0 .. 1 /\ browser \in BOOLEAN
  /\ stage # "idle" => current \in Seq(Steps)
  /\ stage \in {"sanity", "search"} => budget > 0 /\ Len(current) > 1
  /\ stage = "sanity" => at = FirstCut
  /\ stage = "search" => at \in [n : 2 .. Len(current), i : 0 .. Len(current) - 1]

\* A bug that shows in every replay of what was recorded.
Certain(f) == oracle[f].stable /\ MayShow(f, History(f))

\* No one step of a stable bug's history could go.
Minimal(f, steps) ==
  oracle[f].stable /\ Len(steps) > 1
  => \A k \in 1 .. Len(steps) : ~MayShow(f, Without(steps, k))

\* With a chunk per step, the steps before at.i were each seen to be needed.
Evidence ==
  /\ stage = "search" /\ oracle[target].stable /\ at.n = Len(current)
     => \A k \in 1 .. at.i : ~MayShow(target, Without(current, k))
  /\ stage \in {"spec", "validate"} /\ target \notin spent => Minimal(target, current)
  /\ stage # "idle" /\ Certain(target) => MayShow(target, current)
  /\ stage = "validate" /\ Certain(target) => hits = runs
  /\ stage \notin {"idle", "validate"} => runs = 0 /\ hits = 0

Reports ==
  /\ repro \in [Findings -> [verdict : Verdicts \cup {"none"},
                             steps : Seq(Nat), runs : Nat]]
  /\ spent \subseteq Findings
  /\ NothingToCut /\ StableIsDeterministic

\* There are at least two chunks, a chunk has a step, and one only when there
\* is one chunk per step.
LEMMA ChunkSizes ==
  ASSUME Len(current) \in Nat, at.n \in 2 .. Len(current)
  PROVE  ChunkSize \in 1 .. Len(current) /\ (at.n = Len(current) => ChunkSize = 1)
<1>1. \A L \in Nat : \A n \in 2 .. L :
        (L + n - 1) \div n \in 1 .. L /\ (n = L => (L + n - 1) \div n = 1)
  BY SMTT(30)
<1> QED
  BY <1>1, Zenon DEF ChunkSize

\* What a cut leaves are steps of the history, and the cut of a single one is
\* Without it.
LEMMA Cuts ==
  ASSUME NEW S \in SUBSET Nat, current \in Seq(S),
         at \in [n : 2 .. Len(current), i : 0 .. Len(current) - 1]
  PROVE  /\ Complement \in Seq(S)
         /\ ChunkSize = 1 => Complement = Without(current, at.i + 1)
<1>1. at.i \in 0 .. Len(current) - 1 /\ Len(current) \in Nat
  OBVIOUS
<1>2. ChunkSize \in 1 .. Len(current)
  BY <1>1, ChunkSizes
<1>3. SubSeq(current, 1, at.i) \in Seq(S)
      /\ SubSeq(current, at.i + ChunkSize + 1, Len(current)) \in Seq(S)
  BY <1>2, <1>1
<1>4. Complement \in Seq(S)
  BY <1>3 DEF Complement
<1>5. ASSUME ChunkSize = 1 PROVE Complement = Without(current, at.i + 1)
  <2>1. PICK k : k = at.i + 1
    OBVIOUS
  <2>2. k - 1 = at.i /\ k + 1 = at.i + ChunkSize + 1
    BY <1>1, <1>5, <2>1
  <2>3. Complement = Without(current, k)
    BY <2>2, Zenon DEF Complement, Without
  <2> QED
    BY <2>1, <2>3, Zenon
<1> QED
  BY <1>4, <1>5

\* Where the search goes next is a chunk of the same history, or nowhere.
LEMMA NextCuts ==
  ASSUME Len(current) \in Nat, Len(current) > 1,
         at \in [n : 2 .. Len(current), i : 0 .. Len(current) - 1],
         NextCut.n # 0
  PROVE  /\ NextCut \in [n : 2 .. Len(current), i : 0 .. Len(current) - 1]
         /\ NextCut.i = 0 \/ (NextCut.n = at.n /\ NextCut.i = at.i + ChunkSize)
<1>1. ChunkSize \in 1 .. Len(current) /\ Len(current) \in Nat
  BY ChunkSizes
<1>2. CASE at.i + ChunkSize < Len(current)
  BY <1>1, <1>2 DEF NextCut
<1>3. CASE ~(at.i + ChunkSize < Len(current)) /\ at.n < Len(current)
  BY <1>1, <1>3 DEF NextCut
<1>4. CASE ~(at.i + ChunkSize < Len(current)) /\ at.n >= Len(current)
  BY <1>1, <1>4 DEF NextCut
<1> QED
  BY <1>1, <1>2, <1>3, <1>4

LEMMA Profiles ==
  ASSUME Typed, NEW f \in Findings
  PROVE  oracle[f].steps \in Nat \ {0} /\ oracle[f].stable \in BOOLEAN
BY ReproAssumption DEF Typed

\* A reproduction starts with steps that nothing was cut from.
LEMMA SearchStarts ==
  ASSUME Typed, Evidence, NEW f \in Findings, StartRepro(f)
  PROVE  Typed' /\ Evidence'
<1>1. oracle[f].steps \in Nat \ {0} /\ f # 0
  BY Profiles DEF Findings
<1>2. History(f) \in Seq(1 .. oracle[f].steps) /\ Len(History(f)) = oracle[f].steps
  BY <1>1 DEF History
<1>3. Typed'
  BY <1>1, <1>2, ReproAssumption DEF Typed, StartRepro, Stages, Steps
<1>4. Evidence'
  BY <1>1, <1>2 DEF Evidence, StartRepro, Minimal, Certain, MayShow, History
<1> QED
  BY <1>3, <1>4

\* The full history is replayed once.
LEMMA SanityReplayed ==
  ASSUME Typed, Evidence, NEW seen \in BOOLEAN, Replay(seen), AfterSanity(seen)
  PROVE  Typed' /\ Evidence'
<1> USE DEF Replay, AfterSanity, EndSearch
<1>1. target \in Findings /\ current \in Seq(Steps) /\ Steps \subseteq Nat
  BY DEF Typed, Steps
<1>2. Len(current) \in Nat /\ Len(current) > 1
  BY <1>1 DEF Typed
<1>3. Typed'
  BY <1>1, <1>2, ReproAssumption DEF Typed, Stages, Steps, FirstCut
<1>4. Evidence'
  BY <1>1, <1>2 DEF Evidence, Minimal, Certain, MayShow, History, FirstCut, Typed
<1> QED
  BY <1>3, <1>4

\* A cut that is kept still shows the bug, and the search begins anew with two
\* chunks; or nothing is left to cut.
LEMMA CutKept ==
  ASSUME Typed, Evidence, Replay(TRUE), AfterCut(TRUE)
  PROVE  Typed' /\ Evidence'
<1> USE DEF Replay, AfterCut, EndSearch, Keep
<1>1. /\ target \in Findings /\ current \in Seq(Steps) /\ Steps \subseteq Nat
      /\ at \in [n : 2 .. Len(current), i : 0 .. Len(current) - 1]
  BY DEF Typed, Steps
<1>2. current' = Complement /\ Complement \in Seq(Steps)
  BY <1>1, Cuts
<1>3. Len(Complement) \in Nat /\ Steps' = Steps
  BY <1>2 DEF Steps
<1>4. MayShow(target, Complement)
  BY DEF Asked
<1>5. CASE stage' = "search"
  <2>1. Len(current') > 1 /\ at' = FirstCut /\ budget > 1
    BY <1>2, <1>3, <1>5 DEF Typed
  <2>2. Typed'
    BY <1>1, <1>2, <1>3, <1>5, <2>1, ReproAssumption DEF Typed, Stages, FirstCut
  <2>3. Evidence'
    BY <1>1, <1>2, <1>4, <1>5, <2>1
       DEF Evidence, Certain, MayShow, History, FirstCut
  <2> QED
    BY <2>2, <2>3
<1>6. CASE stage' # "search"
  <2>1. stage' = "spec" /\ (target \in spent' \/ Len(current') < 2)
    BY <1>3, <1>6 DEF FirstCut
  <2>2. Typed'
    BY <1>1, <1>2, <1>3, <2>1, ReproAssumption DEF Typed, Stages
  <2>3. Evidence'
    BY <1>1, <1>2, <1>3, <1>4, <2>1
       DEF Evidence, Certain, Minimal, MayShow, History
  <2> QED
    BY <2>2, <2>3
<1> QED
  BY <1>5, <1>6

\* A cut that did not show a stable bug is needed; after the last chunk of one
\* step each, all of them are.
LEMMA CutRefused ==
  ASSUME Typed, Evidence, Replay(FALSE), AfterCut(FALSE)
  PROVE  Typed' /\ Evidence'
<1> USE DEF Replay, AfterCut, EndSearch, Keep
<1>1. /\ target \in Findings /\ current \in Seq(Steps) /\ Steps \subseteq Nat
      /\ at \in [n : 2 .. Len(current), i : 0 .. Len(current) - 1]
  BY DEF Typed, Steps
<1>2. Len(current) \in Nat /\ Len(current) > 1 /\ Steps' = Steps
  BY <1>1 DEF Typed, Steps
<1>3. ChunkSize \in 1 .. Len(current) /\ (at.n = Len(current) => ChunkSize = 1)
  BY <1>1, <1>2, ChunkSizes
<1>4. ASSUME oracle[target].stable, at.n = Len(current)
      PROVE  \A k \in 1 .. at.i + 1 : ~MayShow(target, Without(current, k))
  <2>1. ~MayShow(target, Without(current, at.i + 1))
    BY <1>1, <1>3, <1>4, Cuts DEF Asked, MayHide
  <2>2. \A k \in 1 .. at.i : ~MayShow(target, Without(current, k))
    BY <1>4 DEF Evidence
  <2> QED
    BY <1>1, <2>1, <2>2
<1>5. current' = current /\ oracle' = oracle /\ target' = target
  OBVIOUS
<1>6. CASE stage' = "search"
  <2>1. at' = NextCut /\ NextCut.n # 0 /\ budget > 1
    BY <1>6 DEF Typed
  <2>2. /\ at' \in [n : 2 .. Len(current), i : 0 .. Len(current) - 1]
        /\ at'.i = 0 \/ (at'.n = at.n /\ at'.i = at.i + ChunkSize)
    BY <1>1, <1>2, <2>1, NextCuts
  <2>3. Typed'
    BY <1>1, <1>2, <1>5, <1>6, <2>1, <2>2, ReproAssumption DEF Typed, Stages
  <2>4. \A k \in 1 .. at'.i :
          oracle[target].stable /\ at'.n = Len(current)
          => ~MayShow(target, Without(current, k))
    BY <1>1, <1>3, <1>4, <2>2
  <2>5. Evidence'
    BY <1>5, <1>6, <2>4 DEF Evidence, Certain, MayShow, History, Without
  <2> QED
    BY <2>3, <2>5
<1>7. CASE stage' # "search"
  <2>1. stage' = "spec" /\ (target \in spent' \/ NextCut.n = 0)
    BY <1>2, <1>7
  <2>2. Typed'
    BY <1>1, <1>2, <1>5, <2>1, ReproAssumption DEF Typed, Stages
  <2>3. NextCut.n = 0 => at.n = Len(current) /\ at.i + 1 = Len(current)
    BY <1>1, <1>2, <1>3 DEF NextCut
  <2>4. target \notin spent' => Minimal(target, current)
    BY <1>4, <2>1, <2>3 DEF Minimal
  <2>5. Evidence'
    BY <1>5, <2>1, <2>4 DEF Evidence, Certain, Minimal, MayShow, History, Without
  <2> QED
    BY <2>2, <2>5
<1> QED
  BY <1>6, <1>7

\* The measurement counts.
LEMMA RunMeasured ==
  ASSUME Typed, Evidence, NEW seen \in BOOLEAN, Replay(seen), AfterRun(seen)
  PROVE  Typed' /\ Evidence'
<1> USE DEF Replay, AfterRun, Replaying
<1>1. target \in Findings /\ runs < ReproRuns
  BY DEF Typed
<1>2. Typed'
  BY <1>1, ReproAssumption DEF Typed, Stages, Steps
<1>3. Certain(target) => seen
  BY DEF Evidence, Asked, MayHide, Certain
<1>4. Evidence'
  BY <1>1, <1>3 DEF Evidence, Minimal, Certain, MayShow, History, Without, Typed
<1> QED
  BY <1>2, <1>4

LEMMA SearchReplayed ==
  ASSUME Typed, Evidence, NEW seen \in BOOLEAN, Replay(seen)
  PROVE  Typed' /\ Evidence'
<1>1. AfterSanity(seen) \/ AfterCut(seen) \/ AfterRun(seen)
  BY DEF Replay
<1> QED
  BY <1>1, SanityReplayed, CutKept, CutRefused, RunMeasured

-----------------------------------------------------------------------------
(* The reports, and the run around them.                                   *)

RunTypes ==
  /\ options \in Options
  /\ pc \in {"detect", "repro", "heal", "prove", "report", "returned", "thrown", "hung"}
  /\ found \subseteq Findings /\ todo \subseteq found /\ tests \subseteq found
  /\ heal \in [Findings -> HealStatuses \cup {"none"}]
  /\ remaining \in 0 .. MaxSpend /\ paid \in Nat
  /\ target # 0 => pc \in {"repro", "hung"} /\ target \in found
  /\ pc = "detect" => tests = {}

RightInv == Typed /\ Evidence /\ Reports /\ RunTypes

\* Once a finding is reported, its oracle decides over the report alone.
LEMMA ReportKept ==
  ASSUME Reports, UNCHANGED <<oracle, repro>>, spent \subseteq spent',
         spent' \subseteq Findings
  PROVE  Reports'
BY DEF Reports, NothingToCut, StableIsDeterministic, Reproduced, MayShow,
       History, Without

\* What is measured is reported.
LEMMA Reported ==
  ASSUME Typed, Evidence, Reports, Conclude
  PROVE  Typed' /\ Evidence' /\ Reports'
<1> USE DEF Conclude, Measured
<1>1. /\ target \in Findings /\ runs = ReproRuns /\ ReproRuns \in Nat \ {0}
      /\ current \in Seq(Steps) /\ Steps \subseteq Nat
  BY ReproAssumption DEF Typed, Steps
<1>2. Typed' /\ Evidence'
  BY <1>1 DEF Typed, Evidence, Stages
<1>3. current \in Seq(Nat) /\ DOMAIN current = 1 .. Len(current)
  <2>1. /\ Len(current) \in Nat /\ DOMAIN current = 1 .. Len(current)
        /\ \A k \in 1 .. Len(current) : current[k] \in Nat
        /\ current = [k \in 1 .. Len(current) |-> current[k]]
    BY <1>1
  <2>2. current \in [1 .. Len(current) -> Nat]
    BY <2>1, Zenon
  <2> QED
    BY <2>1, <2>2
<1>4. Verdict \in Verdicts
  BY DEF Verdict, Verdicts
<1>5. repro' \in [Findings -> [verdict : Verdicts \cup {"none"},
                               steps : Seq(Nat), runs : Nat]]
  BY <1>1, <1>3, <1>4 DEF Reports
<1>6. /\ repro'[target] = [verdict |-> Verdict, steps |-> current, runs |-> runs]
      /\ \A f \in Findings \ {target} : repro'[f] = repro[f]
  BY <1>1 DEF Reports
<1>7. NothingToCut'
  <2>1. target \notin spent => Minimal(target, current)
    BY DEF Evidence
  <2> QED
    BY <1>1, <1>3, <1>6, <2>1 DEF Reports, NothingToCut, Minimal, Reproduced,
                                  MayShow, Without
<1>8. StableIsDeterministic'
  <2>1. Certain(target) => Verdict = "deterministic"
    BY DEF Evidence, Verdict
  <2> QED
    BY <1>1, <1>6, <2>1 DEF Reports, StableIsDeterministic, Certain, Reproduced,
                            MayShow, History
<1> QED
  BY <1>2, <1>5, <1>7, <1>8 DEF Reports

\* A report of nothing, or of a static finding, promises nothing of steps.
LEMMA ReportedUnseen ==
  ASSUME Reports, NEW g \in Findings, UNCHANGED <<oracle, spent>>,
         NEW r \in [verdict : Verdicts, steps : Seq(Nat), runs : Nat],
         repro' = [repro EXCEPT ![g] = r],
         r.runs = 0 \/ (oracle[g].static /\ r.verdict = "deterministic")
  PROVE  Reports'
<1>1. repro'[g] = r /\ \A f \in Findings \ {g} : repro'[f] = repro[f]
  BY DEF Reports
<1>2. repro' \in [Findings -> [verdict : Verdicts \cup {"none"},
                               steps : Seq(Nat), runs : Nat]]
  BY DEF Reports
<1>3. NothingToCut'
  BY <1>1 DEF Reports, NothingToCut, Reproduced, MayShow, Without
<1>4. StableIsDeterministic'
  BY <1>1 DEF Reports, StableIsDeterministic, Reproduced, MayShow, History
<1> QED
  BY <1>2, <1>3, <1>4 DEF Reports

\* A reproduction that fails, on whichever path, reports nothing.
LEMMA FailedReported ==
  ASSUME Reports, NEW g \in Findings, UNCHANGED <<oracle, spent>>,
         repro' = [repro EXCEPT ![g] = Failed]
  PROVE  Reports'
<1>1. Failed \in [verdict : Verdicts, steps : Seq(Nat), runs : Nat]
      /\ Failed.runs = 0
  BY DEF Failed, Verdicts
<1> QED
  BY <1>1, ReportedUnseen

LEMMA RightInit == Init => RightInv
<1> SUFFICES ASSUME Init PROVE RightInv
  OBVIOUS
<1>1. /\ target = 0 /\ stage = "idle" /\ budget = 0 /\ runs = 0 /\ hits = 0
      /\ attempt = 0 /\ browser = FALSE /\ spent = {}
      /\ repro = [f \in Findings |-> NoRepro]
  BY DEF Init, ReproInit
<1>2. Typed
  <2>1. /\ oracle \in [Findings -> UNION {Oracles[f] : f \in Findings}]
        /\ \A f \in Findings : oracle[f] \in Oracles[f]
    BY Zenon DEF Init, ReproInit
  <2>2. budget \in 0 .. MaxReplays /\ runs \in 0 .. ReproRuns /\ hits \in 0 .. runs
        /\ attempt \in 0 .. 1
    BY <1>1, ReproAssumption
  <2>3. stage \notin {"sanity", "search"} /\ stage \in Stages
    BY <1>1 DEF Stages
  <2> QED
    BY <1>1, <2>1, <2>2, <2>3 DEF Typed
<1>3. Evidence
  BY <1>1 DEF Evidence
<1>4. Reports
  BY <1>1 DEF Reports, NothingToCut, StableIsDeterministic, Reproduced, NoRepro
<1>5. RunTypes
  BY <1>1, PipelineAssumption DEF Init, RunTypes, HealStatuses
<1> QED
  BY <1>2, <1>3, <1>4, <1>5 DEF RightInv

\* The steps that leave the reproductions alone.
LEMMA ReproKept ==
  ASSUME Typed, Evidence, Reports, UNCHANGED <<oracle, searchVars, repro, spent>>,
         browser' \in BOOLEAN
  PROVE  Typed' /\ Evidence' /\ Reports'
<1> USE DEF searchVars
<1>1. Typed'
  BY DEF Typed, Steps
<1>2. Evidence'
  BY DEF Evidence, Minimal, Certain, MayShow, History, Without
<1>3. Reports'
  BY ReportKept DEF Reports
<1> QED
  BY <1>1, <1>2, <1>3

\* A stage that is left for idle, without the browser being opened.
LEMMA Stopped ==
  ASSUME Typed, stage' = "idle", target' = 0, current' = <<>>,
         UNCHANGED <<oracle, at, budget, runs, hits>>,
         attempt' \in 0 .. 1, browser' \in BOOLEAN
  PROVE  Typed' /\ Evidence'
<1>1. Typed'
  BY DEF Typed, Stages
<1>2. Evidence'
  BY DEF Evidence
<1> QED
  BY <1>1, <1>2

LEMMA RightStep == RightInv /\ [Next]_vars => RightInv'
<1> SUFFICES ASSUME Typed, Evidence, Reports, RunTypes, [Next]_vars
             PROVE  RightInv'
  BY DEF RightInv
<1>1. browser \in BOOLEAN /\ target \in Findings \cup {0} /\ 0 \notin Findings
      /\ (stage = "idle" <=> target = 0) /\ spent \subseteq Findings
  BY DEF Typed, Reports, Findings
<1>2. CASE Detect \/ CloseEngine \/ WriteReport \/ Return \/ RunThrows \/ RunHangs \/ UNCHANGED vars
  <2>1. Typed' /\ Evidence' /\ Reports'
    BY <1>1, <1>2, ReproKept
       DEF Detect, CloseEngine, WriteReport, Return, RunThrows, RunHangs, vars, reproVars
  <2>2. HealTargets \subseteq found
    BY DEF HealTargets
  <2>3. RunTypes'
    <3>1. CASE Detect
      BY <3>1 DEF Detect, RunTypes, reproVars, searchVars
    <3>2. CASE CloseEngine
      BY <1>1, <2>2, <3>2 DEF CloseEngine, RunTypes, searchVars
    <3>3. CASE WriteReport \/ Return \/ RunThrows \/ RunHangs
      BY <3>3 DEF WriteReport, Return, RunThrows, RunHangs, RunTypes, reproVars, searchVars
    <3>4. CASE UNCHANGED vars
      BY <3>4 DEF vars, RunTypes, runVars, reproVars, searchVars
    <3> QED
      BY <1>2, <3>1, <3>2, <3>3, <3>4
  <2> QED
    BY <2>1, <2>3 DEF RightInv
<1>3. CASE ReproStep
  <2>1. RunTypes'
    BY <1>3 DEF ReproStep, RunTypes, runVars, Replay, Retry, WriteSpec
  <2>2. ASSUME NEW seen \in BOOLEAN, Replay(seen) PROVE RightInv'
    <3>1. Typed' /\ Evidence'
      BY <2>2, SearchReplayed
    <3>2. spent \subseteq spent' /\ spent' \subseteq Findings
      BY <1>1, <2>2 DEF Replay, Replaying, AfterSanity, AfterCut, AfterRun, EndSearch
    <3>3. Reports'
      BY <2>2, <3>2, ReportKept DEF Replay
    <3> QED
      BY <2>1, <3>1, <3>3 DEF RightInv
  <2>3. CASE Retry \/ WriteSpec
    <3>1. Typed' /\ Evidence'
      <4>1. ASSUME Retry PROVE Typed'
        <5>1. Steps' = Steps /\ browser' \in BOOLEAN
          BY <4>1 DEF Retry, Steps
        <5> QED
          BY <4>1, <5>1 DEF Retry, Typed
      <4>2. ASSUME WriteSpec PROVE Typed'
        <5>1. stage = "spec" /\ stage' = "validate" /\ target # 0
          BY <1>1, <4>2 DEF WriteSpec
        <5> QED
          BY <4>2, <5>1 DEF WriteSpec, Typed, Steps, Stages
      <4>3. Evidence'
        BY <2>3 DEF Retry, WriteSpec, Evidence, Minimal, Certain, MayShow,
                    History, Without
      <4> QED
        BY <2>3, <4>1, <4>2, <4>3
    <3>2. Reports'
      BY <1>1, <2>3, ReportKept DEF Retry, WriteSpec
    <3> QED
      BY <2>1, <3>1, <3>2 DEF RightInv
  <2> QED
    BY <1>3, <2>2, <2>3 DEF ReproStep
<1>4. CASE ReproConcluded
  <2>1. RunTypes'
    BY <1>4 DEF ReproConcluded, Tell, Conclude, RunTypes
  <2> QED
    BY <1>4, <2>1, Reported DEF ReproConcluded, RightInv
<1>5. CASE ReproFailed \/ ReproThrows
  <2>1. target \in Findings
    BY <1>1, <1>5 DEF ReproFailed, ReproThrows, GiveUp, Replaying, Measured
  <2>2. attempt' \in 0 .. 1 /\ browser' \in BOOLEAN
    <3>1. attempt' \in 0 .. 1
      BY <1>5 DEF ReproFailed, ReproThrows, GiveUp, Typed
    <3>2. browser' \in BOOLEAN
      BY <1>5, Zenon DEF ReproFailed, ReproThrows, GiveUp
    <3> QED
      BY <3>1, <3>2
  <2>3. Typed' /\ Evidence'
    BY <1>5, <2>2, Stopped DEF ReproFailed, ReproThrows, GiveUp
  <2>4. Reports'
    BY <1>5, <2>1, FailedReported DEF ReproFailed, ReproThrows, GiveUp
  <2>5. RunTypes'
    BY <1>5 DEF ReproFailed, ReproThrows, GiveUp, Tell, RunTypes
  <2> QED
    BY <2>3, <2>4, <2>5 DEF RightInv
<1>6. ASSUME NEW f \in Findings PROVE NextRepro(f) => RightInv'
  <2> SUFFICES ASSUME NextRepro(f) PROVE RightInv'
    OBVIOUS
  <2>1. Typed' /\ Evidence'
    BY SearchStarts DEF NextRepro
  <2>2. Reports'
    BY <1>1, ReportKept DEF NextRepro, StartRepro
  <2>3. RunTypes'
    BY DEF NextRepro, StartRepro, IsNext, RunTypes
  <2> QED
    BY <2>1, <2>2, <2>3 DEF RightInv
<1>7. ASSUME NEW f \in Findings PROVE StaticRepro(f) => RightInv'
  <2> SUFFICES ASSUME StaticRepro(f) PROVE RightInv'
    OBVIOUS
  <2>1. PICK r \in {Failed, [verdict |-> "deterministic", steps |-> History(f),
                              runs |-> 1]} :
          repro' = [repro EXCEPT ![f] = r]
    BY DEF StaticRepro
  <2>2. History(f) \in Seq(Nat)
    BY <1>1, Profiles DEF History
  <2>3. r \in [verdict : Verdicts, steps : Seq(Nat), runs : Nat]
        /\ (r.runs = 0 \/ r.verdict = "deterministic")
    <3>1. CASE r = Failed
      BY <3>1 DEF Failed, Verdicts
    <3>2. CASE r = [verdict |-> "deterministic", steps |-> History(f), runs |-> 1]
      BY <2>2, <3>2 DEF Verdicts
    <3> QED
      BY <2>1, <3>1, <3>2
  <2>4. Reports'
    BY <2>1, <2>3, ReportedUnseen DEF StaticRepro
  <2>5. Typed' /\ Evidence'
    <3>1. Typed'
      BY DEF StaticRepro, searchVars, Typed, Steps
    <3>2. Evidence'
      BY DEF StaticRepro, searchVars, Evidence, Minimal, Certain, MayShow,
             History, Without
    <3> QED
      BY <3>1, <3>2
  <2>6. RunTypes'
    BY DEF StaticRepro, searchVars, RunTypes
  <2> QED
    BY <2>4, <2>5, <2>6 DEF RightInv
<1>8. ASSUME NEW f \in Findings PROVE Prove(f) => RightInv'
  <2> SUFFICES ASSUME Prove(f) PROVE RightInv'
    OBVIOUS
  <2>1. Typed' /\ Evidence' /\ Reports'
    BY <1>1, ReproKept DEF Prove, reproVars
  <2>2. RunTypes'
    BY DEF Prove, reproVars, searchVars, IsNext, RunTypes
  <2> QED
    BY <2>1, <2>2 DEF RightInv
<1>9. ASSUME NEW f \in Findings, NEW status \in HealStatuses, NEW n \in 0 .. HealCalls
      PROVE  HealOne(f, status, n) => RightInv'
  <2> SUFFICES ASSUME HealOne(f, status, n) PROVE RightInv'
    OBVIOUS
  <2>1. Typed' /\ Evidence' /\ Reports'
    BY <1>1, ReproKept DEF HealOne, reproVars
  <2>2. remaining' \in 0 .. MaxSpend /\ paid' \in Nat
    BY PipelineAssumption DEF HealOne, HealOutcome, RunTypes
  <2>3. RunTypes'
    BY <2>2 DEF HealOne, reproVars, searchVars, RunTypes
  <2> QED
    BY <2>1, <2>3 DEF RightInv
<1> QED
  BY <1>2, <1>3, <1>4, <1>5, <1>6, <1>7, <1>8, <1>9 DEF Next

LEMMA RightInvSays ==
  ASSUME RightInv
  PROVE  TypeOK /\ NothingToCut /\ StableIsDeterministic
<1> USE DEF RightInv
<1>1. stage # "idle" => StepsOf(current) \subseteq Steps
  BY DEF Typed, StepsOf
<1>2. /\ target # 0 => StepsOf(current) \subseteq 1 .. oracle[target].steps
      /\ stage = "search" => at.n \in 2 .. Len(current) /\ at.i < Len(current)
  BY <1>1 DEF Typed, Steps
<1>3. ReproTypeOK
  BY <1>2 DEF ReproTypeOK, Typed, Reports
<1>4. TypeOK
  BY <1>3 DEF TypeOK, RunTypes
<1> QED
  BY <1>4 DEF Reports

\* What a run says of a bug is so, for any histories, oracles, budgets and
\* numbers of runs, and any crashes of the browser: a reproduction shows its
\* bug, minimize() leaves a stable bug no step that could go, and validate()
\* calls a bug deterministic that shows every time.
THEOREM VerdictsAreRightHolds == Spec => []VerdictsAreRight
<1>1. RightInv /\ ShowsInv => VerdictsAreRight
  BY RightInvSays DEF VerdictsAreRight, ShowsInv
<1> QED
  BY <1>1, RightInit, RightStep, ShowsInit, ShowsStep, PTL DEF Spec

-----------------------------------------------------------------------------
(* The order of the run log.  The log is told one finding at a time, in the *)
(* order of the report, so what it tells is always a list in order.         *)

\* How many elements of S come before x.
Rank(S, x) == Cardinality({y \in S : y < x})

\* s lists the elements of S from the least to the greatest.
Enumerates(s, S) ==
  /\ s \in [1 .. Cardinality(S) -> S]
  /\ \A i, j \in 1 .. Cardinality(S) : i < j => s[i] < s[j]

\* A greater element comes later.
LEMMA RankGrows ==
  ASSUME NEW S \in SUBSET Nat, IsFiniteSet(S), NEW x \in S, NEW y \in S, x < y
  PROVE  Rank(S, x) < Rank(S, y)
<1> DEFINE X == {z \in S : z < x}
           Y == {z \in S : z < y}
<1>0. x \in Nat /\ y \in Nat /\ \A z \in S : z \in Nat /\ (z < x => z < y) /\ ~(x < x)
  OBVIOUS
<1>1. X \subseteq Y /\ x \in Y /\ x \notin X
  BY <1>0, Zenon
<1>2. IsFiniteSet(Y) /\ IsFiniteSet(X)
  BY FS_Subset
<1>3. Cardinality(X) <= Cardinality(Y) /\ Cardinality(X) # Cardinality(Y)
  <2>1. Cardinality(X) <= Cardinality(Y) /\ (Cardinality(Y) = Cardinality(X) => Y = X)
    BY <1>1, <1>2, FS_Subset
  <2> QED
    BY <1>1, <2>1
<1>4. Cardinality(X) \in Nat /\ Cardinality(Y) \in Nat
  BY <1>2, FS_CardinalityType
<1> QED
  BY <1>3, <1>4 DEF Rank

\* Not all of S comes before one of its elements.
LEMMA RankBound ==
  ASSUME NEW S \in SUBSET Nat, IsFiniteSet(S), NEW x \in S
  PROVE  Rank(S, x) \in 0 .. Cardinality(S) - 1
<1> DEFINE X == {z \in S : z < x}
<1>1. X \subseteq S /\ x \notin X /\ X # S
  OBVIOUS
<1>2. IsFiniteSet(X) /\ Cardinality(X) <= Cardinality(S) /\ Cardinality(X) # Cardinality(S)
  BY <1>1, FS_Subset
<1>3. Cardinality(X) \in Nat /\ Cardinality(S) \in Nat
  BY <1>2, FS_CardinalityType
<1> QED
  BY <1>2, <1>3 DEF Rank

\* A finite set of numbers can be listed in order: each element at its rank.
LEMMA SortedExists ==
  ASSUME NEW S \in SUBSET Nat, IsFiniteSet(S)
  PROVE  \E s : Enumerates(s, S)
<1> DEFINE n == Cardinality(S)
           r == [x \in S |-> Rank(S, x) + 1]
<1>1. n \in Nat /\ IsFiniteSet(1 .. n) /\ Cardinality(1 .. n) = n
  BY FS_CardinalityType, FS_Interval
<1>2. \A x \in S : r[x] \in 1 .. n
  BY <1>1, RankBound
<1>3. \A x, y \in S : x < y => r[x] < r[y]
  BY <1>1, RankBound, RankGrows
<1> HIDE DEF r, n
<1>4. r \in [S -> 1 .. n]
  BY <1>2 DEF r
<1>5. \A x, y \in S : r[x] = r[y] => x = y
  BY <1>1, <1>2, <1>3
<1>6. r \in Injection(S, 1 .. n)
  BY <1>4, <1>5 DEF Injection, IsInjective
<1>7. r \in Surjection(S, 1 .. n)
  BY <1>6, <1>1, FS_Injection DEF n
<1>8. \A k \in 1 .. n : \E x \in S : r[x] = k
  BY <1>7 DEF Surjection
<1> DEFINE s == [k \in 1 .. n |-> CHOOSE x \in S : r[x] = k]
<1>9. \A k \in 1 .. n : s[k] \in S /\ s[k] \in Nat /\ r[s[k]] = k
  BY <1>8
<1> HIDE DEF s
<1>10. ASSUME NEW i \in 1 .. n, NEW j \in 1 .. n, i < j PROVE s[i] < s[j]
  <2>1. CASE s[j] < s[i]
    <3>1. r[s[j]] < r[s[i]]
      BY <1>9, <1>3, <2>1
    <3> QED
      BY <1>9, <3>1, <1>1, <1>10
  <2>2. CASE s[j] = s[i]
    BY <1>9, <2>2, <1>10, <1>1
  <2> QED
    BY <2>1, <2>2, <1>9
<1>11. s \in [1 .. n -> S]
  BY <1>9 DEF s
<1> QED
  BY <1>10, <1>11 DEF Enumerates, n

\* In an increasing enumeration the element at a place has as many before it.
LEMMA PlaceIsRank ==
  ASSUME NEW S \in SUBSET Nat, IsFiniteSet(S), NEW s, Enumerates(s, S),
         NEW k \in 1 .. Cardinality(S)
  PROVE  Rank(S, s[k]) = k - 1
<1> DEFINE n == Cardinality(S)
           X == {y \in S : y < s[k]}
           t == [i \in 1 .. k - 1 |-> s[i]]
<1>1. n \in Nat /\ IsFiniteSet(1 .. n) /\ Cardinality(1 .. n) = n
  BY FS_CardinalityType, FS_Interval
<1>a. k \in 1 .. n /\ k - 1 \in Nat /\ k - 1 < k
  BY <1>1
<1>b. IsFiniteSet(1 .. k - 1) /\ Cardinality(1 .. k - 1) = k - 1
  BY <1>a, FS_Interval
<1>c. /\ s \in [1 .. n -> S] /\ \A i \in 1 .. n : s[i] \in Nat
      /\ \A i, j \in 1 .. n : i < j => s[i] < s[j]
  BY DEF Enumerates
<1> HIDE DEF n
<1>2. \A i, j \in 1 .. n : s[i] = s[j] => i = j
  <2> SUFFICES ASSUME NEW i \in 1 .. n, NEW j \in 1 .. n, s[i] = s[j], i # j
               PROVE  FALSE
    OBVIOUS
  <2>1. i < j \/ j < i
    BY <1>1
  <2>2. ~(s[i] < s[j]) /\ ~(s[j] < s[i])
    BY <1>c
  <2> QED
    BY <1>c, <2>1, <2>2
<1>3. s \in Injection(1 .. n, S)
  BY <1>2, <1>c DEF Injection, IsInjective
<1>4. s \in Surjection(1 .. n, S)
  BY <1>3, <1>1, FS_Injection DEF n
<1>5. \A i \in 1 .. k - 1 : s[i] \in X
  BY <1>1, <1>a, <1>c
<1>6. ASSUME NEW y \in X PROVE \E i \in 1 .. k - 1 : s[i] = y
  <2>1. PICK i \in 1 .. n : s[i] = y
    BY <1>4 DEF Surjection
  <2>2. ~(s[k] < s[i]) /\ s[i] # s[k]
    BY <2>1, <1>a, <1>c
  <2>3. i < k
    BY <2>2, <1>1, <1>a, <1>c
  <2> QED
    BY <2>1, <2>3, <1>1
<1>7. t \in Injection(1 .. k - 1, X)
  <2>1. \A i \in 1 .. k - 1 : i \in 1 .. n
    BY <1>1, <1>a
  <2> QED
    BY <1>5, <1>2, <2>1 DEF Injection, IsInjective
<1>8. t \in Surjection(1 .. k - 1, X)
  BY <1>5, <1>6 DEF Surjection
<1>9. Cardinality(X) = k - 1
  BY <1>7, <1>8, <1>b, FS_Surjection
<1> QED
  BY <1>9 DEF Rank

\* There is one such list.
LEMMA SortedUnique ==
  ASSUME NEW S \in SUBSET Nat, IsFiniteSet(S),
         NEW s, NEW t, Enumerates(s, S), Enumerates(t, S)
  PROVE  s = t
<1> DEFINE n == Cardinality(S)
<1>1. n \in Nat
  BY FS_CardinalityType
<1>2. ASSUME NEW k \in 1 .. n PROVE s[k] = t[k]
  <2>1. Rank(S, s[k]) = k - 1 /\ Rank(S, t[k]) = k - 1
    BY PlaceIsRank
  <2>2. s[k] \in S /\ t[k] \in S /\ S \subseteq Nat
    BY DEF Enumerates
  <2>3. ASSUME NEW x \in S, NEW y \in S, Rank(S, x) = Rank(S, y) PROVE ~(x < y)
    BY <2>3, RankGrows, RankBound, <1>1
  <2>4. ~(s[k] < t[k]) /\ ~(t[k] < s[k])
    BY <2>1, <2>2, <2>3, Zenon
  <2>5. s[k] \in Nat /\ t[k] \in Nat
    BY <2>2
  <2> QED
    BY <2>4, <2>5
<1>3. s \in [1 .. n -> S] /\ t \in [1 .. n -> S]
  BY DEF Enumerates
<1> HIDE DEF n
<1>4. s = [k \in 1 .. n |-> s[k]] /\ t = [k \in 1 .. n |-> t[k]]
  BY <1>3
<1>5. [k \in 1 .. n |-> s[k]] = [k \in 1 .. n |-> t[k]]
  BY <1>2
<1> QED
  BY <1>4, <1>5, Zenon

\* The loops of the run go through their findings in order.
LEMMA InOrderEnumerates ==
  ASSUME NEW S \in SUBSET Nat, IsFiniteSet(S)
  PROVE  Enumerates(InOrder(S), S)
<1>1. PICK s : Enumerates(s, S)
  BY SortedExists
<1>2. s \in [1 .. Cardinality(S) -> S] /\ \A i, j \in DOMAIN s : i < j => s[i] < s[j]
  BY <1>1 DEF Enumerates
<1>3. InOrder(S) \in [1 .. Cardinality(S) -> S]
      /\ \A i, j \in DOMAIN InOrder(S) : i < j => InOrder(S)[i] < InOrder(S)[j]
  BY <1>2 DEF InOrder
<1> QED
  BY <1>3 DEF Enumerates

\* A finding above the ones that were told is told last.
LEMMA InOrderAdds ==
  ASSUME NEW S \in SUBSET Nat, IsFiniteSet(S), NEW f \in Nat, \A g \in S : g < f
  PROVE  /\ InOrder(S) \in Seq(S)
         /\ InOrder(S \cup {f}) = Append(InOrder(S), f)
<1> DEFINE n == Cardinality(S)
           s == InOrder(S)
           T == S \cup {f}
           t == Append(s, f)
<1>1. f \notin S /\ T \in SUBSET Nat
  OBVIOUS
<1>2. n \in Nat /\ IsFiniteSet(T) /\ Cardinality(T) = n + 1
  BY <1>1, FS_CardinalityType, FS_AddElement
<1>3. Enumerates(s, S) /\ Enumerates(InOrder(T), T)
  BY <1>1, <1>2, InOrderEnumerates
<1> HIDE DEF s
<1>4. s \in Seq(S) /\ Len(s) = n
  BY <1>2, <1>3 DEF Enumerates
<1> HIDE DEF n
<1>a. s \in Seq(T) /\ f \in T /\ DOMAIN s = 1 .. n
  BY <1>2, <1>4
<1>b. t \in Seq(T) /\ Len(t) = n + 1
  BY <1>a, <1>4
<1>5. t \in [1 .. n + 1 -> T] /\ (\A i \in 1 .. n : t[i] = s[i]) /\ t[n + 1] = f
  <2>1. (\A i \in 1 .. n : t[i] = s[i]) /\ t[n + 1] = f
    BY <1>2, <1>4, <1>a
  <2> HIDE DEF t, T
  <2>2. t \in [1 .. n + 1 -> T]
    BY <1>b, <1>2
  <2> QED
    BY <2>1, <2>2
<1>6. Enumerates(t, T)
  <2>1. \A i, j \in 1 .. n : i < j => s[i] < s[j]
    BY <1>3 DEF Enumerates, n
  <2>2. \A i \in 1 .. n : s[i] < f
    <3>1. \A i \in 1 .. n : s[i] \in S
      BY <1>4, <1>a
    <3> QED
      BY <3>1
  <2> HIDE DEF t, T
  <2>3. ASSUME NEW i \in 1 .. n + 1, NEW j \in 1 .. n + 1, i < j PROVE t[i] < t[j]
    <3>1. i \in 1 .. n
      BY <1>2, <2>3
    <3>2. CASE j = n + 1
      BY <1>5, <2>2, <3>1, <3>2
    <3>3. CASE j # n + 1
      <4>1. j \in 1 .. n
        BY <1>2, <3>3
      <4> QED
        BY <1>5, <2>1, <2>3, <3>1, <4>1
    <3> QED
      BY <3>2, <3>3
  <2> QED
    BY <1>2, <1>5, <2>3 DEF Enumerates
<1> QED
  BY <1>1, <1>2, <1>3, <1>4, <1>6, SortedUnique DEF s

\* The findings of a run can be listed.
LEMMA FindingsAreFinite ==
  ASSUME NEW S \in SUBSET Findings
  PROVE  S \in SUBSET Nat /\ IsFiniteSet(S)
<1>1. IsFiniteSet(Findings) /\ Findings \subseteq Nat
  BY PipelineAssumption, FS_Interval DEF Findings
<1> QED
  BY <1>1, FS_Subset

\* The event of a finding above the ones that were told comes last.
LEMMA EventAdded ==
  ASSUME NEW S \in SUBSET Findings, NEW f \in Findings, \A g \in S : g < f,
         NEW type, NEW what, NEW what2,
         \A g \in S : what2[g] = what[g]
  PROVE  Events(type, InOrder(S \cup {f}), what2)
         = Append(Events(type, InOrder(S), what), Event(type, f, what2[f]))
<1> DEFINE s == InOrder(S)
           n == Len(s)
<1>1. S \in SUBSET Nat /\ IsFiniteSet(S) /\ f \in Nat
  BY FindingsAreFinite, PipelineAssumption DEF Findings
<1>2. s \in Seq(S) /\ InOrder(S \cup {f}) = Append(s, f)
  BY <1>1, InOrderAdds
<1> HIDE DEF s
<1>3. n \in Nat /\ DOMAIN s = 1 .. n /\ \A k \in 1 .. n : s[k] \in S
  BY <1>2
<1> DEFINE t == Append(s, f)
           a == Events(type, t, what2)
           b == Events(type, s, what)
           e == Event(type, f, what2[f])
<1>4. DOMAIN t = 1 .. n + 1 /\ t[n + 1] = f /\ \A k \in 1 .. n : t[k] = s[k]
  BY <1>2, <1>3
<1> HIDE DEF t
<1>5. a = [k \in 1 .. n + 1 |-> IF k = n + 1 THEN e ELSE Event(type, s[k], what[s[k]])]
  <2>1. \A k \in 1 .. n + 1 :
          Event(type, t[k], what2[t[k]])
          = IF k = n + 1 THEN e ELSE Event(type, s[k], what[s[k]])
    <3> TAKE k \in 1 .. n + 1
    <3>1. CASE k = n + 1
      BY <1>4, <3>1
    <3>2. CASE k # n + 1
      <4>1. k \in 1 .. n
        BY <1>3, <3>2
      <4> QED
        BY <1>3, <1>4, <3>2, <4>1
    <3> QED
      BY <3>1, <3>2
  <2> QED
    BY <1>4, <2>1 DEF Events
<1>6. b = [k \in 1 .. n |-> Event(type, s[k], what[s[k]])]
  BY <1>3 DEF Events
<1>7. Append(b, e) = [k \in 1 .. n + 1 |-> IF k = n + 1 THEN e ELSE Event(type, s[k], what[s[k]])]
  <2> DEFINE ev == [k \in 1 .. n |-> Event(type, s[k], what[s[k]])]
  <2>1. ev \in Seq({ev[k] : k \in 1 .. n}) /\ Len(ev) = n
    BY <1>3
  <2>2. Append(ev, e) = [k \in 1 .. n + 1 |-> IF k = n + 1 THEN e ELSE ev[k]]
    BY <2>1, <1>3
  <2>3. \A k \in 1 .. n + 1 : k # n + 1 => k \in 1 .. n
    BY <1>3
  <2> QED
    BY <1>6, <2>2, <2>3
<1>8. a = Append(b, e)
  BY <1>5, <1>7, Zenon
<1> QED
  BY <1>2, <1>8, Zenon DEF s, t

\* In every phase the log tells what was done up to now, and what is still
\* before a loop comes after it: in a reproduction the finding in work, while
\* a regression test is written the finding that was healed last.
LogInv ==
  /\ pc = "detect" =>
       \A f \in Findings : repro[f].verdict = "none" /\ heal[f] = "none"
  /\ pc \in {"repro", "heal", "prove", "report"} => log = Story
  /\ LogTellsTheRun
  /\ pc = "repro" =>
       /\ HealTold = {}
       /\ \A f \in ReproTold, g \in todo : f < g
       /\ target # 0 => /\ \A f \in ReproTold : f < target
                        /\ \A g \in todo : target < g
  /\ pc = "heal"  => \A f \in HealTold, g \in todo : f < g
  /\ pc = "prove" => \A f \in HealTold, g \in todo : f <= g

\* The parts of Story.
Told   == Started \o Seen(InOrder(found))
Repros == Events("repro", InOrder(ReproTold), [f \in Findings |-> repro[f].verdict])
Heals  == Events("heal", InOrder(HealTold), heal)

LogEvents == [type : {"run_start", "finding", "repro", "heal", "run_end"},
              of   : Findings \cup {0},
              what : Verdicts \cup HealStatuses \cup {"none", ""}]

\* A list with n places is a sequence.
LEMMA ListIsSeq ==
  ASSUME NEW T, NEW n \in Nat, NEW q \in [1 .. n -> T]
  PROVE  q \in Seq(T)
OBVIOUS

\* What the log tells of a list of findings is a sequence of events.
LEMMA EventsAreEvents ==
  ASSUME NEW S \in SUBSET Findings, NEW type \in {"finding", "repro", "heal"},
         NEW what, \A f \in S : what[f] \in Verdicts \cup HealStatuses \cup {"none", ""}
  PROVE  Events(type, InOrder(S), what) \in Seq(LogEvents)
<1> DEFINE s == InOrder(S)
           n == Cardinality(S)
<1>1. S \in SUBSET Nat /\ IsFiniteSet(S) /\ n \in Nat
  BY FindingsAreFinite, FS_CardinalityType
<1>2. DOMAIN s = 1 .. n /\ \A k \in 1 .. n : s[k] \in S
  BY <1>1, InOrderEnumerates DEF Enumerates
<1> HIDE DEF s, n
<1>3. \A k \in 1 .. n : Event(type, s[k], what[s[k]]) \in LogEvents
  BY <1>2 DEF Event, LogEvents
<1>4. [k \in 1 .. n |-> Event(type, s[k], what[s[k]])] \in [1 .. n -> LogEvents]
  BY <1>3
<1>5. Events(type, s, what) \in [1 .. n -> LogEvents]
  BY <1>2, <1>4 DEF Events
<1> QED
  BY <1>1, <1>5, ListIsSeq, Zenon DEF s

\* The story is made of sequences of events.
LEMMA StoryParts ==
  ASSUME RightInv
  PROVE  Told \in Seq(LogEvents) /\ Repros \in Seq(LogEvents) /\ Heals \in Seq(LogEvents)
<1>1. /\ found \subseteq Findings
      /\ ReproTold \subseteq Findings /\ HealTold \subseteq Findings
      /\ \A f \in Findings : repro[f].verdict \in Verdicts \cup {"none"}
      /\ \A f \in Findings : heal[f] \in HealStatuses \cup {"none"}
  BY DEF RightInv, RunTypes, Reports, ReproTold, HealTold
<1>2. Started \in Seq(LogEvents)
  BY DEF Started, Event, LogEvents
<1>3. Seen(InOrder(found)) \in Seq(LogEvents)
  BY <1>1, EventsAreEvents DEF Seen
<1>4. Told \in Seq(LogEvents)
  BY <1>2, <1>3 DEF Told
<1>5. Repros \in Seq(LogEvents)
  BY <1>1, EventsAreEvents DEF Repros
<1>6. Heals \in Seq(LogEvents)
  BY <1>1, EventsAreEvents DEF Heals
<1> QED
  BY <1>4, <1>5, <1>6

\* A list of no findings is empty.
LEMMA NothingListed ==
  ASSUME NEW type, NEW what
  PROVE  Events(type, InOrder({}), what) = <<>>
<1>1. IsFiniteSet({}) /\ Cardinality({}) = 0
  BY FS_EmptySet
<1>2. DOMAIN InOrder({}) = 1 .. 0
  BY <1>1, InOrderEnumerates DEF Enumerates
<1>3. DOMAIN InOrder({}) = {}
  BY <1>2
<1> QED
  BY <1>3 DEF Events

\* A reproduction that is told goes on with the story.
LEMMA ReproGoesOn ==
  ASSUME RightInv, HealTold = {}, UNCHANGED <<found, heal>>, NEW f \in found,
         \A g \in ReproTold : g < f, NEW r, r.verdict \in Verdicts,
         repro' = [repro EXCEPT ![f] = r]
  PROVE  /\ Story' = Append(Story, Event("repro", f, r.verdict))
         /\ ReproTold' = ReproTold \cup {f} /\ HealTold' = {}
<1> DEFINE e == Event("repro", f, r.verdict)
<1>1. /\ f \in Findings /\ found \subseteq Findings /\ DOMAIN repro = Findings
      /\ r.verdict # "none"
  BY DEF RightInv, RunTypes, Reports, Verdicts
<1>2. repro'[f] = r /\ \A g \in Findings : g # f => repro'[g] = repro[g]
  BY <1>1
<1>3. ReproTold' = ReproTold \cup {f} /\ HealTold' = {}
  BY <1>1, <1>2 DEF ReproTold, HealTold
<1>4. Repros' = Append(Repros, e)
  <2> DEFINE v == [g \in Findings |-> repro[g].verdict]
             w == [g \in Findings |-> repro'[g].verdict]
  <2>1. ReproTold \subseteq Findings /\ \A g \in ReproTold : w[g] = v[g]
    <3>1. \A g \in ReproTold : g \in Findings /\ g \in Nat /\ g # f
      BY <1>1, PipelineAssumption DEF ReproTold, Findings
    <3> QED
      BY <1>2, <3>1
  <2>2. w[f] = r.verdict
    BY <1>1, <1>2
  <2> HIDE DEF v, w
  <2>3. Events("repro", InOrder(ReproTold \cup {f}), w)
        = Append(Events("repro", InOrder(ReproTold), v), Event("repro", f, w[f]))
    BY <1>1, <2>1, EventAdded
  <2> QED
    BY <1>3, <2>2, <2>3 DEF Repros, v, w
<1>5. Told' = Told
  BY DEF Told
<1>6. Heals = <<>> /\ Heals' = <<>>
  BY <1>3, NothingListed DEF Heals
<1>7. e \in LogEvents
  BY <1>1 DEF Event, LogEvents
<1>8. Told \in Seq(LogEvents) /\ Repros \in Seq(LogEvents)
  BY StoryParts
<1>9. Story = (Told \o Repros) \o Heals /\ Story' = (Told' \o Repros') \o Heals'
  BY DEF Story, Told, Repros, Heals
<1>10. Story = Told \o Repros /\ Story' = Told \o Append(Repros, e)
  <2> HIDE DEF e
  <2>1. Append(Repros, e) \in Seq(LogEvents)
    BY <1>7, <1>8
  <2>2. \A s \in Seq(LogEvents) : s \o <<>> = s
    OBVIOUS
  <2>3. Told \o Repros \in Seq(LogEvents) /\ Told \o Append(Repros, e) \in Seq(LogEvents)
    BY <1>8, <2>1
  <2> QED
    BY <1>4, <1>5, <1>6, <1>9, <2>2, <2>3
<1>11. Told \o Append(Repros, e) = Append(Told \o Repros, e)
  <2> HIDE DEF e
  <2> QED
    BY <1>7, <1>8
<1> QED
  BY <1>3, <1>10, <1>11

\* So does a heal that is told.
LEMMA HealGoesOn ==
  ASSUME RightInv, UNCHANGED <<found, repro>>, NEW f \in found,
         \A g \in HealTold : g < f, NEW status \in HealStatuses,
         heal' = [heal EXCEPT ![f] = status]
  PROVE  /\ Story' = Append(Story, Event("heal", f, status))
         /\ HealTold' = HealTold \cup {f} /\ ReproTold' = ReproTold
<1> DEFINE e == Event("heal", f, status)
<1>1. /\ f \in Findings /\ found \subseteq Findings /\ DOMAIN heal = Findings
      /\ status # "none"
  BY DEF RightInv, RunTypes, HealStatuses
<1>2. heal'[f] = status /\ \A g \in Findings : g # f => heal'[g] = heal[g]
  BY <1>1
<1>3. HealTold' = HealTold \cup {f} /\ ReproTold' = ReproTold
  BY <1>1, <1>2 DEF ReproTold, HealTold
<1>4. Heals' = Append(Heals, e)
  <2>1. HealTold \subseteq Findings /\ \A g \in HealTold : heal'[g] = heal[g]
    <3>1. \A g \in HealTold : g \in Findings /\ g \in Nat /\ g # f
      BY <1>1, PipelineAssumption DEF HealTold, Findings
    <3> QED
      BY <1>2, <3>1
  <2> DEFINE w == heal'
  <2>2. w[f] = status /\ \A g \in HealTold : w[g] = heal[g]
    BY <1>2, <2>1
  <2> HIDE DEF w
  <2>3. Events("heal", InOrder(HealTold \cup {f}), w)
        = Append(Events("heal", InOrder(HealTold), heal), Event("heal", f, w[f]))
    BY <1>1, <2>1, <2>2, EventAdded
  <2> QED
    BY <1>3, <2>2, <2>3 DEF Heals, w
<1>5. Told' = Told /\ Repros' = Repros
  BY <1>3 DEF Told, Repros
<1>6. e \in LogEvents
  BY <1>1 DEF Event, LogEvents
<1>7. Told \o Repros \in Seq(LogEvents) /\ Heals \in Seq(LogEvents)
  BY StoryParts
<1>8. Story = (Told \o Repros) \o Heals /\ Story' = (Told' \o Repros') \o Heals'
  BY DEF Story, Told, Repros, Heals
<1>9. (Told \o Repros) \o Append(Heals, e) = Append((Told \o Repros) \o Heals, e)
  <2> HIDE DEF e
  <2> QED
    BY <1>6, <1>7
<1> QED
  BY <1>3, <1>4, <1>5, <1>8, <1>9

-----------------------------------------------------------------------------
\* Nothing is done before the detection.
LEMMA LogInit == Init => LogInv
<1> SUFFICES ASSUME Init PROVE LogInv
  OBVIOUS
<1>1. \A f \in Findings : repro[f].verdict = "none" /\ heal[f] = "none"
  BY DEF Init, ReproInit, NoRepro
<1> QED
  BY <1>1 DEF Init, LogInv, LogTellsTheRun

\* A step that tells nothing, and leaves what is told as it was.
LEMMA NothingTold ==
  ASSUME UNCHANGED <<found, repro, heal>>
  PROVE  Story' = Story /\ ReproTold' = ReproTold /\ HealTold' = HealTold
BY DEF Story, ReproTold, HealTold

\* The log begins anew, with the findings.
LEMMA LogDetected ==
  ASSUME RightInv, RightInv', LogInv, Detect
  PROVE  LogInv'
<1>1. /\ \A f \in Findings : repro'[f].verdict = "none" /\ heal'[f] = "none"
      /\ found' \subseteq Findings /\ target' = 0
  BY DEF Detect, LogInv, reproVars, searchVars, RightInv, RunTypes
<1>2. ReproTold' = {} /\ HealTold' = {}
  BY <1>1 DEF ReproTold, HealTold
<1>3. Repros' = <<>> /\ Heals' = <<>>
  <2>1. \A w : Events("repro", InOrder({}), w) = <<>> /\ Events("heal", InOrder({}), w) = <<>>
    BY NothingListed
  <2> QED
    BY <1>2, <2>1 DEF Repros, Heals
<1>4. Story' = (Told' \o Repros') \o Heals'
  BY DEF Story, Told, Repros, Heals
<1>5. Told' \in Seq(LogEvents)
  <2>1. \A f \in Findings : [g \in Findings |-> ""][f] = ""
    OBVIOUS
  <2>2. \A S \in SUBSET Findings : Seen(InOrder(S)) \in Seq(LogEvents)
    BY <2>1, EventsAreEvents DEF Seen
  <2>3. Seen(InOrder(found')) \in Seq(LogEvents)
    BY <1>1, <2>2
  <2>4. Started \in Seq(LogEvents)
    BY DEF Started, Event, LogEvents
  <2> QED
    BY <2>3, <2>4 DEF Told
<1>6. Story' = Told'
  <2>1. \A t \in Seq(LogEvents) : (t \o <<>>) \o <<>> = t
    OBVIOUS
  <2> QED
    BY <1>3, <1>4, <1>5, <2>1
<1>7. log' = Story' /\ pc' \in {"repro", "heal"} /\ (pc' = "heal" => todo' = {})
  BY <1>6 DEF Detect, Told
<1> QED
  BY <1>1, <1>2, <1>7 DEF LogInv, LogTellsTheRun

\* The finding in work, which the verdict is about, comes after those told
\* and before those still to do.
LEMMA LogReproTold ==
  ASSUME RightInv, LogInv, pc = "repro", UNCHANGED <<pc, found, heal>>,
         NEW f \in found, NEW r, r.verdict \in Verdicts,
         \A g \in ReproTold : g < f, \A g \in todo' : f < g,
         todo' \subseteq todo, target' = 0,
         repro' = [repro EXCEPT ![f] = r], Tell(f, "repro", r.verdict)
  PROVE  LogInv'
<1>1. HealTold = {} /\ log = Story /\ \A g \in ReproTold, h \in todo : g < h
  BY DEF LogInv
<1>2. Story' = Append(Story, Event("repro", f, r.verdict))
      /\ ReproTold' = ReproTold \cup {f} /\ HealTold' = {}
  BY <1>1, ReproGoesOn
<1>3. log' = Story'
  BY <1>1, <1>2 DEF Tell
<1>4. \A g \in ReproTold', h \in todo' : g < h
  BY <1>1, <1>2
<1> QED
  BY <1>2, <1>3, <1>4 DEF LogInv, LogTellsTheRun

\* The loop over the reproductions.
LEMMA LogRepro ==
  ASSUME RightInv, RightInv', LogInv,
         ReproStep \/ ReproConcluded \/ ReproFailed \/ ReproThrows
         \/ \E f \in Findings : NextRepro(f) \/ StaticRepro(f)
  PROVE  LogInv'
<1>1. /\ found \subseteq Findings /\ todo \subseteq found /\ 0 \notin Findings
      /\ \A f \in Findings : f \in Nat
      /\ (stage = "idle" <=> target = 0) /\ (target # 0 => target \in found)
  BY PipelineAssumption DEF RightInv, RunTypes, Typed, Findings
<1>2. pc = "repro"
  BY DEF ReproStep, ReproConcluded, ReproFailed, ReproThrows, NextRepro, StaticRepro
<1>3. /\ HealTold = {} /\ log = Story
      /\ \A f \in ReproTold, g \in todo : f < g
      /\ target # 0 => /\ \A f \in ReproTold : f < target
                       /\ \A g \in todo : target < g
  BY <1>2 DEF LogInv
<1>4. CASE ReproStep
  <2>1. UNCHANGED <<runVars, repro, target>>
    BY <1>4 DEF ReproStep, Replay, Retry, WriteSpec, AfterSanity, AfterCut, AfterRun
  <2>2. Story' = Story /\ ReproTold' = ReproTold /\ HealTold' = HealTold
    BY <2>1, NothingTold DEF runVars
  <2> QED
    BY <1>2, <1>3, <2>1, <2>2 DEF LogInv, LogTellsTheRun, runVars
<1>5. CASE ReproConcluded
  <2>1. target \in found
    BY <1>1, <1>5 DEF ReproConcluded, Conclude, Measured
  <2>2. Verdict \in Verdicts /\ DOMAIN repro = Findings
    BY DEF Verdict, Verdicts, RightInv, Reports
  <2> DEFINE r == [verdict |-> Verdict, steps |-> current, runs |-> runs]
  <2>3. repro' = [repro EXCEPT ![target] = r] /\ target' = 0
    BY <1>5 DEF ReproConcluded, Conclude
  <2>4. repro'[target].verdict = r.verdict /\ r.verdict \in Verdicts
    BY <1>1, <2>1, <2>2, <2>3
  <2>5. Tell(target, "repro", r.verdict)
    BY <1>5, <2>4 DEF ReproConcluded, Tell
  <2>6. UNCHANGED <<pc, found, heal, todo>>
    BY <1>5 DEF ReproConcluded
  <2>7. target # 0
    BY <1>1, <2>1
  <2> HIDE DEF r
  <2> QED
    BY <1>2, <1>3, <2>1, <2>3, <2>4, <2>5, <2>6, <2>7, LogReproTold
<1>6. CASE ReproFailed
  <2>1. target \in found /\ target # 0
    BY <1>1, <1>6 DEF ReproFailed, GiveUp, Replaying, Measured
  <2>2. Failed.verdict = "unreliable" /\ "unreliable" \in Verdicts
    BY DEF Failed, Verdicts
  <2>3. /\ repro' = [repro EXCEPT ![target] = Failed] /\ target' = 0
        /\ Tell(target, "repro", Failed.verdict)
        /\ UNCHANGED <<pc, found, heal, todo>>
    BY <1>6, <2>2 DEF ReproFailed, GiveUp
  <2> QED
    BY <1>2, <1>3, <2>1, <2>2, <2>3, LogReproTold
<1>7. CASE ReproThrows
  <2>1. pc' = "thrown"
    BY <1>7 DEF ReproThrows
  <2> QED
    BY <2>1 DEF LogInv, LogTellsTheRun
<1>8. ASSUME NEW f \in Findings, NextRepro(f) PROVE LogInv'
  <2>1. UNCHANGED <<pc, found, heal, log, repro>> /\ target' = f /\ todo' = todo \ {f}
    BY <1>8 DEF NextRepro, StartRepro
  <2>2. f \in todo /\ \A g \in todo : f <= g
    BY <1>8 DEF NextRepro, IsNext
  <2>3. Story' = Story /\ ReproTold' = ReproTold /\ HealTold' = HealTold
    BY <2>1, NothingTold
  <2>4. \A g \in todo' : f < g
    <3>1. \A g \in todo : g \in Nat
      BY <1>1
    <3> QED
      BY <2>1, <2>2, <3>1
  <2> QED
    BY <1>2, <1>3, <2>1, <2>2, <2>3, <2>4 DEF LogInv, LogTellsTheRun
<1>9. ASSUME NEW f \in Findings, StaticRepro(f) PROVE LogInv'
  <2>1. PICK r \in {Failed, [verdict |-> "deterministic", steps |-> History(f), runs |-> 1]} :
          repro' = [repro EXCEPT ![f] = r] /\ Tell(f, "repro", r.verdict)
    BY <1>9 DEF StaticRepro
  <2>2. r.verdict \in Verdicts
    BY <2>1 DEF Failed, Verdicts
  <2>3. /\ UNCHANGED <<pc, found, heal, target>> /\ stage = "idle" /\ todo' = todo \ {f}
        /\ f \in todo /\ \A g \in todo : f <= g
    BY <1>9 DEF StaticRepro, IsNext, searchVars
  <2>4. target' = 0 /\ f \in found
    BY <1>1, <2>3
  <2>5. \A g \in todo' : f < g
    <3>1. \A g \in todo : g \in Nat
      BY <1>1
    <3> QED
      BY <2>3, <3>1
  <2>6. \A g \in ReproTold : g < f
    BY <1>3, <2>3
  <2> QED
    BY <1>2, <2>1, <2>2, <2>3, <2>4, <2>5, <2>6, LogReproTold
<1> QED
  BY <1>4, <1>5, <1>6, <1>7, <1>8, <1>9

\* The loop over the heals, and the end of the run.
LEMMA LogHeal ==
  ASSUME RightInv, RightInv', LogInv,
         CloseEngine \/ WriteReport \/ Return \/ RunThrows \/ RunHangs
         \/ \E f \in Findings :
              Prove(f) \/ \E status \in HealStatuses, n \in 0 .. HealCalls :
                            HealOne(f, status, n)
  PROVE  LogInv'
<1>1. /\ found \subseteq Findings /\ todo \subseteq found
      /\ \A f \in Findings : f \in Nat
  BY PipelineAssumption DEF RightInv, RunTypes, Findings
<1>2. CASE CloseEngine
  <2>1. UNCHANGED <<found, repro, heal, log>> /\ pc = "repro" /\ pc' = "heal"
    BY <1>2 DEF CloseEngine
  <2>2. Story' = Story /\ HealTold' = {}
    BY <2>1, NothingTold DEF LogInv
  <2> QED
    BY <2>1, <2>2 DEF LogInv, LogTellsTheRun
<1>3. CASE WriteReport
  <2>1. UNCHANGED <<found, repro, heal, log>> /\ pc = "heal" /\ pc' = "report"
    BY <1>3 DEF WriteReport, reproVars
  <2>2. Story' = Story
    BY <2>1, NothingTold
  <2> QED
    BY <2>1, <2>2 DEF LogInv, LogTellsTheRun
<1>4. CASE Return
  <2>1. /\ UNCHANGED <<found, repro, heal>> /\ pc = "report" /\ pc' = "returned"
        /\ log' = Append(log, Event("run_end", 0, ""))
    BY <1>4 DEF Return, reproVars, Tell
  <2>2. Story' = Story
    BY <2>1, NothingTold
  <2>3. log' = Append(Story', Event("run_end", 0, ""))
    BY <2>1, <2>2 DEF LogInv
  <2> QED
    BY <2>1, <2>3 DEF LogInv, LogTellsTheRun
<1>5. CASE RunThrows \/ RunHangs
  <2>1. pc' \in {"thrown", "hung"}
    BY <1>5 DEF RunThrows, RunHangs
  <2> QED
    BY <2>1 DEF LogInv, LogTellsTheRun
<1>6. ASSUME NEW f \in Findings, Prove(f) PROVE LogInv'
  <2>1. /\ UNCHANGED <<found, repro, heal, log>> /\ pc = "prove" /\ pc' = "heal"
        /\ f \in todo /\ (\A g \in todo : f <= g) /\ todo' = todo \ {f}
    BY <1>6 DEF Prove, reproVars, IsNext
  <2>2. Story' = Story /\ HealTold' = HealTold
    BY <2>1, NothingTold
  <2>3. \A h \in HealTold, g \in todo' : h < g
    <3>1. \A h \in HealTold : h <= f /\ h \in Nat
      BY <1>1, <2>1 DEF LogInv, HealTold
    <3>2. \A g \in todo' : f <= g /\ g # f /\ g \in Nat
      BY <1>1, <2>1
    <3>3. f \in Nat
      BY <1>1
    <3> QED
      BY <3>1, <3>2, <3>3
  <2> QED
    BY <2>1, <2>2, <2>3 DEF LogInv, LogTellsTheRun
<1>7. ASSUME NEW f \in Findings, NEW status \in HealStatuses, NEW n \in 0 .. HealCalls,
             HealOne(f, status, n)
      PROVE  LogInv'
  <2>1. /\ UNCHANGED <<found, repro>> /\ pc = "heal" /\ f \in todo
        /\ (\A g \in todo : f <= g)
        /\ heal' = [heal EXCEPT ![f] = status] /\ Tell(f, "heal", status)
        /\ \/ pc' = "prove" /\ todo' = todo
           \/ pc' = "heal" /\ todo' = todo \ {f}
    BY <1>7 DEF HealOne, reproVars, IsNext
  <2>2. \A g \in HealTold, h \in todo : g < h
    BY <2>1 DEF LogInv
  <2>3. Story' = Append(Story, Event("heal", f, status)) /\ HealTold' = HealTold \cup {f}
    BY <1>1, <2>1, <2>2, HealGoesOn
  <2>4. log' = Story'
    BY <2>1, <2>3 DEF LogInv, Tell
  <2>5. \A g \in todo : g \in Nat /\ f \in Nat
    BY <1>1
  <2>6. \A g \in HealTold', h \in todo' : g <= h /\ (pc' = "heal" => g < h)
    <3>1. \A g \in HealTold, h \in todo' : g <= h /\ g < h
      <4>1. \A g \in HealTold : g \in Nat
        BY <1>1 DEF HealTold
      <4> QED
        BY <2>1, <2>2, <2>5, <4>1
    <3>2. \A h \in todo' : f <= h /\ (pc' = "heal" => f < h)
      BY <2>1, <2>5
    <3> QED
      BY <2>3, <3>1, <3>2
  <2> QED
    BY <2>1, <2>4, <2>6 DEF LogInv, LogTellsTheRun
<1> QED
  BY <1>2, <1>3, <1>4, <1>5, <1>6, <1>7

\* What the log tells is kept by every step.
LEMMA LogStep == RightInv /\ RightInv' /\ LogInv /\ [Next]_vars => LogInv'
<1> SUFFICES ASSUME RightInv, RightInv', LogInv, [Next]_vars PROVE LogInv'
  OBVIOUS
<1>1. CASE UNCHANGED vars
  <2>1. UNCHANGED <<pc, todo, found, target, repro, heal, log>>
    BY <1>1 DEF vars, reproVars, runVars, searchVars
  <2>2. Story' = Story /\ ReproTold' = ReproTold /\ HealTold' = HealTold
    BY <2>1, NothingTold
  <2> QED
    BY <2>1, <2>2 DEF LogInv, LogTellsTheRun
<1>2. CASE Next
  BY <1>2, LogDetected, LogRepro, LogHeal, Zenon DEF Next
<1> QED
  BY <1>1, <1>2

\* The log of a run that returned is the whole story in order, for any number
\* of findings: of each finding what was detected, how its reproduction and
\* its heal ended, nothing twice, nothing that is not in the report, also when
\* reproductions fail and heals throw.
THEOREM LogTellsTheRunHolds == Spec => []LogTellsTheRun
<1>1. LogInv => LogTellsTheRun
  BY DEF LogInv
<1> QED
  BY <1>1, RightInit, RightStep, LogInit, LogStep, PTL DEF Spec

=============================================================================
