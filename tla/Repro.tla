-------------------------------- MODULE Repro --------------------------------
(***************************************************************************)
(* From a recorded history to a proven reproduction                        *)
(* (src/src/core/minimizer.ts, replay.ts, validator.ts): the history of a  *)
(* finding is cut down by replaying parts of it under a budget of replays, *)
(* written down as a spec, and replayed again to measure how often it      *)
(* fails.  A replay drives a browser that all replays share and that may   *)
(* crash.                                                                  *)
(*                                                                         *)
(* A step is its place in the history.  Which sets of steps make the bug   *)
(* show is the oracle, which the program does not know; a bug that is not  *)
(* stable may also fail to show.                                           *)
(***************************************************************************)
EXTENDS Naturals, Sequences, FiniteSets

CONSTANTS
  Oracles,     \* for each finding, in the order of the report, the profiles
               \* it may have
  MaxReplays,  \* maxReplays of minimize()
  ReproRuns    \* runs of validate()

Findings == 1 .. Len(Oracles)

ASSUME ReproAssumption ==
  /\ \A f \in Findings : \A o \in Oracles[f] :
       /\ o.steps \in Nat \ {0} /\ o.fails \subseteq SUBSET (1 .. o.steps)
       /\ o.stable \in BOOLEAN
  /\ MaxReplays \in Nat \ {0} /\ ReproRuns \in Nat \ {0}

VARIABLES
  oracle,   \* the profile of each finding
  target,   \* the finding in work, 0 for none
  stage,    \* where its reproduction is
  current,  \* `current`: the steps that are left
  at,       \* number of chunks, and start of the chunk that is cut next
  budget,   \* replays minimize() may still make
  runs, hits,  \* replays of validate(), and how many reproduced
  attempt,  \* attempts of this replay that have thrown
  browser,  \* the engine holds one
  repro,    \* f.repro
  spent     \* observation only: findings whose search ended without budget,
            \* or did not begin

searchVars == <<target, stage, current, at, budget, runs, hits, attempt>>
reproVars  == <<oracle, searchVars, browser, repro, spent>>

Stages == {"idle", "sanity", "search", "spec", "validate"}
Verdicts == {"deterministic", "flaky", "unreliable"}

History(f) == [k \in 1 .. oracle[f].steps |-> k]
StepsOf(seq) == {seq[k] : k \in DOMAIN seq}

NoRepro == [verdict |-> "none", steps |-> <<>>, runs |-> 0]
Failed  == [verdict |-> "unreliable", steps |-> <<>>, runs |-> 0]

FirstCut == [n |-> 2, i |-> 0]

ReproTypeOK ==
  /\ \A f \in Findings : oracle[f] \in Oracles[f]
  /\ target \in Findings \cup {0} /\ stage \in Stages
  /\ target # 0 => StepsOf(current) \subseteq 1 .. oracle[target].steps
  /\ stage = "search" => at.n \in 2 .. Len(current) /\ at.i < Len(current)
  /\ budget \in 0 .. MaxReplays
  /\ runs \in 0 .. ReproRuns /\ hits \in 0 .. runs
  /\ attempt \in 0 .. 1 /\ browser \in BOOLEAN
  /\ \A f \in Findings : repro[f].verdict \in Verdicts \cup {"none"}
  /\ spent \subseteq Findings

ReproInit ==
  /\ oracle \in {o \in [Findings -> UNION {Oracles[f] : f \in Findings}] :
                   \A f \in Findings : o[f] \in Oracles[f]}
  /\ target = 0 /\ stage = "idle" /\ current = <<>> /\ at = FirstCut
  /\ budget = 0 /\ runs = 0 /\ hits = 0 /\ attempt = 0 /\ browser = FALSE
  /\ repro = [f \in Findings |-> NoRepro]
  /\ spent = {}

-----------------------------------------------------------------------------
(* minimize(): cut one chunk of n at a time, and keep what still fails.     *)

ChunkSize == (Len(current) + at.n - 1) \div at.n

\* `complement`: the current steps without the chunk that starts at i.
Complement ==
  SubSeq(current, 1, at.i) \o SubSeq(current, at.i + ChunkSize + 1, Len(current))

\* Less than two steps are not minimized.
StartRepro(f) ==
  /\ stage = "idle"
  /\ target' = f
  /\ current' = History(f)
  /\ stage' = IF oracle[f].steps < 2 THEN "spec" ELSE "sanity"
  /\ budget' = MaxReplays
  /\ at' = FirstCut /\ runs' = 0 /\ hits' = 0 /\ attempt' = 0
  /\ UNCHANGED <<oracle, browser, repro, spent>>

\* The steps that are replayed next.
Asked == IF stage = "search" THEN Complement ELSE current

\* Where the search goes when a cut did not fail: to the next chunk, then to
\* twice as many of them, up to one per step; and then it is over (n = 0).
NextCut ==
  IF at.i + ChunkSize < Len(current) THEN [at EXCEPT !.i = @ + ChunkSize]
  ELSE IF at.n >= Len(current) THEN [n |-> 0, i |-> 0]
  ELSE [n |-> IF 2 * at.n < Len(current) THEN 2 * at.n ELSE Len(current),
        i |-> 0]

\* The end of minimize(), with what it returns.
EndSearch(out) ==
  /\ stage' = "spec" /\ at' = FirstCut
  /\ spent' = IF out THEN spent \cup {target} ELSE spent

\* The full history: nothing is cut from one that does not reproduce.
AfterSanity(seen) ==
  /\ stage = "sanity"
  /\ budget' = budget - 1
  /\ IF seen /\ budget > 1
     THEN stage' = "search" /\ UNCHANGED <<at, spent>>
     ELSE EndSearch(TRUE)
  /\ UNCHANGED <<current, runs, hits>>

\* Variant: the cut is made before it is known to fail.
KeepAnyway(seen) == Complement

Keep(seen) == IF seen THEN Complement ELSE current

\* A cut that fails starts the search over.  Without budget it is the last.
AfterCut(seen) ==
  /\ stage = "search"
  /\ budget' = budget - 1
  /\ current' = Keep(seen)
  /\ LET next == IF seen THEN FirstCut ELSE NextCut
         over == next.n = 0 \/ Len(current') < 2
     IN  IF over \/ budget = 1 THEN EndSearch(~over)
         ELSE at' = next /\ UNCHANGED <<stage, spent>>
  /\ UNCHANGED <<runs, hits>>

\* compileSpec, writeSpec.
WriteSpec ==
  /\ stage = "spec"
  /\ stage' = "validate"
  /\ UNCHANGED <<oracle, target, current, at, budget, runs, hits, attempt,
                 browser, repro, spent>>

\* Variant: only a replay that reproduces is counted.
AfterRunUntilHits(seen) ==
  /\ stage = "validate"
  /\ runs' = IF seen THEN runs + 1 ELSE runs
  /\ hits' = IF seen THEN hits + 1 ELSE hits
  /\ UNCHANGED <<stage, current, at, budget, spent>>

\* validate() counts.
AfterRun(seen) ==
  /\ stage = "validate"
  /\ runs' = runs + 1
  /\ hits' = IF seen THEN hits + 1 ELSE hits
  /\ UNCHANGED <<stage, current, at, budget, spent>>

-----------------------------------------------------------------------------
(* ReplayEngine.run                                                         *)

Replaying ==
  stage \in {"sanity", "search"} \/ (stage = "validate" /\ runs < ReproRuns)

\* What a replay of these steps may show.
MayShow(f, steps) == StepsOf(steps) \in oracle[f].fails
MayHide(f, steps) == ~oracle[f].stable \/ ~MayShow(f, steps)

\* The replay returns: the browser is open from now on.
Replay(seen) ==
  /\ Replaying
  /\ IF seen THEN MayShow(target, Asked) ELSE MayHide(target, Asked)
  /\ AfterSanity(seen) \/ AfterCut(seen) \/ AfterRun(seen)
  /\ browser' = TRUE /\ attempt' = 0
  /\ UNCHANGED <<oracle, target, repro>>

\* Variant: a replay that throws is counted as one that did not reproduce.
RetryCounted ==
  /\ Replaying /\ attempt = 0
  /\ attempt' = 1
  /\ browser' = FALSE
  /\ runs' = IF stage = "validate" THEN runs + 1 ELSE runs
  /\ UNCHANGED <<oracle, target, stage, current, at, budget, hits, repro, spent>>

\* The first attempt throws: the browser is dropped, and one more is made.
Retry ==
  /\ Replaying /\ attempt = 0
  /\ attempt' = 1
  /\ browser' = FALSE
  /\ UNCHANGED <<oracle, target, stage, current, at, budget, runs, hits,
                 repro, spent>>

-----------------------------------------------------------------------------
(* The two ways a reproduction ends.                                        *)

Measured == stage = "validate" /\ runs = ReproRuns

Verdict ==
  IF hits = runs THEN "deterministic"
  ELSE IF 10 * hits >= 6 * runs THEN "flaky" ELSE "unreliable"

Conclude ==
  /\ Measured
  /\ repro' = [repro EXCEPT ![target] =
                 [verdict |-> Verdict, steps |-> current, runs |-> runs]]
  /\ stage' = "idle" /\ target' = 0 /\ current' = <<>>
  /\ UNCHANGED <<oracle, at, budget, runs, hits, attempt, browser, spent>>

\* A replay threw twice, the spec cannot be written, or the verdict cannot be
\* logged.
GiveUp ==
  /\ (Replaying /\ attempt = 1) \/ stage = "spec" \/ Measured
  /\ browser' = (browser /\ ~Replaying)
  /\ repro' = [repro EXCEPT ![target] = Failed]
  /\ stage' = "idle" /\ target' = 0 /\ current' = <<>> /\ attempt' = 0
  /\ UNCHANGED <<oracle, at, budget, runs, hits, spent>>

=============================================================================
