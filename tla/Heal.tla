-------------------------------- MODULE Heal --------------------------------
(***************************************************************************)
(* One call of heal() (src/src/core/heal/index.ts), with the sandbox       *)
(* (sandbox.ts), the generator (llm.ts) and the verification (verify.ts)   *)
(* it drives.                                                              *)
(*                                                                         *)
(* The tiers are tried in order: the free rule first, then the paid        *)
(* models.  The patch of a tier is generated, gated, written over the one  *)
(* file of a detached worktree, compiled, tested, served and replayed.     *)
(* The first patch that survives wins; with AZTRX_CONSENSUS every tier is  *)
(* tried and the smallest survivor wins.  A patch is named by its tier.    *)
(***************************************************************************)
EXTENDS Naturals

CONSTANTS
  MaxPaid,    \* most paid tiers a configuration has
  MaxBudget,  \* most generations the session has left when heal() begins
  Runs,       \* verifyRuns, after Math.max(1, ...)
  MaxSize     \* patches are 1 .. MaxSize long

ASSUME HealAssumption ==
  /\ MaxPaid \in Nat /\ MaxBudget \in Nat
  /\ Runs \in Nat \ {0} /\ MaxSize \in Nat \ {0}

VARIABLES
  plan,      \* what the environment and the finding decide beforehand
  budget,    \* budget.remaining, of the session
  pc, tier,  \* where the loop over the tiers is
  last,      \* status, and tier, of the last attempt
  best,      \* the winner so far and its size
  saved,     \* tier of savedPatch and savedVerification
  savedTest, \* tier of savedTest
  worktree,  \* the sandbox directory
  file,      \* tier whose patch is in the worktree
  server,    \* the patched app is running
  replays,   \* counters of verifyFix
  artifact,  \* tiers of the .patch and the .json file in .aztrx/heal
  calls, evidence \* observation only: generations paid for, and what the
                  \* replays of each tier have shown

healVars == <<plan, budget, pc, tier, last, best, saved, savedTest, worktree,
          file, server, replays, artifact, calls, evidence>>

None == 0   \* no tier: HEAD, nothing saved, no winner
MaxTiers == MaxPaid + 1

Plans ==
  [rule : BOOLEAN,          \* generateRulePatch has a fix
   paid : 0 .. MaxPaid,     \* modelTiers, none without a key
   consensus : BOOLEAN,     \* AZTRX_CONSENSUS
   capped : BOOLEAN,        \* opts.budget is given
   byType : BOOLEAN]        \* a network finding is verified by its type

TierCount == plan.paid + (IF plan.rule THEN 1 ELSE 0)
IsFree(t) == plan.rule /\ t = 1

Skipped == [status |-> "skipped", tier |-> None]
NoBest  == [tier |-> None, size |-> 0]
NoReplays == [done |-> 0, loaded |-> 0, reproduced |-> 0, other |-> FALSE]
NoArtifact == [patch |-> None, json |-> None]

Statuses == {"healed", "unfixed", "rejected", "compile-failed",
             "apply-failed", "test-failed", "skipped", "no-llm",
             "budget-exhausted"}
Pcs == {"start", "generate", "gate", "compile", "test", "serve", "replay",
        "handoff", "return", "throw", "returned", "thrown"}
Signs == {"loaded", "reproduced", "other"}
TierOrNone == 0 .. MaxTiers

TypeOK ==
  /\ plan \in Plans /\ budget \in 0 .. MaxBudget
  /\ pc \in Pcs /\ tier \in 1 .. MaxTiers + 1
  /\ last \in [status : Statuses, tier : TierOrNone]
  /\ best \in [tier : TierOrNone, size : 0 .. MaxSize]
  /\ saved \in TierOrNone /\ savedTest \in TierOrNone /\ file \in TierOrNone
  /\ worktree \in {"none", "leftover", "made"} /\ server \in BOOLEAN
  /\ replays \in [done : 0 .. Runs, loaded : 0 .. Runs,
                  reproduced : 0 .. Runs, other : BOOLEAN]
  /\ artifact \in [patch : TierOrNone, json : TierOrNone]
  /\ calls \in Nat
  /\ evidence \in [1 .. MaxTiers -> SUBSET Signs]

\* Only findings with an own-code location, a repro and a way to be served
\* get this far: the early returns before that are one status, "skipped".
HealInit ==
  /\ plan \in Plans
  /\ budget \in 0 .. MaxBudget
  /\ pc = "start" /\ tier = 1 /\ last = Skipped /\ best = NoBest
  /\ saved = None /\ savedTest = None
  /\ worktree = "none" /\ file = None /\ server = FALSE
  /\ replays = NoReplays /\ artifact = NoArtifact
  /\ calls = 0 /\ evidence = [t \in 1 .. MaxTiers |-> {}]

money   == <<budget, calls>>
sandbox == <<worktree, file, server, replays, evidence>>
held    == <<best, saved, savedTest, artifact>>

-----------------------------------------------------------------------------
(* Before the loop.                                                         *)

\* The finding cannot be healed, or its file cannot be read.
RefuseFinding ==
  /\ pc = "start"
  /\ pc' = "returned"
  /\ UNCHANGED <<plan, money, tier, last, held, sandbox>>

NothingToTry ==
  /\ pc = "start" /\ TierCount = 0
  /\ last' = [Skipped EXCEPT !.status = "no-llm"]
  /\ pc' = "returned"
  /\ UNCHANGED <<plan, money, tier, held, sandbox>>

CreateWorktree ==
  /\ pc = "start" /\ TierCount > 0
  /\ worktree' = "made"
  /\ pc' = "generate"
  /\ UNCHANGED <<plan, money, tier, last, held, file, server, replays,
                 evidence>>

\* Not a repository, and the copy fails half way.  The directory is made
\* before the try block, so nothing removes it.
CreateWorktreeFails ==
  /\ pc = "start" /\ TierCount > 0
  /\ worktree' = "leftover"
  /\ pc' = "thrown"
  /\ UNCHANGED <<plan, money, tier, last, held, file, server, replays,
                 evidence>>

-----------------------------------------------------------------------------
(* The loop over the tiers.  Fail is `last = {...}; continue`.              *)

AfterTier == IF tier < TierCount THEN "generate" ELSE "handoff"

Fail(status) ==
  /\ last' = [status |-> status, tier |-> tier]
  /\ tier' = tier + 1
  /\ pc' = AfterTier

NeedsBudget == ~IsFree(tier) /\ plan.capped

BudgetSpent ==
  /\ pc = "generate"
  /\ NeedsBudget /\ budget = 0
  /\ last' = [status |-> "budget-exhausted", tier |-> tier]
  /\ pc' = "handoff"
  /\ UNCHANGED <<plan, money, tier, held, sandbox>>

\* complete() throws: not charged, and no later tier is tried.
TransportFails ==
  /\ pc = "generate" /\ ~IsFree(tier)
  /\ NeedsBudget => budget > 0
  /\ last' = IF last.status = "skipped"
             THEN [status |-> "no-llm", tier |-> tier] ELSE last
  /\ pc' = "handoff"
  /\ UNCHANGED <<plan, money, tier, held, sandbox>>

\* Variant: the budget is not looked at before it is charged.
ChargeUnchecked ==
  /\ budget' = IF NeedsBudget /\ budget > 0 THEN budget - 1 ELSE budget
  /\ calls' = IF IsFree(tier) THEN calls ELSE calls + 1

\* The reply is charged whatever it is worth.
Charge ==
  /\ NeedsBudget => budget > 0
  /\ budget' = IF NeedsBudget THEN budget - 1 ELSE budget
  /\ calls' = IF IsFree(tier) THEN calls ELSE calls + 1

Generate ==
  /\ pc = "generate"
  /\ Charge
  /\ \/ /\ pc' = "gate"
        /\ UNCHANGED <<tier, last>>
     \/ Fail("rejected")      \* no hunks, or a reply that does not parse
  /\ UNCHANGED <<plan, held, sandbox>>

\* Apply in memory, audit the result, write it into the worktree.
GateRefuses ==
  /\ pc = "gate"
  /\ Fail("apply-failed") \/ Fail("rejected")
  /\ UNCHANGED <<plan, money, held, sandbox>>

WritePatch ==
  /\ pc = "gate"
  /\ file' = tier
  /\ pc' = "compile"
  /\ UNCHANGED <<plan, money, tier, last, held, worktree, server, replays,
                 evidence>>

\* fs.writeFileSync throws through heal().
WriteFails ==
  /\ pc = "gate"
  /\ pc' = "throw"
  /\ UNCHANGED <<plan, money, tier, last, held, sandbox>>

\* tsc says no.  A compiler that is missing or times out lets the patch pass.
Compile ==
  /\ pc = "compile"
  /\ \/ pc' = "test" /\ UNCHANGED <<tier, last>>
     \/ Fail("compile-failed")
  /\ UNCHANGED <<plan, money, held, sandbox>>

\* The gate is skipped, or it runs; a suite that times out has failed.
RunTests ==
  /\ pc = "test"
  /\ \/ pc' = "serve" /\ UNCHANGED <<tier, last, savedTest>>
     \/ pc' = "serve" /\ savedTest' = tier /\ UNCHANGED <<tier, last>>
     \/ Fail("test-failed") /\ savedTest' = tier
  /\ UNCHANGED <<plan, money, best, saved, artifact, sandbox>>

-----------------------------------------------------------------------------
(* Verification against the served worktree.                                *)

Serve ==
  /\ pc = "serve"
  /\ server' = TRUE
  /\ replays' = NoReplays
  /\ pc' = "replay"
  /\ UNCHANGED <<plan, money, tier, last, held, worktree, file, evidence>>

\* The app does not come up: bootServer closes it and throws, and heal() with
\* it, whatever an earlier tier has achieved.
ServeFails ==
  /\ pc = "serve"
  /\ pc' = "throw"
  /\ UNCHANGED <<plan, money, tier, last, held, sandbox>>

Count(flag) == IF flag THEN 1 ELSE 0

\* One engine.run(): was the page answered with a success, did the bug come
\* back, did another error show up.  Telemetry is collected either way: an error
\* page, or one that is late, may show anything.
Replay ==
  /\ pc = "replay" /\ replays.done < Runs
  /\ \E signs \in SUBSET Signs :
       /\ replays' =
            [done |-> replays.done + 1,
             loaded |-> replays.loaded + Count("loaded" \in signs),
             reproduced |-> replays.reproduced + Count("reproduced" \in signs),
             other |-> replays.other \/ "other" \in signs]
       /\ evidence' = [evidence EXCEPT ![tier] = @ \cup signs]
  /\ UNCHANGED <<plan, money, pc, tier, last, held, worktree, file, server>>

\* engine.run() throws after its retry; verifyFix still closes the server.
ReplayFails ==
  /\ pc = "replay" /\ replays.done < Runs
  /\ server' = FALSE
  /\ pc' = "throw"
  /\ UNCHANGED <<plan, money, tier, last, held, worktree, file, replays,
                 evidence>>

\* Variant: a run that never loaded counts as one that did not reproduce.
FixedIfSilent == replays.reproduced = 0 /\ (plan.byType \/ ~replays.other)

\* verifyFix: loaded, not reproduced, and not turned into another crash.
Fixed ==
  /\ replays.reproduced = 0
  /\ plan.byType \/ ~replays.other
  /\ replays.loaded > 0

Better(size) == best.tier = None \/ size < best.size

AfterVerdict == IF Fixed /\ ~plan.consensus THEN "handoff" ELSE AfterTier

Judge ==
  /\ pc = "replay" /\ replays.done = Runs
  /\ server' = FALSE
  /\ saved' = tier
  /\ last' = [status |-> IF Fixed THEN "healed" ELSE "unfixed", tier |-> tier]
  /\ IF Fixed
     THEN \E size \in 1 .. MaxSize :
            best' = IF Better(size) THEN [tier |-> tier, size |-> size]
                    ELSE best
     ELSE UNCHANGED best
  /\ tier' = tier + 1
  /\ pc' = AfterVerdict
  /\ UNCHANGED <<plan, money, savedTest, artifact, worktree, file, replays,
                 evidence>>

-----------------------------------------------------------------------------
(* After the loop.                                                          *)

Verdict == IF best.tier # None THEN [status |-> "healed", tier |-> best.tier]
           ELSE last

\* The .json is what was saved, the .patch is what is in the worktree now, or
\* nothing when git has no diff to give (the copy of a project without git).
HandOff ==
  /\ pc = "handoff"
  /\ last' = Verdict
  /\ saved' = IF best.tier # None THEN best.tier ELSE saved
  /\ \E diff \in {file, None} :
       artifact' = IF saved' # None THEN [patch |-> diff, json |-> saved']
                   ELSE artifact
  /\ pc' = "return"
  /\ UNCHANGED <<plan, money, tier, best, savedTest, sandbox>>

HandOffFails ==
  /\ pc = "handoff" /\ saved # None
  /\ pc' = "throw"
  /\ UNCHANGED <<plan, money, tier, last, held, sandbox>>

\* Variant: the worktree is removed after a return only.
CleanupOnReturn ==
  /\ pc \in {"return", "throw"}
  /\ worktree' = IF pc = "return" THEN "none" ELSE worktree
  /\ pc' = IF pc = "return" THEN "returned" ELSE "thrown"
  /\ UNCHANGED <<plan, money, tier, last, held, file, server, replays,
                 evidence>>

\* The finally block.
Cleanup ==
  /\ pc \in {"return", "throw"}
  /\ worktree' = "none"
  /\ pc' = IF pc = "return" THEN "returned" ELSE "thrown"
  /\ UNCHANGED <<plan, money, tier, last, held, file, server, replays,
                 evidence>>

HealNext ==
  \/ RefuseFinding \/ NothingToTry \/ CreateWorktree \/ CreateWorktreeFails
  \/ BudgetSpent \/ TransportFails \/ Generate
  \/ GateRefuses \/ WritePatch \/ WriteFails \/ Compile \/ RunTests
  \/ Serve \/ ServeFails \/ Replay \/ ReplayFails \/ Judge
  \/ HandOff \/ HandOffFails \/ Cleanup

HealSpec == HealInit /\ [][HealNext]_healVars

-----------------------------------------------------------------------------
(* What heal() promises.                                                    *)

Healed == pc = "returned" /\ last.status = "healed"

\* "healed" is never said of a patch that was not exercised: the replays of
\* the very patch that is returned loaded the app, did not show the bug, and
\* (unless it is matched by type) no other error either.
HealedIsVerified ==
  Healed => LET seen == evidence[last.tier] IN
    /\ "loaded" \in seen
    /\ "reproduced" \notin seen
    /\ plan.byType \/ "other" \notin seen

\* A healed result is a tier whose own hunks were saved, also after later
\* tiers were tried and failed; its .json artifact is that patch.
WinnerIsSaved == Healed => saved = last.tier /\ artifact.json = last.tier

\* The .patch artifact is the diff of the worktree, where the tiers overwrite
\* each other: if there is one it is the winner's when the first fix ends the
\* loop, and under consensus it is the winner's or a later tier's, whatever
\* became of that one.
PatchIsLastWritten ==
  Healed =>
    /\ ~plan.consensus => artifact.patch \in {last.tier, None}
    /\ artifact.patch # None => artifact.patch >= last.tier

\* What heal() reports as healed, and saves as hunks, is a patch that was
\* verified, and no other; the diff it saves beside them is only sure to be of
\* that patch, or of a later one.
HandedOffIsVerified ==
  TypeOK /\ HealedIsVerified /\ WinnerIsSaved /\ PatchIsLastWritten

\* Whatever happens, the app under test is stopped and a worktree that was
\* made is removed.
SandboxRemoved ==
  pc \in {"returned", "thrown"} => ~server /\ worktree # "made"

-----------------------------------------------------------------------------
(* heal() implements its contract.                                          *)

Outcome ==
  CASE pc = "thrown" -> "thrown"
    [] pc # "returned" /\ pc # "thrown" -> "running"
    [] pc = "returned" ->
         IF last.status \in {"healed", "no-llm", "budget-exhausted"}
         THEN last.status ELSE "failed"

Contract == INSTANCE HealContract
  WITH MaxCalls <- MaxPaid, capped <- plan.capped, outcome <- Outcome

\* heal() charges the session budget one generation at a time and never when
\* it is spent, and its status is truthful about the generations it made.
ImplementsContract == Contract!Spec

=============================================================================
