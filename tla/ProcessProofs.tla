---------------------------- MODULE ProcessProofs -----------------------------
(***************************************************************************)
(* Theorems about the parts of aztrx that start something and have to take *)
(* it down again.  Of heal(), for any number of tiers, replays and         *)
(* generations: what it hands off was verified, it leaves nothing running, *)
(* and it implements its contract.  Of a command and its dev server, for   *)
(* any hosts, files, findings, saves and pushes: an awaited close() leaves *)
(* no server, the watcher's queue is served, and a push is judged fairly.  *)
(***************************************************************************)
EXTENDS Heal, Serve, TLAPS

-----------------------------------------------------------------------------
(* heal().                                                                  *)


InLoop == {"generate", "gate", "compile", "test", "serve", "replay"}
Over   == {"handoff", "return", "throw", "returned", "thrown"}

\* Where the loop is, what stands of the sandbox meanwhile.
Place ==
  /\ pc \in InLoop => tier <= TierCount /\ worktree = "made"
  /\ pc = "start" => tier = 1 /\ last = Skipped /\ calls = 0 /\ worktree = "none"
  /\ server => pc = "replay"
  /\ pc \in {"returned", "thrown"} => worktree # "made"

\* What the replays of a tier have shown so far, and the counters of verifyFix.
Seen ==
  /\ \A t \in 1 .. MaxTiers : t > tier => evidence[t] = {}
  /\ pc \in (InLoop \cup {"start"}) \ {"replay"} /\ tier <= MaxTiers => evidence[tier] = {}
  /\ pc = "replay" =>
       /\ replays.loaded <= replays.done /\ replays.reproduced <= replays.done
       /\ replays.loaded > 0 => "loaded" \in evidence[tier]
       /\ "reproduced" \in evidence[tier] => replays.reproduced > 0
       /\ "other" \in evidence[tier] => replays.other

Verified(t) ==
  /\ "loaded" \in evidence[t] /\ "reproduced" \notin evidence[t]
  /\ plan.byType \/ "other" \notin evidence[t]

\* The winner so far was verified, and is what is handed off.
Winner ==
  /\ best.tier # None => best.tier < tier /\ Verified(best.tier)
  /\ last.status = "healed" => best.tier # None
  /\ pc \in {"return", "returned"} /\ last.status = "healed" =>
       last.tier = best.tier /\ saved = last.tier /\ artifact.json = last.tier

\* The paid tiers among the first t.
PaidOf(t) == IF plan.rule /\ t > 0 THEN t - 1 ELSE t

\* One generation at most of every paid tier; what the last status says of them.
Money ==
  /\ calls <= MaxPaid
  /\ pc = "generate" => calls <= PaidOf(tier - 1)
  /\ pc \in InLoop => calls <= PaidOf(tier)
  /\ last.status = "skipped" /\ pc = "generate" => tier = 1
  /\ last.status = "no-llm" => pc \in Over /\ calls = 0
  /\ last.status = "budget-exhausted" =>
       pc \in Over /\ plan.capped /\ budget = 0 /\ calls < MaxPaid

HealInv == TypeOK /\ Place /\ Seen /\ Winner /\ Money

LEMMA HealStarts == HealInit => HealInv
<1> SUFFICES ASSUME HealInit PROVE HealInv
  OBVIOUS
<1> USE HealAssumption DEF HealInit
<1>1. TypeOK
  <2>1. MaxTiers \in Nat /\ 0 \in TierOrNone
    BY DEF MaxTiers, TierOrNone
  <2>2. last \in [status : Statuses, tier : TierOrNone]
    BY <2>1 DEF Skipped, Statuses, None
  <2>3. best \in [tier : TierOrNone, size : 0 .. MaxSize]
    BY <2>1 DEF NoBest, None
  <2>4. replays \in [done : 0 .. Runs, loaded : 0 .. Runs, reproduced : 0 .. Runs, other : BOOLEAN]
    BY DEF NoReplays
  <2>5. artifact \in [patch : TierOrNone, json : TierOrNone]
    BY <2>1 DEF NoArtifact, None
  <2>6. evidence \in [1 .. MaxTiers -> SUBSET Signs]
    BY <2>1
  <2>7. tier \in 1 .. MaxTiers + 1 /\ calls \in Nat
    BY <2>1
  <2>8. file \in TierOrNone /\ saved \in TierOrNone /\ savedTest \in TierOrNone
    BY <2>1 DEF None
  <2>9. pc \in Pcs /\ worktree \in {"none", "leftover", "made"} /\ server \in BOOLEAN
    BY DEF Pcs
  <2> QED
    BY <2>2, <2>3, <2>4, <2>5, <2>6, <2>7, <2>8, <2>9 DEF TypeOK
<1>2. Place
  BY DEF Place, InLoop, Plans, TierCount
<1>3. Seen
  BY DEF Seen, MaxTiers, InLoop
<1>4. Winner
  BY DEF Winner, NoBest, Skipped, None
<1>5. Money
  BY DEF Money, InLoop, Over, Skipped
<1> QED
  BY <1>1, <1>2, <1>3, <1>4, <1>5 DEF HealInv

\* There are no more tiers than a configuration has.
LEMMA TiersAreFew ==
  ASSUME TypeOK
  PROVE  /\ TierCount \in 0 .. MaxTiers /\ plan.paid \in 0 .. MaxPaid /\ MaxPaid \in Nat
         /\ MaxTiers \in Nat /\ tier \in Nat /\ best.tier \in Nat
         /\ plan.rule \in BOOLEAN /\ plan.capped \in BOOLEAN
         /\ TierCount = plan.paid + (IF plan.rule THEN 1 ELSE 0)
BY HealAssumption DEF TypeOK, Plans, TierCount, TierOrNone, MaxTiers

\* A tier that failed makes room for the next, or for the end of the loop.
LEMMA FailKeeps ==
  ASSUME HealInv, pc \in InLoop \ {"replay"}, NEW status \in Statuses,
         status \notin {"healed", "skipped", "no-llm", "budget-exhausted"},
         Fail(status), UNCHANGED <<plan, best, saved, artifact, sandbox>>,
         savedTest' \in TierOrNone, budget' \in 0 .. MaxBudget,
         calls' \in Nat, calls' <= PaidOf(tier), calls' <= MaxPaid
  PROVE  HealInv'
<1> USE DEF HealInv, Fail, AfterTier, sandbox
<1>1. TypeOK'
  <2>1. tier' \in 1 .. MaxTiers + 1 /\ tier \in TierOrNone
    BY TiersAreFew DEF Place, InLoop, TierOrNone
  <2>2. last' \in [status : Statuses, tier : TierOrNone] /\ pc' \in Pcs
    BY <2>1 DEF Pcs
  <2> QED
    BY <2>1, <2>2 DEF TypeOK
<1>2. Place'
  BY TiersAreFew DEF TypeOK, Place, InLoop, TierCount
<1>3. Seen'
  BY TiersAreFew DEF TypeOK, Place, Seen, InLoop, TierCount, MaxTiers
<1>4. Winner'
  <2>1. best.tier \in Nat /\ tier \in Nat
    BY TiersAreFew
  <2>2. last'.status = status /\ pc' \notin {"return", "returned"}
    OBVIOUS
  <2> QED
    BY <2>1, <2>2 DEF Winner, Verified
<1>5. Money'
  BY TiersAreFew DEF TypeOK, Money, PaidOf, InLoop, Over, Place, TierCount
<1> QED
  BY <1>1, <1>2, <1>3, <1>4, <1>5

-----------------------------------------------------------------------------
(* One lemma for each part of the loop.                                     *)

LEMMA BeforeKeeps ==
  ASSUME HealInv,
         RefuseFinding \/ NothingToTry \/ CreateWorktree \/ CreateWorktreeFails
  PROVE  HealInv'
<1> USE DEF HealInv, RefuseFinding, NothingToTry, CreateWorktree, CreateWorktreeFails, money,
            sandbox, held
<1>1. TypeOK'
  <2>1. last' \in [status : Statuses, tier : TierOrNone]
    BY TiersAreFew DEF TypeOK, Skipped, Statuses, TierOrNone, None
  <2>2. pc' \in Pcs /\ worktree' \in {"none", "leftover", "made"}
    BY DEF TypeOK, Pcs
  <2> QED
    BY <2>1, <2>2 DEF TypeOK
<1>2. Place'
  BY TiersAreFew DEF Place, InLoop, TierCount
<1>3. Seen'
  BY DEF Seen, InLoop
<1>4. Winner'
  BY DEF Winner, Verified, Skipped, Place
<1>5. Money'
  BY DEF Money, InLoop, Over, Place, Skipped, PaidOf
<1> QED
  BY <1>1, <1>2, <1>3, <1>4, <1>5

\* A tier goes on to its next stage, or leaves the loop by a throw.
LEMMA StageKeeps ==
  ASSUME HealInv, pc \in InLoop, pc' \in (InLoop \ {"generate", "replay"}) \cup {"throw"},
         UNCHANGED <<plan, tier, last, best, saved, artifact, worktree, replays, evidence>>,
         pc = "replay" => pc' = "throw", server' = FALSE,
         file' \in TierOrNone, savedTest' \in TierOrNone, budget' \in 0 .. MaxBudget,
         calls' \in Nat, calls' <= PaidOf(tier), calls' <= MaxPaid
  PROVE  HealInv'
<1> USE DEF HealInv
<1>1. TypeOK'
  BY DEF TypeOK, Pcs, InLoop
<1>2. Place'
  BY DEF Place, InLoop, TierCount
<1>3. Seen'
  BY DEF Seen, InLoop
<1>4. Winner'
  BY DEF Winner, Verified, InLoop
<1>5. Money'
  BY DEF Money, InLoop, Over, Place, PaidOf
<1> QED
  BY <1>1, <1>2, <1>3, <1>4, <1>5

\* The loop is left for the hand-off, with nothing paid for.
LEMMA GiveUpKeeps ==
  ASSUME HealInv, BudgetSpent \/ TransportFails
  PROVE  HealInv'
<1> USE DEF HealInv, BudgetSpent, TransportFails, money, sandbox, held
<1>1. TypeOK'
  <2>1. tier \in TierOrNone
    BY TiersAreFew DEF Place, InLoop, TierOrNone, TypeOK
  <2>2. last' \in [status : Statuses, tier : TierOrNone]
    BY <2>1 DEF TypeOK, Statuses
  <2>3. pc' \in Pcs
    BY DEF Pcs
  <2> QED
    BY <2>2, <2>3 DEF TypeOK
<1>2. Place'
  BY DEF Place, InLoop, TierCount
<1>3. Seen'
  BY DEF Seen, InLoop
<1>4. Winner'
  BY DEF Winner, Verified
<1>5. Money'
  <2>1. last'.status = "no-llm" => calls = 0
    BY TiersAreFew DEF Money, PaidOf, TypeOK, Over
  <2>2. BudgetSpent => plan.capped /\ budget = 0 /\ calls < MaxPaid
    BY TiersAreFew DEF NeedsBudget, IsFree, Money, PaidOf, Place, InLoop, TypeOK
  <2> QED
    BY <2>1, <2>2 DEF Money, InLoop, Over
<1> QED
  BY <1>1, <1>2, <1>3, <1>4, <1>5

LEMMA ServeKeeps ==
  ASSUME HealInv, Serve
  PROVE  HealInv'
<1> USE DEF HealInv, Serve, money, held
<1>1. TypeOK'
  <2>1. replays' \in [done : 0 .. Runs, loaded : 0 .. Runs, reproduced : 0 .. Runs, other : BOOLEAN]
    BY HealAssumption DEF NoReplays
  <2> QED
    BY <2>1 DEF TypeOK, Pcs
<1>2. Place'
  BY DEF Place, InLoop, TierCount
<1>3. Seen'
  BY TiersAreFew DEF Seen, InLoop, NoReplays, Place
<1>4. Winner'
  BY DEF Winner, Verified
<1>5. Money'
  BY DEF Money, InLoop, Over, Place, PaidOf
<1> QED
  BY <1>1, <1>2, <1>3, <1>4, <1>5

\* One more replay: the counters and the evidence of the tier move together.
LEMMA ReplayKeeps ==
  ASSUME HealInv, Replay
  PROVE  HealInv'
<1> USE DEF HealInv
<1>1. PICK signs \in SUBSET Signs :
        /\ replays' = [done |-> replays.done + 1,
                       loaded |-> replays.loaded + Count("loaded" \in signs),
                       reproduced |-> replays.reproduced + Count("reproduced" \in signs),
                       other |-> replays.other \/ "other" \in signs]
        /\ evidence' = [evidence EXCEPT ![tier] = @ \cup signs]
  BY DEF Replay
<1>2. /\ pc = "replay" /\ replays.done < Runs
      /\ UNCHANGED <<plan, money, pc, tier, last, held, worktree, file, server>>
  BY DEF Replay
<1>3. tier \in 1 .. MaxTiers
  BY <1>2, TiersAreFew DEF Place, InLoop, TypeOK
<1>4. /\ Count("loaded" \in signs) \in {0, 1} /\ Count("reproduced" \in signs) \in {0, 1}
      /\ Count("loaded" \in signs) > 0 => "loaded" \in signs
      /\ "reproduced" \in signs => Count("reproduced" \in signs) > 0
  BY DEF Count
<1>5. /\ evidence'[tier] = evidence[tier] \cup signs
      /\ \A t \in 1 .. MaxTiers : t # tier => evidence'[t] = evidence[t]
  BY <1>1, <1>3 DEF TypeOK
<1>6. /\ replays.done \in Nat /\ replays.loaded \in Nat /\ replays.reproduced \in Nat
      /\ replays.loaded <= replays.done /\ replays.reproduced <= replays.done
  BY <1>2, HealAssumption DEF TypeOK, Seen
<1>7. TypeOK'
  <2>1. evidence' \in [1 .. MaxTiers -> SUBSET Signs]
    BY <1>1, <1>3 DEF TypeOK
  <2>2. replays' \in [done : 0 .. Runs, loaded : 0 .. Runs, reproduced : 0 .. Runs, other : BOOLEAN]
    <3>1. /\ replays.done + 1 \in 0 .. Runs
          /\ replays.loaded + Count("loaded" \in signs) \in 0 .. Runs
          /\ replays.reproduced + Count("reproduced" \in signs) \in 0 .. Runs
      BY <1>2, <1>4, <1>6, HealAssumption
    <3>2. (replays.other \/ "other" \in signs) \in BOOLEAN
      OBVIOUS
    <3> QED
      BY <1>1, <3>1, <3>2
  <2> QED
    BY <1>2, <2>1, <2>2 DEF TypeOK, money, held
<1>8. Place'
  BY <1>2 DEF Place, InLoop, TierCount, money, held
<1>9. Seen'
  <2>1. /\ replays'.done = replays.done + 1
        /\ replays'.loaded = replays.loaded + Count("loaded" \in signs)
        /\ replays'.reproduced = replays.reproduced + Count("reproduced" \in signs)
        /\ replays'.other = (replays.other \/ "other" \in signs)
    BY <1>1
  <2>2. \A t \in 1 .. MaxTiers : t > tier => evidence'[t] = {}
    BY <1>5, TiersAreFew DEF Seen
  <2>3. replays'.loaded <= replays'.done /\ replays'.reproduced <= replays'.done
    BY <1>4, <1>6, <2>1
  <2>4. replays'.loaded > 0 => "loaded" \in evidence'[tier]
    BY <1>2, <1>4, <1>5, <1>6, <2>1 DEF Seen
  <2>5. "reproduced" \in evidence'[tier] => replays'.reproduced > 0
    BY <1>2, <1>4, <1>5, <1>6, <2>1 DEF Seen
  <2>6. "other" \in evidence'[tier] => replays'.other
    BY <1>2, <1>5, <2>1 DEF Seen
  <2> QED
    BY <1>2, <2>2, <2>3, <2>4, <2>5, <2>6 DEF Seen, MaxTiers
<1>10. Winner'
  <2>1. best.tier # None => best.tier \in 1 .. MaxTiers /\ best.tier # tier
    BY <1>3, TiersAreFew DEF Winner, None
  <2> QED
    BY <1>2, <1>5, <2>1 DEF Winner, Verified, held
<1>11. Money'
  BY <1>2 DEF Money, PaidOf, money, InLoop, Over
<1> QED
  BY <1>7, <1>8, <1>9, <1>10, <1>11

\* The verdict: what counts as fixed was verified, and its hunks are saved.
LEMMA JudgeKeeps ==
  ASSUME HealInv, Judge
  PROVE  HealInv'
<1> USE DEF HealInv
<1>1. /\ pc = "replay" /\ replays.done = Runs /\ server' = FALSE /\ saved' = tier
      /\ last' = [status |-> IF Fixed THEN "healed" ELSE "unfixed", tier |-> tier]
      /\ tier' = tier + 1 /\ pc' \in {"generate", "handoff"}
      /\ pc' = "generate" => tier < TierCount
      /\ UNCHANGED <<plan, money, savedTest, artifact, worktree, file, replays, evidence>>
  BY DEF Judge, AfterVerdict, AfterTier
<1>2. tier \in 1 .. MaxTiers /\ tier \in TierOrNone /\ tier' \in 1 .. MaxTiers + 1
  BY <1>1, TiersAreFew DEF Place, InLoop, TypeOK, TierOrNone
<1>3. \/ best' = best /\ (Fixed => best.tier # None)
      \/ Fixed /\ \E size \in 1 .. MaxSize : best' = [tier |-> tier, size |-> size]
  BY DEF Judge, Better
<1>4. Fixed => Verified(tier)
  BY <1>1 DEF Fixed, Seen, Verified
<1>5. TypeOK'
  <2>1. last' \in [status : Statuses, tier : TierOrNone]
    BY <1>1, <1>2 DEF Statuses
  <2>2. best' \in [tier : TierOrNone, size : 0 .. MaxSize]
    <3>1. CASE best' = best
      BY <3>1 DEF TypeOK
    <3>2. CASE \E size \in 1 .. MaxSize : best' = [tier |-> tier, size |-> size]
      BY <3>2, <1>2, HealAssumption
    <3> QED
      BY <1>3, <3>1, <3>2
  <2> QED
    BY <1>1, <1>2, <2>1, <2>2 DEF TypeOK, Pcs, money
<1>6. Place'
  BY <1>1, TiersAreFew DEF Place, InLoop, TierCount
<1>7. Seen'
  BY <1>1, <1>2, TiersAreFew DEF Seen, InLoop, MaxTiers
<1>8. Winner'
  <2>1. last'.status = "healed" => Fixed
    BY <1>1
  <2>2. best'.tier # None => best'.tier < tier' /\ Verified(best'.tier)
    <3>1. CASE best' = best
      BY <3>1, <1>1, TiersAreFew DEF Winner
    <3>2. CASE Fixed /\ best'.tier = tier
      BY <3>2, <1>1, <1>2, <1>4, TiersAreFew
    <3> QED
      BY <1>3, <3>1, <3>2
  <2>3. Fixed => best'.tier # None
    BY <1>2, <1>3 DEF None
  <2> QED
    BY <1>1, <2>1, <2>2, <2>3 DEF Winner, Verified
<1>9. Money'
  <2>1. last'.status \in {"healed", "unfixed"}
    BY <1>1
  <2>2. calls <= MaxPaid /\ calls <= PaidOf(tier) /\ UNCHANGED <<plan, budget, calls>>
    BY <1>1 DEF Money, InLoop, money
  <2>3. PaidOf(tier - 1)' = PaidOf(tier) /\ PaidOf(tier) <= PaidOf(tier)'
    BY <1>1, <2>2, TiersAreFew DEF PaidOf
  <2>4. PaidOf(tier) \in Nat /\ PaidOf(tier)' \in Nat /\ calls \in Nat
    BY <1>1, TiersAreFew DEF PaidOf, TypeOK
  <2> QED
    BY <1>1, <2>1, <2>2, <2>3, <2>4 DEF Money, InLoop, Over
<1> QED
  BY <1>5, <1>6, <1>7, <1>8, <1>9

LEMMA AfterKeeps ==
  ASSUME HealInv, HandOff \/ HandOffFails \/ Cleanup
  PROVE  HealInv'
<1> USE DEF HealInv
<1>1. CASE HandOff
  <2>1. /\ pc = "handoff" /\ pc' = "return" /\ last' = Verdict
        /\ saved' = IF best.tier # None THEN best.tier ELSE saved
        /\ \E diff \in {file, None} :
             artifact' = IF saved' # None THEN [patch |-> diff, json |-> saved'] ELSE artifact
        /\ UNCHANGED <<plan, money, tier, best, savedTest, sandbox>>
    BY <1>1 DEF HandOff
  <2>2. TypeOK'
    <3>1. best.tier \in TierOrNone /\ saved' \in TierOrNone
      BY <2>1 DEF TypeOK
    <3>2. last' \in [status : Statuses, tier : TierOrNone]
      BY <2>1, <3>1 DEF Verdict, TypeOK, Statuses
    <3>3. artifact' \in [patch : TierOrNone, json : TierOrNone]
      BY <2>1, <3>1, TiersAreFew DEF TypeOK, TierOrNone, None
    <3> QED
      BY <2>1, <3>1, <3>2, <3>3 DEF TypeOK, Pcs, money, sandbox
  <2>3. Place'
    BY <2>1 DEF Place, InLoop, sandbox
  <2>4. Seen'
    BY <2>1 DEF Seen, InLoop, sandbox
  <2>5. Winner'
    <3>1. CASE best.tier # None
      BY <2>1, <3>1 DEF Winner, Verified, Verdict, sandbox
    <3>2. CASE best.tier = None
      BY <2>1, <3>2 DEF Winner, Verified, Verdict, sandbox
    <3> QED
      BY <3>1, <3>2
  <2>6. Money'
    BY <2>1 DEF Money, Verdict, InLoop, Over, money
  <2> QED
    BY <2>2, <2>3, <2>4, <2>5, <2>6
<1>2. CASE HandOffFails \/ Cleanup
  <2>1. /\ pc \in Over /\ pc' \in Over \ {"handoff", "return"}
        /\ pc' = "returned" => pc = "return"
        /\ pc' \in {"returned", "thrown"} => worktree' = "none"
        /\ worktree' \in {worktree, "none"}
        /\ UNCHANGED <<plan, money, tier, last, held, file, server, replays, evidence>>
    BY <1>2 DEF HandOffFails, Cleanup, Over, sandbox
  <2>2. TypeOK'
    BY <2>1 DEF TypeOK, Pcs, Over, money, held
  <2>3. Place'
    BY <2>1 DEF Place, InLoop, Over
  <2>4. Seen'
    BY <2>1 DEF Seen, InLoop, Over
  <2>5. Winner'
    BY <2>1 DEF Winner, Verified, Over, held
  <2>6. Money'
    BY <2>1 DEF Money, InLoop, Over, money
  <2> QED
    BY <2>2, <2>3, <2>4, <2>5, <2>6
<1> QED
  BY <1>1, <1>2

\* A generation is within the tiers' number and the budget.
LEMMA ChargeIsBounded ==
  ASSUME HealInv, pc = "generate", Charge
  PROVE  /\ budget' \in 0 .. MaxBudget /\ calls' \in Nat
         /\ calls' <= PaidOf(tier) /\ calls' <= MaxPaid
<1>1. budget' \in 0 .. MaxBudget
  BY HealAssumption DEF HealInv, TypeOK, Charge
<1>2. calls' \in Nat /\ calls' <= PaidOf(tier) /\ calls' <= MaxPaid
  BY TiersAreFew DEF HealInv, TypeOK, Charge, IsFree, PaidOf, Money, Place, InLoop
<1> QED
  BY <1>1, <1>2

LEMMA HealStep == HealInv /\ [HealNext]_healVars => HealInv'
<1> SUFFICES ASSUME HealInv, [HealNext]_healVars PROVE HealInv'
  OBVIOUS
<1>a. /\ budget \in 0 .. MaxBudget /\ calls \in Nat /\ calls <= MaxPaid
      /\ pc \in InLoop => calls <= PaidOf(tier)
      /\ savedTest \in TierOrNone /\ file \in TierOrNone
      /\ server => pc = "replay"
      /\ server \in BOOLEAN
      /\ pc \in InLoop => tier \in TierOrNone
  BY TiersAreFew DEF HealInv, TypeOK, Money, Place, InLoop, TierOrNone
<1>1. CASE UNCHANGED healVars
  BY <1>1 DEF healVars, HealInv, TypeOK, Place, Seen, Winner, Verified, Money, PaidOf, TierCount
<1>2. CASE RefuseFinding \/ NothingToTry \/ CreateWorktree \/ CreateWorktreeFails
  BY <1>2, BeforeKeeps
<1>3. CASE BudgetSpent \/ TransportFails
  BY <1>3, GiveUpKeeps
<1>4. CASE Generate
  <2>1. /\ budget' \in 0 .. MaxBudget /\ calls' \in Nat
        /\ calls' <= PaidOf(tier) /\ calls' <= MaxPaid
    BY <1>4, ChargeIsBounded DEF Generate
  <2>2. CASE Fail("rejected")
    BY <1>4, <2>1, <2>2, <1>a, FailKeeps DEF Generate, held, InLoop, Statuses
  <2>3. CASE pc' = "gate" /\ UNCHANGED <<tier, last>>
    BY <1>4, <2>1, <2>3, <1>a, StageKeeps DEF Generate, held, sandbox, InLoop
  <2> QED
    BY <1>4, <2>2, <2>3 DEF Generate
<1>5. CASE GateRefuses
  BY <1>5, <1>a, FailKeeps DEF GateRefuses, money, held, InLoop, Statuses
<1>6. CASE WritePatch
  BY <1>6, <1>a, StageKeeps DEF WritePatch, money, held, InLoop
<1>7. CASE WriteFails \/ ServeFails
  BY <1>7, <1>a, StageKeeps DEF WriteFails, ServeFails, money, held, sandbox, InLoop
<1>8. CASE Compile
  <2>1. CASE Fail("compile-failed")
    BY <1>8, <2>1, <1>a, FailKeeps DEF Compile, money, held, InLoop, Statuses
  <2>2. CASE pc' = "test" /\ UNCHANGED <<tier, last>>
    BY <1>8, <2>2, <1>a, StageKeeps DEF Compile, money, held, sandbox, InLoop
  <2> QED
    BY <1>8, <2>1, <2>2 DEF Compile
<1>9. CASE RunTests
  <2>1. CASE Fail("test-failed") /\ savedTest' = tier
    BY <1>9, <2>1, <1>a, FailKeeps DEF RunTests, money, InLoop, Statuses
  <2>2. CASE pc' = "serve" /\ UNCHANGED <<tier, last>> /\ savedTest' \in {savedTest, tier}
    BY <1>9, <2>2, <1>a, StageKeeps DEF RunTests, money, sandbox, InLoop
  <2> QED
    BY <1>9, <2>1, <2>2 DEF RunTests
<1>10. CASE Serve
  BY <1>10, ServeKeeps
<1>11. CASE Replay
  BY <1>11, ReplayKeeps
<1>12. CASE ReplayFails
  BY <1>12, <1>a, StageKeeps DEF ReplayFails, money, held, InLoop
<1>13. CASE Judge
  BY <1>13, JudgeKeeps
<1>14. CASE HandOff \/ HandOffFails \/ Cleanup
  BY <1>14, AfterKeeps
<1> QED
  BY <1>1, <1>2, <1>3, <1>4, <1>5, <1>6, <1>7, <1>8, <1>9, <1>10, <1>11, <1>12, <1>13, <1>14
  DEF HealNext

LEMMA HealAlways == HealSpec => []HealInv
BY HealStarts, HealStep, PTL DEF HealSpec

-----------------------------------------------------------------------------

\* What is in the worktree: the patch of the tier that is being judged, which
\* no earlier tier overwrites; without consensus a fix is the last one written.
Written ==
  /\ pc \in {"compile", "test", "serve", "replay"} => file = tier
  /\ best.tier # None => file >= best.tier
  /\ best.tier # None /\ ~plan.consensus => pc \in Over /\ file = best.tier
  /\ pc \in {"return", "returned"} /\ last.status = "healed" => artifact.patch \in {file, None}

LEMMA WrittenStep == HealInv /\ Written /\ [HealNext]_healVars => Written'
<1> SUFFICES ASSUME HealInv, Written, [HealNext]_healVars PROVE Written'
  OBVIOUS
<1>a. /\ tier \in Nat /\ file \in Nat /\ best.tier \in Nat
      /\ best.tier # None => best.tier < tier
      /\ pc = "start" => last.status = "skipped"
  BY TiersAreFew DEF HealInv, TypeOK, TierOrNone, Winner, Place, Skipped
<1> USE DEF Written, Over
<1>1. CASE UNCHANGED healVars
  BY <1>1 DEF healVars
<1>2. CASE RefuseFinding \/ NothingToTry \/ CreateWorktree \/ CreateWorktreeFails
  BY <1>a, <1>2 DEF RefuseFinding, NothingToTry, CreateWorktree, CreateWorktreeFails,
                    held, sandbox, Skipped
<1>3. CASE BudgetSpent \/ TransportFails
  BY <1>3 DEF BudgetSpent, TransportFails, held, sandbox
<1>4. CASE Generate \/ GateRefuses \/ WriteFails \/ Compile
  BY <1>4 DEF Generate, GateRefuses, WriteFails, Compile, Fail, AfterTier, held, sandbox
<1>5. CASE WritePatch
  BY <1>a, <1>5 DEF WritePatch, held
<1>6. CASE RunTests
  BY <1>6 DEF RunTests, Fail, AfterTier, sandbox
<1>7. CASE Serve \/ ServeFails \/ Replay \/ ReplayFails
  BY <1>7 DEF Serve, ServeFails, Replay, ReplayFails, held, sandbox
<1>8. CASE Judge
  <2>1. /\ pc = "replay" /\ file = tier /\ file' = file /\ plan' = plan
        /\ pc' \in {"generate", "handoff"} /\ artifact' = artifact
        /\ best' = best \/ (Fixed /\ best'.tier = tier)
    BY <1>8 DEF Judge, AfterVerdict, AfterTier
  <2>2. best' # best /\ ~plan.consensus => pc' = "handoff"
    BY <1>8, <2>1 DEF Judge, AfterVerdict
  <2>3. ~plan.consensus => best.tier = None
    BY <2>1
  <2>4. CASE best' = best
    BY <1>a, <2>1, <2>3, <2>4
  <2>5. CASE best' # best
    BY <1>a, <2>1, <2>2, <2>5
  <2> QED BY <2>4, <2>5
<1>9. CASE HandOff
  <2>1. last'.status = "healed" => best.tier # None
    BY <1>9 DEF HandOff, Verdict, HealInv, Winner
  <2>2. best.tier # None => artifact'.patch \in {file, None}
    BY <1>9 DEF HandOff
  <2> QED
    BY <1>9, <2>1, <2>2 DEF HandOff, sandbox
<1>10. CASE HandOffFails \/ Cleanup
  BY <1>10 DEF HandOffFails, Cleanup, held, sandbox
<1> QED
  BY <1>1, <1>2, <1>3, <1>4, <1>5, <1>6, <1>7, <1>8, <1>9, <1>10 DEF HealNext

\* A "healed" result is a patch whose own replays loaded the app and showed
\* neither the bug nor, unless it is matched by type, another error; its hunks
\* and its .json artifact are that patch's, also when later tiers were tried;
\* its .patch artifact is too, except that under consensus it may be of a later
\* tier (heal/index.ts, the loop over the tiers and the hand-off).
THEOREM HandedOffIsVerifiedHolds == HealSpec => []HandedOffIsVerified
<1>1. HealInit => Written
  BY DEF HealInit, Written, NoBest, Skipped
<1>2. HealInv /\ Written => HandedOffIsVerified
  <2> SUFFICES ASSUME HealInv, Written PROVE HandedOffIsVerified
    OBVIOUS
  <2>1. TypeOK /\ HealedIsVerified /\ WinnerIsSaved
    BY DEF HealInv, HealedIsVerified, WinnerIsSaved, Healed, Winner, Verified
  <2>2. Healed => best.tier # None /\ last.tier = best.tier /\ artifact.patch \in {file, None}
    BY DEF HealInv, Winner, Written, Healed
  <2>3. PatchIsLastWritten
    BY <2>2 DEF Written, PatchIsLastWritten
  <2> QED
    BY <2>1, <2>3 DEF HandedOffIsVerified
<1> QED
  BY HealAlways, WrittenStep, <1>1, <1>2, PTL DEF HealSpec

\* However heal() ends, by its return or by a throw, the app it served is
\* stopped and the worktree it made removed (heal/index.ts, the finally block).
THEOREM SandboxRemovedHolds == HealSpec => []SandboxRemoved
<1>1. HealInv => SandboxRemoved
  BY DEF HealInv, Place, SandboxRemoved
<1> QED
  BY HealAlways, <1>1, PTL

-----------------------------------------------------------------------------
(* heal() implements its contract.                                          *)

\* Before its end a heal is running, and charges nothing but a generation.
LEMMA RunsOn ==
  ASSUME pc \notin {"returned", "thrown"}, pc' \notin {"returned", "thrown"},
         UNCHANGED <<plan, budget, calls>>
  PROVE  UNCHANGED Contract!vars
BY DEF Contract!vars, Outcome

\* The last status is truthful when the call ends.
LEMMA EndIsTruthful ==
  ASSUME HealInv, pc \notin {"returned", "thrown"}, UNCHANGED <<plan, budget, calls>>,
         pc' \in {"returned", "thrown"},
         last'.status = "no-llm" => calls = 0,
         last'.status = "budget-exhausted" => plan.capped /\ budget = 0 /\ calls < MaxPaid
  PROVE  Contract!Next
<1>1. Outcome = "running"
  BY DEF Outcome
<1>2. /\ Outcome' \in Contract!Outcomes
      /\ Outcome' = "no-llm" => last'.status = "no-llm"
      /\ Outcome' = "budget-exhausted" => last'.status = "budget-exhausted"
  <2>1. CASE pc' = "thrown"
    BY <2>1 DEF Outcome, Contract!Outcomes
  <2>2. CASE pc' = "returned"
    BY <2>2 DEF Outcome, Contract!Outcomes
  <2> QED
    BY <2>1, <2>2
<1>3. Contract!Finish(Outcome')
  BY <1>1, <1>2 DEF Contract!Finish
<1> QED
  BY <1>2, <1>3 DEF Contract!Next

LEMMA ContractInit == HealInit => Contract!Init
BY HealAssumption DEF HealInit, Plans, Contract!Init, Outcome

LEMMA ContractStep == HealInv /\ [HealNext]_healVars => [Contract!Next]_(Contract!vars)
<1> SUFFICES ASSUME HealInv, [HealNext]_healVars PROVE [Contract!Next]_(Contract!vars)
  OBVIOUS
<1>1. CASE UNCHANGED healVars
  BY <1>1 DEF healVars, Contract!vars, Outcome
<1>2. CASE RefuseFinding \/ NothingToTry \/ CreateWorktreeFails
  <2>1. /\ pc = "start" /\ pc' \in {"returned", "thrown"} /\ UNCHANGED <<plan, budget, calls>>
        /\ calls = 0 /\ last'.status \in {"skipped", "no-llm"}
    BY <1>2 DEF RefuseFinding, NothingToTry, CreateWorktreeFails, money, HealInv, Place, Skipped
  <2> QED
    BY <2>1, EndIsTruthful
<1>3. CASE Generate
  <2>1. /\ pc = "generate" /\ pc' \in {"gate", "generate", "handoff"} /\ UNCHANGED plan
        /\ Charge
    BY <1>3 DEF Generate, Fail, AfterTier
  <2>2. Outcome = "running" /\ Outcome' = "running"
    BY <2>1 DEF Outcome
  <2>3. CASE IsFree(tier)
    BY <2>1, <2>2, <2>3 DEF Charge, NeedsBudget, Contract!vars
  <2>4. CASE ~IsFree(tier)
    <3>1. calls < MaxPaid
      BY <2>1, <2>4, TiersAreFew DEF HealInv, IsFree, Money, PaidOf, Place, InLoop, TypeOK
    <3>2. Contract!Pay
      BY <2>1, <2>2, <2>4, <3>1 DEF Contract!Pay, Charge, NeedsBudget
    <3> QED
      BY <3>2 DEF Contract!Next
  <2> QED
    BY <2>3, <2>4
<1>4. CASE Cleanup
  <2>1. /\ pc \in {"return", "throw"} /\ pc' \in {"returned", "thrown"}
        /\ UNCHANGED <<plan, budget, calls, last>>
    BY <1>4 DEF Cleanup, money
  <2> QED
    BY <2>1, EndIsTruthful DEF HealInv, Money
<1>5. CASE \/ CreateWorktree \/ BudgetSpent \/ TransportFails \/ GateRefuses \/ WritePatch
           \/ WriteFails \/ Compile \/ RunTests \/ Serve \/ ServeFails \/ Replay
           \/ ReplayFails \/ Judge \/ HandOff \/ HandOffFails
  <2>1. /\ pc \notin {"returned", "thrown"} /\ pc' \notin {"returned", "thrown"}
        /\ UNCHANGED <<plan, budget, calls>>
    BY <1>5 DEF CreateWorktree, BudgetSpent, TransportFails, GateRefuses, WritePatch, WriteFails,
       Compile, RunTests, Serve, ServeFails, Replay, ReplayFails, Judge, HandOff, HandOffFails,
       Fail, AfterTier, AfterVerdict, money
  <2> QED
    BY <2>1, RunsOn
<1> QED
  BY <1>1, <1>2, <1>3, <1>4, <1>5 DEF HealNext

\* heal() charges one generation at a time, at most one for each paid model and
\* never from a spent budget, and its final status says truthfully whether a
\* model was asked and why none was (heal/index.ts and heal/llm.ts).
THEOREM ImplementsContractHolds == HealSpec => ImplementsContract
BY HealAlways, ContractInit, ContractStep, PTL DEF HealSpec, ImplementsContract, Contract!Spec

-----------------------------------------------------------------------------
(* The dev server.                                                          *)

Early == {"resolve", "boot", "failed"}

\* One caller kills, and no caller is counted twice.
CloseInv ==
  /\ ServerTypeOK
  /\ closer # "none" => source = "booted"
  /\ source = "booted" /\ closer = "none" => returned = {}
  /\ closer # "none" => group \in {"asked", "killed", "gone"}
  /\ source = "booted" => group # "none"
  /\ killing => closer # "none" /\ closer \notin returned
  /\ ClosedMeansKilled
  /\ closer # "stop" /\ closer \notin armed
  /\ phase \in {"resolve", "boot"} => closer = "none" /\ returned = {}
  /\ phase = "boot" => source = "booted"
  /\ phase = "failed" => closer = "boot"
  /\ phase \in Early => armed = {}
  /\ phase = "work" => closer # "main"

LEMMA CloseInit == ServerInit => CloseInv
BY HostsAssumption DEF ServerInit, CloseInv, ServerTypeOK, ClosedMeansKilled, Phases, Early, Callers,
   Signals

\* A caller that has not closed yet may do so.
LEMMA CloseKeeps ==
  ASSUME CloseInv, NEW c \in Callers \ {"stop"}, c # closer, Close(c)
  PROVE  /\ closer' # "none" => source = "booted"
         /\ source = "booted" => closer' # "none"
         /\ killing' => closer' # "none" /\ closer' \notin returned'
         /\ closer' \in returned' => group' \in {"killed", "gone"}
         /\ closer' # "none" => group' \in {"asked", "killed", "gone"}
         /\ source = "booted" /\ returned' # {} => group' # "up"
         /\ closer' \in {closer, c}
         /\ closer' \in Callers \cup {"none"} /\ killing' \in BOOLEAN
         /\ returned' \subseteq Callers /\ group' \in {"none", "up", "asked", "killed", "gone"}
BY DEF CloseInv, ServerTypeOK, ClosedMeansKilled, Close, Asked, Callers, Signals

LEMMA ResolveKeeps ==
  ASSUME CloseInv, Attach \/ NoTarget \/ Boot \/ Ready
  PROVE  CloseInv'
<1> USE DEF CloseInv, ServerTypeOK, ClosedMeansKilled, closing, Early, Phases, Signals, Callers,
            WatchHandlers
<1>1. CASE Attach
  BY <1>1 DEF Attach
<1>2. CASE NoTarget
  BY <1>2 DEF NoTarget
<1>3. CASE Boot
  BY <1>3 DEF Boot
<1>4. CASE Ready
  BY <1>4 DEF Ready
<1> QED
  BY <1>1, <1>2, <1>3, <1>4

LEMMA HandleKeeps ==
  ASSUME CloseInv, NEW s \in Signals, Handle(s)
  PROVE  CloseInv'
<1>1. /\ s \in armed /\ armed' = armed \ {s} /\ UNCHANGED <<host, phase, source, stubborn>>
      /\ phase \notin Early /\ s # closer
  BY DEF Handle, CloseInv
<1>2. CASE host = "watch" /\ source = "booted" /\ closer = "none"
  <2>1. closer' = s /\ killing' = TRUE /\ group' = Asked /\ returned' = returned \cup {"stop"}
    BY <1>2 DEF Handle
  <2>2. returned = {}
    BY <1>2 DEF CloseInv
  <2> QED
    BY <1>1, <1>2, <2>1, <2>2 DEF CloseInv, ServerTypeOK, ClosedMeansKilled, Asked, Early, Callers,
       Signals
<1>3. CASE host = "watch" /\ ~(source = "booted" /\ closer = "none")
  <2>1. returned' = returned \cup {"stop"} /\ UNCHANGED <<closer, killing, group>>
    BY <1>3 DEF Handle, Close
  <2> QED
    BY <1>1, <1>3, <2>1 DEF CloseInv, ServerTypeOK, ClosedMeansKilled, Early, Callers, Signals
<1>4. CASE host # "watch"
  <2>1. Close(s) /\ s \in Callers \ {"stop"}
    BY <1>4 DEF Handle, Callers, Signals
  <2> QED
    BY <1>1, <2>1, CloseKeeps DEF CloseInv, ServerTypeOK, ClosedMeansKilled, Early, Signals
<1> QED
  BY <1>2, <1>3, <1>4

LEMMA FinishKeeps ==
  ASSUME CloseInv, BootTimesOut \/ BootFails \/ Finish \/ Disconnect
  PROVE  CloseInv'
<1> USE DEF Early, Phases
<1>1. CASE BootTimesOut
  <2>1. Close("boot") /\ "boot" \in Callers \ {"stop"} /\ closer = "none"
    BY <1>1 DEF BootTimesOut, CloseInv, Callers, Signals
  <2> QED
    BY <1>1, <2>1, CloseKeeps DEF BootTimesOut, CloseInv, ServerTypeOK, ClosedMeansKilled
<1>2. CASE BootFails
  <2>1. closer = "boot" /\ ~killing
    BY <1>2 DEF BootFails, CloseInv
  <2> QED
    BY <1>2, <2>1 DEF BootFails, CloseInv, ServerTypeOK, ClosedMeansKilled, WatchHandlers, Signals
<1>3. CASE Finish
  <2>1. Close("main") /\ "main" \in Callers \ {"stop"} /\ closer # "main"
    BY <1>3 DEF Finish, CloseInv, Callers, Signals
  <2>2. "main" \notin armed
    BY DEF CloseInv, ServerTypeOK, Signals
  <2> QED
    BY <1>3, <2>1, <2>2, CloseKeeps DEF Finish, CloseInv, ServerTypeOK, ClosedMeansKilled
<1>4. CASE Disconnect
  <2>1. Close("disconnect") /\ "disconnect" \in Callers \ {"stop"} /\ closer # "disconnect"
    BY <1>4 DEF Disconnect, Callers, Signals
  <2>2. "disconnect" \notin armed
    BY DEF CloseInv, ServerTypeOK, Signals
  <2> QED
    BY <1>4, <2>1, <2>2, CloseKeeps DEF Disconnect, CloseInv, ServerTypeOK, ClosedMeansKilled
<1> QED
  BY <1>1, <1>2, <1>3, <1>4

LEMMA ServerKeeps ==
  ASSUME CloseInv, ServerNext
  PROVE  CloseInv'
<1>1. CASE Attach \/ NoTarget \/ Boot \/ Ready
  BY <1>1, ResolveKeeps
<1>2. CASE BootTimesOut \/ BootFails \/ Finish \/ Disconnect
  BY <1>2, FinishKeeps
<1>3. CASE \E s \in Signals : Handle(s)
  BY <1>3, HandleKeeps
<1>4. CASE ExitWithoutClose \/ Exit \/ \E s \in Signals : Die(s)
  <2>1. /\ phase' \in {"exited", "killed"}
        /\ UNCHANGED <<host, source, group, stubborn, armed, closing>>
    BY <1>4 DEF ExitWithoutClose, Exit, Die
  <2> QED
    BY <2>1 DEF CloseInv, ServerTypeOK, ClosedMeansKilled, closing, Phases, Early
<1>5. CASE GroupExits
  BY <1>5 DEF GroupExits, CloseInv, ServerTypeOK, ClosedMeansKilled, closing
<1>6. CASE SomebodyStarts
  <2>1. closer = "none" /\ closer \notin returned
    BY <1>6 DEF SomebodyStarts, CloseInv, ServerTypeOK, Callers, Signals
  <2> QED
    BY <1>6, <2>1 DEF SomebodyStarts, CloseInv, ServerTypeOK, ClosedMeansKilled, closing
<1>7. CASE Escalate \/ KillTreeReturns
  BY <1>7 DEF Escalate, KillTreeReturns, closing, CloseInv, ServerTypeOK, ClosedMeansKilled
<1> QED
  BY <1>1, <1>2, <1>3, <1>4, <1>5, <1>6, <1>7 DEF ServerNext

\* Every step of the server leaves its phase at least where it was, and only
\* the resolution of the target sets a source.
LEMMA LateIsLate ==
  ASSUME CloseInv, ServerNext, phase \notin Early
  PROVE  phase' \notin Early /\ source' = source
BY DEF ServerNext, Attach, NoTarget, Boot, Ready, BootTimesOut, BootFails, Finish,
   ExitWithoutClose, Disconnect, Handle, Die, GroupExits, SomebodyStarts, Escalate, KillTreeReturns, Exit, Early

LEMMA DeadIsDead ==
  ASSUME ServerNext, ~Running
  PROVE  ~Running' /\ ~Finish
BY DEF ServerNext, Attach, NoTarget, Boot, Ready, BootTimesOut, BootFails, Finish,
   ExitWithoutClose, Disconnect, Handle, Die, GroupExits, SomebodyStarts, Escalate, KillTreeReturns, Exit, Running

-----------------------------------------------------------------------------
(* The watcher and the spawned scan have the same server.                   *)

\* The server of the watcher is this one.
LEMMA SameW ==
  /\ W!Attach <=> Attach
  /\ W!NoTarget <=> NoTarget
  /\ W!Boot <=> Boot
  /\ W!Ready <=> Ready
  /\ W!BootTimesOut <=> BootTimesOut
  /\ W!BootFails <=> BootFails
  /\ W!Finish <=> Finish
  /\ W!ExitWithoutClose <=> ExitWithoutClose
  /\ W!Disconnect <=> Disconnect
  /\ W!GroupExits <=> GroupExits
  /\ W!SomebodyStarts <=> SomebodyStarts
  /\ W!Escalate <=> Escalate
  /\ W!KillTreeReturns <=> KillTreeReturns
  /\ W!Exit <=> Exit
  /\ \A s : (W!Handle(s) <=> Handle(s)) /\ (W!Die(s) <=> Die(s))
  /\ (W!ServerInit <=> ServerInit) /\ (W!Running <=> Running)
<1>1. (W!Attach <=> Attach) /\ (W!NoTarget <=> NoTarget) /\ (W!Boot <=> Boot) /\ (W!Ready <=> Ready)
  BY DEF Attach, W!Attach, NoTarget, W!NoTarget, Boot, W!Boot, Ready, W!Ready, WatchHandlers,
         W!WatchHandlers, Signals, W!Signals, closing, W!closing
<1>2. (W!BootTimesOut <=> BootTimesOut) /\ (W!BootFails <=> BootFails) /\ (W!Finish <=> Finish)
     /\ (W!Disconnect <=> Disconnect)
  BY DEF BootTimesOut, W!BootTimesOut, BootFails, W!BootFails, Finish, W!Finish, Disconnect,
         W!Disconnect, Close, W!Close, Asked, W!Asked, WatchHandlers, W!WatchHandlers, Signals,
         W!Signals, closing, W!closing
<1>3. (W!ExitWithoutClose <=> ExitWithoutClose) /\ (W!GroupExits <=> GroupExits) /\
     (W!SomebodyStarts <=> SomebodyStarts) /\ (W!Escalate <=> Escalate) /\
     (W!KillTreeReturns <=> KillTreeReturns) /\ (W!Exit <=> Exit)
  BY DEF ExitWithoutClose, W!ExitWithoutClose, GroupExits, W!GroupExits, SomebodyStarts,
         W!SomebodyStarts, Escalate, W!Escalate, KillTreeReturns, W!KillTreeReturns, Exit, W!Exit, Running, W!Running,
         closing, W!closing
<1>4. \A s : (W!Handle(s) <=> Handle(s)) /\ (W!Die(s) <=> Die(s))
  BY DEF Handle, W!Handle, Die, W!Die, Running, W!Running, Close, W!Close, Asked, W!Asked,
         closing, W!closing
<1>5. (W!ServerInit <=> ServerInit) /\ (W!Running <=> Running)
  BY DEF ServerInit, W!ServerInit, Running, W!Running
<1> QED
  BY <1>1, <1>2, <1>3, <1>4, <1>5

\* The server of a spawned scan is this one.
LEMMA SameP ==
  /\ P!Attach <=> Attach
  /\ P!NoTarget <=> NoTarget
  /\ P!Boot <=> Boot
  /\ P!Ready <=> Ready
  /\ P!BootTimesOut <=> BootTimesOut
  /\ P!BootFails <=> BootFails
  /\ P!Finish <=> Finish
  /\ P!ExitWithoutClose <=> ExitWithoutClose
  /\ P!Disconnect <=> Disconnect
  /\ P!GroupExits <=> GroupExits
  /\ P!SomebodyStarts <=> SomebodyStarts
  /\ P!Escalate <=> Escalate
  /\ P!KillTreeReturns <=> KillTreeReturns
  /\ P!Exit <=> Exit
  /\ \A s : (P!Handle(s) <=> Handle(s)) /\ (P!Die(s) <=> Die(s))
  /\ (P!ServerInit <=> ServerInit) /\ (P!Running <=> Running)
<1>1. (P!Attach <=> Attach) /\ (P!NoTarget <=> NoTarget) /\ (P!Boot <=> Boot) /\ (P!Ready <=> Ready)
  BY DEF Attach, P!Attach, NoTarget, P!NoTarget, Boot, P!Boot, Ready, P!Ready, WatchHandlers,
         P!WatchHandlers, Signals, P!Signals, closing, P!closing
<1>2. (P!BootTimesOut <=> BootTimesOut) /\ (P!BootFails <=> BootFails) /\ (P!Finish <=> Finish)
     /\ (P!Disconnect <=> Disconnect)
  BY DEF BootTimesOut, P!BootTimesOut, BootFails, P!BootFails, Finish, P!Finish, Disconnect,
         P!Disconnect, Close, P!Close, Asked, P!Asked, WatchHandlers, P!WatchHandlers, Signals,
         P!Signals, closing, P!closing
<1>3. (P!ExitWithoutClose <=> ExitWithoutClose) /\ (P!GroupExits <=> GroupExits) /\
     (P!SomebodyStarts <=> SomebodyStarts) /\ (P!Escalate <=> Escalate) /\
     (P!KillTreeReturns <=> KillTreeReturns) /\ (P!Exit <=> Exit)
  BY DEF ExitWithoutClose, P!ExitWithoutClose, GroupExits, P!GroupExits, SomebodyStarts,
         P!SomebodyStarts, Escalate, P!Escalate, KillTreeReturns, P!KillTreeReturns, Exit, P!Exit, Running, P!Running,
         closing, P!closing
<1>4. \A s : (P!Handle(s) <=> Handle(s)) /\ (P!Die(s) <=> Die(s))
  BY DEF Handle, P!Handle, Die, P!Die, Running, P!Running, Close, P!Close, Asked, P!Asked,
         closing, P!closing
<1>5. (P!ServerInit <=> ServerInit) /\ (P!Running <=> Running)
  BY DEF ServerInit, P!ServerInit, Running, P!Running
<1> QED
  BY <1>1, <1>2, <1>3, <1>4, <1>5

-----------------------------------------------------------------------------
(* The command.                                                             *)

WatchInv ==
  /\ Typed => W!TypeOK
  /\ ~Typed => W!QueueInit
  /\ W!QueueIsServed /\ W!NothingSilenced
  /\ step # "idle" => phase \notin Early
  /\ step = "attach" => source = "none"

\* Nothing runs before the spawn, and a push is judged after the scan.
LinkInv ==
  /\ ~Typed /\ state \in {"idle", "wait"} => channel = "none"
  /\ ~Typed /\ channel = "none" => phase = "resolve"
  /\ ~Typed /\ state = "wait" => parent # "hook"
  /\ state = "scan" /\ parent = "hook" => decision = "scan"
  /\ PushIsJudged
  /\ outcome = "blocked" => ~Running

ServeInv == CloseInv /\ WatchInv /\ LinkInv

LEMMA ServeInit == Init => ServeInv
<1> SUFFICES ASSUME Init PROVE ServeInv
  OBVIOUS
<1>1. ServerInit /\ W!QueueInit /\ P!LinkInit
  BY SameW, SameP DEF Init, InTerminal, Spawned, W!Init, P!Init
<1>2. CloseInv
  BY <1>1, CloseInit
<1>3. WatchInv
  <2>0. W!ServerTypeOK
    BY <1>2 DEF CloseInv, ServerTypeOK, W!ServerTypeOK, Phases, W!Phases, Callers, W!Callers,
       Signals, W!Signals
  <2>1. W!TypeOK
    <3>1. timer = W!Empty /\ pending = W!Empty /\ scope = {} /\ newest = {} /\ fate = "none"
      BY <1>1 DEF W!QueueInit
    <3>0. W!Empty \in W!Queues
      BY DEF W!Empty, W!Queues
    <3>2. dirty = FALSE /\ pumps = 0 /\ step = "idle" /\ saves \in 0 .. MaxSaves
      BY <1>1, ServeAssumption DEF W!QueueInit
    <3>3. fresh = {} /\ reported = {} /\ shown = {}
      BY <1>1 DEF W!QueueInit
    <3>4. /\ timer \in W!Queues /\ pending \in W!Queues /\ scope \subseteq Files
          /\ newest \subseteq Files /\ fate \in W!Fates
      BY <3>0, <3>1 DEF W!Fates
    <3>5. fresh \subseteq Bugs /\ reported \subseteq Bugs /\ shown \subseteq Bugs
      BY <3>3
    <3>6. pumps \in 0 .. 1 /\ step \in W!Steps
      BY <3>2 DEF W!Steps
    <3>7. dirty \in BOOLEAN
      BY <3>2
    <3> QED
      BY <2>0, <3>2, <3>4, <3>5, <3>6, <3>7 DEF W!TypeOK
  <2>2. W!QueueIsServed /\ W!NothingSilenced /\ step = "idle"
    BY <1>1 DEF W!QueueInit, W!QueueIsServed, W!NothingSilenced, W!Empty
  <2> QED
    BY <1>1, <2>1, <2>2 DEF WatchInv
<1>4. LinkInv
  BY <1>1 DEF P!LinkInit, ServerInit, LinkInv, PushIsJudged, P!SkipIsSafe, P!BlockedByCrashOnly
<1> QED
  BY <1>2, <1>3, <1>4 DEF ServeInv

\* The queue while the server moves.
LEMMA WatchIsLeftAlone ==
  ASSUME CloseInv, CloseInv', WatchInv, ServerNext, UNCHANGED <<watchVars, parent>>
  PROVE  WatchInv'
<1>1. Typed => W!TypeOK'
  BY DEF WatchInv, Typed, W!TypeOK, watchVars, CloseInv, ServerTypeOK, W!ServerTypeOK,
     Phases, W!Phases, Callers, W!Callers, Signals, W!Signals
<1>2. step' # "idle" => phase' \notin Early /\ source' = source
  BY LateIsLate DEF WatchInv, watchVars
<1> QED
  BY <1>1, <1>2 DEF WatchInv, Typed, watchVars, W!QueueInit, W!QueueIsServed, W!NothingSilenced

\* What the watcher does with its queue.
LEMMA WatcherKeeps ==
  ASSUME CloseInv, WatchInv, Typed, UNCHANGED parent,
         W!WatchStep \/ \E f \in Files : W!Save(f)
  PROVE  CloseInv' /\ WatchInv'
<1>1. W!TypeOK /\ phase \notin Early /\ phase = "work"
  BY DEF WatchInv, W!WatchStep, W!TimerFires, W!BeginCycle, W!PumpEnds, W!AttachLate, W!Audit,
     W!AuditFails, W!AllShown, W!HealReturns, W!HealFails, W!Hang, W!Alert, W!Save, W!Watching, Early
<1>2. CASE W!AttachLate
  <2>1. source = "none" /\ closer = "none" /\ source' \in {"none", "attached"}
        /\ UNCHANGED <<host, phase, group, stubborn, armed, closing>>
    BY <1>2 DEF W!AttachLate, W!closing, closing, WatchInv, CloseInv
  <2>2. CloseInv'
    BY <2>1 DEF CloseInv, ServerTypeOK, ClosedMeansKilled, closing
  <2>3. /\ UNCHANGED <<timer, pending, pumps, dirty, fresh, reported, shown, newest, saves>>
        /\ scope' \in {scope, {}} /\ step' \in {"audit", "idle"} /\ fate' \in {fate, "skipped"}
    BY <1>2 DEF W!AttachLate, W!CycleOver, W!EndCycle, W!Ends
  <2>4. W!TypeOK'
    BY <1>1, <2>2, <2>3 DEF W!TypeOK, CloseInv, ServerTypeOK, W!ServerTypeOK,
       Phases, W!Phases, Callers, W!Callers, Signals, W!Signals, W!Steps, W!Fates
  <2> QED
    BY <1>1, <2>1, <2>2, <2>3, <2>4
    DEF WatchInv, Typed, W!QueueIsServed, W!NothingSilenced, closing
<1>3. CASE ~W!AttachLate
  <2>1. UNCHANGED serverVars
    BY <1>3 DEF W!WatchStep, W!TimerFires, W!BeginCycle, W!PumpEnds, W!Audit, W!AuditFails,
       W!AllShown, W!HealReturns, W!HealFails, W!Hang, W!Alert, W!Save, W!serverVars, serverVars
  <2>2. CloseInv'
    BY <2>1 DEF CloseInv, ServerTypeOK, ClosedMeansKilled, serverVars
  <2>3. W!ServerTypeOK'
    BY <1>1, <2>1 DEF W!TypeOK, W!ServerTypeOK, serverVars
  <2>a. Typed' /\ phase' \notin Early /\ source' = source
    BY <1>1, <2>1 DEF Typed, serverVars
  <2>b. /\ timer \in W!Queues /\ pending \in W!Queues /\ dirty \in BOOLEAN /\ pumps \in 0 .. 1
        /\ scope \subseteq Files /\ step \in W!Steps
        /\ fresh \subseteq Bugs /\ reported \subseteq Bugs /\ shown \subseteq Bugs
        /\ newest \subseteq Files /\ fate \in W!Fates /\ saves \in 0 .. MaxSaves
        /\ pending.files # {} => dirty /\ pumps > 0
        /\ reported \subseteq shown
        /\ step = "attach" => source = "none"
    BY <1>1 DEF W!TypeOK, WatchInv, W!QueueIsServed, W!NothingSilenced
  <2> SUFFICES
        /\ timer' \in W!Queues /\ pending' \in W!Queues /\ dirty' \in BOOLEAN /\ pumps' \in 0 .. 1
        /\ scope' \subseteq Files /\ step' \in W!Steps
        /\ fresh' \subseteq Bugs /\ reported' \subseteq Bugs /\ shown' \subseteq Bugs
        /\ newest' \subseteq Files /\ fate' \in W!Fates /\ saves' \in 0 .. MaxSaves
        /\ pending'.files # {} => dirty' /\ pumps' > 0
        /\ reported' \subseteq shown'
        /\ step' = "attach" => source' = "none"
    BY <2>2, <2>3, <2>a DEF W!TypeOK, WatchInv, W!QueueIsServed, W!NothingSilenced, W!Steps
  <2>c. /\ W!Empty \in W!Queues /\ W!Empty.files = {}
        /\ \A q, r \in W!Queues : W!Merged(q, r) \in W!Queues
        /\ \A f \in Files : [files |-> {f}, first |-> {f}] \in W!Queues
        /\ \A q \in W!Queues : q.first \subseteq Files
    BY DEF W!Empty, W!Queues, W!Merged
  <2> USE <2>a, <2>b, <2>c DEF W!Steps, W!Fates, W!Ends, W!CycleOver, W!EndCycle, W!queueVars, W!cycleVars, W!saveVars
  <2>4. CASE W!TimerFires
    BY <2>4 DEF W!TimerFires, W!PumpOnce
  <2>5. CASE W!BeginCycle
    BY <2>5 DEF W!BeginCycle, W!Taken
  <2>6. CASE W!PumpEnds
    BY <2>6 DEF W!PumpEnds
  <2>7. CASE W!Audit
    BY <2>7 DEF W!Audit
  <2>8. CASE W!AuditFails \/ W!AllShown \/ W!HealReturns \/ W!HealFails \/ W!Hang
    BY <2>8 DEF W!AuditFails, W!AllShown, W!HealReturns, W!HealFails, W!Hang
  <2>9. CASE \E b \in Bugs : W!Alert(b)
    BY <2>9 DEF W!Alert, W!Mark
  <2>10. CASE \E f \in Files : W!Save(f)
    BY <2>10, ServeAssumption DEF W!Save, W!Capture
  <2> QED
    BY <1>3, <2>4, <2>5, <2>6, <2>7, <2>8, <2>9, <2>10 DEF W!WatchStep
<1> QED
  BY <1>2, <1>3

\* A step of the child is a step of its server.
LEMMA ChildMoves ==
  ASSUME CloseInv, P!ChildStep
  PROVE  /\ ServerNext
         /\ channel # "none" /\ UNCHANGED <<parent, state, refs, decision, outcome, heard, channel>>
         /\ document' # document => Finish
<1> USE DEF P!ChildStep, P!installVars, P!parentVars, P!linkVars
<1>1. CASE P!Resolved
  BY <1>1, SameP DEF P!Resolved, ServerNext
<1>2. CASE P!Reports
  BY <1>2, SameP DEF P!Reports, ServerNext
<1>3. CASE P!Signalled
  BY <1>3, SameP DEF P!Signalled, ServerNext, Signals
<1>4. CASE P!Orphaned
  BY <1>4, SameP DEF P!Orphaned, ServerNext
<1>5. CASE P!Alone
  BY <1>5, SameP DEF P!Alone, ServerNext
<1>6. CASE P!Closes
  BY <1>6, SameP DEF P!Closes, ServerNext
<1> QED
  BY <1>1, <1>2, <1>3, <1>4, <1>5, <1>6

\* Before the spawn the parent may see a server come up; nobody has closed it.
LEMMA ParentKeepsServer ==
  ASSUME CloseInv, LinkInv, ~Typed, P!Listening \/ P!Served
  PROVE  CloseInv'
<1>1. phase = "resolve" /\ closer = "none" /\ closer \notin returned
  BY DEF P!Listening, P!Served, LinkInv, CloseInv
<1>2. UNCHANGED <<host, phase, source, stubborn, armed, closing>> /\ group' \in {group, "up"}
  BY DEF P!Listening, P!Served, P!closing, closing
<1> QED
  BY <1>1, <1>2 DEF CloseInv, ServerTypeOK, ClosedMeansKilled, closing

LEMMA ParentKeeps ==
  ASSUME ServeInv, Parent
  PROVE  ServeInv'
<1> USE DEF ServeInv
<1>0. ~Typed /\ parent' = parent /\ ~Typed' /\ P!Next /\ UNCHANGED watchVars
  BY DEF Parent, Typed, P!Next, P!PushUnhooked, P!PrePush, P!PluginOff, P!Listening, P!Register,
     P!Served, P!ChildStep, P!Decide, P!ChildCloses, P!HookTimesOut, P!ServerCloses,
     P!ParentKilled, P!parentVars
<1>w. WatchInv'
  <2>1. step = "idle" /\ step' = "idle"
    BY <1>0 DEF WatchInv, W!QueueInit, watchVars
  <2> QED
    BY <1>0, <2>1 DEF WatchInv, W!QueueInit, W!QueueIsServed, W!NothingSilenced, watchVars
<1>s. ASSUME UNCHANGED serverVars PROVE CloseInv' /\ UNCHANGED <<phase, Running>>
  BY <1>s DEF CloseInv, ServerTypeOK, ClosedMeansKilled, serverVars, Running
<1>1. CASE state = "idle" /\ P!InstallNext /\ UNCHANGED <<P!serverVars, P!parentVars, P!linkVars>>
  <2>1. UNCHANGED serverVars /\ UNCHANGED <<state, channel, decision, refs, outcome, document, heard>>
    BY <1>1 DEF P!serverVars, serverVars, P!parentVars, P!linkVars
  <2> QED
    BY <2>1, <1>0, <1>w, <1>s DEF LinkInv, PushIsJudged, P!SkipIsSafe, P!BlockedByCrashOnly
<1>2. CASE P!PushUnhooked \/ P!PluginOff \/ P!Register
  <2>1. /\ UNCHANGED serverVars /\ UNCHANGED <<channel, decision, refs, document, heard>>
        /\ state = "idle" /\ state' \in {"over", "wait"} /\ outcome' \in {outcome, "through"}
        /\ state' = "wait" => parent # "hook"
    BY <1>2 DEF P!PushUnhooked, P!PluginOff, P!Register, P!serverVars, serverVars, P!linkVars
  <2> QED
    BY <2>1, <1>0, <1>w, <1>s DEF LinkInv, PushIsJudged, P!SkipIsSafe, P!BlockedByCrashOnly
<1>3. CASE \E rs \in SUBSET Refs, always \in BOOLEAN : P!PrePush(rs, always)
  <2>1. PICK rs \in SUBSET Refs, always \in BOOLEAN : P!PrePush(rs, always)
    BY <1>3
  <2>2. /\ UNCHANGED serverVars /\ UNCHANGED document
        /\ state' \in {"scan", "over"} /\ refs' = rs
        /\ decision' = IF P!Scans(rs, always) THEN "scan" ELSE "skip"
        /\ state' = "scan" => decision' = "scan" /\ channel' = "open"
        /\ state' # "scan" => channel' = channel
        /\ outcome' \in {outcome, "through"} /\ outcome # "blocked"
    BY <2>1, <1>0 DEF P!PrePush, P!serverVars, serverVars, LinkInv, CloseInv, Running
  <2>3. decision' = "skip" => rs \subseteq {"delete", "docs"}
    BY <2>2, ServeAssumption DEF P!Scans, P!Live, P!Blind, P!Changed
  <2> QED
    BY <2>2, <2>3, <1>0, <1>w, <1>s DEF LinkInv, PushIsJudged, P!SkipIsSafe, P!BlockedByCrashOnly
<1>4. CASE P!Listening \/ P!Served
  <2>1. CloseInv' /\ UNCHANGED <<phase, Running>>
    BY <1>4, <1>0, ParentKeepsServer DEF P!Listening, P!Served, Running
  <2>2. /\ state' = "scan" => parent # "hook" /\ channel' = "open"
        /\ state' \in {"scan", "over"} /\ channel' \in {channel, "open"}
        /\ UNCHANGED <<outcome, decision, refs, document>>
        /\ outcome # "blocked"
    BY <1>4, <1>0 DEF P!Listening, P!Served, LinkInv, CloseInv, Running
  <2> QED
    BY <2>1, <2>2, <1>0, <1>w DEF LinkInv, PushIsJudged, P!SkipIsSafe, P!BlockedByCrashOnly
<1>5. CASE P!ChildStep
  <2>1. CloseInv'
    BY <1>5, ChildMoves, ServerKeeps
  <2>2. ~Running => ~Running' /\ UNCHANGED document
    BY <1>5, ChildMoves, DeadIsDead
  <2> QED
    BY <1>5, <2>1, <2>2, <1>0, <1>w, ChildMoves
    DEF LinkInv, PushIsJudged, P!SkipIsSafe, P!BlockedByCrashOnly
<1>6. CASE P!ChildCloses
  <2>1. /\ UNCHANGED serverVars /\ UNCHANGED <<decision, refs, document>>
        /\ state = "scan" /\ state' = "over" /\ channel' = "closed" /\ ~Running
        /\ heard' = IF document = "none" THEN "error" ELSE document
        /\ outcome' = IF parent = "hook" THEN P!Verdict(document) ELSE outcome
    BY <1>6, SameP DEF P!ChildCloses, P!serverVars, serverVars
  <2>2. outcome' = "blocked" => document' = "crash" /\ heard' = "crash" /\ decision' = "scan"
    BY <2>1 DEF P!Verdict, LinkInv, PushIsJudged, P!BlockedByCrashOnly
  <2> QED
    BY <2>1, <2>2, <1>0, <1>w, <1>s DEF LinkInv, PushIsJudged, P!SkipIsSafe, P!BlockedByCrashOnly
<1>7. CASE P!HookTimesOut \/ P!ServerCloses \/ P!ParentKilled
  <2>1. /\ UNCHANGED serverVars /\ UNCHANGED <<decision, refs, document, heard>>
        /\ state' \in {"over", "gone"} /\ channel' \in {channel, "closed"}
        /\ outcome' \in {outcome, "through"}
    BY <1>7 DEF P!HookTimesOut, P!TimerIsSet, P!ServerCloses, P!ParentKilled, P!serverVars, serverVars
  <2> QED
    BY <2>1, <1>0, <1>w, <1>s DEF LinkInv, PushIsJudged, P!SkipIsSafe, P!BlockedByCrashOnly
<1> QED
  BY <1>0, <1>1, <1>2, <1>3, <1>4, <1>5, <1>6, <1>7 DEF P!Next, P!Decide

LEMMA TerminalKeeps ==
  ASSUME ServeInv, Terminal
  PROVE  ServeInv'
<1> USE DEF ServeInv
<1>0. Typed /\ Typed' /\ W!Next /\ UNCHANGED spawnVars
  BY DEF Terminal, Typed, spawnVars
<1>1. ASSUME CloseInv', ~Running => ~Running' PROVE LinkInv'
  BY <1>0, <1>1 DEF LinkInv, PushIsJudged, P!SkipIsSafe, P!BlockedByCrashOnly, spawnVars
<1>2. CASE W!ServerNext /\ UNCHANGED W!watchVars
  <2>1. ServerNext
    BY <1>2, SameW DEF W!ServerNext, ServerNext, W!Signals, Signals
  <2>2. CloseInv' /\ (~Running => ~Running')
    BY <2>1, ServerKeeps, DeadIsDead
  <2>3. UNCHANGED <<watchVars, parent>>
    BY <1>0, <1>2 DEF W!watchVars, watchVars, W!queueVars, W!cycleVars, W!saveVars, spawnVars
  <2> QED
    BY <1>1, <2>1, <2>2, <2>3, WatchIsLeftAlone
<1>3. CASE W!WatchStep \/ \E f \in Files : W!Save(f)
  <2>1. CloseInv' /\ WatchInv'
    BY <1>0, <1>3, WatcherKeeps DEF spawnVars
  <2>2. Running
    BY <1>3 DEF W!WatchStep, W!TimerFires, W!BeginCycle, W!PumpEnds, W!AttachLate, W!Audit,
       W!AuditFails, W!AllShown, W!HealReturns, W!HealFails, W!Hang, W!Alert, W!Save, W!Watching, Running
  <2> QED
    BY <1>1, <2>1, <2>2
<1> QED
  BY <1>0, <1>2, <1>3 DEF W!Next

LEMMA ServeStep == ServeInv /\ [Next]_vars => ServeInv'
<1>1. ServeInv /\ UNCHANGED vars => ServeInv'
  <2> SUFFICES ASSUME ServeInv, UNCHANGED vars PROVE ServeInv'
    OBVIOUS
  <2>1. UNCHANGED <<serverVars, watchVars, spawnVars>>
    BY DEF vars
  <2>2. CloseInv'
    BY <2>1 DEF ServeInv, CloseInv, ServerTypeOK, ClosedMeansKilled, serverVars
  <2>3. WatchInv'
    BY <2>1 DEF ServeInv, WatchInv, Typed, W!TypeOK, W!ServerTypeOK, W!QueueInit, W!QueueIsServed,
       W!NothingSilenced, serverVars, watchVars, spawnVars
  <2>4. LinkInv'
    BY <2>1 DEF ServeInv, LinkInv, Typed, PushIsJudged, P!SkipIsSafe, P!BlockedByCrashOnly,
       Running, serverVars, spawnVars
  <2> QED
    BY <2>2, <2>3, <2>4 DEF ServeInv
<1> QED
  BY <1>1, TerminalKeeps, ParentKeeps DEF Next

LEMMA ServeAlways == Spec => []ServeInv
BY ServeInit, ServeStep, PTL DEF Spec

-----------------------------------------------------------------------------

\* Whoever closes the booted server, the command, a signal, the watcher or the
\* loss of the parent, and whatever the server does about SIGTERM: the caller
\* whose close() kills it returns after the group is gone or was sent SIGKILL,
\* and every other one after SIGTERM at the earliest (devServer.ts; heal/boot.ts,
\* killTree and close).
THEOREM ClosedMeansKilledHolds == Spec => []ClosedMeansKilled
<1>1. ServeInv => ClosedMeansKilled
  BY DEF ServeInv, CloseInv
<1> QED
  BY ServeAlways, <1>1, PTL

\* Of any number of saves and findings: what is queued will be looked at by a
\* running pump, and a finding that stays quiet has been shown (watch.ts).
THEOREM WatchKeepsUpHolds == Spec => []WatchKeepsUp
<1>1. ServeInv => WatchKeepsUp
  BY DEF ServeInv, WatchInv, WatchKeepsUp
<1> QED
  BY ServeAlways, <1>1, PTL

\* A push goes unseen only when all its refs are deletions or documents, and is
\* blocked only by a crash a scan has reported (hooks/index.ts, decidePush and
\* the verdict; plugins/scan.ts).
THEOREM PushIsJudgedHolds == Spec => []PushIsJudged
<1>1. ServeInv => PushIsJudged
  BY DEF ServeInv, LinkInv
<1> QED
  BY ServeAlways, <1>1, PTL

=============================================================================
