---------------------------- MODULE PatrolProofs ----------------------------
(***************************************************************************)
(* What is proved about Patrol, for any set of bugs, any files, any flags  *)
(* and any limits.                                                         *)
(***************************************************************************)
EXTENDS Patrol, FiniteSetTheorems, TLAPS

-----------------------------------------------------------------------------
(* Facts about the helpers.                                                  *)

LEMMA MarkType ==
  ASSUME NEW m \in [Bugs -> Entry], NEW S, NEW e \in Entry
  PROVE  Mark(m, S, e) \in [Bugs -> Entry]
  BY DEF Mark

LEMMA EntryMembers == New \in Entry /\ PrOpened \in Entry /\ Unfixed \in Entry
  BY LimitAssumption DEF New, PrOpened, Unfixed, Entry

LEMMA OlderType ==
  ASSUME NEW m \in [Bugs -> Entry]
  PROVE  Older(m) \in [Bugs -> Entry]
<1>1. ASSUME NEW b \in Bugs, m[b].age < Cooldown
      PROVE  [m[b] EXCEPT !.age = @ + 1] \in Entry
  BY <1>1, LimitAssumption DEF Entry
<1>2. QED BY <1>1 DEF Older

\* Ageing changes no status.
LEMMA OlderStatus ==
  ASSUME NEW m \in [Bugs -> Entry], NEW b \in Bugs
  PROVE  Older(m)[b].status = m[b].status
  BY DEF Older, Entry

LEMMA MemoryStart == EmptyMemory \in [Bugs -> Entry]
  BY EntryMembers DEF EmptyMemory

LEMMA HomeTypes == Left("main") \in Checkout /\ Homes \subseteq Checkout /\ NoStart \in Start
  BY StartsAssumption
     DEF Homes, Left, Checkout, Place, NoStart, Start, Names, Branch

LEMMA NoHealType == NoHeal \in [Bugs -> Statuses]
  BY DEF NoHeal, Statuses

\* Whatever is selected was healed in this run and is not handled.
LEMMA SelectionsHealed ==
  ASSUME NEW S \in Selections
  PROVE  S \subseteq NewHealed /\ NewHealed \subseteq Bugs
  BY DEF Selections, NewHealed

-----------------------------------------------------------------------------
(* Type correctness.                                                         *)

USE DEF session, cycle, clone

LEMMA ReturnHomeType ==
  ASSUME TypeOK, ReturnHome
  PROVE  head' \in Checkout /\ original' \in Start /\ strayed' \in {"no", "fallback", "yes"}
<1>1. original.head \in Checkout
  BY DEF TypeOK, Start
<1>2. QED
  BY <1>1, HomeTypes DEF TypeOK, ReturnHome, Back, StrayedTo

LEMMA ConcludedType ==
  ASSUME TypeOK, NEW e \in Entry, Concluded(e)
  PROVE  /\ mem' \in [Bugs -> Entry] /\ pc' \in Pcs
         /\ landed' = {} /\ media' = {}
  BY MarkType DEF TypeOK, Concluded, Pcs

LEMMA TypeInit == Init => TypeOK
<1> SUFFICES ASSUME Init PROVE TypeOK
  OBVIOUS
<1>1. dirty \subseteq Changes /\ staged \subseteq dirty
  BY DEF Init, Changes
<1>2. budget \in 0 .. MaxSpend
  BY LimitAssumption DEF Init
<1>3. head \in Checkout
  BY HomeTypes DEF Init
<1>4. QED
  BY <1>1, <1>2, <1>3, MemoryStart, HomeTypes, NoHealType DEF Init, TypeOK, Pcs

LEMMA TypeNext == TypeOK /\ [Next]_vars => TypeOK'
<1> SUFFICES ASSUME TypeOK, [Next]_vars PROVE TypeOK'
  OBVIOUS
<1> USE LimitAssumption DEF TypeOK, Pcs
<1>1. CASE TargetDown
  BY <1>1 DEF TargetDown, AfterPass
<1>2. CASE BeginRun
  BY <1>2 DEF BeginRun, Handled
<1>3. CASE Detect
  BY <1>3 DEF Detect, HealTargets
<1>4. ASSUME NEW b \in Bugs, NEW status \in Statuses \ {"none"},
             NEW n \in 0 .. HealCalls, HealOne(b, status, n)
      PROVE  TypeOK'
  <2>1. budget' \in 0 .. MaxSpend /\ charged' \in Nat
    BY <1>4 DEF HealOne, Spend, Capped
  <2>2. QED BY <1>4, <2>1 DEF HealOne
<1>5. CASE RunFails
  BY <1>5, NoHealType DEF RunFails, AfterPass, ForgetCycle
<1>6. CASE MarkAndSelect
  BY <1>6, MarkType, EntryMembers, SelectionsHealed, NoHealType
     DEF MarkAndSelect
<1>7. ASSUME NEW b \in Bugs, Apply(b) \/ ApplyConflict(b)
      PROVE  TypeOK'
  <2>1. CASE Apply(b)
    BY <2>1 DEF Apply, Changes
  <2>2. CASE ApplyConflict(b)
    BY <2>2, MarkType, EntryMembers DEF ApplyConflict
  <2>3. QED BY <1>7, <2>1, <2>2
<1>8. CASE BatchReady
  BY <1>8 DEF BatchReady
<1>9. CASE AlreadyOpen
  BY <1>9, ConcludedType, EntryMembers DEF AlreadyOpen
<1>10. CASE CreatePr
  BY <1>10 DEF CreatePr, CurrentBranch, Names, Start
<1>11. CASE StageFix
  BY <1>11 DEF StageFix, Added, Checkout, Place, Branch
<1>12. CASE Commit
  BY <1>12 DEF Commit, Checkout
<1>13. CASE GitFails
  BY <1>13, ReturnHomeType, ConcludedType, EntryMembers DEF GitFails
<1>14. CASE PrCreated
  <2>1. Cardinality(landed) \in Nat
    BY BugsAssumption, FS_Subset, FS_CardinalityType
  <2>2. QED
    BY <1>14, <2>1, ReturnHomeType, ConcludedType, EntryMembers DEF PrCreated, Branch
<1>15. CASE GhFails
  BY <1>15, ReturnHomeType, ConcludedType, EntryMembers DEF GhFails, Branch
<1>16. CASE EndCycle
  BY <1>16, NoHealType DEF EndCycle, ForgetCycle
<1>17. CASE Save
  BY <1>17 DEF Save, AfterPass
<1>18. CASE Wake
  BY <1>18 DEF Wake
<1>19. CASE Crash
  BY <1>19, MemoryStart, HomeTypes, NoHealType
     DEF Crash, StrayedTo, ForgetSession, ForgetCycle
<1>20. CASE StartSession
  BY <1>20, NoHealType DEF StartSession, ForgetSession, ForgetCycle
<1>21. ASSUME NEW branch \in Branch, ClosePr(branch) PROVE TypeOK'
  BY <1>21 DEF ClosePr
<1>22. CASE Tick
  BY <1>22, OlderType DEF Tick
<1>23. CASE Record
  BY <1>23 DEF Record, Gifs, Changes
<1>24. CASE Hang
  BY <1>24 DEF Hang
<1>25. CASE UNCHANGED vars
  BY <1>25 DEF vars
<1>26. QED
  BY <1>1, <1>2, <1>3, <1>4, <1>5, <1>6, <1>7, <1>8, <1>9, <1>10, <1>11,
     <1>12, <1>13, <1>14, <1>15, <1>16, <1>17, <1>18, <1>19, <1>20, <1>21,
     <1>22, <1>23, <1>24, <1>25
     DEF Next, PatrolStep, Environment, Healing

\* Type correctness: every variable keeps its range; the budget is never
\* negative and only uncommitted changes are ever staged.
THEOREM TypeCorrect == Spec => []TypeOK
  BY TypeInit, TypeNext, PTL DEF Spec

-----------------------------------------------------------------------------
(* The locals of a cycle are empty outside their phase.                      *)

Publishing == {"fix", "record", "publish", "git", "commit", "gh", "hung"}

PhaseInv ==
  /\ pc \notin {"heal", "hung"} => toHeal = {}
  /\ pc \notin Publishing => toFix = {} /\ landed = {}
  /\ toFix \cap landed = {}

LEMMA PhaseNext == TypeOK /\ PhaseInv /\ [Next]_vars => PhaseInv'
<1> SUFFICES ASSUME TypeOK, PhaseInv, [Next]_vars PROVE PhaseInv'
  OBVIOUS
<1> USE DEF PhaseInv, Publishing
<1>1. CASE TargetDown \/ BeginRun \/ Detect \/ RunFails \/ Save
  BY <1>1 DEF TargetDown, BeginRun, Detect, RunFails, Save, AfterPass,
              ForgetCycle
<1>2. CASE Healing
  BY <1>2 DEF Healing, HealOne
<1>3. CASE MarkAndSelect
  BY <1>3 DEF MarkAndSelect
<1>4. ASSUME NEW b \in Bugs, Apply(b) \/ ApplyConflict(b) PROVE PhaseInv'
  BY <1>4 DEF Apply, ApplyConflict
<1>5. CASE BatchReady \/ Record \/ AlreadyOpen \/ CreatePr \/ StageFix \/ Commit \/ GitFails
  BY <1>5 DEF BatchReady, Record, AlreadyOpen, CreatePr, StageFix, Commit, GitFails,
         Concluded
<1>6. CASE PrCreated \/ GhFails \/ EndCycle
  BY <1>6 DEF PrCreated, GhFails, Concluded, EndCycle, ForgetCycle
<1>7. CASE Wake \/ Crash \/ Hang \/ StartSession \/ Tick
  BY <1>7 DEF Wake, Crash, Hang, StartSession, Tick, ForgetSession, ForgetCycle
<1>8. ASSUME NEW branch \in Branch, ClosePr(branch) PROVE PhaseInv'
  BY <1>8 DEF ClosePr
<1>9. CASE UNCHANGED vars
  BY <1>9 DEF vars
<1>10. QED
  BY <1>1, <1>2, <1>3, <1>4, <1>5, <1>6, <1>7, <1>8, <1>9
     DEF Next, PatrolStep, Environment

LEMMA PhaseCorrect == Spec => [](TypeOK /\ PhaseInv)
<1>1. Init => PhaseInv
  BY DEF Init, PhaseInv
<1>2. QED
  BY <1>1, TypeInit, TypeNext, PhaseNext, PTL DEF Spec

-----------------------------------------------------------------------------
(* The fix cap: what is published together with what is selected or applied  *)
(* stays within the cap, so a batch that succeeds cannot exceed it.          *)

CapInv == sessionFixes + Cardinality(toFix \cup landed) <= mode.maxFixes

LEMMA BugSets ==
  ASSUME NEW S \in SUBSET Bugs
  PROVE  IsFiniteSet(S) /\ Cardinality(S) \in Nat
  BY BugsAssumption, FS_Subset, FS_CardinalityType

\* Shrinking the work in hand keeps the cap.
LEMMA CapShrinks ==
  ASSUME TypeOK, CapInv, sessionFixes' = sessionFixes, mode' = mode,
         toFix' \cup landed' \subseteq toFix \cup landed
  PROVE  CapInv'
<1> DEFINE S == toFix \cup landed
           T == toFix' \cup landed'
<1>1. S \subseteq Bugs /\ T \subseteq Bugs
  BY DEF TypeOK
<1>2. Cardinality(T) <= Cardinality(S) /\ Cardinality(T) \in Nat /\ Cardinality(S) \in Nat
  BY <1>1, BugSets, FS_Subset
<1>3. mode.maxFixes \in Nat
  BY ModesAssumption DEF TypeOK
<1>4. QED BY <1>2, <1>3 DEF CapInv, TypeOK

LEMMA CapEmpty ==
  ASSUME mode' \in Modes, sessionFixes' = 0, toFix' = {}, landed' = {}
  PROVE  CapInv'
<1>1. Cardinality({}) = 0
  BY FS_EmptySet
<1>2. mode'.maxFixes \in Nat
  BY ModesAssumption
<1>3. QED BY <1>1, <1>2 DEF CapInv

LEMMA CapNext == TypeOK /\ PhaseInv /\ CapInv /\ [Next]_vars => CapInv'
<1> SUFFICES ASSUME TypeOK, PhaseInv, CapInv, [Next]_vars PROVE CapInv'
  OBVIOUS
<1>1. CASE TargetDown \/ BeginRun \/ Detect \/ RunFails \/ Save
  BY <1>1, CapShrinks DEF TargetDown, BeginRun, Detect, RunFails, Save, ForgetCycle
<1>2. CASE Healing
  BY <1>2, CapShrinks DEF Healing, HealOne
<1>3. CASE MarkAndSelect
  <2>1. landed = {} /\ landed' = {} /\ toFix = {}
    BY <1>3 DEF MarkAndSelect, PhaseInv, Publishing
  <2>2. mode.maxFixes \in Nat /\ sessionFixes \in Nat
    BY ModesAssumption DEF TypeOK
  <2>3. sessionFixes <= mode.maxFixes
    BY <2>1, <2>2, FS_EmptySet DEF CapInv
  <2>4. toFix' \in Selections /\ Cardinality(toFix') <= FixRoom
    BY <1>3, <2>2, <2>3 DEF MarkAndSelect, Selections, FixRoom
  <2>5. Cardinality(toFix') \in Nat
    BY <2>4, SelectionsHealed, BugSets
  <2>6. toFix' \cup landed' = toFix'
    BY <2>1
  <2>7. sessionFixes' = sessionFixes /\ mode' = mode
    BY <1>3 DEF MarkAndSelect
  <2>8. FixRoom = mode.maxFixes - sessionFixes
    BY <2>3 DEF FixRoom
  <2>9. Cardinality(toFix' \cup landed') = Cardinality(toFix')
    BY <2>6
  <2>10. sessionFixes + Cardinality(toFix') <= mode.maxFixes
    BY <2>2, <2>4, <2>5, <2>8
  <2>11. QED
    BY <2>7, <2>9, <2>10 DEF CapInv
<1>4. ASSUME NEW b \in Bugs, Apply(b) \/ ApplyConflict(b) PROVE CapInv'
  BY <1>4, CapShrinks DEF Apply, ApplyConflict
<1>5. CASE BatchReady \/ Record \/ AlreadyOpen \/ CreatePr \/ StageFix \/ Commit \/ GitFails
  BY <1>5, CapShrinks
     DEF BatchReady, Record, AlreadyOpen, CreatePr, StageFix, Commit, GitFails,
         Concluded
<1>6. CASE PrCreated
  <2>1. /\ sessionFixes' = sessionFixes + Cardinality(landed)
        /\ landed' = {} /\ toFix' = toFix /\ mode' = mode
    BY <1>6 DEF PrCreated, Concluded
  <2>2. Cardinality(toFix \cup landed) = Cardinality(toFix) + Cardinality(landed)
    <3>1. toFix \subseteq Bugs /\ landed \subseteq Bugs /\ toFix \cap landed = {}
      BY DEF TypeOK, PhaseInv
    <3>2. IsFiniteSet(toFix) /\ IsFiniteSet(landed)
      BY <3>1, BugSets
    <3>3. /\ Cardinality(toFix \cup landed)
               = Cardinality(toFix) + Cardinality(landed) - Cardinality(toFix \cap landed)
          /\ Cardinality(toFix \cap landed) = 0
      BY <3>1, <3>2, FS_Union, FS_EmptySet
    <3>4. Cardinality(toFix) \in Nat /\ Cardinality(landed) \in Nat
      BY <3>1, BugSets
    <3> QED BY <3>3, <3>4
  <2>3. toFix' \cup landed' = toFix
    BY <2>1
  <2>4. /\ Cardinality(toFix) \in Nat /\ Cardinality(landed) \in Nat
        /\ sessionFixes \in Nat /\ mode.maxFixes \in Nat
    BY BugSets, ModesAssumption DEF TypeOK
  <2>5. QED BY <2>1, <2>2, <2>3, <2>4 DEF CapInv
<1>7. CASE GhFails \/ EndCycle
  BY <1>7, CapShrinks DEF GhFails, Concluded, EndCycle, ForgetCycle
<1>8. CASE Wake \/ Tick \/ Hang
  BY <1>8, CapShrinks DEF Wake, Tick, Hang
<1>9. CASE Crash \/ StartSession
  BY <1>9, CapEmpty DEF Crash, StartSession, ForgetSession, ForgetCycle, TypeOK
<1>10. ASSUME NEW branch \in Branch, ClosePr(branch) PROVE CapInv'
  BY <1>10, CapShrinks DEF ClosePr
<1>11. CASE UNCHANGED vars
  BY <1>11, CapShrinks DEF vars
<1>12. QED
  BY <1>1, <1>2, <1>3, <1>4, <1>5, <1>6, <1>7, <1>8, <1>9, <1>10, <1>11
     DEF Next, PatrolStep, Environment

\* No session publishes more fixes than its cap, in batches of any size.
THEOREM FixCapHolds == Spec => []FixCap
<1>1. Init => CapInv
  BY FS_EmptySet, ModesAssumption DEF Init, CapInv
<1>2. TypeOK /\ CapInv => FixCap
  <2> SUFFICES ASSUME TypeOK, CapInv PROVE FixCap
    OBVIOUS
  <2>1. Cardinality(toFix \cup landed) \in Nat
    BY BugSets DEF TypeOK
  <2>2. mode.maxFixes \in Nat
    BY ModesAssumption DEF TypeOK
  <2>3. QED BY <2>1, <2>2 DEF CapInv, FixCap, TypeOK
<1>3. QED
  BY <1>1, <1>2, PhaseCorrect, CapNext, PTL DEF Spec

-----------------------------------------------------------------------------
(* Steps that are far from some variable leave it alone; the lemmas below    *)
(* are about the others.                                                     *)

LEMMA SpendNext == TypeOK /\ SpendCap /\ [Next]_vars => SpendCap'
<1> SUFFICES ASSUME TypeOK, SpendCap, [Next]_vars PROVE SpendCap'
  OBVIOUS
<1> USE LimitAssumption DEF SpendCap, Capped
<1>1. ASSUME NEW b \in Bugs, NEW status \in Statuses \ {"none"},
             NEW n \in 0 .. HealCalls, HealOne(b, status, n)
      PROVE  SpendCap'
  BY <1>1 DEF HealOne, Spend, TypeOK
<1>2. CASE Crash \/ StartSession
  BY <1>2 DEF Crash, StartSession, ForgetSession
<1>3. CASE UNCHANGED <<budget, charged>>
  BY <1>3
<1>4. QED
  BY <1>1, <1>2, <1>3
     DEF Next, PatrolStep, Environment, Healing, TargetDown, BeginRun, Detect,
         RunFails, MarkAndSelect, Apply, ApplyConflict, BatchReady, Record, Hang,
         AlreadyOpen, CreatePr, StageFix, Commit, GitFails, PrCreated,
         GhFails, EndCycle, Save, Wake, Tick, ClosePr, vars

\* The generations charged in a session and the rest of its budget always add
\* up to its cap, so the cap is never exceeded.
THEOREM SpendCapHolds == Spec => []SpendCap
<1>1. Init => SpendCap
  BY LimitAssumption DEF Init, SpendCap
<1>2. QED
  BY <1>1, TypeCorrect, SpendNext, PTL DEF Spec

\* Neither the cap on the published fixes nor the one on the spending is ever
\* exceeded in a session.
THEOREM CapsHoldHolds == Spec => []CapsHold
<1>1. FixCap /\ SpendCap => CapsHold
  BY DEF CapsHold
<1>2. QED
  BY <1>1, FixCapHolds, SpendCapHolds, PTL

-----------------------------------------------------------------------------
(* The memory on disk is behind the memory of the process only while a cycle *)
(* is publishing, until save(), or for ever after an exit without one.       *)

SavedInv ==
  pc \in {"alive", "scan", "heal", "sleep", "dead"} => disk = mem

LEMMA SavedNext == SavedInv /\ [Next]_vars => SavedInv'
<1> SUFFICES ASSUME SavedInv, [Next]_vars PROVE SavedInv'
  OBVIOUS
<1> USE DEF SavedInv
<1>1. CASE TargetDown \/ BeginRun \/ Detect \/ Healing \/ RunFails \/ MarkAndSelect
  BY <1>1 DEF TargetDown, BeginRun, Detect, Healing, HealOne, RunFails,
              MarkAndSelect, AfterPass
<1>2. ASSUME NEW b \in Bugs, Apply(b) \/ ApplyConflict(b) PROVE SavedInv'
  BY <1>2 DEF Apply, ApplyConflict
<1>3. CASE BatchReady \/ Record \/ AlreadyOpen \/ CreatePr \/ StageFix \/ Commit \/ GitFails
  BY <1>3 DEF BatchReady, Record, AlreadyOpen, CreatePr, StageFix, Commit, GitFails,
         Concluded
<1>4. CASE PrCreated \/ GhFails \/ EndCycle \/ Save
  BY <1>4 DEF PrCreated, GhFails, Concluded, EndCycle, Save
<1>5. CASE Wake \/ Crash \/ Hang \/ StartSession \/ Tick
  BY <1>5 DEF Wake, Crash, Hang, StartSession, Tick, ForgetSession
<1>6. ASSUME NEW branch \in Branch, ClosePr(branch) PROVE SavedInv'
  BY <1>6 DEF ClosePr
<1>7. CASE UNCHANGED vars
  BY <1>7 DEF vars
<1>8. QED
  BY <1>1, <1>2, <1>3, <1>4, <1>5, <1>6, <1>7 DEF Next, PatrolStep, Environment

\* A process killed while it sleeps loses none of its marks.
THEOREM SavedWhileAsleepHolds == Spec => []SavedWhileAsleep
<1>1. Init => SavedInv
  BY DEF Init, SavedInv
<1>2. SavedInv => SavedWhileAsleep
  BY DEF SavedInv, SavedWhileAsleep
<1>3. QED
  BY <1>1, <1>2, SavedNext, PTL DEF Spec

-----------------------------------------------------------------------------
(* A published fingerprint stays out of the cycle's work: the skip set keeps *)
(* it out of the heals, and what is selected has just been healed.           *)

PublishedInv ==
  /\ PublishedIsFinal
  /\ pc = "scan" => \A b \in Bugs : mem[b].status = "pr-opened" => b \in skip

LEMMA PublishedNext ==
  TypeOK /\ PhaseInv /\ PublishedInv /\ [Next]_vars => PublishedInv'
<1> SUFFICES ASSUME TypeOK, PhaseInv, PublishedInv, [Next]_vars
             PROVE  PublishedInv'
  OBVIOUS
<1> USE DEF PublishedInv, PublishedIsFinal
<1>1. CASE TargetDown \/ RunFails \/ EndCycle \/ Save \/ Wake
  BY <1>1 DEF TargetDown, RunFails, EndCycle, Save, Wake, ForgetCycle, AfterPass
<1>2. CASE BeginRun
  BY <1>2 DEF BeginRun, Handled, IsHandled
<1>3. CASE Detect
  BY <1>3 DEF Detect, HealTargets, PhaseInv, Publishing
<1>4. CASE Healing
  BY <1>4 DEF Healing, HealOne
<1>5. CASE MarkAndSelect
  <2>1. ASSUME NEW b \in Bugs, mem'[b].status = "pr-opened"
        PROVE  mem[b].status = "pr-opened"
    BY <1>5, <2>1 DEF MarkAndSelect, Mark, Unfixed
  <2>2. ASSUME NEW b \in Bugs, mem[b].status = "pr-opened"
        PROVE  b \notin toFix'
    BY <1>5, <2>2, SelectionsHealed DEF MarkAndSelect, NewHealed, IsHandled
  <2>3. QED BY <1>5, <2>1, <2>2 DEF MarkAndSelect
<1>6. ASSUME NEW b \in Bugs, Apply(b) PROVE PublishedInv'
  BY <1>6 DEF Apply
<1>7. ASSUME NEW b \in Bugs, ApplyConflict(b) PROVE PublishedInv'
  BY <1>7 DEF ApplyConflict, Mark, Unfixed
<1>8. CASE BatchReady \/ Record \/ CreatePr \/ StageFix \/ Commit \/ Hang
  BY <1>8 DEF BatchReady, Record, CreatePr, StageFix, Commit, Hang
<1>9. CASE AlreadyOpen \/ PrCreated
  <2>1. /\ mem' = Mark(mem, landed, PrOpened) /\ landed' = {}
        /\ toFix' = toFix /\ toHeal' = toHeal /\ toHeal = {} /\ pc' = "fix"
    BY <1>9 DEF AlreadyOpen, PrCreated, Concluded, PhaseInv
  <2>2. ASSUME NEW b \in Bugs, mem'[b].status = "pr-opened"
        PROVE  b \in landed \/ mem[b].status = "pr-opened"
    BY <2>1, <2>2 DEF Mark
  <2>3. QED BY <2>1, <2>2 DEF PhaseInv
<1>10. CASE GitFails \/ GhFails
  BY <1>10 DEF GitFails, GhFails, Concluded, Mark, Unfixed
<1>11. CASE Crash \/ StartSession
  BY <1>11 DEF Crash, StartSession, ForgetSession, ForgetCycle
<1>12. CASE Tick
  BY <1>12, OlderStatus DEF Tick, TypeOK
<1>13. ASSUME NEW branch \in Branch, ClosePr(branch) PROVE PublishedInv'
  BY <1>13 DEF ClosePr
<1>14. CASE UNCHANGED vars
  BY <1>14 DEF vars
<1>15. QED
  BY <1>1, <1>2, <1>3, <1>4, <1>5, <1>6, <1>7, <1>8, <1>9, <1>10, <1>11,
     <1>12, <1>13, <1>14
     DEF Next, PatrolStep, Environment

\* Within a session a fingerprint with a pull request is never worked on again.
THEOREM PublishedIsFinalHolds == Spec => []PublishedIsFinal
<1>1. Init => PublishedInv
  BY DEF Init, PublishedInv, PublishedIsFinal, EmptyMemory, New
<1>2. PublishedInv => PublishedIsFinal
  BY DEF PublishedInv
<1>3. QED
  BY <1>1, <1>2, PhaseCorrect, PublishedNext, PTL DEF Spec

-----------------------------------------------------------------------------
(* The clone during createPr.  Until `git checkout -B` HEAD is where it was; *)
(* then it is on the fix branch until a checkout, or nothing, ends that.      *)

\* What HeadRestored asks of a place, when createPr left off at h.
Restored(h) ==
  /\ strayed = "no" => h = home
  /\ strayed = "fallback" => h \in {home, Left("main")}
  /\ home.at = "detached" /\ sessionFixes > 0 => h # home

HeadInv ==
  /\ pc \notin {"commit", "gh", "hung"} => Restored(head)
  /\ pc = "git" => original.head = head
  /\ original.name # "none" => Restored(original.head)
  /\ original.name = "none" => pc \notin {"git", "commit", "gh"} /\ Restored(head)
  /\ original.name = "branch" => original.head.at # "detached"
  /\ pc \in {"commit", "gh"} => head.at = "fix"

\* Both steps of createPr out of its try blocks end like this.
LEMMA BackAgain ==
  ASSUME TypeOK, HeadInv, ReturnHome, home' = home, pc \in {"git", "commit", "gh"},
         pc' = "fix", sessionFixes' \in Nat,
         sessionFixes' = sessionFixes \/ pc = "gh"
  PROVE  HeadInv'
<1>1. /\ home.at \in {"main", "own", "detached"} /\ sessionFixes \in Nat
      /\ home = Left(home.at) /\ original.name \in Names
  BY StartsAssumption DEF TypeOK, Homes, Left, HeadInv, Start
<1>2. original'.name = "none"
  BY DEF ReturnHome, NoStart
<1>3. Restored(original.head)
  BY <1>1 DEF HeadInv, Names
<1>4. CASE head' = original.head
  <2>1. strayed' = strayed
    BY <1>4 DEF ReturnHome, StrayedTo
  <2>2. home.at = "detached" /\ sessionFixes' > 0 => head' # home
    <3>1. CASE sessionFixes' = sessionFixes
      BY <3>1, <1>3, <1>4 DEF Restored
    <3>2. CASE pc = "gh"
      <4> SUFFICES ASSUME home.at = "detached", head' = home PROVE FALSE
        OBVIOUS
      <4>1. head.at = "fix" /\ head # home
        BY <3>2 DEF HeadInv
      <4>2. original.head.at = "detached"
        BY <1>4
      <4>3. head' = Back /\ original.name \in {"HEAD", "fallback"}
        BY <1>1, <4>1, <4>2 DEF ReturnHome, HeadInv, Names
      <4>4. head' \in {head, Left("main")}
        BY <4>3 DEF Back
      <4>5. Left("main").at = "main"
        BY DEF Left
      <4> QED BY <4>1, <4>4, <4>5
    <3> QED BY <3>1, <3>2
  <2> QED BY <1>2, <1>3, <1>4, <2>1, <2>2 DEF HeadInv, Restored
<1>5. CASE head' # original.head
  <2>1. home.at = "detached" => head' # home
    <3> SUFFICES ASSUME home.at = "detached", head' = home PROVE FALSE
      OBVIOUS
    <3>1. CASE head' = head
      BY <1>5, <3>1 DEF HeadInv
    <3>2. CASE head' # head
      <4>1. head' = Left("main")
        BY <1>1, <1>5, <3>2 DEF ReturnHome, Back, Names
      <4> QED BY <4>1 DEF Left
    <3> QED BY <3>1, <3>2
  <2>2. strayed' # "no" /\ (strayed' = "fallback" => head' = Left("main"))
    BY <1>5 DEF ReturnHome, StrayedTo
  <2> QED BY <1>2, <2>1, <2>2 DEF HeadInv, Restored
<1> QED BY <1>4, <1>5

LEMMA HeadNext == TypeOK /\ HeadInv /\ [Next]_vars => HeadInv'
<1> SUFFICES ASSUME TypeOK, HeadInv, [Next]_vars PROVE HeadInv'
  OBVIOUS
<1>1. CASE TargetDown \/ BeginRun \/ Detect \/ Healing \/ RunFails \/ MarkAndSelect
  BY <1>1 DEF HeadInv, Restored, TargetDown, BeginRun, Detect, Healing, HealOne,
              RunFails, MarkAndSelect, AfterPass
<1>2. ASSUME NEW b \in Bugs, Apply(b) \/ ApplyConflict(b) PROVE HeadInv'
  BY <1>2 DEF HeadInv, Restored, Apply, ApplyConflict
<1>3. CASE BatchReady \/ Record \/ AlreadyOpen \/ EndCycle \/ Save \/ Wake \/ Tick
  BY <1>3 DEF HeadInv, Restored, BatchReady, Record, AlreadyOpen, Concluded,
              EndCycle, Save, Wake, Tick, AfterPass
<1>4. CASE CreatePr
  BY <1>4 DEF HeadInv, Restored, CreatePr, CurrentBranch
<1>5. CASE StageFix \/ Commit
  <2>1. CASE StageFix
    BY <2>1 DEF HeadInv, Restored, StageFix
  <2>2. CASE Commit
    BY <2>2 DEF HeadInv, Restored, Commit, TypeOK, Checkout
  <2> QED BY <1>5, <2>1, <2>2
<1>6. CASE GitFails \/ GhFails
  BY <1>6, BackAgain DEF GitFails, GhFails, Concluded, TypeOK
<1>7. CASE PrCreated
  <2>1. sessionFixes' \in Nat
    BY <1>7, BugSets DEF PrCreated, TypeOK
  <2> QED BY <1>7, <2>1, BackAgain DEF PrCreated, Concluded
<1>8. CASE Crash
  <2>1. /\ pc' = "dead" /\ original' = NoStart /\ head' = head /\ home' = home
        /\ sessionFixes' = 0
        /\ strayed' = IF original = NoStart THEN strayed ELSE StrayedTo(head)
    BY <1>8 DEF Crash, ForgetSession
  <2>2. original'.name = "none"
    BY <2>1 DEF NoStart
  <2>3. CASE original.name = "none"
    <3>1. Restored(head)
      BY <2>3 DEF HeadInv
    <3>2. strayed' \in {strayed, "yes"} \/ (strayed' = "fallback" /\ head = Left("main"))
      BY <2>1 DEF StrayedTo
    <3> QED BY <2>1, <2>2, <3>1, <3>2 DEF HeadInv, Restored
  <2>4. CASE original.name # "none"
    <3>1. original # NoStart /\ Restored(original.head)
      BY <2>4 DEF NoStart, HeadInv
    <3>2. \/ head = original.head /\ strayed' = strayed
          \/ strayed' = "fallback" /\ head = Left("main")
          \/ strayed' = "yes"
      BY <2>1, <3>1 DEF StrayedTo
    <3> QED BY <2>1, <2>2, <3>1, <3>2 DEF HeadInv, Restored
  <2> QED BY <2>3, <2>4
<1>9. CASE StartSession
  BY <1>9 DEF HeadInv, Restored, StartSession, ForgetSession
<1>10. CASE Hang
  BY <1>10 DEF HeadInv, Restored, Hang
<1>11. ASSUME NEW branch \in Branch, ClosePr(branch) PROVE HeadInv'
  BY <1>11 DEF HeadInv, Restored, ClosePr
<1>12. CASE UNCHANGED vars
  BY <1>12 DEF HeadInv, Restored, vars
<1>13. QED
  BY <1>1, <1>2, <1>3, <1>4, <1>5, <1>6, <1>7, <1>8, <1>9, <1>10, <1>11, <1>12
     DEF Next, PatrolStep, Environment

\* createPr gives the user's place back, goes to `main` when it did not learn
\* the name, never comes back to a detached HEAD it published from, and is
\* elsewhere only after a checkout that failed or a death inside it.
THEOREM HeadRestoredHolds == Spec => []HeadRestored
<1>1. Init => HeadInv
  BY DEF Init, HeadInv, Restored, NoStart
<1>2. HeadInv => HeadRestored
  BY DEF HeadInv, Restored, HeadRestored
<1>3. QED
  BY <1>1, <1>2, TypeInit, TypeNext, HeadNext, PTL DEF Spec

-----------------------------------------------------------------------------
(* What is on its way into the commit: a fix that has landed is uncommitted, *)
(* then staged, then committed, and only its files were staged with it.      *)

\* The changes createPr has a reason to publish.
Own == landed \cup Gifs(media)

OnItsWay ==
  /\ pc \in {"fix", "record", "publish", "git"} => landed \subseteq dirty
  /\ pc = "commit" => landed \subseteq staged
  /\ pc = "gh" => landed \subseteq head.ahead

Scoped ==
  /\ pc = "git" => original.head = head /\ original.staged = staged
  /\ pc = "commit" =>
       /\ head.ahead = original.head.ahead
       /\ original.staged \subseteq staged
       /\ FilesOf(staged \ original.staged) \subseteq FilesOf(Own)
  /\ pc = "gh" =>
       /\ original.staged \subseteq head.ahead
       /\ FilesOf(head.ahead \ (original.head.ahead \cup original.staged))
            \subseteq FilesOf(Own)

StagingInv == OnItsWay /\ Scoped

LEMMA AddedOwnFiles ==
  ASSUME NEW S PROVE FilesOf(Added(S)) \subseteq FilesOf(S)
  BY DEF Added, FilesOf

LEMMA AddedLanded ==
  ASSUME landed \subseteq dirty PROVE landed \subseteq Added(Own)
  BY DEF Added, FilesOf, Own

LEMMA StagingNext ==
  TypeOK /\ PhaseInv /\ StagingInv /\ [Next]_vars => StagingInv'
<1> SUFFICES ASSUME TypeOK, PhaseInv, StagingInv, [Next]_vars PROVE StagingInv'
  OBVIOUS
<1> USE DEF StagingInv, OnItsWay, Scoped
<1>1. CASE TargetDown \/ BeginRun \/ Detect \/ Healing \/ RunFails
  BY <1>1 DEF TargetDown, BeginRun, Detect, Healing, HealOne, RunFails, AfterPass
<1>2. CASE MarkAndSelect
  BY <1>2 DEF MarkAndSelect, PhaseInv, Publishing
<1>3. ASSUME NEW b \in Bugs, Apply(b) \/ ApplyConflict(b) PROVE StagingInv'
  BY <1>3 DEF Apply, ApplyConflict
<1>4. CASE BatchReady \/ Record \/ AlreadyOpen \/ EndCycle \/ Save \/ Wake
  BY <1>4 DEF BatchReady, Record, AlreadyOpen, Concluded, EndCycle, Save, Wake,
              AfterPass
<1>5. CASE CreatePr
  BY <1>5 DEF CreatePr
<1>6. CASE StageFix
  <2>1. /\ pc' = "commit" /\ landed' = landed /\ media' = media
        /\ original' = original
        /\ staged' = staged \cup Added(Own) /\ head'.ahead = head.ahead
    BY <1>6 DEF StageFix, Own
  <2>2. original.staged = staged /\ original.head = head /\ landed \subseteq dirty
    BY <1>6 DEF StageFix
  <2>3. FilesOf(staged' \ original'.staged) \subseteq FilesOf(Added(Own))
    BY <2>1, <2>2 DEF FilesOf
  <2>4. Own' = Own
    BY <2>1 DEF Own
  <2>5. FilesOf(staged' \ original'.staged) \subseteq FilesOf(Own)'
    BY <2>3, <2>4, AddedOwnFiles DEF FilesOf
  <2>6. landed' \subseteq staged'
    BY <2>1, <2>2, AddedLanded
  <2>7. QED BY <2>1, <2>2, <2>5, <2>6
<1>7. CASE Commit
  <2>1. /\ pc = "commit" /\ pc' = "gh" /\ landed' = landed /\ media' = media
        /\ original' = original
        /\ head'.ahead = head.ahead \cup staged
    BY <1>7 DEF Commit, TypeOK, Checkout
  <2>2. head'.ahead \ (original'.head.ahead \cup original'.staged)
          \subseteq staged \ original.staged
    BY <2>1
  <2>3. FilesOf(head'.ahead \ (original'.head.ahead \cup original'.staged))
          \subseteq FilesOf(staged \ original.staged)
    BY <2>2 DEF FilesOf
  <2>4. FilesOf(Own)' = FilesOf(Own)
    BY <2>1 DEF Own, FilesOf
  <2>5. landed' \subseteq head'.ahead /\ original'.staged \subseteq head'.ahead
    BY <2>1
  <2>6. QED BY <2>1, <2>3, <2>4, <2>5
<1>8. CASE GitFails \/ PrCreated \/ GhFails
  BY <1>8 DEF GitFails, PrCreated, GhFails, Concluded
<1>9. CASE Crash \/ StartSession \/ Hang
  BY <1>9 DEF Crash, StartSession, Hang
<1>10. CASE Tick
  BY <1>10 DEF Tick, Own, FilesOf
<1>11. ASSUME NEW branch \in Branch, ClosePr(branch) PROVE StagingInv'
  BY <1>11 DEF ClosePr, Own, FilesOf
<1>12. CASE UNCHANGED vars
  BY <1>12 DEF vars, Own, FilesOf
<1>13. QED
  BY <1>1, <1>2, <1>3, <1>4, <1>5, <1>6, <1>7, <1>8, <1>9, <1>10, <1>11, <1>12
     DEF Next, PatrolStep, Environment

LEMMA StagingCorrect == Spec => [](TypeOK /\ PhaseInv /\ StagingInv)
<1>1. Init => PhaseInv /\ StagingInv
  BY DEF Init, PhaseInv, StagingInv, OnItsWay, Scoped
<1>2. QED
  BY <1>1, TypeInit, TypeNext, PhaseNext, StagingNext, PTL DEF Spec

\* Only the two ends of `gh pr create` open a pull request, that of `landed`.
LEMMA OpeningSteps ==
  ASSUME [Next]_vars, NEW branch \in Opened
  PROVE  pc = "gh" /\ branch = landed
  BY DEF Opened, Next, PatrolStep, Environment, Healing, HealOne, TargetDown,
         BeginRun, Detect, RunFails, MarkAndSelect, Apply, ApplyConflict,
         BatchReady, Record, AlreadyOpen, CreatePr, StageFix, Commit, GitFails,
         PrCreated, GhFails, EndCycle, Save, Wake, Crash, Hang, StartSession,
         Tick, ClosePr, vars

\* Every pull request contains the fixes it is named for.
THEOREM PrCarriesItsFixesHolds == Spec => PrCarriesItsFixes
<1>1. StagingInv /\ [Next]_vars
        => \A branch \in Opened : branch \subseteq head.ahead
  BY OpeningSteps DEF StagingInv, OnItsWay
<1>2. QED
  BY <1>1, StagingCorrect, PTL DEF Spec, PrCarriesItsFixes

\* A pull request takes along whatever the user had staged, and beyond that no
\* file but those of its fixes and of the recordings made for them.
THEOREM ScopedStagingHolds == Spec => ScopedStaging
<1>1. StagingInv /\ [Next]_vars
        => \A branch \in Opened :
             /\ original.staged \subseteq head.ahead
             /\ FilesOf(head.ahead \ (original.head.ahead \cup original.staged))
                  \subseteq FilesOf(branch \cup Gifs(media))
  BY OpeningSteps DEF StagingInv, Scoped, Own
<1>2. QED
  BY <1>1, StagingCorrect, PTL DEF Spec, ScopedStaging

-----------------------------------------------------------------------------
(* The seam with heal().  Patrol takes a whole heal in one step, HealOne;   *)
(* the contract that Heal is shown to implement takes it payment by payment. *)

VARIABLES
  left,    \* what a heal that is under way has left of the budget
  paid,    \* the generations it has paid for
  ending   \* its outcome

OneHeal == INSTANCE HealContract
  WITH MaxCalls <- HealCalls, capped <- Capped, budget <- left, calls <- paid,
       outcome <- ending

\* The loop only tells these endings apart.
StatusOf(o) == IF o \in {"healed", "no-llm", "budget-exhausted"} THEN o ELSE "unfixed"

\* A heal of the contract that began on the budget of this state.
PaidSoFar ==
  /\ budget \in Nat /\ left \in Nat /\ paid \in 0 .. HealCalls
  /\ left = (IF Capped THEN budget - paid ELSE budget)
  /\ ending \in OneHeal!Outcomes \cup {"running"}
  /\ ending = "no-llm" => paid = 0
  /\ ending = "budget-exhausted" => Capped /\ left = 0 /\ paid < HealCalls

\* What HealOne requires of a heal with this status and these payments, and what
\* it makes of the budget.
TakenAtOnce ==
  ending # "running" =>
    /\ StatusOf(ending) \in Statuses \ {"none"} /\ paid \in 0 .. HealCalls
    /\ HealOutcome(StatusOf(ending), paid)
    /\ Capped => paid <= budget
    /\ left = (IF Capped THEN budget - paid ELSE budget)

\* Each payment, and the end, keeps the account of the heal.
LEMMA PaymentCounts ==
  PaidSoFar /\ OneHeal!Next /\ budget' = budget => PaidSoFar'
<1> SUFFICES ASSUME PaidSoFar, OneHeal!Next, budget' = budget PROVE PaidSoFar'
  OBVIOUS
<1> USE LimitAssumption DEF PaidSoFar, Capped
<1>1. CASE OneHeal!Pay
  BY <1>1 DEF OneHeal!Pay
<1>2. ASSUME NEW o \in OneHeal!Outcomes, OneHeal!Finish(o) PROVE PaidSoFar'
  BY <1>2 DEF OneHeal!Finish
<1> QED
  BY <1>1, <1>2 DEF OneHeal!Next

\* However a heal that keeps its contract goes, and whatever budget it begins
\* with, the loop's single step is one the loop's model allows, with the same
\* status, payments and rest of the budget: nothing that heal() may do is left
\* out of the loop (core/orchestrator.ts, the calls of heal()).
THEOREM HealIsTakenAtOnce ==
  OneHeal!Spec /\ budget \in Nat /\ left = budget /\ [][FALSE]_budget => []TakenAtOnce
<1>1. OneHeal!Init /\ budget \in Nat /\ left = budget => PaidSoFar
  BY LimitAssumption DEF OneHeal!Init, PaidSoFar
<1>2. PaidSoFar /\ [OneHeal!Next]_(OneHeal!vars) /\ [FALSE]_budget => PaidSoFar'
  <2> SUFFICES ASSUME PaidSoFar, [OneHeal!Next]_(OneHeal!vars), [FALSE]_budget
               PROVE  PaidSoFar'
    OBVIOUS
  <2>1. budget' = budget
    OBVIOUS
  <2>2. CASE UNCHANGED OneHeal!vars
    BY <2>1, <2>2 DEF OneHeal!vars, PaidSoFar
  <2> QED
    BY <2>1, <2>2, PaymentCounts
<1>3. PaidSoFar => TakenAtOnce
  BY LimitAssumption
     DEF PaidSoFar, TakenAtOnce, StatusOf, Statuses, HealOutcome, OneHeal!Outcomes, Capped
<1> QED
  BY <1>1, <1>2, <1>3, PTL DEF OneHeal!Spec

=============================================================================
