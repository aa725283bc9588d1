------------------------------- MODULE Patrol -------------------------------
(***************************************************************************)
(* The autonomous bug-patrol loop of `aztrx patrol`                        *)
(* (src/src/core/patrol/loop.ts, state.ts, pr.ts and heal/apply.ts).       *)
(*                                                                         *)
(* One process scans a target, heals what it finds, applies the verified   *)
(* patches to the user's working tree, commits them on a branch of their   *)
(* own and asks GitHub for a pull request, cycle after cycle, with a       *)
(* memory on disk of the fingerprints it has handled.  Around it: a target *)
(* that comes and goes, git and gh commands that fail or lose their reply, *)
(* people who close pull requests, a clock, and a process that dies at any *)
(* step and is started again.                                              *)
(*                                                                         *)
(* The heal pipeline is here only as the contract its callers rely on      *)
(* (HealOutcome); module Heal models it in detail.                         *)
(***************************************************************************)
EXTENDS Naturals, FiniteSets

CONSTANTS
  Bugs,       \* fingerprints of the bugs the scan can detect and reproduce
  UserWork,   \* the uncommitted work of the user, as one more change
  FileOf,     \* the source file each change touches
  MaxSpend,   \* opts.maxSpend: paid generations per session, 0 is unlimited
  HealCalls,  \* paid tiers of one heal: at most this many generations each
  Cooldown,   \* retryAfterMs, in ticks of the clock
  Modes,      \* flags a session may be started with: --once, --batch, and
              \* maxFixes, the number of fixes it may publish
  Starts      \* where the user may have left HEAD: on `main`, on a branch of
              \* their own, detached

\* The recorded repro of a bug, aztrx-media/<fingerprint>.gif, as a change.
Gif(b)  == <<"gif", b>>
Gifs(S) == {Gif(b) : b \in S}

Changes == Bugs \cup {UserWork} \cup Gifs(Bugs)

ASSUME BugsAssumption == IsFiniteSet(Bugs) /\ UserWork \notin Bugs
ASSUME LimitAssumption ==
  /\ MaxSpend \in Nat
  /\ HealCalls \in Nat
  /\ Cooldown \in Nat \ {0}
ASSUME ModesAssumption == 
  Modes \subseteq [once : BOOLEAN, batch : BOOLEAN, maxFixes : Nat]
ASSUME StartsAssumption == Starts \subseteq {"main", "own", "detached"}

VARIABLES
  (* options of the session, and where the loop is *)
  mode, pc,
  (* PatrolState: the map in memory, and .aztrx/patrol.json *)
  mem, disk,
  (* locals of patrol() that live as long as the session *)
  sessionFixes, budget,
  (* locals of one cycle *)
  skip, toHeal, heal, toFix, landed, media,
  (* the user's clone: uncommitted and staged changes, HEAD, what createPr
     remembers of the place it started from, and where the user left HEAD *)
  dirty, staged, head, original, home,
  (* branches with an open pull request on GitHub *)
  prs,
  (* observation only: generations charged this session, and whether createPr
     has ever ended elsewhere than where it began: on `main`, its fallback, or
     left on a fix branch *)
  charged, strayed

session  == <<mode, sessionFixes, budget, charged>>
cycle    == <<skip, toHeal, heal, toFix, landed, media>>
clone    == <<dirty, staged, head, original, home, strayed>>
vars     == <<session, pc, mem, disk, cycle, clone, prs>>

-----------------------------------------------------------------------------
(* PatrolState: an entry per fingerprint.  `age` is the time since lastSeen, *)
(* counted up to Cooldown; after that it no longer matters.                  *)

New       == [status |-> "new", age |-> 0]
PrOpened  == [status |-> "pr-opened", age |-> 0]
Unfixed   == [status |-> "unfixed", age |-> 0]
Entry     == [status : {"new", "pr-opened", "unfixed"}, age : 0 .. Cooldown]
EmptyMemory == [b \in Bugs |-> New]

\* Variant: an unfixed mark never expires.
IsHandledForever(e) == e.status # "new"

\* isHandled: a pull request is opened, or the unfixed mark is still cooling.
IsHandled(e) ==
  \/ e.status = "pr-opened"
  \/ e.status = "unfixed" /\ e.age < Cooldown

Handled(m) == {b \in Bugs : IsHandled(m[b])}

Mark(m, S, e) == [b \in Bugs |-> IF b \in S THEN e ELSE m[b]]

Older(m) ==
  [b \in Bugs |->
     IF m[b].status = "unfixed" /\ m[b].age < Cooldown
     THEN [m[b] EXCEPT !.age = @ + 1]
     ELSE m[b]]

-----------------------------------------------------------------------------
(* The clone.  A fix branch is named by the set of fingerprints it fixes, so *)
(* the stable names of branchFor and branchForSet hold by construction; HEAD  *)
(* is on one of them, on `main`, on another branch of the user's, or detached. *)
(* `ahead` is what HEAD has committed beyond the place the user left it.      *)

Branch   == SUBSET Bugs
Place    == {"main", "own", "detached", "fix"}
Checkout == [at : Place, branch : Branch, ahead : SUBSET Changes]
Left(at) == [at |-> at, branch |-> {}, ahead |-> {}]
Homes    == {Left(at) : at \in Starts}

\* currentBranch: the name of the branch; "HEAD", the name git prints for a
\* detached HEAD; or "main" when rev-parse fails or prints nothing.
Names   == {"branch", "HEAD", "fallback"}
Start   == [name : Names \cup {"none"}, head : Checkout, staged : SUBSET Changes]
NoStart == [name |-> "none", head |-> Left("main"), staged |-> {}]

CurrentBranch ==
  {"fallback"} \cup {IF head.at = "detached" THEN "HEAD" ELSE "branch"}

FilesOf(S) == {FileOf[c] : c \in S}

\* Variant: `git add -A`, what createPr once fell back to.
AddAll(S) == dirty

\* Variant: only the files of one finding of a batch are staged.
AddedOfOne(S) ==
  LET b == CHOOSE x \in S : TRUE IN {c \in dirty : FileOf[c] = FileOf[b]}

\* `git add -- <files>`: every uncommitted change of the files of these
\* changes, the fixes and the recordings made for them.
Added(S) == {c \in dirty : FileOf[c] \in FilesOf(S)}

-----------------------------------------------------------------------------
Statuses == {"none", "healed", "unfixed", "no-llm", "budget-exhausted"}
Pcs == {"alive", "scan", "heal", "fix", "record", "publish", "git", "commit",
        "gh", "save", "sleep", "hung", "done", "dead"}

TypeOK ==
  /\ mode \in Modes
  /\ pc \in Pcs
  /\ mem \in [Bugs -> Entry] /\ disk \in [Bugs -> Entry]
  /\ sessionFixes \in Nat
  /\ budget \in 0 .. MaxSpend
  /\ charged \in Nat
  /\ skip \subseteq Bugs /\ toHeal \subseteq Bugs
  /\ toFix \subseteq Bugs /\ landed \subseteq Bugs /\ media \subseteq landed
  /\ heal \in [Bugs -> Statuses]
  /\ dirty \subseteq Changes /\ staged \subseteq dirty
  /\ head \in Checkout /\ original \in Start /\ home \in Homes
  /\ prs \subseteq Branch
  /\ strayed \in {"no", "fallback", "yes"}

NoHeal == [b \in Bugs |-> "none"]

\* The user has work in progress, staged or not, on `main`, on a branch of
\* their own or on a detached HEAD.
Init ==
  /\ mode \in Modes
  /\ pc = "alive"
  /\ mem = EmptyMemory /\ disk = EmptyMemory
  /\ sessionFixes = 0 /\ budget = MaxSpend /\ charged = 0
  /\ skip = {} /\ toHeal = {} /\ heal = NoHeal
  /\ toFix = {} /\ landed = {} /\ media = {}
  /\ dirty = {UserWork} /\ staged \in {{}, {UserWork}}
  /\ home \in Homes /\ head = home /\ original = NoStart
  /\ prs = {}
  /\ strayed = "no"

-----------------------------------------------------------------------------
(* One cycle: liveness check, run(), bookkeeping.                           *)

\* The locals of the loop body die with the iteration.
ForgetCycle ==
  /\ skip' = {} /\ toHeal' = {} /\ heal' = NoHeal
  /\ toFix' = {} /\ landed' = {} /\ media' = {}

AfterPass == IF mode.once THEN "done" ELSE "sleep"

\* isAlive() is false: this pass is skipped.
TargetDown ==
  /\ pc = "alive"
  /\ pc' = AfterPass
  /\ UNCHANGED <<session, mem, disk, cycle, clone, prs>>

\* run() starts with the fingerprints handled at this moment.
BeginRun ==
  /\ pc = "alive"
  /\ pc' = "scan"
  /\ skip' = Handled(mem)
  /\ UNCHANGED <<session, mem, disk, toHeal, heal, toFix, landed, media, clone, prs>>

\* Variant: the skip set is not consulted.
HealTargetsAll(found) == found

\* The reproducible own-code findings, less the skipped fingerprints.
HealTargets(found) == found \ skip

\* Detection and reproduction of a scan: some of the bugs show up.
Detect ==
  /\ pc = "scan"
  /\ pc' = "heal"
  /\ \E found \in SUBSET Bugs : toHeal' = HealTargets(found)
  /\ skip' = {}
  /\ UNCHANGED <<session, mem, disk, heal, toFix, landed, media, clone, prs>>

Capped == MaxSpend > 0

\* n paid generations, each refused once the shared budget is spent.
Spend(n) ==
  /\ Capped => n <= budget
  /\ budget' = IF Capped THEN budget - n ELSE budget
  /\ charged' = IF Capped THEN charged + n ELSE charged

\* What a caller may assume of heal(): how its status relates to its spending.
\* "unfixed" stands for every failed attempt (rejected, compile-failed, ...).
HealOutcome(status, n) ==
  /\ status = "no-llm" => n = 0
  /\ status = "budget-exhausted" => Capped /\ n < HealCalls /\ budget = n

HealOne(b, status, n) ==
  /\ pc = "heal"
  /\ b \in toHeal
  /\ HealOutcome(status, n)
  /\ Spend(n)
  /\ heal' = [heal EXCEPT ![b] = status]
  /\ toHeal' = toHeal \ {b}
  /\ UNCHANGED <<mode, sessionFixes, pc, mem, disk, skip, toFix,
                 landed, media, clone, prs>>

\* run() throws: the pass is abandoned, whatever has been healed in it.
RunFails ==
  /\ pc \in {"scan", "heal"}
  /\ toHeal = {}
  /\ pc' = AfterPass
  /\ ForgetCycle
  /\ UNCHANGED <<session, mem, disk, clone, prs>>

\* Attempted and not healed.  No model and no budget are not an attempt.
GaveUp == {b \in Bugs : heal[b] = "unfixed" /\ ~IsHandled(mem[b])}

NewHealed == {b \in Bugs : heal[b] = "healed" /\ ~IsHandled(mem[b])}

\* Variant: the cap is applied to each cycle.
FixRoomPerCycle == mode.maxFixes

\* Math.max(0, maxFixes - sessionFixes)
FixRoom ==
  IF sessionFixes <= mode.maxFixes THEN mode.maxFixes - sessionFixes ELSE 0

\* newHealed.slice(0, FixRoom), in any order of the findings.
Selections ==
  {S \in SUBSET NewHealed :
     \/ S = NewHealed /\ Cardinality(S) <= FixRoom
     \/ Cardinality(S) = FixRoom}

MarkAndSelect ==
  /\ pc = "heal"
  /\ toHeal = {}
  /\ mem' = Mark(mem, GaveUp, Unfixed)
  /\ toFix' \in Selections
  /\ heal' = NoHeal  \* the other findings are not read again
  /\ pc' = "fix"
  /\ UNCHANGED <<session, disk, skip, toHeal, landed, media, clone, prs>>

-----------------------------------------------------------------------------
(* Publishing: apply the patch, record the repro, find out whether a pull    *)
(* request is open, commit on a branch, create the pull request, return.      *)

\* The hunks of b still apply: its fix is not in the working tree yet.
Applicable(b) == b \notin dirty \cup head.ahead

\* applyVerifiedPatches(repoRoot, [f]) wrote the file.  A batch goes on to
\* the next finding, single mode publishes at once.
Apply(b) ==
  /\ pc = "fix" /\ b \in toFix
  /\ mode.batch \/ landed = {}
  /\ Applicable(b)
  /\ toFix' = toFix \ {b}
  /\ landed' = landed \cup {b}
  /\ dirty' = dirty \cup {b}
  /\ pc' = IF mode.batch THEN "fix" ELSE "record"
  /\ UNCHANGED <<session, mem, disk, skip, toHeal, heal, media, staged, head,
                 original, home, strayed, prs>>

\* Variant: the finding stays in the list.
ApplyConflictKept(b) ==
  /\ pc = "fix" /\ b \in toFix
  /\ mem' = Mark(mem, {b}, Unfixed)
  /\ UNCHANGED <<session, pc, disk, cycle, clone, prs>>

\* The file has changed since the heal and the hunks conflict.
ApplyConflict(b) ==
  /\ pc = "fix" /\ b \in toFix
  /\ toFix' = toFix \ {b}
  /\ mem' = Mark(mem, {b}, Unfixed)
  /\ UNCHANGED <<session, pc, disk, skip, toHeal, heal, landed, media, clone,
                 prs>>

BatchReady ==
  /\ pc = "fix" /\ mode.batch /\ toFix = {} /\ landed # {}
  /\ pc' = "record"
  /\ UNCHANGED <<session, mem, disk, cycle, clone, prs>>

\* recordGif of each landed finding: a GIF is written into the working tree,
\* or there is none to publish.
Record ==
  /\ pc = "record"
  /\ media' \in SUBSET landed
  /\ dirty' = dirty \cup Gifs(media')
  /\ pc' = "publish"
  /\ UNCHANGED <<session, mem, disk, skip, toHeal, heal, toFix, landed, staged,
                 head, original, home, strayed, prs>>

\* What every end of a publication does to the locals of the loop.
Concluded(mark) ==
  /\ mem' = Mark(mem, landed, mark)
  /\ landed' = {} /\ media' = {}
  /\ pc' = "fix"

\* hasOpenPr: the fix, and its recording, are left in the working tree.
AlreadyOpen ==
  /\ pc = "publish"
  /\ landed \in prs
  /\ Concluded(PrOpened)
  /\ UNCHANGED <<session, disk, skip, toHeal, heal, toFix, clone, prs>>

\* No open pull request of that branch, or `gh pr list` failed: either way
\* createPr runs, from what currentBranch takes the present branch to be.
CreatePr ==
  /\ pc = "publish"
  /\ \E name \in CurrentBranch :
       original' = [name |-> name, head |-> head, staged |-> staged]
  /\ pc' = "git"
  /\ UNCHANGED <<session, mem, disk, cycle, dirty, staged, head, home, strayed,
                 prs>>

\* Where `git checkout <originalBranch>` leads.  `git checkout HEAD` is no move,
\* and neither is the checkout of the fix branch that was made anew.
Back ==
  IF original.name = "fallback" THEN Left("main")
  ELSE IF original.name = "HEAD" \/ original.head.branch = head.branch THEN head
  ELSE original.head

\* What is remembered of a HEAD that is not back where createPr began.
StrayedTo(h) ==
  IF h = original.head THEN strayed
  ELSE IF h = Left("main") /\ strayed # "yes" THEN "fallback"
  ELSE "yes"

\* How safeCheckout ends: where the name leads, or silently where HEAD was.
ReturnHome ==
  /\ original' = NoStart
  /\ head' \in {Back, head}
  /\ strayed' = StrayedTo(head')

\* git checkout -B branch; git add -- files
StageFix ==
  /\ pc = "git"
  /\ head' = [at |-> "fix", branch |-> landed, ahead |-> head.ahead]
  /\ staged' = staged \cup Added(landed \cup Gifs(media))
  /\ pc' = "commit"
  /\ UNCHANGED <<session, mem, disk, cycle, dirty, original, home, strayed, prs>>

\* git commit: the whole index, not only what StageFix added.
Commit ==
  /\ pc = "commit"
  /\ head' = [head EXCEPT !.ahead = @ \cup staged]
  /\ dirty' = dirty \ staged
  /\ staged' = {}
  /\ pc' = "gh"
  /\ UNCHANGED <<session, mem, disk, cycle, original, home, strayed, prs>>

\* A git command failed.  What was staged stays staged.
GitFails ==
  /\ pc \in {"git", "commit"}
  /\ ReturnHome
  /\ Concluded(Unfixed)
  /\ UNCHANGED <<session, disk, skip, toHeal, heal, toFix, dirty, staged, home,
                 prs>>

\* gh pr create printed the url.  GitHub takes one open request per branch.
PrCreated ==
  /\ pc = "gh" /\ landed \notin prs
  /\ prs' = prs \cup {landed}
  /\ ReturnHome
  /\ sessionFixes' = sessionFixes + Cardinality(landed)
  /\ Concluded(PrOpened)
  /\ UNCHANGED <<mode, budget, charged, disk, skip, toHeal, heal, toFix,
                 dirty, staged, home>>

\* Variant: the failure path does not return to the original branch.
GhFailsInPlace ==
  /\ pc = "gh"
  /\ prs' \in {prs, prs \cup {landed}}
  /\ Concluded(Unfixed)
  /\ UNCHANGED <<session, disk, skip, toHeal, heal, toFix, clone>>

\* gh pr create failed, before GitHub had the request or after it took it.
GhFails ==
  /\ pc = "gh"
  /\ prs' \in {prs, prs \cup {landed}}
  /\ ReturnHome
  /\ Concluded(Unfixed)
  /\ UNCHANGED <<session, disk, skip, toHeal, heal, toFix, dirty, staged, home>>

-----------------------------------------------------------------------------
(* End of the cycle, restarts and the environment.                          *)

\* The cycle is over.  A spent budget ends the session here, before save().
EndCycle ==
  /\ pc = "fix" /\ toFix = {} /\ landed = {}
  /\ pc' = IF Capped /\ budget = 0 THEN "done" ELSE "save"
  /\ ForgetCycle
  /\ UNCHANGED <<session, mem, disk, clone, prs>>

\* Variant: the marks of the cycle stay in memory.
SaveSkipped ==
  /\ pc = "save"
  /\ pc' = AfterPass
  /\ UNCHANGED <<disk, session, mem, cycle, clone, prs>>

Save ==
  /\ pc = "save"
  /\ disk' = mem
  /\ pc' = AfterPass
  /\ UNCHANGED <<session, mem, cycle, clone, prs>>

Wake ==
  /\ pc = "sleep"
  /\ pc' = "alive"
  /\ UNCHANGED <<session, mem, disk, cycle, clone, prs>>

ForgetSession ==
  /\ mem' = disk'
  /\ sessionFixes' = 0 /\ budget' = MaxSpend /\ charged' = 0
  /\ ForgetCycle

\* The process dies.  Inside save() the file may be cut short, and read() of
\* an unreadable file starts from nothing.
Crash ==
  /\ pc \notin {"done", "dead"}
  /\ pc' = "dead"
  /\ disk' \in IF pc = "save" THEN {disk, EmptyMemory} ELSE {disk}
  /\ strayed' = IF original = NoStart THEN strayed ELSE StrayedTo(head)
  /\ original' = NoStart
  /\ ForgetSession
  /\ UNCHANGED <<mode, dirty, staged, head, home, prs>>

\* run(), the recording, git and gh are awaited without a limit of their own.
Hang ==
  /\ pc \in {"scan", "heal", "record", "publish", "git", "commit", "gh"}
  /\ pc' = "hung"
  /\ UNCHANGED <<session, mem, disk, cycle, clone, prs>>

\* `aztrx patrol` is started again, with any of its flags.
StartSession ==
  /\ pc \in {"done", "dead"}
  /\ pc' = "alive"
  /\ mode' \in Modes
  /\ UNCHANGED disk
  /\ ForgetSession
  /\ UNCHANGED <<clone, prs>>

\* Somebody merges or closes a pull request.
ClosePr(branch) ==
  /\ branch \in prs
  /\ prs' = prs \ {branch}
  /\ UNCHANGED <<session, pc, mem, disk, cycle, clone>>

Tick ==
  /\ <<Older(mem), Older(disk)>> # <<mem, disk>>
  /\ mem' = Older(mem) /\ disk' = Older(disk)
  /\ UNCHANGED <<session, pc, cycle, clone, prs>>

Healing ==
  \E b \in Bugs, status \in Statuses \ {"none"}, n \in 0 .. HealCalls :
    HealOne(b, status, n)

PatrolStep ==
  \/ TargetDown \/ BeginRun \/ Detect \/ Healing \/ RunFails \/ MarkAndSelect
  \/ \E b \in Bugs : Apply(b) \/ ApplyConflict(b)
  \/ BatchReady \/ Record \/ AlreadyOpen \/ CreatePr \/ StageFix \/ Commit
  \/ GitFails \/ PrCreated \/ GhFails \/ EndCycle \/ Save

Environment ==
  \/ Wake \/ Crash \/ Hang \/ StartSession \/ Tick
  \/ \E branch \in Branch : ClosePr(branch)

Next == PatrolStep \/ Environment

\* The event loop runs the process on while what it awaits does not hang, and
\* time passes.
Fairness == WF_vars(PatrolStep) /\ WF_vars(Tick)

Spec == Init /\ [][Next]_vars
FairSpec == Spec /\ Fairness

-----------------------------------------------------------------------------
(* What the loop promises.                                                  *)

\* The session cap of loop.ts holds however the fixes are spread over cycles
\* and batches: no more than maxFixes fixes are published in one session.
FixCap == sessionFixes <= mode.maxFixes

\* One budget is shared by all cycles of a session: the generations the heals
\* charge never exceed it, and what is left is what was not charged.
SpendCap == Capped => charged + budget = MaxSpend

\* Both limits of a session, on what it publishes and on what it pays for, hold
\* however it is cut into cycles, batches and failures.
CapsHold == FixCap /\ SpendCap

\* A process that dies between two cycles has lost nothing: whenever the loop
\* sleeps, patrol.json holds the marks the session has made.
SavedWhileAsleep == pc = "sleep" => disk = mem

\* A fingerprint marked pr-opened is final for the session: no later cycle
\* heals it, applies a patch for it or publishes it again.
PublishedIsFinal ==
  \A b \in Bugs :
    mem[b].status = "pr-opened" => b \notin toHeal \cup toFix \cup landed

\* Where createPr leaves HEAD.  As long as every createPr ended where it began,
\* the user is on the branch, and at the commit, they left; a rev-parse that
\* failed brings them there or to `main`, never to a fix branch; and from a
\* detached HEAD nobody who has published anything is brought back.
HeadRestored ==
  pc \notin {"commit", "gh", "hung"} =>
    /\ strayed = "no" => head = home
    /\ strayed = "fallback" => head \in {home, Left("main")}
    /\ home.at = "detached" /\ sessionFixes > 0 => head # home

Opened == prs' \ prs

\* A pull request contains every fix it announces, also when the branch is
\* created again or the index held something else.
PrCarriesItsFixes == [][\A branch \in Opened : branch \subseteq head.ahead]_vars

\* What a pull request carries besides the commits it starts from: the files
\* of its own fixes, the recordings made for them in this pass, and everything
\* the user had staged, which `git commit` takes along.
ScopedStaging ==
  [][\A branch \in Opened :
       /\ original.staged \subseteq head.ahead
       /\ FilesOf(head.ahead \ (original.head.ahead \cup original.staged))
            \subseteq FilesOf(branch \cup Gifs(media))]_vars

\* Every pass of the loop comes to an end, with the loop asleep or ended, unless
\* it hangs in something that has no limit.
PassEnds == pc = "alive" ~> pc \in {"sleep", "hung", "done", "dead"}

\* An unfixed mark is no verdict for ever: the fingerprint becomes eligible
\* for a heal again, once the cooldown has passed.
UnfixedIsRetried ==
  \A b \in Bugs : mem[b].status = "unfixed" ~> ~IsHandled(mem[b])

=============================================================================
