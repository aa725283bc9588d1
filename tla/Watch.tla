-------------------------------- MODULE Watch --------------------------------
(***************************************************************************)
(* `aztrx watch` (src/src/core/watch.ts), with the dev server it may own:  *)
(* saves are debounced by one timer, queued, and audited one cycle at a    *)
(* time; a finding is shown once per session and a patch is generated for  *)
(* it.  A cycle audits the first file of its queue: of the others it only   *)
(* knows the names.                                                        *)
(***************************************************************************)
EXTENDS DevServer

CONSTANTS
  Files,     \* source files that are saved
  Bugs,      \* fingerprints an audit may report
  MaxSaves   \* bound: saves of one session

VARIABLES
  timer,     \* queue captured by the pending setTimeout, Empty without one
  pending,   \* pendingFiles
  dirty,     \* work has been queued since the pump last looked
  pumps,     \* calls of pump() that are in their loop
  scope,     \* the file whose findings the cycle that is running keeps
  step,      \* where runCycle is
  fresh,     \* findings of this cycle that are still to be shown
  reported,  \* fingerprints that stay quiet from now on
  shown, newest, fate, saves
             \* observation only: findings written to the terminal, the last
             \* file saved, what has become of it, and how many saves there
             \* have been

queueVars == <<timer, pending, dirty, pumps>>
cycleVars == <<scope, step, fresh, reported, shown>>
saveVars  == <<newest, fate, saves>>
watchVars == <<queueVars, cycleVars, saveVars>>
vars      == <<serverVars, watchVars>>

Steps == {"idle", "attach", "audit", "alert", "heal", "hung"}

\* Of the last file saved: it will set the scope of a cycle, it waits behind
\* other files, its cycle runs, or how that has ended.
Fates == {"none", "due", "behind", "running", "audited", "skipped", "failed", "passed"}

\* A Set keeps its members in the order they came; what the loop looks at is
\* the one that came first.
Queues == [files : SUBSET Files, first : SUBSET Files]

Empty == [files |-> {}, first |-> {}]

\* What q holds, and behind it what r brings.
Merged(q, r) ==
  [files |-> q.files \cup r.files, first |-> IF q.files = {} THEN r.first ELSE q.first]

TypeOK ==
  /\ ServerTypeOK
  /\ timer \in Queues /\ pending \in Queues
  /\ dirty \in BOOLEAN /\ pumps \in 0 .. 1
  /\ scope \subseteq Files /\ step \in Steps
  /\ fresh \subseteq Bugs /\ reported \subseteq Bugs /\ shown \subseteq Bugs
  /\ newest \subseteq Files /\ fate \in Fates
  /\ saves \in 0 .. MaxSaves

QueueInit ==
  /\ timer = Empty /\ pending = Empty /\ dirty = FALSE /\ pumps = 0
  /\ scope = {} /\ step = "idle" /\ fresh = {} /\ reported = {}
  /\ shown = {} /\ newest = {} /\ fate = "none" /\ saves = 0

Init == ServerInit /\ QueueInit

Watching == host = "watch" /\ phase = "work"

-----------------------------------------------------------------------------
(* Saves, the debounce timer and the queue.                                 *)

\* Variant: a timer that is set already is left as it is.
CaptureFirst(f) ==
  IF timer = Empty THEN Merged(pending, [files |-> {f}, first |-> {f}]) ELSE timer

\* schedule: the new timer captures the queue as it is now and this file; the
\* timer before it is cleared, and what it had captured with it.
Capture(f) == Merged(pending, [files |-> {f}, first |-> {f}])

Save(f) ==
  /\ Watching /\ closer = "none" /\ returned = {}
  /\ saves < MaxSaves
  /\ timer' = Capture(f)
  /\ newest' = {f}
  /\ fate' = IF pending.files = {} \/ pending.first = {f} THEN "due" ELSE "behind"
  /\ saves' = saves + 1
  /\ UNCHANGED <<serverVars, pending, dirty, pumps, cycleVars>>

\* `if (running) return`: the running pump will find the queue dirty.
PumpOnce == IF pumps = 0 THEN 1 ELSE pumps

\* queue(): stop() clears the timer.
TimerFires ==
  /\ Watching /\ closer = "none" /\ returned = {}
  /\ timer # Empty
  /\ pending' = Merged(pending, timer)
  /\ timer' = Empty
  /\ dirty' = TRUE
  /\ pumps' = PumpOnce
  /\ UNCHANGED <<serverVars, cycleVars, saveVars>>

-----------------------------------------------------------------------------
(* The pump and its cycle.                                                  *)

\* What a cycle that takes the whole queue means for the last file saved.
Taken ==
  IF fate \notin {"due", "behind"} \/ ~(newest \subseteq pending.files) THEN fate
  ELSE IF newest = pending.first THEN "running" ELSE "passed"

\* runCycle takes the whole queue: the first file sets the intent and the scope.
BeginCycle ==
  /\ Watching /\ step = "idle" /\ pumps > 0 /\ dirty
  /\ dirty' = FALSE
  /\ scope' = pending.first /\ pending' = Empty
  /\ fate' = Taken
  /\ step' = IF source = "none" THEN "attach" ELSE "audit"
  /\ UNCHANGED <<serverVars, timer, pumps, fresh, reported, shown, newest,
                 saves>>

PumpEnds ==
  /\ Watching /\ step = "idle" /\ pumps > 0 /\ ~dirty
  /\ pumps' = pumps - 1
  /\ UNCHANGED <<serverVars, timer, pending, dirty, cycleVars, saveVars>>

EndCycle == scope' = {} /\ step' = "idle"

\* What the end of the audit means for the last file saved.
Ends(as) == fate' = IF fate = "running" THEN as ELSE fate

\* The end of a cycle leaves the queue alone.
CycleOver == EndCycle /\ UNCHANGED dirty

\* resolveTarget with allowBoot false: a server may have come up meanwhile.
AttachLate ==
  /\ Watching /\ step = "attach"
  /\ IF group = "up"
     THEN /\ source' = "attached" /\ step' = "audit"
          /\ UNCHANGED <<scope, dirty, fate>>
     ELSE /\ CycleOver            \* "skipping this save"
          /\ Ends("skipped")
          /\ UNCHANGED source
  /\ UNCHANGED <<host, phase, group, stubborn, armed, closing, timer, pending,
                 pumps, fresh, reported, shown, newest, saves>>

\* run() returns the findings that point at the file of its scope; those
\* already reported are not fresh.
Audit ==
  /\ Watching /\ step = "audit"
  /\ \E found \in SUBSET Bugs : fresh' = found \ reported
  /\ step' = "alert"
  /\ Ends("audited")
  /\ UNCHANGED <<serverVars, queueVars, scope, reported, shown, newest, saves>>

\* run() throws.
AuditFails ==
  /\ Watching /\ step = "audit"
  /\ CycleOver
  /\ Ends("failed")
  /\ UNCHANGED <<serverVars, timer, pending, pumps, fresh, reported, shown,
                 newest, saves>>

\* run() and heal() have no limit: a page that does not answer a question it
\* is asked, or a model that does not end, keeps the pump for ever.
Hang ==
  /\ Watching /\ step \in {"audit", "heal"}
  /\ step' = "hung"
  /\ UNCHANGED <<serverVars, queueVars, scope, fresh, reported, shown, saveVars>>

\* Variant: all fresh findings of the cycle are marked at once.
MarkAll(b) == reported \cup fresh

Mark(b) == reported \cup {b}

\* A finding is marked and written to the terminal, then healed.
Alert(b) ==
  /\ Watching /\ step = "alert" /\ b \in fresh
  /\ reported' = Mark(b)
  /\ shown' = shown \cup {b}
  /\ fresh' = fresh \ {b}
  /\ step' = "heal"
  /\ UNCHANGED <<serverVars, queueVars, scope, saveVars>>

HealReturns ==
  /\ Watching /\ step = "heal"
  /\ step' = "alert"
  /\ UNCHANGED <<serverVars, queueVars, scope, fresh, reported, shown,
                 saveVars>>

\* heal() throws: the findings after this one are not shown in this cycle.
HealFails ==
  /\ Watching /\ step = "heal"
  /\ fresh' = {}
  /\ CycleOver
  /\ UNCHANGED <<serverVars, timer, pending, pumps, reported, shown, saveVars>>

AllShown ==
  /\ Watching /\ step = "alert" /\ fresh = {}
  /\ CycleOver
  /\ UNCHANGED <<serverVars, timer, pending, pumps, fresh, reported, shown,
                 saveVars>>

WatchStep ==
  \/ TimerFires \/ BeginCycle \/ PumpEnds \/ AttachLate
  \/ Audit \/ AuditFails \/ AllShown \/ HealReturns \/ HealFails \/ Hang
  \/ \E b \in Bugs : Alert(b)

Next ==
  \/ ServerNext /\ UNCHANGED watchVars
  \/ WatchStep
  \/ \E f \in Files : Save(f)

-----------------------------------------------------------------------------

\* No wake-up is lost: whatever is queued, a pump is running that will look
\* at the queue again before it ends.
QueueIsServed == pending.files # {} => dirty /\ pumps > 0

\* A finding that stays quiet on later saves has been shown, also when the
\* heal of another finding failed in between.
NothingSilenced == reported \subseteq shown

\* A file that is saved while no other waits in the queue is audited as the
\* scope of a cycle that begins after the save, unless that cycle finds no
\* server, fails or hangs, the watcher is stopped, or a later save has to wait.
NewestIsAudited ==
  fate = "due"
    ~> \/ fate \in {"audited", "skipped", "failed", "behind"} \/ step = "hung"
       \/ ~Running \/ closer # "none" \/ returned # {}

=============================================================================
