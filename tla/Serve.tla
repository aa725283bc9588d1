-------------------------------- MODULE Serve --------------------------------
(***************************************************************************)
(* A command with a dev server to look after, and who has started it: a    *)
(* terminal (`aztrx watch`, and the server's side of `aztrx run` and       *)
(* `aztrx patrol`), or another program that spawned the scan (a git hook,  *)
(* a dev server's plugin).                                                 *)
(***************************************************************************)
EXTENDS DevServer

CONSTANTS Files, Bugs, MaxSaves, Others, Parents, Refs

ASSUME ServeAssumption ==
  /\ MaxSaves \in Nat
  /\ Parents \subseteq {"hook", "vite", "next"}
  /\ Refs \subseteq {"delete", "new", "docs", "code", "undiffable"}

VARIABLES
  timer, pending, dirty, pumps, scope, step, fresh, reported, shown,
  newest, fate, saves,
  hook, hookDir, config, backup, marker, lost,
  parent, state, refs, decision, outcome, heard,
  channel, watched, term, document, abandoned

W == INSTANCE Watch
P == INSTANCE Push

watchVars == <<timer, pending, dirty, pumps, scope, step, fresh, reported, shown,
               newest, fate, saves>>
spawnVars == <<hook, hookDir, config, backup, marker, lost,
               parent, state, refs, decision, outcome, heard,
               channel, watched, term, document, abandoned>>
vars      == <<serverVars, watchVars, spawnVars>>

Typed == parent = "terminal"

InTerminal ==
  /\ parent = "terminal" /\ W!Init /\ P!LinkInit
  /\ hook = "absent" /\ hookDir = FALSE /\ config = P!Absent /\ backup = P!Absent
  /\ marker = FALSE /\ lost = FALSE

Spawned == P!Init /\ W!QueueInit

Init == InTerminal \/ Spawned

Terminal == Typed /\ W!Next /\ UNCHANGED spawnVars
Parent   == ~Typed /\ P!Next /\ UNCHANGED watchVars

Next == Terminal \/ Parent

\* Of the watcher: the event loop runs timers and continuations, a timer fires
\* once the saves have stopped, and a run or a heal returns or hangs.  Of a
\* spawned scan: the timer of the hook fires, and the child gets its signals
\* and the loss of its channel.  Of a server: killTree goes on while its
\* process runs, and signals have their effect.
Spec ==
  /\ Init /\ [][Next]_vars
  /\ WF_vars(Terminal /\ W!WatchStep)
  /\ WF_vars(Parent /\ P!Decide)
  /\ WF_vars(Parent /\ P!Closing)
  /\ WF_vars(Next /\ Killing)

-----------------------------------------------------------------------------

\* What the queue of the watcher holds is served, and a finding it keeps quiet
\* about has been shown.
WatchKeepsUp == (Typed => W!TypeOK) /\ W!QueueIsServed /\ W!NothingSilenced

\* The last file of a burst is audited, if the queue was empty when it was saved.
NewestIsAudited == W!NewestIsAudited

\* A push is let through unseen only when it cannot change the app, and is
\* blocked only by a crash that a scan has found.
PushIsJudged == P!SkipIsSafe /\ P!BlockedByCrashOnly

\* A scan whose parent dies or tells it to stop goes too, with its server.
AbandonedScanEnds == P!AbandonedScanEnds

=============================================================================
