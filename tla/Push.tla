-------------------------------- MODULE Push ---------------------------------
(***************************************************************************)
(* The scans that other programs start (src/src/plugins/scan.ts): a git    *)
(* push through the pre-push hook (src/src/hooks/index.ts) and the         *)
(* dev-server plugins of Vite and Next.js.  The scan is a child process    *)
(* with a dev server of its own to look after (DevServer); the parent may  *)
(* stop it, outlive it, or die first.                                      *)
(***************************************************************************)
EXTENDS DevServer, Install

CONSTANTS
  Parents,  \* which of "hook", "vite", "next"
  Refs      \* which refs a push may carry: "delete", "new", "docs", "code",
            \* "undiffable"

VARIABLES
  parent,     \* which program this is
  state,      \* where it is: "idle", "wait", "scan", "over", "gone"
  refs,       \* what git says is pushed
  decision,   \* of the hook: "none", "skip", "scan"
  outcome,    \* of the push: "none", "through", "blocked"
  heard,      \* what the parent was told of the scan
  channel,    \* IPC between the two: "none" before the spawn, "open", "closed"
  watched,    \* the child listens for the loss of it
  term,       \* SIGTERM is on its way to the child
  document,   \* what the child has printed
  abandoned   \* observation only: the scan was at work when its parent died

parentVars == <<parent, state, refs, decision, outcome, heard>>
linkVars   == <<channel, watched, term, document, abandoned>>
vars == <<serverVars, installVars, parentVars, linkVars>>

\* Nothing has been spawned yet.
LinkInit ==
  /\ state = "idle" /\ refs = {} /\ decision = "none" /\ outcome = "none"
  /\ heard = "none"
  /\ channel = "none" /\ watched = FALSE /\ term = FALSE
  /\ document = "none" /\ abandoned = FALSE

Init ==
  /\ ServerInit /\ InstallInit /\ LinkInit
  /\ host = "run" /\ parent \in Parents
  /\ ~hookDir \/ ~marker  \* the two files know nothing of each other
  /\ parent # "hook" => group = "none" /\ ~hookDir /\ ~marker

-----------------------------------------------------------------------------
(* What a push brings.                                                      *)

Live(rs) == {r \in rs : r # "delete"}

\* Variant: a push is new when all of its refs are.
BlindOnAllNew(rs) == Live(rs) = {"new"}

\* No base to compare with: a ref the remote has never seen, or a base that
\* git cannot resolve.
Blind(rs) == Live(rs) \cap {"new", "undiffable"} # {}

\* The files the refs that carry code have changed.
Changed(rs) == Live(rs) \cap {"docs", "code"}

\* decidePush: what is unknown is scanned.
Scans(rs, always) ==
  always \/ rs = {} \/ (Live(rs) # {} /\ Blind(rs)) \/ "code" \in Changed(rs)

\* AZTRX_HOOK_SKIP, or a shim that finds no aztrx-cli: the push goes through.
PushUnhooked ==
  /\ parent = "hook" /\ state = "idle"
  /\ state' = "over" /\ outcome' = "through"
  /\ UNCHANGED <<serverVars, installVars, parent, refs, decision, heard, linkVars>>

\* git runs the hook; spawnScan starts the child, or cannot.
PrePush(rs, always) ==
  /\ parent = "hook" /\ state = "idle" /\ IsOurs(hook)
  /\ refs' = rs
  /\ IF Scans(rs, always)
     THEN /\ decision' = "scan"
          /\ \/ state' = "scan" /\ channel' = "open" /\ UNCHANGED <<outcome, heard>>
             \/ /\ state' = "over" /\ outcome' = "through" /\ heard' = "error"
                /\ UNCHANGED channel
     ELSE /\ decision' = "skip" /\ state' = "over" /\ outcome' = "through"
          /\ UNCHANGED <<channel, heard>>
  /\ UNCHANGED <<serverVars, installVars, parent, watched, term, document, abandoned>>

-----------------------------------------------------------------------------
(* The dev-server plugins.                                                  *)

\* AZTRX_DEV_SCAN=0, or the option, or a server that is no development server.
PluginOff ==
  /\ parent \in {"vite", "next"} /\ state = "idle"
  /\ state' = "over"
  /\ UNCHANGED <<serverVars, installVars, parent, refs, decision, outcome, heard, linkVars>>

\* Vite: the server listens, and has a URL to scan or not.
Listening ==
  /\ parent = "vite" /\ state = "idle"
  /\ group' = "up"
  /\ \/ state' = "scan" /\ channel' = "open" /\ UNCHANGED heard
     \/ state' = "over" /\ heard' = "error" /\ UNCHANGED channel
  /\ UNCHANGED <<host, phase, source, stubborn, armed, closing, installVars, parent,
                 refs, decision, outcome, watched, term, document, abandoned>>

\* Next: register() returns at once and waits for the server in the
\* background; a second call in the same process does nothing.
Register ==
  /\ parent = "next" /\ state = "idle"
  /\ state' = "wait"
  /\ UNCHANGED <<serverVars, installVars, parent, refs, decision, outcome, heard, linkVars>>

\* waitForHttp answers, or gives up.
Served ==
  /\ state = "wait"
  /\ \/ /\ state' = "scan" /\ channel' = "open" /\ group' = "up"
        /\ UNCHANGED heard
     \/ state' = "over" /\ heard' = "error" /\ UNCHANGED <<channel, group>>
  /\ UNCHANGED <<host, phase, source, stubborn, armed, closing, installVars, parent,
                 refs, decision, outcome, watched, term, document, abandoned>>

-----------------------------------------------------------------------------
(* The child, which is `aztrx <url> --json` or `aztrx --json`.              *)

\* Variant: the child does not ask whether it has a parent.
NeverListens == FALSE

\* `if (process.connected)`, once the target is resolved.
Listens == channel = "open"

Resolved ==
  /\ Attach \/ Ready
  /\ watched' = Listens
  /\ UNCHANGED <<channel, term, document, abandoned>>

\* The run is over: one JSON document goes to stdout.
Reports ==
  /\ Finish
  /\ document' \in {"clean", "crash"}
  /\ UNCHANGED <<channel, watched, term, abandoned>>

Signalled ==
  /\ term /\ (Handle("SIGTERM") \/ Die("SIGTERM"))
  /\ term' = FALSE
  /\ UNCHANGED <<channel, watched, document, abandoned>>

Orphaned ==
  /\ watched /\ channel = "closed" /\ Disconnect
  /\ UNCHANGED linkVars

\* Only the hook's child may boot a server.
Alone ==
  /\ \/ NoTarget \/ BootTimesOut \/ BootFails \/ ExitWithoutClose
     \/ (parent = "hook" /\ Boot)
     \/ GroupExits \/ SomebodyStarts
  /\ UNCHANGED linkVars

Closes == (Escalate \/ KillTreeReturns \/ Exit) /\ UNCHANGED linkVars

ChildStep ==
  /\ channel # "none"
  /\ Resolved \/ Reports \/ Signalled \/ Orphaned \/ Alone \/ Closes
  /\ UNCHANGED <<installVars, parentVars>>

-----------------------------------------------------------------------------
(* What the parent hears, and how it ends.                                  *)

\* Only a crash that was found blocks.
Verdict(doc) == IF doc = "crash" THEN "blocked" ELSE "through"

\* 'close' of the child: its document, or "did not produce a result".
ChildCloses ==
  /\ state = "scan" /\ ~Running
  /\ state' = "over" /\ channel' = "closed"
  /\ heard' = IF document = "none" THEN "error" ELSE document
  /\ outcome' = IF parent = "hook" THEN Verdict(document) ELSE outcome
  /\ UNCHANGED <<serverVars, installVars, parent, refs, decision, watched, term,
                 document, abandoned>>

TimerIsSet == state = "scan"

\* raceTimeout: the scan is stopped and the push goes through.
HookTimesOut ==
  /\ parent = "hook" /\ TimerIsSet
  /\ state' = "over" /\ outcome' = "through"
  /\ term' = Running /\ channel' = "closed"
  /\ UNCHANGED <<serverVars, installVars, parent, refs, decision, heard, watched,
                 document, abandoned>>

\* The dev server closes or its process exits: stop(), synchronously.
ServerCloses ==
  /\ parent \in {"vite", "next"} /\ state \in {"wait", "scan"}
  /\ state' = "gone"
  /\ channel' = IF state = "scan" THEN "closed" ELSE channel
  /\ term' = (state = "scan" /\ Running)
  /\ UNCHANGED <<serverVars, installVars, parent, refs, decision, outcome, heard,
                 watched, document, abandoned>>

\* The parent is killed: nothing of it runs, and the channel closes.
ParentKilled ==
  /\ state \in {"wait", "scan"}
  /\ state' = "gone"
  /\ channel' = IF state = "scan" THEN "closed" ELSE channel
  /\ abandoned' = (state = "scan" /\ phase = "work")
  /\ UNCHANGED <<serverVars, installVars, parent, refs, decision, outcome, heard,
                 watched, term, document>>

Decide == ChildCloses \/ HookTimesOut

Next ==
  \/ state = "idle" /\ InstallNext /\ UNCHANGED <<serverVars, parentVars, linkVars>>
  \/ PushUnhooked
  \/ \E rs \in SUBSET Refs, always \in BOOLEAN : PrePush(rs, always)
  \/ PluginOff \/ Listening \/ Register \/ Served
  \/ ChildStep
  \/ Decide \/ ServerCloses \/ ParentKilled

\* The hook's timer fires, the child gets its signals and the loss of its
\* channel, and what it has begun to close it closes.  That a scan ends is not
\* assumed.
Closing == ChildStep /\ (Signalled \/ Orphaned \/ Closes)

-----------------------------------------------------------------------------

\* A push is let through unseen only when nothing in it can change the app:
\* every ref is a deletion or touches documents and assets.
SkipIsSafe == decision = "skip" => refs \subseteq {"delete", "docs"}

\* Fail-open: a push is blocked only by a crash that a scan has found in the
\* app, whatever else happens to the scan.
BlockedByCrashOnly ==
  outcome = "blocked" => document = "crash" /\ heard = "crash" /\ decision = "scan"

\* A scan that has its server and whose parent dies, or tells it to stop, goes
\* too without waiting for its walk to end, and so does the server it has
\* booted: unless the scan has exited by itself without a close(), or somebody
\* else's exit has cut the killing short.
AbandonedScanEnds ==
  abandoned \/ (term /\ phase \in {"work", "finish"})
    ~> ~Running /\ (source = "booted" => group = "gone" \/ CutShort \/ closer = "none")

=============================================================================
