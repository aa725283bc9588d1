------------------------------ MODULE DevServer ------------------------------
(***************************************************************************)
(* The dev server aztrx attaches to or boots                               *)
(* (src/src/core/devServer.ts, heal/boot.ts and their callers in cli.ts):  *)
(* who starts it, who is asked to stop it, and what is left running when   *)
(* the process has exited.                                                 *)
(*                                                                         *)
(* The booted server is a process group of its own.  close() is called by  *)
(* the command when it is done, by the handlers of SIGINT and SIGTERM, by  *)
(* the watcher and by the loss of the parent, in any order; the first call *)
(* runs killTree, which sends SIGTERM, waits, escalates to SIGKILL, waits  *)
(* again, and returns whether or not the group has gone by then.           *)
(* Modelled for POSIX; on Windows the kill is one blocking call.           *)
(***************************************************************************)
EXTENDS Naturals, FiniteSets

CONSTANT Hosts  \* commands that own a server: "run", "patrol", "watch"

ASSUME HostsAssumption == Hosts \subseteq {"run", "patrol", "watch"}

VARIABLES
  host,      \* the command of this process
  phase,     \* where the command is
  source,    \* of the target: "none", "attached" or "booted"
  group,     \* process group of the server that answers at the target
  stubborn,  \* the server ignores SIGTERM
  armed,     \* signals that still have a handler
  closer,    \* the caller whose close() runs killTree, "none" before
  killing,   \* killTree is waiting for the group to go
  returned   \* callers whose close() has returned: each exits the process

serverVars ==
  <<host, phase, source, group, stubborn, armed, closer, killing, returned>>

Signals == {"SIGINT", "SIGTERM"}
Callers == Signals \cup {"boot", "main", "stop", "disconnect"}

\* "killed" is an exit by a signal that nobody handled.
Phases == {"resolve", "boot", "failed", "work", "finish", "exited", "killed"}

Running == phase \notin {"exited", "killed"}

ServerTypeOK ==
  /\ host \in Hosts /\ phase \in Phases
  /\ source \in {"none", "attached", "booted"}
  /\ group \in {"none", "up", "asked", "killed", "gone"}
  /\ stubborn \in BOOLEAN /\ killing \in BOOLEAN
  /\ armed \subseteq Signals /\ returned \subseteq Callers
  /\ closer \in Callers \cup {"none"}

\* A server may be running already, started by somebody else.
ServerInit ==
  /\ host \in Hosts
  /\ phase = "resolve" /\ source = "none"
  /\ group \in {"none", "up"} /\ stubborn \in BOOLEAN
  /\ armed = {} /\ closer = "none" /\ killing = FALSE /\ returned = {}

closing == <<closer, killing, returned>>

-----------------------------------------------------------------------------
(* resolveTarget                                                            *)

\* The watcher installs handlers of its own whatever its target is.
WatchHandlers == IF host = "watch" THEN Signals ELSE {}

\* findRunning: a listener that answers is used and left alone.
Attach ==
  /\ phase = "resolve" /\ group = "up"
  /\ source' = "attached"
  /\ armed' = WatchHandlers
  /\ phase' = "work"
  /\ UNCHANGED <<host, group, stubborn, closing>>

\* Nothing runs and booting is not possible or not allowed.  The watcher goes
\* on without a target.
NoTarget ==
  /\ phase = "resolve" /\ group = "none"
  /\ armed' = WatchHandlers
  /\ phase' = IF host = "watch" THEN "work" ELSE "exited"
  /\ UNCHANGED <<host, source, group, stubborn, closing>>

\* bootServer spawns the group, then polls it; nothing is armed yet.
Boot ==
  /\ phase = "resolve" /\ group = "none"
  /\ source' = "booted"
  /\ group' = "up"
  /\ phase' = "boot"
  /\ UNCHANGED <<host, stubborn, armed, closing>>

Ready ==
  /\ phase = "boot"
  /\ armed' = Signals
  /\ phase' = "work"
  /\ UNCHANGED <<host, source, group, stubborn, closing>>

-----------------------------------------------------------------------------
(* close() and killTree                                                     *)

Asked == IF group = "up" THEN "asked" ELSE group

\* The first close() of a booted server sends SIGTERM and waits; every later
\* one, and that of an attached server, returns at once.
Close(c) ==
  IF source = "booted" /\ closer = "none"
  THEN /\ closer' = c /\ killing' = TRUE
       /\ group' = Asked
       /\ UNCHANGED returned
  ELSE /\ returned' = returned \cup {c}
       /\ UNCHANGED <<closer, killing, group>>

\* The server exits, by itself, because it was asked to, or by SIGKILL.
GroupExits ==
  /\ group \in {"up", "killed"} \/ (group = "asked" /\ ~stubborn)
  /\ group' = "gone"
  /\ UNCHANGED <<host, phase, source, stubborn, armed, closing>>

\* Variant: the escalation sends SIGTERM once more.
EscalateWithTerm ==
  /\ Running /\ killing /\ group = "asked"
  /\ group' = Asked
  /\ UNCHANGED <<host, phase, source, stubborn, armed, closing>>

\* The grace period is over and the group is alive: SIGKILL.
Escalate ==
  /\ Running /\ killing /\ group = "asked"
  /\ group' = "killed"
  /\ UNCHANGED <<host, phase, source, stubborn, armed, closing>>

\* One of the two waits has seen the group go, or the second is over: what it
\* has seen is not looked at.
KillTreeReturns ==
  /\ Running /\ killing /\ group \in {"killed", "gone"}
  /\ killing' = FALSE
  /\ returned' = returned \cup {closer}
  /\ UNCHANGED <<host, phase, source, group, stubborn, armed, closer>>

\* Somebody starts a server of his own at the target.
SomebodyStarts ==
  /\ source # "booted" /\ group \in {"none", "gone"}
  /\ group' = "up"
  /\ UNCHANGED <<host, phase, source, stubborn, armed, closing>>

-----------------------------------------------------------------------------
(* How the process ends.                                                    *)

\* The server did not become ready: bootServer closes it before it throws.
BootTimesOut ==
  /\ phase = "boot"
  /\ Close("boot")
  /\ phase' = "failed"
  /\ UNCHANGED <<host, source, stubborn, armed>>

\* The watcher goes on without a target, every other command gives up.
BootFails ==
  /\ phase = "failed" /\ "boot" \in returned
  /\ source' = "none" /\ closer' = "none" /\ returned' = {}
  /\ armed' = WatchHandlers
  /\ phase' = IF host = "watch" THEN "work" ELSE "exited"
  /\ UNCHANGED <<host, group, stubborn, killing>>

\* The command is done and releases its server.
Finish ==
  /\ phase = "work" /\ host # "watch"
  /\ Close("main")
  /\ phase' = "finish"
  /\ UNCHANGED <<host, source, stubborn, armed>>

\* process.exit() of a refused option (an unknown role, incomplete
\* credentials) or an error nobody catches, with the target resolved.
ExitWithoutClose ==
  /\ phase = "work" /\ host # "watch"
  /\ phase' = "exited"
  /\ UNCHANGED <<host, source, group, stubborn, armed, closing>>

\* The handler armed at the boot calls close().  Behind it the watcher has a
\* handler of its own, whose close() comes second and returns at once.
Handle(s) ==
  /\ Running /\ s \in armed
  /\ armed' = armed \ {s}
  /\ IF host = "watch" /\ source = "booted" /\ closer = "none"
     THEN /\ closer' = s /\ killing' = TRUE
          /\ group' = Asked
          /\ returned' = returned \cup {"stop"}
     ELSE Close(IF host = "watch" THEN "stop" ELSE s)
  /\ UNCHANGED <<host, phase, source, stubborn>>

\* A signal without a handler, or whose handler has been used up.
Die(s) ==
  /\ Running /\ s \notin armed
  /\ phase' = "killed"
  /\ UNCHANGED <<host, source, group, stubborn, armed, closing>>

\* The dev-server plugin or the git hook that spawned the scan has gone.
Disconnect ==
  /\ host = "run" /\ phase \in {"work", "finish"}
  /\ "disconnect" \notin returned \cup {closer}
  /\ Close("disconnect")
  /\ UNCHANGED <<host, phase, source, stubborn, armed>>

\* process.exit() of a caller whose close() has returned.
Exit ==
  /\ phase \in {"work", "finish"} /\ returned # {}
  /\ phase' = "exited"
  /\ UNCHANGED <<host, source, group, stubborn, armed, closing>>

ServerNext ==
  \/ Attach \/ NoTarget \/ Boot \/ Ready \/ BootTimesOut \/ BootFails
  \/ Finish \/ ExitWithoutClose \/ Disconnect
  \/ \E s \in Signals : Handle(s) \/ Die(s)
  \/ GroupExits \/ SomebodyStarts \/ Escalate \/ KillTreeReturns \/ Exit

\* What is under way in killTree and in the kernel: a group that got SIGKILL
\* goes, and so does one that got SIGTERM and does not ignore it.
Killing ==
  \/ Escalate \/ KillTreeReturns
  \/ group \in {"asked", "killed"} /\ GroupExits

-----------------------------------------------------------------------------

\* What a close() that has returned says of the server: to the caller that has
\* killed it, that it is gone or has got the signal that cannot be caught; to
\* any other, only that it has been asked to stop.
ClosedMeansKilled ==
  /\ closer \in returned => group \in {"killed", "gone"}
  /\ source = "booted" /\ returned # {} => group # "up"

\* The process is gone before the escalation: the exit of another caller, whose
\* close() returned at once, or a second signal has cut it off.
CutShort == ~Running /\ closer \notin returned /\ group = "asked" /\ stubborn

\* A booted server that anybody has closed goes, whatever it does about
\* SIGTERM and whoever else closes it, except when killTree is cut short; and
\* the caller that kills does not return before the last signal is sent.
ReleasedServerGoes ==
  /\ []ClosedMeansKilled
  /\ closer # "none" ~> group = "gone" \/ CutShort

=============================================================================
