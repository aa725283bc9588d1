--------------------------------- MODULE Mcp ---------------------------------
(***************************************************************************)
(* `aztrx-cli mcp` (src/src/mcp): the server an editor talks to over       *)
(* stdio.  A client agrees on a protocol version, then pipelines calls of  *)
(* aztrx_scan, aztrx_audit, aztrx_repro and aztrx_fix, and may cancel them.*)
(* Scans and heals share one promise chain; a fix whose heal is cached     *)
(* passes it by.  The process ends when stdin does.  The file of a finding *)
(* is kept as the changes made to it since it was scanned.                 *)
(***************************************************************************)
EXTENDS Naturals, Sequences, FiniteSets

CONSTANTS
  MaxRequests, \* bound: tools/call requests of a session
  Findings,   \* what a walk may find
  Patchable,  \* findings in own code with a repro that can be trusted
  MaxRecords, \* scans that stay addressable
  Versions,   \* protocol revisions clients speak
  Supported   \* SUPPORTED_VERSIONS

ASSUME McpAssumption ==
  /\ MaxRequests \in Nat
  /\ Patchable \subseteq Findings
  /\ MaxRecords \in Nat \ {0}
  /\ Supported \subseteq Versions /\ Supported # {}

VARIABLES
  client,     \* of the session: its era, what it speaks, and how it stands
  call,       \* arguments of a request
  stage,      \* where its handler is
  reply,      \* what the handler returns
  queue,      \* the promise chain of `serialize`, the running work first
  dropped,    \* requests the client has cancelled that are still worked on
  records,    \* scans that can be asked about, oldest first
  found,      \* findings of a scan
  heals,      \* heal results of a scan, by finding
  hand,       \* the heal result a handler works with
  tree,       \* what was done to the file of a finding in the working tree
  group,      \* process group a request has booted; "gone" if it has exited
              \* or been sent the signal it cannot ignore
  open,       \* openTargets
  alive,      \* the process: "serving", "signalled", "ended" (stdin), "exited"
  closing,    \* groups that closeAll waits for
  driving     \* observation only: scans that were walking a server of their
              \* own when the end came

sessionVars == <<client>>
callVars    == <<call, stage, reply, dropped>>
scanVars    == <<records, found, heals, hand>>
groupVars   == <<group, open, closing>>
mcpVars     == <<sessionVars, callVars, scanVars, groupVars, queue, tree, alive, driving>>

\* In the order they are sent; a scanId is the request that made it.
Requests == 1 .. MaxRequests

Walks == {"aztrx_scan", "aztrx_audit"}
Calls ==
  [tool : Walks]
    \cup [tool : {"aztrx_repro"}, scan : Requests, finding : Findings]
    \cup [tool : {"aztrx_fix"}, scan : Requests, finding : Findings, apply : BOOLEAN]
NoCall == [tool |-> "none"]

Stages  == {"unsent", "queued", "boot", "walk", "heal", "patch", "release", "hung", "settled"}
Replies == {"none", "error", "scan", "steps", "verified", "applied", "conflict", "unpatched"}

\* What a heal comes to: whose it is, whether its patch verified, and whether
\* the patch matches the file it has just been written to, because what it puts
\* in contains what it looks for (a guard before a line).
Results == {h \in [by : Requests, healed : BOOLEAN, again : BOOLEAN] : h.again => h.healed}
NoResult == [by |-> 0, healed |-> FALSE, again |-> FALSE]

\* A change of a file: the patch of a call, or one of somebody else.
Changes == [call : Requests, patch : Results]
SomeEdit == [call |-> 0, patch |-> NoResult]

Running == alive # "exited"

McpInit ==
  /\ client \in [era : {"legacy", "modern"}, speaks : (SUBSET Versions) \ {{}},
                 says : {"none"}, state : {"new"}]
  /\ call = [r \in Requests |-> NoCall]
  /\ stage = [r \in Requests |-> "unsent"]
  /\ reply = [r \in Requests |-> "none"]
  /\ queue = <<>> /\ dropped = {}
  /\ records = <<>>
  /\ found = [r \in Requests |-> {}]
  /\ heals = [r \in Requests |-> [f \in Findings |-> NoResult]]
  /\ hand = [r \in Requests |-> NoResult]
  /\ tree = [f \in Findings |-> <<>>]
  /\ group = [r \in Requests |-> "none"]
  /\ open = {} /\ closing = {}
  /\ alive = "serving"
  /\ driving = {}

-----------------------------------------------------------------------------
(* The protocol version.                                                    *)

\* A version that is supported is echoed.
Negotiate(v) == IF v \in Supported THEN v ELSE CHOOSE w \in Supported : TRUE

\* checkVersion: only a request that declares a version can be rejected.
Rejected(v) == v # "none" /\ v \notin Supported

Open == [state |-> "open"]  \* what was said no longer matters

Asks(v, state) == [client EXCEPT !.says = v, !.state = state]

\* A legacy client has no fall-forward: it goes on with what the server
\* answers or ends the session.  A modern one declares a version on every
\* request and, rejected, picks one off the list it was sent.
Hello(v) ==
  /\ Running /\ client.state = "new" /\ v \in client.speaks
  /\ client' = IF client.era = "legacy"
               THEN IF Negotiate(v) \in client.speaks THEN Open ELSE Asks(v, "refused")
               ELSE IF Rejected(v) THEN Asks(v, "rejected") ELSE Open
  /\ UNCHANGED <<callVars, scanVars, groupVars, queue, tree, alive, driving>>

Retry ==
  /\ Running /\ client.state = "rejected"
  /\ \/ client.speaks \cap Supported # {} /\ client' = Open
     \/ /\ client.speaks \cap Supported = {}
        /\ client' = Asks(client.says, "refused")
  /\ UNCHANGED <<callVars, scanVars, groupVars, queue, tree, alive, driving>>

-----------------------------------------------------------------------------
(* Answers, the queue and the records.                                      *)

\* The handler is done.  Its response goes out unless the client has moved on
\* from the request.
SettleCall(r, res) ==
  /\ stage' = [stage EXCEPT ![r] = "settled"]
  /\ reply' = [reply EXCEPT ![r] = res]
  /\ dropped' = dropped \ {r}

\* Arguments that are no use are answered at once, by a sentence the model can
\* act on.
Refuse(r) == SettleCall(r, "error") /\ UNCHANGED queue

\* Variant: the chain goes on only after work that did not throw.
NextOnSuccess(thrown) == IF thrown THEN queue ELSE Tail(queue)

\* `this.queue.then(work, work)`: the next work starts however this one ended.
NextInQueue(thrown) == Tail(queue)

Enqueue(r) ==
  /\ stage' = [stage EXCEPT ![r] = "queued"]
  /\ queue' = Append(queue, r)
  /\ UNCHANGED <<reply, dropped>>

\* The record of a scan; the oldest falls off the end.
Remember(r, fs) ==
  /\ found' = [found EXCEPT ![r] = fs]
  /\ records' = LET all == Append(records, r)
                IN  IF Len(all) > MaxRecords THEN Tail(all) ELSE all
  /\ UNCHANGED <<heals, hand>>

Addressable(s) == \E i \in DOMAIN records : records[i] = s

Sent(r, c) ==
  /\ alive \in {"serving", "signalled"} /\ client = Open /\ stage[r] = "unsent"
  /\ \A q \in 1 .. r - 1 : stage[q] # "unsent"
  /\ c.tool \notin Walks => c.scan < r
  /\ call' = [call EXCEPT ![r] = c]

-----------------------------------------------------------------------------
(* aztrx_scan and aztrx_audit                                               *)

\* What is not refused waits its turn.
SendScan(r, c) ==
  /\ c.tool = "aztrx_scan" /\ Sent(r, c)
  /\ Refuse(r) \/ Enqueue(r)
  /\ UNCHANGED <<sessionVars, scanVars, groupVars, tree, alive, driving>>

SendAudit(r, c) ==
  /\ c.tool = "aztrx_audit" /\ Sent(r, c)
  /\ Refuse(r) \/ Enqueue(r)
  /\ UNCHANGED <<sessionVars, scanVars, groupVars, tree, alive, driving>>

Turn(r) == Running /\ stage[r] = "queued" /\ queue # <<>> /\ Head(queue) = r

\* The app to walk is given, or found running.
Attach(r) ==
  /\ Turn(r) /\ call[r].tool \in Walks
  /\ stage' = [stage EXCEPT ![r] = "walk"]
  /\ UNCHANGED <<sessionVars, call, reply, dropped, scanVars, groupVars,
                 queue, tree, alive, driving>>

\* Nothing runs and package.json has no script to boot.
NothingToBoot(r) ==
  /\ Turn(r) /\ call[r].tool \in Walks
  /\ SettleCall(r, "error") /\ queue' = NextInQueue(FALSE)
  /\ UNCHANGED <<sessionVars, call, scanVars, groupVars, tree, alive, driving>>

\* bootServer spawns the project's own server and polls it.
Boot(r) ==
  /\ Turn(r) /\ call[r].tool \in Walks
  /\ stage' = [stage EXCEPT ![r] = "boot"]
  /\ group' = [group EXCEPT ![r] = "up"]
  /\ UNCHANGED <<sessionVars, call, reply, dropped, scanVars, open,
                 closing, queue, tree, alive, driving>>

\* Only now does closeAll know of it.
Booted(r) ==
  /\ Running /\ stage[r] = "boot"
  /\ stage' = [stage EXCEPT ![r] = "walk"]
  /\ open' = open \cup {r}
  /\ UNCHANGED <<sessionVars, call, reply, dropped, scanVars, group,
                 closing, queue, tree, alive, driving>>

Asked(g) == IF g = "up" THEN "asked" ELSE g

\* close(): the first call asks the group to go, a later one returns at once.
Release(r, res) ==
  /\ open' = open \ {r}
  /\ group' = [group EXCEPT ![r] = Asked(@)]
  /\ IF group[r] = "up"
     THEN /\ stage' = [stage EXCEPT ![r] = "release"]
          /\ reply' = [reply EXCEPT ![r] = res]
          /\ UNCHANGED <<dropped, queue>>
     ELSE SettleCall(r, res) /\ queue' = NextInQueue(FALSE)
  /\ UNCHANGED closing

\* Not ready in time: bootServer closes it before it throws.
BootTimesOut(r) ==
  /\ Running /\ stage[r] = "boot"
  /\ Release(r, "error")
  /\ UNCHANGED <<sessionVars, call, scanVars, tree, alive, driving>>

\* run() returns: the scan gets its record, and the server is let go.
Scanned(r, fs) ==
  /\ Running /\ stage[r] = "walk" /\ call[r].tool = "aztrx_scan"
  /\ Remember(r, fs)
  /\ Release(r, "scan")
  /\ UNCHANGED <<sessionVars, call, tree, alive, driving>>

Audited(r, fs) ==
  /\ Running /\ stage[r] = "walk" /\ call[r].tool = "aztrx_audit"
  /\ Remember(r, fs)
  /\ Release(r, "scan")
  /\ UNCHANGED <<sessionVars, call, tree, alive, driving>>

\* run() throws: an error, and no record.
WalkFails(r) ==
  /\ Running /\ stage[r] = "walk"
  /\ Release(r, "error")
  /\ UNCHANGED <<sessionVars, call, scanVars, tree, alive, driving>>

\* run() and heal() have no limit of their own: a page, a replayed request or a
\* server that never answers keeps them, and what is behind them in the queue.
Hangs(r) ==
  /\ Running /\ stage[r] \in {"walk", "heal"}
  /\ stage' = [stage EXCEPT ![r] = "hung"]
  /\ UNCHANGED <<sessionVars, call, reply, dropped, scanVars, groupVars,
                 queue, tree, alive, driving>>

\* waitUntilGone: the group has gone by itself, or is sent SIGKILL.
Released(r) ==
  /\ Running /\ stage[r] = "release"
  /\ group' = [group EXCEPT ![r] = "gone"]
  /\ SettleCall(r, reply[r])
  /\ queue' = NextInQueue(FALSE)
  /\ UNCHANGED <<sessionVars, call, scanVars, open, closing, tree, alive, driving>>

-----------------------------------------------------------------------------
(* aztrx_repro and aztrx_fix                                                *)

\* `resolve`: a handle that was evicted, or a finding the scan does not have.
Resolves(c) == Addressable(c.scan) /\ c.finding \in found[c.scan]

SendRepro(r, c) ==
  /\ c.tool = "aztrx_repro" /\ Sent(r, c)
  /\ SettleCall(r, IF Resolves(c) THEN "steps" ELSE "error")
  /\ UNCHANGED <<sessionVars, scanVars, groupVars, queue, tree, alive, driving>>

\* A heal that is cached is used where the call arrives; without one, and with
\* the gates passed, the call waits for its turn to heal.
SendFix(r, c) ==
  /\ c.tool = "aztrx_fix" /\ Sent(r, c)
  /\ LET cached == heals[c.scan][c.finding] IN
     \/ /\ ~Resolves(c) \/ (cached = NoResult /\ c.finding \notin Patchable)
        /\ Refuse(r) /\ UNCHANGED hand
     \/ /\ Resolves(c) /\ cached # NoResult
        /\ stage' = [stage EXCEPT ![r] = "patch"]
        /\ hand' = [hand EXCEPT ![r] = cached]
        /\ UNCHANGED <<reply, dropped, queue>>
     \/ /\ Resolves(c) /\ cached = NoResult /\ c.finding \in Patchable
        /\ Enqueue(r) /\ UNCHANGED hand
  /\ UNCHANGED <<sessionVars, records, found, heals, groupVars, tree, alive, driving>>

Heal(r) ==
  /\ Turn(r) /\ call[r].tool = "aztrx_fix"
  /\ stage' = [stage EXCEPT ![r] = "heal"]
  /\ UNCHANGED <<sessionVars, call, reply, dropped, scanVars, groupVars,
                 queue, tree, alive, driving>>

\* heal() boots the patched copy to replay against it, and stops it again.
HealServes(r) ==
  /\ Running /\ stage[r] = "heal" /\ group[r] = "none"
  /\ group' = [group EXCEPT ![r] = "up"]
  /\ UNCHANGED <<sessionVars, callVars, scanVars, open, closing, queue, tree, alive, driving>>

\* Every result is kept, whatever was there before, and even when the scan has
\* been evicted since.
Healed(r, result) ==
  /\ Running /\ stage[r] = "heal" /\ result.by = r
  /\ heals' = [heals EXCEPT ![call[r].scan][call[r].finding] = result]
  /\ hand' = [hand EXCEPT ![r] = result]
  /\ group' = [group EXCEPT ![r] = IF @ = "up" THEN "gone" ELSE @]
  /\ stage' = [stage EXCEPT ![r] = "patch"]
  /\ UNCHANGED <<sessionVars, call, reply, dropped, records, found,
                 open, closing, queue, tree, alive, driving>>

\* heal(), or the import of it, throws.
HealThrows(r) ==
  /\ Running /\ stage[r] = "heal"
  /\ SettleCall(r, "error")
  /\ group' = [group EXCEPT ![r] = IF @ = "up" THEN "gone" ELSE @]
  /\ queue' = NextInQueue(TRUE)
  /\ UNCHANGED <<sessionVars, call, scanVars, open, closing, tree, alive, driving>>

\* The working tree is touched for `apply: true` and a verified patch only.
Writes(r, result) == result.healed /\ call[r].apply

\* Variant: what the patch looks for is not looked for again.
MatchesAnyway(patch, file) == {TRUE}

\* applyHunks: what the patch looks for has to be in the file exactly once, as
\* in the file that was healed, and as in the one it has just been written to if
\* it puts it in again.  Of any other file it depends on what has been done to it.
Matches(patch, file) ==
  IF file = <<>> THEN {TRUE}
  ELSE IF file[Len(file)].patch = patch THEN {patch.again} ELSE BOOLEAN

FixReply(r, result, wrote) ==
  IF ~result.healed THEN "unpatched"
  ELSE IF wrote THEN "applied" ELSE IF call[r].apply THEN "conflict" ELSE "verified"

\* applyVerifiedPatches: the file is read, compared and written in one go; where
\* the patch does not match nothing is written.
FinishFix(r) ==
  LET f == call[r].finding
  IN  /\ Running /\ stage[r] = "patch"
      /\ \E matches \in Matches(hand[r], tree[f]) :
           LET wrote == Writes(r, hand[r]) /\ matches
           IN  /\ tree' = [tree EXCEPT ![f] =
                            IF wrote THEN Append(@, [call |-> r, patch |-> hand[r]]) ELSE @]
               /\ SettleCall(r, FixReply(r, hand[r], wrote))
      /\ queue' = IF queue # <<>> /\ Head(queue) = r THEN NextInQueue(FALSE) ELSE queue
      /\ hand' = [hand EXCEPT ![r] = NoResult]
      /\ UNCHANGED <<sessionVars, call, records, found, heals, groupVars, alive, driving>>

-----------------------------------------------------------------------------
(* The client and the end of the process.                                   *)

\* notifications/cancelled: the server stops waiting, the work goes on.
Cancel(r) ==
  /\ alive \in {"serving", "signalled"} /\ stage[r] \notin {"unsent", "settled"} /\ r \notin dropped
  /\ dropped' = dropped \cup {r}
  /\ UNCHANGED <<sessionVars, call, stage, reply, scanVars, groupVars,
                 queue, tree, alive, driving>>

\* The developer, or the patch of another finding, changes a file.
Edit(f) ==
  /\ Running /\ (tree[f] # <<>> => tree[f][Len(tree[f])] # SomeEdit)
  /\ tree' = [tree EXCEPT ![f] = Append(@, SomeEdit)]
  /\ UNCHANGED <<sessionVars, callVars, scanVars, groupVars, queue, alive, driving>>

\* A scan on its way through an app, or stuck there.
Walking(r) == stage[r] = "walk" \/ (stage[r] = "hung" /\ call[r].tool \in Walks)

\* stdin ends, or a signal: closeAll takes what is open at this moment.
Stop ==
  /\ alive = "serving"
  /\ alive' \in {"signalled", "ended"}
  /\ closing' = open
  /\ open' = {}
  /\ group' = [r \in Requests |-> IF r \in open THEN Asked(group[r]) ELSE group[r]]
  /\ driving' = {r \in Requests : Walking(r) /\ group[r] = "up"}
  /\ UNCHANGED <<sessionVars, callVars, scanVars, queue, tree>>

\* A group that was asked to go does, by itself, or after the grace period by
\* SIGKILL of a process that waits for it.  One that ignores SIGTERM may stay.
GroupGoes(r) ==
  /\ group[r] = "asked"
  /\ group' = [group EXCEPT ![r] = "gone"]
  /\ UNCHANGED <<sessionVars, callVars, scanVars, open, closing, queue,
                 tree, alive, driving>>

\* Variant: the process does not wait for the servers it has asked.
ClosedAtOnce == TRUE

ClosedAll == \A r \in closing : group[r] = "gone"

Exit ==
  /\ alive \in {"signalled", "ended"} /\ ClosedAll
  /\ alive' = "exited"
  /\ UNCHANGED <<sessionVars, callVars, scanVars, groupVars, queue, tree, driving>>

Work(r) ==
  \/ Attach(r) \/ NothingToBoot(r) \/ Boot(r) \/ Booted(r) \/ BootTimesOut(r)
  \/ WalkFails(r) \/ Released(r)
  \/ \E fs \in SUBSET Findings : Scanned(r, fs) \/ Audited(r, fs)
  \/ Heal(r) \/ HealThrows(r) \/ FinishFix(r)
  \/ \E result \in Results : Healed(r, result)

Send(r, c) == SendScan(r, c) \/ SendAudit(r, c) \/ SendRepro(r, c) \/ SendFix(r, c)

McpNext ==
  \/ \E v \in Versions : Hello(v)
  \/ Retry
  \/ \E r \in Requests :
       \/ (\E c \in Calls : Send(r, c)) \/ Work(r) \/ Hangs(r)
       \/ HealServes(r) \/ Cancel(r) \/ GroupGoes(r)
  \/ \E f \in Findings : Edit(f)
  \/ Stop \/ Exit

\* Work that does not hang goes on: a boot and a close have limits of their own.
McpSpec == McpInit /\ [][McpNext]_mcpVars /\ WF_mcpVars(\E r \in Requests : Work(r))

-----------------------------------------------------------------------------

McpTypeOK ==
  /\ call \in [Requests -> Calls \cup {NoCall}]
  /\ stage \in [Requests -> Stages] /\ reply \in [Requests -> Replies]
  /\ dropped \subseteq Requests /\ queue \in Seq(Requests)
  /\ records \in Seq(Requests) /\ Len(records) <= MaxRecords
  /\ found \in [Requests -> SUBSET Findings]
  /\ hand \in [Requests -> Results \cup {NoResult}]
  /\ tree \in [Findings -> Seq(Changes \cup {SomeEdit})]
  /\ group \in [Requests -> {"none", "up", "asked", "gone"}]
  /\ alive \in {"serving", "signalled", "ended", "exited"}

\* The working tree and the answers tell the same story: "applied" is what the
\* calls say that wrote to the file, once each, and no other; they asked for it,
\* and the patch verified.  A patch that replaces what it looks for is not
\* written over itself, however many calls use the cached heal.  (One that puts
\* in what it looks for is, and each of those calls says that it was applied.)
TreeMatchesAnswers ==
  \A f \in Findings :
    LET file == tree[f]
        writers == {r \in Requests : /\ call[r].tool = "aztrx_fix" /\ call[r].finding = f
                                     /\ reply[r] = "applied"}
    IN  /\ \A r \in Requests : r \in writers <=> \E i \in DOMAIN file : file[i].call = r
        /\ \A i, j \in DOMAIN file : file[i].call = file[j].call => i = j \/ file[i] = SomeEdit
        /\ \A r \in writers : call[r].apply
        /\ \A i \in DOMAIN file : file[i] # SomeEdit => file[i].patch.healed
        /\ \A i \in 2 .. Len(file) : file[i].patch = file[i - 1].patch => file[i].patch.again

\* A scan that was walking a server of its own when the client went leaves no
\* server behind that it has not at least killed, a stubborn one included.
WalkedServersAreGone ==
  alive = "exited" => \A r \in driving : group[r] = "gone"

\* However a scan or a heal ends, the calls behind it get their turn: every
\* call is answered or cancelled, unless the process exits first or it, or one
\* sent before it, hangs for ever.  What does not have to queue is answered even
\* then.
CallsAreAnswered ==
  \A r \in Requests :
    stage[r] \in {"queued", "patch"} ~>
      \/ stage[r] = "settled" \/ alive = "exited"
      \/ stage[r] \in {"queued", "hung"} /\ \E q \in 1 .. r : stage[q] = "hung"

=============================================================================
