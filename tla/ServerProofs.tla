----------------------------- MODULE ServerProofs -----------------------------
(***************************************************************************)
(* Theorems about the two servers aztrx is.  Of the ingest server, for any *)
(* scans, scripts, registries and crashes: what the clients report, what   *)
(* the run records list and what the dashboard counts is one story.  Of    *)
(* the MCP server, for any number of requests, findings and kept scans:    *)
(* the working tree is what the answers say, and a server that was being   *)
(* walked when the session ended does not outlive it.                      *)
(***************************************************************************)
EXTENDS Ingest, Mcp, FiniteSetTheorems, TLAPS

-----------------------------------------------------------------------------
(* The MCP server.                                                          *)

Groups == {"none", "up", "asked", "gone"}
Entries == Changes \cup {SomeEdit}

Types ==
  /\ call \in [Requests -> Calls \cup {NoCall}]
  /\ stage \in [Requests -> Stages] /\ reply \in [Requests -> Replies]
  /\ group \in [Requests -> Groups]
  /\ tree \in [Findings -> Seq(Entries)]
  /\ alive \in {"serving", "signalled", "ended", "exited"}

IsFix(c) == c \in Calls /\ c.tool = "aztrx_fix"

\* A call boots nothing before its turn, and only fixes are healed.
Stations ==
  \A r \in Requests :
    /\ stage[r] \in {"unsent", "queued"} => group[r] = "none"
    /\ stage[r] \in {"heal", "patch"} => IsFix(call[r])

\* closeAll knows of every server that is walked, and waits for it.
Ending ==
  /\ alive = "serving" => \A r \in Requests : Walking(r) /\ group[r] = "up" => r \in open
  /\ alive # "serving" => driving \subseteq closing
  /\ alive = "exited" => ClosedAll

\* A change of a file by a call that says so, with a patch that verified.
Change(f, c) ==
  \/ c = SomeEdit
  \/ c.call \in Requests /\ c.patch.healed /\ reply[c.call] = "applied" /\ call[c.call].finding = f

\* The changes of a file are those, once each, and no patch over itself that
\* does not match there.
Signed(f) ==
  /\ \A i \in DOMAIN tree[f] : Change(f, tree[f][i])
  /\ \A i, j \in DOMAIN tree[f] : tree[f][i].call = tree[f][j].call => i = j \/ tree[f][i] = SomeEdit
  /\ \A i \in 2 .. Len(tree[f]) : tree[f][i].patch = tree[f][i - 1].patch => tree[f][i].patch.again

Writers ==
  /\ \A r \in Requests : reply[r] = "applied" =>
       /\ stage[r] = "settled" /\ IsFix(call[r]) /\ call[r].apply
       /\ \E i \in DOMAIN tree[call[r].finding] : tree[call[r].finding][i].call = r
  /\ \A f \in Findings : Signed(f)

\* What is cached, and what a handler works with, is a heal result.
Held ==
  /\ heals \in [Requests -> [Findings -> Results \cup {NoResult}]]
  /\ hand \in [Requests -> Results \cup {NoResult}]

McpInv == Types /\ Stations /\ Ending /\ Writers

LEMMA McpStarts == McpInit => McpInv
BY DEF McpInit, McpInv, Types, Entries, Groups, Stages, Replies, Stations, Ending, Walking, Walks, Writers,
       Signed, NoCall

\* A request that is not settled moves on by anything but an "applied".
LEMMA RequestMoves ==
  ASSUME McpInv, NEW r \in Requests, stage[r] # "settled", Running,
         NEW c \in Calls \cup {NoCall}, NEW s \in Stages, NEW g \in Groups, NEW res \in Replies,
         res # "applied",
         call' = [call EXCEPT ![r] = c], stage' = [stage EXCEPT ![r] = s],
         group' = [group EXCEPT ![r] = g], reply' = [reply EXCEPT ![r] = res],
         UNCHANGED <<tree, alive, closing, driving>>,
         \A q \in open : q # r => q \in open',
         s \in {"unsent", "queued"} => g = "none",
         s \in {"heal", "patch"} => IsFix(c),
         alive = "serving" /\ (s = "walk" \/ (s = "hung" /\ c.tool \in Walks)) /\ g = "up" => r \in open'
  PROVE  McpInv'
<1> USE DEF McpInv
<1>1. Types'
  BY DEF Types
<1>2. /\ call'[r] = c /\ stage'[r] = s /\ group'[r] = g /\ reply'[r] = res
      /\ \A q \in Requests : q # r => /\ call'[q] = call[q] /\ stage'[q] = stage[q]
                                      /\ group'[q] = group[q] /\ reply'[q] = reply[q]
  BY DEF Types
<1>3. Stations'
  BY <1>2 DEF Stations, IsFix
<1>4. Ending'
  BY <1>2 DEF Ending, Running, Walking
<1>5. reply[r] # "applied"
  BY DEF Writers
<1>6. \A f \in Findings : Signed(f)'
  <2> SUFFICES ASSUME NEW f \in Findings PROVE Signed(f)'
    OBVIOUS
  <2>1. \A e : Change(f, e) => Change(f, e)'
    BY <1>2, <1>5 DEF Change
  <2> QED
    BY <2>1 DEF Writers, Signed
<1>7. Writers'
  BY <1>2, <1>5, <1>6 DEF Writers, IsFix
<1> QED
  BY <1>1, <1>3, <1>4, <1>7

\* Writing back what is there changes nothing.
LEMMA SameBack ==
  ASSUME Types, NEW r \in Requests
  PROVE  /\ [call EXCEPT ![r] = call[r]] = call /\ [stage EXCEPT ![r] = stage[r]] = stage
         /\ [group EXCEPT ![r] = group[r]] = group /\ [reply EXCEPT ![r] = reply[r]] = reply
         /\ call[r] \in Calls \cup {NoCall} /\ stage[r] \in Stages
         /\ group[r] \in Groups /\ reply[r] \in Replies
BY DEF Types

\* The same, for a request whose arguments stay.
LEMMA HandlerMoves ==
  ASSUME McpInv, NEW r \in Requests, stage[r] # "settled", Running, UNCHANGED call,
         NEW s \in Stages, NEW g \in Groups, NEW res \in Replies, res # "applied",
         stage' = [stage EXCEPT ![r] = s],
         group' = [group EXCEPT ![r] = g], reply' = [reply EXCEPT ![r] = res],
         UNCHANGED <<tree, alive, closing, driving>>,
         \A q \in open : q # r => q \in open',
         s \in {"unsent", "queued"} => g = "none",
         s \in {"heal", "patch"} => IsFix(call[r]),
         alive = "serving" /\ (s = "walk" \/ (s = "hung" /\ call[r].tool \in Walks)) /\ g = "up" => r \in open'
  PROVE  McpInv'
<1>1. call' = [call EXCEPT ![r] = call[r]] /\ call[r] \in Calls \cup {NoCall}
  BY SameBack DEF McpInv
<1> QED
  BY <1>1, RequestMoves

LEMMA SendKeeps ==
  ASSUME McpInv, NEW r \in Requests, NEW c \in Calls, Send(r, c)
  PROVE  McpInv'
<1>1. /\ stage[r] = "unsent" /\ call' = [call EXCEPT ![r] = c] /\ Running
      /\ UNCHANGED <<group, open, closing, tree, alive, driving>>
  BY DEF Send, SendScan, SendAudit, SendRepro, SendFix, Sent, groupVars, Running
<1>2. /\ group[r] = "none" /\ group' = [group EXCEPT ![r] = "none"] /\ "none" \in Groups
      /\ reply[r] # "applied" /\ reply[r] \in Replies /\ reply = [reply EXCEPT ![r] = reply[r]]
  BY <1>1, SameBack DEF McpInv, Stations, Writers, Groups
<1>3. CASE \E res \in {"error", "steps"} :
             stage' = [stage EXCEPT ![r] = "settled"] /\ reply' = [reply EXCEPT ![r] = res]
  <2>1. PICK res \in {"error", "steps"} :
          stage' = [stage EXCEPT ![r] = "settled"] /\ reply' = [reply EXCEPT ![r] = res]
    BY <1>3
  <2>2. res \in Replies /\ res # "applied" /\ "settled" \in Stages
    BY DEF Replies, Stages
  <2> QED
    BY <1>1, <1>2, <2>1, <2>2, RequestMoves
<1>4. CASE stage' = [stage EXCEPT ![r] = "queued"] /\ UNCHANGED reply
  <2>1. "queued" \in Stages
    BY DEF Stages
  <2> QED
    BY <1>1, <1>2, <1>4, <2>1, RequestMoves
<1>5. CASE stage' = [stage EXCEPT ![r] = "patch"] /\ UNCHANGED reply /\ c.tool = "aztrx_fix"
  <2>1. "patch" \in Stages /\ IsFix(c)
    BY <1>5 DEF Stages, IsFix
  <2> QED
    BY <1>1, <1>2, <1>5, <2>1, RequestMoves
<1> QED
  BY <1>3, <1>4, <1>5 DEF Send, SendScan, SendAudit, SendRepro, SendFix, Refuse, SettleCall, Enqueue

\* A handler that lets its server go.
LEMMA ReleaseKeeps ==
  ASSUME McpInv, NEW r \in Requests, NEW res \in {"error", "scan"}, Running,
         stage[r] \in {"boot", "walk"}, Release(r, res),
         UNCHANGED <<call, tree, alive, driving>>
  PROVE  McpInv'
<1>1. /\ open' = open \ {r} /\ group' = [group EXCEPT ![r] = Asked(group[r])]
      /\ reply' = [reply EXCEPT ![r] = res] /\ UNCHANGED closing
      /\ stage' = [stage EXCEPT ![r] = IF group[r] = "up" THEN "release" ELSE "settled"]
  BY DEF Release, SettleCall
<1>2. Asked(group[r]) \in Groups /\ res \in Replies /\ res # "applied"
  BY SameBack DEF McpInv, Asked, Groups, Replies
<1>3. (IF group[r] = "up" THEN "release" ELSE "settled") \in Stages \ {"unsent", "queued", "heal", "patch", "walk"}
  BY DEF Stages
<1> QED
  BY <1>1, <1>2, <1>3, HandlerMoves

LEMMA WalkKeeps ==
  ASSUME McpInv, NEW r \in Requests,
         \/ Attach(r) \/ NothingToBoot(r) \/ Boot(r) \/ Booted(r) \/ BootTimesOut(r)
         \/ WalkFails(r) \/ Released(r)
         \/ \E fs \in SUBSET Findings : Scanned(r, fs) \/ Audited(r, fs)
  PROVE  McpInv'
<1> USE DEF Stages, Groups, Replies
<1>0. /\ reply[r] \in Replies /\ group[r] \in Groups
      /\ reply = [reply EXCEPT ![r] = reply[r]] /\ group = [group EXCEPT ![r] = group[r]]
      /\ stage[r] # "settled" => reply[r] # "applied"
      /\ stage[r] = "queued" => group[r] = "none"
  BY SameBack DEF McpInv, Stations, Writers
<1>1. CASE Attach(r)
  <2>1. /\ stage[r] = "queued" /\ Running /\ stage' = [stage EXCEPT ![r] = "walk"]
        /\ UNCHANGED <<call, reply, group, open, closing, tree, alive, driving>>
    BY <1>1 DEF Attach, Turn, groupVars
  <2> QED
    BY <1>0, <2>1, HandlerMoves
<1>2. CASE NothingToBoot(r)
  <2>1. /\ stage[r] = "queued" /\ Running /\ stage' = [stage EXCEPT ![r] = "settled"]
        /\ reply' = [reply EXCEPT ![r] = "error"]
        /\ UNCHANGED <<call, group, open, closing, tree, alive, driving>>
    BY <1>2 DEF NothingToBoot, Turn, SettleCall, groupVars
  <2> QED
    BY <1>0, <2>1, HandlerMoves
<1>3. CASE Boot(r)
  <2>1. /\ stage[r] = "queued" /\ Running /\ stage' = [stage EXCEPT ![r] = "boot"]
        /\ group' = [group EXCEPT ![r] = "up"]
        /\ UNCHANGED <<call, reply, open, closing, tree, alive, driving>>
    BY <1>3 DEF Boot, Turn
  <2> QED
    BY <1>0, <2>1, HandlerMoves
<1>4. CASE Booted(r)
  <2>1. /\ stage[r] = "boot" /\ Running /\ stage' = [stage EXCEPT ![r] = "walk"]
        /\ open' = open \cup {r}
        /\ UNCHANGED <<call, reply, group, closing, tree, alive, driving>>
    BY <1>4 DEF Booted
  <2> QED
    BY <1>0, <2>1, HandlerMoves
<1>5. CASE BootTimesOut(r) \/ WalkFails(r)
  <2>1. /\ stage[r] \in {"boot", "walk"} /\ Running /\ Release(r, "error")
        /\ UNCHANGED <<call, tree, alive, driving>>
    BY <1>5 DEF BootTimesOut, WalkFails
  <2> QED
    BY <2>1, ReleaseKeeps
<1>6. CASE \E fs \in SUBSET Findings : Scanned(r, fs) \/ Audited(r, fs)
  <2>1. /\ stage[r] = "walk" /\ Running /\ Release(r, "scan")
        /\ UNCHANGED <<call, tree, alive, driving>>
    BY <1>6 DEF Scanned, Audited
  <2> QED
    BY <2>1, ReleaseKeeps
<1>7. CASE Released(r)
  <2>1. /\ stage[r] = "release" /\ Running /\ stage' = [stage EXCEPT ![r] = "settled"]
        /\ reply' = [reply EXCEPT ![r] = reply[r]] /\ group' = [group EXCEPT ![r] = "gone"]
        /\ UNCHANGED <<call, open, closing, tree, alive, driving>>
    BY <1>7 DEF Released, SettleCall
  <2> QED
    BY <1>0, <2>1, HandlerMoves
<1> QED
  BY <1>1, <1>2, <1>3, <1>4, <1>5, <1>6, <1>7

LEMMA HealKeeps ==
  ASSUME McpInv, NEW r \in Requests,
         \/ Heal(r) \/ HealServes(r) \/ HealThrows(r) \/ Hangs(r)
         \/ \E result \in Results : Healed(r, result)
  PROVE  McpInv'
<1> USE DEF Stages, Groups, Replies
<1>0. /\ reply[r] \in Replies /\ group[r] \in Groups
      /\ reply = [reply EXCEPT ![r] = reply[r]] /\ group = [group EXCEPT ![r] = group[r]]
      /\ stage = [stage EXCEPT ![r] = stage[r]]
      /\ stage[r] # "settled" => reply[r] # "applied"
      /\ stage[r] = "heal" => IsFix(call[r])
  BY SameBack DEF McpInv, Stations, Writers
<1>1. CASE Heal(r)
  <2>1. /\ stage[r] = "queued" /\ Running /\ stage' = [stage EXCEPT ![r] = "heal"]
        /\ call[r].tool = "aztrx_fix"
        /\ UNCHANGED <<call, reply, group, open, closing, tree, alive, driving>>
    BY <1>1 DEF Heal, Turn, groupVars
  <2>2. IsFix(call[r])
    BY <2>1, SameBack DEF McpInv, IsFix, NoCall
  <2> QED
    BY <1>0, <2>1, <2>2, HandlerMoves
<1>2. CASE HealServes(r)
  <2>1. /\ stage[r] = "heal" /\ Running /\ group' = [group EXCEPT ![r] = "up"]
        /\ UNCHANGED <<call, stage, reply, open, closing, tree, alive, driving>>
    BY <1>2 DEF HealServes, callVars
  <2> QED
    BY <1>0, <2>1, HandlerMoves
<1>3. CASE HealThrows(r)
  <2>1. /\ stage[r] = "heal" /\ Running /\ stage' = [stage EXCEPT ![r] = "settled"]
        /\ reply' = [reply EXCEPT ![r] = "error"]
        /\ group' = [group EXCEPT ![r] = IF group[r] = "up" THEN "gone" ELSE group[r]]
        /\ UNCHANGED <<call, open, closing, tree, alive, driving>>
    BY <1>3 DEF HealThrows, SettleCall
  <2> QED
    BY <1>0, <2>1, HandlerMoves
<1>5. CASE Hangs(r)
  <2>1. /\ stage[r] \in {"walk", "heal"} /\ Running /\ stage' = [stage EXCEPT ![r] = "hung"]
        /\ UNCHANGED <<call, reply, group, open, closing, tree, alive, driving>>
    BY <1>5 DEF Hangs, groupVars
  <2>2. alive = "serving" /\ call[r].tool \in Walks /\ group[r] = "up" => r \in open'
    BY <1>0, <2>1 DEF McpInv, Ending, Walking, IsFix, Walks
  <2> QED
    BY <1>0, <2>1, <2>2, HandlerMoves
<1>4. CASE \E result \in Results : Healed(r, result)
  <2>1. /\ stage[r] = "heal" /\ Running /\ stage' = [stage EXCEPT ![r] = "patch"]
        /\ group' = [group EXCEPT ![r] = IF group[r] = "up" THEN "gone" ELSE group[r]]
        /\ UNCHANGED <<call, reply, open, closing, tree, alive, driving>>
    BY <1>4 DEF Healed
  <2> QED
    BY <1>0, <2>1, HandlerMoves
<1> QED
  BY <1>1, <1>2, <1>3, <1>4, <1>5

\* The answer of a fix and the file it is about change together.
LEMMA FinishKeeps ==
  ASSUME McpInv, Held, NEW r \in Requests, FinishFix(r)
  PROVE  McpInv'
<1> USE DEF McpInv
<1>0. stage[r] = "patch" /\ IsFix(call[r]) /\ call[r].finding \in Findings
  BY DEF FinishFix, Stations, IsFix, Calls, Walks
<1> PICK f \in Findings : f = call[r].finding
  BY <1>0
<1> DEFINE change == [call |-> r, patch |-> hand[r]]
<1>1. /\ stage[r] = "patch" /\ Running
      /\ stage' = [stage EXCEPT ![r] = "settled"]
      /\ UNCHANGED <<call, group, open, closing, alive, driving>>
  BY DEF FinishFix, SettleCall, groupVars
<1>2. PICK matches \in Matches(hand[r], tree[f]) :
        LET wrote == Writes(r, hand[r]) /\ matches IN
        /\ tree' = [tree EXCEPT ![f] = IF wrote THEN Append(@, change) ELSE @]
        /\ reply' = [reply EXCEPT ![r] = FixReply(r, hand[r], wrote)]
  BY DEF FinishFix, SettleCall
<1> DEFINE wrote == Writes(r, hand[r]) /\ matches
<1>3. IsFix(call[r]) /\ f = call[r].finding /\ reply[r] # "applied"
  BY <1>0, <1>1 DEF Writers
<1>4. /\ tree' = [tree EXCEPT ![f] = IF wrote THEN Append(tree[f], change) ELSE tree[f]]
      /\ reply' = [reply EXCEPT ![r] = FixReply(r, hand[r], wrote)]
      /\ wrote => FixReply(r, hand[r], wrote) = "applied" /\ call[r].apply /\ hand[r].healed
      /\ ~wrote => FixReply(r, hand[r], wrote) # "applied"
      /\ FixReply(r, hand[r], wrote) \in Replies
  BY <1>2 DEF FixReply, Writes, Replies
<1>5. wrote /\ tree[f] # <<>> /\ tree[f][Len(tree[f])].patch = hand[r] => hand[r].again
  BY <1>2 DEF Matches
<1> HIDE DEF wrote
<1>6. tree[f] \in Seq(Entries) /\ (wrote => change \in Entries)
  BY <1>3, <1>4 DEF Types, Held, Entries, Changes, NoResult
<1>7. Types'
  BY <1>1, <1>3, <1>4, <1>6 DEF Types, Stages
<1>8. /\ tree'[f] = IF wrote THEN Append(tree[f], change) ELSE tree[f]
      /\ \A e \in Findings : e # f => tree'[e] = tree[e]
      /\ stage'[r] = "settled" /\ reply'[r] = FixReply(r, hand[r], wrote)
      /\ \A q \in Requests : q # r => stage'[q] = stage[q] /\ reply'[q] = reply[q]
  BY <1>1, <1>3, <1>4 DEF Types
<1>9. Stations' /\ Ending'
  BY <1>1, <1>8 DEF Stations, Ending, Running, Walking
<1>10. CASE ~wrote
  <2>1. /\ \A q \in Requests : reply'[q] = "applied" <=> reply[q] = "applied"
        /\ \A e \in Findings : tree'[e] = tree[e]
        /\ \A q \in Requests : stage'[q] = stage[q] \/ stage'[q] = "settled"
    BY <1>10, <1>3, <1>4, <1>8
  <2>2. \A q \in Requests : reply[q] = "applied" => call[q].finding \in Findings
    BY DEF Writers, IsFix, Calls, Walks
  <2>3. Writers'
    BY <1>1, <2>1, <2>2 DEF Writers, IsFix, Signed, Change
  <2> QED
    BY <1>7, <1>9, <2>3
<1>11. CASE wrote
  <2> DEFINE old == tree[f]
             n == Len(old) + 1
  <2>1. /\ reply'[r] = "applied" /\ call[r].apply /\ hand[r].healed
        /\ \A q \in Requests : reply[q] = "applied" => reply'[q] = "applied" /\ q # r
    BY <1>11, <1>3, <1>4, <1>8
  <2>2. /\ Len(old) \in Nat /\ DOMAIN tree'[f] = 1 .. n /\ DOMAIN old = 1 .. Len(old)
        /\ tree'[f][n] = change /\ \A i \in 1 .. Len(old) : tree'[f][i] = old[i]
        /\ Len(tree'[f]) = n
    BY <1>6, <1>8, <1>11
  <2>3. change.call = r /\ change.patch = hand[r] /\ change # SomeEdit
    BY <2>1 DEF SomeEdit, NoResult
  <2> HIDE DEF change, n
  <2>4. ASSUME NEW q \in Requests, reply'[q] = "applied"
        PROVE  /\ stage'[q] = "settled" /\ IsFix(call[q]) /\ call[q].apply
               /\ \E i \in DOMAIN tree'[call[q].finding] : tree'[call[q].finding][i].call = q
    <3>1. CASE q = r
      <4>1. n \in DOMAIN tree'[f] /\ tree'[f][n].call = q
        BY <2>2, <2>3, <3>1 DEF n
      <4> QED
        BY <1>3, <1>8, <2>1, <3>1, <4>1
    <3>2. CASE q # r
      <4>1. /\ reply[q] = "applied" /\ IsFix(call[q]) /\ call[q].apply /\ stage[q] = "settled"
            /\ call[q].finding \in Findings
        BY <1>8, <2>4, <3>2 DEF Writers, IsFix, Calls, Walks
      <4>2. PICK i \in DOMAIN tree[call[q].finding] : tree[call[q].finding][i].call = q
        BY <4>1 DEF Writers
      <4>3. i \in DOMAIN tree'[call[q].finding] /\ tree'[call[q].finding][i] = tree[call[q].finding][i]
        <5>1. CASE call[q].finding = f
          BY <2>2, <4>2, <5>1 DEF n
        <5>2. CASE call[q].finding # f
          BY <1>8, <4>1, <4>2, <5>2
        <5> QED
          BY <5>1, <5>2
      <4>4. stage'[q] = "settled"
        BY <1>8, <3>2, <4>1
      <4> QED
        BY <4>1, <4>2, <4>3, <4>4
    <3> QED
      BY <3>1, <3>2
  <2>5. ASSUME NEW e \in Findings
        PROVE  Signed(e)'
    <3>1. CASE e # f
      <4>1. tree'[e] = tree[e] /\ Signed(e)
        BY <1>8, <3>1 DEF Writers
      <4> QED
        BY <1>1, <2>1, <4>1 DEF Signed, Change
    <3>2. CASE e = f
      <4>1. Signed(f)
        BY <1>3 DEF Writers
      <4>2. ASSUME NEW i \in DOMAIN tree'[f]
            PROVE  Change(f, tree[f][i])'
        <5>1. CASE i = n
          BY <1>1, <1>3, <2>1, <2>2, <2>3, <5>1 DEF Change
        <5>2. CASE i # n
          <6>1. i \in 1 .. Len(old) /\ tree'[f][i] = old[i]
            BY <2>2, <5>2 DEF n
          <6>2. Change(f, old[i])
            BY <2>2, <4>1, <6>1 DEF Signed
          <6> QED
            BY <1>1, <2>1, <6>1, <6>2 DEF Change
        <5> QED
          BY <5>1, <5>2
      <4>3. \A i, j \in 1 .. n : tree'[f][i].call = tree'[f][j].call => i = j \/ tree'[f][i] = SomeEdit
        <5>1. \A i \in 1 .. Len(old) : old[i].call # r
          BY <1>3, <2>2, <4>1 DEF Signed, Change, SomeEdit, Requests
        <5>2. \A i, j \in 1 .. Len(old) : old[i].call = old[j].call => i = j \/ old[i] = SomeEdit
          BY <2>2, <4>1 DEF Signed
        <5>3. \A i \in 1 .. n : i = n \/ i \in 1 .. Len(old)
          BY <2>2 DEF n
        <5> QED
          BY <2>2, <2>3, <5>1, <5>2, <5>3
      <4>4. \A i \in 2 .. n : tree'[f][i].patch = tree'[f][i - 1].patch => tree'[f][i].patch.again
        <5>1. \A i \in 2 .. Len(old) : old[i].patch = old[i - 1].patch => old[i].patch.again
          BY <4>1 DEF Signed
        <5>2. n > 1 => old # <<>>
          BY <2>2 DEF n
        <5>3. n > 1 /\ tree'[f][n].patch = tree'[f][n - 1].patch => tree'[f][n].patch.again
          BY <1>5, <1>11, <2>2, <2>3, <5>2 DEF n
        <5>4. \A i \in 2 .. n : i = n \/ (i \in 2 .. Len(old) /\ i - 1 \in 1 .. Len(old) /\ i \in 1 .. Len(old))
          BY <2>2 DEF n
        <5>5. n > 1 \/ \A i \in 2 .. n : FALSE
          BY <2>2 DEF n
        <5> QED
          BY <2>2, <5>1, <5>3, <5>4, <5>5
      <4>5. DOMAIN tree'[f] = 1 .. n /\ Len(tree'[f]) = n
        BY <2>2
      <4>6. Signed(f)'
        BY <4>2, <4>3, <4>4, <4>5 DEF Signed
      <4> QED
        BY <3>2, <4>6
    <3> QED
      BY <3>1, <3>2
  <2>6. Writers'
    BY <1>1, <2>4, <2>5 DEF Writers, IsFix
  <2> QED
    BY <1>7, <1>9, <2>6
<1> QED
  BY <1>10, <1>11

\* The developer, the client and the end of the process.
LEMMA OthersKeep ==
  ASSUME McpInv,
         \/ \E v \in Versions : Hello(v)
         \/ Retry \/ Stop \/ Exit
         \/ \E f \in Findings : Edit(f)
         \/ \E r \in Requests : Cancel(r) \/ GroupGoes(r)
  PROVE  McpInv'
<1> USE DEF McpInv
<1>1. CASE (\E v \in Versions : Hello(v)) \/ Retry \/ \E r \in Requests : Cancel(r)
  <2>1. UNCHANGED <<call, stage, reply, group, open, closing, tree, alive, driving>>
    BY <1>1 DEF Hello, Retry, Cancel, callVars, groupVars
  <2> QED
    BY <2>1 DEF Types, Stations, Ending, Walking, ClosedAll, Writers, Signed, Change, IsFix
<1>2. CASE \E f \in Findings : Edit(f)
  <2>1. PICK f \in Findings : Edit(f)
    BY <1>2
  <2> DEFINE old == tree[f]
  <2>2. /\ tree' = [tree EXCEPT ![f] = Append(old, SomeEdit)] /\ (old # <<>> => old[Len(old)] # SomeEdit)
        /\ UNCHANGED <<call, stage, reply, group, open, closing, alive, driving>>
    BY <2>1 DEF Edit, callVars, groupVars
  <2>3. old \in Seq(Entries) /\ SomeEdit \in Entries
    BY DEF Types, Entries
  <2>4. tree'[f] = Append(old, SomeEdit) /\ \A e \in Findings : e # f => tree'[e] = tree[e]
    BY <2>2 DEF Types
  <2>5. Types' /\ Stations' /\ Ending'
    BY <2>2, <2>3 DEF Types, Stations, Ending, Walking, ClosedAll, IsFix
  <2>6. /\ DOMAIN old = 1 .. Len(old) /\ DOMAIN tree'[f] = 1 .. Len(old) + 1
        /\ Len(old) \in Nat /\ Len(tree'[f]) = Len(old) + 1
        /\ tree'[f][Len(old) + 1] = SomeEdit /\ \A i \in 1 .. Len(old) : tree'[f][i] = old[i]
    BY <2>3, <2>4
  <2>7. \A e \in Findings : \A i \in DOMAIN tree[e] : i \in DOMAIN tree'[e] /\ tree'[e][i] = tree[e][i]
    BY <2>4, <2>6
  <2>8. ASSUME NEW e \in Findings
        PROVE  Signed(e)'
    <3>1. Signed(e)
      BY DEF Writers
    <3>2. CASE e # f
      BY <2>2, <2>4, <3>1, <3>2 DEF Signed, Change
    <3>3. CASE e = f
      <4>1. ASSUME NEW i \in DOMAIN tree'[f]
            PROVE  Change(f, tree[f][i])'
        <5>1. CASE i = Len(old) + 1
          BY <2>6, <5>1 DEF Change
        <5>2. CASE i # Len(old) + 1
          <6>1. i \in 1 .. Len(old) /\ tree'[f][i] = old[i]
            BY <2>6, <5>2
          <6>2. Change(f, old[i])
            BY <2>6, <3>1, <3>3, <6>1 DEF Signed
          <6> QED
            BY <2>2, <6>1, <6>2 DEF Change
        <5> QED
          BY <5>1, <5>2
      <4>2. \A i \in 1 .. Len(old) : old[i].call = 0 => old[i] = SomeEdit
        BY <2>6, <3>1, <3>3 DEF Signed, Change, Requests
      <4>3. \A i, j \in DOMAIN tree'[f] :
              tree'[f][i].call = tree'[f][j].call => i = j \/ tree'[f][i] = SomeEdit
        BY <2>6, <3>1, <3>3, <4>2 DEF Signed, SomeEdit
      <4>4. \A i \in 2 .. Len(tree'[f]) :
              tree'[f][i].patch = tree'[f][i - 1].patch => tree'[f][i].patch.again
        <5>1. \A i \in 2 .. Len(old) : old[i].patch = old[i - 1].patch => old[i].patch.again
          BY <3>1, <3>3 DEF Signed
        <5>2. old # <<>> => old[Len(old)].patch # SomeEdit.patch
          <6>1. old # <<>> => Len(old) \in DOMAIN old
            BY <2>6
          <6>2. old # <<>> => old[Len(old)].patch.healed
            BY <2>2, <3>1, <3>3, <6>1 DEF Signed, Change
          <6> QED
            BY <6>2 DEF SomeEdit, NoResult
        <5>3. Len(old) + 1 >= 2 => old # <<>>
          BY <2>6
        <5>4. \A i \in 2 .. Len(old) + 1 :
                i = Len(old) + 1 \/ (i \in 2 .. Len(old) /\ i - 1 \in 1 .. Len(old) /\ i \in 1 .. Len(old))
          BY <2>6
        <5>5. ASSUME NEW i \in 2 .. Len(old) + 1, tree'[f][i].patch = tree'[f][i - 1].patch, i = Len(old) + 1
              PROVE  FALSE
          BY <2>6, <5>2, <5>3, <5>5
        <5> QED
          BY <2>6, <5>1, <5>4, <5>5
      <4>5. Signed(f)'
        BY <4>1, <4>3, <4>4 DEF Signed
      <4> QED
        BY <3>3, <4>5
    <3> QED
      BY <3>2, <3>3
  <2>9. \A r \in Requests : reply[r] = "applied" => call[r].finding \in Findings
    BY DEF Writers, IsFix, Calls, Walks
  <2>10. Writers'
    BY <2>2, <2>7, <2>8, <2>9 DEF Writers, IsFix
  <2> QED
    BY <2>5, <2>10
<1>3. CASE Stop
  <2>1. /\ alive = "serving" /\ alive' \in {"signalled", "ended"} /\ closing' = open
        /\ group' = [r \in Requests |-> IF r \in open THEN Asked(group[r]) ELSE group[r]]
        /\ driving' = {r \in Requests : Walking(r) /\ group[r] = "up"}
        /\ UNCHANGED <<call, stage, reply, tree>>
    BY <1>3 DEF Stop, callVars
  <2>2. Types'
    BY <2>1 DEF Types, Asked, Groups
  <2>3. Stations'
    BY <2>1 DEF Stations, Asked, IsFix
  <2>4. Ending'
    BY <2>1 DEF Ending
  <2>5. Writers'
    BY <2>1 DEF Writers, Signed, Change, IsFix
  <2> QED
    BY <2>2, <2>3, <2>4, <2>5
<1>4. CASE Exit
  <2>1. /\ alive # "serving" /\ alive' = "exited" /\ ClosedAll
        /\ UNCHANGED <<call, stage, reply, group, open, closing, tree, driving>>
    BY <1>4 DEF Exit, callVars, groupVars
  <2> QED
    BY <2>1 DEF Types, Stations, Ending, Walking, ClosedAll, Writers, Signed, Change, IsFix
<1>5. CASE \E r \in Requests : GroupGoes(r)
  <2>1. PICK r \in Requests : GroupGoes(r)
    BY <1>5
  <2>2. /\ group[r] = "asked" /\ group' = [group EXCEPT ![r] = "gone"]
        /\ UNCHANGED <<call, stage, reply, open, closing, tree, alive, driving>>
    BY <2>1 DEF GroupGoes, callVars
  <2>3. group'[r] = "gone" /\ \A q \in Requests : q # r => group'[q] = group[q]
    BY <2>2 DEF Types
  <2>4. Types' /\ Stations' /\ Writers'
    BY <2>2, <2>3 DEF Types, Groups, Stations, Writers, Signed, Change, IsFix
  <2>5. Ending'
    <3>1. \A q : group[q] = "gone" => group'[q] = "gone"
      BY <2>2 DEF Types
    <3> QED
      BY <2>2, <2>3, <3>1 DEF Ending, Walking, ClosedAll
  <2> QED
    BY <2>4, <2>5
<1> QED
  BY <1>1, <1>2, <1>3, <1>4, <1>5

\* Only a heal makes a result, and it is passed on as it is.
LEMMA HeldKept == Types /\ Held /\ [McpNext]_mcpVars => Held'
<1> SUFFICES ASSUME Types, Held, [McpNext]_mcpVars PROVE Held'
  OBVIOUS
<1>1. CASE UNCHANGED <<heals, hand>>
  BY <1>1 DEF Held
<1>2. ASSUME NEW r \in Requests, NEW result \in Results, Healed(r, result) PROVE Held'
  <2>1. heals' = [heals EXCEPT ![call[r].scan][call[r].finding] = result]
        /\ hand' = [hand EXCEPT ![r] = result]
    BY <1>2 DEF Healed
  <2> QED
    BY <2>1 DEF Held
<1>3. ASSUME NEW r \in Requests, FinishFix(r) PROVE Held'
  BY <1>3 DEF FinishFix, Held
<1>4. ASSUME NEW r \in Requests, NEW c \in Calls, SendFix(r, c) PROVE Held'
  <2>1. heals' = heals /\ (hand' = hand \/ hand' = [hand EXCEPT ![r] = heals[c.scan][c.finding]])
    BY <1>4 DEF SendFix
  <2>2. c.scan \in Requests /\ c.finding \in Findings
    BY <1>4 DEF SendFix, Calls, Walks
  <2> QED
    BY <2>1, <2>2 DEF Held
<1>5. CASE McpNext
  <2>1. ASSUME NEW r \in Requests,
               \/ Attach(r) \/ NothingToBoot(r) \/ Boot(r) \/ Booted(r) \/ BootTimesOut(r)
               \/ WalkFails(r) \/ Released(r) \/ Heal(r) \/ HealThrows(r) \/ Hangs(r)
               \/ HealServes(r) \/ Cancel(r) \/ GroupGoes(r)
        PROVE  UNCHANGED <<heals, hand>>
    BY <2>1 DEF Attach, NothingToBoot, Boot, Booted, BootTimesOut, WalkFails, Released, Heal, HealThrows,
                Hangs, HealServes, Cancel, GroupGoes, scanVars
  <2>2. ASSUME NEW r \in Requests, NEW fs \in SUBSET Findings, Scanned(r, fs) \/ Audited(r, fs)
        PROVE  UNCHANGED <<heals, hand>>
    BY <2>2 DEF Scanned, Audited, Remember
  <2>3. ASSUME NEW r \in Requests, NEW c \in Calls, SendScan(r, c) \/ SendAudit(r, c) \/ SendRepro(r, c)
        PROVE  UNCHANGED <<heals, hand>>
    BY <2>3 DEF SendScan, SendAudit, SendRepro, scanVars
  <2>4. CASE \/ \E v \in Versions : Hello(v)
             \/ Retry \/ Stop \/ Exit
             \/ \E f \in Findings : Edit(f)
    BY <2>4, <1>1 DEF Hello, Retry, Stop, Exit, Edit, scanVars
  <2>5. ASSUME NEW r \in Requests, Work(r) \/ Hangs(r) \/ HealServes(r) \/ Cancel(r) \/ GroupGoes(r)
        PROVE  Held'
    BY <2>5, <2>1, <2>2, <1>1, <1>2, <1>3 DEF Work
  <2>6. ASSUME NEW r \in Requests, NEW c \in Calls, Send(r, c)
        PROVE  Held'
    BY <2>6, <2>3, <1>1, <1>4 DEF Send
  <2> QED
    BY <1>5, <2>4, <2>5, <2>6 DEF McpNext
<1> QED
  BY <1>1, <1>5 DEF mcpVars, scanVars

LEMMA McpStep == McpInv /\ Held /\ [McpNext]_mcpVars => McpInv'
<1> SUFFICES ASSUME McpInv, Held, [McpNext]_mcpVars PROVE McpInv'
  OBVIOUS
<1>1. CASE UNCHANGED mcpVars
  BY <1>1 DEF mcpVars, callVars, groupVars, McpInv, Types, Stations, Ending, Walking, ClosedAll, Writers,
              Signed, Change, IsFix
<1>2. CASE McpNext
  <2>1. ASSUME NEW r \in Requests, Work(r) \/ HealServes(r) \/ Hangs(r) PROVE McpInv'
    BY <2>1, WalkKeeps, HealKeeps, FinishKeeps DEF Work
  <2> QED
    BY <1>2, <2>1, SendKeeps, OthersKeep DEF McpNext
<1> QED
  BY <1>1, <1>2

LEMMA McpAlways == McpSpec => []McpInv
<1>1. McpInit => Held
  BY DEF McpInit, Held
<1>2. McpInv => Types
  BY DEF McpInv
<1> QED
  BY <1>1, <1>2, McpStarts, McpStep, HeldKept, PTL DEF McpSpec

-----------------------------------------------------------------------------

\* Whatever is sent, cancelled, evicted, hung or edited meanwhile: the calls that
\* say "applied" are those that wrote to the file, once each, because they asked
\* for it and with a patch that verified, and no patch was written over itself
\* that does not match there (mcp/tools.ts, aztrx_fix; applyVerifiedPatches).
THEOREM TreeMatchesAnswersHolds == McpSpec => []TreeMatchesAnswers
<1>1. McpInv => TreeMatchesAnswers
  <2> SUFFICES ASSUME McpInv, NEW f \in Findings
               PROVE  LET file == tree[f]
                          writers == {r \in Requests : /\ call[r].tool = "aztrx_fix"
                                                       /\ call[r].finding = f
                                                       /\ reply[r] = "applied"}
                      IN  /\ \A r \in Requests : r \in writers <=> \E i \in DOMAIN file : file[i].call = r
                          /\ \A i, j \in DOMAIN file :
                               file[i].call = file[j].call => i = j \/ file[i] = SomeEdit
                          /\ \A r \in writers : call[r].apply
                          /\ \A i \in DOMAIN file : file[i] # SomeEdit => file[i].patch.healed
                          /\ \A i \in 2 .. Len(file) :
                               file[i].patch = file[i - 1].patch => file[i].patch.again
    BY DEF TreeMatchesAnswers
  <2>1. Signed(f)
    BY DEF McpInv, Writers
  <2>2. \A r \in Requests : reply[r] = "applied" =>
          /\ IsFix(call[r]) /\ call[r].apply
          /\ \E i \in DOMAIN tree[call[r].finding] : tree[call[r].finding][i].call = r
    BY DEF McpInv, Writers
  <2>3. \A i \in DOMAIN tree[f] : tree[f][i].call \in Requests =>
          reply[tree[f][i].call] = "applied" /\ call[tree[f][i].call].finding = f
    BY <2>1 DEF Signed, Change, SomeEdit, Requests
  <2>4. \A i \in DOMAIN tree[f] : tree[f][i] # SomeEdit => tree[f][i].patch.healed
    BY <2>1 DEF Signed, Change
  <2> QED
    BY <2>1, <2>2, <2>3, <2>4 DEF Signed, IsFix
<1> QED
  BY McpAlways, <1>1, PTL

\* When the editor goes while a scan walks a server of its own, closeAll knows
\* of that server, and the process does not exit before it is gone
\* (mcp/tools.ts, openTargets and closeAll; mcp/server.ts).
THEOREM WalkedServersAreGoneHolds == McpSpec => []WalkedServersAreGone
<1>1. McpInv => WalkedServersAreGone
  BY DEF McpInv, Ending, ClosedAll, WalkedServersAreGone
<1> QED
  BY McpAlways, <1>1, PTL

-----------------------------------------------------------------------------
(* The ingest server.                                                       *)

LEMMA UploadTyped ==
  ASSUME NEW u \in Uploads
  PROVE  /\ u[1] \in Scans /\ u[2] \in DOMAIN Script[u[1]] /\ u = <<u[1], u[2]>>
         /\ KindOf(u) \in Kinds /\ FpsOf(u) \in Seq(Fps)
<1>1. PICK p \in Scans : u \in {p} \X DOMAIN Script[p]
  BY DEF Uploads
<1>2. u[1] = p /\ u[2] \in DOMAIN Script[p] /\ u = <<u[1], u[2]>>
  BY <1>1
<1> DEFINE Envelope == [kind : Kinds, fps : Seq(Fps)]
<1>3. Script[p] \in Seq(Envelope)
  BY IngestAssumption
<1> HIDE DEF Envelope
<1>4. Script[p][u[2]] \in Envelope
  BY <1>2, <1>3
<1> USE DEF Envelope
<1> QED
  BY <1>2, <1>4 DEF KindOf, FpsOf

LEMMA MentionedIs ==
  ASSUME NEW S, NEW fp, NEW m
  PROVE  m \in Mentioned(S, fp) <=>
           \E u \in S : \E j \in DOMAIN FpsOf(u) : m = <<u, j>> /\ FpsOf(u)[j] = fp
BY DEF Mentioned

\* One upload mentions a fingerprint finitely often.
LEMMA OneIsFinite ==
  ASSUME NEW u \in Uploads, NEW fp
  PROVE  IsFiniteSet(Mentioned({u}, fp))
<1>1. DOMAIN FpsOf(u) = 1 .. Len(FpsOf(u)) /\ Len(FpsOf(u)) \in Nat
  BY UploadTyped
<1>2. IsFiniteSet({u})
  BY FS_Singleton
<1>5. IsFiniteSet(DOMAIN FpsOf(u))
  <2>1. IsFiniteSet(1 .. Len(FpsOf(u)))
    BY <1>1, FS_Interval
  <2> QED
    BY <1>1, <2>1
<1>3. IsFiniteSet({u} \X DOMAIN FpsOf(u))
  BY <1>2, <1>5, FS_Product
<1>4. Mentioned({u}, fp) \subseteq {u} \X DOMAIN FpsOf(u)
  BY DEF Mentioned
<1> QED
  BY <1>3, <1>4, FS_Subset

-----------------------------------------------------------------------------
(* The inductive invariant.                                                 *)

File == [occ : Nat, latest : SUBSET Uploads, torn : {FALSE}]

Typed ==
  /\ TypeOK
  /\ sent \in [Scans -> Nat]
  /\ job \in [of : SUBSET Uploads, step : Nat]
  /\ files \in [{"telemetry", "run"} -> [Fps -> File]]

\* An upload is on its way, then at work, then recorded, and comes once.
OneAtATime ==
  /\ \A u, v \in job.of : u = v
  /\ \A u \in requests \cup job.of \cup complete \cup runs : u[2] <= sent[u[1]]
  /\ requests \cap (job.of \cup complete \cup runs) = {}
  /\ job.of \cap complete = {}
  /\ \A u \in job.of : IF KindOf(u) = "run" THEN u \in runs <=> job.step > 0
                       ELSE job.step > 0

Filed(u, j) == files[KindOf(u)][FpsOf(u)[j]].occ > 0

\* What was written is there, and only what is there is reported.
Kept ==
  /\ \A u \in job.of : \A j \in DOMAIN FpsOf(u) : j < job.step => Filed(u, j)
  /\ \A u \in complete :
       /\ KindOf(u) # "episode" /\ (KindOf(u) = "run" => u \in runs)
       /\ \A j \in DOMAIN FpsOf(u) : Filed(u, j)
  /\ \A r \in replies : r[2] = 201 => r[1] \in complete
  /\ \A u \in Uploads : upload[u] = "ok" => u \in complete

\* What the recording of a run has come to.
Written(fp) == {m \in Mentioned(job.of \cap runs, fp) : m[2] < job.step}

AtMost(fp)  == Mentioned(runs \ job.of, fp) \cup Written(fp)
AtLeast(fp) == Mentioned(complete \cap runs, fp) \cup Written(fp)

Counting ==
  \A fp \in Fps :
    /\ IsFiniteSet(Mentioned(runs, fp))
    /\ files["run"][fp].occ <= Cardinality(AtMost(fp))
    /\ files["run"][fp].occ >= Cardinality(AtLeast(fp))
    /\ files["run"][fp].latest \subseteq runs

IngestInv == Typed /\ OneAtATime /\ Kept /\ Counting

LEMMA SetsOfMentions ==
  ASSUME NEW fp
  PROVE  /\ Mentioned(complete \cap runs, fp) \subseteq AtLeast(fp)
         /\ AtLeast(fp) \subseteq Mentioned(runs, fp)
         /\ AtMost(fp) \subseteq Mentioned(runs, fp)
BY DEF AtLeast, AtMost, Written, Mentioned

LEMMA IngestInit == Init => IngestInv
<1> SUFFICES ASSUME Init PROVE IngestInv
  OBVIOUS
<1>1. Typed
  BY IngestAssumption DEF Init, Typed, TypeOK, NoJob, NoFile, File
<1>2. OneAtATime /\ Kept
  BY DEF Init, OneAtATime, Kept, NoJob
<1>3. Counting
  <2> SUFFICES ASSUME NEW fp \in Fps
               PROVE  /\ Mentioned(runs, fp) = {} /\ files["run"][fp] = NoFile
    BY SetsOfMentions, FS_EmptySet DEF Counting, NoFile
  <2> QED
    BY DEF Init, Mentioned
<1> QED
  BY <1>1, <1>2, <1>3 DEF IngestInv

\* The counts hold as long as the bounds do not tighten.
LEMMA BoundsLoosen ==
  ASSUME Counting, Typed, runs' = runs, files' = files,
         \A fp \in Fps : AtMost(fp) \subseteq AtMost(fp)' /\ AtLeast(fp)' \subseteq AtLeast(fp)
  PROVE  Counting'
<1> SUFFICES ASSUME NEW fp \in Fps
             PROVE  /\ IsFiniteSet(Mentioned(runs, fp))'
                    /\ files["run"][fp].occ <= Cardinality(AtMost(fp)')
                    /\ files["run"][fp].occ >= Cardinality(AtLeast(fp)')
                    /\ files["run"][fp].latest \subseteq runs
  BY DEF Counting
<1>1. Mentioned(runs, fp)' = Mentioned(runs, fp)
  BY DEF Mentioned
<1>0. AtMost(fp)' \subseteq Mentioned(runs, fp)'
  BY DEF AtMost, Written, Mentioned
<1>2. /\ AtMost(fp)' \subseteq Mentioned(runs, fp) /\ AtMost(fp) \subseteq AtMost(fp)'
      /\ AtLeast(fp) \subseteq Mentioned(runs, fp) /\ AtLeast(fp)' \subseteq AtLeast(fp)
      /\ IsFiniteSet(Mentioned(runs, fp))
  BY <1>0, <1>1, SetsOfMentions DEF Counting
<1>3. /\ IsFiniteSet(AtMost(fp)') /\ IsFiniteSet(AtLeast(fp))
      /\ IsFiniteSet(AtMost(fp)) /\ IsFiniteSet(AtLeast(fp)')
  BY <1>2, FS_Subset
<1>4. /\ Cardinality(AtMost(fp)) <= Cardinality(AtMost(fp)')
      /\ Cardinality(AtLeast(fp)') <= Cardinality(AtLeast(fp))
  BY <1>2, <1>3, FS_Subset
<1>5. /\ {Cardinality(AtMost(fp)), Cardinality(AtMost(fp)'),
          Cardinality(AtLeast(fp)), Cardinality(AtLeast(fp)')} \subseteq Nat
      /\ files["run"][fp].occ \in Nat
  BY <1>3, FS_CardinalityType DEF Typed, File
<1> QED
  BY <1>1, <1>2, <1>4, <1>5 DEF Counting

-----------------------------------------------------------------------------
(* Steps that leave the store and the recording at work alone.              *)

LEMMA StoreIsLeft ==
  ASSUME Counting, Typed, UNCHANGED <<job, storeVars, complete>>
  PROVE  Counting'
<1>1. runs' = runs /\ files' = files /\ job' = job /\ complete' = complete
  BY DEF storeVars
<1>2. \A fp \in Fps : AtMost(fp)' = AtMost(fp) /\ AtLeast(fp)' = AtLeast(fp)
  BY <1>1 DEF AtMost, AtLeast, Written, Mentioned
<1> QED
  BY <1>1, <1>2, BoundsLoosen

LEMMA ScanKeeps ==
  ASSUME IngestInv, NEW p \in Scans, ScanStep(p)
  PROVE  IngestInv'
<1> USE DEF IngestInv
<1>1. CASE Submit(p)
  <2>1. /\ scan[p] = "work" /\ sent[p] < Len(Script[p])
        /\ sent' = [sent EXCEPT ![p] = @ + 1]
        /\ upload' = [upload EXCEPT ![<<p, sent'[p]>>] = "sent"]
        /\ requests' = requests \cup {<<p, sent'[p]>>}
        /\ UNCHANGED <<scan, replies, serverVars>>
    BY <1>1 DEF Submit
  <2>2. sent[p] \in Nat /\ sent'[p] = sent[p] + 1
    BY <2>1 DEF Typed
  <2> DEFINE u == <<p, sent'[p]>>
  <2>3. u \in Uploads
    <3>1. Script[p] \in Seq([kind : Kinds, fps : Seq(Fps)])
      BY IngestAssumption
    <3>2. sent'[p] \in DOMAIN Script[p]
      BY <2>1, <2>2, <3>1
    <3> QED
      BY <3>2 DEF Uploads
  <2>4. u \notin requests \cup job.of \cup complete \cup runs
    BY <2>2 DEF OneAtATime
  <2>5. Typed'
    <3>1. sent' \in [Scans -> Nat]
      BY <2>1, <2>2 DEF Typed
    <3>2. upload' \in [Uploads -> {"none", "sent", "ok", "warned"}]
      BY <2>1 DEF Typed, TypeOK
    <3>3. requests' \subseteq Uploads
      BY <2>1, <2>3 DEF Typed, TypeOK
    <3> QED
      BY <2>1, <3>1, <3>2, <3>3 DEF Typed, TypeOK, serverVars, storeVars
  <2>6. OneAtATime'
    <3>1. \A v \in Uploads : sent[v[1]] <= sent'[v[1]]
      BY <2>1, UploadTyped DEF Typed
    <3>2. requests \cup job.of \cup complete \cup runs \subseteq Uploads
      BY DEF Typed, TypeOK
    <3>3. \A v \in requests \cup job.of \cup complete \cup runs : v[2] <= sent'[v[1]]
      <4> TAKE v \in requests \cup job.of \cup complete \cup runs
      <4>1. v \in Uploads /\ v[2] <= sent[v[1]]
        BY <3>2 DEF OneAtATime
      <4>2. v[1] \in Scans /\ v[2] \in Nat
        BY <4>1, UploadTyped, IngestAssumption
      <4> QED
        BY <2>1, <3>1, <4>1, <4>2 DEF Typed
    <3> QED
      BY <2>1, <2>2, <2>4, <3>3 DEF OneAtATime, serverVars, storeVars
  <2>7. Kept'
    BY <2>1, <2>3 DEF Kept, Filed, serverVars, storeVars, Typed, TypeOK
  <2>8. Counting'
    BY <2>1, StoreIsLeft DEF serverVars, storeVars
  <2> QED
    BY <2>5, <2>6, <2>7, <2>8
<1>2. CASE EndScan(p) \/ flushTelemetry(p) \/ flushCloud(p)
  <2>1. /\ scan' \in [Scans -> {"work", "telemetry", "cloud", "exited"}]
        /\ UNCHANGED <<sent, upload, netVars, serverVars>>
    BY <1>2 DEF EndScan, flushTelemetry, flushCloud, Typed, TypeOK
  <2>2. Typed' /\ OneAtATime' /\ Kept'
    BY <2>1 DEF Typed, TypeOK, OneAtATime, Kept, Filed, netVars, serverVars, storeVars
  <2>3. Counting'
    BY <2>1, StoreIsLeft DEF serverVars, storeVars
  <2> QED
    BY <2>2, <2>3
<1> QED
  BY <1>1, <1>2 DEF ScanStep

\* What a client hears, or no longer waits for.
LEMMA ClientKeeps ==
  ASSUME IngestInv, NEW u \in Uploads,
         \/ \E status \in {201, 400, 401} : Answer(u, status)
         \/ Abort(u) \/ Lose(u)
  PROVE  IngestInv'
<1> USE DEF IngestInv
<1>1. /\ requests' \subseteq requests /\ replies' \subseteq replies
      /\ UNCHANGED <<scan, sent, serverVars>>
      /\ \/ Settle(u, "warned")
         \/ Settle(u, "ok") /\ <<u, 201>> \in replies
  BY DEF Answer, Abort, Lose
<1>2. upload' \in [Uploads -> {"none", "sent", "ok", "warned"}]
  BY <1>1 DEF Settle, Typed, TypeOK
<1>3. Typed' /\ OneAtATime'
  BY <1>1, <1>2 DEF Typed, TypeOK, OneAtATime, serverVars, storeVars
<1>4. Kept'
  <2>1. <<u, 201>> \in replies => u \in complete
    BY DEF Kept
  <2>2. \A v \in Uploads : upload'[v] = "ok" => v \in complete
    BY <1>1, <2>1 DEF Kept, Settle, Typed, TypeOK
  <2> QED
    BY <1>1, <2>2 DEF Kept, Filed, serverVars, storeVars
<1>5. Counting'
  BY <1>1, StoreIsLeft DEF serverVars, storeVars
<1> QED
  BY <1>3, <1>4, <1>5

-----------------------------------------------------------------------------
(* Steps of the server.                                                     *)

\* A recording that ends where it is leaves counts that hold.
LEMMA JobEnds ==
  ASSUME IngestInv, job' = NoJob, UNCHANGED <<storeVars, complete>>
  PROVE  Counting'
<1>1. runs' = runs /\ files' = files /\ complete' = complete
  BY DEF storeVars
<1>2. \A fp \in Fps : AtMost(fp)' = Mentioned(runs, fp)
                    /\ AtLeast(fp)' = Mentioned(complete \cap runs, fp)
  BY <1>1 DEF AtMost, AtLeast, Written, Mentioned, NoJob
<1> QED
  BY <1>1, <1>2, SetsOfMentions, BoundsLoosen DEF IngestInv

LEMMA ReplyKeeps ==
  ASSUME Typed, NEW u \in Uploads, NEW status \in {201, 400, 401}, Reply(u, status)
  PROVE  /\ replies' \subseteq replies \cup {<<u, status>>}
         /\ replies' \subseteq Uploads \X {201, 400, 401}
BY DEF Reply, Typed, TypeOK

LEMMA HandleKeeps ==
  ASSUME IngestInv, NEW u \in Uploads, Handle(u)
  PROVE  IngestInv'
<1> USE DEF IngestInv
<1>1. /\ job = NoJob /\ u \in requests /\ requests' = requests \ {u}
      /\ UNCHANGED <<clientVars, keyed, up, tmp, runs, files, crashes, complete>>
  BY DEF Handle, storeVars
<1>2. u \notin complete \cup runs
  BY <1>1 DEF OneAtATime
<1>3. CASE u[1] \in keyed /\ KindOf(u) # "episode"
  <2>1. /\ job' = [of |-> {u}, step |-> IF KindOf(u) = "run" THEN 0 ELSE 1]
        /\ replies' = replies
    BY <1>3 DEF Handle
  <2>2. job'.of = {u} /\ job'.step = (IF KindOf(u) = "run" THEN 0 ELSE 1)
    BY <2>1
  <2>3. Len(FpsOf(u)) \in Nat /\ DOMAIN FpsOf(u) = 1 .. Len(FpsOf(u))
    BY UploadTyped
  <2>4. Typed'
    <3>1. job' \in [of : SUBSET Uploads, step : Nat] /\ job'.step \in 0 .. Len(FpsOf(u)) + 1
      BY <2>1, <2>3
    <3> QED
      BY <1>1, <1>3, <2>1, <2>2, <3>1 DEF Typed, TypeOK, clientVars
  <2>5. OneAtATime'
    BY <1>1, <1>2, <2>2 DEF OneAtATime, clientVars
  <2>6. Kept'
    BY <1>1, <2>1, <2>2, <2>3 DEF Kept, Filed, clientVars
  <2>7. Counting'
    <3>1. \A fp \in Fps : AtMost(fp)' = Mentioned(runs, fp)
                        /\ AtLeast(fp)' = Mentioned(complete \cap runs, fp)
      BY <1>1, <1>2, <2>2 DEF AtMost, AtLeast, Written, Mentioned
    <3> QED
      BY <1>1, <3>1, SetsOfMentions, BoundsLoosen
  <2> QED
    BY <2>4, <2>5, <2>6, <2>7
<1>4. CASE ~(u[1] \in keyed /\ KindOf(u) # "episode")
  <2>1. PICK status \in {400, 401} : Reply(u, status)
    BY <1>4 DEF Handle
  <2>2. job' = job
    BY <1>4 DEF Handle
  <2>3. /\ replies' \subseteq replies \cup {<<u, status>>}
        /\ replies' \subseteq Uploads \X {201, 400, 401}
    BY <2>1, ReplyKeeps
  <2>4. Typed' /\ OneAtATime'
    BY <1>1, <2>2, <2>3 DEF Typed, TypeOK, OneAtATime, clientVars
  <2>5. Kept'
    <3>1. \A r \in replies' : r[2] = 201 => r \in replies
      BY <2>1, <2>3
    <3> QED
      BY <1>1, <2>2, <3>1 DEF Kept, Filed, clientVars
  <2>6. Counting'
    BY <1>1, <2>2, StoreIsLeft DEF storeVars
  <2> QED
    BY <2>4, <2>5, <2>6
<1> QED
  BY <1>3, <1>4

\* A failed write, and a crash: what was written stays.
LEMMA CutKeeps ==
  ASSUME IngestInv, (\E u \in Uploads : WriteThrows(u)) \/ Crash
  PROVE  IngestInv'
<1> USE DEF IngestInv
<1>1. /\ job' = NoJob /\ tmp' = FALSE /\ requests' \subseteq requests /\ up' \in BOOLEAN
      /\ UNCHANGED <<clientVars, keyed, runs, files, complete>>
  BY DEF WriteThrows, Crash, storeVars, Typed, TypeOK
<1>2. /\ replies' \subseteq Uploads \X {201, 400, 401}
      /\ \A r \in replies' : r[2] = 201 => r \in replies
  <2>1. CASE Crash
    BY <2>1 DEF Crash, Typed, TypeOK
  <2>2. ASSUME NEW u \in Uploads, WriteThrows(u)
        PROVE  /\ replies' \subseteq Uploads \X {201, 400, 401}
               /\ \A r \in replies' : r[2] = 201 => r \in replies
    BY <2>2, ReplyKeeps DEF WriteThrows
  <2> QED
    BY <2>1, <2>2
<1>6. job' \in [of : SUBSET Uploads, step : Nat] /\ job'.of = {}
  BY <1>1 DEF NoJob
<1>3. Typed'
  BY <1>1, <1>2, <1>6 DEF Typed, TypeOK, clientVars
<1>7. OneAtATime'
  BY <1>1, <1>6 DEF OneAtATime, clientVars
<1>4. Kept'
  BY <1>1, <1>2, <1>6 DEF Kept, Filed, clientVars
<1>5. Counting'
  BY <1>1, JobEnds DEF storeVars
<1> QED
  BY <1>3, <1>4, <1>5, <1>7

\* The rename of the run record: no finding of it is counted yet.
LEMMA RunRecordKeeps ==
  ASSUME IngestInv, NEW u \in Uploads, Rename(u), job.step = 0
  PROVE  IngestInv'
<1> USE DEF IngestInv
<1>1. /\ u \in job.of /\ job' = [job EXCEPT !.step = @ + 1] /\ tmp' = FALSE
      /\ runs' = runs \cup {u}
      /\ UNCHANGED <<clientVars, netVars, keyed, up, files, complete>>
  BY DEF Rename, Writing
<1>2. /\ job'.of = {u} /\ job.of = {u} /\ job'.step = 1 /\ KindOf(u) = "run"
      /\ u \notin runs /\ u \notin complete /\ u \notin requests
      /\ job' \in [of : SUBSET Uploads, step : Nat]
  BY <1>1 DEF OneAtATime, Typed
<1>3. Len(FpsOf(u)) \in Nat /\ DOMAIN FpsOf(u) = 1 .. Len(FpsOf(u))
  BY UploadTyped
<1>4. Typed'
  <2>1. \A v \in job'.of : KindOf(v) # "episode" /\ job'.step \in 0 .. Len(FpsOf(v)) + 1
    BY <1>2, <1>3
  <2>2. runs' \subseteq {v \in Uploads : KindOf(v) = "run"}
    BY <1>1, <1>2 DEF Typed, TypeOK
  <2> QED
    BY <1>1, <1>2, <2>1, <2>2 DEF Typed, TypeOK, clientVars, netVars
<1>5. OneAtATime'
  BY <1>1, <1>2 DEF OneAtATime, clientVars, netVars
<1>6. Kept'
  BY <1>1, <1>2, <1>3 DEF Kept, Filed, clientVars, netVars
<1>7. Counting'
  <2> SUFFICES ASSUME NEW fp \in Fps
               PROVE  /\ IsFiniteSet(Mentioned(runs', fp))
                      /\ AtMost(fp)' = AtMost(fp) /\ AtLeast(fp)' = AtLeast(fp)
    BY <1>1 DEF Counting, Mentioned
  <2>1. Mentioned(runs', fp) = Mentioned(runs, fp) \cup Mentioned({u}, fp)
    BY <1>1 DEF Mentioned
  <2>2. IsFiniteSet(Mentioned(runs', fp))
    BY <2>1, OneIsFinite, FS_Union DEF Counting
  <2>3. runs' \ job'.of = runs \ job.of /\ complete' \cap runs' = complete \cap runs
    BY <1>1, <1>2
  <2>4. Written(fp) = {}
    BY <1>2 DEF Written, Mentioned
  <2>5. Written(fp)' = {}
    <3>1. \A m \in Mentioned(job'.of, fp) : ~(m[2] < job'.step)
      BY <1>2, <1>3 DEF Mentioned
    <3> QED
      BY <3>1 DEF Written, Mentioned
  <2>6. /\ AtMost(fp) = Mentioned(runs \ job.of, fp)
        /\ AtMost(fp)' = Mentioned(runs' \ job'.of, fp)
        /\ AtLeast(fp) = Mentioned(complete \cap runs, fp)
        /\ AtLeast(fp)' = Mentioned(complete' \cap runs', fp)
    BY <2>4, <2>5 DEF AtMost, AtLeast, Mentioned
  <2> QED
    BY <2>2, <2>3, <2>6
<1> QED
  BY <1>4, <1>5, <1>6, <1>7

LEMMA CountedIs ==
  ASSUME NEW file \in File, NEW u \in Uploads
  PROVE  /\ Counted(file, u) \in File /\ Counted(file, u).latest = {u}
         /\ file.occ \in Nat /\ Counted(file, u).occ = file.occ + 1
<1>1. file.occ \in Nat /\ file.torn = FALSE
  BY DEF File
<1> QED
  BY <1>1 DEF Counted, File

\* The rename of the file of a finding.
LEMMA FileKeeps ==
  ASSUME IngestInv, NEW u \in Uploads, Rename(u), job.step # 0
  PROVE  IngestInv'
<1> USE DEF IngestInv
<1>0. PICK s \in Nat : s = job.step
  BY DEF Typed
<1> DEFINE k == KindOf(u)
           f == FpsOf(u)[s]
<1>1. /\ u \in job.of /\ job' = [job EXCEPT !.step = @ + 1] /\ tmp' = FALSE
      /\ files' = [files EXCEPT ![k][f] = Counted(@, u)]
      /\ s <= Len(FpsOf(u))
      /\ UNCHANGED <<clientVars, netVars, keyed, up, runs, complete>>
  BY <1>0 DEF Rename, Writing
<1>2. /\ job'.of = {u} /\ job.of = {u} /\ s # 0 /\ job'.step = s + 1
      /\ u \notin complete /\ (k = "run" => u \in runs)
      /\ job' \in [of : SUBSET Uploads, step : Nat]
  BY <1>0, <1>1 DEF OneAtATime, Typed
<1>3. /\ Len(FpsOf(u)) \in Nat /\ DOMAIN FpsOf(u) = 1 .. Len(FpsOf(u))
      /\ s \in DOMAIN FpsOf(u) /\ f \in Fps /\ k \in {"telemetry", "run"}
  <2>1. k # "episode"
    BY <1>1 DEF Typed, TypeOK
  <2>2. FpsOf(u) \in Seq(Fps) /\ k \in Kinds
    BY UploadTyped
  <2> HIDE DEF k
  <2> QED
    BY <1>1, <1>2, <2>1, <2>2 DEF Kinds
<1>4. /\ Counted(files[k][f], u) \in File /\ Counted(files[k][f], u).latest = {u}
      /\ Counted(files[k][f], u).occ = files[k][f].occ + 1
      /\ files[k][f].occ \in Nat
  <2>1. files[k][f] \in File
    <3> HIDE DEF k, f
    <3> QED
      BY <1>3 DEF Typed
  <2> HIDE DEF k, f
  <2> QED
    BY <2>1, CountedIs
<1>5. /\ files' \in [{"telemetry", "run"} -> [Fps -> File]]
      /\ files'[k][f] = Counted(files[k][f], u)
      /\ \A l \in {"telemetry", "run"}, g \in Fps :
           l # k \/ g # f => files'[l][g] = files[l][g]
  <2> HIDE DEF k, f
  <2> QED
    BY <1>1, <1>3, <1>4 DEF Typed
<1> HIDE DEF k, f
<1>6. Typed'
  <2>1. \A v \in job'.of : KindOf(v) # "episode" /\ job'.step \in 0 .. Len(FpsOf(v)) + 1
    BY <1>1, <1>2, <1>3 DEF k
  <2> QED
    BY <1>1, <1>2, <1>5, <2>1 DEF Typed, TypeOK, clientVars, netVars
<1>7. OneAtATime'
  BY <1>0, <1>1, <1>2 DEF OneAtATime, clientVars, netVars, k
<1>8. Kept'
  <2>1. \A v \in Uploads : \A j \in DOMAIN FpsOf(v) :
          KindOf(v) \in {"telemetry", "run"} /\ Filed(v, j) => Filed(v, j)'
    <3> TAKE v \in Uploads
    <3> TAKE j \in DOMAIN FpsOf(v)
    <3>1. FpsOf(v)[j] \in Fps
      BY UploadTyped
    <3>2. \A l \in {"telemetry", "run"}, g \in Fps :
            files[l][g].occ > 0 => files'[l][g].occ > 0
      BY <1>3, <1>4, <1>5
    <3> QED
      BY <3>1, <3>2 DEF Filed
  <2>2. Filed(u, s)'
    BY <1>3, <1>4, <1>5 DEF Filed, k, f
  <2>3. \A j \in DOMAIN FpsOf(u) : j < s + 1 => Filed(u, j)'
    <3> TAKE j \in DOMAIN FpsOf(u)
    <3>1. j < s => Filed(u, j)
      BY <1>0, <1>1 DEF Kept
    <3>2. j < s => Filed(u, j)'
      BY <1>3, <2>1, <3>1 DEF k
    <3>3. j \in Nat
      BY <1>3
    <3> QED
      BY <2>2, <3>2, <3>3
  <2>4. \A v \in complete : \A j \in DOMAIN FpsOf(v) : Filed(v, j)'
    <3> TAKE v \in complete
    <3>1. v \in Uploads /\ KindOf(v) # "episode"
      BY DEF Kept, Typed, TypeOK
    <3>2. KindOf(v) \in {"telemetry", "run"}
      BY <3>1, UploadTyped DEF Kinds
    <3> QED
      BY <2>1, <3>1, <3>2 DEF Kept
  <2> QED
    BY <1>1, <1>2, <2>3, <2>4 DEF Kept, clientVars, netVars
<1>9. Counting'
  <2> SUFFICES ASSUME NEW fp \in Fps
               PROVE  /\ files'["run"][fp].occ <= Cardinality(AtMost(fp)')
                      /\ files'["run"][fp].occ >= Cardinality(AtLeast(fp)')
                      /\ files'["run"][fp].latest \subseteq runs
    BY <1>1 DEF Counting, Mentioned
  <2>1. runs' = runs /\ complete' = complete /\ job'.of = job.of
    BY <1>1, <1>2
  <2>2. CASE k = "run" /\ fp = f
    <3> DEFINE hit == <<u, s>>
    <3>1. job.of \cap runs = {u}
      BY <1>2, <2>2
    <3>2. Written(fp)' = Written(fp) \cup {hit}
      <4>1. \A m \in Mentioned({u}, fp) : m = <<u, m[2]>> /\ m[2] \in Nat
        BY <1>3 DEF Mentioned
      <4>2. hit \in Mentioned({u}, fp) /\ hit[2] = s
        BY <1>3, <2>2 DEF Mentioned, f
      <4>3. \A m \in Mentioned({u}, fp) : m[2] < s + 1 <=> m[2] < s \/ m = hit
        BY <4>1, <4>2
      <4>4. /\ Written(fp) = {m \in Mentioned({u}, fp) : m[2] < s}
            /\ Written(fp)' = {m \in Mentioned({u}, fp) : m[2] < s + 1}
        BY <1>0, <1>2, <2>1, <3>1 DEF Written, Mentioned
      <4> QED
        BY <4>2, <4>3, <4>4
    <3>3. AtMost(fp)' = AtMost(fp) \cup {hit} /\ AtLeast(fp)' = AtLeast(fp) \cup {hit}
      BY <2>1, <3>2 DEF AtMost, AtLeast, Mentioned
    <3>4. hit \notin AtMost(fp) /\ hit \notin AtLeast(fp)
      BY <1>0, <1>2 DEF AtMost, AtLeast, Written, Mentioned
    <3>5. IsFiniteSet(AtMost(fp)) /\ IsFiniteSet(AtLeast(fp))
      BY SetsOfMentions, FS_Subset DEF Counting
    <3>6. /\ Cardinality(AtMost(fp)) \in Nat /\ Cardinality(AtLeast(fp)) \in Nat
          /\ Cardinality(AtMost(fp)') = Cardinality(AtMost(fp)) + 1
          /\ Cardinality(AtLeast(fp)') = Cardinality(AtLeast(fp)) + 1
      BY <3>3, <3>4, <3>5, FS_AddElement, FS_CardinalityType
    <3>7. /\ files["run"][fp].occ <= Cardinality(AtMost(fp))
          /\ files["run"][fp].occ >= Cardinality(AtLeast(fp))
      BY DEF Counting
    <3> QED
      BY <1>2, <1>4, <1>5, <2>2, <3>6, <3>7
  <2>3. CASE ~(k = "run" /\ fp = f)
    <3>1. files'["run"][fp] = files["run"][fp]
      BY <1>5, <2>3
    <3>2. Written(fp)' = Written(fp)
      <4>1. CASE k # "run"
        <5>1. u \notin runs
          BY <4>1 DEF Typed, TypeOK, k
        <5> QED
          BY <1>2, <2>1, <5>1 DEF Written, Mentioned
      <4>2. CASE fp # f
        <5>1. \A m \in Mentioned(job.of \cap runs, fp) : m[2] \in Nat /\ m[2] # s
          BY <1>2, <1>3, <4>2 DEF Mentioned, f
        <5>2. \A m \in Mentioned(job.of \cap runs, fp) : m[2] < s + 1 <=> m[2] < s
          BY <5>1
        <5> QED
          BY <1>0, <1>2, <2>1, <5>2 DEF Written, Mentioned
      <4> QED
        BY <2>3, <4>1, <4>2
    <3>3. AtMost(fp)' = AtMost(fp) /\ AtLeast(fp)' = AtLeast(fp)
      BY <2>1, <3>2 DEF AtMost, AtLeast, Mentioned
    <3> QED
      BY <3>1, <3>3 DEF Counting
  <2> QED
    BY <2>2, <2>3
<1> QED
  BY <1>6, <1>7, <1>8, <1>9

LEMMA RecordedKeeps ==
  ASSUME IngestInv, NEW u \in Uploads, Recorded(u)
  PROVE  IngestInv'
<1> USE DEF IngestInv
<1>1. /\ u \in job.of /\ job.step > Len(FpsOf(u)) /\ job' = NoJob
      /\ Reply(u, 201) /\ complete' = complete \cup {u}
      /\ UNCHANGED <<clientVars, requests, keyed, up, tmp, runs, files>>
  BY DEF Recorded, storeVars
<1>2. /\ job.of = {u} /\ job'.of = {} /\ job' \in [of : SUBSET Uploads, step : Nat]
      /\ KindOf(u) # "episode" /\ u \notin requests
  BY <1>1 DEF OneAtATime, Typed, TypeOK, NoJob
<1>3. /\ DOMAIN FpsOf(u) = 1 .. Len(FpsOf(u)) /\ Len(FpsOf(u)) \in Nat /\ job.step \in Nat
  BY UploadTyped DEF Typed
<1>4. \A j \in DOMAIN FpsOf(u) : j < job.step
  BY <1>1, <1>3
<1>5. KindOf(u) = "run" => u \in runs
  BY <1>1, <1>3 DEF OneAtATime
<1>6. /\ replies' \subseteq replies \cup {<<u, 201>>}
      /\ replies' \subseteq Uploads \X {201, 400, 401}
  BY <1>1, ReplyKeeps
<1>7. Typed'
  BY <1>1, <1>2, <1>6 DEF Typed, TypeOK, clientVars
<1>8. OneAtATime'
  BY <1>1, <1>2 DEF OneAtATime, clientVars
<1>9. Kept'
  <2>1. \A v \in complete' : \A j \in DOMAIN FpsOf(v) : Filed(v, j)'
    BY <1>1, <1>4 DEF Kept, Filed
  <2> QED
    BY <1>1, <1>2, <1>5, <1>6, <2>1 DEF Kept, clientVars
<1>10. Counting'
  <2>1. \A fp \in Fps : AtMost(fp) \subseteq AtMost(fp)' /\ AtLeast(fp)' \subseteq AtLeast(fp)
    <3> TAKE fp \in Fps
    <3>1. Written(fp) = Mentioned({u} \cap runs, fp)
      BY <1>2, <1>4 DEF Written, Mentioned
    <3>2. Written(fp)' = {}
      BY <1>2 DEF Written, Mentioned
    <3> QED
      BY <1>1, <1>2, <3>1, <3>2 DEF AtMost, AtLeast, Mentioned
  <2> QED
    BY <1>1, <2>1, BoundsLoosen
<1> QED
  BY <1>7, <1>8, <1>9, <1>10

-----------------------------------------------------------------------------

LEMMA IngestStep == IngestInv /\ [Next]_vars => IngestInv'
<1> SUFFICES ASSUME IngestInv, [Next]_vars PROVE IngestInv'
  OBVIOUS
<1>1. ASSUME UNCHANGED <<clientVars, netVars, keyed, job, storeVars, complete>>,
             up' \in BOOLEAN, tmp' \in BOOLEAN
      PROVE  IngestInv'
  <2>1. Typed' /\ OneAtATime' /\ Kept'
    BY <1>1 DEF IngestInv, Typed, TypeOK, OneAtATime, Kept, Filed, clientVars, netVars, storeVars
  <2> QED
    BY <1>1, <2>1, StoreIsLeft DEF IngestInv
<1>2. CASE \E p \in Scans : ScanStep(p)
  BY <1>2, ScanKeeps
<1>3. CASE \E u \in Uploads, status \in {201, 400, 401} : Answer(u, status)
  BY <1>3, ClientKeeps
<1>4. CASE \E u \in Uploads : Abort(u) \/ Lose(u)
  BY <1>4, ClientKeeps
<1>5. CASE \E u \in Uploads : Handle(u)
  BY <1>5, HandleKeeps
<1>6. ASSUME NEW u \in Uploads, Record(u)
      PROVE  IngestInv'
  <2>1. CASE WriteTmp(u)
    BY <1>1, <2>1 DEF WriteTmp, IngestInv, Typed, TypeOK
  <2>2. CASE Rename(u)
    BY <2>2, RunRecordKeeps, FileKeeps
  <2>3. CASE WriteThrows(u)
    BY <2>3, CutKeeps
  <2>4. CASE Recorded(u)
    BY <2>4, RecordedKeeps
  <2> QED
    BY <1>6, <2>1, <2>2, <2>3, <2>4 DEF Record
<1>7. CASE Crash
  BY <1>7, CutKeeps
<1>8. CASE Restart
  BY <1>1, <1>8 DEF Restart, IngestInv, Typed, TypeOK
<1>9. CASE UNCHANGED vars
  BY <1>1, <1>9 DEF vars, serverVars, IngestInv, Typed, TypeOK
<1> QED
  BY <1>2, <1>3, <1>4, <1>5, <1>6, <1>7, <1>8, <1>9 DEF Next

LEMMA IngestTells == IngestInv => StoreIsTruthful
<1> SUFFICES ASSUME IngestInv PROVE StoreIsTruthful
  OBVIOUS
<1>1. CountsMatchRuns
  <2> SUFFICES ASSUME NEW fp \in Fps
               PROVE  /\ files["run"][fp].occ <= Cardinality(Mentioned(runs, fp))
                      /\ files["run"][fp].occ >= Cardinality(Mentioned(complete \cap runs, fp))
                      /\ files["run"][fp].latest \subseteq runs
    BY DEF CountsMatchRuns, Mentions
  <2> DEFINE all   == Mentioned(runs, fp)
             whole == Mentioned(complete \cap runs, fp)
  <2>1. /\ whole \subseteq AtLeast(fp) /\ AtLeast(fp) \subseteq all /\ AtMost(fp) \subseteq all
        /\ IsFiniteSet(all)
    BY SetsOfMentions DEF IngestInv, Counting
  <2> HIDE DEF all, whole
  <2>2. IsFiniteSet(AtLeast(fp)) /\ IsFiniteSet(AtMost(fp)) /\ IsFiniteSet(whole)
    BY <2>1, FS_Subset
  <2>3. Cardinality(whole) <= Cardinality(AtLeast(fp)) /\ Cardinality(AtMost(fp)) <= Cardinality(all)
    BY <2>1, <2>2, FS_Subset
  <2>4. /\ {Cardinality(whole), Cardinality(AtLeast(fp)), Cardinality(AtMost(fp)),
            Cardinality(all)} \subseteq Nat
        /\ files["run"][fp].occ \in Nat
    BY <2>1, <2>2, FS_CardinalityType DEF IngestInv, Typed, File
  <2> QED
    BY <2>3, <2>4 DEF IngestInv, Counting, all, whole
<1>2. SilentIsStored
  BY DEF IngestInv, Kept, Filed, SilentIsStored
<1> QED
  BY <1>1, <1>2 DEF StoreIsTruthful, IngestInv, Typed

\* Whatever is lost, refused, aborted, cut or thrown: an upload a client is
\* silent about is in the store (core/telemetry/index.ts), and the counts of the
\* dashboard are those of the run records (server/store.ts).
THEOREM StoreIsTruthfulHolds == Spec => []StoreIsTruthful
<1> QED
  BY IngestInit, IngestStep, IngestTells, PTL DEF Spec

=============================================================================
