-------------------------------- MODULE Swarm --------------------------------
(***************************************************************************)
(* Detection (src/src/core/swarm.ts): missions are run by a bounded pool   *)
(* of lanes over one browser, each in a context of its own that captures   *)
(* findings (src/src/core/agent.ts, classifier.ts); what the missions      *)
(* captured is merged into one report.                                     *)
(*                                                                         *)
(* A finding is what merging tells apart: its fingerprint, how often it    *)
(* was seen, whether its source was located and in own code, how many      *)
(* actions it carries and the roles that met it.                           *)
(***************************************************************************)
EXTENDS Roster

CONSTANTS
  Lanes,       \* concurrent calls the pool allows
  Sizes,       \* how many missions a swarm may have
  Cap,         \* the swarm-wide action cap, 0 for none
  Faults,      \* fingerprints that may be captured
  RootKey,     \* [Faults -> root causes], rootKeyOf
  Severity,    \* [Faults -> 0 .. 3], 0 is noise
  MaxSignals,  \* bound: [Sizes -> telemetry events of a run of that size]
  MaxHistory   \* bound: [Sizes -> actions a finding carries]

ASSUME SwarmAssumption ==
  /\ Sizes \subseteq Nat \ {0} /\ Cap \in Nat
  /\ Severity \in [Faults -> 0 .. 3] /\ DOMAIN RootKey = Faults
  /\ MaxSignals \in [Sizes -> Nat] /\ MaxHistory \in [Sizes -> Nat]

VARIABLES
  missions,    \* the queue
  next,        \* `next` of runPool
  lane,        \* the mission each lane is on, 0 between two of them
  at,          \* where each mission is
  contexts,    \* browser contexts that are open, <<mission, hand>>
  seen,        \* what each hand's classifier has, in order of first sight
  results,     \* missions in the order their results were set
  episodes,    \* the verdicts logged for each mission
  pool,        \* runPool: "run", then "resolved" or "rejected"
  browser,     \* "open", "crashed" or "closed"
  signals      \* observation only: telemetry events so far

poolVars    == <<missions, next, lane, pool>>
missionVars == <<at, results, episodes>>
captureVars == <<seen, signals>>
vars == <<poolVars, missionVars, captureVars, contexts, browser>>

Hands(m) == IF Roles[missions[m].role].race THEN {"a", "b"} ELSE {"a"}
HandsOf(m) == {m} \X Hands(m)

TypeOK ==
  /\ next \in 1 .. Len(missions) + 1
  /\ lane \in [Lanes -> 0 .. Len(missions)]
  /\ at \in [DOMAIN missions -> {"queued", "open", "act", "settled", "failed",
                              "logged", "unlogged"}]
  /\ contexts \subseteq UNION {HandsOf(m) : m \in DOMAIN missions}
  /\ \A x \in DOMAIN seen : \A i \in DOMAIN seen[x] :
       seen[x][i].fp \in Faults /\ seen[x][i].occ \in 1 .. signals
  /\ \A i \in DOMAIN results : at[results[i]] \in {"settled", "logged", "unlogged"}
  /\ pool \in {"run", "resolved", "rejected"}
  /\ browser \in {"open", "crashed", "closed"}

Init ==
  /\ \E total \in Sizes, weighted \in BOOLEAN :
       missions = buildCatalogMissions(total, weighted, Cap)
  /\ next = 1 /\ lane = [l \in Lanes |-> 0]
  /\ at = [m \in DOMAIN missions |-> "queued"]
  /\ contexts = {} /\ seen = [x \in (DOMAIN missions) \X {"a", "b"} |-> <<>>]
  /\ results = <<>> /\ episodes = [m \in DOMAIN missions |-> <<>>]
  /\ pool = "run" /\ browser = "open" /\ signals = 0

-----------------------------------------------------------------------------
(* The pool: runPool and the callback swarmDetect gives it.                 *)

\* A lane takes the next mission.  Lanes that survive a rejection go on.
Take(l) ==
  /\ lane[l] = 0 /\ next <= Len(missions)
  /\ lane' = [lane EXCEPT ![l] = next]
  /\ next' = next + 1
  /\ at' = [at EXCEPT ![next] = "open"]
  /\ UNCHANGED <<missions, results, episodes, pool, captureVars, contexts,
                 browser>>

On(l, phase) == lane[l] # 0 /\ at[lane[l]] = phase

\* openAgentPage, one hand after the other; then the mission acts.
Open(l) ==
  LET m == lane[l] IN
  /\ On(l, "open") /\ browser = "open"
  /\ \E h \in Hands(m) :
       /\ <<m, h>> \notin contexts
       /\ h = "b" => <<m, "a">> \in contexts
       /\ contexts' = contexts \cup {<<m, h>>}
  /\ at' = [at EXCEPT ![m] = IF HandsOf(m) \subseteq contexts' THEN "act" ELSE @]
  /\ UNCHANGED <<poolVars, results, episodes, captureVars, browser>>

\* Opening throws.  The contexts opened so far are outside the try: they
\* stay until the browser goes.
OpenThrows(l) ==
  LET m == lane[l] IN
  /\ On(l, "open")
  /\ at' = [at EXCEPT ![m] = "failed"]
  /\ \/ contexts' = contexts
     \/ /\ browser = "open"
        /\ \E h \in Hands(m) : contexts' = contexts \cup {<<m, h>>}
  /\ UNCHANGED <<poolVars, results, episodes, captureVars, browser>>

\* The behaviour ran and its settle window is over: the result is set.
Settle(l) ==
  LET m == lane[l] IN
  /\ On(l, "act") /\ HandsOf(m) \subseteq contexts
  /\ at' = [at EXCEPT ![m] = "settled"]
  /\ results' = Append(results, m)
  /\ contexts' = contexts \ HandsOf(m)
  /\ UNCHANGED <<poolVars, episodes, captureVars, browser>>

\* The behaviour throws: a crashed page, a closed browser.
Throw(l) ==
  LET m == lane[l] IN
  /\ On(l, "act")
  /\ at' = [at EXCEPT ![m] = "failed"]
  /\ contexts' = contexts \ HandsOf(m)
  /\ UNCHANGED <<poolVars, results, episodes, captureVars, browser>>

\* What a loop over a list makes of it, one element after the other.
Through(list, Step(_, _)) ==
  LET made[n \in 0 .. Len(list)] ==
        IF n = 0 THEN <<>> ELSE Step(made[n - 1], list[n])
  IN  made[Len(list)]

\* classifier.findings() of every hand of a mission: noise is left out.
Heard(kept, f) == IF Severity[f.fp] > 0 THEN Append(kept, f) ELSE kept
FindingsOf(m) == Through(seen[<<m, "a">>] \o seen[<<m, "b">>], Heard)

\* "environment_failure" if the mission threw.  The other verdicts only say
\* what the mission itself counted.
episodeVerdict(m) == IF at[m] = "failed" THEN "environment_failure" ELSE "tested"

\* The callback's finally: one episode is logged, whatever became of the
\* mission, and the lane is free.
Log(l) ==
  LET m == lane[l] IN
  /\ On(l, "settled") \/ On(l, "failed")
  /\ lane' = [lane EXCEPT ![l] = 0]
  /\ at' = [at EXCEPT ![m] = "logged"]
  /\ episodes' = [episodes EXCEPT ![m] = Append(@, episodeVerdict(m))]
  /\ UNCHANGED <<missions, next, results, pool, captureVars, contexts,
                 browser>>

\* Variant: an episode that cannot be written is passed over.
LogPassedOver(l) ==
  /\ On(l, "settled") \/ On(l, "failed")
  /\ lane' = [lane EXCEPT ![l] = 0]
  /\ at' = [at EXCEPT ![lane[l]] = "unlogged"]
  /\ UNCHANGED <<missions, next, results, episodes, pool, captureVars,
                 contexts, browser>>

\* The episode cannot be written: this lane ends, the pool rejects, and the
\* other lanes go on running.
LogThrows(l) ==
  /\ On(l, "settled") \/ On(l, "failed")
  /\ pool' = IF pool = "run" THEN "rejected" ELSE pool
  /\ at' = [at EXCEPT ![lane[l]] = "unlogged"]
  /\ UNCHANGED <<missions, next, lane, results, episodes, captureVars,
                 contexts, browser>>

-----------------------------------------------------------------------------
(* What a mission captures: classify, and the lookup of its source.         *)

Captured(x, fp) == {i \in DOMAIN seen[x] : seen[x][i].fp = fp}

\* One telemetry event of one page.  Only the first sight of a fingerprint
\* makes a finding.
Capture(x, fp, hist) ==
  /\ signals < MaxSignals[Len(missions)] /\ browser = "open" /\ x \in contexts
  /\ at[x[1]] \in {"open", "act"}
  /\ signals' = signals + 1
  /\ \/ /\ Captured(x, fp) = {}
        /\ seen' = [seen EXCEPT ![x] = Append(@,
             [fp |-> fp, occ |-> 1, loc |-> "none", hist |-> hist,
              roles |-> {missions[x[1]].role}])]
     \/ \E i \in Captured(x, fp) : seen' = [seen EXCEPT ![x][i].occ = @ + 1]
  /\ UNCHANGED <<poolVars, missionVars, contexts, browser>>

\* The lookup of a finding's source answers: the handler awaits it, nobody
\* awaits the handler, so it may answer when the mission is long over, and an
\* event without a frame never does.  Once the browser is closed the findings
\* are merged, or the pool has rejected: what it writes then is not read.
Resolve(x, i, loc) ==
  /\ seen[x][i].loc = "none" /\ Severity[seen[x][i].fp] > 0
  /\ pool # "rejected" /\ browser # "closed"
  /\ seen' = [seen EXCEPT ![x][i].loc = loc]
  /\ UNCHANGED <<poolVars, missionVars, signals, contexts, browser>>

-----------------------------------------------------------------------------
(* Merging.  Both passes keep one finding per key, at the place of the      *)
(* first, and combine each later one into it.                               *)

GroupedWith(kept, f, Key(_), Combine(_, _)) ==
  IF \E i \in DOMAIN kept : Key(kept[i]) = Key(f)
  THEN [i \in DOMAIN kept |->
          IF Key(kept[i]) = Key(f) THEN Combine(kept[i], f) ELSE kept[i]]
  ELSE Append(kept, f)

Fingerprint(f) == f.fp
Root(f) == RootKey[f.fp]

\* The evidence two findings of one fault have together.
Pooled(existing, f) ==
  [existing EXCEPT !.occ = @ + f.occ,
                   !.loc = IF @ = "none" THEN f.loc ELSE @,
                   !.hist = Max({@, f.hist})]

\* Variant: a fault met again by the same role is not counted again.
MergeOncePerRole(existing, f) ==
  IF f.roles \subseteq existing.roles THEN existing
  ELSE [Pooled(existing, f) EXCEPT !.roles = @ \cup f.roles]

MergeTwo(existing, f) ==
  [Pooled(existing, f) EXCEPT !.roles = @ \cup f.roles]

MergedWith(kept, f) == GroupedWith(kept, f, Fingerprint, MergeTwo)
mergeFindings(findings) == Through(findings, MergedWith)

richer(a, b) ==
  LET own(f) == f.loc = "own" IN
  IF Severity[a.fp] # Severity[b.fp]
  THEN IF Severity[a.fp] > Severity[b.fp] THEN a ELSE b
  ELSE IF own(a) # own(b) THEN IF own(a) THEN a ELSE b
  ELSE IF a.hist >= b.hist THEN a ELSE b

\* The richer finding stands for both, with what they pool: `existing` comes
\* first, so a location it has is kept, whichever of the two is the richer.
CollapseTwo(existing, f) ==
  LET pooled == Pooled(existing, f) IN
  [richer(existing, f) EXCEPT !.occ = pooled.occ, !.loc = pooled.loc,
                              !.hist = pooled.hist]

CollapsedWith(kept, f) == GroupedWith(kept, f, Root, CollapseTwo)
collapseSignals(findings) == Through(findings, CollapsedWith)

ThenThoseOf(all, m) == all \o FindingsOf(m)
AllFindings == Through(results, ThenThoseOf)

\* What swarmDetect returns, once the pool has resolved and the browser is
\* closed.
Report == collapseSignals(mergeFindings(AllFindings))
Reported == pool = "resolved" /\ browser = "closed"

-----------------------------------------------------------------------------
(* The end of the run.                                                      *)

AllDone == next > Len(missions) /\ \A l \in Lanes : lane[l] = 0

\* Promise.all of the lanes.
PoolResolves ==
  /\ pool = "run" /\ AllDone
  /\ pool' = "resolved"
  /\ UNCHANGED <<missions, next, lane, missionVars, captureVars, contexts,
                 browser>>

\* Variant: the browser is closed on the way to the report only.
CloseResolved ==
  /\ pool = "resolved" /\ browser # "closed"
  /\ browser' = "closed" /\ contexts' = {}
  /\ UNCHANGED <<poolVars, missionVars, captureVars>>

\* The finally of swarmDetect; a rejected pool is thrown on from here.
CloseBrowser ==
  /\ pool # "run" /\ browser # "closed"
  /\ browser' = "closed" /\ contexts' = {}
  /\ UNCHANGED <<poolVars, missionVars, captureVars>>

\* The browser process dies.
Crash ==
  /\ browser = "open"
  /\ browser' = "crashed" /\ contexts' = {}
  /\ UNCHANGED <<poolVars, missionVars, captureVars>>

LaneStep(l) == \/ Take(l) \/ Open(l) \/ OpenThrows(l) \/ Settle(l)
               \/ Throw(l) \/ Log(l) \/ LogThrows(l)

\* What the process itself does, as against what happens to it.
RunStep == (\E l \in Lanes : LaneStep(l)) \/ PoolResolves \/ CloseBrowser

Next ==
  \/ RunStep
  \/ Crash
  \/ \E x \in DOMAIN seen, fp \in Faults, hist \in 0 .. MaxHistory[Len(missions)] :
       Capture(x, fp, hist)
  \/ \E x \in DOMAIN seen : \E i \in DOMAIN seen[x], loc \in {"own", "unresolved"} :
       Resolve(x, i, loc)

Spec == Init /\ [][Next]_vars

-----------------------------------------------------------------------------
(* Properties.                                                              *)

\* A resolved pool has run every mission of the queue once: each has one
\* episode, and the verdict "environment_failure" goes to exactly those whose
\* result was lost.
MissionsAnswered ==
  pool = "resolved" =>
    \A m \in DOMAIN missions :
      /\ Len(episodes[m]) = 1
      /\ Cardinality({i \in DOMAIN results : results[i] = m}) =
           (IF episodes[m][1] = "environment_failure" THEN 0 ELSE 1)

\* A mission with a result has given all its contexts back, both hands of a
\* race, and none outlives the browser, whatever lanes a rejection leaves
\* running.  (Only a mission whose opening threw may leave one behind.)
ContextsAreReturned ==
  /\ \A i \in DOMAIN results : HandsOf(results[i]) \cap contexts = {}
  /\ browser = "closed" => contexts = {}

OfRoot(findings, root) == {i \in DOMAIN findings : Root(findings[i]) = root}

\* Every time a root cause was met, by the findings that say so.
Sightings(findings, root) ==
  UNION {{i} \X (1 .. findings[i].occ) : i \in OfRoot(findings, root)}

\* The report has one finding for every root cause the settled missions met
\* and no other; it counts all their occurrences, carries their longest
\* history, and is represented by a fingerprint of the worst severity:
\* whatever the order in which missions settled and findings came in.
NothingLostInMerge ==
  Reported =>
    LET report == Report
        all    == AllFindings IN
       \A root \in {RootKey[fp] : fp \in Faults} :
         /\ Cardinality(OfRoot(report, root)) = (IF OfRoot(all, root) = {} THEN 0 ELSE 1)
         /\ Cardinality(Sightings(report, root)) = Cardinality(Sightings(all, root))
         /\ \A i \in OfRoot(all, root), j \in OfRoot(report, root) :
              /\ report[j].hist >= all[i].hist
              /\ Severity[report[j].fp] >= Severity[all[i].fp]

\* Interleaving: an interrupted run has sampled everyone.  Once as many
\* missions are taken as there are roles with a mission, each of these roles
\* has had one.
InterruptedSamplesAll ==
  LET used == {missions[m].role : m \in DOMAIN missions} IN
  next > Cardinality(used) => {missions[m].role : m \in 1 .. next - 1} = used

\* Whatever fails, every mission is answered for, in the results, the episodes
\* and the contexts, and the first to go sample every role.
MissionsAccounted ==
  /\ TypeOK /\ MissionsAnswered /\ ContextsAreReturned /\ InterruptedSamplesAll

\* A run that has no step left to take, whatever missions, lanes and the browser
\* did, has closed its browser (the finally of swarmDetect).
NothingHangs == browser = "closed" \/ ENABLED RunStep

=============================================================================
