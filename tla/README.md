# aztrx in TLA+

Specifications of [aztrx](../src/README.md), a command line tool that drives a
web application with a swarm of browser agents, reproduces what breaks, patches
the source, verifies the patch by replay and, in `aztrx patrol`, publishes it as
a pull request and goes on. The modules here model the parts of it whose
correctness depends on the order of things: loops with memory, caps and
failures, processes that close each other, pools, retries, crawls of pages that
move, and files that outlive a crash. They are checked with TLC on small
instances; the promises of nine of the parts are also proved with TLAPS for all of
them.

Paths are relative to the repository (`src/core/...` is
`../src/src/core/...` from here).

## 1. The system

| Component | State it keeps | Operations | Talks to |
|---|---|---|---|
| patrol (`core/patrol/*`, `heal/apply.ts`) | `.aztrx/patrol.json`, the session's fix count and budget, the user's clone | one cycle per interval: liveness, run, mark, apply, commit, pull request, save | orchestrator, heal, git, gh |
| heal (`core/heal/*`) | a worktree, the session budget, `.aztrx/heal/*` | `heal()`: rule tier and model tiers, gates, replay verification | model provider, git worktree, dev server |
| dev server (`core/devServer.ts`, `heal/boot.ts`) | a process group, handlers of signals | `resolveTarget`, `bootServer`, `close`, `killTree` | every command, watch |
| watch (`core/watch.ts`) | timer, queue, fingerprints already shown | `schedule`, `queue`, `pump`, `runCycle`, `stop` | file system, orchestrator, heal, dev server |
| plugins and hook (`plugins/*`, `hooks`) | a child process and its channel; a managed block of `pre-push` | spawn and kill a scan; decide on a push; install and uninstall | the scan, git, Vite, Next.js |
| swarm (`core/swarm.ts`, `classifier.ts`) | mission queue, lanes, contexts, findings per page | `buildCatalogMissions`, `runPool`, capture, merge, collapse | browser, telemetry |
| page and behaviours (`core/agent.ts`, `recorder.ts`, `domWalker.ts`, `keyboardWalk.ts`, `observe.ts`, `fuzzer.ts`, `httpFuzzer.ts`) | a tab, a ring buffer of recorded steps, queue and visited set of a walk, the endpoints of a storm | record, walk, tab, observe, fuzz, send requests | browser |
| state graph (`core/graph.ts`, `mapper.ts`) | nodes, edges, a heap of edges to run | map an app, choose the state to seed missions with | browser |
| uploads and ingest (`core/telemetry`, `core/cloud`, `server/*`) | envelopes in flight; a JSON file per run and per fingerprint | submit, flush, record, read | each other, over HTTP |
| orchestrator (`core/orchestrator.ts`) | findings and verdicts of one run, `events.jsonl` | `run()`: swarm, fuzz, repro, heal, upload | all of the above |
| reproduction (`minimizer.ts`, `validator.ts`, `replay.ts`) | a replay budget, a browser | minimize, validate, replay | browser |
| hypothesis discovery (`core/hypothesis/*`, `llm.ts`) | a ledger of spend; states, attempts and reports of an arm | propose, bind, run, replay, judge, report | model provider, browser |
| invariant discovery (`core/discovery/*`, `core/invariant.ts`) | rules read from program text, a page that is driven | collect, infer, plan, bind, drive, replay, judge | browser, git |
| MCP server (`src/mcp`) | sessions of scans and heals, a promise chain, booted servers | negotiate, scan, audit, repro, fix, cancel, close | an editor |
| studio (`studio.ts`) | an offset into `events.jsonl` | tail the log | a browser tab |

`PROJECT.json` lists every component with what is modelled of it, and every
hazard of the code with the property that is about it.

What is hard here, and what the properties are for:

- **Memory against crashes.** Patrol changes three things that must agree: its
  memory, the user's clone and GitHub. A crash can fall between any two.
- **Shared caps.** One budget is spent by several heals of several cycles; one
  fix cap is spread over batches, while only successful publications count; one
  ledger guards calls whose cost is known only afterwards.
- **Half-done sequences.** checkout, add, commit and pull request may each
  fail, and the next publication starts from what the failed one left.
- **Several callers of one `close()`**, some of which exit the process when
  theirs returns; and parents that die before the scan they started.
- **A debounce timer that holds state** of its own.
- **Work nobody awaits**: source lookups that answer after their mission,
  lanes that run on after their pool has rejected, heals whose request was
  cancelled and which write all the same.
- **Merging in arrival order**, in two passes with different ideas of which
  finding is the better one.
- **Answers that race their timeout**, and a store of several files written
  one after the other.
- **Pages that move while they are read**: a click reveals controls or leaves
  the page under a list of controls; a list is rendered anew between choosing a
  row and acting on it; an update lands after the reading.
- **Verdicts from a model or a single observation**: what is called a finding
  must have been seen again from a known state, and what is called refused must
  not be a control that does nothing.

## 2. The modules

| Module | Models | About |
|---|---|---|
| `Patrol`, `MCPatrol` | the patrol loop, its memory, the clone, git and gh | core of the project |
| `HealContract` | what the callers of `heal()` may assume | abstract specification |
| `Heal` | one call of `heal()` in detail | implements `HealContract` |
| `DevServer` | who starts and who stops the dev server | extended by `Watch`, `Push`, `Serve` |
| `Watch` | the watcher over `DevServer` | instance of `Serve` |
| `Install` | the pre-push hook and the editor's configuration on disk | extended by `Push` |
| `Push` | a git push and the dev-server plugins, with the scan they spawn | instance of `Serve` |
| `Serve` | one process with its server and whoever started it | composition |
| `Roster` | allocation of missions to roles, pure operators | used by `Swarm` |
| `Swarm`, `MCSwarm` | pool, contexts, capture, merge | detection |
| `Site` | an app, the tab that shows it, the recorder | extended by the crawlers |
| `StateGraph` | nodes, edges and the heap of edges, by its sift operations | used by `Mapper` |
| `Mapper` | `buildStateGraph` | part of `Crawl` |
| `Walker`, `Fuzzer`, `Storm` | `walkDom`, `keyboardWalk`; `observe`, `fuzz`; `httpFuzz` | parts of `Crawl` |
| `Crawl`, `MCCrawl` | a scout, then a mission on a page of its own | composition |
| `Ingest`, `MCIngest` | uploading scans and the server that stores | two processes and a network |
| `Repro` | `minimize()`, `validate()`, the replay engine | extended by `Pipeline` |
| `Pipeline`, `MCPipeline` | one `run()` after detection | composition over `Repro` |
| `Ledger` | the transports of `llm.ts` and the ledger of spend | used by all three arms |
| `Experiment` | one hypothesis run, judged, replayed | used by two arms |
| `Discover`, `Investigate`, `Baseline` | the batch pipeline, the investigation loop, the baseline agent | the three arms |
| `MCDiscovery` | a process that runs one arm on one ledger | composition |
| `Evidence`, `Infer`, `Plan` | program text, the rules it states, the tests of a rule | pure operators |
| `Entities` | which regions of a page are one thing | pure operators |
| `Rules`, `MCRules` | one rule driven on a page that moves | composition over the four |
| `Mcp` | the stdio MCP server and its editor | two processes |
| `PatrolProofs`, `PipelineProofs`, `DiscoveryProofs`, `SwarmProofs`, `CrawlProofs`, `RulesProofs` | theorems about the module they are named for | section 5 |
| `ProcessProofs` | theorems about `Heal` and `Serve` | section 5 |
| `ServerProofs` | theorems about `Ingest` and `Mcp` | section 5 |

Names of actions and operators are the source's where there is one
(`flushTelemetry`, `mergeFindings`, `effectiveBudget`), and `PROJECT.json`
`map` gives the lines of each. An operator whose comment begins with "Variant:"
is not part of the specification: it is the changed form of the definition
after it, used to see that a property notices such a change.

### Patrol

`pc` is the place in `patrol()`'s loop. A cycle is `BeginRun` (skip set from
`isHandled`), `Detect`, one `HealOne` per target, `MarkAndSelect` (marks of
failed attempts, `slice` to the room left under the fix cap), then for each fix
`Apply` or `ApplyConflict`, `Record` (the GIFs that go with the fix), `AlreadyOpen`
or `CreatePr`, `StageFix`, `Commit`, `PrCreated`, with `GitFails` and `GhFails`
at the commands, and `EndCycle`, `Save`, `Wake`. Batch mode collects `landed` and
publishes it at once. `Hang` is a command, a recording or a `run()` that never
returns: none of them has a limit.
`mem` and `disk` are `PatrolState` and its file, entries with an age in ticks
up to the cooldown. The clone is a set of uncommitted changes, a set of staged
ones, and HEAD: on `main`, on the user's branch, detached (`Starts`, `home`) or on
a fix branch, with what it has beyond the place the user left. A change belongs to
a file, and `git add` of a file takes every change of that file, `git commit` the
whole index, so also what the user had staged. `CurrentBranch` is
`currentBranch()`: the name of the branch, `HEAD` when detached, `main` when
rev-parse fails; `Back` is where a checkout of that name leads, and `ReturnHome`
may also fail without a word, as `safeCheckout` does.
`Crash` may come anywhere, also inside the write of the file (which leaves
nothing readable, as `read()` treats a broken file) and inside `createPr`
(which leaves HEAD on the fix branch). `gh pr create` may fail before or after
GitHub has taken the request. `run()` is its effect: some of the bugs are found
and reproduced, or it throws.

### HealContract and Heal

`HealContract` is a machine of two actions: pay for one generation, never from
an empty budget and at most once per tier; finish with a status that is
truthful about the payments. Its two callers, `Patrol!HealOutcome` and
`Pipeline!HealOutcome`, take the whole call as one step of this contract.

`Heal` has every early return and every way to throw: the worktree, generate,
gate, compile, test, serve, replays, judgement, the consensus of several
survivors, the artifacts, the `finally`. A patch is named by the tier it came
from, so "which patch is in the worktree, in the `.patch`, in the `.json`, in
the result" are comparisons of tiers: the `.patch` is the diff of the worktree
after the loop (`HandOff`), so the tier that wrote last. A replay that was not
answered with a success still collects what the page shows (`Replay`).
`Outcome` maps its state to the contract.

### DevServer and Watch

The server is a process group that may ignore SIGTERM; `source` tells whether this
process booted it. `Close(c)` is one call of `close()`: the first one of a booted
server runs `killTree`, which asks, waits, escalates (`Escalate`) and returns when
the group is gone or has been sent SIGKILL (`KillTreeReturns`; the result of its
last wait is not looked at); later ones return at once, and each caller exits the
process when its call has returned, whatever another has under way (`CutShort`).
`Handle` uses up a `once` handler, a signal without one kills the process. `Watch`
extends it with the timer and the files the timer has captured, the queue, the
pump and the steps of `runCycle`. A queue is its files and the one that came
first, because the first sets the intent and the scope of the cycle that takes
them all (`scope`); `fate` only observes what becomes of the file saved last.
`Hang` is a cycle that never comes back from `run()` or `heal()`. With the host
`run` (`patrol` behaves alike) the same server is that of a one-shot command.

### Install, Push and Serve

`Install` is what aztrx writes into files it shares: the `pre-push` hook, ours,
somebody's or a mixture, in the directory of git or of husky, and the
configuration of an editor with its one backup. `Push` is whoever spawns a scan.
A push is `PrePush` (which of its refs are scanned is `Scans`: what cannot be
compared is looked at), then a race of `ChildCloses` with `HookTimesOut`; a
plugin is `Listening` or `Register` and `Served`, then `ServerCloses`. The child
is the server of `DevServer` with what a child has in addition: the channel to
its parent, which it watches only once its target is resolved, and the document
it prints. `ParentKilled` may come at any moment.

`Serve` is one process, with the watcher's state if a terminal has started it
(`Typed`) and the parent's if it was spawned; the two are instances over one
set of server variables.

### Roster and Swarm

`buildCatalogMissions` is a pure operator: weighted shares, remainder, and the
interleaved queue. `Swarm` runs that queue on lanes. A mission opens one
context, a race two, one after the other; it settles, throws, or never opens.
Its findings are captured while it runs and located when the lookup answers,
which may be after the mission is over. The callback's `finally` logs an
episode, or throws and takes the pool with it. `Report` is what
`collapseSignals(mergeFindings(...))` returns for the results in the order they
were set; it is a function of the state, read once the browser is closed.

### Site, StateGraph, Mapper, Walker, Fuzzer, Storm and Crawl

`Site` gives an app as data: the controls of each URL, when they show, where they
lead or what they change or fetch, and whether that comes late (`Arrive`). The tab
has the page, the URL that was last recorded (`lastNav`, by which the listener
drops the second `framenavigated` of a pair), what the page fetched and the
recorder's ring buffer (`Record`). A control has an identity (`id`), the label by
which mapper and keyboard walk tell it from another (`name`) and the selectors by
which `walkDom` does (`sign`); two controls may share either, as the rows of a
list do, whose siblings `cssPathOf` never numbers. `StateGraph` has the heap as
the code has it, an array with sift operations; a node is what `signatureOf` keeps
of a snapshot. `Mapper` is the loop of `buildStateGraph`, which restores a state
by its URL. `Walker` has one action per await of `walkDom` and `keyboardWalk`: the
handles taken by `$$` are kept as a list of controls and can be stale by the time
each is clicked; `Fuzzer` has the turns of `observe` and `fuzz`. `Storm` is
`httpFuzz`, a behaviour of its own or the end of every other one: it collects
endpoints in three steps, from what the listener saw, from what the document
fetched and from its links, and sends one request a step. `Crawl` puts a scout and
a mission behind each other, as State-Graph mode does, or has a mission alone.
`Hang` is a page that never answers what is evaluated in it, a query for elements
or a key. `owed`, in `Walker`, and `asked` and `broken`, in `Storm`, only observe.

### Ingest

A scan submits uploads without waiting, and before it exits awaits first the
telemetry, then the cloud queue; each request is aborted after two seconds.
The server refuses unknown keys and schemas, and records synchronously: one
recording at a time, each write a temporary file and a rename, a crash between
any two of them. A request whose client has given up is carried out all the
same. A run is one record and then one file per finding.

### Repro and Pipeline

What a replay shows is decided by the `oracle` of a finding: the sets of steps
that make the bug show, and whether it always does. The program sees only the
answer of one replay at a time. `AfterSanity` and `AfterCut` are `minimize()`:
`at` is the number of chunks and the start of the next one, `budget` the replays
that are left, `current` the history so far; a cut that still fails starts over
at two chunks. `AfterRun` is `validate()`. `Replay` is a call of the engine that
returns, `Retry` its first attempt that throws (the browser is dropped), and a
second one ends in `GiveUp`.

`Pipeline` takes the crash and error findings that have a history through
`NextRepro` (or `StaticRepro` for a secret, which is never replayed),
`ReproConcluded` or `ReproFailed`, `CloseEngine`, `HealOne`, `Prove`,
`WriteReport` and `Return`, and keeps the run log. `RunHangs` is a walk, a replay
or a heal that never returns: a recorded request is sent again by a `fetch` in the
page, which waits for its server without a limit. A throw inside the
handler of a failed reproduction (`ReproThrows`) still passes the `finally`.
`spent` and `paid` only observe.

### Ledger, Experiment and the three arms

`Ledger` has the transports and how one is chosen (`TransportOf`), the answers of
each and what they report of their cost (`Asked`, `AskedTools`); a request may
cost `Under` more than its estimate. `Experiment` runs a claim in a fresh session:
the app breaks the claims in `bugs`, a dependency may fail once, and what a run
leaves in the app stays for the next one unless a reset is given. `Discover` takes
one reply of hypotheses through parsing, ordering (ties by `localeCompare` of the
ids, `Spelled`: h10 comes before h2), near-duplicates and two caps; `Investigate`
is observe, propose, bind, execute, judge, extend, with every reason to stop;
`Baseline` is a model with tools. Each may `Hang` where it evaluates in a page,
counts elements or presses a key. `MCDiscovery` runs one of them on a ledger.

### Evidence, Infer, Plan, Entities and Rules

The first four are pure operators. `Evidence` collects text from the page, the
repository and the diff under their caps; `Infer` reads numeric rules and
transition tables out of it, merges copies and cuts to the budget; `Plan` turns
a rule into tests; `Entities` decides which regions of a list are about which
thing and under which identity one is found again. `Rules` carries one world
(texts and an app that does as they say, or not) through them: `PlanNext`, the
two bindings, `DriveNumeric`, or `PickEntity`, `ReadFirst`, the setup (`LocateStep`,
`ClickStep`, `Settle`), the move (`LocateMove`, `ClickMove`) and `ReadOutcome` for
each test, each of which can read a wrong, a late or a missing value. An attempt is
two calls, as in `attempt()`: the first tags the node of the control, the second
clicks whatever that node is by then.
`Rerender`, `Land`, `SomebodyElse` and `PageCloses` are the page's own steps and
may fall between any two of the driver's. A rendering keeps a tagged node with its
entity, drops it, or reuses it for the entity that is in its place (`astray`).
`Conclude` is the verdict with the witnesses that vouch for a refusal. `noise`
counts what can mislead a reading: a late answer, a move of somebody else, a
rendering that reuses a tagged node, and one under an identity which a value of
the position can confirm (`OwnIdentity`).

### Mcp

A call goes from `Send` over the promise chain to `Settle`. `queue` is the chain
with the running work first; `Boot`, `Booted`, `Release` and `Released` are the
server a scan needs, known to `closeAll` (`open`) only once it answers. A heal is
cached by scan and finding, `hand` is the result a handler works with; `FinishFix`
writes to the tree. A file (`tree`) is the list of what was done to it, and a
patch matches the file it was just written to if what it puts in contains what it
looks for (`Matches`). `Hangs` is a `run()` or a `heal()` that never returns and
keeps the chain behind it. Each finding has a file of its own; the patch of
another one is an `Edit`. `Cancel` makes the client forget a call that goes on.
`Stop` is the end of stdin, after which `closeAll` asks each group to go
(`GroupGoes`: it went, or was sent SIGKILL) and the process exits; what is at work
runs on meanwhile. The client's versions and era are chosen at the start.
`driving` only observes.

## 3. The runs

Several properties are conjunctions of named parts, which their comments
explain; the parts are given in parentheses.

| Run | Instance | What it shows |
|---|---|---|
| `patrol` | two bugs in files of their own with their GIFs, user work in a third, staged or not; a loop with room for one fix, a pass that publishes a batch of two; HEAD on a branch or detached; budget 2, one tier per heal, cooldown 1 | `CapsHold` (`FixCap`, `SpendCap`), `SavedWhileAsleep`, `PublishedIsFinal`, `HeadRestored`, `PrCarriesItsFixes`, `ScopedStaging` |
| `patrol_liveness` | one bug, all four combinations of `--once` and `--batch`, HEAD also on `main`, two tiers per heal, cooldown 2 | `PassEnds`; `UnfixedIsRetried` |
| `heal` | up to two paid tiers and a rule tier, two replays per tier, budget up to 2, patch sizes 1 and 2 | `HandedOffIsVerified` (`HealedIsVerified`, `WinnerIsSaved`, `PatchIsLastWritten`), `SandboxRemoved`, `ImplementsContract` |
| `watch` | module `Serve`: `run` and `watch` from a terminal with two files, two bugs and three saves; hook, Vite and Next.js with pushes of five kinds of refs | `ReleasedServerGoes` (with `ClosedMeansKilled`), `WatchKeepsUp` (`QueueIsServed`, `NothingSilenced`), `PushIsJudged` (`SkipIsSafe`, `BlockedByCrashOnly`), `NewestIsAudited`, `AbandonedScanEnds` |
| `swarm` | two lanes, one to three missions over a race role and a solo role, three fingerprints of two faults | `MissionsAccounted` (`MissionsAnswered`, `ContextsAreReturned`, `InterruptedSamplesAll`), `NothingHangs`, `NothingLostInMerge` |
| `ingest` | two scans with one fault in common, an episode, a tuple and two runs; the server knows both keys or one; one crash | `StoreIsTruthful` (`CountsMatchRuns`, `SilentIsStored`), `ScansExit` |
| `pipeline` | two findings; the first with 1, 2 or 4 steps and each kind of oracle, stable or flaky; 12 replays to minimize, 3 to validate; budget 2 | `VerdictsAreRight` (`ReproShowsTheBug`, `NothingToCut`, `StableIsDeterministic`), `EngineIsClosed`, `LogTellsTheRun`, `RunComesToEnd` |
| `discovery` | the three arms; one documented and one generated claim, cap 5, underestimate 1, two iterations, two states, up to ten accepted hypotheses, some of which compete for one place and tie | `SpendUnderCap`, `FindingsHold` (of both arms that have findings), `ReportsAddUp` (`BooksBalance`, `NothingDropped`, `MetricsAddUp`), `EndsByItself` |
| `rules` | a fee rule, a state machine and one with an idle move, in served, repository and changed text; pages with one order, one shown twice, two or three orders told apart by one slot or two, by values of their own or of the position | `FindingsAreReal`, `PreservedIsVouched`, `SameEntity`, `ChangedComesFirst` |
| `mcp` | three calls, one finding, one kept scan, patches that match again and patches that do not, clients of both eras and of old, new and foreign versions | `TreeMatchesAnswers`, `WalkedServersAreGone`, `CallsAreAnswered` |
| `crawl` | a shop with a login, a manual with late links, a form with a focus trap, controls with a selector or a label in common; walk, keyboard, observe, fuzz, with and without a scout, chaos, dry run; storms alone and after a mission | `NothingIsMissed` (`ControlsAreTried`, `LinksAreFollowed`, `EndpointsAreTried`, `StormIsTame`), `TraceSaysItsPage`, `GraphIsSound` (`RiskiestFirst`, `KillChainLeads`, `SeedIsRichest`, `EdgesRunOnTheirPage`), `CrawlEnds` |
| `crawl_denied` | the keyboard missions of `crawl` | the finding of section 4 |

Why these bounds are enough for the cases they are for:

- Two bugs are needed for a batch, for a batch of another composition, for a
  cap that cuts a selection and for a fix that is still in the tree when the
  next is staged; no property relates three. Budget 2 with one tier per heal has
  two heals that share it and a third that finds it spent; two tiers, in the run
  of one bug, have a heal that stops in its middle. Sessions
  and cycles are not bounded: the state is finite without a limit on them,
  because `age`, `charged` and `sessionFixes` are bounded by the caps.
- Two paid tiers and a rule tier give an earlier winner, a later failure and a
  later winner; two replays give a mixed result; sizes 1 and 2 a better and a
  worse survivor.
- Three saves over two files give a replaced timer, a save during a cycle and
  the follow-up, and a file that has to wait behind another. The watcher has no
  other counter. The five kinds of refs are
  those `decidePush` tells apart, and every set of them is pushed.
- Three missions on two lanes give a lane that takes a second mission; a race
  role gives two hands; signals are limited by the size of the swarm
  (`MCMaxSignals`), so that one mission has three of them, enough for a
  repeated fingerprint and a second fingerprint of the same fault, while the
  larger swarms have enough for one fault met by two missions.
- One crash of the server in two scans reaches every pair of adjacent writes.
- Four steps are the shortest history with chunks of two sizes (halves, then
  single steps) and a start over; the oracles need one step, steps in different
  halves, three of four, and one is not monotone. Twelve replays let most
  searches finish and cut off the longest ones (with flaky answers), so both
  ends of the search occur. Three runs are the default of `validate()` and give
  all three verdicts.
- Discovery: a cap of 5 is crossed in the middle of each arm; two iterations
  give a second one that repeats, extends or blames the first; `MaxNoPlan` is 2
  (3 in the code), `MaxExperiments` 1, so that a queue is cut with hypotheses in
  it. The baseline has four turns and three invalid calls in a row.
- Rules: the caps of the code are cut to where they bite: three scripts (8),
  one file of the diff (40), two of the repository (300), two candidates (6).
  Two disturbances (`MaxNoise`) and one re-rendering (`MaxRerenders`) may fall
  between any two steps. A violation is believed only if it repeats, so one
  disturbance is the most `FindingsAreReal` claims anything for, as in the code's
  own argument; with two of them TLC finds a false one. A refusal is not repeated:
  `PreservedIsVouched` is about runs without a disturbance.
  Worlds with three orders are for identities that follow the position.
- MCP: three calls are a scan, a fix of it and one that gets in between, or two
  fixes of one finding behind a scan. One record (8 in the code) makes the
  second scan evict the first.
- Crawl: the recorder's buffer holds 6 steps (25 in the code), so that it
  overflows; one page load may fail (`MaxLosses`); five states (20), four
  actions per state (8), a queue of two pages (20) and six tabs (60) are few
  enough for each cap to bite on one of the apps; a mission has 6 actions, a
  fuzzing one 3. With a storm it has 9: more requests than the storm after a
  walk of the shop makes, fewer than one with mutations would. One request
  stands for all of its kind.

The largest is `rules` with four million states, then `discovery`, `crawl` and
`mcp`. Deadlock is checked for the runs of patrol, which never stops, and of the
crawls, whose end is the step `Over`. The other systems end (the process exits,
`heal()` returns), so their configurations say `CHECK_DEADLOCK FALSE`;
`NothingHangs` says of the swarm that it stops nowhere but at its end.

### Fairness

What has no limit in the code is allowed to hang in the models: there is a step
that stops the process for good (`Hang`, `Hangs`, `RunHangs`), which may be taken
wherever the code awaits something that nothing bounds, and the fairness is of what does
not hang. The liveness properties name that end beside the others. What they rule
out is a loop that goes round for ever and a wait for something that will not come.
Nothing bounds `page.evaluate` and `count()`, a key press, a query of the page, git,
gh, `run()` and `heal()`; the requests to a model end by the defaults of the HTTP
client alone.

- `Patrol`: weak fairness of the loop's own steps and of the clock.
  None of the interval timer (`Wake`), of a restart or of a closed pull request.
- `Serve`: weak fairness of the watcher's steps together (the event loop
  delivers timers and continuations; the timer is continuously enabled once the
  saves stop), of the parent's reaction to its child or its timer (`Decide`),
  and of the child's signals, its loss of the channel and the ends of what it
  closes (`Closing`); and of `killTree` and of what signals do to a group
  (`Killing`), as long as the process runs. None of saves, of signals from outside,
  of a server nobody has asked to stop or of the end of a walk.
- `Pipeline`: weak fairness of the steps together: the run is one chain of
  awaits, each of which is answered, throws or hangs. Nothing is assumed of what a
  replay shows.
- `Ingest`: weak fairness of each scan and of its abort timers; nothing is
  assumed of the network or of the server, so `ScansExit` holds against a server
  that never answers.
- Discovery: weak fairness of the arm's steps together, one chain of awaits.
- `Mcp`: weak fairness of the steps of the handlers (`Work`), not of the client. A
  boot and a close have limits of their own. One call that hangs keeps every queued
  one behind it, which `CallsAreAnswered` says.
- `Crawl`: weak fairness of the crawlers' steps, none of late navigations. It is
  written as `[]<>~Running \/ []<><<Scout \/ Mission>>_vars`, because `ENABLED`
  of steps with the loops of the heap is more than TLC can evaluate; that a
  running crawler has a step to take is what the check for deadlocks shows.
- `Rules` states weak fairness of its steps and has no liveness property;
  `Swarm` and `Heal` state none.

## 4. Findings

A finding is a run with one property, which states what the repository says,
and which TLC finds violated by what the code does.

`crawl_denied`, `DeniedAreRefused`: README:34 and 378, `cli.ts:344` and
`STARTUP.md:156` say that destructive controls are not activated without
`--allow-destructive`. `keyboardWalk.ts:166` presses Enter on whatever has the
focus and has no deny-list; a keyboard mission tabs to such a control and
activates it, which is what the run's trace shows: it has keyboard missions only.
The fuzzer's keys (`Fuzzer!FuzzKey`) go the same way.

Seen in the models, without a run of their own:

- Patrol: the exit on a spent budget comes before `state.save()`
  (`core/patrol/loop.ts:262`), so the next session starts without the marks. In
  batch mode a bug with an open request may get a second one, because the check
  asks for the branch of the exact set of fingerprints (`core/patrol/pr.ts:106`).
  A pr-opened mark never expires (`core/patrol/state.ts:62`): a bug whose request
  was closed unmerged is not looked at again. `README.md:376`, `loop.ts:10` and
  `pr.ts:8-10` say that a request carries only the files of its patch and that the
  user is brought back to their branch. It also carries the recorded GIFs and
  whatever the user had staged (`ScopedStaging` says so, and that there is nothing
  more). From a detached HEAD `git checkout HEAD` moves nothing, so the user stays on
  the fix branch; after a rev-parse that failed they are on `main`; and a checkout
  that fails is swallowed (`pr.ts:121-132`, `HeadRestored`). git and gh run without a
  limit.
- Heal: "the winning — or last — attempt only" (`core/heal/index.ts:395`): the
  `.json` is the attempt that was saved, the `.patch` the diff of the worktree after
  the loop, under consensus thus a later tier's, whatever became of it
  (`PatchIsLastWritten`). Under `AZTRX_CONSENSUS` a
  later tier whose app does not boot throws the winner away
  (`core/heal/index.ts:350`). A copy that fails half way leaves its directory
  (`core/heal/sandbox.ts:81`). The readiness poll may be answered by another
  server (`core/heal/boot.ts:203`).
- Dev server: "does not return until the group is actually gone"
  (`core/heal/boot.ts:137`): the last wait for it is not looked at
  (`boot.ts:159`), so `close()` may return after SIGKILL was sent and before the
  group has gone (`ClosedMeansKilled`). A second `close()`, called harmless in
  `core/devServer.ts:209`, returns at once and its caller exits the process, before
  the first one has escalated: a server that ignores SIGTERM stays (`CutShort`). A
  refused option exits past the function that releases a booted
  server (`cli.ts:448` and `826`; action `ExitWithoutClose`); so does a Ctrl+C
  during the boot, before the handlers are armed (`core/devServer.ts:274`).
- Watch: a new debounce timer drops the files the old one held
  (`core/watch.ts:199`). A cycle takes the whole queue and audits for the file that
  came first (`core/watch.ts:86` and `122`); one that had to wait behind it is named
  in the output and not audited, so `NewestIsAudited` is about a file that found the
  queue empty. A cycle that finds no server or fails drops its files.
- Swarm: collapsing keeps the first location also when the other finding was
  chosen for its own-code location (`core/classifier.ts:231`).
- Orchestrator: the regression test of a healed finding is generated outside the
  session budget that the documentation calls a hard cap
  (`core/orchestrator.ts:552`).
- Hook: a hook that gives up while its scan boots a server leaves that server
  running (`HookTimesOut` before `Resolved`; `plugins/scan.ts:48` says nothing is
  left, and that a scan is torn down on every exit path: a process that exits
  without a `close()` or whose `close()` is cut short is not, as `AbandonedScanEnds`
  says). The scan is of the working tree, not of the commits that are pushed.
  An empty `AZTRX_HOOK_TIMEOUT` is a timeout of zero. `install --force`
  overwrites a foreign hook without a backup, and a hook that has our block
  among other lines counts as ours.
- MCP: a heal that is asked for twice before the first is cached is paid for twice
  (`mcp/tools.ts:747`). A server that is still booting when the editor goes away
  is not among those `closeAll` knows (`mcp/tools.ts:545`). A heal that gave up is
  cached like one that succeeded, for as long as the scan is kept. A fix from the
  cache writes outside the queue; a cancelled one writes as well. A patch that
  puts in what it looks for (a guard before a line) still matches after it was
  applied (`core/heal/sandbox.ts:110-133` asks for one occurrence), so that a
  second fix from the cache writes it again and answers "applied" too
  (`TreeMatchesAnswers` allows that case and no other). One `run()` that hangs
  blocks every call behind it (`mcp/tools.ts:553` and `769`).
- Orchestrator: a replay sends recorded requests again by a `fetch` in the page
  without a limit (`core/replay.ts:87`), also one that the storm aborted after 8
  seconds and recorded: a run with `--http-fuzz --repro` can hang (`RunHangs`).
- Discovery: an update slower than the two waits of a driver is read too early
  in both runs and reported (`discovery/drivers.ts:159`); it is two late answers
  in the model. A move that the text declares as idle vouches for a refusal
  although its control may be dead (`discovery/plan.ts:125` against
  `runtime.ts:262-267`; `Idle` in `PreservedIsVouched`). "The same entity or nothing"
  does not hold where only a value of the position confirms an identity
  (`discovery/entities.ts:255` and `263`): another row in its place then passes for
  it; nor between tagging a control and clicking it (`discovery/drivers.ts:598-612`),
  where a list that reuses its nodes has another row clicked (`astray`). A false
  "violated" takes two such accidents, since a violation is repeated; a false
  "preserved" takes one. More changed rules than the
  budget holds are cut like any others (`discovery/infer.ts:427`). A dry run
  leaves its dialog handler in place (`discovery/runtime.ts:185`).
- Crawl: a button that leads away ends the walk of its page; controls that a hash
  link reveals in place are not tried; pages of other origins that a click led to
  are queued; the mapper restores a state by its URL alone, without its storage;
  two controls with one label are one to it, and to the keyboard walk, which takes
  one that comes four times in a row for a trap; "already acted on this element"
  (`domWalker.ts:168`) is decided by its selectors, and `cssPathOf` compares
  `tagName` in another case (`recorder.ts:82`), so the buttons of two rows with
  one text pass for one and the second is never tried; `page.$$` in the fuzzer has
  no guard against a page that navigates. Of the URLs of one path a storm keeps
  the first (`core/httpFuzzer.ts:138`): where that one had no query, the keys of a
  later one are never rewritten, so `EndpointsAreTried` asks for one kind of query
  or the other.

## 5. The proofs

Each theorem follows the same plan: the initial states satisfy an inductive
strengthening, one step per action of `Next` preserves it, it implies the
property, and the last step joins the three in temporal logic.

`PatrolProofs`, for any set of bugs, any assignment of files, any caps, modes
and cooldown that satisfy the assumptions of `Patrol` (the bugs are finitely
many and the user's work is not one of them; caps are natural numbers, the
cooldown is positive; modes are records of the flags):

| Theorem | Strengthening |
|---|---|
| `TypeCorrect` | `TypeOK` is inductive; `staged \subseteq dirty` is part of it |
| `CapsHoldHolds` | from `FixCapHolds` by `CapInv`: what is in hand (`toFix`, `landed`) already counts against the cap; and `SpendCapHolds`, inductive with `TypeOK` |
| `SavedWhileAsleepHolds` | `SavedInv`: memory and file agree in every phase before the first mark |
| `PublishedIsFinalHolds` | `PublishedInv`: the skip set of a scan contains every published fingerprint |
| `HeadRestoredHolds` | `HeadInv`: what `createPr` remembers is where HEAD was when it began and the name git gave for that; where HEAD can be from there, for each history of `strayed` (`Restored`) |
| `PrCarriesItsFixesHolds`, `ScopedStagingHolds` | `StagingInv`: each fix in hand is uncommitted, or on the branch; what HEAD has gained since `createPr` began belongs to files of the fix or of its recordings (`Own`), or was staged before, and all that was staged before is in the index or committed |

All but the first two conjuncts rest on `PhaseInv`: the locals of a cycle are
empty outside their phase and a fix is not both waiting and landed. It is what
makes the others inductive: without it, a state of phase `scan` with a leftover
`landed` would satisfy `CapInv` and break it with the next selection.
`ScopedStaging` and `PrCarriesItsFixes` are properties of steps; they follow
from the invariant in the state before the step, since only `PrCreated` and
`GhFails` open a request.

The module ends with the seam between the loop and `heal()`.
`HealIsTakenAtOnce` runs `HealContract` on the budget of a state of the loop,
with `HealCalls` as its number of tiers, and shows that whenever it has ended
its status, its payments and what it leaves of the budget are what `HealOne`
allows in one step. `PaidSoFar` is the invariant: the budget less the payments
is what is left. Together with `ImplementsContractHolds`, which is proved for
`Heal` on its own, it is why the loop may take a heal as one step. The same
seam of `Pipeline` is not proved: its `HealOutcome` also says that a session
without a model pays for nothing, which the contract leaves open.

`ProcessProofs`, of a heal, for any number of paid tiers, replays and generations
(`HealAssumption`: natural numbers, at least one replay and one size). One
invariant, `HealInv`, carries all three results; its parts are

- `Place`: where the loop is says whether the worktree and the server stand;
- `Seen`: the counters of `verifyFix` against the evidence of the replays, and
  no evidence of tiers to come;
- `Winner`: the winner so far was verified, and is what is handed off;
- `Money`: at most one generation per paid tier behind us, and what a status of
  `no-llm` or `budget-exhausted` says of the calls.

`HandedOffIsVerifiedHolds` follows from `Seen` and `Winner`, and for the diff from
`Written`, a second invariant on top of them: no tier overwrites the patch of a
later one, and without consensus nothing is written after a fix;
`SandboxRemovedHolds` from `Place`. `ImplementsContractHolds` is the refinement:
`HealInit` implies the contract's initial predicate under the mapping
(`Outcome`, `calls`), a `Charge` is its payment (`Money` gives its guard), the
step to a return is its end, and every other step stutters.

The same module, of one process and its server, for any hosts, files, bugs, other
processes, saves and parents that satisfy `HostsAssumption` and `ServeAssumption`.
`CloseInv` says that one caller kills, that no caller is counted twice, and that
the handlers of signals are armed in the phases in which they are; it is the
inductive part of `ClosedMeansKilledHolds`, the safety half of
`ReleasedServerGoes`. `WatchInv` ties the queue to the pump that serves it, and
what a cycle keeps quiet about to what was shown; `LinkInv` ties the verdict of a
push to the document its child has printed. The proof goes by the two halves of
`Serve`, each leaving the other's variables alone.

`PipelineProofs`, for any number of findings, histories of any length, any
oracles, budgets and number of runs that satisfy `ReproAssumption`.
`EngineIsClosed` is inductive as it stands. `ReproShowsTheBugHolds` rests on
`ShowsInv`: while a search runs, the steps that are left are the whole history
or were seen to fail; a hit that was counted has shown the bug with them.
`ReproShowsTheBug` alone speaks of finished reproductions only; `SearchInv`
carries the evidence from the replay that accepted a cut to the report. What a
chunk is does not matter to it: the proof never opens `Complement`.

It matters to `VerdictsAreRightHolds`, which adds that a stable bug is left no
step that could go and is called deterministic. Its invariant `RightInv` is
`Typed`, `Evidence`, `Reports` and `RunTypes`. `Evidence` says that with one
chunk per step every step before `at.i` was seen to be needed, so that the end
of the last pass makes the history `Minimal`, unless the finding is in `spent`;
that a bug which is `Certain` shows in what is left; and that each of its runs
is then a hit. `ChunkSizes`, `Cuts` and `NextCuts` are the arithmetic: a chunk
has a step, with as many chunks as steps it has only one, and then `Complement`
is the history without step `at.i + 1`.

`DiscoveryProofs`, for any claims, replies, bounds, cap and underestimate
(`LedgerAssumption`, `InvestigateAssumption`). `SpendUnderCapHolds`: what an
answer of any transport records is bounded (`CostIsBounded`), so recording it
after its guard keeps the cap (`RecordKeepsCap`); the ledgers of the instances
are the same one (`OneLedger`). `FindingsHoldHolds`: `ExpInv` says that a
violation seen once, from the app's starting state, is a bug unless the one
disturbance has been used up, and that one seen twice is a bug; each arm keeps
what its results say of it.

`ServerProofs`, of the MCP server, for any number of requests, findings and kept
scans (`McpAssumption`). `McpInv` is `Types`, `Stations` (a call boots nothing
before its turn, and only fixes are healed), `Ending` (`closeAll` knows of every
server that is walked, and waits for it) and `Writers` (a file is changed by the
calls that say so, once each, and by edits). `Writers` gives
`TreeMatchesAnswersHolds`, with the lists of changes of the files (`Signed`) and
with `Held` (what is cached, and what a handler works with, is the result of a
heal); `Ending` gives `WalkedServersAreGoneHolds`.

The same module, of the ingest server, for any scans, keys, crashes and scripts of
uploads with finite lists of fingerprints (`IngestAssumption`). `IngestInv` is
`Typed`, `OneAtATime` (an upload is on its way, then at work, then recorded, and
comes once), `Kept` (what was written stays written, and a reply or an `ok` is for
what is complete) and `Counting`. In the middle of a recording the count of an
issue is neither that of the runs with the upload nor that without it, and after a
crash it stays so; `Counting` bounds it by two sets of mentions, `AtLeast` and
`AtMost`, that both hold what the job has `Written`. The cardinalities are those
of `FiniteSetTheorems`: one write adds one mention to each set.

`SwarmProofs`, for any roster, any weights and budgets, any number of lanes, any
sizes, faults, root causes and severities (`RolesAssumption`,
`SwarmAssumption`), in two parts.

`MissionsAccountedHolds` is about the pool. `SwarmInv` is `PoolTypes`,
`CaptureTypes`, `LanesHold` (a mission that was taken and is not logged has a
lane of its own; the pool resolves when none has), `EpisodesTell` (a mission has
one result if it settled and none if it failed, and its episode says which) and
`ContextsAreReturned`. That an interrupted run has sampled every role rests on
how the queue is dealt (`QueueIsDealt`): slots of rounds are listed once, by
round and then by role (`RoundsAreListed`), so the first slot of a role is
preceded by first slots only and comes among the first missions.

`NothingLostInMergeHolds` is about two loops over lists of any length. The
provers have no induction over such loops, so it is done in first-order terms:
a set of numbers has a least one (`LeastExists`), hence a property that holds
before the loop and is kept by each turn holds after it (`Climbs`), and what
the recursive function of a loop denotes exists (`LoopsEnd` and the lemmas
`...Unroll(s)`). What each turn keeps is `Tells`: each finding so far has a group of
its root cause that is no weaker, each group has a finding it came from, and the
occurrences of each root cause are as many. It is kept by a first finding
(`FirstTells`) and by a joined one (`LaterTells`), for the fingerprints of
`mergeFindings` and the root causes of `collapseSignals` alike, and the groups of
groups tell of the findings (`TellsOn`). Occurrences are counted as the
cardinality of `Sightings`, to which one turn adds an interval.

`CrawlProofs`, for any apps, runs, capacity of the recorder, caps of the crawlers
and page loads that fail. `SiteAssumption` says what an app is: its pages, what
their controls lead to and the paths there are belong to it, and none has the
empty URL; its risks are numbers and the risk words of a label finitely many; a
run names an app, one of the five behaviours and a budget.
`WalkerAssumption` says that the queue has room for one URL, since the first page
is queued without a look at the cap. Nothing is assumed of how many pages an app
has, of what its controls do or of how late they do it.

`TraceSaysItsPageHolds` rests on `TabInv` of the mission's tab: `Tells` (each
action recorded has its navigation before it, or that was shifted out) and
`Follows` (the recording's last navigation is to the page, and `lastNav` is its
URL or no page was shown yet). The second is what makes the first inductive: the
listener drops the event of a URL that is `lastNav`, which loses nothing only as
long as the recording ends on it. A shift of the buffer takes the oldest action,
which is the navigation of those behind it or comes before that one
(`AppendTells`, `TailTells`). The scout's tab has no recorder (`Quiet`).

`NothingIsMissedHolds` rests on `CrawlInv`, whose parts are `TabInv` in `Placed`,

- `Owes`: a link that was met is visited, waits, or was turned away by a full
  queue; a crawl is done when nothing waits or its budget is spent;
- `Scanned`: the handles in hand are what a query of `scan.page` finds, and the
  page is that one unless a late control has come, after which nothing is to
  come;
- `Tried` and `Linked`: of what the first pass is past each has been acted on, or
  another with its selectors; what the second is past is met;
- `StormRuns`, `StormOwes`: a storm holds only what its options allow; what the
  page has asked for is collected, then waits as a request of its own, then was
  sent.

What a query finds is a loop over a list: `Those` is defined by a recursive
function, and `ThoseSays` says, by the way of the swarm's loops, that it keeps the
elements at the places given and no others. `RequestsAreBuilt` is the arithmetic
of the requests, several a path.

`GraphIsSoundHolds` is about the scout, in four parts, which `MapInv` joins.

- The heap (`PushKeeps`, `PopKeeps`). An array is `Ordered` if every entry comes
  after the one above it. While an entry rises it is so but for the place of the
  entry (`OrderedBut`), while one sinks but for those below it (`OrderedAbove`),
  and in both what is below the place comes after what is above it, without which
  a swap would break the order elsewhere. A turn of the loop keeps that and comes
  nearer to the end, or the order is restored (`RisenKeeps`, `SunkKeeps`), so the
  turns `SiftUp` and `SiftDown` have are enough. The numbers in `seq` differ, so
  of two entries one goes first.
- The walk (`WalkSays`). A call is `Truthful` if it answers with a way to the
  node, or has not met it; and, where calls may nest as deep as there are states
  not yet entered, if all that leads on from what it entered was entered. A level
  of calls has that from the one below it (`AlongKeeps`, `LevelSays`); at the
  root there are as many levels as states. A search that finds nothing has thus
  entered all that the root leads to.
- The graph (`IsGraph`). Every state but the root has an edge from one that was
  added before it, so the root leads to all of them (`AllIsReached`). That is what
  `addState` and `addEdge` make of a graph when the edge starts from a state in it
  (`GrownIsGraph`), and a candidate does. With the walk this gives `KillChainSays`
  and `AllAreVisited`; being richer is less of one number, so some state is the
  richest (`RichestSays`).
- The page (`OnItsPage`). If each page loads and none is late, the tab is on the
  page of the state whose candidate was popped, until the candidate is performed;
  `ScoutTab` says that nothing is to come on it meanwhile.

`RulesProofs`, for any worlds, slots and bounds that satisfy `WorldsAssumption`
and `SlotsAssumption`. A world is a program text with an app, and the assumption
says two things of it that matter to verdicts. Of the machine (`IsMachine`): a
state and a move lead to one state. Of the text: a table read from it is the
app's. Any value of a row may go with its position, and a move may be idle: what
that costs is in the properties, as `OwnIdentity` and `Idle`. Nothing is assumed
of what the app does besides: it may make moves the table leaves out, charge
another fee, offer a control or not, answer late. Drives, repetitions and
renderings may be interleaved with disturbances in any number; what the theorems
say of verdicts is conditioned on how many there were.

`Inv` has eleven parts. `SameEntityHolds` rests on `Identity`: what an identity says
of the slots that are the entity's own is so, and if it is an `OwnIdentity`, all
that was read, and all that was clicked but for a reused node, is the entity's. That
it is enough is `ResolveSays`: such an identity stands for no other row, whatever
is listed, so a rendering cannot break it. `Session` ties the session to it: a page
that is one thing stays as it is. `FindingsAreRealHolds` and
`PreservedIsVouchedHolds` rest on `Tried`: between the reading before an attempt and
the one after, the entity is where it was read to be, or where the app's move takes
it, or the one disturbance is `Spent`; the tagged node is its own meanwhile (`Held`).
`Steady` says the same of the identity, own or not: it still stands for the entity
(`Kept`), unless the one disturbance was the rendering that changed that.
`Repeated` is the argument of the source: a run is repeated only if it showed a
violation, so, of a rule the app keeps, only after the disturbance; and it is not
there to be had again. `Way` brings the app to the planned state, and `Seen` and
`Told` carry what was observed to the verdict. `OutcomeSays` and `FigureSays` are
the two places where an observation is judged.

`ChangedComesFirstHolds` is about what is inferred before the first drive, for any
texts, served or in the repository, and any caps on what is read
(`CapsAssumption`). Every copy of a rule is marked as changed exactly if the
chunk it was read from is of the diff (`EvidenceSays`, `AllReadSays`). Merging
loses no rule, and a merged candidate is changed if one of its copies was
(`MergeSays`, `MergedSays`): nothing outranks the diff, so a copy from elsewhere
never takes its place. The changed ones go to the front and the cap cuts the end
(`ChangedAreCandidates`), so either each rule of the change is a candidate, or the
budget is full of them; the run then attempts its candidates in order. The loops
are treated as in the swarm. What is assumed of a world is in `WorldsAssumption`:
its texts are lists of lines (`IsText`), and `news`, which names the new lines of
each file, is what `GitDiff` says of the repository, in no more files than it
reads (`IsRepo`). That a diff is parsed right is thus not proved: it is evaluated
by TLC on the worlds of the run, which satisfy the assumption.

Two more results rest on lists.

- `LogTellsTheRunHolds` (`PipelineProofs`): `LogInv` says that in every phase the
  log tells what was done up to now, and what is still before a loop comes after
  it. Loops go through the findings in their order; that there is one such order
  is `SortedExists` and `SortedUnique`, by the rank of an element in its set.
- `ReportsAddUpHolds` (`DiscoveryProofs`): `BatchInv` follows each accepted
  hypothesis to where it waits, was executed or is named as not run (the order it
  goes by is total, since no two ids are spelled alike); `Books`
  counts the results of the investigation by their status; `AgentInv` the turns of
  the baseline. That prioritizing loses nothing but what gives way to a
  hypothesis before it is `InOrderLists` and `FirstIsKept`.

Only model-checked, and why:

- every liveness property, and `NothingHangs` of the swarm: fairness and
  `ENABLED` are beyond the prover;
- the parsing of a unified diff (`ParseUnifiedDiff`, a fold that takes an
  operator), of which `IsRepo` is an assumption that the runs evaluate.

## 6. What is abstracted, and what is left out

Abstracted: texts, prompts, patches, pages and reports are model values, tiers
or fingerprints; names of branches are the sets they are computed from, so the
eight-character prefix that `branchFor` takes of a fingerprint is assumed
distinct; time is ticks up to the cooldown. A command that fails leaves what git
leaves: staged changes stay staged. A line of program text is a record of what
`Infer` reads in it; matching a control to a move is whether it is offered.
An app's controls, and how late they act, are given as data.

Within the modelled parts, not modelled:

- swarm: scope filters and the statistics of roles; the mission's login, race of
  two hands, coverage guidance, double click, select and the security audits;
- server: several organisations and the read routes;
- dev server: the port a server is found at when somebody else answers there,
  and Windows' way of killing a process tree;
- crawl: a cap on pages (there is none in the code, so apps are finite);
- MCP: the HTTP connector of `mcp-server`, which has no queue, resources, and
  eviction by age;
- discovery: the text of prompts, quotes and page readings.

Left out, with the reason in `PROJECT.json`: pure I/O (source maps, model
providers), formatting (reports, badges, the terminal interface), text matching
(intents, profiles, redaction), the studio, the web site and the benchmarks.

## 7. Plan

What would come next, in order:

1. `Studio`: the tail of a log that is truncated and appended to while it is
   read (`sseHandler` keeps one offset per client).
2. The security audits of `core/security.ts`, as pure operators on responses.
3. The HTTP connector over `Mcp`.
4. `fixPr.ts`, the git sequence beside that of patrol.
