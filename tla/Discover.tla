------------------------------ MODULE Discover ------------------------------
(***************************************************************************)
(* The batch pipeline (core/hypothesis/index.ts): one reply of hypotheses, *)
(* parsed without repair (generate.ts), ordered, cleared of near-          *)
(* duplicates, and run one by one under two caps.                          *)
(***************************************************************************)
EXTENDS Experiment, FiniteSets

CONSTANTS
  Raws,           \* hypotheses a reply may hold, by index: see Raw
  MaxExperiments, \* maxExperiments
  GenIn, GenOut   \* size of the request

VARIABLES
  pc, stopped,
  accepted,   \* hypotheses that passed validation
  generation, \* how generation ended
  queue,      \* ordered hypotheses still before the loop
  executed,   \* [id, claim, status]
  notRun      \* ids reported as not run

batchVars == <<accepted, generation, queue, executed, notRun>>
vars      == <<ledgerVars, expVars, pc, stopped, batchVars>>

\* What a hypothesis in the reply may be: its shape, the source it names, and
\* where its quote is really found.
Shapes == {"good", "malformed", "idle", "no snapshot", "dangling", "reflexive"}
Kinds  == {"doc", "test", "ui", "universal"}
Raw == [id : 0 .. 99, shape : Shapes, kind : Kinds, quote : Kinds \cup {"nowhere"},
        literal : BOOLEAN, claim : Claims, priority : Nat, key : Nat]

BatchInit ==
  /\ accepted = {} /\ generation = "call_failed"
  /\ queue = <<>> /\ executed = {} /\ notRun = {}
Init == LedgerInit /\ ExpInit /\ BatchInit /\ pc = "start" /\ stopped = "no"

\* parseHypotheses: a malformed one is dropped, never repaired.
Accepts(raw) == raw.shape = "good"

\* Those that are accepted are numbered in the order of the reply.
Replies ==
  {R \in SUBSET Raws :
     LET H == {h \in R : Accepts(h)}
     IN  /\ IsFiniteSet(R)
         /\ \A g, h \in H : g.id = h.id => g = h
         /\ {h.id : h \in H} = 1 .. Cardinality(H)}

\* A quote the inventory does not hold demotes the expectation to universal; a
\* universal one that quotes the project takes the source of its quote.
ExpectationOf(raw) ==
  IF raw.quote = "nowhere" THEN "universal"
  ELSE IF raw.kind = "universal" THEN raw.quote ELSE raw.kind

StatusOfReply(reply) ==
  IF \E raw \in reply : Accepts(raw) THEN "ok"
  ELSE IF reply # {} THEN "all_rejected" ELSE "no_hypotheses"

\* groundingOf: a stated requirement without an invented constant.
IsSpecified(raw) == ExpectationOf(raw) # "universal" /\ ~raw.literal

\* localeCompare on "h1" .. "h99": the place of an id among the strings, where
\* h10 .. h19 come between h1 and h2.
Spelled(id) == IF id < 10 THEN 20 * id ELSE 2 * id + 1

\* prioritize: highest first, ties by the spelling of the id; the first of
\* those with one property and one target stays.
Before(g, h) ==
  g.priority > h.priority \/ (g.priority = h.priority /\ Spelled(g.id) < Spelled(h.id))
\* Variant: the first of a kind is kept, whatever its priority.
KeptFirst(H) == {h \in H : \A g \in H : g.key = h.key => h.id <= g.id}

Kept(H) == {h \in H : \A g \in H : g.key = h.key => g = h \/ Before(h, g)}
InOrder(H) == CHOOSE s \in [1 .. Cardinality(H) -> H] :
                \A i, j \in 1 .. Cardinality(H) : i < j => Before(s[i], s[j])

-----------------------------------------------------------------------------
Inventory ==
  /\ pc = "start" /\ pc' \in {"generate", "thrown"}
  /\ UNCHANGED <<ledgerVars, expVars, stopped, batchVars>>

Prioritized(H) ==
  /\ accepted' = H /\ queue' = InOrder(Kept(H))
  /\ notRun' = {h.id : h \in H \ Kept(H)}

Generate ==
  /\ pc = "generate"
  /\ \E a \in Asked(GenIn, GenOut) :
       /\ Record(a)
       /\ IF a.says # "answered"
          THEN generation' = "call_failed" /\ stopped' = a.says /\ Prioritized({})
          ELSE \/ generation' = "format_error" /\ stopped' = "format_error" /\ Prioritized({})
               \/ \E reply \in Replies :
                    /\ generation' = StatusOfReply(reply)
                    /\ stopped' = IF generation' = "ok" THEN "all executed" ELSE generation'
                    /\ Prioritized({raw \in reply : Accepts(raw)})
  /\ pc' = "loop" /\ UNCHANGED <<expVars, executed>>

\* One turn of the loop: past a cap a hypothesis is listed as not run.
Take ==
  /\ pc = "loop" /\ queue # <<>>
  /\ LET h == Head(queue)
         capped == Cardinality(executed) >= MaxExperiments
     IN \/ /\ stopped' = IF capped THEN "experiment cap" ELSE "wall-clock"
           /\ notRun' = notRun \cup {h.id} /\ queue' = Tail(queue)
           /\ UNCHANGED <<exp, pc>>
        \/ /\ ~capped /\ Begin(h.claim, {}) /\ pc' = "run"
           /\ UNCHANGED <<stopped, notRun, queue>>
  /\ UNCHANGED <<ledgerVars, bugs, resets, app, accepted, generation, executed>>

RunExperiment ==
  /\ pc = "run" /\ (FirstRun \/ Replay)
  /\ UNCHANGED <<ledgerVars, pc, stopped, batchVars>>

Throw ==
  /\ pc = "run" /\ ExpThrows /\ pc' = "thrown"
  /\ UNCHANGED <<ledgerVars, stopped, batchVars>>

Keep ==
  /\ pc = "run" /\ exp.phase = "done"
  /\ LET h == Head(queue)
     IN executed' = executed \cup {[id |-> h.id, claim |-> h.claim, quote |-> h.quote,
                                    status |-> StatusOf(exp.outcome, IsSpecified(h))]}
  /\ queue' = Tail(queue) /\ exp' = Idle /\ pc' = "loop"
  /\ UNCHANGED <<ledgerVars, bugs, resets, app, stopped, accepted, generation, notRun>>

\* The report is written when the browser is closed.
Report ==
  /\ pc = "loop" /\ queue = <<>> /\ pc' = "end"
  /\ UNCHANGED <<ledgerVars, expVars, stopped, batchVars>>

\* The inventory evaluates in the page, and a step or a reading of the script
\* may wait for it without a limit.
Hang ==
  /\ pc = "start" \/ (pc = "run" /\ exp.phase # "done")
  /\ pc' = "hung"
  /\ UNCHANGED <<ledgerVars, expVars, stopped, batchVars>>

Next == Hang \/ Inventory \/ Generate \/ Take \/ RunExperiment \/ Throw \/ Keep \/ Report

Spec == Init /\ [][Next]_vars /\ WF_vars(Next)

-----------------------------------------------------------------------------
Done(h) == h.id \in {r.id : r \in executed}

\* Every accepted hypothesis is in the report once: executed, or named as not
\* run; and when no cap was met, only for one of the same property and target
\* that was executed and is worth no less.
NothingDropped ==
  pc = "end" =>
    /\ \A h \in accepted : Done(h) # (h.id \in notRun)
    /\ \A h \in accepted : h.id \in notRun =>
         \/ stopped # "all executed"
         \/ \E g \in accepted : Done(g) /\ g # h /\ g.key = h.key /\ g.priority >= h.priority

\* A finding is a claim the app breaks, under a quote the inventory holds.
FindingsAreReal ==
  resets => \A r \in executed : r.status = "finding" => r.claim \in bugs /\ r.quote # "nowhere"
=============================================================================
