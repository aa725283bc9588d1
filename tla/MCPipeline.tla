------------------------------ MODULE MCPipeline ------------------------------
(***************************************************************************)
(* Two findings.  The first has a history of 1, 2 or 4 steps, and one of   *)
(* each kind of oracle: a step that is enough, steps that are needed       *)
(* together, also far apart, one step that hides what another one does, a  *)
(* bug that does not replay at all; most of them stable or flaky.  The     *)
(* second one is replayed once, found by a static scan, or outside own     *)
(* code.                                                                   *)
(***************************************************************************)
EXTENDS Pipeline

Needs(need, steps) == {s \in SUBSET (1 .. steps) : need \subseteq s}

\* Step 2 undoes what step 1 does, unless all four are there.
Masked == {s \in Needs({1}, 4) : 2 \notin s \/ s = 1 .. 4}

Profile(n, f, stable, static, own) ==
  [steps |-> n, fails |-> f, stable |-> stable, static |-> static, own |-> own]

Replayed ==
  {Profile(1, Needs({1}, 1), st, FALSE, TRUE) : st \in BOOLEAN}
  \cup {Profile(2, Needs(need, 2), st, FALSE, TRUE) :
          need \in {{2}, {1, 2}}, st \in BOOLEAN}
  \cup {Profile(4, Needs(need, 4), st, FALSE, TRUE) :
          need \in {{3}, {1, 4}, {1, 2, 3}}, st \in BOOLEAN}
  \cup {Profile(4, f, TRUE, FALSE, TRUE) :
          f \in {Masked, {}}}

Easy ==
  {Profile(1, Needs({1}, 1), TRUE, static, own) : static \in BOOLEAN, own \in BOOLEAN}

MCOracles == <<Replayed, Easy>>
=============================================================================
