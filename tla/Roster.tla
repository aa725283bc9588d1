------------------------------- MODULE Roster -------------------------------
(***************************************************************************)
(* How a swarm of a given size is dealt out over the roles of its roster   *)
(* (src/src/core/swarm.ts, buildCatalogMissions and effectiveBudget).  A   *)
(* roster is a sequence of roles; a role is what the allocation reads of   *)
(* it: its weight, its action budget and whether it is a race.             *)
(***************************************************************************)
EXTENDS Integers, Sequences, SequencesExt, FiniteSets

CONSTANT Roles

ASSUME RolesAssumption ==
  /\ Roles \in Seq([weight : Nat \ {0}, budget : Nat \ {0}, race : BOOLEAN])
  /\ Len(Roles) > 0

\* What is shared out: round j of role k, for as many rounds as its share.
Slots(share) == UNION {{k} \X (1 .. share[k]) : k \in DOMAIN Roles}

TotalWeight == Cardinality(Slots([k \in DOMAIN Roles |-> Roles[k].weight]))

\* The part of the roster's missions each role gets before the remainder.
FloorShares(total, weighted) ==
  [k \in DOMAIN Roles |->
     IF weighted THEN (total * Roles[k].weight) \div TotalWeight ELSE 0]

\* `counts`: the remainder goes round the roster in order, one mission each.
Counts(total, weighted) ==
  LET share == FloorShares(total, weighted)
      left  == total - Cardinality(Slots(share))
  IN  [k \in DOMAIN Roles |->
         share[k] + Cardinality({i \in 0 .. left - 1 : i % Len(Roles) = k - 1})]

\* Under a swarm-wide cap (0: none) each mission gets its part of it, and
\* never less than three actions.
effectiveBudget(k, total, cap) ==
  IF cap = 0 THEN Roles[k].budget
  ELSE Max({3, Min({Roles[k].budget, (cap + total - 1) \div total})})

\* Interleaved: role A, B, C, A, B, C.
Before(s, t) == s[2] < t[2] \/ (s[2] = t[2] /\ s[1] < t[1])
InRounds(S) == CHOOSE q \in [1 .. Cardinality(S) -> S] :
                 \A i, j \in 1 .. Cardinality(S) : i < j => Before(q[i], q[j])

Queue(counts) ==
  LET slots == InRounds(Slots(counts))
  IN  [i \in 1 .. Cardinality(Slots(counts)) |-> slots[i][1]]

buildCatalogMissions(total, weighted, cap) ==
  LET queue == Queue(Counts(total, weighted))
  IN  [i \in DOMAIN queue |->
         [role |-> queue[i], seed |-> i,
          budget |-> effectiveBudget(queue[i], total, cap)]]

=============================================================================
