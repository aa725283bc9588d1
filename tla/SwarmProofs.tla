------------------------------ MODULE SwarmProofs ------------------------------
(***************************************************************************)
(* Theorems about the swarm, for any roster, size, number of lanes and     *)
(* faults: every mission is answered for, an interrupted run has sampled   *)
(* every role, and the report loses nothing of what was found.             *)
(***************************************************************************)
EXTENDS Swarm, FiniteSetTheorems, WellFoundedInduction, TLAPS

(* The roster: its slots can be listed in rounds.                           *)

\* A share of Nat missions for each role.
Shares == [DOMAIN Roles -> Nat]

\* A roster is a list of roles.
LEMMA RosterSays ==
  /\ Len(Roles) \in Nat /\ Len(Roles) > 0 /\ DOMAIN Roles = 1 .. Len(Roles)
  /\ IsFiniteSet(DOMAIN Roles) /\ 1 \in DOMAIN Roles
  /\ \A k \in DOMAIN Roles : k \in Nat /\ Roles[k].weight \in Nat /\ Roles[k].weight > 0
<1> DEFINE R == [weight : Nat \ {0}, budget : Nat \ {0}, race : BOOLEAN]
<1>1. Roles \in Seq(R) /\ Len(Roles) > 0
  BY RolesAssumption
<1>2. \A r \in R : r.weight \in Nat /\ r.weight > 0
  OBVIOUS
<1> HIDE DEF R
<1>3. /\ Len(Roles) \in Nat /\ DOMAIN Roles = 1 .. Len(Roles)
      /\ \A k \in DOMAIN Roles : Roles[k] \in R
  BY <1>1
<1>4. IsFiniteSet(DOMAIN Roles)
  BY <1>3, FS_Interval
<1> QED
  BY <1>1, <1>2, <1>3, <1>4

\* A slot is a round of a role; a roster has finitely many.
LEMMA SlotsAreRounds ==
  ASSUME NEW share \in Shares
  PROVE  /\ \A s : s \in Slots(share) <=>
              /\ s = <<s[1], s[2]>> /\ s[1] \in DOMAIN Roles
              /\ s[2] \in Nat /\ 1 <= s[2] /\ s[2] <= share[s[1]]
         /\ IsFiniteSet(Slots(share)) /\ Cardinality(Slots(share)) \in Nat
<1>1. \A k \in DOMAIN Roles : share[k] \in Nat
  BY DEF Shares
<1>2. ASSUME NEW k \in DOMAIN Roles
      PROVE  IsFiniteSet({k} \X (1 .. share[k]))
  <2>1. IsFiniteSet({k})
    BY FS_Singleton
  <2>2. IsFiniteSet(1 .. share[k])
    BY <1>1, FS_Interval
  <2> QED
    BY <2>1, <2>2, FS_Product
<1> DEFINE Parts == {{k} \X (1 .. share[k]) : k \in DOMAIN Roles}
<1>3. IsFiniteSet(Parts)
  <2> DEFINE part == [k \in DOMAIN Roles |-> {k} \X (1 .. share[k])]
  <2>1. part \in Surjection(DOMAIN Roles, Parts)
    BY DEF Surjection
  <2> QED
    BY <2>1, RosterSays, FS_Surjection
<1>4. IsFiniteSet(UNION Parts)
  BY <1>2, <1>3, FS_UNION
<1>5. IsFiniteSet(Slots(share)) /\ Cardinality(Slots(share)) \in Nat
  BY <1>4, FS_CardinalityType DEF Slots
<1>6. \A s : s \in Slots(share) <=>
        \E k \in DOMAIN Roles : \E j \in 1 .. share[k] : s = <<k, j>>
  BY DEF Slots
<1>7. ASSUME NEW s
      PROVE  s \in Slots(share) <=>
               /\ s = <<s[1], s[2]>> /\ s[1] \in DOMAIN Roles
               /\ s[2] \in Nat /\ 1 <= s[2] /\ s[2] <= share[s[1]]
  <2>1. ASSUME s \in Slots(share)
        PROVE  /\ s = <<s[1], s[2]>> /\ s[1] \in DOMAIN Roles
               /\ s[2] \in Nat /\ 1 <= s[2] /\ s[2] <= share[s[1]]
    <3>0. PICK k \in DOMAIN Roles : \E j \in 1 .. share[k] : s = <<k, j>>
      BY <1>6, <2>1
    <3>1. PICK j \in 1 .. share[k] : s = <<k, j>>
      BY <3>0
    <3>2. s[1] = k /\ s[2] = j
      BY <3>1
    <3> QED
      BY <1>1, <3>1, <3>2
  <2>2. ASSUME s = <<s[1], s[2]>>, s[1] \in DOMAIN Roles,
               s[2] \in Nat, 1 <= s[2], s[2] <= share[s[1]]
        PROVE  s \in Slots(share)
    <3>1. s[2] \in 1 .. share[s[1]]
      BY <1>1, <2>2
    <3> QED
      BY <1>6, <2>2, <3>1
  <2> QED
    BY <2>1, <2>2
<1> QED
  BY <1>5, <1>7

\* What each role is given of the queue is a number of missions.
LEMMA CountsAreShares ==
  ASSUME NEW total \in Nat, NEW weighted \in BOOLEAN
  PROVE  Counts(total, weighted) \in Shares
<1> DEFINE w == [k \in DOMAIN Roles |-> Roles[k].weight]
           share == FloorShares(total, weighted)
           left == total - Cardinality(Slots(share))
<1>1. w \in Shares
  BY RosterSays DEF Shares
<1>2. TotalWeight \in Nat /\ TotalWeight > 0
  <2>1. IsFiniteSet(Slots(w)) /\ Cardinality(Slots(w)) \in Nat
    BY <1>1, SlotsAreRounds
  <2>2. <<1, 1>> \in Slots(w)
    <3>1. 1 \in DOMAIN Roles /\ 1 \in 1 .. w[1]
      BY RosterSays
    <3> QED
      BY <3>1 DEF Slots
  <2>3. Cardinality(Slots(w)) # 0
    BY <2>1, <2>2, FS_EmptySet
  <2> QED
    BY <2>1, <2>3 DEF TotalWeight
<1>3. share \in Shares
  <2>1. ASSUME NEW k \in DOMAIN Roles
        PROVE  (total * Roles[k].weight) \div TotalWeight \in Nat
    <3>1. total * Roles[k].weight \in Nat
      BY RosterSays
    <3> QED
      BY <1>2, <3>1
  <2> QED
    BY <2>1 DEF FloorShares, Shares
<1>4. left \in Int
  BY <1>3, SlotsAreRounds
<1> HIDE DEF share, left
<1>5. ASSUME NEW k \in DOMAIN Roles
      PROVE  Cardinality({i \in 0 .. left - 1 : i % Len(Roles) = k - 1}) \in Nat
  <2>1. IsFiniteSet(0 .. left - 1)
    BY <1>4, FS_Interval
  <2>2. IsFiniteSet({i \in 0 .. left - 1 : i % Len(Roles) = k - 1})
    BY <2>1, FS_Subset
  <2> QED
    BY <2>2, FS_CardinalityType
<1>6. \A k \in DOMAIN Roles : share[k] \in Nat
  BY <1>3 DEF Shares
<1>7. Counts(total, weighted) =
        [k \in DOMAIN Roles |->
           share[k] + Cardinality({i \in 0 .. left - 1 : i % Len(Roles) = k - 1})]
  BY DEF Counts, share, left
<1> QED
  BY <1>5, <1>6, <1>7 DEF Shares

-----------------------------------------------------------------------------
(* The order of the slots: round by round, in the order of the roster.      *)

\* Slots of a roster are in a strict total order.
LEMMA BeforeOrders ==
  ASSUME NEW share \in Shares
  PROVE  LET S == Slots(share) IN
         /\ \A s \in S : ~Before(s, s)
         /\ \A s, t \in S : Before(s, t) => ~Before(t, s)
         /\ \A s, t, u \in S : Before(s, t) /\ Before(t, u) => Before(s, u)
         /\ \A s, t \in S : s # t => Before(s, t) \/ Before(t, s)
<1> DEFINE S == Slots(share)
<1>1. \A s \in S : s = <<s[1], s[2]>> /\ s[1] \in Nat /\ s[2] \in Nat
  BY SlotsAreRounds, RosterSays
<1> HIDE DEF S
<1>2. \A s, t \in S : s # t => s[1] # t[1] \/ s[2] # t[2]
  BY <1>1
<1>3. /\ \A s \in S : ~Before(s, s)
      /\ \A s, t \in S : Before(s, t) => ~Before(t, s)
      /\ \A s, t, u \in S : Before(s, t) /\ Before(t, u) => Before(s, u)
      /\ \A s, t \in S : s # t => Before(s, t) \/ Before(t, s)
  BY <1>1, <1>2 DEF Before
<1> QED
  BY <1>3 DEF S

\* How many slots come before s.
Rank(S, s) == Cardinality({t \in S : Before(t, s)})

\* A later slot has more before it, and none has all of them.
LEMMA RankGrows ==
  ASSUME NEW share \in Shares, NEW s \in Slots(share)
  PROVE  /\ Rank(Slots(share), s) \in 0 .. Cardinality(Slots(share)) - 1
         /\ \A t \in Slots(share) :
              Before(s, t) => Rank(Slots(share), s) < Rank(Slots(share), t)
<1> DEFINE S == Slots(share)
           X(t) == {u \in S : Before(u, t)}
<1>1. IsFiniteSet(S) /\ Cardinality(S) \in Nat
  BY SlotsAreRounds
<1>2. ASSUME NEW t \in S
      PROVE  /\ IsFiniteSet(X(t)) /\ Cardinality(X(t)) \in Nat
             /\ Cardinality(X(t)) <= Cardinality(S) /\ Cardinality(X(t)) # Cardinality(S)
  <2>1. X(t) \subseteq S /\ t \notin X(t) /\ X(t) # S
    BY BeforeOrders
  <2> HIDE DEF X
  <2>2. /\ IsFiniteSet(X(t)) /\ Cardinality(X(t)) <= Cardinality(S)
        /\ Cardinality(X(t)) # Cardinality(S)
    BY <1>1, <2>1, FS_Subset
  <2> QED
    BY <2>2, FS_CardinalityType
<1>3. ASSUME NEW t \in S, Before(s, t) PROVE Cardinality(X(s)) < Cardinality(X(t))
  <2>1. X(s) \subseteq X(t) /\ s \in X(t) /\ s \notin X(s)
    BY <1>3, BeforeOrders
  <2> HIDE DEF X
  <2>2. /\ Cardinality(X(s)) <= Cardinality(X(t))
        /\ Cardinality(X(t)) = Cardinality(X(s)) => X(t) = X(s)
    BY <1>2, <2>1, FS_Subset
  <2> QED
    BY <1>2, <2>1, <2>2
<1>4. \A t : Rank(S, t) = Cardinality(X(t))
  BY DEF Rank
<1>5. s \in S
  OBVIOUS
<1> HIDE DEF S, X
<1>6. Rank(S, s) \in 0 .. Cardinality(S) - 1
  BY <1>1, <1>2, <1>4, <1>5
<1>7. \A t \in S : Before(s, t) => Rank(S, s) < Rank(S, t)
  BY <1>3, <1>4
<1> QED
  BY <1>6, <1>7 DEF S

\* The slots can be listed in their order, each at its rank: a list without
\* repetition that leaves none out.
LEMMA RoundsAreListed ==
  ASSUME NEW share \in Shares
  PROVE  LET S == Slots(share)
             q == InRounds(S)
             n == Cardinality(S)
         IN  /\ n \in Nat /\ q \in [1 .. n -> S]
             /\ \A i, j \in 1 .. n : i < j => Before(q[i], q[j])
             /\ \A i, j \in 1 .. n : q[i] = q[j] => i = j
             /\ \A s \in S : \E i \in 1 .. n : q[i] = s
<1> DEFINE S == Slots(share)
           n == Cardinality(S)
           r == [s \in S |-> Rank(S, s) + 1]
<1>1. n \in Nat /\ IsFiniteSet(S) /\ IsFiniteSet(1 .. n) /\ Cardinality(1 .. n) = n
  <2>1. n \in Nat /\ IsFiniteSet(S)
    BY SlotsAreRounds
  <2> HIDE DEF n
  <2> QED
    BY <2>1, FS_Interval
<1>2. \A s \in S : r[s] \in 1 .. n
  BY <1>1, RankGrows
<1>3. \A s, t \in S : Before(s, t) => r[s] < r[t]
  BY <1>1, RankGrows
<1>0. /\ \A s \in S : ~Before(s, s)
      /\ \A s, t \in S : Before(s, t) => ~Before(t, s)
      /\ \A s, t \in S : s # t => Before(s, t) \/ Before(t, s)
  BY BeforeOrders
<1> HIDE DEF r, n, S
<1>4. r \in [S -> 1 .. n]
  BY <1>2 DEF r
<1>5. \A s, t \in S : r[s] = r[t] => s = t
  BY <1>0, <1>1, <1>2, <1>3
<1>6. r \in Injection(S, 1 .. n)
  BY <1>4, <1>5 DEF Injection, IsInjective
<1>7. r \in Surjection(S, 1 .. n)
  BY <1>6, <1>1, FS_Injection DEF n
<1>8. \A k \in 1 .. n : \E s \in S : r[s] = k
  BY <1>7 DEF Surjection
<1> DEFINE p == [k \in 1 .. n |-> CHOOSE s \in S : r[s] = k]
<1>9. \A k \in 1 .. n : p[k] \in S /\ r[p[k]] = k
  BY <1>8
<1>10. p \in [1 .. n -> S]
  BY <1>9
<1> HIDE DEF p
<1>11. ASSUME NEW i \in 1 .. n, NEW j \in 1 .. n, i < j
       PROVE  Before(p[i], p[j])
  <2>1. ~Before(p[j], p[i])
    BY <1>1, <1>3, <1>9, <1>11
  <2>2. p[j] # p[i]
    BY <1>1, <1>9, <1>11
  <2> QED
    BY <1>0, <1>9, <2>1, <2>2
<1> DEFINE q == InRounds(S)
<1>12. q \in [1 .. n -> S] /\ \A i, j \in 1 .. n : i < j => Before(q[i], q[j])
  <2>1. q = CHOOSE t \in [1 .. n -> S] : \A i, j \in 1 .. n : i < j => Before(t[i], t[j])
    BY DEF InRounds, n
  <2>2. \E t \in [1 .. n -> S] : \A i, j \in 1 .. n : i < j => Before(t[i], t[j])
    BY <1>10, <1>11
  <2> HIDE DEF q
  <2> QED
    BY <2>1, <2>2, Zenon
<1> HIDE DEF q
<1>13. ASSUME NEW i \in 1 .. n, NEW j \in 1 .. n, q[i] = q[j] PROVE i = j
  <2>1. ~(i < j) /\ ~(j < i)
    BY <1>0, <1>12, <1>13
  <2> QED
    BY <1>1, <2>1
<1>14. q \in Injection(1 .. n, S)
  BY <1>12, <1>13 DEF Injection, IsInjective
<1>15. q \in Surjection(1 .. n, S)
  BY <1>1, <1>14, FS_Injection DEF n
<1> QED
  BY <1>1, <1>12, <1>13, <1>15 DEF S, n, q, Surjection

\* A function on 1 .. n is a sequence.
LEMMA ListIsSeq ==
  ASSUME NEW T, NEW n \in Nat, NEW q \in [1 .. n -> T]
  PROVE  q \in Seq(T) /\ Len(q) = n
OBVIOUS

-----------------------------------------------------------------------------
(* The queue.                                                               *)

\* A queue of missions: each has a role of the roster, and the first of them,
\* as many as there are roles with a mission, have all of these roles.
Dealt(queue) ==
  /\ Len(queue) \in Nat /\ DOMAIN queue = 1 .. Len(queue)
  /\ LET used == {queue[m].role : m \in DOMAIN queue} IN
     /\ used \subseteq DOMAIN Roles
     /\ Cardinality(used) \in Nat
     /\ \A k \in used : \E m \in DOMAIN queue : m <= Cardinality(used) /\ queue[m].role = k

\* What buildCatalogMissions makes of any numbers is a queue that was dealt.
LEMMA QueueIsDealt ==
  ASSUME NEW total \in Nat, NEW weighted \in BOOLEAN, NEW cap
  PROVE  Dealt(buildCatalogMissions(total, weighted, cap))
<1> DEFINE counts == Counts(total, weighted)
           S == Slots(counts)
           n == Cardinality(S)
           q == InRounds(S)
           queue == buildCatalogMissions(total, weighted, cap)
           used == {queue[m].role : m \in DOMAIN queue}
<1>1. counts \in Shares
  BY CountsAreShares
<1> HIDE DEF counts
<1>2. \A s : s \in S <=> /\ s = <<s[1], s[2]>> /\ s[1] \in DOMAIN Roles
                         /\ s[2] \in Nat /\ 1 <= s[2] /\ s[2] <= counts[s[1]]
  BY <1>1, SlotsAreRounds
<1>3. /\ n \in Nat /\ q \in [1 .. n -> S]
      /\ \A i, j \in 1 .. n : i < j => Before(q[i], q[j])
      /\ \A i, j \in 1 .. n : q[i] = q[j] => i = j
      /\ \A s \in S : \E i \in 1 .. n : q[i] = s
  BY <1>1, RoundsAreListed
<1>4. /\ DOMAIN queue = 1 .. n
      /\ \A m \in 1 .. n : queue[m].role = q[m][1]
      /\ Len(queue) = n
  <2> DEFINE list == [i \in 1 .. n |-> q[i][1]]
             mission(i) == [role |-> list[i], seed |-> i,
                            budget |-> effectiveBudget(list[i], total, cap)]
  <2>1. queue = [i \in 1 .. n |-> mission(i)]
    BY DEF buildCatalogMissions, Queue, counts
  <2>2. \A i \in 1 .. n : mission(i).role = q[i][1]
    OBVIOUS
  <2> HIDE DEF mission, queue
  <2>3. queue \in [1 .. n -> {mission(i) : i \in 1 .. n}]
    BY <2>1
  <2>4. Len(queue) = n
    BY <1>3, <2>3, ListIsSeq
  <2> QED
    BY <2>1, <2>2, <2>4
<1> HIDE DEF queue, q, n, S
<1>5. used = {q[m][1] : m \in 1 .. n}
  BY <1>4
<1>6. used \subseteq DOMAIN Roles /\ IsFiniteSet(used) /\ Cardinality(used) \in Nat
  <2>1. used \subseteq DOMAIN Roles
    BY <1>2, <1>3, <1>5
  <2>2. IsFiniteSet(used)
    BY <2>1, RosterSays, FS_Subset
  <2> QED
    BY <2>1, <2>2, FS_CardinalityType
<1>7. ASSUME NEW k \in used
      PROVE  \E m \in 1 .. n : m <= Cardinality(used) /\ q[m][1] = k
  <2>1. PICK a \in 1 .. n : q[a][1] = k
    BY <1>5
  <2>2. <<k, 1>> \in S
    <3>1. q[a] \in S
      BY <1>3
    <3>2. k \in DOMAIN Roles /\ 1 <= counts[k]
      <4>1. counts[k] \in Nat
        BY <1>1, <1>6 DEF Shares
      <4> QED
        BY <1>2, <2>1, <3>1, <4>1
    <3>3. <<k, 1>>[1] = k /\ <<k, 1>>[2] = 1
      OBVIOUS
    <3> QED
      BY <1>2, <3>2, <3>3
  <2>3. PICK m \in 1 .. n : q[m] = <<k, 1>>
    BY <1>3, <2>2
  <2>4. \A i \in 1 .. m : i \in 1 .. n /\ q[i] = <<q[i][1], 1>>
    <3> TAKE i \in 1 .. m
    <3>1. i \in 1 .. n /\ (i < m \/ i = m)
      BY <1>3
    <3>2. q[i] \in S
      BY <1>3, <3>1
    <3>3. q[i] = <<q[i][1], q[i][2]>> /\ q[i][2] \in Nat /\ 1 <= q[i][2]
      BY <1>2, <3>2
    <3>4. q[i][2] <= 1
      <4>1. CASE i = m
        BY <2>3, <4>1
      <4>2. CASE i < m
        <5>1. Before(q[i], q[m])
          BY <1>3, <3>1, <4>2
        <5>2. q[m][2] = 1
          BY <2>3
        <5> QED
          BY <3>3, <5>1, <5>2 DEF Before
      <4> QED
        BY <3>1, <4>1, <4>2
    <3>5. q[i][2] = 1
      BY <3>3, <3>4
    <3> QED
      BY <3>1, <3>3, <3>5
  <2> DEFINE roles == [i \in 1 .. m |-> q[i][1]]
  <2>5. roles \in Injection(1 .. m, used)
    <3>1. roles \in [1 .. m -> used]
      BY <1>5, <2>4
    <3>2. ASSUME NEW i \in 1 .. m, NEW j \in 1 .. m, q[i][1] = q[j][1] PROVE i = j
      <4>1. q[i] = q[j]
        BY <2>4, <3>2
      <4> QED
        BY <1>3, <2>4, <4>1
    <3> QED
      BY <3>1, <3>2 DEF Injection, IsInjective
  <2>6. Cardinality(1 .. m) = m
    BY <1>3, FS_Interval
  <2>7. m <= Cardinality(used)
    BY <1>6, <2>5, <2>6, FS_Injection
  <2>8. q[m][1] = k
    BY <2>3
  <2> HIDE DEF used, roles
  <2> QED
    BY <2>7, <2>8
<1> HIDE DEF used
<1>8. \A k \in used : \E m \in DOMAIN queue : m <= Cardinality(used) /\ queue[m].role = k
  BY <1>4, <1>7
<1> QED
  BY <1>3, <1>4, <1>6, <1>8 DEF Dealt, queue, used

-----------------------------------------------------------------------------
(* The pool, the contexts and the episodes.                                 *)

Phases    == {"queued", "open", "act", "settled", "failed", "logged", "unlogged"}
Verdicts  == {"environment_failure", "tested"}
Finding   == [fp : Faults, occ : Nat, loc : {"none", "own", "unresolved"}, hist : Nat,
              roles : SUBSET DOMAIN Roles]
HasResult(m) == \E i \in DOMAIN results : results[i] = m

PoolTypes ==
  /\ Dealt(missions)
  /\ next \in 1 .. Len(missions) + 1
  /\ lane \in [Lanes -> 0 .. Len(missions)]
  /\ at \in [DOMAIN missions -> Phases]
  /\ contexts \subseteq UNION {HandsOf(m) : m \in DOMAIN missions}
  /\ results \in Seq(DOMAIN missions)
  /\ episodes \in [DOMAIN missions -> Seq(Verdicts)]
  /\ pool \in {"run", "resolved", "rejected"}
  /\ browser \in {"open", "crashed", "closed"}

CaptureTypes ==
  /\ signals \in Nat
  /\ seen \in [(DOMAIN missions) \X {"a", "b"} -> Seq(Finding)]
  /\ \A x \in DOMAIN seen : \A i \in DOMAIN seen[x] : seen[x][i].occ \in 1 .. signals

\* A mission that was taken and is not logged has one lane, and no other.
LanesHold ==
  /\ \A m \in DOMAIN missions : at[m] = "queued" <=> next <= m
  /\ \A m \in DOMAIN missions : at[m] \notin {"queued", "logged"} => \E l \in Lanes : lane[l] = m
  /\ \A l \in Lanes : lane[l] # 0 => at[lane[l]] \notin {"queued", "logged"}
  /\ \A l, k \in Lanes : lane[l] = lane[k] /\ lane[l] # 0 => l = k
  /\ pool = "resolved" => AllDone

\* A mission has a result if it settled, and not if it failed; its episode is
\* logged once and says which.
EpisodeTells(m) ==
  /\ at[m] = "settled" => HasResult(m)
  /\ at[m] # "logged" => episodes[m] = <<>>
  /\ at[m] = "logged" => /\ Len(episodes[m]) = 1
                         /\ episodes[m][1] = "environment_failure" <=> ~HasResult(m)
EpisodesTell ==
  /\ \A i, j \in DOMAIN results : results[i] = results[j] => i = j
  /\ \A i \in DOMAIN results : at[results[i]] \in {"settled", "logged", "unlogged"}
  /\ \A m \in DOMAIN missions : EpisodeTells(m)

SwarmInv == PoolTypes /\ CaptureTypes /\ LanesHold /\ EpisodesTell /\ ContextsAreReturned

\* Before the pool starts every mission waits and nothing was captured.
LEMMA InitHolds == Init => SwarmInv
<1> SUFFICES ASSUME Init PROVE SwarmInv
  OBVIOUS
<1>1. Dealt(missions)
  <2>1. PICK total \in Sizes, weighted \in BOOLEAN :
          missions = buildCatalogMissions(total, weighted, Cap)
    BY DEF Init
  <2>2. total \in Nat
    BY SwarmAssumption
  <2> QED
    BY <2>1, <2>2, QueueIsDealt
<1>2. Len(missions) \in Nat /\ DOMAIN missions = 1 .. Len(missions)
  BY <1>1 DEF Dealt
<1>3. /\ next = 1 /\ lane = [l \in Lanes |-> 0]
      /\ at = [m \in DOMAIN missions |-> "queued"]
      /\ contexts = {} /\ seen = [x \in (DOMAIN missions) \X {"a", "b"} |-> <<>>]
      /\ results = <<>> /\ episodes = [m \in DOMAIN missions |-> <<>>]
      /\ pool = "run" /\ browser = "open" /\ signals = 0
  BY DEF Init
<1>4. results = <<>> /\ DOMAIN results = {}
  BY <1>3
<1>5. PoolTypes
  BY <1>1, <1>2, <1>3 DEF PoolTypes, Phases
<1>6. CaptureTypes
  BY <1>3 DEF CaptureTypes
<1>7. LanesHold
  BY <1>2, <1>3 DEF LanesHold
<1>8. EpisodesTell
  BY <1>3, <1>4 DEF EpisodesTell, EpisodeTells
<1>9. ContextsAreReturned
  BY <1>3, <1>4 DEF ContextsAreReturned
<1> QED
  BY <1>5, <1>6, <1>7, <1>8, <1>9 DEF SwarmInv

\* The mission a lane is on was taken, and is where the lane has it.
LEMMA LaneIsOn ==
  ASSUME SwarmInv, NEW l \in Lanes, NEW phase \in {"open", "act", "settled", "failed"},
         On(l, phase)
  PROVE  /\ lane[l] \in DOMAIN missions /\ lane[l] # 0 /\ at[lane[l]] = phase
         /\ lane[l] < next
         /\ \A k \in Lanes : lane[k] = lane[l] => k = l
<1>1. /\ Len(missions) \in Nat /\ DOMAIN missions = 1 .. Len(missions)
      /\ lane[l] \in 0 .. Len(missions) /\ next \in Nat
  BY DEF SwarmInv, PoolTypes, Dealt
<1>2. lane[l] # 0 /\ at[lane[l]] = phase
  BY DEF On
<1>3. lane[l] \in DOMAIN missions
  BY <1>1, <1>2
<1>4. ~(next <= lane[l])
  BY <1>2, <1>3 DEF SwarmInv, LanesHold
<1>5. \A k \in Lanes : lane[k] = lane[l] => k = l
  BY <1>2 DEF SwarmInv, LanesHold
<1> QED
  BY <1>1, <1>2, <1>3, <1>4, <1>5

\* A mission moves on under its lane, from one phase to another of those that
\* keep the lane: the lanes hold.
LEMMA MovesOn ==
  ASSUME SwarmInv, NEW l \in Lanes, NEW phase \in {"open", "act", "settled", "failed"},
         On(l, phase),
         NEW to \in {"open", "act", "settled", "failed", "unlogged"},
         at' = [at EXCEPT ![lane[l]] = to], UNCHANGED <<missions, next, lane>>,
         pool' = "resolved" => pool = "resolved"
  PROVE  LanesHold'
<1>1. /\ lane[l] \in DOMAIN missions /\ at[lane[l]] = phase /\ lane[l] < next
      /\ next \in Nat /\ at \in [DOMAIN missions -> Phases]
  BY LaneIsOn DEF SwarmInv, PoolTypes
<1>2. \A m \in DOMAIN missions : at'[m] = IF m = lane[l] THEN to ELSE at[m]
  BY <1>1
<1>3. \A m \in DOMAIN missions : at'[m] \in {"queued", "logged"} <=> at[m] \in {"queued", "logged"}
  BY <1>1, <1>2
<1>4. \A m \in DOMAIN missions : at'[m] = "queued" <=> at[m] = "queued"
  BY <1>1, <1>2
<1>5. \A k \in Lanes : lane[k] # 0 => lane[k] \in DOMAIN missions
  BY DEF SwarmInv, PoolTypes, Dealt
<1> QED
  BY <1>3, <1>4, <1>5 DEF SwarmInv, LanesHold, AllDone

\* The queue never changes, nor do the hands of its missions.
LEMMA TypesKept ==
  ASSUME PoolTypes, missions' = missions,
         next' \in 1 .. Len(missions) + 1, lane' \in [Lanes -> 0 .. Len(missions)],
         at' \in [DOMAIN missions -> Phases],
         contexts' \subseteq UNION {HandsOf(m) : m \in DOMAIN missions},
         results' \in Seq(DOMAIN missions), episodes' \in [DOMAIN missions -> Seq(Verdicts)],
         pool' \in {"run", "resolved", "rejected"}, browser' \in {"open", "crashed", "closed"}
  PROVE  PoolTypes'
<1>1. Dealt(missions)'
  <2>1. Dealt(missions)
    BY DEF PoolTypes
  <2> QED
    BY <2>1
<1>2. \A m : HandsOf(m)' = HandsOf(m)
  BY DEF HandsOf, Hands
<1>3. UNION {HandsOf(m)' : m \in DOMAIN missions} = UNION {HandsOf(m) : m \in DOMAIN missions}
  BY <1>2
<1>4. contexts' \subseteq UNION {HandsOf(m)' : m \in DOMAIN missions}
  BY <1>3
<1> QED
  BY <1>1, <1>4 DEF PoolTypes

\* Results are of missions of the queue.
LEMMA ResultsAreOfMissions ==
  ASSUME PoolTypes
  PROVE  /\ Len(results) \in Nat /\ DOMAIN results = 1 .. Len(results)
         /\ \A i \in DOMAIN results : results[i] \in DOMAIN missions
<1> DEFINE D == DOMAIN missions
<1>1. results \in Seq(D)
  BY DEF PoolTypes
<1> HIDE DEF D
<1>2. /\ Len(results) \in Nat /\ DOMAIN results = 1 .. Len(results)
      /\ \A i \in DOMAIN results : results[i] \in D
  BY <1>1
<1> QED
  BY <1>2 DEF D

\* What does not capture leaves what was captured.
LEMMA CapturedStands ==
  ASSUME CaptureTypes, UNCHANGED <<missions, seen, signals>>
  PROVE  CaptureTypes'
BY DEF CaptureTypes

\* A lane takes the next mission: nobody else has it, and its episodes are none.
LEMMA TakeStep ==
  ASSUME SwarmInv, NEW l \in Lanes, Take(l)
  PROVE  SwarmInv'
<1>1. /\ Len(missions) \in Nat /\ DOMAIN missions = 1 .. Len(missions)
      /\ next \in 1 .. Len(missions) + 1 /\ lane \in [Lanes -> 0 .. Len(missions)]
      /\ at \in [DOMAIN missions -> Phases]
  BY DEF SwarmInv, PoolTypes, Dealt
<1>2. /\ lane[l] = 0 /\ next <= Len(missions) /\ lane' = [lane EXCEPT ![l] = next]
      /\ next' = next + 1 /\ at' = [at EXCEPT ![next] = "open"]
      /\ UNCHANGED <<missions, results, episodes, pool, seen, signals, contexts, browser>>
  BY DEF Take, captureVars
<1>3. next \in DOMAIN missions /\ at[next] = "queued"
  BY <1>1, <1>2 DEF SwarmInv, LanesHold
<1>4. PoolTypes'
  <2>1. lane' \in [Lanes -> 0 .. Len(missions)] /\ next' \in 1 .. Len(missions) + 1
    BY <1>1, <1>2
  <2>2. at' \in [DOMAIN missions -> Phases]
    BY <1>1, <1>2 DEF Phases
  <2> QED
    BY <1>2, <2>1, <2>2, TypesKept DEF SwarmInv, PoolTypes
<1>5. CaptureTypes'
  BY <1>2, CapturedStands DEF SwarmInv
<1>6. LanesHold'
  <2>1. \A m \in DOMAIN missions : at'[m] = IF m = next THEN "open" ELSE at[m]
    BY <1>1, <1>2
  <2>2. \A k \in Lanes : lane'[k] = IF k = l THEN next ELSE lane[k]
    BY <1>1, <1>2
  <2>3. \A k \in Lanes : lane[k] # next /\ (lane[k] # 0 => lane[k] \in DOMAIN missions)
    <3> TAKE k \in Lanes
    <3>1. lane[k] # 0 => lane[k] \in DOMAIN missions /\ at[lane[k]] # "queued"
      BY <1>1 DEF SwarmInv, LanesHold
    <3> QED
      BY <1>1, <1>3, <3>1
  <2>4. \A m \in DOMAIN missions : at'[m] = "queued" <=> next' <= m
    <3> TAKE m \in DOMAIN missions
    <3>1. at[m] = "queued" <=> next <= m
      BY DEF SwarmInv, LanesHold
    <3> QED
      BY <1>1, <1>2, <2>1, <3>1
  <2>5. \A m \in DOMAIN missions : at'[m] \notin {"queued", "logged"} => \E k \in Lanes : lane'[k] = m
    <3> TAKE m \in DOMAIN missions
    <3>1. CASE m = next
      BY <2>2, <3>1
    <3>2. CASE m # next
      <4>1. at[m] \notin {"queued", "logged"} => \E k \in Lanes : lane[k] = m
        BY DEF SwarmInv, LanesHold
      <4>2. m # 0
        BY <1>1
      <4> QED
        BY <1>2, <2>1, <2>2, <3>2, <4>1, <4>2
    <3> QED
      BY <3>1, <3>2
  <2>6. \A k \in Lanes : lane'[k] # 0 => at'[lane'[k]] \notin {"queued", "logged"}
    BY <1>3, <2>1, <2>2, <2>3 DEF SwarmInv, LanesHold
  <2>7. \A j, k \in Lanes : lane'[j] = lane'[k] /\ lane'[j] # 0 => j = k
    BY <2>2, <2>3 DEF SwarmInv, LanesHold
  <2>8. pool # "resolved"
    BY <1>1, <1>2 DEF SwarmInv, LanesHold, AllDone
  <2> QED
    BY <1>2, <2>4, <2>5, <2>6, <2>7, <2>8 DEF LanesHold
<1>7. EpisodesTell'
  <2>1. \A m \in DOMAIN missions : at'[m] = IF m = next THEN "open" ELSE at[m]
    BY <1>1, <1>2
  <2>2. \A i \in DOMAIN results : results[i] \in DOMAIN missions /\ results[i] # next
    BY <1>3, ResultsAreOfMissions DEF SwarmInv, EpisodesTell, EpisodeTells
  <2> QED
    BY <1>2, <1>3, <2>1, <2>2 DEF SwarmInv, EpisodesTell, EpisodeTells, HasResult
<1>8. ContextsAreReturned'
  BY <1>2 DEF SwarmInv, ContextsAreReturned, HandsOf, Hands
<1> QED
  BY <1>4, <1>5, <1>6, <1>7, <1>8 DEF SwarmInv

\* What the steps of a lane on its mission leave alone: the lanes, the results,
\* the episodes.
LEMMA OpenSteps ==
  ASSUME SwarmInv, NEW l \in Lanes, Open(l) \/ OpenThrows(l)
  PROVE  SwarmInv'
<1> DEFINE m == lane[l]
<1>1. /\ On(l, "open")
      /\ \E to \in {"open", "act", "failed"} : at' = [at EXCEPT ![m] = to]
      /\ contexts' = contexts \/ (browser = "open" /\ \E h \in Hands(m) : contexts' = contexts \cup {<<m, h>>})
      /\ UNCHANGED <<missions, next, lane, pool, results, episodes, seen, signals, browser>>
  <2>1. CASE Open(l)
    <3>1. at' = [at EXCEPT ![m] = IF HandsOf(m) \subseteq contexts' THEN "act" ELSE at[m]]
      BY <2>1 DEF Open
    <3>2. On(l, "open") /\ at[m] = "open"
      BY <2>1 DEF Open, On
    <3> QED
      BY <2>1, <3>1, <3>2 DEF Open, poolVars, captureVars
  <2>2. CASE OpenThrows(l)
    BY <2>2 DEF OpenThrows, poolVars, captureVars
  <2> QED
    BY <2>1, <2>2
<1>2. /\ m \in DOMAIN missions /\ at[m] = "open" /\ at \in [DOMAIN missions -> Phases]
      /\ \A k \in Lanes : lane[k] = m => k = l
  BY <1>1, LaneIsOn DEF SwarmInv, PoolTypes
<1>3. PICK to \in {"open", "act", "failed"} : at' = [at EXCEPT ![m] = to]
  BY <1>1
<1>4. \A k \in DOMAIN missions : at'[k] = IF k = m THEN to ELSE at[k]
  BY <1>2, <1>3
<1>5. PoolTypes'
  <2>1. contexts' \subseteq UNION {HandsOf(k) : k \in DOMAIN missions}
    <3>1. contexts \subseteq UNION {HandsOf(k) : k \in DOMAIN missions}
      BY DEF SwarmInv, PoolTypes
    <3>2. \A h \in Hands(m) : <<m, h>> \in HandsOf(m)
      BY DEF HandsOf
    <3> QED
      BY <1>1, <1>2, <3>1, <3>2
  <2>2. at' \in [DOMAIN missions -> Phases]
    BY <1>2, <1>3 DEF Phases
  <2> QED
    BY <1>1, <2>1, <2>2, TypesKept DEF SwarmInv, PoolTypes
<1>6. CaptureTypes'
  BY <1>1, CapturedStands DEF SwarmInv
<1>7. LanesHold'
  BY <1>1, <1>3, MovesOn
<1>8. \A i \in DOMAIN results : results[i] \in DOMAIN missions /\ results[i] # m
  BY <1>2, ResultsAreOfMissions DEF SwarmInv, EpisodesTell, EpisodeTells
<1>9. EpisodesTell'
  BY <1>1, <1>2, <1>4, <1>8 DEF SwarmInv, EpisodesTell, EpisodeTells, HasResult
<1>10. ContextsAreReturned'
  <2>1. \A i \in DOMAIN results : HandsOf(results[i])' \cap contexts' = {}
    <3> TAKE i \in DOMAIN results
    <3>1. HandsOf(results[i])' = HandsOf(results[i])
      BY <1>1 DEF HandsOf, Hands
    <3>2. HandsOf(results[i]) \cap contexts = {}
      BY DEF SwarmInv, ContextsAreReturned
    <3>3. \A h : <<m, h>> \notin HandsOf(results[i])
      BY <1>8 DEF HandsOf
    <3> QED
      BY <1>1, <3>1, <3>2, <3>3
  <2> QED
    BY <1>1, <2>1 DEF SwarmInv, ContextsAreReturned
<1> QED
  BY <1>5, <1>6, <1>7, <1>9, <1>10 DEF SwarmInv

\* A mission that ends gives its one result.
LEMMA SettleStep ==
  ASSUME SwarmInv, NEW l \in Lanes, Settle(l)
  PROVE  SwarmInv'
<1> DEFINE m == lane[l]
<1>1. /\ On(l, "act") /\ at' = [at EXCEPT ![m] = "settled"]
      /\ results' = Append(results, m) /\ contexts' = contexts \ HandsOf(m)
      /\ UNCHANGED <<missions, next, lane, pool, episodes, seen, signals, browser>>
  BY DEF Settle, poolVars, captureVars
<1>2. /\ m \in DOMAIN missions /\ at[m] = "act" /\ at \in [DOMAIN missions -> Phases]
  BY <1>1, LaneIsOn DEF SwarmInv, PoolTypes
<1>3. \A k \in DOMAIN missions : at'[k] = IF k = m THEN "settled" ELSE at[k]
  BY <1>1, <1>2
<1>4. /\ Len(results) \in Nat /\ DOMAIN results = 1 .. Len(results)
      /\ results \in Seq(DOMAIN missions)
      /\ \A i \in DOMAIN results : results[i] \in DOMAIN missions /\ results[i] # m
  BY <1>2, ResultsAreOfMissions DEF SwarmInv, EpisodesTell, EpisodeTells, PoolTypes
<1>5. /\ results' \in Seq(DOMAIN missions) /\ DOMAIN results' = 1 .. Len(results) + 1
      /\ results'[Len(results) + 1] = m
      /\ \A i \in DOMAIN results : results'[i] = results[i]
  <2> DEFINE D == DOMAIN missions
  <2>1. results \in Seq(D) /\ m \in D
    BY <1>2, <1>4
  <2> HIDE DEF D, m
  <2>2. /\ results' \in Seq(D) /\ DOMAIN results' = 1 .. Len(results) + 1
        /\ results'[Len(results) + 1] = m
        /\ \A i \in DOMAIN results : results'[i] = results[i]
    BY <1>1, <2>1
  <2> QED
    BY <2>2 DEF D
<1> HIDE DEF m
<1>6. PoolTypes'
  <2>1. contexts' \subseteq UNION {HandsOf(k) : k \in DOMAIN missions}
    BY <1>1 DEF SwarmInv, PoolTypes
  <2>2. at' \in [DOMAIN missions -> Phases]
    BY <1>1, <1>2 DEF Phases
  <2> QED
    BY <1>1, <1>5, <2>1, <2>2, TypesKept DEF SwarmInv, PoolTypes
<1>7. CaptureTypes'
  BY <1>1, CapturedStands DEF SwarmInv
<1>8. LanesHold'
  BY <1>1, MovesOn DEF m
<1>9. \A k : HasResult(k)' <=> HasResult(k) \/ k = m
  BY <1>4, <1>5 DEF HasResult
<1>10. EpisodesTell'
  <2>1. \A i \in DOMAIN results' : at'[results'[i]] \in {"settled", "logged", "unlogged"}
    BY <1>2, <1>3, <1>4, <1>5 DEF SwarmInv, EpisodesTell, EpisodeTells
  <2>2. \A i, j \in DOMAIN results' : results'[i] = results'[j] => i = j
    <3> SUFFICES ASSUME NEW i \in DOMAIN results', NEW j \in DOMAIN results',
                        results'[i] = results'[j], i # j
                 PROVE  FALSE
      OBVIOUS
    <3>1. i \in DOMAIN results \/ i = Len(results) + 1
      BY <1>4, <1>5
    <3>2. j \in DOMAIN results \/ j = Len(results) + 1
      BY <1>4, <1>5
    <3> QED
      BY <1>4, <1>5, <3>1, <3>2 DEF SwarmInv, EpisodesTell, EpisodeTells
  <2>3. \A k \in DOMAIN missions :
          EpisodeTells(k)'
    <3> TAKE k \in DOMAIN missions
    <3>1. /\ at[k] = "settled" => HasResult(k)
          /\ at[k] # "logged" => episodes[k] = <<>>
          /\ at[k] = "logged" => /\ Len(episodes[k]) = 1
                                 /\ episodes[k][1] = "environment_failure" <=> ~HasResult(k)
      BY DEF SwarmInv, EpisodesTell, EpisodeTells
    <3>2. CASE k = m
      BY <1>1, <1>2, <1>3, <1>9, <3>1, <3>2 DEF EpisodeTells
    <3>3. CASE k # m
      BY <1>1, <1>3, <1>9, <3>1, <3>3 DEF EpisodeTells
    <3> QED
      BY <3>2, <3>3
  <2> QED
    BY <1>1, <2>1, <2>2, <2>3 DEF EpisodesTell
<1>11. ContextsAreReturned'
  <2>1. \A k : HandsOf(k)' = HandsOf(k)
    BY <1>1 DEF HandsOf, Hands
  <2>2. \A i \in DOMAIN results' : HandsOf(results'[i]) \cap contexts' = {}
    <3> TAKE i \in DOMAIN results'
    <3>1. CASE i \in DOMAIN results
      BY <1>1, <1>5, <3>1 DEF SwarmInv, ContextsAreReturned
    <3>2. CASE i = Len(results) + 1
      BY <1>1, <1>5, <3>2
    <3> QED
      BY <1>4, <1>5, <3>1, <3>2
  <2>3. \A i \in DOMAIN results' : HandsOf(results[i])' \cap contexts' = {}
    <3> TAKE i \in DOMAIN results'
    <3>1. HandsOf(results[i])' = HandsOf(results'[i])
      BY <1>1 DEF HandsOf, Hands
    <3> QED
      BY <2>2, <3>1
  <2> QED
    BY <1>1, <2>3 DEF SwarmInv, ContextsAreReturned
<1> QED
  BY <1>6, <1>7, <1>8, <1>10, <1>11 DEF SwarmInv

\* A mission that throws gives none.
LEMMA ThrowStep ==
  ASSUME SwarmInv, NEW l \in Lanes, Throw(l)
  PROVE  SwarmInv'
<1> DEFINE m == lane[l]
<1>1. /\ On(l, "act") /\ at' = [at EXCEPT ![m] = "failed"] /\ contexts' = contexts \ HandsOf(m)
      /\ UNCHANGED <<missions, next, lane, pool, results, episodes, seen, signals, browser>>
  BY DEF Throw, poolVars, captureVars
<1>2. /\ m \in DOMAIN missions /\ at[m] = "act" /\ at \in [DOMAIN missions -> Phases]
  BY <1>1, LaneIsOn DEF SwarmInv, PoolTypes
<1>3. \A k \in DOMAIN missions : at'[k] = IF k = m THEN "failed" ELSE at[k]
  BY <1>1, <1>2
<1>4. \A i \in DOMAIN results : results[i] \in DOMAIN missions /\ results[i] # m
  BY <1>2, ResultsAreOfMissions DEF SwarmInv, EpisodesTell, EpisodeTells
<1>5. PoolTypes'
  <2>1. contexts' \subseteq UNION {HandsOf(k) : k \in DOMAIN missions}
    BY <1>1 DEF SwarmInv, PoolTypes
  <2>2. at' \in [DOMAIN missions -> Phases]
    BY <1>1, <1>2 DEF Phases
  <2> QED
    BY <1>1, <2>1, <2>2, TypesKept DEF SwarmInv, PoolTypes
<1>6. CaptureTypes'
  BY <1>1, CapturedStands DEF SwarmInv
<1>7. LanesHold'
  BY <1>1, MovesOn
<1>8. EpisodesTell'
  BY <1>1, <1>2, <1>3, <1>4 DEF SwarmInv, EpisodesTell, EpisodeTells, HasResult
<1>9. ContextsAreReturned'
  BY <1>1 DEF SwarmInv, ContextsAreReturned, HandsOf, Hands
<1> QED
  BY <1>5, <1>6, <1>7, <1>8, <1>9 DEF SwarmInv

\* The episode of a mission is its verdict: there was none before it.
LEMMA LogStep ==
  ASSUME SwarmInv, NEW l \in Lanes, Log(l)
  PROVE  SwarmInv'
<1> DEFINE m == lane[l]
<1>1. /\ On(l, "settled") \/ On(l, "failed")
      /\ lane' = [lane EXCEPT ![l] = 0] /\ at' = [at EXCEPT ![m] = "logged"]
      /\ episodes' = [episodes EXCEPT ![m] = Append(episodes[m], episodeVerdict(m))]
      /\ UNCHANGED <<missions, next, results, pool, seen, signals, contexts, browser>>
  BY DEF Log, captureVars
<1>2. /\ m \in DOMAIN missions /\ m # 0 /\ at[m] \in {"settled", "failed"} /\ m < next
      /\ \A k \in Lanes : lane[k] = m => k = l
  BY <1>1, LaneIsOn
<1>3. /\ Len(missions) \in Nat /\ DOMAIN missions = 1 .. Len(missions) /\ next \in Nat
      /\ lane \in [Lanes -> 0 .. Len(missions)]
      /\ at \in [DOMAIN missions -> Phases]
      /\ episodes \in [DOMAIN missions -> Seq(Verdicts)]
  BY DEF SwarmInv, PoolTypes, Dealt
<1> HIDE DEF m
<1>4. /\ \A k \in DOMAIN missions : at'[k] = IF k = m THEN "logged" ELSE at[k]
      /\ \A k \in Lanes : lane'[k] = IF k = l THEN 0 ELSE lane[k]
  BY <1>1, <1>2, <1>3
<1>5. episodes[m] = <<>>
  BY <1>2 DEF SwarmInv, EpisodesTell, EpisodeTells
<1>6. /\ episodes'[m] = <<episodeVerdict(m)>>
      /\ \A k \in DOMAIN missions : k # m => episodes'[k] = episodes[k]
  BY <1>1, <1>2, <1>3, <1>5
<1>7. PoolTypes'
  <2>1. lane' \in [Lanes -> 0 .. Len(missions)]
    BY <1>1, <1>3
  <2>2. at' \in [DOMAIN missions -> Phases]
    BY <1>1, <1>2, <1>3 DEF Phases
  <2>3. episodes' \in [DOMAIN missions -> Seq(Verdicts)]
    <3>1. <<episodeVerdict(m)>> \in Seq(Verdicts)
      BY DEF episodeVerdict, Verdicts
    <3>2. episodes' = [episodes EXCEPT ![m] = <<episodeVerdict(m)>>]
      BY <1>1, <1>2, <1>3, <1>5, <1>6
    <3> QED
      BY <1>2, <1>3, <3>1, <3>2
  <2> QED
    BY <1>1, <2>1, <2>2, <2>3, TypesKept DEF SwarmInv, PoolTypes
<1>8. CaptureTypes'
  BY <1>1, CapturedStands DEF SwarmInv
<1>9. LanesHold'
  <2>1. \A k \in DOMAIN missions : at'[k] = "queued" <=> next <= k
    BY <1>2, <1>3, <1>4 DEF SwarmInv, LanesHold
  <2>2. ASSUME NEW k \in DOMAIN missions, at'[k] \notin {"queued", "logged"}
        PROVE  \E j \in Lanes : lane'[j] = k
    <3>1. k # m /\ at[k] \notin {"queued", "logged"}
      BY <1>4, <2>2
    <3>2. PICK j \in Lanes : lane[j] = k
      BY <3>1 DEF SwarmInv, LanesHold
    <3> QED
      BY <1>4, <3>1, <3>2 DEF m
  <2>3. ASSUME NEW k \in Lanes, lane'[k] # 0
        PROVE  at'[lane'[k]] \notin {"queued", "logged"}
    <3>1. k # l /\ lane'[k] = lane[k] /\ lane[k] # m
      BY <1>2, <1>4, <2>3
    <3>2. lane[k] \in DOMAIN missions
      BY <1>3, <2>3, <3>1
    <3> QED
      BY <1>4, <2>3, <3>1, <3>2 DEF SwarmInv, LanesHold
  <2>4. \A j, k \in Lanes : lane'[j] = lane'[k] /\ lane'[j] # 0 => j = k
    BY <1>4 DEF SwarmInv, LanesHold
  <2>5. pool # "resolved"
    BY <1>2 DEF SwarmInv, LanesHold, AllDone, m
  <2> QED
    BY <1>1, <2>1, <2>2, <2>3, <2>4, <2>5 DEF LanesHold
<1>10. \A k : HasResult(k)' <=> HasResult(k)
  BY <1>1 DEF HasResult
<1>11. EpisodesTell'
  <2>1. \A i \in DOMAIN results : at'[results[i]] \in {"settled", "logged", "unlogged"}
    BY <1>4, ResultsAreOfMissions DEF SwarmInv, EpisodesTell, EpisodeTells
  <2>2. \A k \in DOMAIN missions :
          EpisodeTells(k)'
    <3> TAKE k \in DOMAIN missions
    <3>1. CASE k = m
      <4>1. at[m] = "settled" => HasResult(m)
        BY <1>2 DEF SwarmInv, EpisodesTell, EpisodeTells
      <4>2. at[m] = "failed" => ~HasResult(m)
        BY DEF SwarmInv, EpisodesTell, EpisodeTells, HasResult
      <4>3. Len(episodes'[m]) = 1 /\ episodes'[m][1] = episodeVerdict(m)
        BY <1>6
      <4> QED
        BY <1>2, <1>4, <1>10, <3>1, <4>1, <4>2, <4>3 DEF episodeVerdict, EpisodeTells
    <3>2. CASE k # m
      BY <1>4, <1>6, <1>10, <3>2 DEF SwarmInv, EpisodesTell, EpisodeTells
    <3> QED
      BY <3>1, <3>2
  <2> QED
    BY <1>1, <2>1, <2>2 DEF SwarmInv, EpisodesTell
<1>12. ContextsAreReturned'
  BY <1>1 DEF SwarmInv, ContextsAreReturned, HandsOf, Hands
<1> QED
  BY <1>7, <1>8, <1>9, <1>11, <1>12 DEF SwarmInv

\* An episode that cannot be written leaves its mission without one, for good.
LEMMA LogThrowsStep ==
  ASSUME SwarmInv, NEW l \in Lanes, LogThrows(l)
  PROVE  SwarmInv'
<1> DEFINE m == lane[l]
<1>1. /\ On(l, "settled") \/ On(l, "failed")
      /\ pool' \in {pool, "rejected"} /\ at' = [at EXCEPT ![m] = "unlogged"]
      /\ UNCHANGED <<missions, next, lane, results, episodes, seen, signals, contexts, browser>>
  BY DEF LogThrows, captureVars
<1>2. /\ m \in DOMAIN missions /\ at[m] \in {"settled", "failed"}
      /\ at \in [DOMAIN missions -> Phases]
  BY <1>1, LaneIsOn DEF SwarmInv, PoolTypes
<1>3. \A k \in DOMAIN missions : at'[k] = IF k = m THEN "unlogged" ELSE at[k]
  BY <1>1, <1>2
<1>4. PoolTypes'
  <2>1. at' \in [DOMAIN missions -> Phases]
    BY <1>1, <1>2 DEF Phases
  <2>2. pool' \in {"run", "resolved", "rejected"}
    BY <1>1 DEF SwarmInv, PoolTypes
  <2> QED
    BY <1>1, <2>1, <2>2, TypesKept DEF SwarmInv, PoolTypes
<1>5. CaptureTypes'
  BY <1>1, CapturedStands DEF SwarmInv
<1>6. LanesHold'
  BY <1>1, MovesOn
<1>7. EpisodesTell'
  <2>1. \A i \in DOMAIN results : at'[results[i]] \in {"settled", "logged", "unlogged"}
    BY <1>3, ResultsAreOfMissions DEF SwarmInv, EpisodesTell, EpisodeTells
  <2> QED
    BY <1>1, <1>2, <1>3, <2>1 DEF SwarmInv, EpisodesTell, EpisodeTells, HasResult
<1>8. ContextsAreReturned'
  BY <1>1 DEF SwarmInv, ContextsAreReturned, HandsOf, Hands
<1> QED
  BY <1>4, <1>5, <1>6, <1>7, <1>8 DEF SwarmInv

\* What captures leaves all but the captures alone.
LEMMA MissionsStand ==
  ASSUME SwarmInv, CaptureTypes', UNCHANGED <<poolVars, missionVars, contexts, browser>>
  PROVE  SwarmInv'
<1>1. UNCHANGED <<missions, next, lane, pool, at, results, episodes, contexts, browser>>
  BY DEF poolVars, missionVars
<1>2. PoolTypes'
  BY <1>1, TypesKept DEF SwarmInv, PoolTypes
<1>3. LanesHold'
  BY <1>1 DEF SwarmInv, LanesHold, AllDone
<1>4. EpisodesTell'
  BY <1>1 DEF SwarmInv, EpisodesTell, EpisodeTells, HasResult
<1>5. ContextsAreReturned'
  BY <1>1 DEF SwarmInv, ContextsAreReturned, HandsOf, Hands
<1> QED
  BY <1>2, <1>3, <1>4, <1>5 DEF SwarmInv

\* A finding is counted once for each sight of it: with one telemetry event
\* more, no count passes the number of events.
LEMMA CaptureStep ==
  ASSUME SwarmInv, NEW x \in DOMAIN seen, NEW fp \in Faults, NEW hist \in Nat,
         Capture(x, fp, hist)
  PROVE  SwarmInv'
<1> DEFINE X == (DOMAIN missions) \X {"a", "b"}
           f == [fp |-> fp, occ |-> 1, loc |-> "none", hist |-> hist,
                 roles |-> {missions[x[1]].role}]
<1>1. /\ signals \in Nat /\ seen \in [X -> Seq(Finding)] /\ x \in X /\ DOMAIN seen = X
      /\ \A y \in X : \A i \in DOMAIN seen[y] : seen[y][i].occ \in 1 .. signals
  BY DEF SwarmInv, CaptureTypes
<1>2. /\ signals' = signals + 1
      /\ UNCHANGED <<poolVars, missionVars, contexts, browser>> /\ missions' = missions
  BY DEF Capture, poolVars
<1>3. f \in Finding /\ f.occ = 1
  <2>1. x[1] \in DOMAIN missions
    BY <1>1
  <2>2. missions[x[1]].role \in DOMAIN Roles
    BY <2>1 DEF SwarmInv, PoolTypes, Dealt
  <2> QED
    BY <2>2 DEF Finding
<1>4. ASSUME NEW s \in Seq(Finding), seen' = [seen EXCEPT ![x] = s],
             \A i \in DOMAIN s : s[i].occ \in 1 .. signals + 1
      PROVE  CaptureTypes'
  <2>1. seen' \in [X -> Seq(Finding)] /\ \A y \in X : seen'[y] = IF y = x THEN s ELSE seen[y]
    BY <1>1, <1>4
  <2>2. \A y \in X : \A i \in DOMAIN seen'[y] : seen'[y][i].occ \in 1 .. signals'
    BY <1>1, <1>2, <1>4, <2>1
  <2> QED
    BY <1>1, <1>2, <2>1, <2>2 DEF CaptureTypes
<1>5. seen[x] \in Seq(Finding) /\ \A i \in DOMAIN seen[x] : seen[x][i].occ \in 1 .. signals
  BY <1>1
<1> HIDE DEF X, f
<1>6. CASE seen' = [seen EXCEPT ![x] = Append(seen[x], f)]
  <2> DEFINE s == Append(seen[x], f)
  <2>1. /\ s \in Seq(Finding) /\ DOMAIN s = 1 .. Len(seen[x]) + 1
        /\ s[Len(seen[x]) + 1] = f /\ \A i \in DOMAIN seen[x] : s[i] = seen[x][i]
        /\ DOMAIN seen[x] = 1 .. Len(seen[x]) /\ Len(seen[x]) \in Nat
    BY <1>3, <1>5
  <2> HIDE DEF s
  <2>2. \A i \in DOMAIN s : s[i].occ \in 1 .. signals + 1
    <3> TAKE i \in DOMAIN s
    <3>1. i \in DOMAIN seen[x] \/ i = Len(seen[x]) + 1
      BY <2>1
    <3> QED
      BY <1>1, <1>3, <1>5, <2>1, <3>1
  <2>3. CaptureTypes'
    BY <1>4, <1>6, <2>1, <2>2 DEF s
  <2> QED
    BY <1>2, <2>3, MissionsStand
<1>7. ASSUME NEW i \in DOMAIN seen[x], seen' = [seen EXCEPT ![x][i].occ = seen[x][i].occ + 1]
      PROVE  SwarmInv'
  <2> DEFINE g == [seen[x][i] EXCEPT !.occ = seen[x][i].occ + 1]
             s == [seen[x] EXCEPT ![i] = g]
  <2>1. seen[x][i] \in Finding /\ seen[x][i].occ \in Nat /\ seen[x][i].occ <= signals
    BY <1>1, <1>5
  <2>2. g \in Finding /\ g.occ = seen[x][i].occ + 1
    BY <2>1 DEF Finding
  <2> HIDE DEF g
  <2>3. /\ s \in Seq(Finding) /\ DOMAIN s = DOMAIN seen[x]
        /\ \A j \in DOMAIN seen[x] : s[j] = IF j = i THEN g ELSE seen[x][j]
    BY <1>5, <1>7, <2>2
  <2>4. \A j \in DOMAIN s : s[j].occ \in 1 .. signals + 1
    BY <1>1, <1>5, <2>1, <2>2, <2>3
  <2>5. seen' = [seen EXCEPT ![x] = s]
    BY <1>7 DEF g
  <2> HIDE DEF s
  <2>6. CaptureTypes'
    BY <1>4, <2>3, <2>4, <2>5
  <2> QED
    BY <1>2, <2>6, MissionsStand
<1> QED
  BY <1>6, <1>7 DEF Capture, Captured, f

\* Source maps change where a finding is, never how often it was seen.
LEMMA ResolveStep ==
  ASSUME SwarmInv, NEW x \in DOMAIN seen, NEW i \in DOMAIN seen[x],
         NEW loc \in {"own", "unresolved"}, Resolve(x, i, loc)
  PROVE  SwarmInv'
<1> DEFINE X == (DOMAIN missions) \X {"a", "b"}
           g == [seen[x][i] EXCEPT !.loc = loc]
           s == [seen[x] EXCEPT ![i] = g]
<1>1. /\ signals \in Nat /\ seen \in [X -> Seq(Finding)] /\ x \in X /\ DOMAIN seen = X
      /\ \A y \in X : \A j \in DOMAIN seen[y] : seen[y][j].occ \in 1 .. signals
  BY DEF SwarmInv, CaptureTypes
<1>2. /\ UNCHANGED <<poolVars, missionVars, contexts, browser, signals>> /\ missions' = missions
      /\ seen' = [seen EXCEPT ![x][i].loc = loc]
  BY DEF Resolve, poolVars
<1> HIDE DEF X
<1>3. seen[x] \in Seq(Finding) /\ \A j \in DOMAIN seen[x] : seen[x][j].occ \in 1 .. signals
  BY <1>1
<1>4. seen[x][i] \in Finding
  BY <1>3
<1>5. g \in Finding /\ g.occ = seen[x][i].occ
  BY <1>4 DEF Finding
<1>6. seen' = [seen EXCEPT ![x] = s]
  BY <1>2
<1> HIDE DEF g
<1>7. /\ s \in Seq(Finding) /\ DOMAIN s = DOMAIN seen[x]
      /\ \A j \in DOMAIN seen[x] : s[j] = IF j = i THEN g ELSE seen[x][j]
  BY <1>3, <1>5
<1> HIDE DEF s
<1>8. seen' \in [X -> Seq(Finding)] /\ \A y \in X : seen'[y] = IF y = x THEN s ELSE seen[y]
  BY <1>1, <1>6, <1>7
<1>9. \A y \in X : \A j \in DOMAIN seen'[y] : seen'[y][j].occ \in 1 .. signals
  BY <1>1, <1>3, <1>5, <1>7, <1>8
<1>10. CaptureTypes'
  BY <1>1, <1>2, <1>8, <1>9 DEF CaptureTypes, X
<1> QED
  BY <1>2, <1>10, MissionsStand

\* The pool ends, the browser is closed or dies: no mission moves.
LEMMA EndSteps ==
  ASSUME SwarmInv, PoolResolves \/ CloseBrowser \/ Crash
  PROVE  SwarmInv'
<1>1. /\ UNCHANGED <<missions, next, lane, at, results, episodes, seen, signals>>
      /\ pool' = pool \/ (pool' = "resolved" /\ AllDone)
      /\ browser' \in {browser, "crashed", "closed"}
      /\ UNCHANGED <<contexts, browser>> \/ contexts' = {}
  BY DEF PoolResolves, CloseBrowser, Crash, poolVars, missionVars, captureVars
<1>2. PoolTypes'
  BY <1>1, TypesKept DEF SwarmInv, PoolTypes
<1>3. CaptureTypes'
  BY <1>1, CapturedStands DEF SwarmInv
<1>4. LanesHold'
  BY <1>1 DEF SwarmInv, LanesHold, AllDone
<1>5. EpisodesTell'
  BY <1>1 DEF SwarmInv, EpisodesTell, EpisodeTells, HasResult
<1>6. ContextsAreReturned'
  BY <1>1 DEF SwarmInv, ContextsAreReturned, HandsOf, Hands
<1> QED
  BY <1>2, <1>3, <1>4, <1>5, <1>6 DEF SwarmInv

\* One case for each action.
LEMMA NextHolds == SwarmInv /\ [Next]_vars => SwarmInv'
<1> SUFFICES ASSUME SwarmInv, [Next]_vars PROVE SwarmInv'
  OBVIOUS
<1>1. CASE UNCHANGED vars
  <2>1. CaptureTypes'
    BY <1>1, CapturedStands DEF SwarmInv, vars, poolVars, captureVars
  <2> QED
    BY <1>1, <2>1, MissionsStand DEF vars
<1>2. ASSUME NEW l \in Lanes, LaneStep(l) PROVE SwarmInv'
  BY <1>2, TakeStep, OpenSteps, SettleStep, ThrowStep, LogStep, LogThrowsStep DEF LaneStep
<1>3. CASE PoolResolves \/ CloseBrowser \/ Crash
  BY <1>3, EndSteps
<1>4. ASSUME NEW x \in DOMAIN seen, NEW fp \in Faults,
             NEW hist \in 0 .. MaxHistory[Len(missions)], Capture(x, fp, hist)
      PROVE  SwarmInv'
  BY <1>4, CaptureStep
<1>5. ASSUME NEW x \in DOMAIN seen, NEW i \in DOMAIN seen[x],
             NEW loc \in {"own", "unresolved"}, Resolve(x, i, loc)
      PROVE  SwarmInv'
  BY <1>5, ResolveStep
<1> QED
  BY <1>1, <1>2, <1>3, <1>4, <1>5 DEF Next, RunStep

\* A pool that resolved ran every mission: it has logged each of them, and so
\* each has the one episode that says whether it has its one result.
LEMMA AnsweredSays ==
  ASSUME SwarmInv
  PROVE  MissionsAnswered
<1> SUFFICES ASSUME pool = "resolved", NEW m \in DOMAIN missions
             PROVE  /\ Len(episodes[m]) = 1
                    /\ Cardinality({i \in DOMAIN results : results[i] = m}) =
                         (IF episodes[m][1] = "environment_failure" THEN 0 ELSE 1)
  BY DEF MissionsAnswered
<1>1. at[m] = "logged"
  <2>1. AllDone /\ next \in Nat /\ Len(missions) \in Nat /\ DOMAIN missions = 1 .. Len(missions)
    BY DEF SwarmInv, LanesHold, PoolTypes, Dealt
  <2>2. ~(next <= m) /\ m # 0 /\ \A l \in Lanes : lane[l] = 0
    BY <2>1 DEF AllDone
  <2>3. at[m] # "queued"
    BY <2>2 DEF SwarmInv, LanesHold
  <2> QED
    BY <2>2, <2>3 DEF SwarmInv, LanesHold
<1>2. Len(episodes[m]) = 1 /\ (episodes[m][1] = "environment_failure" <=> ~HasResult(m))
  BY <1>1 DEF SwarmInv, EpisodesTell, EpisodeTells
<1> DEFINE at_m == {i \in DOMAIN results : results[i] = m}
<1>3. CASE HasResult(m)
  <2>1. PICK i \in DOMAIN results : results[i] = m
    BY <1>3 DEF HasResult
  <2>2. at_m = {i}
    BY <2>1 DEF SwarmInv, EpisodesTell
  <2> QED
    BY <1>2, <1>3, <2>2, FS_Singleton
<1>4. CASE ~HasResult(m)
  <2>1. at_m = {}
    BY <1>4 DEF HasResult
  <2> QED
    BY <1>2, <1>4, <2>1, FS_EmptySet
<1> QED
  BY <1>3, <1>4

\* The queue begins with a round of all roles.
LEMMA SamplesSay ==
  ASSUME PoolTypes
  PROVE  InterruptedSamplesAll
<1> DEFINE used == {missions[m].role : m \in DOMAIN missions}
           taken == {missions[m].role : m \in 1 .. next - 1}
<1> SUFFICES ASSUME next > Cardinality(used) PROVE taken = used
  BY DEF InterruptedSamplesAll
<1>1. /\ Len(missions) \in Nat /\ DOMAIN missions = 1 .. Len(missions)
      /\ next \in 1 .. Len(missions) + 1 /\ Cardinality(used) \in Nat
      /\ \A k \in used : \E m \in DOMAIN missions : m <= Cardinality(used) /\ missions[m].role = k
  BY DEF PoolTypes, Dealt
<1>2. taken \subseteq used
  BY <1>1
<1>3. ASSUME NEW k \in used PROVE k \in taken
  <2>1. PICK m \in DOMAIN missions : m <= Cardinality(used) /\ missions[m].role = k
    BY <1>1
  <2> HIDE DEF used
  <2>2. m \in 1 .. next - 1
    BY <1>1, <2>1
  <2> QED
    BY <2>1, <2>2
<1> QED
  BY <1>2, <1>3

\* Whatever missions throw, episodes fail to be written and browsers die: each
\* mission of a pool that resolved has its one episode, which says whether its
\* result is there; contexts are given back; and of an interrupted run the first
\* missions are of all roles (src/src/core/swarm.ts, runPool, swarmDetect and
\* buildCatalogMissions).
THEOREM MissionsAccountedHolds == Spec => []MissionsAccounted
<1>1. SwarmInv => MissionsAccounted
  <2> SUFFICES ASSUME SwarmInv PROVE MissionsAccounted
    OBVIOUS
  <2>1. TypeOK
    <3>1. \A x \in DOMAIN seen : \A i \in DOMAIN seen[x] : seen[x][i].fp \in Faults
      <4> TAKE x \in DOMAIN seen
      <4>1. seen[x] \in Seq(Finding)
        BY DEF SwarmInv, CaptureTypes
      <4> TAKE i \in DOMAIN seen[x]
      <4>2. seen[x][i] \in Finding
        BY <4>1
      <4> QED
        BY <4>2 DEF Finding
    <3> QED
      BY <3>1 DEF SwarmInv, PoolTypes, CaptureTypes, EpisodesTell, TypeOK, Phases
  <2>2. MissionsAnswered /\ ContextsAreReturned
    BY AnsweredSays DEF SwarmInv
  <2>3. InterruptedSamplesAll
    BY SamplesSay DEF SwarmInv
  <2> QED
    BY <2>1, <2>2, <2>3 DEF MissionsAccounted
<1> QED
  BY InitHolds, NextHolds, <1>1, PTL DEF Spec

-----------------------------------------------------------------------------
(* The report.  Loops over lists, first: what they make exists, and holds   *)
(* what every turn of the loop keeps.                                       *)

\* A set of numbers has a least one.
LEMMA LeastExists ==
  ASSUME NEW T, T \subseteq Nat, T # {}
  PROVE  \E n \in T : \A m \in T : n <= m
<1>1. IsWellFoundedOn(OpToRel(<, Nat), Nat)
  BY NatLessThanWellFounded
<1>2. PICK n \in T : \A m \in T : ~(<<m, n>> \in OpToRel(<, Nat))
  BY <1>1, WFMin
<1>3. ASSUME NEW m \in T PROVE n <= m
  <2>1. ~(<<m, n>> \in OpToRel(<, Nat))
    BY <1>2
  <2>2. m \in Nat /\ n \in Nat
    OBVIOUS
  <2>3. ~(m < n)
    BY <2>1, <2>2 DEF OpToRel
  <2> QED
    BY <2>2, <2>3
<1> QED
  BY <1>3

\* Induction up to a bound.
LEMMA Climbs ==
  ASSUME NEW L \in Nat, NEW A, 0 \in A, \A n \in 0 .. L - 1 : n \in A => n + 1 \in A
  PROVE  \A n \in 0 .. L : n \in A
<1>1. SUFFICES ASSUME (0 .. L) \ A # {} PROVE FALSE
  OBVIOUS
<1>2. PICK n \in (0 .. L) \ A : \A m \in (0 .. L) \ A : n <= m
  <2>1. (0 .. L) \ A \subseteq Nat
    OBVIOUS
  <2> QED
    BY <1>1, <2>1, LeastExists
<1>3. n - 1 \in A /\ n - 1 \in 0 .. L - 1 /\ n = n - 1 + 1
  BY <1>2
<1> QED
  BY <1>2, <1>3

Lists == Seq(Finding)

\* A loop over a list makes something of it: one value after each element.
LEMMA LoopsEnd ==
  ASSUME NEW L \in Nat, NEW step \in [(1 .. L) \X Lists -> Lists]
  PROVE  \E made \in [0 .. L -> Lists] :
           made[0] = <<>> /\ \A n \in 1 .. L : made[n] = step[<<n, made[n - 1]>>]
<1> DEFINE upTo(n, made) == made[0] = <<>> /\ \A k \in 1 .. n : made[k] = step[<<k, made[k - 1]>>]
           A == {n \in 0 .. L : \E made \in [0 .. n -> Lists] : upTo(n, made)}
<1>1. 0 \in A
  <2>1. [k \in 0 .. 0 |-> <<>>] \in [0 .. 0 -> Lists] /\ upTo(0, [k \in 0 .. 0 |-> <<>>])
    BY DEF Lists
  <2>2. \E made \in [0 .. 0 -> Lists] : upTo(0, made)
    BY <2>1
  <2> QED
    BY <2>2
<1>2. ASSUME NEW n \in 0 .. L - 1, n \in A PROVE n + 1 \in A
  <2>1. PICK made \in [0 .. n -> Lists] : upTo(n, made)
    BY <1>2
  <2>2. step[<<n + 1, made[n]>>] \in Lists
    BY <2>1
  <2> DEFINE more == [k \in 0 .. n + 1 |-> IF k <= n THEN made[k] ELSE step[<<n + 1, made[n]>>]]
  <2>3. more \in [0 .. n + 1 -> Lists]
    BY <2>1, <2>2
  <2>4. more[0] = <<>>
    BY <2>1
  <2>5. ASSUME NEW k \in 1 .. n + 1 PROVE more[k] = step[<<k, more[k - 1]>>]
    <3>1. CASE k <= n
      <4>1. more[k] = made[k] /\ more[k - 1] = made[k - 1] /\ k \in 1 .. n
        BY <3>1
      <4> QED
        BY <2>1, <4>1
    <3>2. CASE k = n + 1
      <4>1. more[k] = step[<<n + 1, made[n]>>] /\ more[k - 1] = made[n]
        BY <3>2
      <4> QED
        BY <3>2, <4>1
    <3> QED
      BY <3>1, <3>2
  <2> HIDE DEF more
  <2>6. upTo(n + 1, more)
    BY <2>4, <2>5
  <2> QED
    BY <2>3, <2>6
<1> HIDE DEF A
<1>3. 0 .. L \subseteq A
  BY <1>1, <1>2, Climbs
<1>4. L \in A
  BY <1>3
<1> QED
  BY <1>4 DEF A

\* The loop of mergeFindings.
LEMMA MergeUnrolls ==
  ASSUME NEW all \in Lists,
         \A kept \in Lists, f \in Finding : MergedWith(kept, f) \in Lists
  PROVE  \E made :
           /\ made[0] = <<>>
           /\ \A n \in 1 .. Len(all) : made[n] = MergedWith(made[n - 1], all[n])
           /\ mergeFindings(all) = made[Len(all)]
<1> DEFINE L == Len(all)
           body(g) == [n \in 0 .. L |-> IF n = 0 THEN <<>> ELSE MergedWith(g[n - 1], all[n])]
           made == CHOOSE g : g = body(g)
           step == [p \in (1 .. L) \X Lists |-> MergedWith(p[2], all[p[1]])]
<1>1. L \in Nat /\ \A n \in 1 .. L : all[n] \in Finding
  BY DEF Lists
<1> HIDE DEF L
<1>2. step \in [(1 .. L) \X Lists -> Lists]
  BY <1>1
<1>3. PICK g \in [0 .. L -> Lists] :
        g[0] = <<>> /\ \A n \in 1 .. L : g[n] = step[<<n, g[n - 1]>>]
  <2> HIDE DEF step
  <2> QED
    BY <1>1, <1>2, LoopsEnd
<1>4. \A n \in 1 .. L : g[n] = MergedWith(g[n - 1], all[n])
  <2> TAKE n \in 1 .. L
  <2>1. n - 1 \in 0 .. L
    BY <1>1
  <2>2. g[n - 1] \in Lists
    BY <1>3, <2>1
  <2> QED
    BY <1>3, <2>2
<1>5. g = body(g)
  BY <1>1, <1>3, <1>4
<1>6. made = body(made)
  BY <1>5
<1>7. mergeFindings(all) = made[L]
  BY DEF mergeFindings, Through, L
<1> HIDE DEF made
<1>8. made[0] = <<>> /\ \A n \in 1 .. L : made[n] = MergedWith(made[n - 1], all[n])
  BY <1>1, <1>6
<1> QED
  BY <1>7, <1>8 DEF L

\* The loop of collapseSignals.
LEMMA CollapseUnrolls ==
  ASSUME NEW all \in Lists,
         \A kept \in Lists, f \in Finding : CollapsedWith(kept, f) \in Lists
  PROVE  \E made :
           /\ made[0] = <<>>
           /\ \A n \in 1 .. Len(all) : made[n] = CollapsedWith(made[n - 1], all[n])
           /\ collapseSignals(all) = made[Len(all)]
<1> DEFINE L == Len(all)
           body(g) == [n \in 0 .. L |-> IF n = 0 THEN <<>> ELSE CollapsedWith(g[n - 1], all[n])]
           made == CHOOSE g : g = body(g)
           step == [p \in (1 .. L) \X Lists |-> CollapsedWith(p[2], all[p[1]])]
<1>1. L \in Nat /\ \A n \in 1 .. L : all[n] \in Finding
  BY DEF Lists
<1> HIDE DEF L
<1>2. step \in [(1 .. L) \X Lists -> Lists]
  BY <1>1
<1>3. PICK g \in [0 .. L -> Lists] :
        g[0] = <<>> /\ \A n \in 1 .. L : g[n] = step[<<n, g[n - 1]>>]
  <2> HIDE DEF step
  <2> QED
    BY <1>1, <1>2, LoopsEnd
<1>4. \A n \in 1 .. L : g[n] = CollapsedWith(g[n - 1], all[n])
  <2> TAKE n \in 1 .. L
  <2>1. n - 1 \in 0 .. L
    BY <1>1
  <2>2. g[n - 1] \in Lists
    BY <1>3, <2>1
  <2> QED
    BY <1>3, <2>2
<1>5. g = body(g)
  BY <1>1, <1>3, <1>4
<1>6. made = body(made)
  BY <1>5
<1>7. collapseSignals(all) = made[L]
  BY DEF collapseSignals, Through, L
<1> HIDE DEF made
<1>8. made[0] = <<>> /\ \A n \in 1 .. L : made[n] = CollapsedWith(made[n - 1], all[n])
  BY <1>1, <1>6
<1> QED
  BY <1>7, <1>8 DEF L

\* The filter of findings().
LEMMA HeardUnrolls ==
  ASSUME NEW all \in Lists,
         \A kept \in Lists, f \in Finding : Heard(kept, f) \in Lists
  PROVE  \E made :
           /\ made[0] = <<>>
           /\ \A n \in 1 .. Len(all) : made[n] = Heard(made[n - 1], all[n])
           /\ Through(all, Heard) = made[Len(all)]
<1> DEFINE L == Len(all)
           body(g) == [n \in 0 .. L |-> IF n = 0 THEN <<>> ELSE Heard(g[n - 1], all[n])]
           made == CHOOSE g : g = body(g)
           step == [p \in (1 .. L) \X Lists |-> Heard(p[2], all[p[1]])]
<1>1. L \in Nat /\ \A n \in 1 .. L : all[n] \in Finding
  BY DEF Lists
<1> HIDE DEF L
<1>2. step \in [(1 .. L) \X Lists -> Lists]
  BY <1>1
<1>3. PICK g \in [0 .. L -> Lists] :
        g[0] = <<>> /\ \A n \in 1 .. L : g[n] = step[<<n, g[n - 1]>>]
  <2> HIDE DEF step
  <2> QED
    BY <1>1, <1>2, LoopsEnd
<1>4. \A n \in 1 .. L : g[n] = Heard(g[n - 1], all[n])
  <2> TAKE n \in 1 .. L
  <2>1. n - 1 \in 0 .. L
    BY <1>1
  <2>2. g[n - 1] \in Lists
    BY <1>3, <2>1
  <2> QED
    BY <1>3, <2>2
<1>5. g = body(g)
  BY <1>1, <1>3, <1>4
<1>6. made = body(made)
  BY <1>5
<1>7. Through(all, Heard) = made[L]
  BY DEF Through, L
<1> HIDE DEF made
<1>8. made[0] = <<>> /\ \A n \in 1 .. L : made[n] = Heard(made[n - 1], all[n])
  BY <1>1, <1>6
<1> QED
  BY <1>7, <1>8 DEF L

\* The results of the missions, one after the other.
LEMMA ResultsUnroll ==
  ASSUME results \in Seq(DOMAIN missions),
         \A kept \in Lists, m \in DOMAIN missions : ThenThoseOf(kept, m) \in Lists
  PROVE  \E made :
           /\ made[0] = <<>>
           /\ \A n \in 1 .. Len(results) : made[n] = ThenThoseOf(made[n - 1], results[n])
           /\ AllFindings = made[Len(results)]
<1> DEFINE L == Len(results)
           body(g) == [n \in 0 .. L |-> IF n = 0 THEN <<>> ELSE ThenThoseOf(g[n - 1], results[n])]
           made == CHOOSE g : g = body(g)
           step == [p \in (1 .. L) \X Lists |-> ThenThoseOf(p[2], results[p[1]])]
<1>1. L \in Nat /\ \A n \in 1 .. L : results[n] \in DOMAIN missions
  BY DEF Lists
<1> HIDE DEF L
<1>2. step \in [(1 .. L) \X Lists -> Lists]
  BY <1>1
<1>3. PICK g \in [0 .. L -> Lists] :
        g[0] = <<>> /\ \A n \in 1 .. L : g[n] = step[<<n, g[n - 1]>>]
  <2> HIDE DEF step
  <2> QED
    BY <1>1, <1>2, LoopsEnd
<1>4. \A n \in 1 .. L : g[n] = ThenThoseOf(g[n - 1], results[n])
  <2> TAKE n \in 1 .. L
  <2>1. n - 1 \in 0 .. L
    BY <1>1
  <2>2. g[n - 1] \in Lists
    BY <1>3, <2>1
  <2> QED
    BY <1>3, <2>2
<1>5. g = body(g)
  BY <1>1, <1>3, <1>4
<1>6. made = body(made)
  BY <1>5
<1>7. AllFindings = made[L]
  BY DEF AllFindings, Through, L
<1> HIDE DEF made
<1>8. made[0] = <<>> /\ \A n \in 1 .. L : made[n] = ThenThoseOf(made[n - 1], results[n])
  BY <1>1, <1>6
<1> QED
  BY <1>7, <1>8 DEF L


(* What a group keeps of the findings that went into it.                    *)

\* g stands for e and f: it has all their occurrences, the longer history and
\* the worse severity.
Joins(g, e, f) ==
  /\ g \in Finding /\ Root(g) = Root(e) /\ g.occ = e.occ + f.occ
  /\ g.hist >= e.hist /\ g.hist >= f.hist
  /\ Severity[g.fp] >= Severity[e.fp] /\ Severity[g.fp] >= Severity[f.fp]

\* The parts of a finding.
LEMMA FindingSays ==
  ASSUME NEW f \in Finding
  PROVE  /\ f.fp \in Faults /\ f.occ \in Nat /\ f.hist \in Nat /\ f.roles \in SUBSET DOMAIN Roles
         /\ f.loc \in {"none", "own", "unresolved"} /\ Severity[f.fp] \in 0 .. 3
BY SwarmAssumption DEF Finding

\* The longer of two histories is as long as each.
LEMMA LongerHistory ==
  ASSUME NEW a \in Nat, NEW b \in Nat
  PROVE  Max({a, b}) \in Nat /\ Max({a, b}) >= a /\ Max({a, b}) >= b
<1>1. \E x \in {a, b} : \A y \in {a, b} : x >= y
  OBVIOUS
<1>2. Max({a, b}) \in {a, b} /\ \A y \in {a, b} : Max({a, b}) >= y
  BY <1>1 DEF Max
<1> QED
  BY <1>2

\* Two pooled findings count as both and keep the longer history.
LEMMA PooledJoins ==
  ASSUME NEW e \in Finding, NEW f \in Finding
  PROVE  /\ Pooled(e, f) \in Finding
         /\ Pooled(e, f).fp = e.fp /\ Pooled(e, f).occ = e.occ + f.occ
         /\ Pooled(e, f).hist >= e.hist /\ Pooled(e, f).hist >= f.hist
         /\ Pooled(e, f).roles = e.roles
<1> DEFINE h == Max({e.hist, f.hist})
           l == IF e.loc = "none" THEN f.loc ELSE e.loc
<1>1. h \in Nat /\ h >= e.hist /\ h >= f.hist
  BY FindingSays, LongerHistory
<1>2. l \in {"none", "own", "unresolved"}
  BY FindingSays
<1>3. Pooled(e, f) = [fp |-> e.fp, occ |-> e.occ + f.occ, loc |-> l, hist |-> h,
                      roles |-> e.roles]
  <2>1. e = [fp |-> e.fp, occ |-> e.occ, loc |-> e.loc, hist |-> e.hist, roles |-> e.roles]
    BY DEF Finding
  <2>2. Pooled(e, f) = [e EXCEPT !.occ = e.occ + f.occ, !.loc = l, !.hist = h]
    BY DEF Pooled
  <2> HIDE DEF h, l
  <2> QED
    BY <2>1, <2>2
<1> HIDE DEF h, l
<1> QED
  BY <1>1, <1>2, <1>3, FindingSays DEF Finding

\* So do two that mergeFindings makes one, which keeps the fingerprint.
LEMMA MergeTwoJoins ==
  ASSUME NEW e \in Finding, NEW f \in Finding, e.fp = f.fp
  PROVE  Joins(MergeTwo(e, f), e, f) /\ MergeTwo(e, f).fp = e.fp
<1> DEFINE p == Pooled(e, f)
<1>1. /\ p \in Finding /\ p.fp = e.fp /\ p.occ = e.occ + f.occ
      /\ p.hist >= e.hist /\ p.hist >= f.hist
  BY PooledJoins
<1>2. MergeTwo(e, f) = [p EXCEPT !.roles = @ \cup f.roles]
  BY DEF MergeTwo
<1> HIDE DEF p
<1>3. MergeTwo(e, f) = [fp |-> p.fp, occ |-> p.occ, loc |-> p.loc, hist |-> p.hist,
                        roles |-> p.roles \cup f.roles]
  BY <1>1, <1>2 DEF Finding
<1>4. MergeTwo(e, f) \in Finding
  BY <1>1, <1>3, FindingSays DEF Finding
<1> QED
  BY <1>1, <1>3, <1>4, FindingSays DEF Joins, Root, Finding

\* The richer of two findings is one of them, and as severe as each.
LEMMA RicherOfTwo ==
  ASSUME NEW e \in Finding, NEW f \in Finding
  PROVE  /\ richer(e, f) \in {e, f}
         /\ Severity[richer(e, f).fp] >= Severity[e.fp]
         /\ Severity[richer(e, f).fp] >= Severity[f.fp]
<1>1. Severity[e.fp] \in 0 .. 3 /\ Severity[f.fp] \in 0 .. 3
  BY FindingSays
<1>2. CASE Severity[e.fp] # Severity[f.fp]
  BY <1>1, <1>2 DEF richer
<1>3. CASE Severity[e.fp] = Severity[f.fp]
  BY <1>1, <1>3 DEF richer
<1> QED
  BY <1>2, <1>3

\* Two that collapseSignals makes one lose nothing either.
LEMMA CollapseTwoJoins ==
  ASSUME NEW e \in Finding, NEW f \in Finding, Root(e) = Root(f)
  PROVE  Joins(CollapseTwo(e, f), e, f)
<1> DEFINE p == Pooled(e, f)
           r == richer(e, f)
<1>1. /\ p \in Finding /\ p.occ = e.occ + f.occ
      /\ p.hist >= e.hist /\ p.hist >= f.hist
  BY PooledJoins
<1>2. /\ r \in Finding /\ Root(r) = Root(e)
      /\ Severity[r.fp] >= Severity[e.fp] /\ Severity[r.fp] >= Severity[f.fp]
  BY RicherOfTwo
<1>3. CollapseTwo(e, f) = [r EXCEPT !.occ = p.occ, !.loc = p.loc, !.hist = p.hist]
  BY DEF CollapseTwo
<1> HIDE DEF p, r
<1>4. CollapseTwo(e, f) = [fp |-> r.fp, occ |-> p.occ, loc |-> p.loc, hist |-> p.hist,
                           roles |-> r.roles]
  BY <1>2, <1>3 DEF Finding
<1>5. CollapseTwo(e, f) \in Finding
  BY <1>1, <1>2, <1>4, FindingSays DEF Finding
<1> QED
  BY <1>1, <1>2, <1>4, <1>5 DEF Joins, Root

(* Counting.                                                                *)

\* A sighting is a finding of the root cause and one of its occurrences; they are finitely many.
LEMMA SightingsAreFinite ==
  ASSUME NEW list \in Lists, NEW root
  PROVE  /\ \A s : s \in Sightings(list, root) <=>
              /\ s = <<s[1], s[2]>> /\ s[1] \in DOMAIN list /\ Root(list[s[1]]) = root
              /\ s[2] \in Nat /\ 1 <= s[2] /\ s[2] <= list[s[1]].occ
         /\ IsFiniteSet(Sightings(list, root)) /\ Cardinality(Sightings(list, root)) \in Nat
<1> DEFINE D == OfRoot(list, root)
           Parts == {{i} \X (1 .. list[i].occ) : i \in D}
<1>1. /\ DOMAIN list = 1 .. Len(list) /\ Len(list) \in Nat
      /\ \A i \in DOMAIN list : list[i] \in Finding
  BY DEF Lists
<1>2. D \subseteq DOMAIN list /\ \A i \in D : list[i].occ \in Nat
  BY <1>1, FindingSays DEF OfRoot
<1>3. IsFiniteSet(D)
  <2>1. IsFiniteSet(DOMAIN list)
    BY <1>1, FS_Interval
  <2> HIDE DEF D
  <2> QED
    BY <1>2, <2>1, FS_Subset
<1>4. \A i \in D : IsFiniteSet({i} \X (1 .. list[i].occ))
  <2> TAKE i \in D
  <2>1. IsFiniteSet({i})
    BY FS_Singleton
  <2>2. IsFiniteSet(1 .. list[i].occ)
    BY <1>2, FS_Interval
  <2> QED
    BY <2>1, <2>2, FS_Product
<1>5. IsFiniteSet(Parts)
  <2> DEFINE part == [i \in D |-> {i} \X (1 .. list[i].occ)]
  <2>1. part \in Surjection(D, Parts)
    BY DEF Surjection
  <2> QED
    BY <2>1, <1>3, FS_Surjection
<1>6. IsFiniteSet(UNION Parts)
  BY <1>4, <1>5, FS_UNION
<1>7. IsFiniteSet(Sightings(list, root)) /\ Cardinality(Sightings(list, root)) \in Nat
  BY <1>6, FS_CardinalityType DEF Sightings
<1> HIDE DEF D
<1>8. \A s : s \in Sightings(list, root) <=>
        \E i \in D : \E k \in 1 .. list[i].occ : s = <<i, k>>
  BY DEF Sightings, D
<1>9. ASSUME NEW s
      PROVE  s \in Sightings(list, root) <=>
               /\ s = <<s[1], s[2]>> /\ s[1] \in D
               /\ s[2] \in Nat /\ 1 <= s[2] /\ s[2] <= list[s[1]].occ
  <2>1. ASSUME s \in Sightings(list, root)
        PROVE  /\ s = <<s[1], s[2]>> /\ s[1] \in D
               /\ s[2] \in Nat /\ 1 <= s[2] /\ s[2] <= list[s[1]].occ
    <3>0. PICK i \in D : \E k \in 1 .. list[i].occ : s = <<i, k>>
      BY <1>8, <2>1
    <3>1. PICK k \in 1 .. list[i].occ : s = <<i, k>>
      BY <3>0
    <3>2. s[1] = i /\ s[2] = k
      BY <3>1
    <3> QED
      BY <1>2, <3>1, <3>2
  <2>2. ASSUME s = <<s[1], s[2]>>, s[1] \in D,
               s[2] \in Nat, 1 <= s[2], s[2] <= list[s[1]].occ
        PROVE  s \in Sightings(list, root)
    <3>1. s[2] \in 1 .. list[s[1]].occ
      BY <1>2, <2>2
    <3> QED
      BY <1>8, <2>2, <3>1
  <2> QED
    BY <2>1, <2>2
<1> QED
  BY <1>1, <1>7, <1>9 DEF OfRoot, D

\* The next c occurrences after a.
Further(k, a, c) == {k} \X (a + 1 .. a + c)

\* The sightings that c more occurrences add are c.
LEMMA FurtherCount ==
  ASSUME NEW k, NEW a \in Nat, NEW c \in Nat
  PROVE  IsFiniteSet(Further(k, a, c)) /\ Cardinality(Further(k, a, c)) = c
<1> DEFINE K == {k}
           p == a + 1
           q == a + c
           I == p .. q
<1>1. IsFiniteSet(K) /\ Cardinality(K) = 1
  BY FS_Singleton
<1>2. p \in Int /\ q \in Int /\ (IF p > q THEN 0 ELSE q - p + 1) = c
  OBVIOUS
<1> HIDE DEF p, q
<1>3. IsFiniteSet(I) /\ Cardinality(I) = c
  BY <1>2, FS_Interval
<1> HIDE DEF K, I
<1>4. IsFiniteSet(K \X I) /\ Cardinality(K \X I) = 1 * c
  BY <1>1, <1>3, FS_Product
<1> QED
  BY <1>4 DEF K, I, p, q, Further

\* A finding that is added to a list adds its own occurrences.
LEMMA SightingsGrow ==
  ASSUME NEW list \in Lists, NEW f \in Finding, NEW root
  PROVE  Cardinality(Sightings(Append(list, f), root)) =
           Cardinality(Sightings(list, root)) + (IF Root(f) = root THEN f.occ ELSE 0)
<1> DEFINE more == Append(list, f)
           old  == Sightings(list, root)
           new  == IF Root(f) = root THEN Further(Len(list) + 1, 0, f.occ) ELSE {}
<1>1. /\ Len(list) \in Nat /\ DOMAIN list = 1 .. Len(list)
      /\ \A i \in DOMAIN list : list[i] \in Finding
  BY DEF Lists
<1>2. /\ more \in Lists /\ DOMAIN more = 1 .. Len(list) + 1
      /\ more[Len(list) + 1] = f /\ \A i \in DOMAIN list : more[i] = list[i]
  BY DEF Lists
<1> HIDE DEF more
<1>3. f.occ \in Nat
  BY FindingSays
<1>4. IsFiniteSet(new) /\ Cardinality(new) = IF Root(f) = root THEN f.occ ELSE 0
  <2>1. IsFiniteSet({}) /\ Cardinality({}) = 0
    BY FS_EmptySet
  <2> DEFINE Added == Further(Len(list) + 1, 0, f.occ)
  <2>2. IsFiniteSet(Added) /\ Cardinality(Added) = f.occ
    BY <1>3, FurtherCount
  <2> HIDE DEF Added
  <2>4. CASE Root(f) = root
    <3>1. new = Added
      BY <2>4 DEF Added
    <3> HIDE DEF new
    <3> QED
      BY <2>2, <2>4, <3>1
  <2>5. CASE Root(f) # root
    <3>1. new = {}
      BY <2>5
    <3> HIDE DEF new
    <3> QED
      BY <2>1, <2>5, <3>1
  <2> QED
    BY <2>4, <2>5
<1>5. Sightings(more, root) = old \cup new
  <2>1. ASSUME NEW s PROVE s \in Sightings(more, root) <=> s \in old \/ s \in new
    <3>1. s \in Sightings(more, root) <=>
              /\ s = <<s[1], s[2]>> /\ s[1] \in DOMAIN more /\ Root(more[s[1]]) = root
              /\ s[2] \in Nat /\ 1 <= s[2] /\ s[2] <= more[s[1]].occ
      BY <1>2, SightingsAreFinite
    <3>2. s \in old <=>
              /\ s = <<s[1], s[2]>> /\ s[1] \in DOMAIN list /\ Root(list[s[1]]) = root
              /\ s[2] \in Nat /\ 1 <= s[2] /\ s[2] <= list[s[1]].occ
      BY SightingsAreFinite
    <3>3. s \in new <=>
              /\ s = <<s[1], s[2]>> /\ s[1] = Len(list) + 1 /\ Root(f) = root
              /\ s[2] \in Nat /\ 1 <= s[2] /\ s[2] <= f.occ
      BY <1>3 DEF Further
    <3> HIDE DEF old, new
    <3>4. CASE s[1] \in DOMAIN list
      <4>1. s[1] \in DOMAIN more /\ more[s[1]] = list[s[1]] /\ s[1] # Len(list) + 1
        BY <1>1, <1>2, <3>4
      <4> QED
        BY <3>1, <3>2, <3>3, <3>4, <4>1
    <3>5. CASE s[1] = Len(list) + 1
      <4>1. s[1] \in DOMAIN more /\ more[s[1]] = f /\ s[1] \notin DOMAIN list
        BY <1>1, <1>2, <3>5
      <4> QED
        BY <3>1, <3>2, <3>3, <3>5, <4>1
    <3>6. CASE s[1] \notin DOMAIN list /\ s[1] # Len(list) + 1
      <4>1. s[1] \notin DOMAIN more
        BY <1>1, <1>2, <3>6
      <4> QED
        BY <3>1, <3>2, <3>3, <3>6, <4>1
    <3> QED
      BY <3>4, <3>5, <3>6
  <2> HIDE DEF old, new
  <2> QED
    BY <2>1
<1>6. old \cap new = {}
  <2>1. \A s \in old : s[1] \in DOMAIN list
    BY SightingsAreFinite
  <2>2. \A s \in new : s[1] = Len(list) + 1
    BY DEF Further
  <2>3. Len(list) + 1 \notin DOMAIN list
    BY <1>1
  <2> HIDE DEF old, new
  <2> QED
    BY <2>1, <2>2, <2>3
<1>7. IsFiniteSet(old) /\ Cardinality(old) \in Nat
  BY SightingsAreFinite
<1> HIDE DEF old, new
<1>8. Cardinality(old \cup new) = Cardinality(old) + Cardinality(new)
  <2>1. Cardinality(old \cap new) = 0
    BY <1>6, FS_EmptySet
  <2>2. Cardinality(old \cup new) = Cardinality(old) + Cardinality(new) - Cardinality(old \cap new)
    BY <1>4, <1>7, FS_Union
  <2>3. Cardinality(new) \in Nat
    BY <1>4, FS_CardinalityType
  <2> QED
    BY <1>7, <2>1, <2>2, <2>3
<1> QED
  BY <1>4, <1>5, <1>8 DEF old, more

\* A finding of a list that is replaced by one that has c occurrences more adds
\* these.
LEMMA SightingsJoin ==
  ASSUME NEW list \in Lists, NEW j \in DOMAIN list, NEW g \in Finding, NEW c \in Nat,
         Root(g) = Root(list[j]), g.occ = list[j].occ + c, NEW root
  PROVE  Cardinality(Sightings([i \in DOMAIN list |-> IF i = j THEN g ELSE list[i]], root)) =
           Cardinality(Sightings(list, root)) + (IF Root(g) = root THEN c ELSE 0)
<1> DEFINE more == [i \in DOMAIN list |-> IF i = j THEN g ELSE list[i]]
           o    == list[j].occ
           old  == Sightings(list, root)
           new  == IF Root(g) = root THEN Further(j, o, c) ELSE {}
<1>1. /\ Len(list) \in Nat /\ DOMAIN list = 1 .. Len(list)
      /\ \A i \in DOMAIN list : list[i] \in Finding
  BY DEF Lists
<1>2. /\ more \in Lists /\ DOMAIN more = DOMAIN list
      /\ more[j] = g /\ \A i \in DOMAIN list : i # j => more[i] = list[i]
  BY <1>1 DEF Lists
<1> HIDE DEF more
<1>3. o \in Nat
  BY <1>1, FindingSays
<1> HIDE DEF o
<1>4. IsFiniteSet(new) /\ Cardinality(new) = IF Root(g) = root THEN c ELSE 0
  <2>1. IsFiniteSet({}) /\ Cardinality({}) = 0
    BY FS_EmptySet
  <2>2. /\ IsFiniteSet(Further(j, o, c))
        /\ Cardinality(Further(j, o, c)) = c
    BY <1>3, FurtherCount
  <2>4. CASE Root(g) = root
    <3>1. new = Further(j, o, c)
      BY <2>4
    <3> HIDE DEF new
    <3> QED
      BY <2>2, <2>4, <3>1
  <2>5. CASE Root(g) # root
    <3>1. new = {}
      BY <2>5
    <3> HIDE DEF new
    <3> QED
      BY <2>1, <2>5, <3>1
  <2> QED
    BY <2>4, <2>5
<1>5. Sightings(more, root) = old \cup new
  <2>1. ASSUME NEW s PROVE s \in Sightings(more, root) <=> s \in old \/ s \in new
    <3>1. s \in Sightings(more, root) <=>
              /\ s = <<s[1], s[2]>> /\ s[1] \in DOMAIN more /\ Root(more[s[1]]) = root
              /\ s[2] \in Nat /\ 1 <= s[2] /\ s[2] <= more[s[1]].occ
      BY <1>2, SightingsAreFinite
    <3>2. s \in old <=>
              /\ s = <<s[1], s[2]>> /\ s[1] \in DOMAIN list /\ Root(list[s[1]]) = root
              /\ s[2] \in Nat /\ 1 <= s[2] /\ s[2] <= list[s[1]].occ
      BY SightingsAreFinite
    <3>3. s \in new <=>
              /\ s = <<s[1], s[2]>> /\ s[1] = j /\ Root(g) = root
              /\ s[2] \in Nat /\ o + 1 <= s[2] /\ s[2] <= o + c
      BY <1>3 DEF Further
    <3> HIDE DEF old, new
    <3>4. CASE s[1] = j
      <4>1. s[1] \in DOMAIN more /\ more[s[1]] = g /\ list[s[1]].occ = o
        BY <1>2, <3>4 DEF o
      <4>2. g.occ = o + c
        BY DEF o
      <4> QED
        BY <1>3, <3>1, <3>2, <3>3, <3>4, <4>1, <4>2
    <3>5. CASE s[1] # j
      <4>1. s[1] \in DOMAIN list => more[s[1]] = list[s[1]]
        BY <1>2, <3>5
      <4> QED
        BY <1>2, <3>1, <3>2, <3>3, <3>5, <4>1
    <3> QED
      BY <3>4, <3>5
  <2> HIDE DEF old, new
  <2> QED
    BY <2>1
<1>6. old \cap new = {}
  <2>1. \A s \in old : s[2] \in Nat /\ s[2] <= list[s[1]].occ
    BY SightingsAreFinite
  <2>2. \A s \in new : s[1] = j /\ s[2] \in o + 1 .. o + c
    BY DEF Further
  <2> HIDE DEF old, new
  <2> SUFFICES ASSUME NEW s \in old \cap new PROVE FALSE
    OBVIOUS
  <2>3. s[2] <= o
    BY <2>1, <2>2 DEF o
  <2>4. s[2] \in o + 1 .. o + c
    BY <2>2
  <2> QED
    BY <1>3, <2>3, <2>4
<1>7. IsFiniteSet(old) /\ Cardinality(old) \in Nat
  BY SightingsAreFinite
<1> HIDE DEF old, new
<1>8. Cardinality(old \cup new) = Cardinality(old) + Cardinality(new)
  <2>1. Cardinality(old \cap new) = 0
    BY <1>6, FS_EmptySet
  <2>2. Cardinality(old \cup new) = Cardinality(old) + Cardinality(new) - Cardinality(old \cap new)
    BY <1>4, <1>7, FS_Union
  <2>3. Cardinality(new) \in Nat
    BY <1>4, FS_CardinalityType
  <2> QED
    BY <1>7, <2>1, <2>2, <2>3
<1> QED
  BY <1>4, <1>5, <1>8 DEF old, more

(* Grouping.                                                                *)

\* The groups tell of a list: each finding has one of its root cause that is no
\* weaker, each group one it came from, and no occurrence is lost or doubled.
Tells(kept, list) ==
  /\ kept \in Lists /\ list \in Lists
  /\ \A i \in DOMAIN list : \E j \in DOMAIN kept :
       /\ Root(kept[j]) = Root(list[i]) /\ kept[j].hist >= list[i].hist
       /\ Severity[kept[j].fp] >= Severity[list[i].fp]
  /\ \A j \in DOMAIN kept : \E i \in DOMAIN list : Root(list[i]) = Root(kept[j])
  /\ \A root : Cardinality(Sightings(kept, root)) = Cardinality(Sightings(list, root))

\* What a list of findings is.
LEMMA ListSays ==
  ASSUME NEW list \in Lists
  PROVE  /\ Len(list) \in Nat /\ DOMAIN list = 1 .. Len(list)
         /\ \A i \in DOMAIN list : list[i] \in Finding
BY DEF Lists

\* A list with one more finding.
LEMMA AppendSays ==
  ASSUME NEW list \in Lists, NEW f \in Finding
  PROVE  /\ Append(list, f) \in Lists
         /\ DOMAIN Append(list, f) = DOMAIN list \cup {Len(list) + 1}
         /\ Len(list) + 1 \notin DOMAIN list
         /\ Append(list, f)[Len(list) + 1] = f
         /\ \A i \in DOMAIN list : Append(list, f)[i] = list[i]
BY DEF Lists

\* The first of its group is kept as it is.
LEMMA FirstTells ==
  ASSUME NEW kept, NEW list, NEW f \in Finding, Tells(kept, list)
  PROVE  Tells(Append(kept, f), Append(list, f))
<1> DEFINE k == Append(kept, f)
           l == Append(list, f)
           a == Len(kept) + 1
           b == Len(list) + 1
<1>1. kept \in Lists /\ list \in Lists
  BY DEF Tells
<1>2. /\ k \in Lists /\ DOMAIN k = DOMAIN kept \cup {a} /\ k[a] = f
      /\ \A i \in DOMAIN kept : k[i] = kept[i]
  BY <1>1, AppendSays
<1>3. /\ l \in Lists /\ DOMAIN l = DOMAIN list \cup {b} /\ l[b] = f
      /\ \A i \in DOMAIN list : l[i] = list[i]
  BY <1>1, AppendSays
<1>4. \A root : Cardinality(Sightings(k, root)) = Cardinality(Sightings(l, root))
  <2> TAKE root
  <2>1. /\ Cardinality(Sightings(k, root)) =
             Cardinality(Sightings(kept, root)) + (IF Root(f) = root THEN f.occ ELSE 0)
        /\ Cardinality(Sightings(l, root)) =
             Cardinality(Sightings(list, root)) + (IF Root(f) = root THEN f.occ ELSE 0)
    BY <1>1, SightingsGrow
  <2>2. Cardinality(Sightings(kept, root)) = Cardinality(Sightings(list, root))
    BY DEF Tells
  <2> QED
    BY <2>1, <2>2
<1> HIDE DEF k, l, a, b
<1>5. ASSUME NEW i \in DOMAIN l
      PROVE  \E j \in DOMAIN k :
               /\ Root(k[j]) = Root(l[i]) /\ k[j].hist >= l[i].hist
               /\ Severity[k[j].fp] >= Severity[l[i].fp]
  <2>1. CASE i \in DOMAIN list
    <3>1. PICK j \in DOMAIN kept :
             /\ Root(kept[j]) = Root(list[i]) /\ kept[j].hist >= list[i].hist
             /\ Severity[kept[j].fp] >= Severity[list[i].fp]
      BY <2>1 DEF Tells
    <3> QED
      BY <1>2, <1>3, <2>1, <3>1
  <2>2. CASE i = b
    <3>1. f.hist >= f.hist /\ Severity[f.fp] >= Severity[f.fp]
      BY FindingSays
    <3> QED
      BY <1>2, <1>3, <2>2, <3>1
  <2> QED
    BY <1>3, <2>1, <2>2
<1>6. ASSUME NEW j \in DOMAIN k PROVE \E i \in DOMAIN l : Root(l[i]) = Root(k[j])
  <2>1. CASE j \in DOMAIN kept
    <3>1. PICK i \in DOMAIN list : Root(list[i]) = Root(kept[j])
      BY <2>1 DEF Tells
    <3> QED
      BY <1>2, <1>3, <2>1, <3>1
  <2>2. CASE j = a
    BY <1>2, <1>3, <2>2
  <2> QED
    BY <1>2, <2>1, <2>2
<1>7. Tells(k, l)
  BY <1>2, <1>3, <1>4, <1>5, <1>6 DEF Tells
<1> QED
  BY <1>7 DEF k, l

\* A later one is joined with its group.
LEMMA LaterTells ==
  ASSUME NEW kept, NEW list, NEW f \in Finding, Tells(kept, list),
         NEW j \in DOMAIN kept, NEW g, Joins(g, kept[j], f), Root(kept[j]) = Root(f)
  PROVE  Tells([i \in DOMAIN kept |-> IF i = j THEN g ELSE kept[i]], Append(list, f))
<1> DEFINE k == [i \in DOMAIN kept |-> IF i = j THEN g ELSE kept[i]]
           l == Append(list, f)
           b == Len(list) + 1
<1>1. kept \in Lists /\ list \in Lists /\ g \in Finding
  BY DEF Tells, Joins
<1>2. /\ k \in Lists /\ DOMAIN k = DOMAIN kept /\ k[j] = g
      /\ \A i \in DOMAIN kept : i # j => k[i] = kept[i]
  <2>1. /\ Len(kept) \in Nat /\ DOMAIN kept = 1 .. Len(kept)
        /\ \A i \in DOMAIN kept : kept[i] \in Finding
    BY <1>1, ListSays
  <2> QED
    BY <1>1, <2>1 DEF Lists
<1>3. /\ l \in Lists /\ DOMAIN l = DOMAIN list \cup {b} /\ l[b] = f
      /\ \A i \in DOMAIN list : l[i] = list[i]
  BY <1>1, AppendSays
<1>4. /\ Root(g) = Root(kept[j]) /\ g.occ = kept[j].occ + f.occ
      /\ g.hist >= kept[j].hist /\ g.hist >= f.hist
      /\ Severity[g.fp] >= Severity[kept[j].fp] /\ Severity[g.fp] >= Severity[f.fp]
  BY DEF Joins
<1>5. \A root : Cardinality(Sightings(k, root)) = Cardinality(Sightings(l, root))
  <2> TAKE root
  <2>0. f.occ \in Nat
    BY FindingSays
  <2>1. Cardinality(Sightings(k, root)) =
             Cardinality(Sightings(kept, root)) + (IF Root(g) = root THEN f.occ ELSE 0)
    BY <1>1, <1>4, <2>0, SightingsJoin
  <2>2. Cardinality(Sightings(l, root)) =
             Cardinality(Sightings(list, root)) + (IF Root(f) = root THEN f.occ ELSE 0)
    BY <1>1, SightingsGrow
  <2>3. Cardinality(Sightings(kept, root)) = Cardinality(Sightings(list, root))
    BY DEF Tells
  <2> QED
    BY <1>4, <2>1, <2>2, <2>3
<1>6. /\ g.hist \in Nat /\ kept[j].hist \in Nat
      /\ Severity[g.fp] \in 0 .. 3 /\ Severity[kept[j].fp] \in 0 .. 3
  <2>1. kept[j] \in Finding
    BY <1>1, ListSays
  <2> QED
    BY <1>1, <2>1, FindingSays
<1> HIDE DEF k, l, b
<1>7. ASSUME NEW i \in DOMAIN l
      PROVE  \E n \in DOMAIN k :
               /\ Root(k[n]) = Root(l[i]) /\ k[n].hist >= l[i].hist
               /\ Severity[k[n].fp] >= Severity[l[i].fp]
  <2>1. CASE i \in DOMAIN list
    <3>1. PICK n \in DOMAIN kept :
             /\ Root(kept[n]) = Root(list[i]) /\ kept[n].hist >= list[i].hist
             /\ Severity[kept[n].fp] >= Severity[list[i].fp]
      BY <2>1 DEF Tells
    <3>2. CASE n # j
      BY <1>2, <1>3, <2>1, <3>1, <3>2
    <3>3. CASE n = j
      <4>1. l[i].hist \in Nat /\ Severity[l[i].fp] \in 0 .. 3
        <5>1. list[i] \in Finding
          BY <1>1, <2>1, ListSays
        <5> QED
          BY <1>3, <2>1, <5>1, FindingSays
      <4>2. l[i] = list[i]
        BY <1>3, <2>1
      <4>3. g.hist >= l[i].hist /\ Severity[g.fp] >= Severity[l[i].fp]
        BY <1>4, <1>6, <3>1, <3>3, <4>1, <4>2
      <4>4. Root(g) = Root(l[i])
        BY <1>4, <3>1, <3>3, <4>2
      <4> QED
        BY <1>2, <4>3, <4>4
    <3> QED
      BY <3>2, <3>3
  <2>2. CASE i = b
    BY <1>2, <1>3, <1>4, <2>2
  <2> QED
    BY <1>3, <2>1, <2>2
<1>8. ASSUME NEW n \in DOMAIN k PROVE \E i \in DOMAIN l : Root(l[i]) = Root(k[n])
  <2>1. Root(k[n]) = Root(kept[n])
    BY <1>2, <1>4
  <2>2. PICK i \in DOMAIN list : Root(list[i]) = Root(kept[n])
    BY <1>2 DEF Tells
  <2> QED
    BY <1>3, <2>1, <2>2
<1>9. Tells(k, l)
  BY <1>2, <1>3, <1>5, <1>7, <1>8 DEF Tells
<1> QED
  BY <1>9 DEF k, l

\* Each fingerprint has one group.
ByFingerprint(kept) == \A i, j \in DOMAIN kept : kept[i].fp = kept[j].fp => i = j

\* One step of mergeFindings makes a list of findings.
LEMMA MergedIsListed ==
  \A kept \in Lists, f \in Finding : MergedWith(kept, f) \in Lists
<1> TAKE kept \in Lists, f \in Finding
<1>1. /\ Len(kept) \in Nat /\ DOMAIN kept = 1 .. Len(kept)
      /\ \A i \in DOMAIN kept : kept[i] \in Finding
  BY ListSays
<1> DEFINE k == [i \in DOMAIN kept |-> IF kept[i].fp = f.fp THEN MergeTwo(kept[i], f)
                                                              ELSE kept[i]]
<1>2. ASSUME NEW i \in DOMAIN kept PROVE k[i] \in Finding
  <2>1. kept[i] \in Finding
    BY <1>1
  <2>2. kept[i].fp = f.fp => MergeTwo(kept[i], f) \in Finding
    BY <2>1, MergeTwoJoins DEF Joins
  <2> QED
    BY <2>1, <2>2
<1>3. k \in Lists
  <2>1. DOMAIN k = 1 .. Len(kept)
    BY <1>1
  <2> HIDE DEF k
  <2> QED
    <3>1. k = [i \in 1 .. Len(kept) |-> k[i]] /\ \A i \in 1 .. Len(kept) : k[i] \in Finding
      <4>1. k = [i \in DOMAIN kept |-> k[i]]
        BY DEF k
      <4> QED
        BY <1>1, <1>2, <4>1
    <3> QED
      BY <1>1, <3>1 DEF Lists
<1>4. Append(kept, f) \in Lists
  BY AppendSays
<1>5. MergedWith(kept, f) = k \/ MergedWith(kept, f) = Append(kept, f)
  BY DEF MergedWith, GroupedWith, Fingerprint
<1> QED
  BY <1>3, <1>4, <1>5

\* mergeFindings, one finding further.
LEMMA MergedTells ==
  ASSUME NEW kept, NEW list, NEW f \in Finding, Tells(kept, list), ByFingerprint(kept)
  PROVE  Tells(MergedWith(kept, f), Append(list, f)) /\ ByFingerprint(MergedWith(kept, f))
<1>1. kept \in Lists
  BY DEF Tells
<1>2. \A i \in DOMAIN kept : kept[i] \in Finding
  BY <1>1, ListSays
<1>3. CASE \E i \in DOMAIN kept : kept[i].fp = f.fp
  <2>1. PICK j \in DOMAIN kept : kept[j].fp = f.fp
    BY <1>3
  <2> DEFINE g == MergeTwo(kept[j], f)
  <2>2. Joins(g, kept[j], f) /\ g.fp = kept[j].fp /\ Root(kept[j]) = Root(f)
    BY <1>2, <2>1, MergeTwoJoins DEF Root, Joins
  <2>3. \A i \in DOMAIN kept : kept[i].fp = f.fp <=> i = j
    BY <2>1 DEF ByFingerprint
  <2>4. MergedWith(kept, f) = [i \in DOMAIN kept |-> IF kept[i].fp = f.fp
                                              THEN MergeTwo(kept[i], f) ELSE kept[i]]
    BY <1>3 DEF MergedWith, GroupedWith, Fingerprint
  <2>5. MergedWith(kept, f) = [i \in DOMAIN kept |-> IF i = j THEN g ELSE kept[i]]
    BY <2>3, <2>4
  <2> HIDE DEF g
  <2>6. Tells(MergedWith(kept, f), Append(list, f))
    BY <2>2, <2>5, LaterTells
  <2>7. ByFingerprint(MergedWith(kept, f))
    BY <2>2, <2>5 DEF ByFingerprint
  <2> QED
    BY <2>6, <2>7
<1>4. CASE \A i \in DOMAIN kept : kept[i].fp # f.fp
  <2>1. MergedWith(kept, f) = Append(kept, f)
    BY <1>4 DEF MergedWith, GroupedWith, Fingerprint
  <2>2. /\ DOMAIN Append(kept, f) = DOMAIN kept \cup {Len(kept) + 1}
        /\ Append(kept, f)[Len(kept) + 1] = f
        /\ \A i \in DOMAIN kept : Append(kept, f)[i] = kept[i]
    BY <1>1, AppendSays
  <2> DEFINE k == Append(kept, f)
             a == Len(kept) + 1
  <2> HIDE DEF k, a
  <2>3. ASSUME NEW i \in DOMAIN k, NEW j \in DOMAIN k, k[i].fp = k[j].fp PROVE i = j
    <3>1. /\ DOMAIN k = DOMAIN kept \cup {a} /\ k[a] = f
          /\ \A n \in DOMAIN kept : k[n] = kept[n]
      BY <2>2 DEF k, a
    <3>2. CASE i \in DOMAIN kept /\ j \in DOMAIN kept
      BY <2>3, <3>1, <3>2 DEF ByFingerprint
    <3>3. CASE i \in DOMAIN kept /\ j = a
      BY <1>4, <2>3, <3>1, <3>3
    <3>4. CASE i = a /\ j \in DOMAIN kept
      BY <1>4, <2>3, <3>1, <3>4
    <3> QED
      BY <3>1, <3>2, <3>3, <3>4
  <2>4. ByFingerprint(k)
    BY <2>3 DEF ByFingerprint
  <2>5. Tells(k, Append(list, f))
    BY FirstTells DEF k
  <2> QED
    BY <2>1, <2>4, <2>5 DEF k
<1> QED
  BY <1>3, <1>4

\* Each root cause has one group.
ByRoot(kept) == \A i, j \in DOMAIN kept : Root(kept[i]) = Root(kept[j]) => i = j

\* One step of collapseSignals makes a list of findings.
LEMMA CollapsedIsListed ==
  \A kept \in Lists, f \in Finding : CollapsedWith(kept, f) \in Lists
<1> TAKE kept \in Lists, f \in Finding
<1>1. /\ Len(kept) \in Nat /\ DOMAIN kept = 1 .. Len(kept)
      /\ \A i \in DOMAIN kept : kept[i] \in Finding
  BY ListSays
<1> DEFINE k == [i \in DOMAIN kept |-> IF Root(kept[i]) = Root(f) THEN CollapseTwo(kept[i], f)
                                                              ELSE kept[i]]
<1>2. ASSUME NEW i \in DOMAIN kept PROVE k[i] \in Finding
  <2>1. kept[i] \in Finding
    BY <1>1
  <2>2. Root(kept[i]) = Root(f) => CollapseTwo(kept[i], f) \in Finding
    BY <2>1, CollapseTwoJoins DEF Joins
  <2> QED
    BY <2>1, <2>2
<1>3. k \in Lists
  <2>1. DOMAIN k = 1 .. Len(kept)
    BY <1>1
  <2> HIDE DEF k
  <2> QED
    <3>1. k = [i \in 1 .. Len(kept) |-> k[i]] /\ \A i \in 1 .. Len(kept) : k[i] \in Finding
      <4>1. k = [i \in DOMAIN kept |-> k[i]]
        BY DEF k
      <4> QED
        BY <1>1, <1>2, <4>1
    <3> QED
      BY <1>1, <3>1 DEF Lists
<1>4. Append(kept, f) \in Lists
  BY AppendSays
<1>5. CollapsedWith(kept, f) = k \/ CollapsedWith(kept, f) = Append(kept, f)
  BY DEF CollapsedWith, GroupedWith
<1> QED
  BY <1>3, <1>4, <1>5

\* collapseSignals, one finding further.
LEMMA CollapsedTells ==
  ASSUME NEW kept, NEW list, NEW f \in Finding, Tells(kept, list), ByRoot(kept)
  PROVE  Tells(CollapsedWith(kept, f), Append(list, f)) /\ ByRoot(CollapsedWith(kept, f))
<1>1. kept \in Lists
  BY DEF Tells
<1>2. \A i \in DOMAIN kept : kept[i] \in Finding
  BY <1>1, ListSays
<1>3. CASE \E i \in DOMAIN kept : Root(kept[i]) = Root(f)
  <2>1. PICK j \in DOMAIN kept : Root(kept[j]) = Root(f)
    BY <1>3
  <2> DEFINE g == CollapseTwo(kept[j], f)
  <2>2. Joins(g, kept[j], f) /\ Root(g) = Root(kept[j]) /\ Root(kept[j]) = Root(f)
    BY <1>2, <2>1, CollapseTwoJoins DEF Root, Joins
  <2>3. \A i \in DOMAIN kept : Root(kept[i]) = Root(f) <=> i = j
    BY <2>1 DEF ByRoot
  <2>4. CollapsedWith(kept, f) = [i \in DOMAIN kept |-> IF Root(kept[i]) = Root(f)
                                              THEN CollapseTwo(kept[i], f) ELSE kept[i]]
    BY <1>3 DEF CollapsedWith, GroupedWith
  <2>5. CollapsedWith(kept, f) = [i \in DOMAIN kept |-> IF i = j THEN g ELSE kept[i]]
    BY <2>3, <2>4
  <2> HIDE DEF g
  <2>6. Tells(CollapsedWith(kept, f), Append(list, f))
    BY <2>2, <2>5, LaterTells
  <2>7. ByRoot(CollapsedWith(kept, f))
    BY <2>2, <2>5 DEF ByRoot
  <2> QED
    BY <2>6, <2>7
<1>4. CASE \A i \in DOMAIN kept : Root(kept[i]) # Root(f)
  <2>1. CollapsedWith(kept, f) = Append(kept, f)
    BY <1>4 DEF CollapsedWith, GroupedWith
  <2>2. /\ DOMAIN Append(kept, f) = DOMAIN kept \cup {Len(kept) + 1}
        /\ Append(kept, f)[Len(kept) + 1] = f
        /\ \A i \in DOMAIN kept : Append(kept, f)[i] = kept[i]
    BY <1>1, AppendSays
  <2> DEFINE k == Append(kept, f)
             a == Len(kept) + 1
  <2> HIDE DEF k, a
  <2>3. ASSUME NEW i \in DOMAIN k, NEW j \in DOMAIN k, Root(k[i]) = Root(k[j]) PROVE i = j
    <3>1. /\ DOMAIN k = DOMAIN kept \cup {a} /\ k[a] = f
          /\ \A n \in DOMAIN kept : k[n] = kept[n]
      BY <2>2 DEF k, a
    <3>2. CASE i \in DOMAIN kept /\ j \in DOMAIN kept
      BY <2>3, <3>1, <3>2 DEF ByRoot
    <3>3. CASE i \in DOMAIN kept /\ j = a
      BY <1>4, <2>3, <3>1, <3>3
    <3>4. CASE i = a /\ j \in DOMAIN kept
      BY <1>4, <2>3, <3>1, <3>4
    <3> QED
      BY <3>1, <3>2, <3>3, <3>4
  <2>4. ByRoot(k)
    BY <2>3 DEF ByRoot
  <2>5. Tells(k, Append(list, f))
    BY FirstTells DEF k
  <2> QED
    BY <2>1, <2>4, <2>5 DEF k
<1> QED
  BY <1>3, <1>4

\* The first n findings, and the one after them.
LEMMA PrefixGrows ==
  ASSUME NEW list \in Lists, NEW n \in 1 .. Len(list)
  PROVE  SubSeq(list, 1, n) = Append(SubSeq(list, 1, n - 1), list[n])
BY DEF Lists

\* The empty beginning of a list, and the whole of it.
LEMMA PrefixEnds ==
  ASSUME NEW list \in Lists
  PROVE  SubSeq(list, 1, 0) = <<>> /\ SubSeq(list, 1, Len(list)) = list
BY DEF Lists

\* Of no findings, no findings tell all.
LEMMA NothingTells == Tells(<<>>, <<>>) /\ ByFingerprint(<<>>) /\ ByRoot(<<>>)
<1>1. <<>> \in Lists /\ DOMAIN <<>> = {}
  BY DEF Lists
<1> QED
  BY <1>1 DEF Tells, ByFingerprint, ByRoot

\* The whole of mergeFindings.
LEMMA MergeIsTrue ==
  ASSUME NEW all \in Lists
  PROVE  Tells(mergeFindings(all), all) /\ ByFingerprint(mergeFindings(all))
<1> DEFINE L == Len(all)
<1>1. PICK made :
        /\ made[0] = <<>>
        /\ \A n \in 1 .. L : made[n] = MergedWith(made[n - 1], all[n])
        /\ mergeFindings(all) = made[L]
  BY MergedIsListed, MergeUnrolls
<1>2. L \in Nat /\ \A n \in 1 .. L : all[n] \in Finding
  BY ListSays
<1> DEFINE A == {n \in 0 .. L : Tells(made[n], SubSeq(all, 1, n)) /\ ByFingerprint(made[n])}
<1> HIDE DEF L
<1>3. 0 \in A
  <2>1. SubSeq(all, 1, 0) = <<>> /\ made[0] = <<>> /\ 0 \in 0 .. L
    BY <1>1, <1>2, PrefixEnds
  <2>2. Tells(made[0], SubSeq(all, 1, 0)) /\ ByFingerprint(made[0])
    BY <2>1, NothingTells
  <2> QED
    BY <2>1, <2>2
<1>4. ASSUME NEW n \in 0 .. L - 1, n \in A PROVE n + 1 \in A
  <2>1. n + 1 \in 1 .. L /\ n + 1 \in 0 .. L /\ n + 1 - 1 = n
    BY <1>2
  <2>2. made[n + 1] = MergedWith(made[n], all[n + 1])
    BY <1>1, <2>1
  <2>3. SubSeq(all, 1, n + 1) = Append(SubSeq(all, 1, n), all[n + 1])
    BY <2>1, PrefixGrows DEF L
  <2>4. Tells(made[n], SubSeq(all, 1, n)) /\ ByFingerprint(made[n])
    BY <1>4
  <2>5. /\ Tells(MergedWith(made[n], all[n + 1]), Append(SubSeq(all, 1, n), all[n + 1]))
        /\ ByFingerprint(MergedWith(made[n], all[n + 1]))
    BY <1>2, <2>1, <2>4, MergedTells
  <2> QED
    BY <2>1, <2>2, <2>3, <2>5
<1> HIDE DEF A
<1>5. \A n \in 0 .. L : n \in A
  BY <1>2, <1>3, <1>4, Climbs
<1>6. L \in A
  BY <1>2, <1>5
<1> QED
  BY <1>1, <1>6, PrefixEnds DEF A, L

\* The whole of collapseSignals.
LEMMA CollapseIsTrue ==
  ASSUME NEW all \in Lists
  PROVE  Tells(collapseSignals(all), all) /\ ByRoot(collapseSignals(all))
<1> DEFINE L == Len(all)
<1>1. PICK made :
        /\ made[0] = <<>>
        /\ \A n \in 1 .. L : made[n] = CollapsedWith(made[n - 1], all[n])
        /\ collapseSignals(all) = made[L]
  BY CollapsedIsListed, CollapseUnrolls
<1>2. L \in Nat /\ \A n \in 1 .. L : all[n] \in Finding
  BY ListSays
<1> DEFINE A == {n \in 0 .. L : Tells(made[n], SubSeq(all, 1, n)) /\ ByRoot(made[n])}
<1> HIDE DEF L
<1>3. 0 \in A
  <2>1. SubSeq(all, 1, 0) = <<>> /\ made[0] = <<>> /\ 0 \in 0 .. L
    BY <1>1, <1>2, PrefixEnds
  <2>2. Tells(made[0], SubSeq(all, 1, 0)) /\ ByRoot(made[0])
    BY <2>1, NothingTells
  <2> QED
    BY <2>1, <2>2
<1>4. ASSUME NEW n \in 0 .. L - 1, n \in A PROVE n + 1 \in A
  <2>1. n + 1 \in 1 .. L /\ n + 1 \in 0 .. L /\ n + 1 - 1 = n
    BY <1>2
  <2>2. made[n + 1] = CollapsedWith(made[n], all[n + 1])
    BY <1>1, <2>1
  <2>3. SubSeq(all, 1, n + 1) = Append(SubSeq(all, 1, n), all[n + 1])
    BY <2>1, PrefixGrows DEF L
  <2>4. Tells(made[n], SubSeq(all, 1, n)) /\ ByRoot(made[n])
    BY <1>4
  <2>5. /\ Tells(CollapsedWith(made[n], all[n + 1]), Append(SubSeq(all, 1, n), all[n + 1]))
        /\ ByRoot(CollapsedWith(made[n], all[n + 1]))
    BY <1>2, <2>1, <2>4, CollapsedTells
  <2> QED
    BY <2>1, <2>2, <2>3, <2>5
<1> HIDE DEF A
<1>5. \A n \in 0 .. L : n \in A
  BY <1>2, <1>3, <1>4, Climbs
<1>6. L \in A
  BY <1>2, <1>5
<1> QED
  BY <1>1, <1>6, PrefixEnds DEF A, L

\* What is told of what is told.
LEMMA TellsOn ==
  ASSUME NEW a, NEW b, NEW c, Tells(a, b), Tells(b, c)
  PROVE  Tells(a, c)
<1>1. a \in Lists /\ b \in Lists /\ c \in Lists
  BY DEF Tells
<1>2. ASSUME NEW i \in DOMAIN c
      PROVE  \E j \in DOMAIN a :
               /\ Root(a[j]) = Root(c[i]) /\ a[j].hist >= c[i].hist
               /\ Severity[a[j].fp] >= Severity[c[i].fp]
  <2>1. PICK n \in DOMAIN b :
          /\ Root(b[n]) = Root(c[i]) /\ b[n].hist >= c[i].hist
          /\ Severity[b[n].fp] >= Severity[c[i].fp]
    BY DEF Tells
  <2>2. PICK j \in DOMAIN a :
          /\ Root(a[j]) = Root(b[n]) /\ a[j].hist >= b[n].hist
          /\ Severity[a[j].fp] >= Severity[b[n].fp]
    BY DEF Tells
  <2>3. a[j] \in Finding /\ b[n] \in Finding /\ c[i] \in Finding
    BY <1>1, ListSays
  <2>4. /\ a[j].hist \in Nat /\ b[n].hist \in Nat /\ c[i].hist \in Nat
        /\ Severity[a[j].fp] \in 0 .. 3 /\ Severity[b[n].fp] \in 0 .. 3
        /\ Severity[c[i].fp] \in 0 .. 3
    BY <2>3, FindingSays
  <2>5. a[j].hist >= c[i].hist /\ Severity[a[j].fp] >= Severity[c[i].fp]
    BY <2>1, <2>2, <2>4
  <2> QED
    BY <2>1, <2>2, <2>5
<1>3. ASSUME NEW j \in DOMAIN a PROVE \E i \in DOMAIN c : Root(c[i]) = Root(a[j])
  <2>1. PICK n \in DOMAIN b : Root(b[n]) = Root(a[j])
    BY DEF Tells
  <2>2. PICK i \in DOMAIN c : Root(c[i]) = Root(b[n])
    BY DEF Tells
  <2> QED
    BY <2>1, <2>2
<1>4. \A root : Cardinality(Sightings(a, root)) = Cardinality(Sightings(c, root))
  BY DEF Tells
<1> QED
  BY <1>1, <1>2, <1>3, <1>4 DEF Tells

\* A report that tells of all findings, with one for each root cause.
LEMMA ReportSays ==
  ASSUME NEW report, NEW all, Tells(report, all), ByRoot(report), NEW root
  PROVE  /\ Cardinality(OfRoot(report, root)) = (IF OfRoot(all, root) = {} THEN 0 ELSE 1)
         /\ Cardinality(Sightings(report, root)) = Cardinality(Sightings(all, root))
         /\ \A i \in OfRoot(all, root), j \in OfRoot(report, root) :
              /\ report[j].hist >= all[i].hist
              /\ Severity[report[j].fp] >= Severity[all[i].fp]
<1>1. \A i, j \in OfRoot(report, root) : i = j
  BY DEF OfRoot, ByRoot
<1>2. OfRoot(report, root) = {} <=> OfRoot(all, root) = {}
  BY DEF OfRoot, Tells
<1>3. Cardinality(OfRoot(report, root)) = (IF OfRoot(all, root) = {} THEN 0 ELSE 1)
  <2>1. CASE OfRoot(report, root) = {}
    BY <1>2, <2>1, FS_EmptySet
  <2>2. CASE OfRoot(report, root) # {}
    <3>1. PICK j : OfRoot(report, root) = {j}
      BY <1>1, <2>2
    <3>2. Cardinality({j}) = 1
      BY FS_Singleton
    <3> QED
      BY <1>2, <2>2, <3>1, <3>2
  <2> QED
    BY <2>1, <2>2
<1>4. ASSUME NEW i \in OfRoot(all, root), NEW j \in OfRoot(report, root)
      PROVE  report[j].hist >= all[i].hist /\ Severity[report[j].fp] >= Severity[all[i].fp]
  <2>1. i \in DOMAIN all /\ Root(all[i]) = root /\ j \in DOMAIN report
    BY DEF OfRoot
  <2>2. PICK n \in DOMAIN report :
          /\ Root(report[n]) = Root(all[i]) /\ report[n].hist >= all[i].hist
          /\ Severity[report[n].fp] >= Severity[all[i].fp]
    BY <2>1 DEF Tells
  <2>3. n = j
    BY <1>1, <2>1, <2>2 DEF OfRoot
  <2> QED
    BY <2>2, <2>3
<1>5. Cardinality(Sightings(report, root)) = Cardinality(Sightings(all, root))
  BY DEF Tells
<1> QED
  BY <1>3, <1>4, <1>5

\* A list that is made step by step is a list.
LEMMA MadeIsListed ==
  ASSUME NEW L \in Nat, NEW made, made[0] = <<>>,
         \A n \in 1 .. L : made[n - 1] \in Lists => made[n] \in Lists
  PROVE  made[L] \in Lists
<1> DEFINE A == {n \in 0 .. L : made[n] \in Lists}
<1>1. 0 \in A
  <2>1. <<>> \in Lists
    BY DEF Lists
  <2> QED
    BY <2>1
<1>2. ASSUME NEW n \in 0 .. L - 1, n \in A PROVE n + 1 \in A
  <2>1. n + 1 \in 1 .. L /\ n + 1 \in 0 .. L /\ n + 1 - 1 = n
    OBVIOUS
  <2> QED
    BY <1>2, <2>1
<1> HIDE DEF A
<1>3. \A n \in 0 .. L : n \in A
  BY <1>1, <1>2, Climbs
<1>4. L \in A
  BY <1>3
<1> QED
  BY <1>4 DEF A

\* The filter of findings() makes a list of findings.
LEMMA HeardIsListed ==
  /\ \A kept \in Lists, f \in Finding : Heard(kept, f) \in Lists
  /\ \A all \in Lists : Through(all, Heard) \in Lists
<1>1. \A kept \in Lists, f \in Finding : Heard(kept, f) \in Lists
  BY AppendSays DEF Heard
<1>2. ASSUME NEW all \in Lists PROVE Through(all, Heard) \in Lists
  <2>1. PICK made :
          /\ made[0] = <<>>
          /\ \A n \in 1 .. Len(all) : made[n] = Heard(made[n - 1], all[n])
          /\ Through(all, Heard) = made[Len(all)]
    BY <1>1, HeardUnrolls
  <2>2. Len(all) \in Nat /\ \A n \in 1 .. Len(all) : all[n] \in Finding
    BY ListSays
  <2>3. \A n \in 1 .. Len(all) : made[n - 1] \in Lists => made[n] \in Lists
    BY <1>1, <2>1, <2>2
  <2>4. made[Len(all)] \in Lists
    BY <2>1, <2>2, <2>3, MadeIsListed
  <2> QED
    BY <2>1, <2>4
<1> QED
  BY <1>1, <1>2

\* The missions give a list of findings.
LEMMA AllFindingsAreListed ==
  ASSUME results \in Seq(DOMAIN missions),
         seen \in [(DOMAIN missions) \X {"a", "b"} -> Lists]
  PROVE  AllFindings \in Lists
<1>1. \A m \in DOMAIN missions : FindingsOf(m) \in Lists
  <2> TAKE m \in DOMAIN missions
  <2>1. seen[<<m, "a">>] \in Lists /\ seen[<<m, "b">>] \in Lists
    OBVIOUS
  <2>2. seen[<<m, "a">>] \o seen[<<m, "b">>] \in Lists
    BY <2>1 DEF Lists
  <2> QED
    BY <2>2, HeardIsListed DEF FindingsOf
<1>2. \A kept \in Lists, m \in DOMAIN missions : ThenThoseOf(kept, m) \in Lists
  BY <1>1 DEF ThenThoseOf, Lists
<1>3. PICK made :
        /\ made[0] = <<>>
        /\ \A n \in 1 .. Len(results) : made[n] = ThenThoseOf(made[n - 1], results[n])
        /\ AllFindings = made[Len(results)]
  BY <1>2, ResultsUnroll
<1>4. Len(results) \in Nat /\ \A n \in 1 .. Len(results) : results[n] \in DOMAIN missions
  OBVIOUS
<1>5. \A n \in 1 .. Len(results) : made[n - 1] \in Lists => made[n] \in Lists
  BY <1>2, <1>3, <1>4
<1>6. made[Len(results)] \in Lists
  BY <1>3, <1>4, <1>5, MadeIsListed
<1> QED
  BY <1>3, <1>6

\* Whatever the missions captured, and in whatever order they settled and their
\* findings came in: the report has one finding for each root cause they met and
\* no other, with all its occurrences, its longest history and its worst severity
\* (core/swarm.ts mergeFindings, core/classifier.ts collapseSignals).
THEOREM NothingLostInMergeHolds == Spec => []NothingLostInMerge
<1>1. SwarmInv => NothingLostInMerge
  <2> SUFFICES ASSUME SwarmInv PROVE NothingLostInMerge
    OBVIOUS
  <2>1. results \in Seq(DOMAIN missions)
    BY DEF SwarmInv, PoolTypes
  <2>2. seen \in [(DOMAIN missions) \X {"a", "b"} -> Lists]
    BY DEF SwarmInv, CaptureTypes, Lists
  <2> DEFINE all    == AllFindings
             merged == mergeFindings(all)
             report == collapseSignals(merged)
  <2>3. all \in Lists
    BY <2>1, <2>2, AllFindingsAreListed
  <2> HIDE DEF all
  <2>4. Tells(merged, all)
    BY <2>3, MergeIsTrue
  <2>5. merged \in Lists
    BY <2>4 DEF Tells
  <2> HIDE DEF merged
  <2>6. Tells(report, merged) /\ ByRoot(report)
    BY <2>5, CollapseIsTrue
  <2> HIDE DEF report
  <2>7. Tells(report, all)
    BY <2>4, <2>6, TellsOn
  <2>8. \A root :
          /\ Cardinality(OfRoot(report, root)) = (IF OfRoot(all, root) = {} THEN 0 ELSE 1)
          /\ Cardinality(Sightings(report, root)) = Cardinality(Sightings(all, root))
          /\ \A i \in OfRoot(all, root), j \in OfRoot(report, root) :
               /\ report[j].hist >= all[i].hist
               /\ Severity[report[j].fp] >= Severity[all[i].fp]
    BY <2>6, <2>7, ReportSays
  <2>9. report = Report /\ all = AllFindings
    BY DEF report, merged, all, Report
  <2> QED
    BY <2>8, <2>9 DEF NothingLostInMerge
<1> QED
  BY <1>1, InitHolds, NextHolds, PTL DEF Spec

=============================================================================
