----------------------------- MODULE CrawlProofs -----------------------------
(***************************************************************************)
(* Theorems about a crawl, for any apps, behaviours, options, bounds and   *)
(* page loads that fail: a recording says which page each of its actions   *)
(* was on, nothing is missed that could have been come to, and the graph   *)
(* of the scout is explored from its riskiest end and says how each state  *)
(* is reached.                                                             *)
(***************************************************************************)
EXTENDS Crawl, FiniteSetTheorems, WellFoundedInduction, TLAPS

-----------------------------------------------------------------------------
(* Loops over lists: what they make exists, and holds what every turn keeps. *)

\* A set of numbers has a least one.
LEMMA LeastExists ==
  ASSUME NEW T, T \subseteq Nat, T # {}
  PROVE  \E n \in T : \A m \in T : n <= m
<1>1. IsWellFoundedOn(OpToRel(<, Nat), Nat)
  BY NatLessThanWellFounded
<1>2. PICK n \in T : \A m \in T : ~(<<m, n>> \in OpToRel(<, Nat))
  BY <1>1, WFMin
<1>3. ASSUME NEW m \in T PROVE n <= m
  <2>1. ~(<<m, n>> \in OpToRel(<, Nat))
    BY <1>2
  <2>2. m \in Nat /\ n \in Nat
    OBVIOUS
  <2>3. ~(m < n)
    BY <2>1, <2>2 DEF OpToRel
  <2> QED
    BY <2>2, <2>3
<1> QED
  BY <1>3

\* Induction up to a bound.
LEMMA Climbs ==
  ASSUME NEW L \in Nat, NEW A, 0 \in A, \A n \in 0 .. L - 1 : n \in A => n + 1 \in A
  PROVE  \A n \in 0 .. L : n \in A
<1>1. SUFFICES ASSUME (0 .. L) \ A # {} PROVE FALSE
  OBVIOUS
<1>2. PICK n \in (0 .. L) \ A : \A m \in (0 .. L) \ A : n <= m
  <2>1. (0 .. L) \ A \subseteq Nat
    OBVIOUS
  <2> QED
    BY <1>1, <2>1, LeastExists
<1>3. n - 1 \in A /\ n - 1 \in 0 .. L - 1 /\ n = n - 1 + 1
  BY <1>2
<1> QED
  BY <1>2, <1>3

\* A loop of L turns over values in S.
Steps(L, S) == [1 .. L -> [S -> S]]
Loops(L, S, start, step, made) ==
  /\ made \in [0 .. L -> S]
  /\ made[0] = start /\ \A n \in 1 .. L : made[n] = step[n][made[n - 1]]

\* A loop makes one value after each of its turns.
LEMMA LoopsEnd ==
  ASSUME NEW L \in Nat, NEW S, NEW start \in S, NEW step \in Steps(L, S)
  PROVE  \E made : Loops(L, S, start, step, made)
<1> USE DEF Steps
<1> DEFINE upTo(n, made) == made[0] = start /\ \A k \in 1 .. n : made[k] = step[k][made[k - 1]]
           A == {n \in 0 .. L : \E made \in [0 .. n -> S] : upTo(n, made)}
<1>1. 0 \in A
  <2>1. [k \in 0 .. 0 |-> start] \in [0 .. 0 -> S] /\ upTo(0, [k \in 0 .. 0 |-> start])
    OBVIOUS
  <2>2. \E made \in [0 .. 0 -> S] : upTo(0, made)
    BY <2>1
  <2> QED
    BY <2>2
<1>2. ASSUME NEW n \in 0 .. L - 1, n \in A PROVE n + 1 \in A
  <2>1. PICK made \in [0 .. n -> S] : upTo(n, made)
    BY <1>2
  <2>2. step[n + 1][made[n]] \in S
    BY <2>1
  <2> DEFINE more == [k \in 0 .. n + 1 |-> IF k <= n THEN made[k] ELSE step[n + 1][made[n]]]
  <2>3. more \in [0 .. n + 1 -> S]
    BY <2>1, <2>2
  <2>4. more[0] = start
    BY <2>1
  <2>5. ASSUME NEW k \in 1 .. n + 1 PROVE more[k] = step[k][more[k - 1]]
    <3>1. CASE k <= n
      <4>1. more[k] = made[k] /\ more[k - 1] = made[k - 1] /\ k \in 1 .. n
        BY <3>1
      <4> QED
        BY <2>1, <4>1
    <3>2. CASE k = n + 1
      <4>1. more[k] = step[n + 1][made[n]] /\ more[k - 1] = made[n]
        BY <3>2
      <4> QED
        BY <3>2, <4>1
    <3> QED
      BY <3>1, <3>2
  <2> HIDE DEF more
  <2>6. upTo(n + 1, more)
    BY <2>4, <2>5
  <2> QED
    BY <2>3, <2>6
<1> HIDE DEF A
<1>3. 0 .. L \subseteq A
  BY <1>1, <1>2, Climbs
<1>4. L \in A
  BY <1>3
<1> QED
  BY <1>4 DEF A, Loops

\* What Those keeps, element by element.
LEMMA ThoseUnrolls ==
  ASSUME NEW T, NEW s \in Seq(T), NEW places
  PROVE  \E kept :
           /\ kept[0] = <<>>
           /\ \A n \in 1 .. Len(s) :
                kept[n] = IF n \in places THEN Append(kept[n - 1], s[n]) ELSE kept[n - 1]
           /\ \A n \in 0 .. Len(s) : kept[n] \in Seq(T)
           /\ Those(s, places) = kept[Len(s)]
<1> DEFINE L == Len(s)
           S == Seq(T)
           then(n, made) == IF n \in places THEN Append(made, s[n]) ELSE made
           body(g) == [n \in 0 .. L |-> IF n = 0 THEN <<>> ELSE then(n, g[n - 1])]
           kept == CHOOSE g : g = body(g)
           step == [n \in 1 .. L |-> [made \in S |-> then(n, made)]]
<1>1. L \in Nat /\ \A n \in 1 .. L : s[n] \in T
  OBVIOUS
<1>2. <<>> \in S /\ \A n \in 1 .. L : \A made \in S : then(n, made) \in S
  BY <1>1
<1>7. Those(s, places) = kept[L]
  BY DEF Those
<1> HIDE DEF L, S, then
<1>3. PICK g : Loops(L, S, <<>>, step, g)
  <2>1. step \in Steps(L, S)
    BY <1>2 DEF Steps
  <2> HIDE DEF step
  <2> QED
    BY <1>1, <1>2, <2>1, LoopsEnd
<1>4. \A n \in 1 .. L : g[n] = then(n, g[n - 1])
  <2> TAKE n \in 1 .. L
  <2>1. n - 1 \in 0 .. L
    BY <1>1
  <2>2. g[n - 1] \in S
    BY <1>3, <2>1 DEF Loops
  <2> QED
    BY <1>3, <2>2 DEF Loops
<1>5. g = body(g)
  BY <1>1, <1>3, <1>4 DEF Loops
<1>6. kept = body(kept)
  BY <1>5
<1> HIDE DEF kept
<1>8. kept[0] = <<>> /\ \A n \in 1 .. L : kept[n] = then(n, kept[n - 1])
  BY <1>1, <1>6
<1> DEFINE A == {n \in 0 .. L : kept[n] \in S}
<1>9. 0 \in A
  BY <1>8, <1>1, <1>2
<1>10. ASSUME NEW n \in 0 .. L - 1, n \in A PROVE n + 1 \in A
  <2>1. n + 1 \in 1 .. L /\ n + 1 - 1 = n /\ kept[n] \in S
    BY <1>1, <1>10
  <2>2. kept[n + 1] = then(n + 1, kept[n])
    BY <1>8, <2>1
  <2> QED
    BY <1>1, <1>2, <2>1, <2>2
<1> HIDE DEF A
<1>11. \A n \in 0 .. L : n \in A
  BY <1>1, <1>9, <1>10, Climbs
<1> QED
  BY <1>7, <1>8, <1>11 DEF L, S, A, then

\* Those is made of the elements at the places, and of all of them.
LEMMA ThoseSays ==
  ASSUME NEW T, NEW s \in Seq(T), NEW places
  PROVE  /\ Those(s, places) \in Seq(T)
         /\ \A k \in DOMAIN Those(s, places) :
              \E i \in DOMAIN s : i \in places /\ Those(s, places)[k] = s[i]
         /\ \A i \in DOMAIN s : i \in places =>
              \E k \in DOMAIN Those(s, places) : Those(s, places)[k] = s[i]
<1>1. PICK kept :
        /\ kept[0] = <<>>
        /\ \A n \in 1 .. Len(s) :
             kept[n] = IF n \in places THEN Append(kept[n - 1], s[n]) ELSE kept[n - 1]
        /\ \A n \in 0 .. Len(s) : kept[n] \in Seq(T)
        /\ Those(s, places) = kept[Len(s)]
  BY ThoseUnrolls
<1> DEFINE L == Len(s)
           from(n) == \A k \in DOMAIN kept[n] : \E i \in 1 .. n : i \in places /\ kept[n][k] = s[i]
           onto(n) == \A i \in 1 .. n : i \in places => \E k \in DOMAIN kept[n] : kept[n][k] = s[i]
           A == {n \in 0 .. L : from(n) /\ onto(n)}
<1>2. L \in Nat /\ DOMAIN s = 1 .. L
  OBVIOUS
<1>3. 0 \in A
  BY <1>1, <1>2
<1>4. ASSUME NEW n \in 0 .. L - 1, n \in A PROVE n + 1 \in A
  <2>1. n + 1 \in 1 .. L /\ n + 1 - 1 = n /\ kept[n] \in Seq(T) /\ from(n) /\ onto(n) /\ n + 1 \in 0 .. L
    BY <1>1, <1>2, <1>4
  <2>2. kept[n + 1] = IF n + 1 \in places THEN Append(kept[n], s[n + 1]) ELSE kept[n]
    BY <1>1, <2>1
  <2>3. CASE n + 1 \notin places
    <3>1. kept[n + 1] = kept[n]
      BY <2>2, <2>3
    <3>2. from(n + 1) /\ onto(n + 1)
      BY <2>1, <2>3, <3>1
    <3> QED
      BY <2>1, <3>2
  <2>4. CASE n + 1 \in places
    <3> DEFINE m == Len(kept[n])
    <3>1. /\ kept[n + 1] = Append(kept[n], s[n + 1]) /\ m \in Nat
          /\ DOMAIN kept[n] = 1 .. m /\ DOMAIN kept[n + 1] = 1 .. m + 1
          /\ kept[n + 1][m + 1] = s[n + 1] /\ \A k \in 1 .. m : kept[n + 1][k] = kept[n][k]
      <4>1. s[n + 1] \in T
        BY <1>2, <2>1
      <4> QED
        BY <2>1, <2>2, <2>4, <4>1
    <3> HIDE DEF m
    <3>2. from(n + 1)
      BY <2>1, <2>4, <3>1
    <3>3. ASSUME NEW i \in 1 .. n + 1, i \in places
          PROVE  \E k \in DOMAIN kept[n + 1] : kept[n + 1][k] = s[i]
      <4>1. CASE i = n + 1
        BY <3>1, <4>1
      <4>2. CASE i # n + 1
        <5>1. i \in 1 .. n
          BY <4>2
        <5>2. PICK k \in DOMAIN kept[n] : kept[n][k] = s[i]
          BY <2>1, <3>3, <5>1
        <5> QED
          BY <3>1, <5>2
      <4> QED
        BY <4>1, <4>2
    <3> QED
      BY <2>1, <3>2, <3>3
  <2> QED
    BY <2>3, <2>4
<1> HIDE DEF A, L
<1>5. L \in A
  <2>1. \A n \in 0 .. L : n \in A
    BY <1>2, <1>3, <1>4, Climbs
  <2> QED
    BY <1>2, <2>1
<1>6. from(L) /\ onto(L)
  BY <1>5 DEF A
<1>7. Those(s, places) = kept[L] /\ kept[L] \in Seq(T)
  BY <1>1, <1>2 DEF L
<1> QED
  BY <1>2, <1>6, <1>7

-----------------------------------------------------------------------------
(* The tab of a mission.                                                    *)

\* A list is one of its own elements.
LEMMA ListIsSeq ==
  ASSUME NEW T, NEW s \in Seq(T)
  PROVE  s \in Seq(Range(s))
BY DEF Range

Urls == DOMAIN site.controls
Asks == Requests(site)
OwnAsks == {m \in Asks : OwnOrigin(m)}

IsPage(p) == DOMAIN p = {"url", "stored", "shown", "open"} /\ p.url \in Urls

\* What the first i actions of a recording say: that the page was u.
Says(trace, i, u, shifted) ==
  \/ \E k \in 1 .. i : /\ trace[k].type = "navigate" /\ trace[k].what = u
                       /\ \A m \in k + 1 .. i : trace[m].type # "navigate"
  \/ (\A k \in 1 .. i : trace[k].type # "navigate") /\ (shifted \/ u = "blank")

\* Each action says its page; and what is recorded on u next will.
Tells(t) ==
  /\ t.trace \in Seq(Range(t.trace))
  /\ \A i \in 1 .. Len(t.trace) : Says(t.trace, i, t.trace[i].on, t.shifted)
Follows(t, u) ==
  /\ Says(t.trace, Len(t.trace), u, t.shifted)
  /\ IF t.lastNav = "" THEN u = "blank" ELSE u = t.lastNav

Fields == {"page", "coming", "wired", "trace", "lastNav", "shifted", "focus", "entries", "issued"}

\* What is to come on a page, and what it has asked for.
Expects(t) ==
  /\ DOMAIN t = Fields /\ t.wired /\ IsPage(t.page)
  /\ t.coming = Nothing \/ IsControl(site, t.coming)
  /\ Prompt => t.coming = Nothing
  /\ t.entries \in Seq(Asks) /\ t.issued \in Seq(OwnAsks)

TabInv(t) == Expects(t) /\ Tells(t) /\ Follows(t, t.page.url)

\* One action more at the end of a recording that is not full.
LEMMA AppendTells ==
  ASSUME NEW T, NEW trace \in Seq(T), NEW e, NEW sh,
         \A i \in 1 .. Len(trace) : Says(trace, i, trace[i].on, sh),
         \/ e.type = "navigate" /\ e.what = e.on
         \/ e.type # "navigate" /\ Says(trace, Len(trace), e.on, sh)
  PROVE  \A i \in 1 .. Len(trace) + 1 : Says(Append(trace, e), i, Append(trace, e)[i].on, sh)
<1> DEFINE L == Len(trace)
           all == Append(trace, e)
<1>1. L \in Nat /\ all[L + 1] = e /\ \A i \in 1 .. L : all[i] = trace[i]
  OBVIOUS
<1> HIDE DEF all, L
<1>2. ASSUME NEW i \in 1 .. L, NEW u, Says(trace, i, u, sh) PROVE Says(all, i, u, sh)
  <2>1. \A k \in 1 .. i : all[k] = trace[k]
    BY <1>1
  <2>2. \A k \in 1 .. i : \A m \in k + 1 .. i : m \in 1 .. i
    BY <1>1
  <2> QED
    BY <1>2, <2>1, <2>2 DEF Says
<1>3. Says(all, L + 1, e.on, sh)
  <2>1. CASE e.type = "navigate" /\ e.what = e.on
    <3>1. L + 1 \in 1 .. L + 1 /\ L + 1 + 1 .. L + 1 = {}
      BY <1>1
    <3> QED
      BY <1>1, <2>1, <3>1 DEF Says
  <2>2. CASE e.type # "navigate" /\ Says(trace, L, e.on, sh)
    <3>1. CASE \E k \in 1 .. L : /\ trace[k].type = "navigate" /\ trace[k].what = e.on
                                 /\ \A m \in k + 1 .. L : trace[m].type # "navigate"
      <4>1. PICK k \in 1 .. L : /\ trace[k].type = "navigate" /\ trace[k].what = e.on
                                /\ \A m \in k + 1 .. L : trace[m].type # "navigate"
        BY <3>1
      <4>2. ASSUME NEW m \in k + 1 .. L + 1 PROVE all[m].type # "navigate"
        <5>1. m = L + 1 \/ (m \in k + 1 .. L /\ m \in 1 .. L)
          BY <1>1
        <5> QED
          BY <1>1, <2>2, <4>1, <5>1
      <4>3. k \in 1 .. L + 1 /\ all[k] = trace[k]
        BY <1>1
      <4> QED
        BY <4>1, <4>2, <4>3 DEF Says
    <3>2. CASE (\A k \in 1 .. L : trace[k].type # "navigate") /\ (sh \/ e.on = "blank")
      <4>1. \A k \in 1 .. L + 1 : k = L + 1 \/ k \in 1 .. L
        BY <1>1
      <4>2. \A k \in 1 .. L + 1 : all[k].type # "navigate"
        BY <1>1, <2>2, <3>2, <4>1
      <4> QED
        BY <3>2, <4>2 DEF Says
    <3> QED
      BY <2>2, <3>1, <3>2 DEF Says
  <2> QED
    BY <2>1, <2>2 DEF L
<1>4. ASSUME NEW i \in 1 .. L + 1 PROVE Says(all, i, all[i].on, sh)
  <2>1. CASE i = L + 1
    BY <1>1, <1>3, <2>1
  <2>2. CASE i # L + 1
    <3>1. i \in 1 .. L
      BY <1>1, <2>2
    <3>2. Says(trace, i, trace[i].on, sh)
      BY <3>1 DEF L
    <3> QED
      BY <1>1, <1>2, <3>1, <3>2
  <2> QED
    BY <2>1, <2>2
<1> QED
  BY <1>4 DEF all, L

\* The oldest action shifted out of a recording.
LEMMA TailTells ==
  ASSUME NEW T, NEW trace \in Seq(T), trace # <<>>, NEW sh,
         \A i \in 1 .. Len(trace) : Says(trace, i, trace[i].on, sh)
  PROVE  \A i \in 1 .. Len(Tail(trace)) : Says(Tail(trace), i, Tail(trace)[i].on, TRUE)
<1> DEFINE L == Len(trace)
           rest == Tail(trace)
<1>1. L \in Nat /\ L > 0 /\ Len(rest) = L - 1 /\ \A i \in 1 .. L - 1 : rest[i] = trace[i + 1]
  OBVIOUS
<1> HIDE DEF rest, L
<1> SUFFICES ASSUME NEW i \in 1 .. L - 1
             PROVE  Says(rest, i, rest[i].on, TRUE)
  BY <1>1 DEF rest
<1>2. i + 1 \in 1 .. L /\ rest[i].on = trace[i + 1].on
  BY <1>1
<1>3. Says(trace, i + 1, rest[i].on, sh)
  BY <1>2 DEF L
<1>4. CASE \A k \in 1 .. i : rest[k].type # "navigate"
  BY <1>4 DEF Says
<1>5. CASE \E j \in 1 .. i : rest[j].type = "navigate"
  <2>1. PICK j \in 1 .. i : rest[j].type = "navigate"
    BY <1>5
  <2>2. j + 1 \in 1 .. i + 1 /\ trace[j + 1].type = "navigate"
    BY <1>1, <2>1
  <2>3. PICK k \in 1 .. i + 1 : /\ trace[k].type = "navigate" /\ trace[k].what = rest[i].on
                                /\ \A m \in k + 1 .. i + 1 : trace[m].type # "navigate"
    BY <1>3, <2>2 DEF Says
  <2>4. k >= 2
    <3>1. j + 1 \notin k + 1 .. i + 1
      BY <2>2, <2>3
    <3> QED
      BY <2>2, <3>1
  <2>5. k - 1 \in 1 .. i /\ rest[k - 1] = trace[k]
    BY <1>1, <2>4
  <2>6. ASSUME NEW m \in k - 1 + 1 .. i PROVE rest[m].type # "navigate"
    <3>1. m + 1 \in k + 1 .. i + 1 /\ rest[m] = trace[m + 1]
      BY <1>1, <2>4
    <3> QED
      BY <2>3, <3>1
  <2> QED
    BY <2>3, <2>5, <2>6 DEF Says
<1> QED
  BY <1>4, <1>5

\* What is known of the app.
LEMMA AppSays ==
  ASSUME run \in Runs
  PROVE  /\ Here \notin Urls /\ "blank" \in Urls /\ site.start \in Urls /\ site.internal \subseteq Urls
         /\ budget \in Nat
         /\ site.order \in Seq(Range(site.order))
         /\ \A u \in Urls : /\ site.base[u] \in Urls /\ site.base[u] \in Range(site.order)
                            /\ site.calls[u] \in Seq(Asks)
                            /\ site.controls[u] \in Seq(Range(site.controls[u]))
                            /\ \A i \in DOMAIN site.controls[u] : IsControl(site, site.controls[u][i])
                            /\ site.risk[u] \in Nat
<1>1. run.app \in DOMAIN Apps /\ run.budget \in Nat
  BY SiteAssumption
<1>2. IsApp(site)
  BY <1>1, SiteAssumption DEF site
<1> HIDE DEF site
<1> QED
  BY <1>1, <1>2 DEF IsApp, Urls, Asks, budget

Entry(t, type, what) == [type |-> type, what |-> what, on |-> t.page.url]

\* What is recorded goes to the end, and changes nothing else.
LEMMA RecordSays ==
  ASSUME NEW t, Expects(t), t.trace \in Seq(Range(t.trace)), NEW type, NEW what,
         NEW r, r = Record(t, type, what)
  PROVE  /\ Expects(r) /\ r.page = t.page /\ r.lastNav = t.lastNav /\ r.issued = t.issued
         /\ r.entries = t.entries /\ r.coming = t.coming /\ r.focus = t.focus
         /\ r.trace \in Seq(Range(r.trace)) /\ Len(r.trace) > 0
         /\ Last(r.trace) = Entry(t, type, what)
         /\ \/ r.trace = Append(t.trace, Entry(t, type, what)) /\ (r.shifted <=> t.shifted)
            \/ r.trace = Tail(Append(t.trace, Entry(t, type, what))) /\ r.shifted
<1> DEFINE e == Entry(t, type, what)
           all == Append(t.trace, e)
           long == Len(all) > Capacity
<1>1. r = [t EXCEPT !.trace = IF long THEN Tail(all) ELSE all, !.shifted = @ \/ long]
  BY DEF Record, Expects, Entry
<1>2. Capacity \in Nat \ {0}
  BY SiteAssumption
<1> HIDE DEF e
<1>3. /\ all \in Seq(Range(t.trace) \cup {e}) /\ Len(all) = Len(t.trace) + 1 /\ Len(t.trace) \in Nat
      /\ all[Len(all)] = e
  OBVIOUS
<1> HIDE DEF all
<1>4. long => /\ Tail(all) \in Seq(Range(t.trace) \cup {e})
              /\ Len(Tail(all)) = Len(all) - 1 /\ Tail(all)[Len(all) - 1] = e
  BY <1>2, <1>3
<1>5. /\ r.trace = (IF long THEN Tail(all) ELSE all) /\ (r.shifted <=> t.shifted \/ long)
      /\ DOMAIN r = Fields /\ r.wired = t.wired /\ r.page = t.page /\ r.lastNav = t.lastNav
      /\ r.issued = t.issued /\ r.entries = t.entries /\ r.coming = t.coming /\ r.focus = t.focus
  BY <1>1 DEF Expects, Fields
<1>6. r.trace \in Seq(Range(t.trace) \cup {e})
  BY <1>3, <1>4, <1>5
<1>7. r.trace \in Seq(Range(r.trace))
  BY <1>6, ListIsSeq
<1>8. Len(r.trace) > 0 /\ Last(r.trace) = e
  BY <1>2, <1>3, <1>4, <1>5 DEF Last
<1>9. Expects(r)
  BY <1>5 DEF Expects
<1> QED
  BY <1>5, <1>7, <1>8, <1>9 DEF e, all

LEMMA RecordTells ==
  ASSUME NEW t, Expects(t), Tells(t), NEW type, NEW what,
         \/ type = "navigate" /\ what = t.page.url
         \/ type # "navigate" /\ Says(t.trace, Len(t.trace), t.page.url, t.shifted),
         NEW r, r = Record(t, type, what)
  PROVE  Tells(r) /\ Says(r.trace, Len(r.trace), r.page.url, r.shifted)
<1> DEFINE e == Entry(t, type, what)
           all == Append(t.trace, e)
<1>1. /\ r.page = t.page /\ r.trace \in Seq(Range(r.trace)) /\ Len(r.trace) > 0 /\ Last(r.trace) = e
      /\ \/ r.trace = all /\ (r.shifted <=> t.shifted)
         \/ r.trace = Tail(all) /\ r.shifted
  BY RecordSays DEF Tells
<1>2. t.trace \in Seq(Range(t.trace)) /\ \A i \in 1 .. Len(t.trace) : Says(t.trace, i, t.trace[i].on, t.shifted)
  BY DEF Tells
<1>3. e.type = type /\ e.what = what /\ e.on = t.page.url
  BY DEF Entry
<1> HIDE DEF e
<1>4. all \in Seq(Range(t.trace) \cup {e}) /\ all # <<>> /\ Len(all) = Len(t.trace) + 1
  BY <1>2
<1>5. \A i \in 1 .. Len(all) : Says(all, i, all[i].on, t.shifted)
  BY <1>2, <1>3, <1>4, AppendTells
<1> HIDE DEF all
<1>6. \A i \in 1 .. Len(r.trace) : Says(r.trace, i, r.trace[i].on, r.shifted)
  <2>1. CASE r.trace = all /\ (r.shifted <=> t.shifted)
    BY <1>5, <2>1 DEF Says
  <2>2. CASE r.trace = Tail(all) /\ r.shifted
    <3>1. \A i \in 1 .. Len(r.trace) : Says(r.trace, i, r.trace[i].on, TRUE)
      BY <1>4, <1>5, <2>2, TailTells
    <3> QED
      BY <2>2, <3>1 DEF Says
  <2> QED
    BY <1>1, <2>1, <2>2
<1>7. Len(r.trace) \in 1 .. Len(r.trace) /\ r.trace[Len(r.trace)].on = r.page.url
  BY <1>1, <1>3 DEF Last
<1> QED
  BY <1>1, <1>6, <1>7 DEF Tells

\* An action that is recorded, whatever it is.
LEMMA RecordKeeps ==
  ASSUME NEW t, TabInv(t), NEW type, NEW what, type = "navigate" => what = t.page.url
  PROVE  TabInv(Record(t, type, what))
<1>1. Expects(t) /\ Tells(t) /\ Says(t.trace, Len(t.trace), t.page.url, t.shifted)
      /\ t.trace \in Seq(Range(t.trace))
  BY DEF TabInv, Follows, Tells
<1> DEFINE r == Record(t, type, what)
<1> HIDE DEF r
<1>2. r = Record(t, type, what)
  BY DEF r
<1>3. Expects(r) /\ r.page = t.page /\ r.lastNav = t.lastNav
  BY <1>1, <1>2, RecordSays
<1>4. Tells(r) /\ Says(r.trace, Len(r.trace), r.page.url, r.shifted)
  BY <1>1, <1>2, RecordTells
<1>5. TabInv(r)
  BY <1>3, <1>4 DEF TabInv, Follows
<1> QED
  BY <1>5 DEF r

\* The listener: the recording follows the page that was at u.
LEMMA RecordMoveFollows ==
  ASSUME NEW t, run \in Runs, Expects(t), Tells(t), NEW u, Follows(t, u)
  PROVE  TabInv(RecordMove(t))
<1>1. CASE t.page.url = t.lastNav
  <2>1. t.lastNav # "" /\ u = t.lastNav
    BY <1>1, AppSays DEF Expects, IsPage, Here, Follows
  <2> QED
    BY <1>1, <2>1 DEF RecordMove, TabInv, Follows
<1>2. CASE t.page.url # t.lastNav
  <2> DEFINE r == Record(t, "navigate", t.page.url)
             m == [r EXCEPT !.lastNav = t.page.url]
  <2> HIDE DEF r
  <2>0. r = Record(t, "navigate", t.page.url)
    BY DEF r
  <2>1. Expects(r) /\ r.page = t.page
    BY <2>0, RecordSays DEF Tells
  <2>2. Tells(r) /\ Says(r.trace, Len(r.trace), r.page.url, r.shifted)
    BY <2>0, RecordTells
  <2>3. /\ DOMAIN m = Fields /\ m.lastNav = t.page.url /\ m.page = r.page /\ m.trace = r.trace
        /\ (m.shifted <=> r.shifted) /\ (m.wired <=> r.wired) /\ m.coming = r.coming
        /\ m.entries = r.entries /\ m.issued = r.issued
    BY <2>1 DEF Expects, Fields
  <2>4. t.page.url # ""
    BY AppSays DEF Expects, IsPage, Here
  <2> HIDE DEF m
  <2>5. Expects(m)
    BY <2>1, <2>3 DEF Expects
  <2>6. Tells(m)
    BY <2>2, <2>3 DEF Tells, Says
  <2>7. Follows(m, m.page.url)
    BY <2>1, <2>2, <2>3, <2>4 DEF Follows, Says
  <2> QED
    BY <1>2, <2>5, <2>6, <2>7 DEF RecordMove, TabInv, m, r
<1> QED
  BY <1>1, <1>2

\* A tab that differs in what it has asked for, or in the focus, only.
LEMMA SameStory ==
  ASSUME NEW t, TabInv(t), NEW r, Expects(r), r.page = t.page, r.trace = t.trace,
         r.lastNav = t.lastNav, r.shifted <=> t.shifted
  PROVE  TabInv(r)
<1>1. ASSUME NEW i, NEW u, Says(t.trace, i, u, t.shifted) PROVE Says(r.trace, i, u, r.shifted)
  BY <1>1 DEF Says
<1>2. Tells(r)
  BY <1>1 DEF TabInv, Tells
<1>3. Follows(r, r.page.url)
  BY <1>1 DEF TabInv, Follows
<1> QED
  BY <1>2, <1>3 DEF TabInv

LEMMA FetchKeeps ==
  ASSUME NEW t, Expects(t), NEW urls \in Seq(Asks), NEW r, r = Fetch(t, urls)
  PROVE  /\ Expects(r) /\ r.page = t.page /\ r.trace = t.trace /\ r.lastNav = t.lastNav
         /\ (r.shifted <=> t.shifted) /\ r.coming = t.coming /\ r.focus = t.focus
<1>1. New(urls, t.entries) \in Seq(Asks)
  BY ThoseSays DEF New
<1>2. Own(urls) \in Seq(OwnAsks)
  <2> DEFINE own == Own(urls)
             places == {i \in DOMAIN urls : OwnOrigin(urls[i])}
  <2>0. own = Those(urls, places) /\ \A i \in places : OwnOrigin(urls[i])
    BY DEF Own
  <2> HIDE DEF places
  <2>1. /\ own \in Seq(Asks)
        /\ \A k \in DOMAIN own : \E i \in DOMAIN urls : OwnOrigin(urls[i]) /\ own[k] = urls[i]
    BY <2>0, ThoseSays
  <2> HIDE DEF own
  <2>2. \A k \in 1 .. Len(own) : own[k] \in OwnAsks
    BY <2>1 DEF OwnAsks
  <2>3. own \in Seq(OwnAsks)
    BY <2>1, <2>2
  <2> QED
    BY <2>3 DEF own
<1>3. New(Own(urls), t.issued) \in Seq(OwnAsks)
  BY <1>2, ThoseSays DEF New
<1>4. r = [t EXCEPT !.entries = @ \o New(urls, @), !.issued = @ \o New(Own(urls), @)]
  BY DEF Fetch, Expects
<1> DEFINE entries == t.entries \o New(urls, t.entries)
           issued == t.issued \o New(Own(urls), t.issued)
<1>5. entries \in Seq(Asks) /\ issued \in Seq(OwnAsks)
  BY <1>1, <1>3 DEF Expects
<1>6. r = [t EXCEPT !.entries = entries, !.issued = issued]
  BY <1>4
<1> HIDE DEF entries, issued
<1>7. /\ DOMAIN r = Fields /\ r.entries = entries /\ r.issued = issued /\ r.wired = t.wired
      /\ r.page = t.page /\ r.trace = t.trace /\ r.lastNav = t.lastNav
      /\ r.shifted = t.shifted /\ r.coming = t.coming /\ r.focus = t.focus
  BY <1>6 DEF Expects, Fields
<1> QED
  BY <1>5, <1>7 DEF Expects

LEMMA FetchDocumentKeeps ==
  ASSUME NEW t, run \in Runs, Expects(t), NEW u \in Urls, NEW r, r = FetchDocument(t, u)
  PROVE  /\ Expects(r) /\ r.page = t.page /\ r.trace = t.trace /\ r.lastNav = t.lastNav
         /\ (r.shifted <=> t.shifted) /\ r.coming = t.coming /\ r.focus = t.focus
<1> DEFINE asked == Fetch(t, <<Url(site.base[u], FALSE)>>)
           cleared == [asked EXCEPT !.entries = <<>>]
<1>1. <<Url(site.base[u], FALSE)>> \in Seq(Asks) /\ site.calls[u] \in Seq(Asks)
  <2>1. site.base[u] \in Range(site.order) /\ site.calls[u] \in Seq(Asks)
    BY AppSays
  <2> DEFINE ask == Url(site.base[u], FALSE)
  <2>2. ask \in Asks
    BY <2>1 DEF Url, Asks, Requests
  <2> HIDE DEF ask
  <2>3. <<ask>> \in Seq(Asks)
    BY <2>2
  <2> QED
    BY <2>1, <2>3 DEF ask
<1>2. r = Fetch(cleared, site.calls[u])
  BY DEF FetchDocument
<1> HIDE DEF asked
<1>3. /\ Expects(asked) /\ asked.page = t.page /\ asked.trace = t.trace /\ asked.lastNav = t.lastNav
      /\ (asked.shifted <=> t.shifted) /\ asked.coming = t.coming /\ asked.focus = t.focus
  BY <1>1, FetchKeeps DEF asked
<1>4. /\ Expects(cleared) /\ cleared.page = t.page /\ cleared.trace = t.trace
      /\ cleared.lastNav = t.lastNav /\ (cleared.shifted <=> t.shifted)
      /\ cleared.coming = t.coming /\ cleared.focus = t.focus
  <2>1. <<>> \in Seq(Asks)
    OBVIOUS
  <2>2. /\ DOMAIN cleared = Fields /\ cleared.entries = <<>> /\ cleared.issued = asked.issued
        /\ cleared.wired = asked.wired /\ cleared.page = asked.page /\ cleared.trace = asked.trace
        /\ cleared.lastNav = asked.lastNav /\ cleared.shifted = asked.shifted
        /\ cleared.coming = asked.coming /\ cleared.focus = asked.focus
    BY <1>3 DEF Expects, Fields
  <2> QED
    BY <1>3, <2>1, <2>2 DEF Expects
<1> HIDE DEF cleared
<1> QED
  BY <1>1, <1>2, <1>4, FetchKeeps

\* A new page: the listener follows it.
LEMMA CommitKeeps ==
  ASSUME NEW t, run \in Runs, TabInv(t), NEW page, IsPage(page)
  PROVE  TabInv(Commit(t, page))
<1> DEFINE moved == page.url # t.page.url
           at == [t EXCEPT !.page = page,
                           !.coming = IF moved THEN Nothing ELSE @,
                           !.focus = IF moved THEN "none" ELSE @]
           fresh == site.base[page.url] # site.base[t.page.url]
           got == IF fresh THEN FetchDocument(at, page.url) ELSE at
<1>1. /\ DOMAIN at = Fields /\ at.page = page /\ at.coming = (IF moved THEN Nothing ELSE t.coming)
      /\ at.entries = t.entries /\ at.issued = t.issued /\ at.wired = t.wired
      /\ at.trace = t.trace /\ at.lastNav = t.lastNav /\ at.shifted = t.shifted
  BY DEF TabInv, Expects, Fields
<1>2. Commit(t, page) = RecordMove(got)
  BY DEF Commit
<1> HIDE DEF at
<1>3. Expects(at)
  BY <1>1 DEF TabInv, Expects
<1>4. /\ Expects(got) /\ got.trace = t.trace /\ got.lastNav = t.lastNav
      /\ (got.shifted <=> t.shifted)
  BY <1>1, <1>3, FetchDocumentKeeps DEF IsPage
<1> HIDE DEF got
<1>5. Tells(got) /\ Follows(got, t.page.url)
  BY <1>4 DEF TabInv, Tells, Follows, Says
<1> QED
  BY <1>2, <1>4, <1>5, RecordMoveFollows

\* A URL that is loaded.
LEMMA LoadedKeeps ==
  ASSUME NEW t, run \in Runs, TabInv(t), NEW u \in Urls
  PROVE  TabInv(Loaded(t, u))
<1> DEFINE at == [t EXCEPT !.page = Load(@, u), !.coming = Nothing, !.focus = "none"]
           moved == RecordMove(at)
<1>1. /\ DOMAIN at = Fields /\ at.page = Load(t.page, u) /\ at.coming = Nothing
      /\ at.entries = t.entries /\ at.issued = t.issued /\ at.wired = t.wired
      /\ at.trace = t.trace /\ at.lastNav = t.lastNav /\ at.shifted = t.shifted
  BY DEF TabInv, Expects, Fields
<1>2. Loaded(t, u) = FetchDocument(moved, u)
  BY DEF Loaded
<1> HIDE DEF at
<1>3. IsPage(Load(t.page, u))
  BY DEF IsPage, Load
<1>4. Expects(at)
  BY <1>1, <1>3 DEF TabInv, Expects
<1>5. Tells(at) /\ Follows(at, t.page.url)
  BY <1>1 DEF TabInv, Tells, Follows, Says
<1>6. TabInv(moved)
  BY <1>4, <1>5, RecordMoveFollows
<1> HIDE DEF moved
<1>7. Expects(moved)
  BY <1>6 DEF TabInv
<1> QED
  BY <1>2, <1>6, <1>7, FetchDocumentKeeps, SameStory

\* What a control makes of a page is a page.
LEMMA OutcomeIsPage ==
  ASSUME NEW page, IsPage(page), NEW c, IsControl(site, c)
  PROVE  IsPage(Outcome(page, c))
<1> DEFINE token == page.stored \/ c.sets = "token"
           stayed == [page EXCEPT !.stored = token, !.shown = @ \/ c.sets = "token",
                                  !.open = @ \/ c.sets = "open"]
<1>1. DOMAIN stayed = DOMAIN page /\ stayed.url = page.url
  BY DEF IsPage
<1>2. Outcome(page, c) = IF c.to \in {Here, page.url} THEN stayed ELSE Load(stayed, c.to)
  BY DEF Outcome
<1> HIDE DEF stayed
<1> QED
  BY <1>1, <1>2 DEF IsPage, IsControl, Load, Urls

\* An action performed, at once or after the wait for it.
LEMMA ActKeeps ==
  ASSUME NEW t, run \in Runs, TabInv(t), NEW c, IsControl(site, c), Prompt => ~c.late
  PROVE  TabInv(Act(t, c))
<1>1. Expects(t)
  BY DEF TabInv
<1>2. CASE c.late
  <2> DEFINE r == [t EXCEPT !.coming = c]
  <2>1. /\ DOMAIN r = Fields /\ r.page = t.page /\ r.coming = c
        /\ r.entries = t.entries /\ r.issued = t.issued /\ r.wired = t.wired
        /\ r.trace = t.trace /\ r.lastNav = t.lastNav /\ r.shifted = t.shifted
    BY <1>1 DEF Expects, Fields
  <2>2. r = Act(t, c)
    BY <1>2 DEF Act
  <2> HIDE DEF r
  <2>3. Expects(r)
    BY <1>1, <1>2, <2>1 DEF Expects
  <2> QED
    BY <2>1, <2>2, <2>3, SameStory
<1>3. CASE ~c.late
  <2> DEFINE r == Fetch(t, c.calls)
  <2>1. c.calls \in Seq(Asks)
    BY DEF IsControl, Asks
  <2>2. /\ Expects(r) /\ r.page = t.page /\ r.trace = t.trace /\ r.lastNav = t.lastNav
        /\ (r.shifted <=> t.shifted)
    BY <1>1, <2>1, FetchKeeps
  <2> HIDE DEF r
  <2>3. TabInv(r)
    BY <2>2, SameStory
  <2>4. IsPage(Outcome(t.page, c))
    BY <1>1, OutcomeIsPage DEF Expects
  <2>5. TabInv(Commit(r, Outcome(t.page, c)))
    BY <2>3, <2>4, CommitKeeps
  <2> QED
    BY <1>3, <2>5 DEF Act, r
<1> QED
  BY <1>2, <1>3

\* What a late control does.
LEMMA ArriveKeeps ==
  ASSUME run \in Runs, TabInv(tab), Arrive
  PROVE  TabInv(tab') /\ ~Prompt
<1>1. Expects(tab) /\ IsControl(site, tab.coming) /\ ~Prompt
  BY DEF TabInv, Expects, Arrive
<1> DEFINE r == [tab EXCEPT !.coming = Nothing]
           f == Fetch(r, tab.coming.calls)
<1>2. /\ DOMAIN r = Fields /\ r.page = tab.page /\ r.coming = Nothing
      /\ r.entries = tab.entries /\ r.issued = tab.issued /\ r.wired = tab.wired
      /\ r.trace = tab.trace /\ r.lastNav = tab.lastNav /\ r.shifted = tab.shifted
  BY <1>1 DEF Expects, Fields
<1>3. tab' = Commit(f, Outcome(tab.page, tab.coming))
  BY DEF Arrive
<1> HIDE DEF r
<1>4. Expects(r)
  BY <1>1, <1>2 DEF Expects
<1>5. tab.coming.calls \in Seq(Asks)
  BY <1>1 DEF IsControl, Asks
<1>6. /\ Expects(f) /\ f.page = r.page /\ f.trace = r.trace /\ f.lastNav = r.lastNav
      /\ (f.shifted <=> r.shifted)
  BY <1>4, <1>5, FetchKeeps
<1> HIDE DEF f
<1>7. TabInv(f)
  BY <1>2, <1>6, SameStory
<1>8. IsPage(Outcome(tab.page, tab.coming))
  BY <1>1, OutcomeIsPage DEF Expects
<1> QED
  BY <1>1, <1>3, <1>7, <1>8, CommitKeeps

\* goto, whether the page loads or not.
LEMMA GotoKeeps ==
  ASSUME NEW t, run \in Runs, TabInv(t), NEW u \in Urls, Goto(t, u)
  PROVE  TabInv(tab')
BY LoadedKeeps DEF Goto

\* The tab of a new mission.
LEMMA NewTabStarts ==
  ASSUME run \in Runs
  PROVE  TabInv(NewTab("blank", TRUE))
<1> DEFINE t == NewTab("blank", TRUE)
<1>1. /\ DOMAIN t = Fields /\ t.wired /\ t.coming = Nothing /\ t.trace = <<>> /\ t.lastNav = ""
      /\ t.entries = <<>> /\ t.issued = <<>>
      /\ DOMAIN t.page = {"url", "stored", "shown", "open"} /\ t.page.url = "blank"
  BY DEF NewTab, Fields
<1> HIDE DEF t
<1>2. IsPage(t.page)
  BY <1>1, AppSays DEF IsPage
<1>3. <<>> \in Seq(Asks) /\ <<>> \in Seq(OwnAsks)
  OBVIOUS
<1>4. Expects(t)
  BY <1>1, <1>2, <1>3 DEF Expects
<1>5. t.trace \in Seq(Range(t.trace)) /\ Len(t.trace) = 0
  <2>1. <<>> \in Seq({})
    OBVIOUS
  <2> QED
    BY <1>1, <2>1, ListIsSeq
<1>6. Says(t.trace, 0, "blank", t.shifted)
  BY DEF Says
<1>7. Tells(t)
  BY <1>5 DEF Tells
<1>8. Follows(t, t.page.url)
  BY <1>1, <1>5, <1>6 DEF Follows
<1>9. TabInv(t)
  BY <1>4, <1>7, <1>8 DEF TabInv
<1> QED
  BY <1>9 DEF t

-----------------------------------------------------------------------------
(* The storm.                                                               *)

Kinds == {"rewrite", "append", "post", "put", "headers"}

\* The requests that the options allow.
Allowed(P) == {r \in [path : P, kind : Kinds] : r.kind \in {"post", "put"} => mutations}

\* The own request of each endpoint is among those that are built.
LEMMA RequestsAreBuilt ==
  ASSUME NEW P, NEW paths \in Seq(P), NEW found, NEW built, built = buildRequests(paths, found)
  PROVE  /\ built \in Seq(Allowed(P))
         /\ \A n \in DOMAIN built : built[n].path \in Range(paths)
         /\ \A p \in DOMAIN paths : \E n \in DOMAIN built :
              built[n].path = paths[p] /\ built[n].kind \in {"rewrite", "append"}
<1> DEFINE kinds == IF mutations THEN <<"own", "post", "put", "headers">> ELSE <<"own", "headers">>
           per == Len(kinds)
           kind(path, k) == IF k # 1 THEN kinds[k] ELSE IF found[path] THEN "rewrite" ELSE "append"
           place(n) == 1 + ((n - 1) \div per)
           turn(n) == 1 + ((n - 1) % per)
           L == Len(paths)
<1>1. built = [n \in 1 .. per * L |-> [path |-> paths[place(n)], kind |-> kind(paths[place(n)], turn(n))]]
  BY DEF buildRequests
<1>2. /\ per \in {2, 4} /\ (per = 4 => mutations) /\ kinds[1] = "own"
      /\ \A k \in 2 .. per : kinds[k] \in {"post", "put", "headers"}
                             /\ (kinds[k] \in {"post", "put"} => mutations)
  <2>1. \A k \in 2 .. 4 : k = 2 \/ k = 3 \/ k = 4
    OBVIOUS
  <2>2. CASE mutations
    <3>1. kinds = <<"own", "post", "put", "headers">>
      BY <2>2
    <3> QED
      BY <2>1, <2>2, <3>1
  <2>3. CASE ~mutations
    <3>1. kinds = <<"own", "headers">>
      BY <2>3
    <3> QED
      BY <2>3, <3>1
  <2> QED
    BY <2>2, <2>3
<1> HIDE DEF kinds, per
<1>3. L \in Nat /\ DOMAIN paths = 1 .. L /\ \A p \in 1 .. L : paths[p] \in P /\ paths[p] \in Range(paths)
  BY DEF Range
<1> HIDE DEF L
<1>4. per * L \in Nat
  BY <1>2, <1>3
<1>5. ASSUME NEW n \in 1 .. per * L
      PROVE  place(n) \in 1 .. L /\ turn(n) \in 1 .. per
  <2>1. CASE per = 2
    BY <1>3, <2>1
  <2>2. CASE per = 4
    BY <1>3, <2>2
  <2> QED
    BY <1>2, <2>1, <2>2
<1>6. ASSUME NEW p \in 1 .. L
      PROVE  per * (p - 1) + 1 \in 1 .. per * L /\ place(per * (p - 1) + 1) = p /\ turn(per * (p - 1) + 1) = 1
  <2>1. CASE per = 2
    BY <1>3, <2>1
  <2>2. CASE per = 4
    BY <1>3, <2>2
  <2> QED
    BY <1>2, <2>1, <2>2
<1> HIDE DEF place, turn
<1>7. ASSUME NEW path, NEW k \in 1 .. per
      PROVE  /\ kind(path, k) \in Kinds
             /\ kind(path, k) \in {"post", "put"} => mutations
             /\ k = 1 => kind(path, k) \in {"rewrite", "append"}
  BY <1>2 DEF Kinds
<1> HIDE DEF kind
<1>8. ASSUME NEW n \in 1 .. per * L
      PROVE  /\ built[n] = [path |-> paths[place(n)], kind |-> kind(paths[place(n)], turn(n))]
             /\ built[n] \in Allowed(P) /\ built[n].path \in Range(paths)
  BY <1>1, <1>3, <1>5, <1>7 DEF Allowed
<1>9. built \in Seq(Allowed(P)) /\ DOMAIN built = 1 .. per * L
  BY <1>1, <1>4, <1>8
<1>10. ASSUME NEW p \in DOMAIN paths
       PROVE  \E n \in DOMAIN built : built[n].path = paths[p] /\ built[n].kind \in {"rewrite", "append"}
  <2>1. p \in 1 .. L
    BY <1>3
  <2> DEFINE n == per * (p - 1) + 1
  <2>2. n \in 1 .. per * L /\ place(n) = p /\ turn(n) = 1
    BY <1>6, <2>1, Zenon
  <2>4. 1 \in 1 .. per
    BY <1>2
  <2> HIDE DEF n
  <2>3. built[n] = [path |-> paths[p], kind |-> kind(paths[p], 1)] /\ kind(paths[p], 1) \in {"rewrite", "append"}
    BY <1>7, <1>8, <2>2, <2>4
  <2> QED
    BY <1>9, <2>2, <2>3
<1> QED
  BY <1>8, <1>9, <1>10

\* The endpoints collected stay, those of the URLs join them, and none else.
LEMMA CollectSays ==
  ASSUME NEW found, NEW urls, NEW got, got = collect(found, urls), NEW path
  PROVE  path \in DOMAIN got <=>
           \/ path \in DOMAIN found
           \/ \E i \in DOMAIN urls : MayAsk(urls[i].path) /\ urls[i].path = path
<1>1. DOMAIN got = DOMAIN found \cup {urls[i].path : i \in {k \in DOMAIN urls : Eligible(urls[k])}}
  BY DEF collect
<1>2. \A m : Eligible(m) <=> MayAsk(m.path)
  BY DEF Eligible, OwnOrigin, MayAsk
<1> QED
  BY <1>1, <1>2

StormFields == {"at", "found", "rest", "sent", "asked", "broken"}
Asked(path) == \E kind \in {"rewrite", "append"} : [path |-> path, kind |-> kind] \in storm.asked
Waits(path) == \E n \in DOMAIN storm.rest :
                 storm.rest[n].path = path /\ storm.rest[n].kind \in {"rewrite", "append"}
Collected(path) == path \in DOMAIN storm.found

\* A storm keeps to its options.
StormRuns ==
  /\ DOMAIN storm = StormFields
  /\ storm.sent \in Nat /\ storm.sent <= budget
  /\ walking # "done" => storm.at \in {"wait", "over"} /\ (storm.at = "over" => ~run.http)
  /\ storm.at \in {"wait", "resources", "links", "send", "over", "hung"}
  /\ storm.at \in {"resources", "links", "send"} => run.allowed
  /\ \A path \in DOMAIN storm.found : MayAsk(path)
  /\ storm.rest \in Seq(Allowed({path \in Range(site.order) : MayAsk(path)}))
  /\ storm.asked \subseteq Allowed({path \in Range(site.order) : MayAsk(path)})
  /\ storm.asked # {} => run.allowed /\ ~run.dryRun
  /\ \A b \in storm.broken : b.last.what = b.request.path /\ b.last.type = b.request.kind

\* What the page has asked for is on its way to be tried.
StormOwes ==
  folded /\ run.http /\ run.allowed /\ Prompt /\ ~run.dryRun /\ walking = "done" =>
    \A i \in DOMAIN tab.issued : MayAsk(tab.issued[i].path) =>
      CASE storm.at \in {"resources", "links"} -> Collected(tab.issued[i].path)
        [] storm.at = "send" -> Waits(tab.issued[i].path) \/ Asked(tab.issued[i].path)
        [] storm.at = "over" -> storm.sent < budget => Asked(tab.issued[i].path)
        [] storm.at \in {"wait", "hung"} -> TRUE

-----------------------------------------------------------------------------
(* The mission.                                                             *)

\* A control of the page as it is; none is late if every page is prompt.
IsOne(c) == IsControl(site, c) /\ (Prompt => ~c.late)

\* The URLs that have been visited, wait for it, or were turned away.
Met == visited \cup lost \cup Range(queue)

Owing(links) == {c \in links : c.kind = "link" /\ ~Denied(c) /\ Internal(c.to)}

Placed ==
  /\ run \in Runs
  /\ walking # "boot" => Mapped /\ TabInv(tab)
  /\ queue \in Seq(Urls) /\ Len(queue) <= QueueCap /\ actions \in Nat
  /\ walking \in {"turn", "fuzz"} => url \in Urls
  /\ walking \in {"boot", "seed", "begin", "turn", "fuzz", "thrown"} => owed = {}

Owes ==
  /\ owed \subseteq Met
  /\ walking = "done" => actions >= budget \/ owed \subseteq visited \cup lost

\* The handles are of the page they were taken from, which nothing but a late
\* control can have changed.
Scanned ==
  walking \in {"handle", "acted", "reloaded"} =>
    /\ IsPage(scan.page) /\ scan.list = Visible(scan.page) /\ hi \in Nat \ {0}
    /\ walking = "handle" => (Alive \/ tab.coming = Nothing) /\ (Prompt => Alive)

\* What the first pass is past has been acted on; what the second is past waits.
Tried ==
  walking = "handle" /\ pass = 0 /\ Prompt =>
    \A j \in DOMAIN scan.list :
      j < hi /\ scan.list[j].kind \in {"button", "text"} /\ ~Denied(scan.list[j]) =>
        scan.list[j].sign \in seen
Linked ==
  walking = "handle" /\ pass = 1 /\ Alive =>
    \A j \in DOMAIN scan.list :
      j < hi /\ scan.list[j] \in Owing({scan.list[j]}) => scan.list[j].to \in Met

CrawlInv == Placed /\ Owes /\ Scanned /\ Tried /\ Linked /\ StormRuns /\ StormOwes

\* What a query of a page finds.
LEMMA VisibleSays ==
  ASSUME run \in Runs, NEW page, IsPage(page)
  PROVE  /\ Visible(page) \in Seq(Range(site.controls[page.url]))
         /\ \A i \in DOMAIN Visible(page) : IsOne(Visible(page)[i])
<1> DEFINE all == site.controls[page.url]
           places == {i \in DOMAIN all : Shown(all[i], page)}
<1>1. all \in Seq(Range(all)) /\ \A i \in DOMAIN all : IsControl(site, all[i])
  BY AppSays DEF IsPage
<1>2. \A i \in DOMAIN all : IsOne(all[i])
  BY <1>1 DEF IsOne, Prompt, IsPage, Urls
<1>3. Visible(page) = Those(all, places)
  BY DEF Visible, Places
<1> HIDE DEF places
<1>4. /\ Those(all, places) \in Seq(Range(all))
      /\ \A k \in DOMAIN Those(all, places) : \E i \in DOMAIN all : Those(all, places)[k] = all[i]
  BY <1>1, ThoseSays
<1> QED
  BY <1>2, <1>3, <1>4

\* The primed state is of the same run.
LEMMA SameRun ==
  ASSUME run' = run
  PROVE  /\ site' = site /\ budget' = budget /\ Prompt' = Prompt /\ Urls' = Urls /\ Asks' = Asks
         /\ OwnAsks' = OwnAsks /\ folded' = folded /\ mutations' = mutations
BY DEF site, budget, Prompt, Urls, Asks, OwnAsks, OwnOrigin, folded, mutations

LEMMA SameTab ==
  ASSUME run' = run, TabInv(tab')
  PROVE  TabInv(tab)'
<1>1. Expects(tab)'
  BY SameRun DEF TabInv, Expects, IsPage
<1>2. Tells(tab)'
  BY DEF TabInv, Tells
<1>3. Follows(tab, tab.page.url)'
  BY DEF TabInv, Follows
<1> QED
  BY <1>1, <1>2, <1>3 DEF TabInv

\* A storm keeps to its options while the page and the mission go on.
LEMMA StormSame ==
  ASSUME StormRuns, walking' = walking, run' = run, storm' = storm
  PROVE  StormRuns'
<1>1. \A path : MayAsk(path)' <=> MayAsk(path)
  BY DEF MayAsk, site
<1>2. Allowed({path \in Range(site.order) : MayAsk(path)})' = Allowed({path \in Range(site.order) : MayAsk(path)})
  BY <1>1, SameRun DEF Allowed
<1> QED
  BY <1>1, <1>2, SameRun DEF StormRuns

\* A storm that is not on yet.
LEMMA StormRests ==
  ASSUME StormRuns, walking # "done", run' = run, storm' = storm
  PROVE  StormRuns' /\ StormOwes'
<1>1. \A path : MayAsk(path)' <=> MayAsk(path)
  BY DEF MayAsk, site
<1>2. Allowed({path \in Range(site.order) : MayAsk(path)})' = Allowed({path \in Range(site.order) : MayAsk(path)})
  BY <1>1, SameRun DEF Allowed
<1>3. StormRuns'
  BY <1>1, <1>2, SameRun DEF StormRuns
<1>4. StormOwes'
  BY DEF StormRuns, StormOwes
<1> QED
  BY <1>3, <1>4

\* What an action of the mission has to see to.
LEMMA MissionMoves ==
  ASSUME CrawlInv, walking # "done", walking = "boot" => Mapped, walking' # "boot",
         UNCHANGED <<run, mapping, storm>>, TabInv(tab'),
         queue' \in Seq(Urls), Len(queue') <= QueueCap, actions' \in Nat,
         walking' \in {"turn", "fuzz"} => url' \in Urls,
         walking' \in {"seed", "begin", "turn", "fuzz", "thrown"} => owed' = {},
         owed' \subseteq Met',
         walking' = "done" => actions' >= budget \/ owed' \subseteq visited' \cup lost',
         walking' \in {"handle", "acted", "reloaded"} =>
           /\ IsPage(scan'.page) /\ scan'.list = Visible(scan'.page) /\ hi' \in Nat \ {0}
           /\ walking' = "handle" =>
                /\ tab'.page = scan'.page \/ tab'.coming = Nothing
                /\ Prompt => tab'.page = scan'.page,
         Tried', Linked'
  PROVE  CrawlInv'
<1> USE DEF CrawlInv
<1>1. Placed'
  BY SameRun, SameTab DEF Placed, Mapped
<1>2. Owes'
  BY SameRun DEF Owes
<1>3. Scanned'
  <2>1. \A p : Visible(p)' = Visible(p) /\ (IsPage(p)' <=> IsPage(p))
    BY SameRun DEF Visible, Places, Shown, IsPage
  <2> QED
    BY <2>1, SameRun DEF Scanned, Alive
<1>4. StormRuns' /\ StormOwes'
  BY StormRests
<1> QED
  BY <1>1, <1>2, <1>3, <1>4

\* One that is not among the handles of a page.
LEMMA MissionMovesOn ==
  ASSUME CrawlInv, walking # "done", walking = "boot" => Mapped,
         walking' \notin {"boot", "handle", "acted", "reloaded"},
         UNCHANGED <<run, mapping, storm>>, TabInv(tab'),
         queue' \in Seq(Urls), Len(queue') <= QueueCap, actions' \in Nat,
         walking' \in {"turn", "fuzz"} => url' \in Urls,
         walking' \in {"seed", "begin", "turn", "fuzz", "thrown"} => owed' = {},
         owed' \subseteq Met',
         walking' = "done" => actions' >= budget \/ owed' \subseteq visited' \cup lost'
  PROVE  CrawlInv'
<1>1. Tried' /\ Linked'
  BY DEF Tried, Linked
<1> QED
  BY <1>1, MissionMoves

\* A URL that joins the queue, if there is room for it.
LEMMA QueuedKeeps ==
  ASSUME Placed, NEW target \in Urls, Queued(target), visited' = visited
  PROVE  queue' \in Seq(Urls) /\ Len(queue') <= QueueCap /\ Met \cup {target} \subseteq Met'
<1>1. queue \in Seq(Urls) /\ Len(queue) <= QueueCap /\ Len(queue) \in Nat /\ QueueCap \in Nat
  BY WalkerAssumption DEF Placed
<1>2. CASE target \notin visited /\ Len(queue) < QueueCap
  <2>1. queue' = Append(queue, target) /\ lost' = lost
    BY <1>1, <1>2 DEF Queued
  <2>2. /\ queue' \in Seq(Urls) /\ Len(queue') = Len(queue) + 1 /\ queue'[Len(queue) + 1] = target
        /\ \A i \in 1 .. Len(queue) : queue'[i] = queue[i]
    BY <1>1, <2>1
  <2>3. Range(queue) \cup {target} \subseteq Range(queue')
    BY <1>1, <2>2 DEF Range
  <2> QED
    BY <1>1, <1>2, <2>1, <2>2, <2>3 DEF Met
<1>3. CASE ~(target \notin visited /\ Len(queue) < QueueCap)
  BY <1>1, <1>3 DEF Queued, Met
<1> QED
  BY <1>2, <1>3

\* What an action that leaves the crawl's own lists alone keeps of them.
LEMMA ListsKept ==
  ASSUME Placed, Owes, UNCHANGED <<queue, visited, lost, owed>>
  PROVE  queue' \in Seq(Urls) /\ Len(queue') <= QueueCap /\ owed' \subseteq Met'
BY DEF Placed, Owes, Met

\* An action that leaves them alone, and is not among the handles of a page.
LEMMA MissionGoesOn ==
  ASSUME CrawlInv, walking # "done", walking = "boot" => Mapped,
         walking' \notin {"boot", "handle", "acted", "reloaded", "done"},
         UNCHANGED <<run, mapping, storm>>, TabInv(tab'), actions' \in Nat,
         UNCHANGED <<queue, visited, lost, owed>>,
         walking' \in {"turn", "fuzz"} => url' \in Urls,
         walking' \in {"seed", "begin", "turn", "fuzz", "thrown"} => owed' = {}
  PROVE  CrawlInv'
BY ListsKept, MissionMovesOn DEF CrawlInv

LEMMA QueueHas ==
  ASSUME Placed, queue # <<>>
  PROVE  /\ Head(queue) \in Urls /\ Tail(queue) \in Seq(Urls) /\ Len(Tail(queue)) <= QueueCap
         /\ Range(queue) = {Head(queue)} \cup Range(Tail(queue))
<1>1. /\ queue \in Seq(Urls) /\ Len(queue) \in Nat /\ Len(queue) > 0 /\ Len(queue) <= QueueCap
      /\ QueueCap \in Nat
  BY WalkerAssumption DEF Placed
<1>2. /\ Head(queue) = queue[1] /\ Len(Tail(queue)) = Len(queue) - 1 /\ Tail(queue) \in Seq(Urls)
      /\ DOMAIN queue = 1 .. Len(queue) /\ DOMAIN Tail(queue) = 1 .. Len(queue) - 1
      /\ \A i \in 1 .. Len(queue) - 1 : Tail(queue)[i] = queue[i + 1]
  BY <1>1
<1>3. Range(queue) \subseteq {Head(queue)} \cup Range(Tail(queue))
  <2> SUFFICES ASSUME NEW i \in 1 .. Len(queue)
               PROVE  queue[i] \in {Head(queue)} \cup Range(Tail(queue))
    BY <1>2 DEF Range
  <2>1. CASE i = 1
    BY <1>2, <2>1
  <2>2. CASE i # 1
    <3>1. i - 1 \in 1 .. Len(queue) - 1 /\ Tail(queue)[i - 1] = queue[i]
      BY <1>1, <1>2, <2>2
    <3> QED
      BY <1>2, <3>1 DEF Range
  <2> QED
    BY <2>1, <2>2
<1>4. {Head(queue)} \cup Range(Tail(queue)) \subseteq Range(queue)
  <2>1. 1 \in DOMAIN queue /\ \A i \in 1 .. Len(queue) - 1 : i + 1 \in DOMAIN queue
    BY <1>1, <1>2
  <2> QED
    BY <1>2, <2>1 DEF Range
<1> QED
  BY <1>1, <1>2, <1>3, <1>4

\* The next URL of a crawl.
LEMMA RouteKeeps ==
  ASSUME CrawlInv, NEW step \in {"query", "blur", "watch"}, walking \in {"walk", "keys", "look"},
         Route(step), UNCHANGED <<mapping, storm>>
  PROVE  CrawlInv'
<1> USE DEF CrawlInv
<1>1. /\ Head(queue) \in Urls /\ queue' = Tail(queue) /\ queue' \in Seq(Urls) /\ Len(queue') <= QueueCap
      /\ Range(queue) = {Head(queue)} \cup Range(queue') /\ run \in Runs /\ TabInv(tab)
      /\ run' = run /\ actions' = actions /\ owed' = owed /\ lost' = lost /\ actions' \in Nat
  BY QueueHas DEF Route, Placed
<1>2. CASE Head(queue) \in visited
  <2>1. tab' = tab /\ visited' = visited /\ walking' = walking
    BY <1>2 DEF Route
  <2>2. Met \subseteq Met'
    BY <1>1, <1>2, <2>1 DEF Met
  <2>3. owed' \subseteq Met'
    BY <1>1, <2>2 DEF Owes
  <2> QED
    BY <1>1, <2>1, <2>3, MissionMovesOn
<1>3. CASE Head(queue) \notin visited
  <2>1. /\ url' = Head(queue) /\ visited' = visited \cup {Head(queue)} /\ walking' = step
        /\ IF tab.page.url = url' THEN tab' = tab ELSE Goto(tab, url')
    BY <1>3 DEF Route
  <2>2. TabInv(tab')
    BY <1>1, <2>1, GotoKeeps
  <2>3. Met \subseteq Met'
    BY <1>1, <2>1 DEF Met
  <2>4. owed' \subseteq Met'
    BY <1>1, <2>3 DEF Owes
  <2> QED
    BY <1>1, <2>1, <2>2, <2>4, MissionMovesOn
<1> QED
  BY <1>2, <1>3

\* The end of a crawl: nothing waits, or the budget is spent.
LEMMA FinishKeeps ==
  ASSUME CrawlInv, NEW step \in {"walk", "keys", "look"}, Finish(step), UNCHANGED <<mapping, storm>>
  PROVE  CrawlInv'
<1> USE DEF CrawlInv
<1>1. /\ UNCHANGED <<run, tab, queue, visited, lost, owed, actions>> /\ walking = step /\ walking' = "done"
      /\ queue = <<>> \/ actions >= budget
  BY DEF Finish, crawlVars
<1>2. TabInv(tab') /\ actions' \in Nat
  BY <1>1 DEF Placed
<1>3. queue = <<>> => Range(queue) = {}
  BY DEF Range
<1>4. actions' >= budget \/ owed' \subseteq visited' \cup lost'
  BY <1>1, <1>3 DEF Owes, Met
<1> QED
  BY <1>1, <1>2, <1>4, ListsKept, MissionMovesOn

-----------------------------------------------------------------------------
(* walkDom.                                                                 *)

LEMMA WalkQueryKeeps ==
  ASSUME CrawlInv, WalkQuery, UNCHANGED <<mapping, storm>>
  PROVE  CrawlInv'
<1> USE DEF CrawlInv
<1>1. /\ UNCHANGED <<run, tab, queue, visited, lost, owed, actions>> /\ walking = "query"
  BY DEF WalkQuery, Unchanged, crawlVars
<1>2. TabInv(tab') /\ actions' \in Nat
  BY <1>1 DEF Placed
<1>3. CASE Query /\ walking' = "handle"
  <2>1. scan'.page = tab'.page /\ scan'.list = Visible(scan'.page) /\ hi' = 1
    BY <1>3 DEF Query
  <2>2. IsPage(scan'.page)
    BY <1>2, <2>1 DEF TabInv, Expects
  <2>3. Tried' /\ Linked'
    <3>1. Visible(scan'.page) \in Seq(Range(site.controls[scan'.page.url]))
      BY <1>1, <2>2, VisibleSays DEF Placed
    <3>2. \A j \in DOMAIN scan'.list : ~(j < hi')
      BY <2>1, <3>1
    <3> QED
      BY <3>2 DEF Tried, Linked
  <2> QED
    BY <1>1, <1>2, <1>3, <2>1, <2>2, <2>3, ListsKept, MissionMoves
<1>4. CASE walking' \in {"walk", "query"}
  BY <1>1, <1>2, <1>4, MissionGoesOn
<1> QED
  BY <1>3, <1>4 DEF WalkQuery

\* The handle that is looked at.
LEMMA HandleSays ==
  ASSUME CrawlInv, walking = "handle", ~PassOver
  PROVE  /\ hi \in DOMAIN scan.list /\ handle = scan.list[hi] /\ IsOne(handle)
         /\ DOMAIN scan.list \subseteq Nat
<1>1. /\ scan.list = Visible(scan.page) /\ IsPage(scan.page) /\ hi \in Nat \ {0}
      /\ run \in Runs /\ budget \in Nat /\ actions \in Nat
  BY AppSays DEF CrawlInv, Scanned, Placed
<1>2. /\ scan.list \in Seq(Range(site.controls[scan.page.url]))
      /\ \A i \in DOMAIN scan.list : IsOne(scan.list[i])
  BY <1>1, VisibleSays
<1>3. Len(scan.list) \in Nat /\ DOMAIN scan.list = 1 .. Len(scan.list)
  BY <1>2
<1>4. hi \in DOMAIN scan.list
  BY <1>1, <1>3 DEF PassOver
<1> QED
  BY <1>2, <1>3, <1>4 DEF handle

\* One handle on, on the same page.
LEMMA HandlesMove ==
  ASSUME CrawlInv, walking = "handle", ~PassOver, walking' = walking, hi' = hi + 1,
         UNCHANGED <<run, mapping, storm, tab, visited, owed, actions, pass, scan, seen>>,
         queue' \in Seq(Urls), Len(queue') <= QueueCap, Met \subseteq Met',
         pass = 0 /\ Prompt /\ handle.kind \in {"button", "text"} /\ ~Denied(handle) => handle.sign \in seen,
         pass = 1 /\ Alive /\ handle \in Owing({handle}) => handle.to \in Met'
  PROVE  CrawlInv'
<1> USE DEF CrawlInv
<1>1. hi \in DOMAIN scan.list /\ handle = scan.list[hi] /\ DOMAIN scan.list \subseteq Nat /\ hi \in Nat
  BY HandleSays
<1>2. \A j \in DOMAIN scan.list : j < hi' => j < hi \/ j = hi
  BY <1>1
<1>3. \A c : (Denied(c)' <=> Denied(c)) /\ (Internal(c.to)' <=> Internal(c.to))
  BY SameRun DEF Denied, Internal
<1>4. \A c : Owing({c})' = Owing({c})
  BY <1>3 DEF Owing
<1>5. Tried'
  BY <1>1, <1>2, <1>3, SameRun DEF Tried
<1>6. Linked'
  BY <1>1, <1>2, <1>4 DEF Linked, Alive
<1>7. TabInv(tab') /\ actions' \in Nat /\ owed' \subseteq Met'
  BY DEF Placed, Owes
<1>8. /\ IsPage(scan'.page) /\ scan'.list = Visible(scan'.page) /\ hi' \in Nat \ {0}
      /\ (tab'.page = scan'.page \/ tab'.coming = Nothing) /\ (Prompt => tab'.page = scan'.page)
  BY <1>1 DEF Scanned, Alive
<1> QED
  BY <1>5, <1>6, <1>7, <1>8, MissionMoves

LEMMA WalkSkipKeeps ==
  ASSUME CrawlInv, WalkSkip, UNCHANGED <<mapping, storm>>
  PROVE  CrawlInv'
<1>1. /\ walking = "handle" /\ ~PassOver /\ Passed(handle) /\ walking' = walking /\ hi' = hi + 1
      /\ UNCHANGED <<run, tab, queue, visited, lost, owed, actions, pass, scan, seen>>
  BY DEF WalkSkip, Unchanged, crawlVars
<1>2. queue' \in Seq(Urls) /\ Len(queue') <= QueueCap /\ Met \subseteq Met'
  BY <1>1 DEF CrawlInv, Placed, Met
<1>3. Prompt => Alive
  BY <1>1 DEF CrawlInv, Scanned
<1>4. pass = 0 /\ Prompt /\ handle.kind \in {"button", "text"} /\ ~Denied(handle) => handle.sign \in seen
  BY <1>1, <1>3 DEF Passed
<1>5. ~(pass = 1 /\ Alive /\ handle \in Owing({handle}))
  BY <1>1 DEF Passed, Owing
<1> QED
  BY <1>1, <1>2, <1>4, <1>5, HandlesMove

LEMMA WalkLinkKeeps ==
  ASSUME CrawlInv, WalkLink, UNCHANGED <<mapping, storm>>
  PROVE  CrawlInv'
<1>1. /\ walking = "handle" /\ ~PassOver /\ handle.kind = "link" /\ walking' = walking /\ hi' = hi + 1
      /\ UNCHANGED <<run, tab, visited, owed, actions, pass, scan, seen>>
      /\ IF Internal(handle.to) THEN Queued(handle.to) ELSE UNCHANGED <<queue, lost>>
  BY DEF WalkLink, Unchanged
<1>2. handle.to \in Urls \/ ~Internal(handle.to)
  BY AppSays DEF CrawlInv, Placed, Internal
<1>3. /\ queue' \in Seq(Urls) /\ Len(queue') <= QueueCap /\ Met \subseteq Met'
      /\ Internal(handle.to) => handle.to \in Met'
  <2>1. CASE Internal(handle.to)
    BY <1>1, <1>2, <2>1, QueuedKeeps DEF CrawlInv
  <2>2. CASE ~Internal(handle.to)
    BY <1>1, <2>2 DEF CrawlInv, Placed, Met
  <2> QED
    BY <2>1, <2>2
<1>4. handle.kind \notin {"button", "text"}
  BY <1>1
<1>5. handle \in Owing({handle}) => handle.to \in Met'
  BY <1>3 DEF Owing
<1> QED
  BY <1>1, <1>3, <1>4, <1>5, HandlesMove

LEMMA WalkActKeeps ==
  ASSUME CrawlInv, WalkAct, UNCHANGED <<mapping, storm>>
  PROVE  CrawlInv'
<1> DEFINE type == IF handle.kind = "text" THEN "input" ELSE "click"
           told == Record(tab, type, handle.id)
<1>1. /\ walking = "handle" /\ ~PassOver /\ walking' = "acted" /\ actions' = actions + 1
      /\ UNCHANGED <<run, queue, visited, lost, owed, scan, hi>>
      /\ IF run.dryRun THEN tab' = told ELSE tab' = Act(told, handle)
  BY DEF WalkAct, Unchanged
<1>2. IsOne(handle)
  BY <1>1, HandleSays
<1>3. TabInv(tab) /\ run \in Runs /\ actions' \in Nat
  BY <1>1 DEF CrawlInv, Placed
<1>4. TabInv(told)
  BY <1>3, RecordKeeps
<1> HIDE DEF told
<1>5. TabInv(tab')
  BY <1>1, <1>2, <1>3, <1>4, ActKeeps DEF IsOne
<1>6. IsPage(scan'.page) /\ scan'.list = Visible(scan'.page) /\ hi' \in Nat \ {0}
  BY <1>1 DEF CrawlInv, Scanned
<1>7. Tried' /\ Linked'
  BY <1>1 DEF Tried, Linked
<1>8. queue' \in Seq(Urls) /\ Len(queue') <= QueueCap /\ owed' \subseteq Met'
  BY <1>1, ListsKept DEF CrawlInv
<1> QED
  BY <1>1, <1>3, <1>5, <1>6, <1>7, <1>8, MissionMoves

LEMMA WalkReloadKeeps ==
  ASSUME CrawlInv, WalkReload, UNCHANGED <<mapping, storm>>
  PROVE  CrawlInv'
<1> DEFINE told == Record(tab, "navigate", tab.page.url)
<1>1. /\ walking = "acted" /\ walking' = "reloaded"
      /\ UNCHANGED <<run, queue, visited, lost, owed, actions, scan, hi>>
      /\ tab' = IF run.dryRun THEN told ELSE Loaded(told, told.page.url)
  BY DEF WalkReload, Unchanged, crawlVars, pageVars
<1>2. TabInv(tab) /\ run \in Runs /\ actions' \in Nat
  BY <1>1 DEF CrawlInv, Placed
<1>3. TabInv(told)
  BY <1>2, RecordKeeps
<1> HIDE DEF told
<1>4. TabInv(tab')
  BY <1>1, <1>2, <1>3, LoadedKeeps DEF TabInv, Expects, IsPage
<1>5. IsPage(scan'.page) /\ scan'.list = Visible(scan'.page) /\ hi' \in Nat \ {0}
  BY <1>1 DEF CrawlInv, Scanned
<1>6. Tried' /\ Linked'
  BY <1>1 DEF Tried, Linked
<1>7. queue' \in Seq(Urls) /\ Len(queue') <= QueueCap /\ owed' \subseteq Met'
  BY <1>1, ListsKept DEF CrawlInv
<1> QED
  BY <1>1, <1>2, <1>4, <1>5, <1>6, <1>7, MissionMoves

LEMMA WalkAfterKeeps ==
  ASSUME CrawlInv, WalkAfter, UNCHANGED <<mapping, storm>>
  PROVE  CrawlInv'
<1> DEFINE next == tab.page.url
           base == site.base[next]
<1>1. /\ walking \in {"acted", "reloaded"} /\ UNCHANGED <<run, tab, visited, owed, actions>>
      /\ UNCHANGED <<queue, lost>> \/ Queued(next) \/ Queued(base)
      /\ (walking' = "handle" /\ Query) \/ walking' = "walk"
  BY DEF WalkAfter, Unchanged
<1>2. TabInv(tab') /\ run \in Runs /\ actions' \in Nat /\ IsPage(tab.page)
  BY <1>1 DEF CrawlInv, Placed, TabInv, Expects
<1>3. next \in Urls /\ base \in Urls
  BY <1>2, AppSays DEF IsPage
<1> HIDE DEF next, base
<1>4. queue' \in Seq(Urls) /\ Len(queue') <= QueueCap /\ Met \subseteq Met'
  <2>1. CASE UNCHANGED <<queue, lost>>
    BY <1>1, <2>1 DEF CrawlInv, Placed, Met
  <2> QED
    BY <1>1, <1>3, <2>1, QueuedKeeps DEF CrawlInv
<1>5. owed' \subseteq Met'
  BY <1>1, <1>4 DEF CrawlInv, Owes
<1>6. CASE walking' = "walk"
  BY <1>1, <1>2, <1>4, <1>5, <1>6, MissionMovesOn
<1>7. CASE walking' = "handle" /\ Query
  <2>1. scan'.page = tab'.page /\ scan'.list = Visible(scan'.page) /\ hi' = 1 /\ IsPage(scan'.page)
    BY <1>1, <1>2, <1>7 DEF Query
  <2>2. Visible(scan'.page) \in Seq(Range(site.controls[scan'.page.url]))
    BY <1>2, <2>1, VisibleSays
  <2>3. \A j \in DOMAIN scan'.list : ~(j < hi')
    BY <2>1, <2>2
  <2>4. Tried' /\ Linked'
    BY <2>3 DEF Tried, Linked
  <2> QED
    BY <1>1, <1>2, <1>4, <1>5, <1>7, <2>1, <2>4, MissionMoves
<1> QED
  BY <1>1, <1>6, <1>7

LEMMA WalkPassEndKeeps ==
  ASSUME CrawlInv, WalkPassEnd, UNCHANGED <<mapping, storm>>
  PROVE  CrawlInv'
<1> DEFINE links == {x \in Range(scan.list) : x.kind = "link" /\ ~Denied(x) /\ Internal(x.to)}
<1>1. /\ walking = "handle" /\ PassOver /\ walking' \in {"walk", "query"}
      /\ UNCHANGED <<run, tab, queue, visited, lost, actions>>
      /\ owed' = IF pass = 1 /\ actions < budget /\ Alive THEN owed \cup {c.to : c \in links} ELSE owed
  BY DEF WalkPassEnd, Unchanged
<1>2. /\ TabInv(tab') /\ actions' \in Nat /\ run \in Runs /\ budget \in Nat /\ actions \in Nat
      /\ scan.list = Visible(scan.page) /\ IsPage(scan.page) /\ hi \in Nat
  BY <1>1, AppSays DEF CrawlInv, Placed, Scanned
<1>3. queue' \in Seq(Urls) /\ Len(queue') <= QueueCap /\ Met' = Met /\ owed \subseteq Met
  BY <1>1 DEF CrawlInv, Placed, Owes, Met
<1>4. ASSUME pass = 1, actions < budget, Alive PROVE {c.to : c \in links} \subseteq Met
  <2>1. scan.list \in Seq(Range(site.controls[scan.page.url]))
    BY <1>2, VisibleSays
  <2>2. \A j \in DOMAIN scan.list : j < hi
    BY <1>1, <1>2, <1>4, <2>1 DEF PassOver
  <2>3. ASSUME NEW j \in DOMAIN scan.list, scan.list[j] \in links PROVE scan.list[j].to \in Met
    <3>1. scan.list[j] \in Owing({scan.list[j]})
      BY <2>3 DEF Owing
    <3> QED
      BY <1>1, <1>4, <2>2, <3>1 DEF CrawlInv, Linked
  <2> QED
    BY <2>3 DEF Range
<1>5. owed' \subseteq Met'
  BY <1>1, <1>3, <1>4
<1> QED
  BY <1>1, <1>2, <1>3, <1>5, MissionMovesOn

LEMMA WalkKeeps ==
  ASSUME CrawlInv, WalkStep, UNCHANGED <<mapping, storm>>
  PROVE  CrawlInv'
<1>1. CASE WalkRoute
  BY <1>1, RouteKeeps DEF WalkRoute
<1>2. CASE Finish("walk")
  BY <1>2, FinishKeeps
<1> QED
  BY <1>1, <1>2, WalkQueryKeeps, WalkSkipKeeps, WalkLinkKeeps, WalkActKeeps, WalkReloadKeeps,
     WalkAfterKeeps, WalkPassEndKeeps DEF WalkStep

-----------------------------------------------------------------------------
(* keyboardWalk.                                                            *)

\* A tab with the focus elsewhere.
LEMMA FocusKeeps ==
  ASSUME NEW t, TabInv(t), NEW f
  PROVE  TabInv([t EXCEPT !.focus = f])
<1> DEFINE r == [t EXCEPT !.focus = f]
<1>1. /\ DOMAIN r = Fields /\ r.page = t.page /\ r.coming = t.coming
      /\ r.entries = t.entries /\ r.issued = t.issued /\ r.wired = t.wired
      /\ r.trace = t.trace /\ r.lastNav = t.lastNav /\ r.shifted = t.shifted
  BY DEF TabInv, Expects, Fields
<1> HIDE DEF r
<1>2. Expects(r)
  BY <1>1 DEF TabInv, Expects
<1>3. TabInv(r)
  BY <1>1, <1>2, SameStory
<1> QED
  BY <1>3 DEF r

\* What has the focus is a control of the page.
LEMMA FocusedSays ==
  ASSUME run \in Runs, NEW t, IsPage(t.page), NEW c \in Focused(t)
  PROVE  IsOne(c)
<1>1. PICK i \in DOMAIN site.controls[t.page.url] : c = site.controls[t.page.url][i]
  BY DEF Focused, Holders, Focusable, Places
<1>2. IsControl(site, c)
  BY <1>1, AppSays DEF IsPage
<1> QED
  BY <1>1, <1>2 DEF IsOne, Prompt, IsPage, Urls

\* A Tab, an Enter, a look: nothing of the lists.
LEMMA KeyBlurKeeps ==
  ASSUME CrawlInv, KeyBlur, UNCHANGED <<mapping, storm>>
  PROVE  CrawlInv'
<1>1. /\ walking = "blur" /\ walking' = "tab" /\ tab' = [tab EXCEPT !.focus = "none"]
      /\ UNCHANGED <<run, queue, visited, lost, owed, actions>>
  BY DEF KeyBlur, Unchanged, crawlVars
<1>2. TabInv(tab) /\ actions' \in Nat
  BY <1>1 DEF CrawlInv, Placed
<1>3. TabInv(tab')
  BY <1>1, <1>2, FocusKeeps
<1> QED
  BY <1>1, <1>2, <1>3, MissionGoesOn

LEMMA KeyTabKeeps ==
  ASSUME CrawlInv, KeyTab, UNCHANGED <<mapping, storm>>
  PROVE  CrawlInv'
<1> DEFINE told == Record(tab, "keypress", tab.focus)
<1>1. /\ walking = "tab" /\ walking' \in {"keys", "focused"}
      /\ tab' = IF run.dryRun THEN told ELSE [told EXCEPT !.focus = NextFocus(told)]
      /\ UNCHANGED <<run, queue, visited, lost, owed, actions>>
  BY DEF KeyTab, Unchanged, crawlVars
<1>2. TabInv(tab) /\ actions' \in Nat
  BY <1>1 DEF CrawlInv, Placed
<1>3. TabInv(told)
  BY <1>2, RecordKeeps
<1> HIDE DEF told
<1>4. TabInv(tab')
  BY <1>1, <1>3, FocusKeeps
<1> QED
  BY <1>1, <1>2, <1>4, MissionGoesOn

LEMMA KeyGoneKeeps ==
  ASSUME CrawlInv, KeyGone, UNCHANGED <<mapping, storm>>
  PROVE  CrawlInv'
<1>1. /\ walking = "focused" /\ walking' = "entered" /\ tab' = Record(tab, "keypress", "none")
      /\ UNCHANGED <<run, queue, visited, lost, owed>> /\ actions' = actions + 1
  BY DEF KeyGone, Unchanged
<1>2. TabInv(tab) /\ actions' \in Nat
  BY <1>1 DEF CrawlInv, Placed
<1>3. TabInv(tab')
  BY <1>1, <1>2, RecordKeeps
<1> QED
  BY <1>1, <1>2, <1>3, MissionGoesOn

LEMMA KeyPageEndKeeps ==
  ASSUME CrawlInv, KeyPageEnd, UNCHANGED <<mapping, storm>>
  PROVE  CrawlInv'
<1>1. /\ walking = "tab" /\ walking' = "keys"
      /\ UNCHANGED <<run, tab, queue, visited, lost, owed, actions>>
  BY DEF KeyPageEnd, Unchanged, crawlVars
<1>2. TabInv(tab') /\ actions' \in Nat
  BY <1>1 DEF CrawlInv, Placed
<1> QED
  BY <1>1, <1>2, MissionGoesOn

\* A URL that joins the queue, or does not.
LEMMA KeyLists ==
  ASSUME CrawlInv, walking # "done", walking = "boot" => Mapped,
         walking' \in {"keys", "tab"}, NEW target, target \in Urls,
         Queued(target) \/ UNCHANGED <<queue, lost>>,
         UNCHANGED <<run, mapping, storm, visited, owed, actions>>, TabInv(tab')
  PROVE  CrawlInv'
<1>1. queue' \in Seq(Urls) /\ Len(queue') <= QueueCap /\ Met \subseteq Met'
  <2>1. CASE UNCHANGED <<queue, lost>>
    BY <2>1 DEF CrawlInv, Placed, Met
  <2> QED
    BY <2>1, QueuedKeeps DEF CrawlInv
<1>2. owed' \subseteq Met' /\ actions' \in Nat
  BY <1>1 DEF CrawlInv, Owes, Placed
<1> QED
  BY <1>1, <1>2, MissionMovesOn

LEMMA KeyPassKeeps ==
  ASSUME CrawlInv, KeyPass, UNCHANGED <<mapping, storm>>
  PROVE  CrawlInv'
<1>1. PICK c \in Focused(tab) : (Internal(c.to) /\ Queued(c.to)) \/ UNCHANGED <<queue, lost>>
  BY DEF KeyPass
<1>2. /\ walking = "focused" /\ walking' = "tab"
      /\ UNCHANGED <<run, tab, visited, owed, actions>>
  BY DEF KeyPass, Unchanged
<1>3. TabInv(tab') /\ run \in Runs
  BY <1>2 DEF CrawlInv, Placed
<1>4. CASE Internal(c.to) /\ Queued(c.to)
  <2>1. c.to \in Urls
    BY <1>3, <1>4, AppSays DEF Internal
  <2> QED
    BY <1>2, <1>3, <1>4, <2>1, KeyLists
<1>5. CASE UNCHANGED <<queue, lost>>
  BY <1>2, <1>3, <1>5, AppSays, KeyLists
<1> QED
  BY <1>1, <1>4, <1>5

LEMMA KeyActKeeps ==
  ASSUME CrawlInv, KeyAct, UNCHANGED <<mapping, storm>>
  PROVE  CrawlInv'
<1>1. PICK c \in Focused(tab) :
        /\ tab' = Act(Record(tab, IF c.kind = "text" THEN "input" ELSE "keypress", c.id), c)
        /\ walking' = IF c.kind = "text" THEN "typed" ELSE "entered"
  BY DEF KeyAct
<1> DEFINE told == Record(tab, IF c.kind = "text" THEN "input" ELSE "keypress", c.id)
<1>2. /\ walking = "focused" /\ walking' \in {"typed", "entered"}
      /\ UNCHANGED <<run, queue, visited, lost, owed>> /\ actions' = actions + 1
      /\ tab' = Act(told, c)
  BY <1>1 DEF KeyAct, Unchanged
<1>3. TabInv(tab) /\ actions' \in Nat /\ run \in Runs /\ IsPage(tab.page)
  BY <1>2 DEF CrawlInv, Placed, TabInv, Expects
<1>4. IsOne(c)
  BY <1>3, FocusedSays
<1>5. TabInv(told)
  BY <1>3, RecordKeeps
<1> HIDE DEF told
<1>6. TabInv(tab')
  BY <1>2, <1>3, <1>4, <1>5, ActKeeps DEF IsOne
<1> QED
  BY <1>2, <1>3, <1>6, MissionGoesOn

LEMMA KeyAfterKeeps ==
  ASSUME CrawlInv, KeyAfter, UNCHANGED <<mapping, storm>>
  PROVE  CrawlInv'
<1> DEFINE base == site.base[tab.page.url]
<1>1. /\ walking \in {"entered", "typed"} /\ walking' \in {"keys", "tab"}
      /\ UNCHANGED <<run, visited, owed, actions>>
      /\ tab' = IF walking = "entered" THEN Record(tab, "keypress", "escape") ELSE tab
      /\ Queued(base) \/ UNCHANGED <<queue, lost>>
  BY DEF KeyAfter, Unchanged
<1>2. TabInv(tab) /\ run \in Runs /\ IsPage(tab.page)
  BY <1>1 DEF CrawlInv, Placed, TabInv, Expects
<1>3. base \in Urls
  BY <1>2, AppSays DEF IsPage
<1> HIDE DEF base
<1>4. TabInv(tab')
  BY <1>1, <1>2, RecordKeeps
<1> QED
  BY <1>1, <1>3, <1>4, KeyLists

LEMMA KeysKeep ==
  ASSUME CrawlInv, KeyStep, UNCHANGED <<mapping, storm>>
  PROVE  CrawlInv'
<1>1. CASE KeyRoute
  BY <1>1, RouteKeeps DEF KeyRoute
<1>2. CASE Finish("keys")
  BY <1>2, FinishKeeps
<1> QED
  BY <1>1, <1>2, KeyBlurKeeps, KeyTabKeeps, KeyPageEndKeeps, KeyGoneKeeps, KeyPassKeeps,
     KeyActKeeps, KeyAfterKeeps DEF KeyStep

-----------------------------------------------------------------------------
(* observe and fuzz.                                                        *)

\* The lesser of two numbers.
LEMMA MinOfTwo ==
  ASSUME NEW a \in Int, NEW b \in Int
  PROVE  Min({a, b}) = IF a <= b THEN a ELSE b
<1> DEFINE m == IF a <= b THEN a ELSE b
<1>1. m \in {a, b} /\ \A y \in {a, b} : m <= y
  OBVIOUS
<1>2. \A x \in {a, b} : (\A y \in {a, b} : x <= y) => x = m
  OBVIOUS
<1> HIDE DEF m
<1>3. Min({a, b}) = m
  BY <1>1, <1>2 DEF Min
<1> QED
  BY <1>3 DEF m

\* Two lists, one after the other.
Joined(T, s, u, q) ==
  /\ q \in Seq(T) /\ Len(q) = Len(s) + Len(u)
  /\ \A i \in 1 .. Len(s) : q[i] = s[i]
  /\ \A i \in 1 .. Len(u) : q[Len(s) + i] = u[i]

LEMMA JoinSays ==
  ASSUME NEW T, NEW s \in Seq(T), NEW u \in Seq(T)
  PROVE  Joined(T, s, u, s \o u)
<1> DEFINE q == s \o u
<1>1. q \in Seq(T) /\ Len(q) = Len(s) + Len(u) /\ Len(s) \in Nat /\ Len(u) \in Nat
  OBVIOUS
<1>2. \A i \in 1 .. Len(s) + Len(u) : q[i] = IF i <= Len(s) THEN s[i] ELSE u[i - Len(s)]
  OBVIOUS
<1> HIDE DEF q
<1>3. ASSUME NEW i \in 1 .. Len(s) PROVE q[i] = s[i]
  BY <1>1, <1>2
<1>4. ASSUME NEW i \in 1 .. Len(u) PROVE q[Len(s) + i] = u[i]
  <2>1. Len(s) + i \in 1 .. Len(s) + Len(u) /\ ~(Len(s) + i <= Len(s)) /\ Len(s) + i - Len(s) = i
    BY <1>1
  <2> QED
    BY <1>2, <2>1
<1>5. Joined(T, s, u, q)
  BY <1>1, <1>3, <1>4 DEF Joined
<1> QED
  BY <1>5 DEF q

LEMMA LookLinksKeeps ==
  ASSUME CrawlInv, LookLinks, UNCHANGED <<mapping, storm>>
  PROVE  CrawlInv'
<1> DEFINE all == site.controls[tab.page.url]
           places == {i \in Places(tab.page) : all[i].kind = "link" /\ Internal(all[i].to)
                                                /\ all[i].to \notin visited}
           links == Those(all, places)
           room == QueueCap - Len(queue)
           n == Min({room, Len(links)})
           taken == SubSeq(links, 1, n)
           urls == [i \in DOMAIN taken |-> taken[i].to]
           S == Range(all)
<1>1. /\ walking = "watch" /\ walking' = "look" /\ UNCHANGED <<run, tab, visited>>
      /\ queue' = queue \o urls /\ owed' = owed \cup {links[i].to : i \in DOMAIN links}
      /\ lost' = lost \cup {links[i].to : i \in DOMAIN links \ DOMAIN taken}
      /\ actions' = actions + 1
  BY DEF LookLinks, Unchanged
<1> HIDE DEF all, places, links, room, n, taken, urls, S
<1>2. /\ TabInv(tab) /\ actions' \in Nat /\ run \in Runs /\ IsPage(tab.page)
      /\ queue \in Seq(Urls) /\ Len(queue) \in Nat /\ Len(queue) <= QueueCap /\ QueueCap \in Nat
  <2>1. TabInv(tab) /\ run \in Runs /\ queue \in Seq(Urls) /\ Len(queue) <= QueueCap /\ actions \in Nat
    BY <1>1 DEF CrawlInv, Placed
  <2>2. IsPage(tab.page)
    BY <2>1 DEF TabInv, Expects
  <2>3. Len(queue) \in Nat /\ QueueCap \in Nat /\ actions' \in Nat
    BY <1>1, <2>1, WalkerAssumption
  <2> QED
    BY <2>1, <2>2, <2>3
<1> USE DEF all, places, links, room, n, taken, urls, S
<1>3. all \in Seq(S)
  BY <1>2, AppSays DEF IsPage
<1>4. \A i \in places : i \in DOMAIN all /\ all[i].to \in Urls
  BY <1>2, AppSays DEF Internal, Places
<1> HIDE DEF all, S, places
<1>5. links \in Seq(S) /\ \A k \in DOMAIN links : links[k].to \in Urls
  BY <1>3, <1>4, ThoseSays
<1> HIDE DEF links
<1>6. n \in Nat /\ n <= room /\ n <= Len(links) /\ Len(links) \in Nat
  <2>1. room \in Int /\ room >= 0 /\ Len(links) \in Nat
    BY <1>2, <1>5
  <2> HIDE DEF room
  <2> QED
    BY <2>1, MinOfTwo
<1> HIDE DEF n
<1>7. Len(taken) = n /\ DOMAIN taken = 1 .. n /\ \A i \in 1 .. n : taken[i] = links[i]
  BY <1>5, <1>6
<1> HIDE DEF taken
<1>8. urls \in Seq(Urls) /\ Len(urls) = n /\ DOMAIN urls = 1 .. n /\ \A i \in 1 .. n : urls[i] = links[i].to
  <2>1. \A i \in 1 .. n : i \in DOMAIN links
    BY <1>5, <1>6
  <2> QED
    BY <1>5, <1>6, <1>7, <2>1
<1> HIDE DEF urls
<1>9. /\ queue' \in Seq(Urls) /\ Len(queue') = Len(queue) + n
      /\ \A i \in 1 .. Len(queue) : queue'[i] = queue[i]
      /\ \A i \in 1 .. n : queue'[Len(queue) + i] = urls[i]
  <2>1. queue' = queue \o urls /\ queue \in Seq(Urls) /\ urls \in Seq(Urls)
    BY <1>1, <1>2, <1>8
  <2>2. /\ queue' \in Seq(Urls) /\ Len(queue') = Len(queue) + Len(urls)
        /\ \A i \in 1 .. Len(queue) : queue'[i] = queue[i]
        /\ \A i \in 1 .. Len(urls) : queue'[Len(queue) + i] = urls[i]
    <3>1. Joined(Urls, queue, urls, queue')
      BY <2>1, JoinSays
    <3> QED
      BY <3>1 DEF Joined
  <2> QED
    BY <1>8, <2>2
<1>10. Len(queue') <= QueueCap
  BY <1>2, <1>6, <1>9
<1>11. Range(queue) \subseteq Range(queue')
  BY <1>2, <1>6, <1>9 DEF Range
<1>12. ASSUME NEW i \in DOMAIN links PROVE links[i].to \in Met'
  <2>1. CASE i \in DOMAIN taken
    <3>1. i \in 1 .. n
      BY <1>7, <2>1
    <3>2. Len(queue) + i \in 1 .. Len(queue) + n
      BY <1>2, <1>6, <3>1
    <3>3. Len(queue) + i \in DOMAIN queue'
      BY <1>9, <3>2
    <3>4. queue'[Len(queue) + i] = links[i].to
      BY <1>8, <1>9, <3>1
    <3> QED
      BY <3>3, <3>4 DEF Met, Range
  <2>2. CASE i \notin DOMAIN taken
    BY <1>1, <2>2 DEF Met
  <2> QED
    BY <2>1, <2>2
<1>13. owed' \subseteq Met'
  <2>1. owed \subseteq Met'
    BY <1>1, <1>11 DEF CrawlInv, Owes, Met
  <2> QED
    BY <1>1, <1>12, <2>1
<1> QED
  BY <1>1, <1>2, <1>9, <1>10, <1>13, MissionMovesOn

LEMMA LooksKeep ==
  ASSUME CrawlInv, LookStep, UNCHANGED <<mapping, storm>>
  PROVE  CrawlInv'
<1>1. CASE LookRoute
  BY <1>1, RouteKeeps DEF LookRoute
<1>2. CASE Finish("look")
  BY <1>2, FinishKeeps
<1> QED
  BY <1>1, <1>2, LookLinksKeeps DEF LookStep

\* A turn of the fuzzer.
LEMMA TurnKeeps ==
  ASSUME CrawlInv, walking = "fuzz", NEW done, Turn(done), TabInv(tab'), UNCHANGED <<mapping, storm>>
  PROVE  CrawlInv'
<1>1. /\ walking' = "turn" /\ UNCHANGED <<run, queue, visited, lost, owed, url>>
      /\ actions' = IF done THEN actions + 1 ELSE actions
  BY DEF Turn, Unchanged
<1>2. actions' \in Nat /\ url' \in Urls /\ owed' = {}
  BY <1>1 DEF CrawlInv, Placed
<1> QED
  BY <1>1, <1>2, MissionGoesOn

\* What the fuzzer may act on is on the page.
LEMMA ActionableSays ==
  ASSUME run \in Runs, IsPage(tab.page), NEW c \in Actionable
  PROVE  IsOne(c)
<1>1. PICK i \in DOMAIN Visible(tab.page) : c = Visible(tab.page)[i]
  BY DEF Actionable, Range
<1> QED
  BY <1>1, VisibleSays

LEMMA FuzzHomeKeeps ==
  ASSUME CrawlInv, FuzzHome, UNCHANGED <<mapping, storm>>
  PROVE  CrawlInv'
<1>1. /\ walking = "turn" /\ walking' = "fuzz"
      /\ UNCHANGED <<run, queue, visited, lost, owed, actions, url>>
      /\ IF tab.page.url = url THEN tab' = tab ELSE Goto(tab, url)
  BY DEF FuzzHome, crawlVars
<1>2. TabInv(tab) /\ run \in Runs /\ url \in Urls /\ actions' \in Nat /\ owed' = {}
  BY <1>1 DEF CrawlInv, Placed
<1>3. TabInv(tab')
  BY <1>1, <1>2, GotoKeeps
<1> QED
  BY <1>1, <1>2, <1>3, MissionGoesOn

LEMMA FuzzActKeeps ==
  ASSUME CrawlInv, FuzzScroll \/ FuzzFill \/ FuzzClick \/ FuzzHover \/ FuzzKey,
         UNCHANGED <<mapping, storm>>
  PROVE  CrawlInv'
<1>1. walking = "fuzz" /\ Turn(TRUE)
  BY DEF FuzzScroll, FuzzFill, FuzzClick, FuzzHover, FuzzKey
<1>2. TabInv(tab) /\ run \in Runs /\ IsPage(tab.page)
  BY <1>1 DEF CrawlInv, Placed, TabInv, Expects
<1>3. TabInv(tab')
  <2>1. CASE FuzzScroll
    BY <1>2, <2>1, RecordKeeps DEF FuzzScroll
  <2>2. CASE FuzzFill
    <3>1. PICK c \in Actionable :
            LET told == Record(tab, "input", c.id)
            IN  tab' = told \/ tab' = Act([told EXCEPT !.focus = c.id], c)
      BY <2>2 DEF FuzzFill
    <3> DEFINE told == Record(tab, "input", c.id)
               held == [told EXCEPT !.focus = c.id]
    <3>2. TabInv(told)
      BY <1>2, RecordKeeps
    <3>3. tab' = told \/ tab' = Act(held, c)
      BY <3>1
    <3> HIDE DEF told
    <3>4. TabInv(held)
      BY <3>2, FocusKeeps
    <3> HIDE DEF held
    <3>5. IsOne(c)
      BY <1>2, ActionableSays
    <3> QED
      BY <1>2, <3>2, <3>3, <3>4, <3>5, ActKeeps DEF IsOne
  <2>3. CASE FuzzClick
    <3>1. PICK c \in Actionable :
            LET told == Record(tab, "click", c.id)
            IN  tab' = told \/ tab' = Act([told EXCEPT !.focus = IF c.focus THEN c.id ELSE @], c)
      BY <2>3 DEF FuzzClick
    <3> DEFINE told == Record(tab, "click", c.id)
               held == [told EXCEPT !.focus = IF c.focus THEN c.id ELSE told.focus]
    <3>2. TabInv(told)
      BY <1>2, RecordKeeps
    <3>3. tab' = told \/ tab' = Act(held, c)
      BY <3>1
    <3> HIDE DEF told
    <3>4. TabInv(held)
      BY <3>2, FocusKeeps
    <3> HIDE DEF held
    <3>5. IsOne(c)
      BY <1>2, ActionableSays
    <3> QED
      BY <1>2, <3>2, <3>3, <3>4, <3>5, ActKeeps DEF IsOne
  <2>4. CASE FuzzHover
    BY <1>2, <2>4, RecordKeeps DEF FuzzHover
  <2>5. CASE FuzzKey
    <3>1. PICK c \in Actionable, key \in {"Enter", "Tab", "Escape"} :
            LET told == Record(tab, "keypress", c.id)
                held == [told EXCEPT !.focus = IF c.focus THEN c.id ELSE @]
            IN  \/ tab' = told \/ tab' = [held EXCEPT !.focus = NextFocus(held)]
                \/ tab' = held \/ \E x \in Focused(held) : tab' = Act(held, x)
      BY <2>5 DEF FuzzKey
    <3> DEFINE told == Record(tab, "keypress", c.id)
               held == [told EXCEPT !.focus = IF c.focus THEN c.id ELSE told.focus]
    <3>2. TabInv(told)
      BY <1>2, RecordKeeps
    <3>3. \/ tab' = told \/ tab' = [held EXCEPT !.focus = NextFocus(held)]
          \/ tab' = held \/ \E x \in Focused(held) : tab' = Act(held, x)
      BY <3>1
    <3> HIDE DEF told
    <3>4. TabInv(held)
      BY <3>2, FocusKeeps
    <3> HIDE DEF held
    <3>5. IsPage(held.page)
      BY <3>4 DEF TabInv, Expects
    <3>6. TabInv([held EXCEPT !.focus = NextFocus(held)])
      BY <3>4, FocusKeeps
    <3>7. ASSUME NEW x \in Focused(held) PROVE TabInv(Act(held, x))
      <4>1. IsOne(x)
        BY <1>2, <3>5, FocusedSays
      <4> QED
        BY <1>2, <3>4, <4>1, ActKeeps DEF IsOne
    <3> QED
      BY <3>2, <3>3, <3>4, <3>6, <3>7
  <2> QED
    BY <2>1, <2>2, <2>3, <2>4, <2>5
<1> QED
  BY <1>1, <1>3, TurnKeeps

LEMMA FuzzEndKeeps ==
  ASSUME CrawlInv, FuzzEnd \/ FuzzThrows, UNCHANGED <<mapping, storm>>
  PROVE  CrawlInv'
<1>1. /\ walking \in {"turn", "fuzz"} /\ walking' \in {"done", "thrown"}
      /\ UNCHANGED <<run, tab, queue, visited, lost, owed, actions>>
  BY DEF FuzzEnd, FuzzThrows, crawlVars
<1>2. TabInv(tab') /\ actions' \in Nat /\ owed' = {}
  BY <1>1 DEF CrawlInv, Placed
<1> QED
  BY <1>1, <1>2, ListsKept, MissionMovesOn DEF CrawlInv

LEMMA FuzzKeeps ==
  ASSUME CrawlInv, FuzzStep, UNCHANGED <<mapping, storm>>
  PROVE  CrawlInv'
BY FuzzHomeKeeps, FuzzActKeeps, FuzzEndKeeps DEF FuzzStep

-----------------------------------------------------------------------------
(* The start of a mission.                                                  *)

LEMMA BootKeeps ==
  ASSUME CrawlInv, Boot, UNCHANGED <<mapping, storm>>
  PROVE  CrawlInv'
<1>1. /\ Mapped /\ walking = "boot" /\ walking' \in {"seed", "begin"}
      /\ UNCHANGED <<run, queue, visited, lost, owed, actions>>
      /\ Goto(NewTab("blank", TRUE), site.start)
  BY DEF Boot, crawlVars
<1>2. run \in Runs /\ actions' \in Nat /\ owed' = {}
  BY <1>1 DEF CrawlInv, Placed
<1>3. TabInv(tab')
  <2>1. TabInv(NewTab("blank", TRUE)) /\ site.start \in Urls
    BY <1>2, NewTabStarts, AppSays
  <2> QED
    BY <1>1, <1>2, <2>1, GotoKeeps
<1> QED
  BY <1>1, <1>2, <1>3, MissionGoesOn

\* A page whose storage is written is the same page.
LEMMA SeedKeeps ==
  ASSUME CrawlInv, Seed, UNCHANGED <<mapping, storm>>
  PROVE  CrawlInv'
<1>1. /\ walking = "seed" /\ walking' = "begin"
      /\ UNCHANGED <<run, queue, visited, lost, owed, actions>>
      /\ Goto([tab EXCEPT !.page.stored = TRUE], tab.page.url)
  BY DEF Seed, crawlVars
<1>2. run \in Runs /\ TabInv(tab) /\ actions' \in Nat /\ owed' = {}
  BY <1>1 DEF CrawlInv, Placed
<1> DEFINE t == [tab EXCEPT !.page.stored = TRUE]
<1>3. /\ DOMAIN t = Fields /\ DOMAIN t.page = DOMAIN tab.page /\ t.page.url = tab.page.url
      /\ t.coming = tab.coming /\ t.entries = tab.entries /\ t.issued = tab.issued
      /\ t.wired = tab.wired /\ t.trace = tab.trace /\ t.lastNav = tab.lastNav
      /\ t.shifted = tab.shifted
  BY <1>2 DEF TabInv, Expects, IsPage, Fields
<1>4. Goto(t, tab.page.url)
  BY <1>1
<1> HIDE DEF t
<1>5. Expects(t)
  BY <1>2, <1>3 DEF TabInv, Expects, IsPage
<1>6. Tells(t) /\ Follows(t, t.page.url)
  BY <1>2, <1>3 DEF TabInv, Tells, Follows, Says
<1>7. TabInv(t) /\ tab.page.url \in Urls
  BY <1>2, <1>5, <1>6 DEF TabInv, Expects, IsPage
<1>8. TabInv(tab')
  BY <1>2, <1>4, <1>7, GotoKeeps
<1> QED
  BY <1>1, <1>2, <1>8, MissionGoesOn

\* A storm of its own has nothing to do with the crawl.
LEMMA BeginKeeps ==
  ASSUME CrawlInv, Begin, UNCHANGED <<mapping, storm>>
  PROVE  CrawlInv'
<1>1. walking = "begin" /\ UNCHANGED <<run, tab>>
  BY DEF Begin
<1>2. run \in Runs /\ TabInv(tab) /\ actions \in Nat /\ owed = {} /\ tab.page.url \in Urls
  BY <1>1 DEF CrawlInv, Placed, TabInv, Expects, IsPage
<1>3. TabInv(tab')
  BY <1>1, <1>2
<1>4. CASE \E step \in {"walk", "keys", "look"} : Enter(step)
  <2>1. /\ queue' = <<tab.page.url>> /\ walking' \in {"walk", "keys", "look"}
        /\ UNCHANGED <<visited, actions, owed, lost>>
    BY <1>4 DEF Enter
  <2>2. queue' \in Seq(Urls) /\ Len(queue') <= QueueCap
    BY <1>2, <2>1, WalkerAssumption
  <2> QED
    BY <1>1, <1>2, <1>3, <2>1, <2>2, MissionMovesOn
<1>5. CASE url' = tab.page.url /\ walking' = "turn" /\ UNCHANGED <<queue, visited, actions, owed, lost>>
  BY <1>1, <1>2, <1>3, <1>5, MissionGoesOn
<1>6. CASE walking' = "done" /\ UNCHANGED <<queue, visited, actions, owed, lost>>
  BY <1>1, <1>2, <1>3, <1>6, ListsKept, MissionMovesOn DEF CrawlInv
<1>7. run.kind \in {"walk", "keyboard", "observe", "fuzz", "storm"}
  BY <1>2, SiteAssumption
<1> QED
  BY <1>4, <1>5, <1>6, <1>7 DEF Begin, crawlVars

-----------------------------------------------------------------------------
(* The scout, and what a page does by itself.                               *)

LEMMA ScoutKeeps ==
  ASSUME CrawlInv, Scout
  PROVE  CrawlInv'
<1>1. UNCHANGED <<queue, visited, url, actions, owed, lost, walking, storm>> /\ run' = run
  BY DEF Scout, ScoutOpen, ScoutFails, MapStep, MapRoot, MapPop, MapPerform, MapCapture, MapEnd,
         walkVars, crawlVars
<1>2. ~Mapped
  BY DEF Scout, ScoutOpen, ScoutFails, MapStep, MapRoot, MapPop, MapPerform, MapCapture, MapEnd,
         Mapped, Exploring
<1>3. walking = "boot"
  BY <1>2 DEF CrawlInv, Placed
<1>4. Placed'
  BY <1>1, <1>3, SameRun DEF CrawlInv, Placed
<1>5. Owes'
  BY <1>1, <1>3 DEF CrawlInv, Owes, Met
<1>6. Scanned' /\ Tried' /\ Linked'
  BY <1>1, <1>3 DEF Scanned, Tried, Linked
<1>7. StormRuns' /\ StormOwes'
  BY <1>1, <1>3, StormRests DEF CrawlInv
<1> QED
  BY <1>4, <1>5, <1>6, <1>7 DEF CrawlInv

\* Nothing is to come on a page after a late control did what it does.
LEMMA NothingComes ==
  ASSUME NEW t, run \in Runs, TabInv(t), t.coming = Nothing, NEW page, IsPage(page)
  PROVE  Commit(t, page).coming = Nothing
<1> DEFINE at == [t EXCEPT !.page = page,
                           !.coming = IF page.url # t.page.url THEN Nothing ELSE @,
                           !.focus = IF page.url # t.page.url THEN "none" ELSE @]
           fresh == site.base[page.url] # site.base[t.page.url]
           got == IF fresh THEN FetchDocument(at, page.url) ELSE at
<1>1. /\ DOMAIN at = Fields /\ at.page = page /\ at.coming = Nothing
      /\ at.entries = t.entries /\ at.issued = t.issued /\ at.wired = t.wired
      /\ at.trace = t.trace
  BY DEF TabInv, Expects, Fields
<1>2. Commit(t, page) = RecordMove(got)
  BY DEF Commit
<1> HIDE DEF at
<1>3. Expects(at)
  BY <1>1 DEF TabInv, Expects
<1>4. Expects(got) /\ got.coming = Nothing /\ got.trace = t.trace
  BY <1>1, <1>3, FetchDocumentKeeps DEF IsPage
<1> HIDE DEF got
<1> DEFINE r == Record(got, "navigate", got.page.url)
<1>5. Expects(r) /\ r.coming = Nothing
  BY <1>4, RecordSays DEF TabInv, Tells
<1> HIDE DEF r
<1>6. [r EXCEPT !.lastNav = got.page.url].coming = Nothing
  BY <1>5 DEF Expects, Fields
<1>7. RecordMove(got) = got \/ RecordMove(got) = [r EXCEPT !.lastNav = got.page.url]
  BY DEF RecordMove, r
<1> QED
  BY <1>2, <1>4, <1>6, <1>7

LEMMA ArriveComes ==
  ASSUME run \in Runs, TabInv(tab), Arrive
  PROVE  tab'.coming = Nothing
<1>1. Expects(tab) /\ IsControl(site, tab.coming)
  BY DEF TabInv, Expects, Arrive
<1> DEFINE r == [tab EXCEPT !.coming = Nothing]
           f == Fetch(r, tab.coming.calls)
<1>2. /\ DOMAIN r = Fields /\ r.page = tab.page /\ r.coming = Nothing
      /\ r.entries = tab.entries /\ r.issued = tab.issued /\ r.wired = tab.wired
      /\ r.trace = tab.trace /\ r.lastNav = tab.lastNav /\ r.shifted = tab.shifted
  BY <1>1 DEF Expects, Fields
<1>3. tab' = Commit(f, Outcome(tab.page, tab.coming))
  BY DEF Arrive
<1> HIDE DEF r
<1>4. Expects(r)
  BY <1>1, <1>2 DEF Expects
<1>5. tab.coming.calls \in Seq(Asks)
  BY <1>1 DEF IsControl, Asks
<1>6. /\ Expects(f) /\ f.page = r.page /\ f.trace = r.trace /\ f.lastNav = r.lastNav
      /\ (f.shifted <=> r.shifted) /\ f.coming = Nothing
  BY <1>2, <1>4, <1>5, FetchKeeps
<1> HIDE DEF f
<1>7. TabInv(f)
  BY <1>2, <1>6, SameStory
<1>8. IsPage(Outcome(tab.page, tab.coming))
  BY <1>1, OutcomeIsPage DEF Expects
<1> QED
  BY <1>3, <1>6, <1>7, <1>8, NothingComes

\* A late control changes a page whose handles the walk holds: they are dead
\* then, and nothing more is to come.
LEMMA LateKeeps ==
  ASSUME CrawlInv, Late
  PROVE  CrawlInv'
<1>1. /\ UNCHANGED <<queue, visited, url, actions, owed, lost, pass, scan, hi, seen, walking>>
      /\ UNCHANGED <<run, mapping, storm>> /\ Arrive
  BY DEF Late, Arrive, walkVars, crawlVars, pageVars, mapVars
<1>2. CASE walking = "boot"
  <2>1. Placed'
    BY <1>1, <1>2, SameRun DEF CrawlInv, Placed
  <2>2. Owes'
    BY <1>1, <1>2 DEF CrawlInv, Owes, Met
  <2>3. Scanned' /\ Tried' /\ Linked'
    BY <1>1, <1>2 DEF Scanned, Tried, Linked
  <2>4. StormRuns' /\ StormOwes'
    BY <1>1, <1>2, StormRests DEF CrawlInv
  <2> QED
    BY <2>1, <2>2, <2>3, <2>4 DEF CrawlInv
<1>3. CASE walking # "boot"
  <2>1. run \in Runs /\ TabInv(tab) /\ Mapped
    BY <1>3 DEF CrawlInv, Placed
  <2>2. TabInv(tab') /\ ~Prompt /\ tab.coming # Nothing
    BY <1>1, <2>1, ArriveKeeps DEF Arrive
  <2>3. tab'.coming = Nothing
    BY <1>1, <2>1, <2>2, ArriveComes
  <2>4. Placed'
    BY <1>1, <1>3, <2>1, <2>2, SameRun, SameTab DEF CrawlInv, Placed, Mapped
  <2>5. Owes'
    BY <1>1, SameRun DEF CrawlInv, Owes, Met
  <2>6. Scanned'
    <3>1. \A p : Visible(p)' = Visible(p) /\ (IsPage(p)' <=> IsPage(p))
      BY <1>1, SameRun DEF Visible, Places, Shown, IsPage
    <3> QED
      BY <1>1, <2>2, <2>3, <3>1, SameRun DEF CrawlInv, Scanned
  <2>7. Tried'
    BY <1>1, <2>2, SameRun DEF Tried
  <2>8. Linked'
    <3>1. walking = "handle" => Alive
      BY <2>2 DEF CrawlInv, Scanned
    <3>2. Met' = Met /\ \A links : Owing(links)' = Owing(links)
      BY <1>1, SameRun DEF Met, Owing, Denied, Internal
    <3> QED
      BY <1>1, <3>1, <3>2 DEF CrawlInv, Linked
  <2>9. StormRuns'
    BY <1>1, StormSame DEF CrawlInv
  <2>10. StormOwes'
    BY <1>1, <2>2, SameRun DEF StormOwes
  <2> QED
    BY <2>4, <2>5, <2>6, <2>7, <2>8, <2>9, <2>10 DEF CrawlInv
<1> QED
  BY <1>2, <1>3

-----------------------------------------------------------------------------
(* The steps of the storm.                                                  *)

\* The paths of the app that the options are about.
Targets == {path \in Range(site.order) : MayAsk(path)}

LEMMA SameOptions ==
  ASSUME run' = run
  PROVE  (\A path : MayAsk(path)' <=> MayAsk(path)) /\ Targets' = Targets
         /\ Allowed(Targets)' = Allowed(Targets)
<1>1. \A path : MayAsk(path)' <=> MayAsk(path)
  BY DEF MayAsk, site
<1>2. Targets' = Targets
  BY <1>1, SameRun DEF Targets
<1> QED
  BY <1>1, <1>2, SameRun DEF Allowed

\* What a step of a storm has to see to.
LEMMA StormMoves ==
  ASSUME CrawlInv, walking = "done", UNCHANGED <<run, mapping, walkVars>>, TabInv(tab'),
         DOMAIN storm' = StormFields, storm'.sent \in Nat, storm'.sent <= budget,
         storm'.at \in {"resources", "links", "send", "over", "hung"},
         storm'.at # "over" => run.allowed,
         \A path \in DOMAIN storm'.found : MayAsk(path),
         storm'.rest \in Seq(Allowed(Targets)), storm'.asked \subseteq Allowed(Targets),
         storm'.asked # {} => run.allowed /\ ~run.dryRun,
         \A b \in storm'.broken : b.last.what = b.request.path /\ b.last.type = b.request.kind,
         StormOwes'
  PROVE  CrawlInv'
<1>1. UNCHANGED <<queue, visited, url, actions, owed, lost, walking>> /\ run' = run
  BY DEF walkVars, crawlVars
<1>2. Placed'
  BY <1>1, SameRun, SameTab DEF CrawlInv, Placed, Mapped
<1>3. Owes'
  BY <1>1, SameRun DEF CrawlInv, Owes, Met
<1>4. Scanned' /\ Tried' /\ Linked'
  BY <1>1 DEF Scanned, Tried, Linked
<1>5. StormRuns'
  <2>1. Targets' = Targets /\ Targets = {path \in Range(site.order) : MayAsk(path)}
    BY SameOptions DEF Targets
  <2>2. Targets' = {path \in Range(site.order) : MayAsk(path)}'
    BY DEF Targets
  <2>3. Allowed({path \in Range(site.order) : MayAsk(path)})' = Allowed(Targets)
    BY <2>1, <2>2, SameRun DEF Allowed
  <2> QED
    BY <1>1, <2>3, SameOptions, SameRun DEF StormRuns
<1> QED
  BY <1>2, <1>3, <1>4, <1>5 DEF CrawlInv

\* What a storm owes after a step, of what the page has asked for.
LEMMA StormOwesThen ==
  ASSUME UNCHANGED <<run, walking>>,
         folded /\ run.http /\ run.allowed /\ Prompt /\ ~run.dryRun /\ walking = "done" =>
           \A i \in DOMAIN tab'.issued : MayAsk(tab'.issued[i].path) =>
             CASE storm'.at \in {"resources", "links"} -> tab'.issued[i].path \in DOMAIN storm'.found
               [] storm'.at = "send" -> Waits(tab.issued[i].path)' \/ Asked(tab.issued[i].path)'
               [] storm'.at = "over" -> storm'.sent < budget => Asked(tab.issued[i].path)'
               [] storm'.at \in {"wait", "hung"} -> TRUE
  PROVE  StormOwes'
BY SameOptions, SameRun DEF StormOwes, Collected

\* The state of a storm that is on, or about to be.
LEMMA StormSays ==
  ASSUME CrawlInv
  PROVE  /\ DOMAIN storm = StormFields /\ storm.sent \in Nat /\ storm.sent <= budget
         /\ \A path \in DOMAIN storm.found : MayAsk(path)
         /\ storm.rest \in Seq(Allowed(Targets)) /\ storm.asked \subseteq Allowed(Targets)
         /\ storm.asked # {} => run.allowed /\ ~run.dryRun
         /\ \A b \in storm.broken : b.last.what = b.request.path /\ b.last.type = b.request.kind
         /\ storm.at \in {"resources", "links", "send"} => walking = "done" /\ run.allowed
         /\ walking = "done" => run \in Runs /\ TabInv(tab)
BY DEF CrawlInv, StormRuns, Targets, Placed

LEMMA CollectKeeps ==
  ASSUME CrawlInv, NEW urls, NEW got, got = collect(storm.found, urls)
  PROVE  /\ \A path \in DOMAIN got : MayAsk(path)
         /\ DOMAIN storm.found \subseteq DOMAIN got
         /\ \A i \in DOMAIN urls : MayAsk(urls[i].path) => urls[i].path \in DOMAIN got
<1>1. \A path : path \in DOMAIN got <=>
        \/ path \in DOMAIN storm.found
        \/ \E i \in DOMAIN urls : MayAsk(urls[i].path) /\ urls[i].path = path
  BY CollectSays
<1>2. \A path \in DOMAIN storm.found : MayAsk(path)
  BY StormSays
<1> QED
  BY <1>1, <1>2

LEMMA StormStartKeeps ==
  ASSUME CrawlInv, StormStart, UNCHANGED <<run, mapping, walkVars>>
  PROVE  CrawlInv'
<1>1. walking = "done" /\ walking' = walking /\ run' = run
  BY DEF StormStart, walkVars
<1>2. CASE ~run.allowed
  <2>1. storm' = [storm EXCEPT !.at = "over"] /\ tab' = tab
    BY <1>2 DEF StormStart
  <2>2. /\ DOMAIN storm' = StormFields /\ storm'.at = "over" /\ storm'.found = storm.found
        /\ storm'.rest = storm.rest /\ storm'.sent = storm.sent /\ storm'.asked = storm.asked
        /\ storm'.broken = storm.broken
    BY <2>1, StormSays DEF StormFields
  <2>3. StormOwes'
    BY <1>1, <1>2, StormOwesThen
  <2> QED
    BY <1>1, <2>1, <2>2, <2>3, StormSays, StormMoves
<1>3. CASE run.allowed
  <2> DEFINE found == IF folded THEN collect(storm.found, seedUrls) ELSE storm.found
  <2>1. /\ storm' = [storm EXCEPT !.at = "resources", !.found = found]
        /\ tab' = tab \/ (~folded /\ Goto(tab, site.start))
    BY <1>3 DEF StormStart
  <2>2. \A path \in DOMAIN found : MayAsk(path)
    BY StormSays, CollectKeeps
  <2>3. folded => \A i \in DOMAIN tab.issued : MayAsk(tab.issued[i].path) => tab.issued[i].path \in DOMAIN found
    BY CollectKeeps DEF seedUrls
  <2> HIDE DEF found
  <2>4. /\ DOMAIN storm' = StormFields /\ storm'.at = "resources" /\ storm'.found = found
        /\ storm'.rest = storm.rest /\ storm'.sent = storm.sent /\ storm'.asked = storm.asked
        /\ storm'.broken = storm.broken
    BY <2>1, StormSays DEF StormFields
  <2>5. TabInv(tab')
    BY <1>1, <2>1, StormSays, AppSays, GotoKeeps
  <2>6. StormOwes'
    BY <1>1, <2>1, <2>3, <2>4, StormOwesThen
  <2> QED
    BY <1>1, <1>3, <2>2, <2>4, <2>5, <2>6, StormSays, StormMoves
<1> QED
  BY <1>2, <1>3

LEMMA StormResourcesKeeps ==
  ASSUME CrawlInv, StormResources, UNCHANGED <<run, mapping, walkVars>>
  PROVE  CrawlInv'
<1>1. walking = "done" /\ walking' = walking /\ run' = run /\ run.allowed /\ storm.at = "resources"
      /\ tab' = tab
  BY StormSays DEF StormResources, walkVars
<1>2. PICK urls : storm' = [storm EXCEPT !.at = "links", !.found = collect(@, urls)]
  BY DEF StormResources
<1> DEFINE found == collect(storm.found, urls)
<1>3. (\A path \in DOMAIN found : MayAsk(path)) /\ DOMAIN storm.found \subseteq DOMAIN found
  BY CollectKeeps
<1>4. storm' = [storm EXCEPT !.at = "links", !.found = found]
  BY <1>2
<1> HIDE DEF found
<1>5. /\ DOMAIN storm' = StormFields /\ storm'.at = "links" /\ storm'.found = found
      /\ storm'.rest = storm.rest /\ storm'.sent = storm.sent /\ storm'.asked = storm.asked
      /\ storm'.broken = storm.broken
  BY <1>4, StormSays DEF StormFields
<1>6. StormOwes'
  BY <1>1, <1>3, <1>5, StormOwesThen DEF CrawlInv, StormOwes, Collected
<1>7. TabInv(tab')
  BY <1>1, StormSays
<1> QED
  BY <1>1, <1>3, <1>5, <1>6, <1>7, StormSays, StormMoves

\* The paths of the endpoints, in the order of all paths.
LEMMA PathsSay ==
  ASSUME run \in Runs, NEW found, \A path \in found : MayAsk(path),
         NEW places, \A i \in DOMAIN site.order : i \in places <=> site.order[i] \in found,
         NEW paths, paths = Those(site.order, places)
  PROVE  /\ paths \in Seq(Targets)
         /\ \A path \in found \cap Range(site.order) : path \in Range(paths)
<1>1. site.order \in Seq(Range(site.order))
  BY AppSays
<1>2. /\ paths \in Seq(Range(site.order))
      /\ \A k \in DOMAIN paths : \E i \in DOMAIN site.order : i \in places /\ paths[k] = site.order[i]
      /\ \A i \in DOMAIN site.order : i \in places => \E k \in DOMAIN paths : paths[k] = site.order[i]
  BY <1>1, ThoseSays
<1>3. \A k \in DOMAIN paths : paths[k] \in Targets
  BY <1>2 DEF Targets, Range
<1>4. paths \in Seq(Targets)
  BY <1>2, <1>3
<1>5. \A path \in found \cap Range(site.order) : path \in Range(paths)
  BY <1>2 DEF Range
<1> QED
  BY <1>4, <1>5

LEMMA StormLinksKeeps ==
  ASSUME CrawlInv, StormLinks, UNCHANGED <<run, mapping, walkVars>>
  PROVE  CrawlInv'
<1>1. walking = "done" /\ walking' = walking /\ run' = run /\ run.allowed /\ storm.at = "links"
      /\ tab' = tab /\ run \in Runs /\ TabInv(tab)
  BY StormSays DEF StormLinks, walkVars
<1>2. PICK urls :
        LET found == collect(storm.found, urls)
            paths == Those(site.order, {i \in DOMAIN site.order : site.order[i] \in DOMAIN found})
        IN  storm' = [storm EXCEPT !.at = "send", !.found = found, !.rest = buildRequests(paths, found)]
  BY DEF StormLinks
<1> DEFINE found == collect(storm.found, urls)
           places == {i \in DOMAIN site.order : site.order[i] \in DOMAIN found}
           paths == Those(site.order, places)
           rest == buildRequests(paths, found)
<1>3. (\A path \in DOMAIN found : MayAsk(path)) /\ DOMAIN storm.found \subseteq DOMAIN found
  BY CollectKeeps
<1>4. storm' = [storm EXCEPT !.at = "send", !.found = found, !.rest = rest]
  BY <1>2
<1> HIDE DEF found, rest
<1>5. /\ paths \in Seq(Targets)
      /\ \A path \in DOMAIN found \cap Range(site.order) : path \in Range(paths)
  <2>1. \A i \in DOMAIN site.order : i \in places <=> site.order[i] \in DOMAIN found
    OBVIOUS
  <2> HIDE DEF places
  <2> QED
    BY <1>1, <1>3, <2>1, PathsSay
<1> HIDE DEF places, paths
<1>6. /\ rest \in Seq(Allowed(Targets))
      /\ \A p \in DOMAIN paths : \E n \in DOMAIN rest :
           rest[n].path = paths[p] /\ rest[n].kind \in {"rewrite", "append"}
  <2>1. rest = buildRequests(paths, found)
    BY DEF rest
  <2> QED
    BY <1>5, <2>1, RequestsAreBuilt
<1>7. /\ DOMAIN storm' = StormFields /\ storm'.at = "send" /\ storm'.found = found
      /\ storm'.rest = rest /\ storm'.sent = storm.sent /\ storm'.asked = storm.asked
      /\ storm'.broken = storm.broken
  BY <1>4, StormSays DEF StormFields
<1>8. ASSUME NEW i \in DOMAIN tab.issued, tab.issued[i].path \in DOMAIN storm.found
      PROVE  Waits(tab.issued[i].path)'
  <2>1. tab.issued[i].path \in Range(site.order)
    BY <1>1 DEF TabInv, Expects, OwnAsks, Asks, Requests
  <2>2. PICK p \in DOMAIN paths : paths[p] = tab.issued[i].path
    BY <1>3, <1>5, <1>8, <2>1 DEF Range
  <2> QED
    BY <1>1, <1>6, <1>7, <2>2 DEF Waits
<1>9. StormOwes'
  BY <1>1, <1>7, <1>8, StormOwesThen DEF CrawlInv, StormOwes, Collected
<1> QED
  BY <1>1, <1>3, <1>6, <1>7, <1>9, StormSays, StormMoves

\* A request leaves the list of those that wait, and is recorded.
LEMMA StormSendKeeps ==
  ASSUME CrawlInv, StormSend, UNCHANGED <<run, mapping, walkVars>>
  PROVE  CrawlInv'
<1> DEFINE request == Head(storm.rest)
<1>1. /\ walking = "done" /\ walking' = walking /\ run' = run /\ run.allowed /\ storm.at = "send"
      /\ run \in Runs /\ TabInv(tab) /\ storm.rest # <<>> /\ storm.sent < budget
      /\ tab' = Record(tab, request.kind, request.path) /\ budget \in Nat
  BY StormSays, AppSays DEF StormSend, walkVars
<1>2. /\ storm.rest \in Seq(Allowed(Targets)) /\ Tail(storm.rest) \in Seq(Allowed(Targets))
      /\ request = storm.rest[1] /\ request \in Allowed(Targets)
      /\ \A n \in DOMAIN storm.rest : n = 1 \/ (n - 1 \in DOMAIN Tail(storm.rest)
                                                /\ Tail(storm.rest)[n - 1] = storm.rest[n])
  BY <1>1, StormSays
<1> HIDE DEF request
<1>3. request = [path |-> request.path, kind |-> request.kind] /\ request.kind \in Kinds
  BY <1>2 DEF Allowed
<1>4. TabInv(tab')
  BY <1>1, <1>3, RecordKeeps DEF Kinds
<1>5. tab'.issued = tab.issued /\ Last(tab'.trace) = Entry(tab, request.kind, request.path)
  BY <1>1, RecordSays DEF TabInv, Tells
<1>6. /\ DOMAIN storm' = StormFields /\ storm'.at = "send" /\ storm'.found = storm.found
      /\ storm'.rest = Tail(storm.rest) /\ storm'.sent = storm.sent + 1
      /\ storm'.asked = IF run.dryRun THEN storm.asked ELSE storm.asked \cup {request}
      /\ \/ storm'.broken = storm.broken
         \/ storm'.broken = storm.broken \cup {[request |-> request, last |-> Last(tab'.trace)]}
  BY StormSays DEF StormSend, StormFields, request
<1>7. storm'.sent \in Nat /\ storm'.sent <= budget
  BY <1>1, <1>6, StormSays
<1>8. \A b \in storm'.broken : b.last.what = b.request.path /\ b.last.type = b.request.kind
  BY <1>5, <1>6, StormSays DEF Entry
<1>9. ASSUME NEW path, ~run.dryRun, Waits(path) \/ Asked(path)
      PROVE  Waits(path)' \/ Asked(path)'
  <2>1. CASE Asked(path)
    BY <1>6, <2>1 DEF Asked
  <2>2. CASE Waits(path)
    <3>1. PICK n \in DOMAIN storm.rest :
            storm.rest[n].path = path /\ storm.rest[n].kind \in {"rewrite", "append"}
      BY <2>2 DEF Waits
    <3>2. CASE n = 1
      BY <1>2, <1>3, <1>6, <1>9, <3>1, <3>2 DEF Asked
    <3>3. CASE n # 1
      BY <1>2, <1>6, <3>1, <3>3 DEF Waits
    <3> QED
      BY <3>2, <3>3
  <2> QED
    BY <1>9, <2>1, <2>2
<1>10. StormOwes'
  BY <1>1, <1>5, <1>6, <1>9, StormOwesThen DEF CrawlInv, StormOwes
<1> QED
  BY <1>1, <1>2, <1>4, <1>6, <1>7, <1>8, <1>10, StormSays, StormMoves

LEMMA StormEndKeeps ==
  ASSUME CrawlInv, StormEnd, UNCHANGED <<run, mapping, walkVars>>
  PROVE  CrawlInv'
<1>1. /\ walking = "done" /\ walking' = walking /\ run' = run /\ storm.at = "send"
      /\ tab' = tab /\ TabInv(tab') /\ (storm.rest = <<>> \/ storm.sent >= budget)
      /\ storm' = [storm EXCEPT !.at = "over"] /\ budget \in Nat
  BY StormSays, AppSays DEF StormEnd, walkVars
<1>2. /\ DOMAIN storm' = StormFields /\ storm'.at = "over" /\ storm'.found = storm.found
      /\ storm'.rest = storm.rest /\ storm'.sent = storm.sent /\ storm'.asked = storm.asked
      /\ storm'.broken = storm.broken
  BY <1>1, StormSays DEF StormFields
<1>3. storm.sent < budget => storm.rest = <<>>
  BY <1>1, StormSays
<1>4. \A path : Asked(path) => Asked(path)'
  BY <1>2 DEF Asked
<1>5. \A path : storm.sent < budget => ~Waits(path)
  BY <1>3 DEF Waits
<1>6. StormOwes'
  BY <1>1, <1>2, <1>4, <1>5, StormOwesThen DEF CrawlInv, StormOwes
<1> QED
  BY <1>1, <1>2, <1>6, StormSays, StormMoves

LEMMA StormKeeps ==
  ASSUME CrawlInv, StormStep, UNCHANGED mapVars
  PROVE  CrawlInv'
BY StormStartKeeps, StormResourcesKeeps, StormLinksKeeps, StormSendKeeps, StormEndKeeps
   DEF StormStep, mapVars

-----------------------------------------------------------------------------
(* The invariant, and what it says.                                         *)

LEMMA InitHolds ==
  ASSUME Init
  PROVE  CrawlInv
<1> USE DEF Init
<1>1. /\ run \in Runs /\ walking = "boot" /\ queue = <<>> /\ actions = 0 /\ owed = {}
      /\ QueueCap \in Nat /\ budget \in Nat
  BY WalkerAssumption, AppSays DEF WalkInit
<1>2. Placed
  BY <1>1 DEF Placed
<1>3. Owes /\ Scanned /\ Tried /\ Linked
  BY <1>1 DEF Owes, Met, Scanned, Tried, Linked
<1>4. storm = [at |-> IF run.http \/ ~folded THEN "wait" ELSE "over",
               found |-> <<>>, rest |-> <<>>, sent |-> 0, asked |-> {}, broken |-> {}]
  BY DEF StormInit
<1>5. StormRuns
  <2>1. /\ DOMAIN storm = StormFields /\ storm.found = <<>> /\ storm.rest = <<>> /\ storm.sent = 0
        /\ storm.asked = {} /\ storm.broken = {} /\ storm.at \in {"wait", "over"}
        /\ (storm.at = "over" => ~run.http)
    BY <1>4 DEF StormFields
  <2>2. DOMAIN storm.found = {} /\ storm.rest \in Seq(Allowed({path \in Range(site.order) : MayAsk(path)}))
    BY <2>1
  <2> QED
    BY <1>1, <2>1, <2>2 DEF StormRuns
<1>6. StormOwes
  BY <1>1 DEF StormOwes
<1> QED
  BY <1>2, <1>3, <1>5, <1>6 DEF CrawlInv

LEMMA StaysSame ==
  ASSUME CrawlInv, UNCHANGED vars
  PROVE  CrawlInv'
<1>1. UNCHANGED <<run, tab, mapping, storm, queue, visited, url, actions, pass, scan, hi, seen,
                  walking, owed, lost>>
  BY DEF vars, mapVars, walkVars, crawlVars, pageVars
<1>2. Placed'
  BY <1>1, SameRun, SameTab DEF CrawlInv, Placed, Mapped
<1>3. Met' = Met /\ \A links : Owing(links)' = Owing(links)
  BY <1>1, SameRun DEF Met, Owing, Denied, Internal
<1>4. Owes'
  BY <1>1, <1>3, SameRun DEF CrawlInv, Owes
<1>5. Scanned'
  <2>1. \A p : Visible(p)' = Visible(p) /\ (IsPage(p)' <=> IsPage(p))
    BY <1>1, SameRun DEF Visible, Places, Shown, IsPage
  <2> QED
    BY <1>1, <2>1, SameRun DEF CrawlInv, Scanned, Alive
<1>6. Tried'
  BY <1>1, SameRun DEF CrawlInv, Tried, Denied
<1>7. Linked'
  BY <1>1, <1>3 DEF CrawlInv, Linked, Alive
<1>8. StormRuns'
  BY <1>1, StormSame DEF CrawlInv
<1>9. StormOwes'
  BY <1>1, SameRun, SameOptions DEF CrawlInv, StormOwes, Collected, Waits, Asked
<1> QED
  BY <1>2, <1>4, <1>5, <1>6, <1>7, <1>8, <1>9 DEF CrawlInv

\* A crawler that hangs.
LEMMA HangKeeps ==
  ASSUME CrawlInv, Hang
  PROVE  CrawlInv'
<1>1. UNCHANGED <<run, tab, losses, queue, visited, url, actions, pass, scan, hi, seen, owed, lost>>
  BY DEF Hang, crawlVars, pageVars
<1>2. CASE mapping \in {"root", "capture"} /\ mapping' = "hung" /\ UNCHANGED <<walking, storm>>
  <2>1. walking = "boot"
    BY <1>2 DEF CrawlInv, Placed, Mapped
  <2>2. Placed' /\ Owes'
    BY <1>1, <1>2, <2>1, SameRun DEF CrawlInv, Placed, Owes, Met
  <2>3. Scanned' /\ Tried' /\ Linked'
    BY <1>2, <2>1 DEF Scanned, Tried, Linked
  <2>4. StormRuns' /\ StormOwes'
    BY <1>1, <1>2, <2>1, StormRests DEF CrawlInv
  <2> QED
    BY <2>2, <2>3, <2>4 DEF CrawlInv
<1>3. CASE walking \notin {"boot", "done"} /\ walking' = "hung" /\ UNCHANGED <<mapping, storm>>
  <2>1. TabInv(tab) /\ tab' = tab /\ queue \in Seq(Urls) /\ Len(queue) <= QueueCap /\ actions \in Nat
    BY <1>1, <1>3 DEF CrawlInv, Placed
  <2>2. TabInv(tab')
    BY <2>1
  <2>3. owed' \subseteq Met'
    BY <1>1 DEF CrawlInv, Owes, Met
  <2>4. queue' \in Seq(Urls) /\ Len(queue') <= QueueCap /\ actions' \in Nat
    BY <1>1, <2>1
  <2> QED
    BY <1>1, <1>3, <2>2, <2>3, <2>4, MissionMovesOn
<1>4. CASE /\ storm.at \in {"resources", "links"} /\ storm' = [storm EXCEPT !.at = "hung"]
           /\ UNCHANGED <<mapping, walking>> /\ UNCHANGED walkVars
  <2>1. /\ walking = "done" /\ run.allowed /\ TabInv(tab')
        /\ DOMAIN storm' = StormFields /\ storm'.at = "hung" /\ storm'.found = storm.found
        /\ storm'.rest = storm.rest /\ storm'.sent = storm.sent /\ storm'.asked = storm.asked
        /\ storm'.broken = storm.broken
    BY <1>1, <1>4, StormSays DEF StormFields
  <2>2. StormOwes'
    BY <1>1, <1>4, <2>1, StormOwesThen
  <2> QED
    BY <1>1, <1>4, <2>1, <2>2, StormSays, StormMoves
<1> QED
  BY <1>2, <1>3, <1>4 DEF Hang, walkVars

LEMMA NextHolds ==
  ASSUME CrawlInv, [Next]_vars
  PROVE  CrawlInv'
<1>1. CASE UNCHANGED vars
  BY <1>1, StaysSame
<1>2. CASE Next
  <2>1. CASE Mission
    <3>1. CASE /\ Boot \/ Seed \/ Begin \/ WalkStep \/ KeyStep \/ LookStep \/ FuzzStep
               /\ UNCHANGED <<mapping, storm>>
      BY <3>1, BootKeeps, SeedKeeps, BeginKeeps, WalkKeeps, KeysKeep, LooksKeep, FuzzKeeps
    <3> QED
      BY <2>1, <3>1, StormKeeps DEF Mission, mapVars
  <2> QED
    BY <1>1, <1>2, <2>1, ScoutKeeps, LateKeeps, HangKeeps DEF Next, Over
<1> QED
  BY <1>1, <1>2

\* The tab of the scout has no recorder.
Unwired(t) == DOMAIN t = Fields /\ ~t.wired /\ t.trace = <<>>
Quiet == walking = "boot" => Unwired(tab)

LEMMA UnwiredStays ==
  ASSUME NEW t, Unwired(t)
  PROVE  /\ \A urls : Fetch(t, urls) = t
         /\ \A u : Unwired(FetchDocument(t, u))
         /\ Unwired(RecordMove(t))
<1>1. \A urls : Fetch(t, urls) = t
  BY DEF Fetch, Unwired
<1>2. Unwired([t EXCEPT !.entries = <<>>])
  BY DEF Unwired, Fields
<1>3. \A u : Unwired(FetchDocument(t, u))
  BY <1>1, <1>2 DEF FetchDocument, Fetch, Unwired
<1>4. Unwired([t EXCEPT !.lastNav = t.page.url])
  BY DEF Unwired, Fields
<1>5. RecordMove(t) = t \/ RecordMove(t) = [t EXCEPT !.lastNav = t.page.url]
  BY DEF RecordMove, Record, Unwired
<1> QED
  BY <1>1, <1>3, <1>4, <1>5

LEMMA UnwiredCommits ==
  ASSUME NEW t, Unwired(t), NEW page
  PROVE  Unwired(Commit(t, page))
<1> DEFINE at == [t EXCEPT !.page = page,
                           !.coming = IF page.url # t.page.url THEN Nothing ELSE @,
                           !.focus = IF page.url # t.page.url THEN "none" ELSE @]
           got == IF site.base[page.url] # site.base[t.page.url] THEN FetchDocument(at, page.url) ELSE at
<1>1. Unwired(at)
  BY DEF Unwired, Fields
<1>2. Commit(t, page) = RecordMove(got)
  BY DEF Commit
<1> HIDE DEF at
<1>3. Unwired(got)
  BY <1>1, UnwiredStays
<1> HIDE DEF got
<1> QED
  BY <1>2, <1>3, UnwiredStays

LEMMA UnwiredLoads ==
  ASSUME NEW t, Unwired(t), NEW u
  PROVE  Unwired(Loaded(t, u))
<1> DEFINE at == [t EXCEPT !.page = Load(@, u), !.coming = Nothing, !.focus = "none"]
           moved == RecordMove(at)
<1>1. Unwired(at)
  BY DEF Unwired, Fields
<1>2. Loaded(t, u) = FetchDocument(moved, u)
  BY DEF Loaded
<1> HIDE DEF at
<1>3. Unwired(moved)
  BY <1>1, UnwiredStays
<1> HIDE DEF moved
<1> QED
  BY <1>2, <1>3, UnwiredStays

LEMMA UnwiredActs ==
  ASSUME NEW t, Unwired(t), NEW c
  PROVE  Unwired(Act(t, c))
<1>1. Unwired([t EXCEPT !.coming = c])
  BY DEF Unwired, Fields
<1>2. Unwired(Commit(Fetch(t, c.calls), Outcome(t.page, c)))
  BY UnwiredStays, UnwiredCommits
<1> QED
  BY <1>1, <1>2 DEF Act

LEMMA QuietKept ==
  ASSUME CrawlInv, Quiet, [Next]_vars
  PROVE  Quiet'
<1>1. CASE UNCHANGED vars
  BY <1>1 DEF Quiet, vars, walkVars
<1>2. CASE walking' # "boot"
  BY <1>2 DEF Quiet
<1>3. CASE walking' = "boot" /\ Next
  <2>1. CASE Scout
    <3>1. /\ walking = "boot"
          /\ \/ tab' = tab \/ (\E u : Goto(tab, u)) \/ (\E c : tab' = Act(tab, c))
      BY <1>3, <2>1 DEF Scout, ScoutOpen, ScoutFails, MapStep, MapRoot, MapPop, MapPerform,
                        MapCapture, MapEnd, walkVars
    <3>2. Unwired(tab)
      BY <3>1 DEF Quiet
    <3>3. Unwired(tab')
      BY <3>1, <3>2, UnwiredLoads, UnwiredActs DEF Goto
    <3> QED
      BY <3>3 DEF Quiet, Unwired
  <2>2. CASE Late
    <3>1. walking = "boot"
      BY <1>3, <2>2 DEF Late, walkVars
    <3> DEFINE r == [tab EXCEPT !.coming = Nothing]
    <3>2. Unwired(r)
      BY <3>1 DEF Quiet, Unwired, Fields
    <3>3. \E page : tab' = Commit(Fetch(r, tab.coming.calls), page)
      BY <2>2 DEF Late, Arrive
    <3> HIDE DEF r
    <3>4. Unwired(tab')
      BY <3>2, <3>3, UnwiredStays, UnwiredCommits
    <3> QED
      BY <3>4 DEF Quiet, Unwired
  <2>3. CASE Mission
    <3>4. ~Begin
      <4>1. run.kind \in {"walk", "keyboard", "observe", "fuzz", "storm"}
        BY SiteAssumption DEF CrawlInv, Placed
      <4> QED
        BY <1>3, <4>1 DEF Begin, Enter
    <3>1. ~(Boot \/ Seed \/ WalkStep)
      BY <1>3 DEF Boot, Seed, WalkStep, WalkRoute, WalkQuery, WalkSkip, WalkLink, WalkAct,
                  WalkReload, WalkAfter, WalkPassEnd, Finish, Route
    <3>2. ~(KeyStep \/ LookStep \/ FuzzStep)
      BY <1>3 DEF KeyStep, KeyRoute, KeyBlur, KeyTab, KeyPageEnd, KeyGone, KeyPass, KeyAct, KeyAfter,
                  LookStep, LookRoute, LookLinks, Finish, Route, FuzzStep, FuzzHome, FuzzScroll,
                  FuzzFill, FuzzClick, FuzzHover, FuzzKey, FuzzEnd, FuzzThrows, Turn
    <3>3. ~StormStep
      BY <1>3, StormSays DEF StormStep, StormStart, StormResources, StormLinks, StormSend, StormEnd,
                             walkVars
    <3> QED
      BY <2>3, <3>4, <3>1, <3>2, <3>3 DEF Mission
  <2>4. CASE Hang
    BY <1>3, <2>4 DEF Hang, Quiet, Unwired
  <2> QED
    BY <1>1, <1>3, <2>1, <2>2, <2>3, <2>4 DEF Next, Over
<1> QED
  BY <1>1, <1>2, <1>3

-----------------------------------------------------------------------------
(* The heap.                                                                *)

IsEntry(e) == e.weight \in Int /\ e.seq \in Nat
Entries(S) == \A e \in S : IsEntry(e)
Distinct(heap) == \A i, j \in DOMAIN heap : i # j => heap[i].seq # heap[j].seq

\* Of two entries one goes first.
LEMMA LessIsOrder ==
  ASSUME NEW a, NEW b, IsEntry(a), IsEntry(b)
  PROVE  /\ ~(less(a, b) /\ less(b, a)) /\ ~less(a, a)
         /\ a.seq # b.seq => less(a, b) \/ less(b, a)
         /\ \A c : IsEntry(c) /\ less(a, b) /\ less(b, c) => less(a, c)
BY DEF less, IsEntry

\* The place above one.
Up(i) == i \div 2

LEMMA UpSays ==
  ASSUME NEW i \in Nat, i > 1
  PROVE  Up(i) \in 1 .. i - 1 /\ i \in {2 * Up(i), 2 * Up(i) + 1}
BY DEF Up

LEMMA BelowSays ==
  ASSUME NEW i \in Nat, i > 0
  PROVE  Up(2 * i) = i /\ Up(2 * i + 1) = i
BY DEF Up

\* Every entry comes after the one above it; all but the one at a place; and
\* all but those below a place. The exceptions do not break the order around them.
Ordered(heap, L) == \A i \in 2 .. L : less(heap[Up(i)], heap[i])
OrderedBut(heap, L, at) ==
  /\ \A i \in 2 .. L : i # at => less(heap[Up(i)], heap[i])
  /\ at > 1 => \A i \in 2 .. L : Up(i) = at => less(heap[Up(at)], heap[i])
OrderedAbove(heap, L, at) ==
  /\ \A i \in 2 .. L : Up(i) # at => less(heap[Up(i)], heap[i])
  /\ at > 1 => \A i \in 2 .. L : Up(i) = at => less(heap[Up(at)], heap[i])

\* A heap that is being sifted.
Sifting(L, E) == [heap : [1 .. L -> E], at : 1 .. L]

LEMMA SwapSays ==
  ASSUME NEW L \in Nat, NEW E, NEW h \in [1 .. L -> E], NEW i \in 1 .. L, NEW j \in 1 .. L
  PROVE  Swapped(h, i, j) \in [1 .. L -> E] /\ (Distinct(h) => Distinct(Swapped(h, i, j)))
<1> DEFINE new == Swapped(h, i, j)
<1>1. /\ new \in [1 .. L -> E]
      /\ new[i] = h[j] /\ new[j] = h[i] /\ \A n \in (1 .. L) \ {i, j} : new[n] = h[n]
  BY DEF Swapped
<1> HIDE DEF new
<1>2. Distinct(h) => Distinct(new)
  BY <1>1 DEF Distinct
<1> QED
  BY <1>1, <1>2 DEF new

\* The top of an ordered heap comes before all others.
LEMMA TopIsFirst ==
  ASSUME NEW L \in Nat, NEW E, Entries(E), NEW heap \in [1 .. L -> E], Ordered(heap, L)
  PROVE  \A i \in 2 .. L : less(heap[1], heap[i])
<1>1. SUFFICES ASSUME {i \in 2 .. L : ~less(heap[1], heap[i])} # {} PROVE FALSE
  OBVIOUS
<1> DEFINE T == {i \in 2 .. L : ~less(heap[1], heap[i])}
<1>2. PICK n \in T : \A m \in T : n <= m
  <2>1. T \subseteq Nat /\ T # {}
    BY <1>1
  <2> HIDE DEF T
  <2> QED
    BY <2>1, LeastExists
<1>3. Up(n) \in 1 .. n - 1 /\ less(heap[Up(n)], heap[n])
  BY UpSays DEF Ordered
<1>4. Up(n) = 1 \/ less(heap[1], heap[Up(n)])
  BY <1>2, <1>3
<1>5. IsEntry(heap[1]) /\ IsEntry(heap[n]) /\ IsEntry(heap[Up(n)])
  BY <1>3 DEF Entries
<1>6. ~less(heap[1], heap[n])
  OBVIOUS
<1> QED
  BY <1>3, <1>4, <1>5, <1>6, LessIsOrder

\* One turn up.
LEMMA RisenKeeps ==
  ASSUME NEW L \in Nat, NEW E, Entries(E), NEW h \in Sifting(L, E),
         Distinct(h.heap), OrderedBut(h.heap, L, h.at)
  PROVE  LET r == Risen(h) IN
         /\ r \in Sifting(L, E) /\ Distinct(r.heap) /\ OrderedBut(r.heap, L, r.at)
         /\ Ordered(r.heap, L) \/ r.at < h.at
         /\ Ordered(h.heap, L) => Ordered(r.heap, L)
<1> DEFINE old == h.heap
           at  == h.at
           p   == Up(at)
           r   == Risen(h)
<1>1. old \in [1 .. L -> E] /\ Distinct(old) /\ at \in 1 .. L /\ at \in Nat
  BY DEF Sifting
<1>2. CASE ~(at > 1 /\ less(old[at], old[p]))
  <2>1. r = h
    BY <1>2 DEF Risen, Up
  <2> HIDE DEF r
  <2>2. Ordered(old, L)
    <3> SUFFICES ASSUME NEW i \in 2 .. L PROVE less(old[Up(i)], old[i])
      BY DEF Ordered
    <3>1. CASE i # at
      BY <3>1 DEF OrderedBut
    <3>2. CASE i = at
      <4>1. p \in 1 .. L /\ p # at /\ at > 1
        BY <1>1, <3>2, UpSays
      <4>2. old[p].seq # old[at].seq /\ IsEntry(old[p]) /\ IsEntry(old[at])
        BY <1>1, <4>1 DEF Distinct, Entries
      <4> QED
        BY <1>2, <3>2, <4>1, <4>2, LessIsOrder
    <3> QED
      BY <3>1, <3>2
  <2> QED
    BY <2>1, <2>2 DEF r
<1>3. CASE at > 1 /\ less(old[at], old[p])
  <2> DEFINE new == Swapped(old, at, p)
  <2>1. r = [heap |-> new, at |-> p]
    BY <1>3 DEF Risen, Up
  <2>2. p \in 1 .. L /\ p < at /\ p \in Nat
    BY <1>1, <1>3, UpSays
  <2>3. /\ new \in [1 .. L -> E] /\ Distinct(new)
        /\ new[at] = old[p] /\ new[p] = old[at] /\ \A n \in (1 .. L) \ {at, p} : new[n] = old[n]
    <3> HIDE DEF old, p, at
    <3>1. new \in [1 .. L -> E] /\ Distinct(new)
      BY <1>1, <2>2, SwapSays
    <3>2. new[at] = old[p] /\ new[p] = old[at] /\ \A n \in (1 .. L) \ {at, p} : new[n] = old[n]
      BY <1>1, <2>2 DEF Swapped
    <3> QED
      BY <3>1, <3>2
  <2> HIDE DEF r, new, old, p, at
  <2>4. \A n \in 1 .. L : IsEntry(old[n])
    BY <1>1 DEF Entries
  <2>5. /\ \A i \in 2 .. L : i # at => less(old[Up(i)], old[i])
        /\ \A i \in 2 .. L : Up(i) = at => less(old[p], old[i])
    BY <1>3 DEF OrderedBut, old, at, p
  <2>6. ASSUME NEW i \in 2 .. L, i # p PROVE less(new[Up(i)], new[i])
    <3>1. Up(i) \in 1 .. L /\ Up(i) # i /\ i \in 1 .. L
      BY UpSays
    <3>2. CASE i = at
      BY <1>3, <2>3, <3>2 DEF p
    <3>3. CASE i # at /\ Up(i) = at
      BY <2>3, <2>5, <2>6, <3>1, <3>3
    <3>4. CASE i # at /\ Up(i) = p
      <4>1. less(old[p], old[i]) /\ new[Up(i)] = old[at] /\ new[i] = old[i]
        BY <2>3, <2>5, <2>6, <3>1, <3>4
      <4> QED
        BY <1>1, <1>3, <2>2, <2>4, <3>1, <4>1, LessIsOrder
    <3>5. CASE i # at /\ Up(i) \notin {at, p}
      BY <2>3, <2>5, <2>6, <3>1, <3>5
    <3> QED
      BY <3>2, <3>3, <3>4, <3>5
  <2>7. ASSUME p > 1, NEW i \in 2 .. L, Up(i) = p PROVE less(new[Up(p)], new[i])
    <3>1. Up(p) \in 1 .. p - 1 /\ i \in 1 .. L /\ i # p
      BY <2>2, <2>7, UpSays
    <3>2. new[Up(p)] = old[Up(p)] /\ less(old[Up(p)], old[p])
      BY <2>2, <2>3, <2>5, <2>7, <3>1
    <3>3. CASE i = at
      BY <2>3, <3>2, <3>3
    <3>4. CASE i # at
      <4>1. less(old[p], old[i]) /\ new[i] = old[i]
        BY <2>3, <2>5, <2>7, <3>1, <3>4
      <4> QED
        BY <2>2, <2>4, <3>1, <3>2, <4>1, LessIsOrder
    <3> QED
      BY <3>3, <3>4
  <2>8. OrderedBut(new, L, p)
    BY <2>6, <2>7 DEF OrderedBut
  <2>9. ~Ordered(old, L)
    <3>1. IsEntry(old[p]) /\ IsEntry(old[at]) /\ at \in 2 .. L
      BY <1>1, <1>3, <2>2, <2>4
    <3> QED
      BY <1>3, <3>1, LessIsOrder DEF Ordered, p
  <2> QED
    BY <2>1, <2>2, <2>3, <2>8, <2>9 DEF Sifting, r, at, old
<1> QED
  BY <1>2, <1>3

\* One turn down.
LEMMA SunkKeeps ==
  ASSUME NEW L \in Nat, NEW E, Entries(E), NEW h \in Sifting(L, E),
         Distinct(h.heap), OrderedAbove(h.heap, L, h.at)
  PROVE  LET r == Sunk(h) IN
         /\ r \in Sifting(L, E) /\ Distinct(r.heap) /\ OrderedAbove(r.heap, L, r.at)
         /\ Ordered(r.heap, L) \/ r.at > h.at
         /\ Ordered(h.heap, L) => Ordered(r.heap, L)
<1> DEFINE old == h.heap
           at  == h.at
           family == {at, 2 * at, 2 * at + 1} \cap DOMAIN old
           s   == CHOOSE j \in family : \A k \in family \ {j} : less(old[j], old[k])
           new == Swapped(old, at, s)
           r   == Sunk(h)
<1>1. old \in [1 .. L -> E] /\ Distinct(old) /\ at \in 1 .. L /\ at \in Nat
  BY DEF Sifting
<1>2. r = [heap |-> new, at |-> s]
  BY DEF Sunk
<1>3. s \in family /\ \A k \in family \ {s} : less(old[s], old[k])
  <2>1. family \subseteq 1 .. L /\ at \in family
    BY <1>1
  <2>2. \A n \in 1 .. L : IsEntry(old[n])
    BY <1>1 DEF Entries
  <2>3. \A j, k \in family : j # k => less(old[j], old[k]) \/ less(old[k], old[j])
    BY <1>1, <2>1, <2>2, LessIsOrder DEF Distinct
  <2>4. \A i, j, k \in family : less(old[i], old[j]) /\ less(old[j], old[k]) => less(old[i], old[k])
    BY <2>1, <2>2, LessIsOrder
  <2>5. \A k \in family : k \in {at, 2 * at, 2 * at + 1}
    OBVIOUS
  <2> DEFINE a == 2 * at
             b == 2 * at + 1
  <2> HIDE DEF family, old, at, a, b
  <2>6. \A k \in family : k \in {at, a, b}
    BY <2>5 DEF a, b
  <2>7. \E j \in family : \A k \in family \ {j} : less(old[j], old[k])
    BY <2>1, <2>3, <2>4, <2>6
  <2> QED
    BY <2>7
<1> HIDE DEF r, s
<1>4. s \in 1 .. L /\ s \in {at, 2 * at, 2 * at + 1} /\ s \in Nat
  BY <1>1, <1>3
<1>5. \A i \in 2 .. L : Up(i) = at => i \in family
  BY <1>1, UpSays
<1>6. /\ new \in [1 .. L -> E] /\ Distinct(new)
      /\ new[at] = old[s] /\ new[s] = old[at] /\ \A n \in (1 .. L) \ {at, s} : new[n] = old[n]
      /\ at = s => new = old
  <2> HIDE DEF old, at, family
  <2>1. new \in [1 .. L -> E] /\ Distinct(new)
    BY <1>1, <1>4, SwapSays
  <2>2. /\ new[at] = old[s] /\ new[s] = old[at] /\ \A n \in (1 .. L) \ {at, s} : new[n] = old[n]
        /\ at = s => new = old
    BY <1>1, <1>4 DEF Swapped
  <2> QED
    BY <2>1, <2>2
<1> HIDE DEF old, at, family, new
<1>7. /\ \A i \in 2 .. L : Up(i) # at => less(old[Up(i)], old[i])
      /\ at > 1 => \A i \in 2 .. L : Up(i) = at => less(old[Up(at)], old[i])
  BY DEF OrderedAbove, old, at
<1>8. CASE s = at
  <2>1. \A i \in 2 .. L : Up(i) = at => less(old[at], old[i])
    <3> TAKE i \in 2 .. L
    <3> HAVE Up(i) = at
    <3>1. i # at
      BY UpSays
    <3> QED
      BY <1>3, <1>5, <1>8, <3>1
  <2>2. Ordered(old, L)
    BY <1>7, <2>1 DEF Ordered
  <2> QED
    BY <1>1, <1>2, <1>6, <1>7, <1>8, <2>2 DEF Sifting, OrderedAbove, r, at, old
<1>9. CASE s # at
  <2>1. s > at /\ s > 1 /\ Up(s) = at
    <3>1. at > 0
      BY <1>1
    <3>2. Up(2 * at) = at /\ Up(2 * at + 1) = at
      BY <1>1, <3>1, BelowSays, Zenon
    <3>3. Up(s) = at
      BY <1>4, <1>9, <3>2, Zenon
    <3> QED
      BY <1>1, <1>4, <1>9, <3>3
  <2>2. less(old[s], old[at])
    <3>1. at \in family
      BY <1>1 DEF family
    <3> QED
      BY <1>3, <1>9, <3>1
  <2>3. ASSUME NEW i \in 2 .. L, Up(i) # s PROVE less(new[Up(i)], new[i])
    <3>1. Up(i) \in 1 .. L /\ Up(i) # i /\ i \in 1 .. L
      BY UpSays
    <3>2. CASE Up(i) = at /\ i = s
      BY <1>6, <2>2, <3>2
    <3>3. CASE Up(i) = at /\ i # s
      BY <1>3, <1>5, <1>6, <3>1, <3>3
    <3>4. CASE i = at
      <4>1. at > 1 /\ new[Up(at)] = old[Up(at)] /\ new[at] = old[s]
        BY <1>6, <2>3, <3>1, <3>4
      <4>2. less(old[Up(at)], old[s])
        BY <1>4, <1>7, <2>1, <4>1
      <4> QED
        BY <3>4, <4>1, <4>2
    <3>5. CASE Up(i) # at /\ i # at
      BY <1>6, <1>7, <2>1, <2>3, <3>1, <3>5
    <3> QED
      BY <3>2, <3>3, <3>4, <3>5
  <2>4. ASSUME NEW i \in 2 .. L, Up(i) = s PROVE less(new[Up(s)], new[i])
    <3>1. i \in 1 .. L /\ i # s /\ i # at
      BY <2>1, <2>4, UpSays
    <3>2. less(old[s], old[i]) /\ new[i] = old[i] /\ new[at] = old[s]
      BY <1>6, <1>7, <1>9, <2>4, <3>1
    <3> QED
      BY <2>1, <3>2
  <2>5. OrderedAbove(new, L, s)
    BY <2>3, <2>4 DEF OrderedAbove
  <2>6. ~Ordered(old, L)
    <3>1. IsEntry(old[s]) /\ IsEntry(old[at]) /\ s \in 2 .. L
      BY <1>1, <1>4, <2>1 DEF Entries
    <3> QED
      BY <2>1, <2>2, <3>1, LessIsOrder DEF Ordered
  <2> QED
    BY <1>2, <1>4, <1>6, <2>1, <2>5, <2>6 DEF Sifting, r, at, old
<1> QED
  BY <1>8, <1>9

\* A new entry at the end rises to where it belongs.
LEMMA SiftUpSays ==
  ASSUME NEW E, Entries(E), NEW heap \in Seq(E), heap # <<>>,
         Distinct(heap), OrderedBut(heap, Len(heap), Len(heap))
  PROVE  SiftUp(heap) \in [1 .. Len(heap) -> E] /\ Distinct(SiftUp(heap)) /\ Ordered(SiftUp(heap), Len(heap))
<1> DEFINE L == Len(heap)
           start == [heap |-> heap, at |-> L]
           body(g) == [n \in 0 .. L |-> IF n = 0 THEN start ELSE Risen(g[n - 1])]
           up == CHOOSE g : g = body(g)
           S == {h \in Sifting(L, E) : Distinct(h.heap) /\ OrderedBut(h.heap, L, h.at)}
           step == [n \in 1 .. L |-> [h \in S |-> Risen(h)]]
<1>1. SiftUp(heap) = up[L].heap
  BY DEF SiftUp
<1>2. L \in Nat /\ L \in 1 .. L /\ heap \in [1 .. L -> E]
  OBVIOUS
<1> HIDE DEF L
<1>3. start \in S /\ start.at = L
  BY <1>2 DEF Sifting, L
<1> HIDE DEF start
<1>4. \A h \in S : Risen(h) \in S
  BY <1>2, RisenKeeps
<1> HIDE DEF S
<1>5. PICK g : Loops(L, S, start, step, g)
  <2>1. step \in Steps(L, S)
    BY <1>4 DEF Steps
  <2> HIDE DEF step
  <2> QED
    BY <1>2, <1>3, <2>1, LoopsEnd
<1>6. g = body(g)
  <2>1. \A n \in 1 .. L : g[n] = Risen(g[n - 1])
    <3> TAKE n \in 1 .. L
    <3>1. g[n - 1] \in S
      BY <1>2, <1>5 DEF Loops
    <3> QED
      BY <1>5, <3>1 DEF Loops
  <2> QED
    BY <1>2, <1>5, <2>1 DEF Loops
<1>7. up = body(up)
  BY <1>6
<1> HIDE DEF up, step
<1>8. up[0] = start /\ \A n \in 1 .. L : up[n] = Risen(up[n - 1])
  BY <1>2, <1>7
<1> DEFINE A == {n \in 0 .. L : up[n] \in S /\ (Ordered(up[n].heap, L) \/ up[n].at <= L - n)}
<1>9. 0 \in A
  BY <1>2, <1>3, <1>8
<1>10. ASSUME NEW n \in 0 .. L - 1, n \in A PROVE n + 1 \in A
  <2> DEFINE h == up[n]
             r == up[n + 1]
  <2>1. n + 1 \in 0 .. L /\ r = Risen(h) /\ h \in S /\ (Ordered(h.heap, L) \/ h.at <= L - n)
    <3>1. n + 1 \in 1 .. L /\ n + 1 - 1 = n
      BY <1>2
    <3> QED
      BY <1>8, <1>10, <3>1
  <2> HIDE DEF h, r
  <2>2. /\ Ordered(r.heap, L) \/ r.at < h.at
        /\ Ordered(h.heap, L) => Ordered(r.heap, L)
    BY <1>2, <1>4, <2>1, RisenKeeps DEF S
  <2>3. r \in S /\ r.at \in Nat /\ h.at \in Nat
    BY <1>2, <1>4, <2>1 DEF S, Sifting
  <2>4. Ordered(r.heap, L) \/ r.at <= L - (n + 1)
    BY <1>2, <2>1, <2>2, <2>3
  <2> QED
    BY <2>1, <2>3, <2>4 DEF r
<1> HIDE DEF A
<1>11. L \in A
  <2>1. \A n \in 0 .. L : n \in A
    BY <1>2, <1>9, <1>10, Climbs
  <2> QED
    BY <1>2, <2>1
<1>12. up[L] \in S /\ Ordered(up[L].heap, L)
  BY <1>2, <1>11 DEF A, S, Sifting
<1> QED
  BY <1>1, <1>12 DEF S, Sifting, L

\* An entry that was put on top sinks to where it belongs.
LEMMA SiftDownSays ==
  ASSUME NEW E, Entries(E), NEW heap \in Seq(E), heap # <<>>,
         Distinct(heap), OrderedAbove(heap, Len(heap), 1)
  PROVE  SiftDown(heap) \in [1 .. Len(heap) -> E] /\ Distinct(SiftDown(heap)) /\ Ordered(SiftDown(heap), Len(heap))
<1> DEFINE L == Len(heap)
           start == [heap |-> heap, at |-> 1]
           body(g) == [n \in 0 .. L |-> IF n = 0 THEN start ELSE Sunk(g[n - 1])]
           down == CHOOSE g : g = body(g)
           S == {h \in Sifting(L, E) : Distinct(h.heap) /\ OrderedAbove(h.heap, L, h.at)}
           step == [n \in 1 .. L |-> [h \in S |-> Sunk(h)]]
<1>1. SiftDown(heap) = down[L].heap
  BY DEF SiftDown
<1>2. L \in Nat /\ 1 \in 1 .. L /\ heap \in [1 .. L -> E]
  OBVIOUS
<1> HIDE DEF L
<1>3. start \in S /\ start.at = 1
  BY <1>2 DEF Sifting, L
<1> HIDE DEF start
<1>4. \A h \in S : Sunk(h) \in S
  BY <1>2, SunkKeeps
<1> HIDE DEF S
<1>5. PICK g : Loops(L, S, start, step, g)
  <2>1. step \in Steps(L, S)
    BY <1>4 DEF Steps
  <2> HIDE DEF step
  <2> QED
    BY <1>2, <1>3, <2>1, LoopsEnd
<1>6. g = body(g)
  <2>1. \A n \in 1 .. L : g[n] = Sunk(g[n - 1])
    <3> TAKE n \in 1 .. L
    <3>1. g[n - 1] \in S
      BY <1>2, <1>5 DEF Loops
    <3> QED
      BY <1>5, <3>1 DEF Loops
  <2> QED
    BY <1>2, <1>5, <2>1 DEF Loops
<1>7. down = body(down)
  BY <1>6
<1> HIDE DEF down, step
<1>8. down[0] = start /\ \A n \in 1 .. L : down[n] = Sunk(down[n - 1])
  BY <1>2, <1>7
<1> DEFINE A == {n \in 0 .. L : down[n] \in S /\ (Ordered(down[n].heap, L) \/ down[n].at >= n + 1)}
<1>9. 0 \in A
  BY <1>2, <1>3, <1>8
<1>10. ASSUME NEW n \in 0 .. L - 1, n \in A PROVE n + 1 \in A
  <2> DEFINE h == down[n]
             r == down[n + 1]
  <2>1. n + 1 \in 0 .. L /\ r = Sunk(h) /\ h \in S /\ (Ordered(h.heap, L) \/ h.at >= n + 1)
    <3>1. n + 1 \in 1 .. L /\ n + 1 - 1 = n
      BY <1>2
    <3> QED
      BY <1>8, <1>10, <3>1
  <2> HIDE DEF h, r
  <2>2. /\ Ordered(r.heap, L) \/ r.at > h.at
        /\ Ordered(h.heap, L) => Ordered(r.heap, L)
    BY <1>2, <1>4, <2>1, SunkKeeps DEF S
  <2>3. r \in S /\ r.at \in Nat /\ h.at \in Nat
    BY <1>2, <1>4, <2>1 DEF S, Sifting
  <2>4. Ordered(r.heap, L) \/ r.at >= n + 1 + 1
    BY <1>2, <2>1, <2>2, <2>3
  <2> QED
    BY <2>1, <2>3, <2>4 DEF r
<1> HIDE DEF A
<1>11. L \in A
  <2>1. \A n \in 0 .. L : n \in A
    BY <1>2, <1>9, <1>10, Climbs
  <2> QED
    BY <1>2, <2>1
<1>12. down[L] \in S /\ Ordered(down[L].heap, L)
  BY <1>2, <1>11 DEF A, S, Sifting
<1> QED
  BY <1>1, <1>12 DEF S, Sifting, L

\* A function on the places up to n is a list of n.
LEMMA FunctionIsList ==
  ASSUME NEW n \in Nat, NEW T, NEW s \in [1 .. n -> T]
  PROVE  s \in Seq(T) /\ Len(s) = n /\ DOMAIN s = 1 .. n
OBVIOUS

\* A queue of items: an ordered heap, and numbers that are all given out.
EntriesOf(Items) == [item : Items, weight : Int, seq : Nat]
IsQueue(q, Items) ==
  /\ q \in [heap : Seq(EntriesOf(Items)), seq : Nat]
  /\ Distinct(q.heap) /\ Ordered(q.heap, Len(q.heap))
  /\ \A i \in DOMAIN q.heap : q.heap[i].seq < q.seq

LEMMA EmptyIsQueue ==
  ASSUME NEW Items
  PROVE  IsQueue(EmptyQueue, Items)
BY DEF IsQueue, EmptyQueue, Distinct, Ordered

LEMMA MoreItems ==
  ASSUME NEW Items, NEW More, Items \subseteq More, NEW q, IsQueue(q, Items)
  PROVE  IsQueue(q, More)
<1>1. EntriesOf(Items) \subseteq EntriesOf(More)
  BY DEF EntriesOf
<1>2. \A s \in Seq(EntriesOf(Items)) : s \in Seq(EntriesOf(More))
  BY <1>1
<1> QED
  BY <1>2 DEF IsQueue

LEMMA TopOfQueue ==
  ASSUME NEW Items, NEW q, IsQueue(q, Items)
  PROVE  /\ \A i \in DOMAIN q.heap \ {1} : less(q.heap[1], q.heap[i])
         /\ q.heap # <<>> => Head(q.heap).item \in Items
<1> DEFINE L == Len(q.heap)
           E == EntriesOf(Items)
           heap == q.heap
<1>1. L \in Nat /\ heap \in [1 .. L -> E] /\ DOMAIN heap = 1 .. L /\ Ordered(heap, L)
  BY DEF IsQueue
<1>2. Entries(E)
  BY DEF Entries, EntriesOf, IsEntry
<1>3. heap # <<>> => Head(heap).item \in Items
  <2>1. heap \in Seq(E)
    BY DEF IsQueue
  <2> HIDE DEF heap, E
  <2>2. heap # <<>> => Head(heap) \in E
    BY <2>1
  <2>3. \A e \in E : e.item \in Items
    BY DEF E, EntriesOf
  <2> QED
    BY <2>2, <2>3
<1> HIDE DEF heap, L, E
<1>4. \A i \in 2 .. L : less(heap[1], heap[i])
  BY <1>1, <1>2, TopIsFirst
<1>5. \A i \in DOMAIN heap \ {1} : i \in 2 .. L
  BY <1>1
<1> QED
  BY <1>3, <1>4, <1>5 DEF heap

LEMMA PushKeeps ==
  ASSUME NEW Items, NEW q, IsQueue(q, Items), NEW x \in Items, NEW w \in Int
  PROVE  IsQueue(push(q, x, w), Items)
<1> DEFINE heap  == q.heap
           L     == Len(heap)
           entry == [item |-> x, weight |-> w, seq |-> q.seq]
           all   == Append(heap, entry)
           E     == {e \in EntriesOf(Items) : e.seq < q.seq + 1}
           new   == SiftUp(all)
<1>1. /\ heap \in Seq(EntriesOf(Items)) /\ q.seq \in Nat /\ L \in Nat /\ DOMAIN heap = 1 .. L
      /\ \A i \in 1 .. L : heap[i] \in EntriesOf(Items) /\ heap[i].seq < q.seq /\ heap[i].seq \in Nat
      /\ Distinct(heap) /\ Ordered(heap, L)
  <2>1. heap \in Seq(EntriesOf(Items)) /\ q.seq \in Nat
    BY DEF IsQueue
  <2>2. \A e \in EntriesOf(Items) : e.seq \in Nat
    BY DEF EntriesOf
  <2> QED
    BY <2>1, <2>2 DEF IsQueue
<1>2. entry \in EntriesOf(Items) /\ entry.seq = q.seq
  BY <1>1 DEF EntriesOf
<1>3. push(q, x, w) = [heap |-> new, seq |-> q.seq + 1]
  BY DEF push
<1> HIDE DEF heap, L, entry
<1>4. /\ all \in Seq(EntriesOf(Items)) /\ Len(all) = L + 1 /\ DOMAIN all = 1 .. L + 1
      /\ all[L + 1] = entry /\ \A i \in 1 .. L : all[i] = heap[i]
  BY <1>1, <1>2 DEF L
<1> HIDE DEF all, new
<1>5. \A i \in 1 .. L + 1 : all[i] \in E
  BY <1>1, <1>2, <1>4
<1> HIDE DEF E
<1>6. all \in Seq(E) /\ all # <<>>
  BY <1>1, <1>4, <1>5
<1>7. Entries(E)
  BY DEF Entries, E, EntriesOf, IsEntry
<1>8. Distinct(all)
  <2> SUFFICES ASSUME NEW i \in 1 .. L + 1, NEW j \in 1 .. L + 1, i # j PROVE all[i].seq # all[j].seq
    BY <1>4 DEF Distinct
  <2>1. CASE i \in 1 .. L /\ j \in 1 .. L
    BY <1>1, <1>4, <2>1 DEF Distinct
  <2>2. CASE i = L + 1 \/ j = L + 1
    BY <1>1, <1>2, <1>4, <2>2
  <2> QED
    BY <1>1, <2>1, <2>2
<1>9. OrderedBut(all, L + 1, L + 1)
  <2>1. ASSUME NEW i \in 2 .. L + 1 PROVE Up(i) \in 1 .. L /\ Up(i) # L + 1
    BY <1>1, UpSays
  <2>2. ASSUME NEW i \in 2 .. L + 1, i # L + 1 PROVE less(all[Up(i)], all[i])
    <3>1. i \in 2 .. L /\ i \in 1 .. L /\ Up(i) \in 1 .. L
      BY <1>1, <2>1, <2>2
    <3> QED
      BY <1>1, <1>4, <3>1 DEF Ordered
  <2> QED
    BY <2>1, <2>2 DEF OrderedBut
<1>10. new \in [1 .. L + 1 -> E] /\ Distinct(new) /\ Ordered(new, L + 1)
  BY <1>4, <1>6, <1>7, <1>8, <1>9, SiftUpSays DEF new
<1>11. new \in Seq(EntriesOf(Items)) /\ Len(new) = L + 1 /\ \A i \in DOMAIN new : new[i].seq < q.seq + 1
  BY <1>1, <1>10 DEF E
<1> QED
  BY <1>1, <1>3, <1>10, <1>11 DEF IsQueue

LEMMA PopKeeps ==
  ASSUME NEW Items, NEW q, IsQueue(q, Items), q.heap # <<>>
  PROVE  IsQueue(pop(q), Items)
<1> DEFINE heap == q.heap
           L    == Len(heap)
           rest == SubSeq(heap, 1, L - 1)
           all  == [rest EXCEPT ![1] = heap[L]]
           E    == {e \in EntriesOf(Items) : e.seq < q.seq}
           new  == SiftDown(all)
<1>1. /\ heap \in Seq(EntriesOf(Items)) /\ q.seq \in Nat /\ L \in Nat /\ L >= 1 /\ DOMAIN heap = 1 .. L
      /\ \A i \in 1 .. L : heap[i] \in EntriesOf(Items) /\ heap[i].seq < q.seq
      /\ Distinct(heap) /\ Ordered(heap, L)
  BY DEF IsQueue
<1>2. q \in [heap : Seq(EntriesOf(Items)), seq : Nat]
  BY DEF IsQueue
<1>3. pop(q) = [q EXCEPT !.heap = IF rest = <<>> THEN rest ELSE new]
  BY DEF pop
<1> HIDE DEF heap, L
<1>4. rest \in Seq(EntriesOf(Items)) /\ Len(rest) = L - 1 /\ \A i \in 1 .. L - 1 : rest[i] = heap[i]
  BY <1>1
<1> HIDE DEF rest
<1>5. CASE rest = <<>>
  <2>1. pop(q) = [heap |-> <<>>, seq |-> q.seq]
    BY <1>2, <1>3, <1>5
  <2> QED
    BY <1>1, <2>1 DEF IsQueue, Distinct, Ordered
<1>6. CASE rest # <<>>
  <2>1. L - 1 \in Nat /\ L >= 2
    BY <1>1, <1>4, <1>6
  <2>2. /\ all \in [1 .. L - 1 -> EntriesOf(Items)]
        /\ all[1] = heap[L] /\ \A i \in 2 .. L - 1 : all[i] = heap[i]
    BY <1>1, <1>4, <2>1
  <2> HIDE DEF all, new
  <2>3. \A i \in 1 .. L - 1 : all[i] \in E
    BY <1>1, <2>1, <2>2
  <2> HIDE DEF E
  <2>4. all \in Seq(E) /\ all # <<>> /\ Len(all) = L - 1 /\ DOMAIN all = 1 .. L - 1
    <3>1. all \in [1 .. L - 1 -> E]
      BY <2>2, <2>3
    <3>2. all \in Seq(E) /\ Len(all) = L - 1 /\ DOMAIN all = 1 .. L - 1
      BY <2>1, <3>1, FunctionIsList
    <3>3. Len(all) # Len(<<>>)
      BY <2>1, <3>2
    <3> QED
      BY <3>2, <3>3
  <2>5. Entries(E)
    BY DEF Entries, E, EntriesOf, IsEntry
  <2>6. Distinct(all)
    <3> SUFFICES ASSUME NEW i \in 1 .. L - 1, NEW j \in 1 .. L - 1, i # j PROVE all[i].seq # all[j].seq
      BY <2>4 DEF Distinct
    <3> DEFINE was(n) == IF n = 1 THEN L ELSE n
    <3>1. was(i) \in 1 .. L /\ was(j) \in 1 .. L /\ was(i) # was(j)
      BY <1>1, <2>1
    <3>2. all[i] = heap[was(i)] /\ all[j] = heap[was(j)]
      BY <2>1, <2>2
    <3> QED
      BY <1>1, <3>1, <3>2 DEF Distinct
  <2>7. OrderedAbove(all, L - 1, 1)
    <3> SUFFICES ASSUME NEW i \in 2 .. L - 1, Up(i) # 1 PROVE less(all[Up(i)], all[i])
      BY DEF OrderedAbove
    <3>1. i \in 2 .. L /\ Up(i) \in 2 .. L - 1
      BY <1>1, <2>1, UpSays
    <3> QED
      BY <1>1, <2>2, <3>1 DEF Ordered
  <2>8. new \in [1 .. L - 1 -> E] /\ Distinct(new) /\ Ordered(new, L - 1)
    BY <2>4, <2>5, <2>6, <2>7, SiftDownSays DEF new
  <2>9. new \in Seq(EntriesOf(Items)) /\ Len(new) = L - 1 /\ \A i \in DOMAIN new : new[i].seq < q.seq
    BY <2>1, <2>8 DEF E
  <2>10. pop(q) = [heap |-> new, seq |-> q.seq]
    BY <1>2, <1>3, <1>6
  <2>11. pop(q).heap = new /\ pop(q).seq = q.seq /\ pop(q) \in [heap : Seq(EntriesOf(Items)), seq : Nat]
    BY <1>1, <2>9, <2>10
  <2> HIDE DEF pop
  <2> QED
    BY <2>8, <2>9, <2>11 DEF IsQueue
<1> QED
  BY <1>5, <1>6

LEMMA PushAllKeeps ==
  ASSUME NEW Items, NEW q, IsQueue(q, Items), NEW list \in Seq([item : Items, weight : Int])
  PROVE  IsQueue(pushAll(q, list), Items)
<1> DEFINE L == Len(list)
           then(n, p) == push(p, list[n].item, list[n].weight)
           body(g) == [n \in 0 .. L |-> IF n = 0 THEN q ELSE then(n, g[n - 1])]
           pushed == CHOOSE g : g = body(g)
           S == {p \in [heap : Seq(EntriesOf(Items)), seq : Nat] : IsQueue(p, Items)}
           step == [n \in 1 .. L |-> [p \in S |-> then(n, p)]]
<1>1. pushAll(q, list) = pushed[L]
  BY DEF pushAll
<1>2. L \in Nat /\ \A n \in 1 .. L : list[n].item \in Items /\ list[n].weight \in Int
  <2> DEFINE R == [item : Items, weight : Int]
  <2>1. list \in Seq(R)
    OBVIOUS
  <2>2. \A e \in R : e.item \in Items /\ e.weight \in Int
    OBVIOUS
  <2> HIDE DEF R
  <2>3. L \in Nat /\ \A n \in 1 .. L : list[n] \in R
    BY <2>1
  <2> QED
    BY <2>2, <2>3
<1> HIDE DEF L
<1>3. q \in S
  BY DEF IsQueue
<1>4. ASSUME NEW n \in 1 .. L, NEW p \in S PROVE then(n, p) \in S
  <2>1. IsQueue(then(n, p), Items)
    BY <1>2, PushKeeps
  <2> HIDE DEF then
  <2> QED
    BY <2>1 DEF IsQueue
<1> HIDE DEF S, then
<1>5. PICK g : Loops(L, S, q, step, g)
  <2>1. step \in Steps(L, S)
    BY <1>4 DEF Steps
  <2> HIDE DEF step
  <2> QED
    BY <1>2, <1>3, <2>1, LoopsEnd
<1>6. g = body(g)
  <2>1. \A n \in 1 .. L : g[n] = then(n, g[n - 1])
    <3> TAKE n \in 1 .. L
    <3>1. g[n - 1] \in S
      BY <1>2, <1>5 DEF Loops
    <3> QED
      BY <1>5, <3>1 DEF Loops
  <2> QED
    BY <1>2, <1>5, <2>1 DEF Loops
<1>7. pushed = body(pushed)
  BY <1>6
<1> HIDE DEF pushed, step
<1>8. pushed[0] = q /\ \A n \in 1 .. L : pushed[n] = then(n, pushed[n - 1])
  BY <1>2, <1>7
<1> DEFINE A == {n \in 0 .. L : pushed[n] \in S}
<1>9. 0 \in A
  BY <1>2, <1>3, <1>8
<1>10. ASSUME NEW n \in 0 .. L - 1, n \in A PROVE n + 1 \in A
  <2>1. n + 1 \in 1 .. L /\ n + 1 - 1 = n /\ pushed[n] \in S
    BY <1>2, <1>10
  <2>2. pushed[n + 1] = then(n + 1, pushed[n])
    BY <1>8, <2>1
  <2> QED
    BY <1>2, <1>4, <2>1, <2>2
<1> HIDE DEF A
<1>11. L \in A
  <2>1. \A n \in 0 .. L : n \in A
    BY <1>2, <1>9, <1>10, Climbs
  <2> QED
    BY <1>2, <2>1
<1> QED
  BY <1>1, <1>11 DEF A, S

-----------------------------------------------------------------------------
(* The walk of the graph.                                                   *)

\* What a call of walk() answers, of a graph with states N and edges E.
Answers(N, E) == [found : BOOLEAN, path : Seq(E), seen : SUBSET N]
Links(N, E) == \A e \in E : e.from \in N /\ e.to \in N
Levels(N, E) == [N -> [SUBSET N -> Answers(N, E)]]

\* Edges that lead from one state to another, each from where the last one ended.
Leads(path, from, to) ==
  IF path = <<>> THEN from = to
  ELSE /\ path[1].from = from /\ path[Len(path)].to = to
       /\ \A i \in 1 .. Len(path) - 1 : path[i].to = path[i + 1].from

\* A call from state c, when the states in s were entered, says the truth: there is
\* a way to the node, or it was not met; and if calls may nest deep enough, all
\* that leads on from what was entered now was entered.
Truthful(r, E, node, c, s, deep) ==
  /\ s \subseteq r.seen
  /\ r.found => Leads(r.path, c, node)
  /\ c = node => r.found /\ r.path = <<>>
  /\ ~r.found /\ node \notin s => node \notin r.seen
  /\ ~r.found /\ deep => /\ c \in r.seen
                         /\ \A e \in E : e.from \in r.seen \ s => e.to \in r.seen
Truths(w, N, E, node, depth) ==
  \A c \in N : \A s \in SUBSET N : Truthful(w[c][s], E, node, c, s, depth >= Cardinality(N \ s))

\* One edge out of the state c: the walk goes along it unless it has arrived.
Along(w, c, edge, before) ==
  LET down == w[edge.to][before.seen]
  IN  IF before.found \/ edge.from # c THEN before
      ELSE [down EXCEPT !.path = IF down.found THEN <<edge>> \o @ ELSE @]

LEMMA AlongStays ==
  ASSUME NEW N, NEW E, Links(N, E), NEW w \in Levels(N, E),
         NEW c \in N, NEW edge \in E, NEW before \in Answers(N, E)
  PROVE  Along(w, c, edge, before) \in Answers(N, E)
<1> DEFINE down == w[edge.to][before.seen]
<1>1. edge.to \in N /\ before.seen \in SUBSET N
  BY DEF Links, Answers
<1>2. down \in Answers(N, E)
  BY <1>1 DEF Levels
<1>3. Along(w, c, edge, before) = before \/ Along(w, c, edge, before) = down
      \/ Along(w, c, edge, before) = [down EXCEPT !.path = <<edge>> \o @]
  <2>1. [down EXCEPT !.path = @] = down
    BY <1>2 DEF Answers
  <2> QED
    BY <2>1 DEF Along
<1> HIDE DEF down
<1>4. [down EXCEPT !.path = <<edge>> \o @] \in Answers(N, E)
  <2>1. down.path \in Seq(E) /\ down = [found |-> down.found, path |-> down.path, seen |-> down.seen]
    BY <1>2 DEF Answers
  <2>2. <<edge>> \o down.path \in Seq(E)
    BY <2>1
  <2> QED
    BY <1>2, <2>1, <2>2 DEF Answers
<1> QED
  BY <1>2, <1>3, <1>4

\* An edge in front of a way on.
LEMMA LeadsOn ==
  ASSUME NEW E, NEW path \in Seq(E), NEW edge \in E, NEW node, Leads(path, edge.to, node)
  PROVE  Leads(<<edge>> \o path, edge.from, node)
<1> DEFINE more == <<edge>> \o path
           L == Len(path)
<1>1. L \in Nat /\ Len(more) = L + 1 /\ more[1] = edge /\ more # <<>>
      /\ \A i \in 1 .. L : more[i + 1] = path[i]
  OBVIOUS
<1>2. path = <<>> => L = 0
  OBVIOUS
<1>3. path # <<>> => L >= 1
  OBVIOUS
<1> HIDE DEF more, L
<1>4. CASE path = <<>>
  <2>1. Len(more) = 1
    BY <1>1, <1>2, <1>4
  <2> QED
    BY <1>1, <1>4, <2>1 DEF Leads, more
<1>5. CASE path # <<>>
  <2>1. path[1].from = edge.to /\ path[L].to = node /\ \A i \in 1 .. L - 1 : path[i].to = path[i + 1].from
    BY <1>5 DEF Leads, L
  <2>2. more[Len(more)] = path[L]
    BY <1>1, <1>3, <1>5
  <2>3. ASSUME NEW i \in 1 .. Len(more) - 1 PROVE more[i].to = more[i + 1].from
    <3>1. CASE i = 1
      BY <1>1, <1>3, <1>5, <2>1, <3>1
    <3>2. CASE i # 1
      <4> DEFINE j == i - 1
      <4>1. j \in 1 .. L - 1 /\ j + 1 \in 1 .. L /\ i = j + 1 /\ j \in 1 .. L
        BY <1>1, <3>2
      <4> HIDE DEF j
      <4>2. more[i] = path[j] /\ more[i + 1] = path[j + 1]
        BY <1>1, <4>1
      <4> QED
        BY <2>1, <4>1, <4>2
    <3> QED
      BY <3>1, <3>2
  <2> QED
    BY <1>1, <2>1, <2>2, <2>3 DEF Leads, more
<1> QED
  BY <1>4, <1>5

\* What a call has come to after the edges in `past`.
Onward(a, E, node, c, s, deep, past) ==
  /\ s \cup {c} \subseteq a.seen
  /\ a.found => Leads(a.path, c, node)
  /\ ~a.found /\ node \notin s => node \notin a.seen
  /\ ~a.found /\ deep => /\ \A e \in past : e.from = c => e.to \in a.seen
                         /\ \A e \in E : e.from \in a.seen \ (s \cup {c}) => e.to \in a.seen

LEMMA AlongKeeps ==
  ASSUME NEW N, IsFiniteSet(N), NEW E, Links(N, E), NEW node,
         NEW depth \in Nat, NEW w \in Levels(N, E), Truths(w, N, E, node, depth),
         NEW c \in N, NEW s \in SUBSET N, c \notin s,
         NEW edge \in E, NEW past, NEW before \in Answers(N, E),
         Onward(before, E, node, c, s, depth + 1 >= Cardinality(N \ s), past)
  PROVE  Onward(Along(w, c, edge, before), E, node, c, s, depth + 1 >= Cardinality(N \ s), past \cup {edge})
<1> DEFINE down == w[edge.to][before.seen]
           deep == depth + 1 >= Cardinality(N \ s)
           after == Along(w, c, edge, before)
<1>1. CASE before.found \/ edge.from # c
  <2>1. after = before
    BY <1>1 DEF Along
  <2> HIDE DEF after
  <2> QED
    BY <1>1, <2>1 DEF Onward, after
<1>2. CASE ~before.found /\ edge.from = c
  <2>1. edge.to \in N /\ before.seen \in SUBSET N
    BY DEF Links, Answers
  <2>2. down \in Answers(N, E) /\ Truthful(down, E, node, edge.to, before.seen, depth >= Cardinality(N \ before.seen))
    BY <2>1 DEF Truths, Levels
  <2>3. deep => depth >= Cardinality(N \ before.seen)
    <3> HAVE deep
    <3>1. N \ before.seen \subseteq (N \ s) \ {c} /\ c \in N \ s
      BY DEF Onward
    <3>2. IsFiniteSet(N \ s) /\ Cardinality(N \ s) \in Nat
      BY FS_Subset, FS_CardinalityType
    <3>3. IsFiniteSet((N \ s) \ {c}) /\ Cardinality((N \ s) \ {c}) = Cardinality(N \ s) - 1
      BY <3>1, <3>2, FS_RemoveElement
    <3>4. Cardinality(N \ before.seen) <= Cardinality(N \ s) - 1
      BY <3>1, <3>3, FS_Subset
    <3>5. IsFiniteSet(N \ before.seen)
      BY FS_Subset
    <3>6. Cardinality(N \ before.seen) \in Nat
      BY <3>5, FS_CardinalityType
    <3> QED
      BY <3>2, <3>4, <3>6
  <2>4. after = [down EXCEPT !.path = IF down.found THEN <<edge>> \o @ ELSE @]
    BY <1>2 DEF Along
  <2> HIDE DEF down, deep
  <2>5. after.found = down.found /\ after.seen = down.seen
        /\ (down.found => after.path = <<edge>> \o down.path)
    BY <2>2, <2>4 DEF Answers
  <2> HIDE DEF after
  <2>6. before.seen \subseteq down.seen
    BY <2>2 DEF Truthful
  <2>7. s \cup {c} \subseteq after.seen
    BY <2>5, <2>6 DEF Onward
  <2>8. after.found => Leads(after.path, c, node)
    <3> HAVE after.found
    <3>1. down.path \in Seq(E) /\ Leads(down.path, edge.to, node)
      BY <2>2, <2>5 DEF Answers, Truthful
    <3>2. Leads(<<edge>> \o down.path, edge.from, node)
      BY <3>1, LeadsOn
    <3> QED
      BY <1>2, <2>5, <3>2
  <2>9. ~after.found /\ node \notin s => node \notin after.seen
    BY <1>2, <2>2, <2>5 DEF Onward, Truthful
  <2>10. ASSUME ~after.found, deep
         PROVE  /\ \A e \in past \cup {edge} : e.from = c => e.to \in after.seen
                /\ \A e \in E : e.from \in after.seen \ (s \cup {c}) => e.to \in after.seen
    <3>1. edge.to \in down.seen /\ \A e \in E : e.from \in down.seen \ before.seen => e.to \in down.seen
      BY <2>2, <2>3, <2>5, <2>10 DEF Truthful
    <3>2. /\ \A e \in past : e.from = c => e.to \in before.seen
          /\ \A e \in E : e.from \in before.seen \ (s \cup {c}) => e.to \in before.seen
      BY <1>2, <2>10 DEF Onward, deep
    <3> QED
      BY <2>5, <2>6, <3>1, <3>2
  <2> QED
    BY <2>7, <2>8, <2>9, <2>10 DEF Onward, after, deep
<1> QED
  BY <1>1, <1>2

\* A call that goes along all edges.
AllAlong(w, edges, c, s) ==
  LET along[i \in 0 .. Len(edges)] ==
        IF i = 0 THEN [found |-> FALSE, path |-> <<>>, seen |-> s \cup {c}]
        ELSE Along(w, c, edges[i], along[i - 1])
  IN  along[Len(edges)]

LEMMA LevelSays ==
  ASSUME NEW N, IsFiniteSet(N), NEW E, Links(N, E), NEW node,
         NEW edges \in Seq(E), E = Range(edges),
         NEW w \in Levels(N, E), NEW c \in N, NEW s \in SUBSET N
  PROVE  /\ AllAlong(w, edges, c, s) \in Answers(N, E)
         /\ \A depth \in Nat :
              Truths(w, N, E, node, depth) /\ c # node /\ c \notin s =>
                Truthful(AllAlong(w, edges, c, s), E, node, c, s, depth + 1 >= Cardinality(N \ s))
<1> DEFINE M == Len(edges)
           S == Answers(N, E)
           start == [found |-> FALSE, path |-> <<>>, seen |-> s \cup {c}]
           then(i, a) == Along(w, c, edges[i], a)
           body(f) == [i \in 0 .. M |-> IF i = 0 THEN start ELSE then(i, f[i - 1])]
           along == CHOOSE f : f = body(f)
           step == [i \in 1 .. M |-> [a \in S |-> then(i, a)]]
<1>0. AllAlong(w, edges, c, s) = along[M]
  BY DEF AllAlong
<1>1. M \in Nat /\ \A i \in 1 .. M : edges[i] \in E
  OBVIOUS
<1>2. start \in S
  BY DEF Answers
<1>3. \A i \in 1 .. M : \A a \in S : then(i, a) \in S
  BY <1>1, AlongStays
<1>4. \A e \in E : \E i \in 1 .. M : edges[i] = e
  BY DEF Range
<1> HIDE DEF M, S, start
<1> HIDE DEF then
<1>5. PICK g : Loops(M, S, start, step, g)
  <2>1. step \in Steps(M, S)
    BY <1>3 DEF Steps
  <2> HIDE DEF step
  <2> QED
    BY <1>1, <1>2, <2>1, LoopsEnd
<1>6. g = body(g)
  <2>1. \A i \in 1 .. M : g[i] = then(i, g[i - 1])
    <3> TAKE i \in 1 .. M
    <3>1. g[i - 1] \in S
      BY <1>1, <1>5 DEF Loops
    <3> QED
      BY <1>5, <3>1 DEF Loops
  <2> QED
    BY <1>1, <1>5, <2>1 DEF Loops
<1>7. along = body(along)
  BY <1>6
<1> HIDE DEF along, step
<1>8. along[0] = start /\ \A i \in 1 .. M : along[i] = then(i, along[i - 1])
  BY <1>1, <1>7
<1> DEFINE A == {i \in 0 .. M : along[i] \in S}
<1>9. 0 \in A
  BY <1>1, <1>2, <1>8
<1>10. ASSUME NEW i \in 0 .. M - 1, i \in A PROVE i + 1 \in A
  <2>1. i + 1 \in 1 .. M /\ i + 1 - 1 = i /\ along[i] \in S
    BY <1>1, <1>10
  <2>2. along[i + 1] = then(i + 1, along[i])
    BY <1>8, <2>1
  <2> QED
    BY <1>1, <1>3, <2>1, <2>2
<1> HIDE DEF A
<1>11. \A i \in 0 .. M : along[i] \in S
  <2>1. \A i \in 0 .. M : i \in A
    BY <1>1, <1>9, <1>10, Climbs
  <2> QED
    BY <2>1 DEF A
<1>12. ASSUME NEW depth \in Nat, Truths(w, N, E, node, depth), c # node, c \notin s
       PROVE  Truthful(along[M], E, node, c, s, depth + 1 >= Cardinality(N \ s))
  <2> DEFINE deep == depth + 1 >= Cardinality(N \ s)
             past(i) == {edges[j] : j \in 1 .. i}
             B == {i \in 0 .. M : Onward(along[i], E, node, c, s, deep, past(i))}
  <2> HIDE DEF deep
  <2>1. 0 \in B
    <3>1. past(0) = {}
      OBVIOUS
    <3> HIDE DEF past
    <3>2. Onward(start, E, node, c, s, deep, {})
      BY <1>12 DEF Onward, start
    <3>3. Onward(along[0], E, node, c, s, deep, past(0))
      BY <1>8, <3>1, <3>2, Zenon
    <3> QED
      BY <1>1, <3>3
  <2>2. ASSUME NEW i \in 0 .. M - 1, i \in B PROVE i + 1 \in B
    <3>1. i + 1 \in 1 .. M /\ i + 1 - 1 = i /\ i + 1 \in 0 .. M /\ along[i] \in S
      <4> HIDE DEF B
      <4> QED
        BY <1>1, <1>11, <2>2
    <3>2. along[i + 1] = Along(w, c, edges[i + 1], along[i]) /\ edges[i + 1] \in E
      BY <1>1, <1>8, <3>1 DEF then
    <3>3. past(i + 1) = past(i) \cup {edges[i + 1]}
      <4>1. \A j \in 1 .. i + 1 : j \in 1 .. i \/ j = i + 1
        BY <3>1
      <4>2. \A j \in 1 .. i : j \in 1 .. i + 1
        BY <3>1
      <4>3. i + 1 \in 1 .. i + 1
        BY <3>1
      <4> QED
        BY <4>1, <4>2, <4>3
    <3>4. Onward(along[i], E, node, c, s, deep, past(i))
      BY <2>2
    <3> HIDE DEF past
    <3>5. Onward(Along(w, c, edges[i + 1], along[i]), E, node, c, s, deep, past(i) \cup {edges[i + 1]})
      BY <1>12, <3>1, <3>2, <3>4, AlongKeeps DEF S, deep
    <3> QED
      BY <3>1, <3>2, <3>3, <3>5
  <2>3. M \in B
    <3> HIDE DEF B
    <3>1. \A i \in 0 .. M : i \in B
      BY <1>1, <2>1, <2>2, Climbs
    <3> QED
      BY <1>1, <3>1
  <2>4. past(M) = E
    BY <1>1, <1>4
  <2>5. Onward(along[M], E, node, c, s, deep, E)
    BY <2>3, <2>4
  <2> HIDE DEF B, past
  <2> DEFINE r == along[M]
  <2> HIDE DEF r
  <2>6. Onward(r, E, node, c, s, deep, E)
    BY <2>5 DEF r
  <2>7. Truthful(r, E, node, c, s, deep)
    BY <1>12, <2>6 DEF Onward, Truthful
  <2> QED
    BY <2>7 DEF r, deep
<1>13. along[M] \in S
  BY <1>1, <1>11
<1> QED
  BY <1>0, <1>12, <1>13 DEF S

\* A graph: its states are distinct, and all but the root are led to from one that
\* was there before.
IsGraph(g) ==
  /\ DOMAIN g = {"nodes", "edges"}
  /\ g.nodes \in Seq(Range(g.nodes)) /\ g.edges \in Seq(Range(g.edges))
  /\ Links(Range(g.nodes), Range(g.edges))
  /\ \A i, j \in DOMAIN g.nodes : i # j => g.nodes[i] # g.nodes[j]
  /\ \A i \in DOMAIN g.nodes : i # 1 =>
       \E e \in Range(g.edges) : e.to = g.nodes[i] /\ \E j \in 1 .. i - 1 : e.from = g.nodes[j]

LEMMA StatesAreFew ==
  ASSUME NEW s, s \in Seq(Range(s))
  PROVE  IsFiniteSet(Range(s)) /\ Cardinality(Range(s)) <= Len(s)
<1> DEFINE N == Range(s)
           L == Len(s)
<1>1. L \in Nat /\ s \in [1 .. L -> N]
  OBVIOUS
<1>2. \A x \in N : \E i \in 1 .. L : s[i] = x
  BY <1>1 DEF Range
<1> HIDE DEF N, L
<1>3. s \in Surjection(1 .. L, N)
  BY <1>1, <1>2 DEF Surjection
<1>4. IsFiniteSet(1 .. L) /\ Cardinality(1 .. L) = L
  BY <1>1, FS_Interval
<1> QED
  BY <1>3, <1>4, FS_Surjection DEF N, L

\* walk() from the root tells the truth of every node.
LEMMA WalkSays ==
  ASSUME NEW g, IsGraph(g), g.nodes # <<>>, NEW node
  PROVE  /\ Walk(g, node) \in Answers(Range(g.nodes), Range(g.edges))
         /\ Truthful(Walk(g, node), Range(g.edges), node, root(g), {}, TRUE)
<1> DEFINE N == Range(g.nodes)
           E == Range(g.edges)
           L == size(g)
           arrived(s) == [found |-> TRUE, path |-> <<>>, seen |-> s]
           stuck(s)   == [found |-> FALSE, path |-> <<>>, seen |-> s]
           call(n, w, c, s) == IF c = node THEN arrived(s)
                               ELSE IF c \in s \/ n = 0 THEN stuck(s)
                               ELSE AllAlong(w, g.edges, c, s)
           level(n, w) == [c \in N |-> [s \in SUBSET N |-> call(n, w, c, s)]]
           body(f) == [n \in 0 .. L |-> level(n, f[n - 1])]
           walk == CHOOSE f : f = body(f)
           W == Levels(N, E)
           start == level(0, 0)
           step == [n \in 1 .. L |-> [w \in W |-> level(n, w)]]
<1>1. Walk(g, node) = walk[L][root(g)][{}]
  BY DEF Walk, AllAlong, Along
<1>2. /\ L \in Nat /\ L >= 1 /\ root(g) \in N /\ IsFiniteSet(N) /\ Cardinality(N) <= L
      /\ Links(N, E) /\ g.edges \in Seq(E)
  <2>1. L \in Nat /\ L >= 1 /\ root(g) \in N
    BY DEF IsGraph, size, root, Range
  <2> QED
    BY <2>1, StatesAreFew DEF IsGraph, size
<1>3. \A s \in SUBSET N : arrived(s) \in Answers(N, E) /\ stuck(s) \in Answers(N, E)
  BY DEF Answers
<1> HIDE DEF L, W
<1>4. ASSUME NEW w \in W, NEW c \in N, NEW s \in SUBSET N, NEW n \in Nat
      PROVE  call(n, w, c, s) \in Answers(N, E)
  <2>1. AllAlong(w, g.edges, c, s) \in Answers(N, E)
    <3> HIDE DEF N
    <3> QED
      BY <1>2, LevelSays DEF W
  <2> HIDE DEF arrived, stuck, N, E
  <2> QED
    BY <1>3, <2>1
<1>5. ASSUME NEW n \in Nat, n >= 1, NEW w \in W, NEW c \in N, NEW s \in SUBSET N, Truths(w, N, E, node, n - 1)
      PROVE  Truthful(call(n, w, c, s), E, node, c, s, n >= Cardinality(N \ s))
  <2>1. CASE c = node
    BY <2>1 DEF Truthful, Leads
  <2>2. CASE c # node /\ c \in s
    BY <2>2 DEF Truthful
  <2>3. CASE c # node /\ c \notin s
    <3>1. n - 1 \in Nat /\ n - 1 + 1 = n
      BY <1>5
    <3>2. call(n, w, c, s) = AllAlong(w, g.edges, c, s)
      BY <1>5, <2>3
    <3> HIDE DEF call, N
    <3>3. Truthful(AllAlong(w, g.edges, c, s), E, node, c, s, n - 1 + 1 >= Cardinality(N \ s))
      BY <1>2, <1>5, <2>3, <3>1, LevelSays DEF W
    <3> QED
      BY <3>1, <3>2, <3>3
  <2> QED
    BY <2>1, <2>2, <2>3
<1>6. ASSUME NEW w, NEW c \in N, NEW s \in SUBSET N
      PROVE  /\ call(0, w, c, s) = call(0, 0, c, s) /\ call(0, w, c, s) \in Answers(N, E)
             /\ Truthful(call(0, w, c, s), E, node, c, s, 0 >= Cardinality(N \ s))
  <2>1. call(0, w, c, s) = (IF c = node THEN arrived(s) ELSE stuck(s)) /\ call(0, 0, c, s) = (IF c = node THEN arrived(s) ELSE stuck(s))
    OBVIOUS
  <2>2. call(0, w, c, s) \in Answers(N, E)
    <3> HIDE DEF arrived, stuck, call, N, E
    <3> QED
      BY <1>3, <2>1
  <2>3. CASE c = node
    BY <2>1, <2>2, <2>3 DEF Truthful, Leads
  <2>4. CASE c # node
    <3>1. 0 >= Cardinality(N \ s) => c \in s
      <4>1. IsFiniteSet(N \ s)
        BY <1>2, FS_Subset
      <4>2. Cardinality(N \ s) \in Nat /\ (Cardinality(N \ s) = 0 => N \ s = {})
        BY <4>1, FS_CardinalityType, FS_EmptySet
      <4> QED
        BY <4>2
    <3>2. call(0, w, c, s) = stuck(s)
      BY <2>1, <2>4
    <3> HIDE DEF call, N
    <3>3. Truthful(stuck(s), E, node, c, s, 0 >= Cardinality(N \ s))
      BY <2>4, <3>1 DEF Truthful
    <3> QED
      BY <2>1, <2>2, <2>4, <3>2, <3>3
  <2> QED
    BY <2>3, <2>4
<1> HIDE DEF N, E, call
<1>7. start \in W /\ \A n \in 1 .. L : \A w \in W : level(n, w) \in W
  <2>1. start \in W
    BY <1>6 DEF W, Levels
  <2>2. ASSUME NEW n \in 1 .. L, NEW w \in W PROVE level(n, w) \in W
    <3>1. n \in Nat
      BY <1>2
    <3>2. \A c \in N : \A s \in SUBSET N : call(n, w, c, s) \in Answers(N, E)
      BY <1>4, <3>1
    <3>3. level(n, w) \in [N -> [SUBSET N -> Answers(N, E)]]
      BY <3>2
    <3> QED
      BY <3>3 DEF W, Levels
  <2> QED
    BY <2>1, <2>2
<1>8. \A w : level(0, w) = start
  BY <1>6
<1>9. \A n \in 0 .. L : \A w : DOMAIN level(n, w) = N /\ \A c \in N : \A s \in SUBSET N : level(n, w)[c][s] = call(n, w, c, s)
  OBVIOUS
<1> HIDE DEF level
<1>10. PICK f : Loops(L, W, start, step, f)
  <2>1. step \in Steps(L, W)
    BY <1>7 DEF Steps
  <2> HIDE DEF step, start
  <2> QED
    BY <1>2, <1>7, <2>1, LoopsEnd
<1>11. f = body(f)
  <2>1. \A n \in 1 .. L : f[n] = level(n, f[n - 1])
    <3> TAKE n \in 1 .. L
    <3>1. f[n - 1] \in W
      BY <1>2, <1>10 DEF Loops
    <3> QED
      BY <1>10, <3>1 DEF Loops
  <2>2. f[0] = level(0, f[0 - 1])
    BY <1>8, <1>10 DEF Loops
  <2>3. \A n \in 0 .. L : f[n] = level(n, f[n - 1])
    <3> TAKE n \in 0 .. L
    <3>1. n = 0 \/ n \in 1 .. L
      BY <1>2
    <3> QED
      BY <2>1, <2>2, <3>1
  <2>4. DOMAIN f = 0 .. L /\ f = [n \in 0 .. L |-> f[n]]
    BY <1>10 DEF Loops
  <2> QED
    BY <2>3, <2>4
<1>12. walk = body(walk)
  BY <1>11
<1> HIDE DEF walk, step
<1>13. walk[0] = start /\ \A n \in 1 .. L : walk[n] = level(n, walk[n - 1])
  BY <1>2, <1>8, <1>12
<1> DEFINE A == {n \in 0 .. L : walk[n] \in W /\ Truths(walk[n], N, E, node, n)}
<1>14. 0 \in A
  <2>1. Truths(start, N, E, node, 0)
    BY <1>2, <1>6, <1>9 DEF Truths
  <2> HIDE DEF start
  <2> QED
    BY <1>2, <1>7, <1>13, <2>1
<1>15. ASSUME NEW n \in 0 .. L - 1, n \in A PROVE n + 1 \in A
  <2>1. n + 1 \in 1 .. L /\ n + 1 - 1 = n /\ n + 1 \in 0 .. L /\ n + 1 \in Nat /\ n + 1 >= 1
    BY <1>2
  <2>2. walk[n + 1] = level(n + 1, walk[n]) /\ walk[n] \in W /\ Truths(walk[n], N, E, node, n)
    BY <1>13, <1>15, <2>1
  <2>3. walk[n + 1] \in W
    BY <1>7, <2>1, <2>2
  <2> DEFINE w == walk[n]
             m == n + 1
  <2>4. m \in Nat /\ m >= 1 /\ m - 1 = n /\ m \in 0 .. L /\ w \in W
    BY <2>1, <2>2
  <2> HIDE DEF m, w
  <2>5. Truths(w, N, E, node, m - 1)
    BY <2>2, <2>4 DEF w
  <2>6. \A c \in N : \A s \in SUBSET N : Truthful(call(m, w, c, s), E, node, c, s, m >= Cardinality(N \ s))
    BY <1>5, <2>4, <2>5
  <2>7. Truths(level(m, w), N, E, node, m)
    BY <1>9, <2>4, <2>6 DEF Truths
  <2>8. walk[n + 1] = level(m, w) /\ m = n + 1
    BY <2>2 DEF m, w
  <2> QED
    BY <2>1, <2>3, <2>7, <2>8
<1> HIDE DEF A
<1>16. walk[L] \in W /\ Truths(walk[L], N, E, node, L)
  <2>1. \A n \in 0 .. L : n \in A
    BY <1>2, <1>14, <1>15, Climbs
  <2> QED
    BY <1>2, <2>1 DEF A
<1>17. Walk(g, node) \in Answers(N, E)
  BY <1>1, <1>2, <1>16 DEF W, Levels
<1>18. Truthful(walk[L][root(g)][{}], E, node, root(g), {}, L >= Cardinality(N \ {}))
  BY <1>2, <1>16 DEF Truths
<1>19. N \ {} = N
  OBVIOUS
<1> QED
  BY <1>1, <1>2, <1>17, <1>18, <1>19 DEF N, E

\* What is led to from the root, and from all that is, is all there is.
LEMMA AllIsReached ==
  ASSUME NEW g, IsGraph(g), g.nodes # <<>>, NEW s, root(g) \in s,
         \A e \in Range(g.edges) : e.from \in s => e.to \in s
  PROVE  Range(g.nodes) \subseteq s
<1> DEFINE L == Len(g.nodes)
           T == {i \in 1 .. L : g.nodes[i] \notin s}
<1>1. L \in Nat /\ DOMAIN g.nodes = 1 .. L /\ root(g) = g.nodes[1]
  BY DEF IsGraph, root
<1> HIDE DEF L
<1>2. SUFFICES ASSUME T # {} PROVE FALSE
  BY <1>1 DEF Range
<1>3. PICK i \in T : \A j \in T : i <= j
  <2>1. T \subseteq Nat
    BY <1>1
  <2> HIDE DEF T
  <2> QED
    BY <1>2, <2>1, LeastExists
<1>4. i \in 1 .. L /\ i # 1 /\ g.nodes[i] \notin s
  BY <1>1
<1>5. PICK e \in Range(g.edges) : e.to = g.nodes[i] /\ \E j \in 1 .. i - 1 : e.from = g.nodes[j]
  BY <1>1, <1>4 DEF IsGraph
<1>6. PICK j \in 1 .. i - 1 : e.from = g.nodes[j]
  BY <1>5
<1>7. j \in 1 .. L /\ j < i
  BY <1>1, <1>4
<1>8. g.nodes[j] \in s
  BY <1>3, <1>7
<1> QED
  BY <1>4, <1>5, <1>6, <1>8

\* The kill chain of a state.
LEMMA KillChainSays ==
  ASSUME NEW g, IsGraph(g), NEW i \in DOMAIN g.nodes
  PROVE  LET path == pathTo(g, g.nodes[i]) IN
         IF i = 1 THEN path = <<>>
         ELSE /\ path # <<>> /\ Head(path).from = root(g)
              /\ Last(path).to = g.nodes[i]
              /\ \A k \in 1 .. Len(path) - 1 : path[k].to = path[k + 1].from
<1> DEFINE node == g.nodes[i]
           r    == Walk(g, node)
           path == r.path
<1>1. g.nodes # <<>> /\ node \in Range(g.nodes) /\ root(g) = g.nodes[1] /\ 1 \in DOMAIN g.nodes
  BY DEF IsGraph, root, Range
<1>2. pathTo(g, node) = path
  BY DEF pathTo
<1> HIDE DEF node
<1>3. r \in Answers(Range(g.nodes), Range(g.edges)) /\ Truthful(r, Range(g.edges), node, root(g), {}, TRUE)
  BY <1>1, WalkSays
<1> HIDE DEF r
<1>4. r.found
  <2> SUFFICES ASSUME ~r.found PROVE FALSE
    OBVIOUS
  <2>1. node \notin r.seen /\ root(g) \in r.seen /\ \A e \in Range(g.edges) : e.from \in r.seen => e.to \in r.seen
    BY <1>3 DEF Truthful
  <2> QED
    BY <1>1, <2>1, AllIsReached
<1>5. Leads(path, root(g), node) /\ path \in Seq(Range(g.edges))
  BY <1>3, <1>4 DEF Truthful, Answers
<1>6. i = 1 => path = <<>>
  BY <1>1, <1>3 DEF Truthful, node
<1>7. i # 1 => path # <<>>
  <2> HAVE i # 1
  <2>1. node # root(g)
    BY <1>1 DEF IsGraph, node
  <2> QED
    BY <1>5, <2>1 DEF Leads
<1> HIDE DEF path
<1>8. path # <<>> => Head(path) = path[1] /\ Last(path) = path[Len(path)]
  BY <1>5 DEF Last
<1>9. path # <<>> => /\ path[1].from = root(g) /\ path[Len(path)].to = node
                     /\ \A n \in 1 .. Len(path) - 1 : path[n].to = path[n + 1].from
  BY <1>5 DEF Leads
<1>10. IF i = 1 THEN path = <<>>
       ELSE /\ path # <<>> /\ Head(path).from = root(g)
            /\ Last(path).to = node
            /\ \A k \in 1 .. Len(path) - 1 : path[k].to = path[k + 1].from
  BY <1>6, <1>7, <1>8, <1>9
<1> QED
  BY <1>2, <1>10 DEF node

\* A search that finds nothing meets every state.
LEMMA AllAreVisited ==
  ASSUME NEW g, IsGraph(g), g.nodes # <<>>, Nowhere \notin Range(g.nodes)
  PROVE  Visited(g) = Range(g.nodes)
<1> DEFINE r == Walk(g, Nowhere)
<1>1. Visited(g) = r.seen
  BY DEF Visited
<1>2. r \in Answers(Range(g.nodes), Range(g.edges)) /\ Truthful(r, Range(g.edges), Nowhere, root(g), {}, TRUE)
  BY WalkSays
<1> HIDE DEF r
<1>3. root(g) \in Range(g.nodes)
  BY DEF IsGraph, root, Range
<1>4. ~r.found
  <2> SUFFICES ASSUME r.found PROVE FALSE
    OBVIOUS
  <2> DEFINE path == r.path
  <2>1. Leads(path, root(g), Nowhere) /\ path \in Seq(Range(g.edges))
    BY <1>2 DEF Truthful, Answers
  <2> HIDE DEF path
  <2>2. path # <<>>
    BY <1>3, <2>1 DEF Leads
  <2>3. path[Len(path)] \in Range(g.edges) /\ path[Len(path)].to = Nowhere
    BY <2>1, <2>2 DEF Leads
  <2> QED
    BY <2>3 DEF IsGraph, Links
<1>5. root(g) \in r.seen /\ \A e \in Range(g.edges) : e.from \in r.seen => e.to \in r.seen
  BY <1>2, <1>4 DEF Truthful
<1>6. Range(g.nodes) \subseteq r.seen
  BY <1>5, AllIsReached
<1>7. r.seen \subseteq Range(g.nodes)
  BY <1>2 DEF Answers
<1> QED
  BY <1>1, <1>6, <1>7

-----------------------------------------------------------------------------
(* Snapshots, and the richest of them.                                      *)

IsSnapshot(n) ==
  /\ DOMAIN n = {"url", "urlRisk", "keys", "domMarkers"} /\ n.url \in Urls
  /\ n.urlRisk \in Nat /\ n.keys \subseteq {"token"} /\ IsFiniteSet(n.domMarkers)

LEMMA MaxOfTwo ==
  ASSUME NEW a \in Int, NEW b \in Int
  PROVE  Max({a, b}) = IF a >= b THEN a ELSE b
<1> DEFINE m == IF a >= b THEN a ELSE b
<1>1. m \in {a, b} /\ \A y \in {a, b} : m >= y
  OBVIOUS
<1>2. \A x \in {a, b} : (\A y \in {a, b} : x >= y) => x = m
  OBVIOUS
<1> QED
  BY <1>1, <1>2 DEF Max

LEMMA WeightSays ==
  ASSUME NEW n, IsSnapshot(n)
  PROVE  stateWeight(n) \in 1 .. 10 /\ Cardinality(n.keys) \in {0, 1}
<1>1. Cardinality(n.domMarkers) \in Nat /\ n.urlRisk \in Nat
  BY FS_CardinalityType DEF IsSnapshot
<1>2. 10 - 3 * (n.urlRisk + Cardinality(n.domMarkers)) \in Int /\ 10 - 3 * (n.urlRisk + Cardinality(n.domMarkers)) <= 10
  BY <1>1
<1>3. stateWeight(n) \in 1 .. 10
  BY <1>2, MaxOfTwo DEF stateWeight
<1>4. n.keys = {} \/ n.keys = {"token"}
  BY DEF IsSnapshot
<1> QED
  BY <1>3, <1>4, FS_EmptySet, FS_Singleton

\* The richest state of a graph is one of those that none is richer than.
LEMMA RichestSays ==
  ASSUME NEW g, IsGraph(g), g.nodes # <<>>, \A n \in Range(g.nodes) : IsSnapshot(n)
  PROVE  \A i \in DOMAIN g.nodes : ~richer(g.nodes[i], Richest(g))
<1> DEFINE N == Range(g.nodes)
           poor(n) == stateWeight(n) + 10 * (1 - Cardinality(n.keys))
           T == {poor(n) : n \in N}
<1>1. Nowhere \notin N
  BY DEF IsSnapshot, Nowhere
<1>2. Visited(g) = N
  BY <1>1, AllAreVisited
<1>3. N # {} /\ \A i \in DOMAIN g.nodes : g.nodes[i] \in N
  <2>1. 1 \in DOMAIN g.nodes
    BY DEF IsGraph
  <2> QED
    BY <2>1 DEF Range
<1> HIDE DEF N
<1>4. \A n \in N : poor(n) \in Nat /\ stateWeight(n) \in 1 .. 10 /\ Cardinality(n.keys) \in {0, 1}
  <2> TAKE n \in N
  <2>1. stateWeight(n) \in 1 .. 10 /\ Cardinality(n.keys) \in {0, 1}
    BY WeightSays DEF N
  <2> QED
    BY <2>1
<1>5. ASSUME NEW n \in N, NEW best \in N, richer(n, best) PROVE poor(n) < poor(best)
  BY <1>4, <1>5 DEF richer
<1> HIDE DEF poor
<1>6. PICK best \in N : \A n \in N : poor(best) <= poor(n)
  <2>1. T \subseteq Nat /\ T # {}
    BY <1>3, <1>4
  <2>2. PICK p \in T : \A m \in T : p <= m
    <3> HIDE DEF T
    <3> QED
      BY <2>1, LeastExists
  <2>3. PICK best \in N : p = poor(best)
    BY <2>2
  <2> QED
    BY <2>2, <2>3
<1>7. \A n \in N : ~richer(n, best)
  BY <1>4, <1>5, <1>6
<1>8. \A n \in N : ~richer(n, Richest(g))
  <2>1. \E b \in Visited(g) : \A n \in Visited(g) : ~richer(n, b)
    BY <1>2, <1>7
  <2>2. \A n \in Visited(g) : ~richer(n, Richest(g))
    BY <2>1 DEF Richest
  <2> QED
    BY <1>2, <2>2
<1> QED
  BY <1>3, <1>8

-----------------------------------------------------------------------------
(* How the graph grows.                                                     *)

LEMMA AppendedSays ==
  ASSUME NEW s, s \in Seq(Range(s)), NEW x
  PROVE  LET more == Append(s, x) IN
         /\ more \in Seq(Range(more)) /\ Range(more) = Range(s) \cup {x}
         /\ DOMAIN more = 1 .. Len(s) + 1 /\ DOMAIN s = 1 .. Len(s) /\ Len(s) \in Nat
         /\ more[Len(s) + 1] = x /\ \A i \in 1 .. Len(s) : more[i] = s[i]
<1> DEFINE more == Append(s, x)
           L == Len(s)
           T == Range(s) \cup {x}
<1>1. s \in Seq(T) /\ x \in T
  <2>1. \A R, Q : R \subseteq Q /\ s \in Seq(R) => s \in Seq(Q)
    OBVIOUS
  <2> QED
    BY <2>1
<1> HIDE DEF T
<1>2. /\ DOMAIN more = 1 .. L + 1 /\ DOMAIN s = 1 .. L /\ L \in Nat /\ Len(more) = L + 1
      /\ more[L + 1] = x /\ \A i \in 1 .. L : more[i] = s[i]
      /\ more = [i \in 1 .. L + 1 |-> more[i]]
  <2>1. /\ more \in Seq(T) /\ DOMAIN s = 1 .. L /\ L \in Nat /\ Len(more) = L + 1
        /\ more[L + 1] = x /\ \A i \in 1 .. L : more[i] = s[i]
    BY <1>1
  <2> HIDE DEF more, L
  <2>2. DOMAIN more = 1 .. L + 1
    BY <2>1
  <2>3. more = [i \in DOMAIN more |-> more[i]]
    BY <2>1
  <2> QED
    BY <2>1, <2>2, <2>3
<1> HIDE DEF more, L
<1>3. Range(more) = Range(s) \cup {x}
  <2>1. \A i \in 1 .. L + 1 : i \in 1 .. L \/ i = L + 1
    BY <1>2
  <2>2. \A i \in 1 .. L : i \in 1 .. L + 1
    BY <1>2
  <2>3. L + 1 \in 1 .. L + 1
    BY <1>2
  <2> QED
    BY <1>2, <2>1, <2>2, <2>3 DEF Range
<1>4. more \in Seq(Range(more))
  <2>1. \A i \in 1 .. L + 1 : more[i] \in Range(more)
    BY <1>2 DEF Range
  <2> DEFINE R == Range(more)
  <2> HIDE DEF R
  <2>2. more \in [1 .. L + 1 -> R]
    BY <1>2, <2>1 DEF R
  <2>3. more \in Seq(R)
    BY <1>2, <2>2, FunctionIsList
  <2> QED
    BY <2>3 DEF R
<1> QED
  BY <1>2, <1>3, <1>4 DEF more, L

LEMMA RootIsGraph ==
  ASSUME NEW x
  PROVE  LET g == addState(EmptyGraph, x) IN
         IsGraph(g) /\ g.nodes = <<x>> /\ g.edges = <<>>
<1> DEFINE g == addState(EmptyGraph, x)
<1>1. g = [nodes |-> <<x>>, edges |-> <<>>]
  BY DEF addState, EmptyGraph, Contains
<1> HIDE DEF g
<1>2. g.nodes \in Seq(Range(g.nodes)) /\ Range(g.nodes) = {x} /\ DOMAIN g.nodes = {1} /\ 1 .. 1 = {1}
  BY <1>1 DEF Range
<1>3. g.edges \in Seq(Range(g.edges)) /\ Range(g.edges) = {}
  BY <1>1 DEF Range
<1> QED
  BY <1>1, <1>2, <1>3 DEF IsGraph, Links, g

\* A state that is led to from one that is there.
LEMMA GrownIsGraph ==
  ASSUME NEW g, IsGraph(g), NEW edge, edge.from \in Range(g.nodes)
  PROVE  LET new == addEdge(addState(g, edge.to), edge) IN
         /\ IsGraph(new) /\ Range(new.nodes) = Range(g.nodes) \cup {edge.to}
         /\ Range(new.edges) = Range(g.edges) \cup {edge}
<1> DEFINE to    == edge.to
           grown == addState(g, to)
           new   == addEdge(grown, edge)
           L     == Len(g.nodes)
           more  == Append(g.nodes, to)
           edges == Append(g.edges, edge)
<1>1. Contains(g.nodes, to) <=> to \in Range(g.nodes)
  <2>1. DOMAIN g.nodes = 1 .. Len(g.nodes)
    BY DEF IsGraph
  <2> QED
    BY <2>1 DEF Contains, Range
<1>2. IF to \in Range(g.nodes) THEN grown = g ELSE grown = [g EXCEPT !.nodes = more]
  BY <1>1 DEF addState
<1>3. DOMAIN grown = {"nodes", "edges"} /\ grown.edges = g.edges
      /\ grown.nodes = IF to \in Range(g.nodes) THEN g.nodes ELSE more
  <2> HIDE DEF grown, more
  <2> QED
    BY <1>2 DEF IsGraph
<1>4. new = [grown EXCEPT !.edges = Append(@, edge)]
  BY DEF addEdge
<1> HIDE DEF grown, more, new
<1>5. DOMAIN new = {"nodes", "edges"} /\ new.edges = edges /\ new.nodes = grown.nodes
  BY <1>3, <1>4
<1> HIDE DEF to, edges, L
<1>6. edges \in Seq(Range(edges)) /\ Range(edges) = Range(g.edges) \cup {edge}
  BY AppendedSays DEF IsGraph, edges
<1>7. /\ \A i, j \in DOMAIN g.nodes : i # j => g.nodes[i] # g.nodes[j]
      /\ \A i \in DOMAIN g.nodes : i # 1 =>
           \E e \in Range(g.edges) : e.to = g.nodes[i] /\ \E j \in 1 .. i - 1 : e.from = g.nodes[j]
      /\ g.nodes \in Seq(Range(g.nodes)) /\ Links(Range(g.nodes), Range(g.edges))
  BY DEF IsGraph
<1>8. CASE to \in Range(g.nodes)
  <2>1. Links(Range(new.nodes), Range(new.edges))
    BY <1>3, <1>5, <1>6, <1>7, <1>8 DEF Links, to
  <2>2. new.nodes = g.nodes /\ new.edges = edges
    BY <1>3, <1>5, <1>8
  <2> QED
    BY <1>5, <1>6, <1>7, <1>8, <2>1, <2>2 DEF IsGraph, new, grown, to
<1>9. CASE to \notin Range(g.nodes)
  <2>1. new.nodes = more /\ new.edges = edges
    BY <1>3, <1>5, <1>9
  <2>2. /\ more \in Seq(Range(more)) /\ Range(more) = Range(g.nodes) \cup {to}
        /\ DOMAIN more = 1 .. L + 1 /\ DOMAIN g.nodes = 1 .. L /\ L \in Nat
        /\ more[L + 1] = to /\ \A i \in 1 .. L : more[i] = g.nodes[i]
    BY <1>7, AppendedSays DEF more, L
  <2>3. Links(Range(more), Range(edges))
    BY <1>6, <1>7, <2>2 DEF Links, to
  <2>4. ASSUME NEW i \in DOMAIN more, NEW j \in DOMAIN more, i # j PROVE more[i] # more[j]
    <3>1. \A n \in 1 .. L : more[n] # to
      BY <1>9, <2>2 DEF Range
    <3>2. (i \in 1 .. L \/ i = L + 1) /\ (j \in 1 .. L \/ j = L + 1)
      BY <2>2
    <3> QED
      BY <1>7, <2>2, <2>4, <3>1, <3>2
  <2>5. ASSUME NEW i \in DOMAIN more, i # 1
        PROVE  \E e \in Range(edges) : e.to = more[i] /\ \E j \in 1 .. i - 1 : e.from = more[j]
    <3>1. CASE i \in 1 .. L
      <4>1. PICK e \in Range(g.edges) : e.to = g.nodes[i] /\ \E j \in 1 .. i - 1 : e.from = g.nodes[j]
        BY <1>7, <2>2, <2>5, <3>1
      <4>2. \A j \in 1 .. i - 1 : j \in 1 .. L
        BY <2>2, <3>1
      <4> QED
        BY <1>6, <2>2, <3>1, <4>1, <4>2
    <3>2. CASE i = L + 1
      <4>1. PICK j \in 1 .. L : g.nodes[j] = edge.from
        BY <2>2 DEF Range
      <4>2. j \in 1 .. i - 1 /\ edge.from = more[j] /\ edge.to = more[i]
        BY <2>2, <3>2, <4>1 DEF to
      <4> QED
        BY <1>6, <4>2
    <3> QED
      BY <2>2, <3>1, <3>2
  <2>6. IsGraph(new)
    BY <1>5, <1>6, <2>1, <2>2, <2>3, <2>4, <2>5 DEF IsGraph
  <2> QED
    BY <1>6, <2>1, <2>2, <2>6 DEF new, grown, to
<1> QED
  BY <1>8, <1>9

-----------------------------------------------------------------------------
(* The scout.                                                               *)

\* What a candidate may be: a control of the app that leads nowhere outside.
Jobs == {c \in UNION {Range(site.controls[u]) : u \in Urls} : c.kind = "link" => Internal(c.to)}
Acts == {action(c) : c \in Jobs}

ScoutTab(t) ==
  /\ Unwired(t) /\ IsPage(t.page)
  /\ t.coming = Nothing \/ IsControl(site, t.coming)
  /\ Prompt => t.coming = Nothing

LEMMA JobsAre ==
  ASSUME run \in Runs
  PROVE  /\ \A u \in Urls : \A i \in DOMAIN site.controls[u] :
              LET c == site.controls[u][i] IN
              IsOne(c) /\ ((c.kind = "link" => Internal(c.to)) => c \in Jobs)
         /\ \A a \in Acts : a.type = "navigate" => a.to \in Urls
<1>1. ASSUME NEW u \in Urls, NEW i \in DOMAIN site.controls[u], NEW c, c = site.controls[u][i]
      PROVE  IsOne(c) /\ ((c.kind = "link" => Internal(c.to)) => c \in Jobs)
  <2>1. IsOne(c)
    BY <1>1, AppSays DEF IsOne, Prompt, Urls
  <2>2. c \in Range(site.controls[u])
    BY <1>1 DEF Range
  <2> QED
    BY <2>1, <2>2 DEF Jobs
<1>2. ASSUME NEW c \in Jobs, action(c).type = "navigate" PROVE action(c).to \in Urls
  <2>1. c.kind = "link" /\ action(c).to = c.to
    BY <1>2 DEF action
  <2> QED
    BY <2>1, AppSays DEF Jobs, Internal
<1> QED
  BY <1>1, <1>2 DEF Acts

\* A snapshot of a page.
LEMMA CaptureSays ==
  ASSUME run \in Runs, NEW page, IsPage(page)
  PROVE  IsSnapshot(captureState(page)) /\ captureState(page).url = page.url
<1> DEFINE all == site.controls[page.url]
           P == Places(page)
           f == [i \in P |-> all[i].words]
           T == {all[i].words : i \in P}
<1>1. page.url \in Urls /\ all \in Seq(Range(all)) /\ site.risk[page.url] \in Nat
      /\ \A i \in DOMAIN all : IsFiniteSet(all[i].words)
  BY AppSays DEF IsPage, IsControl
<1>2. captureState(page) = [url |-> page.url, urlRisk |-> site.risk[page.url],
                            keys |-> IF page.stored THEN {"token"} ELSE {}, domMarkers |-> UNION T]
  BY DEF captureState
<1>3. P \subseteq 1 .. Len(all) /\ Len(all) \in Nat /\ DOMAIN all = 1 .. Len(all)
  BY <1>1 DEF Places
<1> HIDE DEF all, P
<1>4. IsFiniteSet(P)
  <2>1. 1 \in Int /\ Len(all) \in Int /\ P \in SUBSET (1 .. Len(all))
    BY <1>3
  <2>2. IsFiniteSet(1 .. Len(all))
    BY <2>1, FS_Interval
  <2> QED
    BY <2>1, <2>2, FS_Subset
<1>5. f \in Surjection(P, T)
  BY DEF Surjection
<1>6. IsFiniteSet(T)
  BY <1>4, <1>5, FS_Surjection
<1>7. \A S \in T : IsFiniteSet(S)
  BY <1>1, <1>3
<1> HIDE DEF T
<1>8. IsFiniteSet(UNION T)
  BY <1>6, <1>7, FS_UNION
<1> QED
  BY <1>1, <1>2, <1>8 DEF IsSnapshot

\* What is scheduled starts from the node, and stands in order with the rest.
LEMMA ScheduleSays ==
  ASSUME run \in Runs, NEW node, IsSnapshot(node), NEW page, IsPage(page),
         NEW Items, [from : {node}, action : Acts] \subseteq Items,
         IsQueue(frontier, Items), scheduleNode(node, page)
  PROVE  IsQueue(frontier', Items)
<1> DEFINE all == site.controls[page.url]
           fresh == {i \in Candidates(page) :
                       /\ <<node, all[i].name>> \notin scheduled
                       /\ \A j \in Candidates(page) : j < i => all[j].name # all[i].name}
           list == Those(all, fresh)
           entries == [i \in DOMAIN list |-> [item |-> [from |-> node, action |-> action(list[i])],
                                              weight |-> actionWeight(node, list[i])]]
<1>1. frontier' = pushAll(frontier, entries)
  BY DEF scheduleNode
<1>2. page.url \in Urls /\ all \in Seq(Range(all))
  BY AppSays DEF IsPage
<1>3. \A i \in DOMAIN all : i \in fresh => all[i] \in Jobs
  BY <1>2, JobsAre DEF Candidates
<1> HIDE DEF fresh
<1>4. list \in Seq(Range(all)) /\ \A k \in DOMAIN list : \E i \in DOMAIN all : i \in fresh /\ list[k] = all[i]
  BY <1>2, ThoseSays
<1> HIDE DEF list
<1>5. ASSUME NEW k \in DOMAIN list
      PROVE  list[k] \in Jobs /\ actionWeight(node, list[k]) \in Int
  <2>1. PICK i \in DOMAIN all : i \in fresh /\ list[k] = all[i]
    BY <1>4
  <2>2. IsFiniteSet(list[k].words)
    BY <1>2, <2>1, JobsAre DEF IsOne, IsControl
  <2>3. Cardinality(list[k].words) \in Nat /\ stateWeight(node) \in Int
    BY <2>2, FS_CardinalityType, WeightSays
  <2>4. 1 \in Int /\ stateWeight(node) - 2 * Cardinality(list[k].words) \in Int
    BY <2>3
  <2>5. actionWeight(node, list[k]) \in Int
    BY <2>4, MaxOfTwo DEF actionWeight
  <2> QED
    BY <1>3, <2>1, <2>5
<1>6. \A k \in DOMAIN list : [from |-> node, action |-> action(list[k])] \in Items
  BY <1>5 DEF Acts
<1>7. Len(list) \in Nat /\ DOMAIN list = 1 .. Len(list)
  BY <1>4
<1>8. entries \in [1 .. Len(list) -> [item : Items, weight : Int]]
  BY <1>5, <1>6, <1>7
<1> HIDE DEF entries
<1>9. entries \in Seq([item : Items, weight : Int])
  BY <1>7, <1>8, FunctionIsList
<1> QED
  BY <1>1, <1>9, PushAllKeeps

\* The tab of the scout while it goes on.
LEMMA ScoutTabStays ==
  ASSUME NEW t, Unwired(t)
  PROVE  /\ \A u : FetchDocument(t, u).page = t.page /\ FetchDocument(t, u).coming = t.coming
         /\ RecordMove(t).page = t.page /\ RecordMove(t).coming = t.coming
<1>1. Unwired([t EXCEPT !.entries = <<>>]) /\ [t EXCEPT !.entries = <<>>].page = t.page
      /\ [t EXCEPT !.entries = <<>>].coming = t.coming
  BY DEF Unwired, Fields
<1>2. \A u : FetchDocument(t, u) = [t EXCEPT !.entries = <<>>]
  BY <1>1, UnwiredStays DEF FetchDocument
<1>3. RecordMove(t) = t \/ RecordMove(t) = [t EXCEPT !.lastNav = t.page.url]
  BY DEF RecordMove, Record, Unwired
<1>4. [t EXCEPT !.lastNav = t.page.url].page = t.page /\ [t EXCEPT !.lastNav = t.page.url].coming = t.coming
  BY DEF Unwired, Fields
<1> QED
  BY <1>1, <1>2, <1>3, <1>4

LEMMA ScoutLoads ==
  ASSUME NEW t, ScoutTab(t), NEW u \in Urls
  PROVE  ScoutTab(Loaded(t, u)) /\ Loaded(t, u).page.url = u
<1> DEFINE at == [t EXCEPT !.page = Load(@, u), !.coming = Nothing, !.focus = "none"]
           moved == RecordMove(at)
<1>1. Unwired(at) /\ at.coming = Nothing /\ at.page = Load(t.page, u)
  BY DEF ScoutTab, Unwired, Fields
<1>2. Loaded(t, u) = FetchDocument(moved, u)
  BY DEF Loaded
<1> HIDE DEF at
<1>3. Unwired(moved) /\ moved.coming = Nothing /\ moved.page = Load(t.page, u)
  BY <1>1, UnwiredStays, ScoutTabStays
<1> HIDE DEF moved
<1>4. FetchDocument(moved, u).page = Load(t.page, u) /\ FetchDocument(moved, u).coming = Nothing
      /\ Unwired(FetchDocument(moved, u))
  BY <1>3, UnwiredStays, ScoutTabStays
<1>5. IsPage(Load(t.page, u)) /\ Load(t.page, u).url = u
  BY DEF Load, IsPage
<1> QED
  BY <1>2, <1>4, <1>5 DEF ScoutTab

LEMMA ScoutCommits ==
  ASSUME NEW t, ScoutTab(t), NEW page, IsPage(page)
  PROVE  ScoutTab(Commit(t, page))
<1> DEFINE at == [t EXCEPT !.page = page,
                           !.coming = IF page.url # t.page.url THEN Nothing ELSE @,
                           !.focus = IF page.url # t.page.url THEN "none" ELSE @]
           got == IF site.base[page.url] # site.base[t.page.url] THEN FetchDocument(at, page.url) ELSE at
<1>1. Unwired(at) /\ at.page = page /\ (at.coming = t.coming \/ at.coming = Nothing)
  BY DEF ScoutTab, Unwired, Fields
<1>2. Commit(t, page) = RecordMove(got)
  BY DEF Commit
<1> HIDE DEF at
<1>3. Unwired(got) /\ got.page = page /\ (got.coming = t.coming \/ got.coming = Nothing)
  BY <1>1, UnwiredStays, ScoutTabStays
<1> HIDE DEF got
<1>4. Unwired(RecordMove(got)) /\ RecordMove(got).page = page
      /\ (RecordMove(got).coming = t.coming \/ RecordMove(got).coming = Nothing)
  BY <1>3, UnwiredStays, ScoutTabStays
<1> QED
  BY <1>2, <1>4 DEF ScoutTab

LEMMA ScoutActs ==
  ASSUME NEW t, ScoutTab(t), NEW c, IsOne(c)
  PROVE  ScoutTab(Act(t, c))
<1>1. CASE c.late
  <2> DEFINE r == [t EXCEPT !.coming = c]
  <2>1. Unwired(r) /\ r.page = t.page /\ r.coming = c /\ Act(t, c) = r
    BY <1>1 DEF ScoutTab, Unwired, Fields, Act
  <2> HIDE DEF r
  <2> QED
    BY <1>1, <2>1 DEF ScoutTab, IsOne
<1>2. CASE ~c.late
  <2>1. Fetch(t, c.calls) = t
    BY UnwiredStays DEF ScoutTab
  <2>2. IsPage(Outcome(t.page, c))
    BY OutcomeIsPage DEF ScoutTab, IsOne
  <2>3. Act(t, c) = Commit(t, Outcome(t.page, c))
    BY <1>2, <2>1 DEF Act
  <2> QED
    BY <2>2, <2>3, ScoutCommits
<1> QED
  BY <1>1, <1>2

LEMMA ScoutArrives ==
  ASSUME ScoutTab(tab), Arrive
  PROVE  ScoutTab(tab') /\ ~Prompt
<1> DEFINE r == [tab EXCEPT !.coming = Nothing]
<1>1. Unwired(r) /\ r.page = tab.page /\ r.coming = Nothing
  BY DEF ScoutTab, Unwired, Fields
<1>2. IsControl(site, tab.coming) /\ ~Prompt
  BY DEF ScoutTab, Arrive
<1>3. tab' = Commit(Fetch(r, tab.coming.calls), Outcome(tab.page, tab.coming))
  BY DEF Arrive
<1> HIDE DEF r
<1>4. Fetch(r, tab.coming.calls) = r
  BY <1>1, UnwiredStays
<1>5. ScoutTab(r) /\ IsPage(Outcome(tab.page, tab.coming))
  BY <1>1, <1>2, OutcomeIsPage DEF ScoutTab
<1> QED
  BY <1>2, <1>3, <1>4, <1>5, ScoutCommits

-----------------------------------------------------------------------------
(* The mapper's invariant.                                                  *)

Waiting == [from : Range(graph.nodes), action : Acts]
Explored == IsGraph(graph) /\ graph.nodes # <<>> /\ \A n \in Range(graph.nodes) : IsSnapshot(n)

\* If every page loads and none is late: the page is the one of the state whose
\* candidate is tried, and so was it for every edge.
OnItsPage ==
  /\ \A e \in Range(graph.edges) : e.ran.url = e.from.url
  /\ mapping = "perform" => tab.page.url = candidate.from.url
  /\ mapping = "capture" => ranFrom.url = candidate.from.url

MapInv ==
  /\ losses \in Nat
  /\ IsQueue(frontier, Waiting)
  /\ mapping \in {"off", "open", "root"} => graph = EmptyGraph /\ frontier = EmptyQueue
  /\ mapping \in {"pop", "perform", "capture", "mapped"} => Explored
  /\ mapping \in {"perform", "capture"} => candidate \in Waiting
  /\ ~Mapped => ScoutTab(tab)
  /\ losses = 0 /\ Prompt => OnItsPage

LEMMA SameMap ==
  ASSUME run' = run
  PROVE  /\ Acts' = Acts /\ Prompt' = Prompt
         /\ \A n : IsSnapshot(n)' <=> IsSnapshot(n)
         /\ \A t : ScoutTab(t)' <=> ScoutTab(t)
<1>1. site' = site /\ Prompt' = Prompt /\ Urls' = Urls
  BY SameRun
<1>2. Acts' = Acts
  BY <1>1 DEF Acts, Jobs, Internal, action
<1>3. \A n : IsSnapshot(n)' <=> IsSnapshot(n)
  BY <1>1 DEF IsSnapshot
<1>4. \A t : ScoutTab(t)' <=> ScoutTab(t)
  BY <1>1 DEF ScoutTab, Unwired, IsPage
<1> QED
  BY <1>1, <1>2, <1>3, <1>4

\* The graph and what waits stay as they are.
LEMMA GraphStays ==
  ASSUME MapInv, run' = run, UNCHANGED graph
  PROVE  /\ Waiting' = Waiting /\ (Explored => Explored')
         /\ IsQueue(frontier', Waiting) => IsQueue(frontier, Waiting)'
<1>1. Waiting' = Waiting
  BY SameMap DEF Waiting
<1>2. Explored => Explored'
  BY SameMap DEF Explored
<1> QED
  BY <1>1, <1>2 DEF IsQueue

\* A page that does or does not load.
LEMMA ScoutGoes ==
  ASSUME ScoutTab(tab), losses \in Nat, NEW u \in Urls, Goto(tab, u)
  PROVE  /\ ScoutTab(tab') /\ losses' \in Nat /\ losses' >= losses
         /\ losses' = 0 => tab'.page.url = u
BY ScoutLoads DEF Goto

LEMMA ScoutOpenKeeps ==
  ASSUME run \in Runs, MapInv, ScoutOpen
  PROVE  MapInv'
<1>1. /\ mapping = "open" /\ mapping' = "root" /\ Goto(tab, site.start) /\ site.start \in Urls
      /\ UNCHANGED <<run, graph, frontier, candidate, ranFrom>>
  BY AppSays DEF ScoutOpen
<1>2. ScoutTab(tab') /\ losses' \in Nat /\ losses' >= losses
  BY <1>1, ScoutGoes DEF MapInv, Mapped
<1>3. ScoutTab(tab)'
  BY <1>1, <1>2, SameRun DEF ScoutTab, Unwired, IsPage
<1>4. IsQueue(frontier, Waiting)'
  BY <1>1, GraphStays DEF MapInv
<1>5. (losses = 0 /\ Prompt => OnItsPage)'
  <2>1. losses' = 0 => losses = 0
    BY <1>2 DEF MapInv
  <2> QED
    BY <1>1, <2>1, SameMap DEF MapInv, OnItsPage
<1> QED
  BY <1>1, <1>2, <1>3, <1>4, <1>5 DEF MapInv

LEMMA ScoutFailsKeeps ==
  ASSUME run \in Runs, MapInv, ScoutFails
  PROVE  MapInv'
<1>1. mapping' = "failed" /\ UNCHANGED <<run, tab, losses, graph, frontier, candidate, ranFrom>>
  BY DEF ScoutFails
<1>2. IsQueue(frontier, Waiting)'
  BY <1>1, GraphStays DEF MapInv
<1>3. (losses = 0 /\ Prompt => OnItsPage)'
  BY <1>1, SameMap DEF MapInv, OnItsPage
<1> QED
  BY <1>1, <1>2, <1>3 DEF MapInv, Mapped

LEMMA MapEndKeeps ==
  ASSUME run \in Runs, MapInv, MapEnd
  PROVE  MapInv'
<1>1. /\ mapping = "pop" /\ mapping' = "mapped"
      /\ UNCHANGED <<run, tab, losses, graph, frontier, candidate, ranFrom>>
  BY DEF MapEnd
<1>2. IsQueue(frontier, Waiting)' /\ Explored'
  BY <1>1, GraphStays DEF MapInv
<1>3. (losses = 0 /\ Prompt => OnItsPage)'
  BY <1>1, SameMap DEF MapInv, OnItsPage
<1> QED
  BY <1>1, <1>2, <1>3 DEF MapInv, Mapped

LEMMA MapRootKeeps ==
  ASSUME run \in Runs, MapInv, MapRoot
  PROVE  MapInv'
<1> DEFINE x == captureState(tab.page)
           g == addState(EmptyGraph, x)
           Items == [from : Range(g.nodes), action : Acts]
<1>1. /\ mapping = "root" /\ mapping' = "pop" /\ graph = EmptyGraph /\ frontier = EmptyQueue
      /\ graph' = g /\ scheduleNode(root(g), tab.page)
      /\ UNCHANGED <<run, tab, losses, candidate, ranFrom>> /\ ScoutTab(tab)
  BY DEF MapRoot, MapInv, Mapped
<1>2. IsSnapshot(x) /\ IsPage(tab.page)
  BY <1>1, CaptureSays DEF ScoutTab
<1> HIDE DEF x
<1>3. IsGraph(g) /\ g.nodes = <<x>> /\ g.edges = <<>>
  BY RootIsGraph
<1> HIDE DEF g
<1>4. root(g) = x /\ Range(g.nodes) = {x} /\ Range(g.edges) = {} /\ g.nodes # <<>>
  BY <1>3 DEF root, Range
<1>5. IsQueue(frontier, Items)
  BY <1>1, EmptyIsQueue
<1>6. [from : {x}, action : Acts] \subseteq Items
  BY <1>4
<1> HIDE DEF Items
<1>7. IsQueue(frontier', Items)
  BY <1>1, <1>2, <1>4, <1>5, <1>6, ScheduleSays
<1>8. Waiting' = Items
  BY <1>1, SameMap DEF Waiting, Items
<1>9. IsQueue(frontier, Waiting)'
  BY <1>7, <1>8 DEF IsQueue
<1>10. Explored'
  BY <1>1, <1>2, <1>3, <1>4, SameMap DEF Explored
<1>11. ScoutTab(tab)'
  BY <1>1, SameRun DEF ScoutTab, Unwired, IsPage
<1>12. OnItsPage'
  BY <1>1, <1>4 DEF OnItsPage
<1> QED
  BY <1>1, <1>9, <1>10, <1>11, <1>12 DEF MapInv

LEMMA MapPopKeeps ==
  ASSUME run \in Runs, MapInv, MapPop
  PROVE  MapInv'
<1>1. /\ mapping = "pop" /\ mapping' = "perform" /\ frontier.heap # <<>>
      /\ frontier' = pop(frontier) /\ candidate' = Head(frontier.heap).item
      /\ IF tab.page.url = candidate'.from.url THEN UNCHANGED <<tab, losses>>
         ELSE Goto(tab, candidate'.from.url)
      /\ UNCHANGED <<run, graph, ranFrom>>
      /\ ScoutTab(tab) /\ Explored /\ losses \in Nat /\ IsQueue(frontier, Waiting)
  BY DEF MapPop, MapInv, Mapped, Exploring
<1>2. candidate' \in Waiting
  BY <1>1, TopOfQueue
<1>3. candidate'.from.url \in Urls
  BY <1>1, <1>2 DEF Waiting, Explored, IsSnapshot
<1>4. /\ ScoutTab(tab') /\ losses' \in Nat /\ losses' >= losses
      /\ losses' = 0 => tab'.page.url = candidate'.from.url
  BY <1>1, <1>3, ScoutGoes
<1>5. IsQueue(frontier', Waiting)
  BY <1>1, PopKeeps
<1>6. Explored' /\ Waiting' = Waiting /\ IsQueue(frontier, Waiting)'
  BY <1>1, <1>5, GraphStays
<1>7. ScoutTab(tab)'
  BY <1>1, <1>4, SameRun DEF ScoutTab, Unwired, IsPage
<1>8. (losses = 0 /\ Prompt => OnItsPage)'
  <2>1. losses' = 0 => losses = 0
    BY <1>1, <1>4
  <2> QED
    BY <1>1, <1>4, <2>1, SameMap DEF MapInv, OnItsPage
<1> QED
  BY <1>1, <1>2, <1>4, <1>6, <1>7, <1>8 DEF MapInv

LEMMA MapPerformKeeps ==
  ASSUME run \in Runs, MapInv, MapPerform
  PROVE  MapInv'
<1> DEFINE all   == site.controls[tab.page.url]
           wanted == {i \in Places(tab.page) : all[i].name = candidate.action.label}
           found == Those(all, wanted)
<1>1. /\ mapping = "perform" /\ mapping' = "capture" /\ ranFrom' = captureState(tab.page)
      /\ IF candidate.action.type = "navigate" THEN Goto(tab, candidate.action.to)
         ELSE /\ losses' = losses
              /\ tab' = IF found = <<>> THEN tab ELSE Act(tab, Head(found))
      /\ UNCHANGED <<run, graph, frontier, candidate>>
      /\ ScoutTab(tab) /\ Explored /\ losses \in Nat /\ IsQueue(frontier, Waiting)
      /\ candidate \in Waiting
  BY DEF MapPerform, MapInv, Mapped
<1>2. IsPage(tab.page) /\ ranFrom'.url = tab.page.url
  BY <1>1, CaptureSays DEF ScoutTab
<1>3. ASSUME found # <<>> PROVE IsOne(Head(found))
  <2>1. all \in Seq(Range(all)) /\ tab.page.url \in Urls
    BY <1>2, AppSays DEF IsPage
  <2> HIDE DEF wanted
  <2>2. found \in Seq(Range(all)) /\ \A k \in DOMAIN found : \E i \in DOMAIN all : found[k] = all[i]
    BY <2>1, ThoseSays
  <2> HIDE DEF found
  <2>3. 1 \in DOMAIN found /\ Head(found) = found[1]
    BY <1>3, <2>2
  <2> QED
    BY <2>1, <2>2, <2>3, JobsAre
<1> HIDE DEF found
<1>4. ScoutTab(tab') /\ losses' \in Nat /\ losses' >= losses
  <2>1. CASE candidate.action.type = "navigate"
    <3>1. candidate.action.to \in Urls
      BY <1>1, <2>1, JobsAre DEF Waiting
    <3> QED
      BY <1>1, <2>1, <3>1, ScoutGoes
  <2>2. CASE candidate.action.type # "navigate"
    BY <1>1, <1>3, <2>2, ScoutActs
  <2> QED
    BY <2>1, <2>2
<1>5. Explored' /\ Waiting' = Waiting /\ IsQueue(frontier, Waiting)'
  BY <1>1, GraphStays
<1>6. ScoutTab(tab)'
  BY <1>1, <1>4, SameRun DEF ScoutTab, Unwired, IsPage
<1>7. (losses = 0 /\ Prompt => OnItsPage)'
  <2>1. losses' = 0 => losses = 0
    BY <1>1, <1>4
  <2> QED
    BY <1>1, <1>2, <2>1, SameMap DEF MapInv, OnItsPage
<1> QED
  BY <1>1, <1>4, <1>5, <1>6, <1>7 DEF MapInv

LEMMA MapCaptureKeeps ==
  ASSUME run \in Runs, MapInv, MapCapture
  PROVE  MapInv'
<1> DEFINE from  == candidate.from
           to    == captureState(tab.page)
           edge  == [from |-> from, to |-> to, action |-> candidate.action, ran |-> ranFrom]
           grown == addState(graph, to)
           new   == addEdge(grown, edge)
<1>1. /\ mapping = "capture" /\ mapping' = "pop" /\ UNCHANGED <<run, tab, losses>>
      /\ IF to = from THEN graph' = grown /\ UNCHANGED <<frontier, scheduled>>
         ELSE graph' = new /\ scheduleNode(to, tab.page)
      /\ ScoutTab(tab) /\ Explored /\ losses \in Nat /\ IsQueue(frontier, Waiting)
      /\ candidate \in Waiting
  BY DEF MapCapture, MapInv, Mapped
<1>2. IsPage(tab.page) /\ IsSnapshot(to)
  BY <1>1, CaptureSays DEF ScoutTab
<1> HIDE DEF to
<1>3. from \in Range(graph.nodes)
  BY <1>1 DEF Waiting
<1> HIDE DEF from
<1>4. ScoutTab(tab)'
  BY <1>1, SameRun DEF ScoutTab, Unwired, IsPage
<1>5. CASE to = from
  <2>1. Contains(graph.nodes, to)
    BY <1>3, <1>5 DEF Contains, Range
  <2>2. UNCHANGED <<graph, frontier>>
    BY <1>1, <1>5, <2>1 DEF addState
  <2>3. Explored' /\ IsQueue(frontier, Waiting)'
    BY <1>1, <2>2, GraphStays
  <2>4. (losses = 0 /\ Prompt => OnItsPage)'
    BY <1>1, <2>2, SameMap DEF MapInv, OnItsPage
  <2> QED
    BY <1>1, <1>4, <2>3, <2>4 DEF MapInv
<1>6. CASE to # from
  <2> DEFINE Items == [from : Range(new.nodes), action : Acts]
  <2>1. /\ edge.from = from /\ edge.to = to /\ edge.ran = ranFrom
        /\ graph' = new /\ scheduleNode(to, tab.page) /\ new = addEdge(addState(graph, edge.to), edge)
    BY <1>1, <1>6
  <2> HIDE DEF edge, new, grown
  <2>2. /\ IsGraph(new) /\ Range(new.nodes) = Range(graph.nodes) \cup {to}
        /\ Range(new.edges) = Range(graph.edges) \cup {edge}
    BY <1>1, <1>3, <2>1, GrownIsGraph DEF Explored
  <2>3. new.nodes # <<>>
    BY <2>2 DEF Range
  <2>4. Waiting \subseteq Items /\ [from : {to}, action : Acts] \subseteq Items
    BY <2>2 DEF Waiting
  <2>5. Waiting' = Items
    BY <1>1, <2>1, SameMap DEF Waiting
  <2> HIDE DEF Items
  <2>6. IsQueue(frontier, Items)
    BY <1>1, <2>4, MoreItems
  <2>7. IsQueue(frontier', Items)
    BY <1>2, <2>1, <2>4, <2>6, ScheduleSays
  <2>8. IsQueue(frontier, Waiting)'
    BY <2>5, <2>7 DEF IsQueue
  <2>9. Explored'
    BY <1>1, <1>2, <2>1, <2>2, <2>3, SameMap DEF Explored
  <2>10. (losses = 0 /\ Prompt => OnItsPage)'
    BY <1>1, <2>1, <2>2, SameMap DEF MapInv, OnItsPage, from
  <2> QED
    BY <1>1, <1>4, <2>8, <2>9, <2>10 DEF MapInv
<1> QED
  BY <1>5, <1>6

LEMMA ScoutKeepsMap ==
  ASSUME CrawlInv, MapInv, Scout
  PROVE  MapInv'
BY ScoutOpenKeeps, ScoutFailsKeeps, MapRootKeeps, MapPopKeeps, MapPerformKeeps, MapCaptureKeeps,
   MapEndKeeps DEF Scout, MapStep, CrawlInv, Placed

\* A mission begins when the scout is done, and counts the loads that fail.
LEMMA MissionSays ==
  ASSUME CrawlInv, losses \in Nat, Mission
  PROVE  Mapped /\ losses' \in Nat /\ losses' >= losses
<1>1. Mapped
  <2> SUFFICES ASSUME walking = "boot" PROVE Mapped
    BY DEF CrawlInv, Placed
  <2>1. ~(Seed \/ Begin \/ WalkStep)
    BY DEF Seed, Begin, WalkStep, WalkRoute, WalkQuery, WalkSkip, WalkLink, WalkAct,
           WalkReload, WalkAfter, WalkPassEnd, Finish, Route
  <2>2. ~(KeyStep \/ LookStep \/ FuzzStep)
    BY DEF KeyStep, KeyRoute, KeyBlur, KeyTab, KeyPageEnd, KeyGone, KeyPass, KeyAct, KeyAfter,
           LookStep, LookRoute, LookLinks, Finish, Route, FuzzStep, FuzzHome, FuzzScroll,
           FuzzFill, FuzzClick, FuzzHover, FuzzKey, FuzzEnd, FuzzThrows, Turn
  <2>3. ~StormStep
    BY StormSays DEF StormStep, StormStart, StormResources, StormLinks, StormSend, StormEnd
  <2> QED
    BY <2>1, <2>2, <2>3 DEF Mission, Boot
<1>2. \A t, u : Goto(t, u) => losses' = losses \/ losses' = losses + 1
  BY DEF Goto
<1>3. Boot \/ Seed \/ Begin => losses' = losses \/ losses' = losses + 1
  BY <1>2 DEF Boot, Seed, Begin
<1>4. WalkStep => losses' = losses \/ losses' = losses + 1
  BY <1>2 DEF WalkStep, WalkRoute, WalkQuery, WalkSkip, WalkLink, WalkAct, WalkReload, WalkAfter,
              WalkPassEnd, Finish, Route, Unchanged
<1>5. KeyStep => losses' = losses \/ losses' = losses + 1
  BY <1>2 DEF KeyStep, KeyRoute, KeyBlur, KeyTab, KeyPageEnd, KeyGone, KeyPass, KeyAct, KeyAfter,
              Finish, Route, Unchanged
<1>6. LookStep \/ FuzzStep => losses' = losses \/ losses' = losses + 1
  BY <1>2 DEF LookStep, LookRoute, LookLinks, Finish, Route, Unchanged, FuzzStep, FuzzHome, FuzzScroll,
              FuzzFill, FuzzClick, FuzzHover, FuzzKey, FuzzEnd, FuzzThrows, Turn
<1>7. StormStep => losses' = losses \/ losses' = losses + 1
  BY <1>2 DEF StormStep, StormStart, StormResources, StormLinks, StormSend, StormEnd
<1>8. losses' = losses \/ losses' = losses + 1
  BY <1>3, <1>4, <1>5, <1>6, <1>7 DEF Mission
<1> QED
  BY <1>1, <1>8

\* Whatever leaves the mapper alone.
LEMMA OthersKeepMap ==
  ASSUME MapInv, UNCHANGED <<run, mapVars>>, losses' \in Nat, losses' >= losses,
         Mapped \/ (ScoutTab(tab') /\ (Prompt => tab' = tab))
  PROVE  MapInv'
<1>1. UNCHANGED <<graph, frontier, candidate, ranFrom, mapping>> /\ Mapped' = Mapped
  BY DEF mapVars, Mapped
<1>2. IsQueue(frontier, Waiting)' /\ (Explored => Explored') /\ Waiting' = Waiting
  BY <1>1, GraphStays DEF MapInv
<1>3. (~Mapped => ScoutTab(tab))'
  BY <1>1, SameRun DEF ScoutTab, Unwired, IsPage
<1>4. (losses = 0 /\ Prompt => OnItsPage)'
  <2>1. losses' = 0 => losses = 0
    BY DEF MapInv
  <2>2. mapping = "perform" => ~Mapped
    BY DEF Mapped
  <2> QED
    BY <1>1, <2>1, <2>2, SameMap DEF MapInv, OnItsPage
<1> QED
  BY <1>1, <1>2, <1>3, <1>4 DEF MapInv

LEMMA HangKeepsMap ==
  ASSUME CrawlInv, MapInv, Hang
  PROVE  MapInv'
<1>1. UNCHANGED <<run, tab, losses, graph, frontier, scheduled, candidate, ranFrom>>
  BY DEF Hang
<1>2. CASE mapping' = "hung" /\ mapping \in {"root", "capture"}
  <2>1. ~Mapped /\ ~Mapped'
    BY <1>2 DEF Mapped
  <2>2. IsQueue(frontier, Waiting)'
    BY <1>1, GraphStays DEF MapInv
  <2>3. (ScoutTab(tab))'
    BY <1>1, <2>1, SameMap DEF MapInv
  <2>4. (losses = 0 /\ Prompt => OnItsPage)'
    BY <1>1, <1>2, SameMap DEF MapInv, OnItsPage
  <2> QED
    BY <1>1, <1>2, <2>1, <2>2, <2>3, <2>4 DEF MapInv
<1>3. CASE UNCHANGED mapping
  <2>1. UNCHANGED <<run, mapVars, tab, losses>>
    BY <1>1, <1>3 DEF mapVars
  <2> QED
    BY <2>1, OthersKeepMap DEF MapInv
<1> QED
  BY <1>2, <1>3 DEF Hang

LEMMA MapKept ==
  ASSUME CrawlInv, MapInv, [Next]_vars
  PROVE  MapInv'
<1>1. losses \in Nat /\ (~Mapped => ScoutTab(tab))
  BY DEF MapInv
<1>2. CASE UNCHANGED vars
  <2>1. UNCHANGED <<run, mapVars, tab, losses>>
    BY <1>2 DEF vars
  <2> QED
    BY <1>1, <2>1, OthersKeepMap
<1>3. CASE Scout
  BY <1>3, ScoutKeepsMap
<1>4. CASE Mission
  <2>1. run' = run
    BY <1>4 DEF Mission, Boot, Seed, Begin, Enter, WalkStep, WalkRoute, WalkQuery, WalkSkip, WalkLink,
                WalkAct, WalkReload, WalkAfter, WalkPassEnd, KeyStep, KeyRoute, KeyBlur, KeyTab,
                KeyPageEnd, KeyGone, KeyPass, KeyAct, KeyAfter, LookStep, LookRoute, LookLinks, Finish,
                Route, Unchanged, FuzzStep, FuzzHome, FuzzScroll, FuzzFill, FuzzClick, FuzzHover,
                FuzzKey, FuzzEnd, FuzzThrows, Turn, StormStep, StormStart, StormResources, StormLinks,
                StormSend, StormEnd
  <2>2. UNCHANGED mapVars
    BY <1>4 DEF Mission
  <2> QED
    BY <1>1, <1>4, <2>1, <2>2, MissionSays, OthersKeepMap
<1>5. CASE Late
  <2>1. Arrive /\ UNCHANGED <<run, mapVars, losses>>
    BY <1>5 DEF Late, Arrive
  <2> QED
    BY <1>1, <2>1, ScoutArrives, OthersKeepMap
<1>6. CASE Hang
  BY <1>6, HangKeepsMap
<1> QED
  BY <1>2, <1>3, <1>4, <1>5, <1>6 DEF Next, Over

LEMMA MapStarts ==
  ASSUME Init
  PROVE  MapInv
<1> DEFINE t == NewTab("blank", FALSE)
<1>1. /\ tab = t /\ losses = 0 /\ graph = EmptyGraph /\ frontier = EmptyQueue /\ run \in Runs
      /\ mapping \in {"open", "off"}
  BY DEF Init, MapInit
<1>2. DOMAIN t = Fields /\ ~t.wired /\ t.trace = <<>> /\ t.coming = Nothing /\ IsPage(t.page)
  BY <1>1, AppSays DEF NewTab, Fields, IsPage
<1> HIDE DEF t
<1>3. ScoutTab(tab)
  BY <1>1, <1>2 DEF ScoutTab, Unwired
<1>4. IsQueue(frontier, Waiting)
  BY <1>1, EmptyIsQueue
<1>5. Range(graph.edges) = {}
  BY <1>1 DEF EmptyGraph, Range
<1> QED
  BY <1>1, <1>3, <1>4, <1>5 DEF MapInv, OnItsPage

LEMMA MapSays ==
  ASSUME MapInv
  PROVE  GraphIsSound
<1>1. RiskiestFirst
  BY TopOfQueue DEF MapInv, RiskiestFirst
<1>2. KillChainLeads
  BY KillChainSays DEF MapInv, Explored, KillChainLeads
<1>3. SeedIsRichest
  BY RichestSays DEF MapInv, Explored, SeedIsRichest
<1>4. EdgesRunOnTheirPage
  BY DEF MapInv, OnItsPage, EdgesRunOnTheirPage, Range
<1> QED
  BY <1>1, <1>2, <1>3, <1>4 DEF GraphIsSound

-----------------------------------------------------------------------------
(* The theorems.                                                            *)

\* The last of the numbers with a property below a bound.
LEMMA LastIsMax ==
  ASSUME NEW i \in Nat, NEW moves, moves \subseteq 1 .. i, NEW k \in moves,
         \A m \in k + 1 .. i : m \notin moves
  PROVE  Max(moves) = k
<1>1. \A m \in moves : k >= m
  OBVIOUS
<1>2. \A x \in moves : (\A y \in moves : x >= y) => x = k
  BY <1>1
<1> QED
  BY <1>1, <1>2 DEF Max

LEMMA SaysItsPage ==
  ASSUME NEW i \in 1 .. Len(tab.trace), Says(tab.trace, i, tab.trace[i].on, tab.shifted)
  PROVE  LET moves == {k \in 1 .. i : tab.trace[k].type = "navigate"} IN
         IF moves = {} THEN tab.shifted \/ tab.trace[i].on = "blank"
         ELSE tab.trace[Max(moves)].what = tab.trace[i].on
<1> DEFINE moves == {k \in 1 .. i : tab.trace[k].type = "navigate"}
<1>1. CASE \E k \in 1 .. i : /\ tab.trace[k].type = "navigate" /\ tab.trace[k].what = tab.trace[i].on
                             /\ \A m \in k + 1 .. i : tab.trace[m].type # "navigate"
  <2>1. PICK k \in 1 .. i : /\ tab.trace[k].type = "navigate" /\ tab.trace[k].what = tab.trace[i].on
                            /\ \A m \in k + 1 .. i : tab.trace[m].type # "navigate"
    BY <1>1
  <2>2. i \in Nat /\ moves \subseteq 1 .. i /\ k \in moves /\ \A m \in k + 1 .. i : m \notin moves
    BY <2>1
  <2> HIDE DEF moves
  <2>3. Max(moves) = k
    BY <2>2, LastIsMax
  <2>4. IF moves = {} THEN tab.shifted \/ tab.trace[i].on = "blank"
        ELSE tab.trace[Max(moves)].what = tab.trace[i].on
    BY <2>1, <2>2, <2>3
  <2> QED
    BY <2>4 DEF moves
<1>2. CASE /\ \A k \in 1 .. i : tab.trace[k].type # "navigate"
           /\ tab.shifted \/ tab.trace[i].on = "blank"
  BY <1>2
<1> QED
  BY <1>1, <1>2 DEF Says

LEMMA TraceFollows ==
  ASSUME CrawlInv, Quiet
  PROVE  TraceSaysItsPage
<1>1. CASE walking = "boot"
  <2>1. DOMAIN tab.trace = {}
    BY <1>1 DEF Quiet, Unwired
  <2> QED
    BY <2>1 DEF TraceSaysItsPage
<1>2. CASE walking # "boot"
  <2>1. Tells(tab)
    BY <1>2 DEF CrawlInv, Placed, TabInv
  <2>2. DOMAIN tab.trace = 1 .. Len(tab.trace)
    BY <2>1 DEF Tells
  <2> QED
    BY <2>1, <2>2, SaysItsPage DEF Tells, TraceSaysItsPage
<1> QED
  BY <1>1, <1>2

LEMMA NothingMissed ==
  ASSUME CrawlInv
  PROVE  NothingIsMissed
<1> USE DEF CrawlInv
<1>1. ControlsAreTried
  <2> SUFFICES ASSUME walking = "handle", PassOver, pass = 0, actions < budget, Prompt,
                      NEW c \in Range(Visible(tab.page)), c.kind \in {"button", "text"}, ~Denied(c)
               PROVE  c.sign \in seen
    BY DEF ControlsAreTried
  <2>1. run \in Runs /\ IsPage(tab.page) /\ scan.list = Visible(tab.page) /\ hi \in Nat
    BY DEF Placed, TabInv, Expects, Scanned, Alive
  <2>2. scan.list \in Seq(Range(site.controls[tab.page.url]))
    BY <2>1, VisibleSays
  <2>3. hi > Len(scan.list)
    BY <2>1, AppSays DEF PassOver, Placed
  <2>4. PICK j \in DOMAIN scan.list : scan.list[j] = c
    BY <2>1 DEF Range
  <2>5. j < hi
    BY <2>1, <2>2, <2>3, <2>4
  <2> QED
    BY <2>4, <2>5 DEF Tried
<1>2. LinksAreFollowed
  <2>1. actions \in Nat /\ budget \in Nat
    BY AppSays DEF Placed
  <2> QED
    BY <2>1 DEF LinksAreFollowed, Owes
<1>3. EndpointsAreTried
  <2>1. ASSUME storm.at = "over", storm.sent < budget, run.allowed, run.http, folded, Prompt,
               ~run.dryRun, walking = "done", NEW m \in Range(tab.issued), MayAsk(m.path)
        PROVE  Asked(m.path)
    <3>1. PICK i \in DOMAIN tab.issued : tab.issued[i] = m
      BY DEF Range
    <3> QED
      BY <2>1, <3>1 DEF StormOwes
  <2> QED
    BY <2>1 DEF EndpointsAreTried, Asked, StormRuns
<1>4. StormIsTame
  BY StormSays DEF StormIsTame, Allowed, Targets, mutations, folded
<1> QED
  BY <1>1, <1>2, <1>3, <1>4 DEF NothingIsMissed

LEMMA CrawlInvHolds == Spec => [](CrawlInv /\ Quiet)
<1>1. Init => CrawlInv /\ Quiet
  <2> DEFINE t == NewTab("blank", FALSE)
  <2>1. DOMAIN t = Fields /\ ~t.wired /\ t.trace = <<>>
    BY DEF NewTab, Fields
  <2>2. Init => tab = t
    BY DEF Init
  <2> HIDE DEF t
  <2> QED
    BY <2>1, <2>2, InitHolds DEF Quiet, Unwired
<1>2. CrawlInv /\ Quiet /\ [Next]_vars => (CrawlInv /\ Quiet)'
  BY NextHolds, QuietKept
<1> QED
  BY <1>1, <1>2, PTL DEF Spec

\* Whatever an app does and however late, and whichever loads fail, each action
\* of a recording is preceded by the navigation to the page it was on, or the
\* buffer has shifted that one out: what agent.ts's listener and recorder.ts's
\* ring make of it.
THEOREM TraceSaysItsPageHolds == Spec => []TraceSaysItsPage
<1>1. CrawlInv /\ Quiet => TraceSaysItsPage
  BY TraceFollows
<1> QED
  BY <1>1, CrawlInvHolds, PTL

\* Whatever the app, the behaviour, its options and the bounds: the first pass
\* of walkDom has acted on every control that shows by then or on one with its
\* selectors, a crawl that ends within its budget has asked for every page it met
\* a link to, and a storm has tried every endpoint the page asked for and none
\* that the options rule out.
THEOREM NothingIsMissedHolds == Spec => []NothingIsMissed
<1>1. CrawlInv /\ Quiet => NothingIsMissed
  BY NothingMissed
<1> QED
  BY <1>1, CrawlInvHolds, PTL

LEMMA MapInvHolds == Spec => []MapInv
<1>1. Init => MapInv
  BY MapStarts
<1>2. CrawlInv /\ MapInv /\ [Next]_vars => MapInv'
  BY MapKept
<1> QED
  BY <1>1, <1>2, CrawlInvHolds, PTL DEF Spec

\* Whatever the app, its risks and the bounds, and whichever loads fail: the
\* queue of mapper.ts gives out the candidate that smells most of risk, the
\* oldest of those; the kill chain of every state leads from the root to it;
\* swarmDetect's search meets every state there is, so that the seed is the
\* richest of all; and an edge was walked on the page it starts from.
THEOREM GraphIsSoundHolds == Spec => []GraphIsSound
<1>1. MapInv => GraphIsSound
  BY MapSays
<1> QED
  BY <1>1, MapInvHolds, PTL

=============================================================================
