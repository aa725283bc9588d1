------------------------------ MODULE Entities ------------------------------
(***************************************************************************)
(* Which part of a page is one thing (core/discovery/entities.ts).  A page *)
(* is a sequence of the regions that show a state: [ent, state, vals],     *)
(* where vals are the values at the slots all of them share (ids, data     *)
(* attributes, links, texts) and ent is what the region is about, which    *)
(* only the reader of this model knows.                                    *)
(***************************************************************************)
EXTENDS Integers, SequencesExt, FiniteSetsExt

CONSTANT Slots   \* in order of rank: ids first, texts last

ASSUME SlotsAssumption == Slots \in Seq(STRING) /\ "" \notin ToSet(Slots)

MaxWitnesses == 3

\* 0, 1, 2 ... or 1, 2, 3 ..., or the reverse.
NumbersThePosition(vals) ==
  LET n == Len(vals) IN
  \/ vals[1] \in {0, 1} /\ \A j \in 1 .. n : vals[j] = vals[1] + j - 1
  \/ vals[1] \in {n - 1, n} /\ \A j \in 1 .. n : vals[j] = vals[1] - (j - 1)

ValuesAt(page, k) == [j \in DOMAIN page |-> page[j].vals[k]]

Identifies(page, k) == IsInjective(ValuesAt(page, k)) /\ ~NumbersThePosition(ValuesAt(page, k))
PickSlot(page) == {k \in DOMAIN Slots : Identifies(page, Slots[k])}

\* discover(): what the page is. Regions that are not alike are one thing only
\* when they agree.
Mode(page, alike) ==
  LET agree == Cardinality({page[j].state : j \in DOMAIN page}) = 1
  IN  IF page = <<>> THEN "none"
      ELSE IF Len(page) = 1 \/ (~alike /\ agree) THEN "single"
      ELSE IF ~alike \/ PickSlot(page) = {} THEN "ambiguous" ELSE "entities"

\* The identity of one repetition, under the first slot that will do; the next
\* ones are witnesses to check it against.
SpecOf(page, j) ==
  LET usable  == PickSlot(page)
      primary == Min(usable)
      wit     == {k \in usable \ {primary} : Cardinality({m \in usable : m < k}) <= MaxWitnesses}
      At(k)   == page[j].vals[Slots[k]]
  IN  [slot |-> Slots[primary], value |-> At(primary),
       witnesses |-> {<<Slots[k], At(k)>> : k \in wit}]
NoSpec == [slot |-> "", value |-> 0, witnesses |-> {}]

Agree(spec, row) == {w \in spec.witnesses : row.vals[w[1]] = w[2]}

\* Variant: the primary identity alone decides.
ResolveByPrimary(page, spec) ==
  LET byPrimary == {j \in DOMAIN page : page[j].vals[spec.slot] = spec.value}
  IN  IF Cardinality(byPrimary) = 1 THEN byPrimary ELSE {}

\* resolve(): the repetitions the identity stands for now, one or none. Every
\* slot is read again; a primary value must be vouched for, and its loss can be
\* made good by all the witnesses together.
Resolve(page, spec) ==
  LET byPrimary == {j \in DOMAIN page : page[j].vals[spec.slot] = spec.value}
      byAll     == {j \in DOMAIN page : Agree(spec, page[j]) = spec.witnesses}
      vouched   == {j \in byPrimary : spec.witnesses = {} \/ Agree(spec, page[j]) # {}}
  IN  IF Len(page) < 2 THEN {}
      ELSE IF Cardinality(byPrimary) = 1 THEN vouched
      ELSE IF byPrimary = {} /\ spec.witnesses # {} /\ Cardinality(byAll) = 1 THEN byAll
      ELSE {}
=============================================================================
