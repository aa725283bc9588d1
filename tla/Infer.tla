------------------------------- MODULE Infer --------------------------------
(***************************************************************************)
(* Rules a program text states (core/discovery/infer.ts): a comparison     *)
(* with a number that sets another number, and a table of the moves a      *)
(* state machine allows.  A line of a text is one of                       *)
(*   [is |-> "const", name, value]                                         *)
(*   [is |-> "rule", name, op, const, value, sets]    const "": a literal  *)
(*   [is |-> "row", name, key, kind, items]           a row of table name  *)
(*   [is |-> "other"]                                                      *)
(***************************************************************************)
EXTENDS Evidence, FiniteSets

NoTable == [name |-> "", form |-> "", states |-> <<>>, edges |-> {}]

\* What makes two statements the same rule: its id.
Threshold(name, op, value, sets) ==
  [family |-> "numeric", name |-> name, op |-> op, value |-> value, sets |-> sets,
   from |-> "", intent |-> ""]
Stays(name, from, intent) ==
  [family |-> "transition", name |-> name, op |-> "==", value |-> 0, sets |-> 0,
   from |-> from, intent |-> intent]
Candidate(rule, table, chunk) ==
  [rule |-> rule, table |-> table, source |-> chunk.source,
   changed |-> chunk.source = "git_diff", seenIn |-> {chunk.source}]

LinesThat(text, is, name) == {j \in DOMAIN text : text[j].is = is /\ text[j].name = name}

\* A rule read from a diff comes from the change: one of its lines is new.
Counts(chunk, lines) == chunk.source # "git_diff" \/ lines \cap chunk.changed # {}

-----------------------------------------------------------------------------
(* Threshold rules. A constant nobody declares is no evidence of a number. *)

ConstLine(text, name) == Max(LinesThat(text, "const", name) \cup {0})
Resolved(text, j) == text[j].const = "" \/ ConstLine(text, text[j].const) > 0
ValueAt(text, j) == IF text[j].const = "" THEN text[j].value
                    ELSE text[ConstLine(text, text[j].const)].value
LinesOfRule(text, j) == {j} \cup (IF text[j].const = "" THEN {} ELSE {ConstLine(text, text[j].const)})

ThresholdCandidates(chunk) ==
  LET text  == chunk.text
      rules == {j \in DOMAIN text : text[j].is = "rule"}
      lines == InOrder({j \in rules : Resolved(text, j) /\ Counts(chunk, LinesOfRule(text, j))}, text)
      Of(j) == Candidate(Threshold(text[j].name, text[j].op, ValueAt(text, j), text[j].sets), NoTable, chunk)
  IN  [n \in DOMAIN lines |-> Of(lines[n])]

-----------------------------------------------------------------------------
(* Transition tables: an item of a row is [event, to]; in a list the event  *)
(* is the state itself.                                                      *)

RowsOf(text, name) == Those(text, LinesThat(text, "row", name))

Forms(rows) == {IF rows[n].kind = "obj" THEN "action-map" ELSE "successor-list" :
                  n \in {m \in DOMAIN rows : rows[m].items # {}}}

\* It says so by its structure: only objects or only lists of its own rows.
IsTable(rows) ==
  /\ Len(rows) >= 2
  /\ \A n \in DOMAIN rows : rows[n].kind \in {"obj", "arr"}
  /\ Cardinality(Forms(rows)) = 1
  /\ \A n \in DOMAIN rows : \A it \in rows[n].items : \E m \in DOMAIN rows : rows[m].key = it.to

AsTransitionTable(name, rows) ==
  [name |-> name, form |-> CHOOSE f \in Forms(rows) : TRUE,
   states |-> [n \in DOMAIN rows |-> rows[n].key],
   edges |-> UNION {{[from |-> rows[n].key, intent |-> it.event, next |-> it.to] : it \in rows[n].items} :
                      n \in DOMAIN rows}]

\* The moves a row leaves out: events of other rows, or other states.
LeftOut(table, s) ==
  LET own == {e \in table.edges : e.from = s}
  IN  IF table.form = "action-map" THEN {e.intent : e \in table.edges} \ {e.intent : e \in own}
      ELSE ToSet(table.states) \ ({s} \cup {e.next : e \in own})

TableCandidates(chunk, name) ==
  LET rows  == RowsOf(chunk.text, name)
      table == AsTransitionTable(name, rows)
      Row(j) == LET s == chunk.text[j].key
                    moves == SetToSeq(LeftOut(table, s))
                IN  [n \in DOMAIN moves |-> Candidate(Stays(name, s, moves[n]), table, chunk)]
      lines == InOrder({j \in LinesThat(chunk.text, "row", name) : Counts(chunk, {j})}, chunk.text)
  IN  IF IsTable(rows) THEN FlattenSeq([n \in DOMAIN lines |-> Row(lines[n])]) ELSE <<>>

TransitionCandidates(chunk) ==
  LET names == SetToSeq({chunk.text[j].name : j \in {m \in DOMAIN chunk.text : chunk.text[m].is = "row"}})
  IN  FlattenSeq([n \in DOMAIN names |-> TableCandidates(chunk, names[n])])

-----------------------------------------------------------------------------
(* The same rule stated in several places is one candidate: the copy of the *)
(* source with the highest priority, which knows where else it was seen.     *)

\* inferCandidates: within a chunk the first stays.
InferCandidates(chunk) ==
  LET all == ThresholdCandidates(chunk) \o TransitionCandidates(chunk)
  IN  Those(all, {n \in DOMAIN all : \A m \in 1 .. n - 1 : all[m].rule # all[n].rule})

\* Variant: the copy that was read first stays the primary one.
KeepFirst(prior, c) == [prior EXCEPT !.seenIn = @ \cup c.seenIn]

Keep(prior, c) ==
  IF Priority[c.source] > Priority[prior.source] THEN [c EXCEPT !.seenIn = @ \cup prior.seenIn]
  ELSE [prior EXCEPT !.seenIn = @ \cup c.seenIn]

Merge(known, c) ==
  LET same == {n \in DOMAIN known : known[n].rule = c.rule}
  IN  IF same = {} THEN Append(known, c) ELSE [known EXCEPT ![Min(same)] = Keep(@, c)]

\* What is known after each candidate.
Merged(read) ==
  LET known[n \in 0 .. Len(read)] == IF n = 0 THEN <<>> ELSE Merge(known[n - 1], read[n])
  IN  known[Len(read)]

\* What is read from the change comes first.
InferFromEvidence(chunks) ==
  LET all == Merged(FlattenSeq([n \in DOMAIN chunks |-> InferCandidates(chunks[n])]))
      fromChange == {n \in DOMAIN all : all[n].changed}
  IN  Those(all, fromChange) \o Those(all, DOMAIN all \ fromChange)
=============================================================================
