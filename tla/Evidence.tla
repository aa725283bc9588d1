------------------------------ MODULE Evidence ------------------------------
(***************************************************************************)
(* The program text rules are read from (core/discovery/evidence.ts): what *)
(* the page serves, the code files of the repository, and the files a git  *)
(* diff touched.  A text is a sequence of lines, and a line a record: see  *)
(* Infer.  Each source has its own cap.                                    *)
(***************************************************************************)
EXTENDS Integers, SequencesExt, FiniteSetsExt

CONSTANTS MaxScripts, MaxDiffFiles, MaxRepoFiles

ASSUME CapsAssumption == {MaxScripts, MaxDiffFiles, MaxRepoFiles} \subseteq Nat

\* Whose copy of a rule is the primary one.
Priority == [git_diff |-> 3, repo_source |-> 2, served_js |-> 1]

Chunk(source, file, text) ==
  [source |-> source, file |-> file, text |-> text, changed |-> {}]
DiffChunk(file, text, lines) ==
  [source |-> "git_diff", file |-> file, text |-> text, changed |-> lines]
FirstOf(s, n) == SubSeq(s, 1, Min({n, Len(s)}))

\* The elements of a list at some of its places, in order; and those places.
Those(s, places) ==
  LET kept[n \in 0 .. Len(s)] ==
        IF n = 0 THEN <<>>
        ELSE IF n \in places THEN Append(kept[n - 1], s[n]) ELSE kept[n - 1]
  IN  kept[Len(s)]
InOrder(places, s) == Those([j \in DOMAIN s |-> j], places)

-----------------------------------------------------------------------------
(* served_js: scripts of the page, in document order. *)

\* Inline code, then what looks like the application's, then libraries.
ServedOrder(scripts) ==
  LET Of(kind) == Those(scripts, {j \in DOMAIN scripts : scripts[j].kind = kind})
  IN  Of("inline") \o Of("app") \o Of("vendor")

\* A script of another origin is passed over and takes no room; one that is
\* blank or does not load takes room and gives nothing.
ServedJs(scripts) ==
  LET all  == ServedOrder(scripts)
      own  == FirstOf(Those(all, {j \in DOMAIN all : all[j].kind = "inline" \/ all[j].sameOrigin}), MaxScripts)
      read == Those(own, {j \in DOMAIN own : own[j].loads})
  IN  [j \in DOMAIN read |-> Chunk("served_js", read[j].file, read[j].text)]

-----------------------------------------------------------------------------
(* repo_source and git_diff: a repository is its files by name, the order a *)
(* walk meets them in, what git answers and the lines of its diff.          *)

IsCode(repo, f) == repo.files[f].code /\ repo.files[f].readable

RepoSource(repo) ==
  LET code == FirstOf(Those(repo.walk, {j \in DOMAIN repo.walk : IsCode(repo, repo.walk[j])}), MaxRepoFiles)
  IN  [j \in DOMAIN code |-> Chunk("repo_source", code[j], repo.files[code[j]].text)]

\* One line of a unified diff. Only additions count; "+++" inside a hunk is an
\* added line like any other.
ParseStep(s, raw) ==
  CASE raw.is = "diff" -> [s EXCEPT !.open = FALSE, !.inHunk = FALSE]
    [] raw.is = "+++" /\ ~s.inHunk /\ raw.file = "/dev/null" -> [s EXCEPT !.open = FALSE]
    [] raw.is = "+++" /\ ~s.inHunk /\ raw.file # "/dev/null" ->
         [s EXCEPT !.open = TRUE, !.files = Append(@, [file |-> raw.file, added |-> {}])]
    [] raw.is = "@@" -> [s EXCEPT !.line = raw.at, !.inHunk = TRUE]
    [] raw.is \in {"+", "+++"} /\ s.inHunk /\ s.open ->
         [s EXCEPT !.line = @ + 1, !.files[Len(s.files)].added = @ \cup {s.line}]
    [] raw.is = " " /\ s.inHunk /\ s.open -> [s EXCEPT !.line = @ + 1]
    [] OTHER -> s

ParseUnifiedDiff(raws) ==
  FoldLeft(ParseStep, [files |-> <<>>, open |-> FALSE, line |-> 0, inHunk |-> FALSE], raws).files

\* A file git does not track yet is new in every line.
Untracked(repo, tracked) ==
  LET new == SelectSeq(repo.untracked, LAMBDA f :
               IsCode(repo, f) /\ \A j \in DOMAIN tracked : tracked[j].file # f)
  IN  [j \in DOMAIN new |-> [file |-> new[j], added |-> DOMAIN repo.files[new[j]].text]]

GitDiff(repo) ==
  LET tracked == SelectSeq(ParseUnifiedDiff(repo.diff), LAMBDA f : f.added # {})
      changed == tracked \o (IF repo.listsUntracked THEN Untracked(repo, tracked) ELSE <<>>)
      code    == FirstOf(SelectSeq(changed, LAMBDA f : IsCode(repo, f.file)), MaxDiffFiles)
  IN  IF ~repo.git THEN [status |-> "unavailable", chunks |-> <<>>]
      ELSE [status |-> IF code = <<>> THEN "empty" ELSE "ok",
            chunks |-> [j \in DOMAIN code |->
                          DiffChunk(code[j].file, repo.files[code[j].file].text, code[j].added)]]

\* What a run asked for: the diff first.
LocalEvidence(repo, req) ==
  (IF req.diff THEN GitDiff(repo).chunks ELSE <<>>) \o (IF req.repo THEN RepoSource(repo) ELSE <<>>)
=============================================================================
