-------------------------------- MODULE Storm --------------------------------
(***************************************************************************)
(* Requests to the API of the app, from outside the browser                *)
(* (src/src/core/httpFuzzer.ts, httpFuzz): a behaviour of its own, or, with *)
(* --http-fuzz, what a mission does last on its page (agent.ts), told of   *)
(* every URL the page has asked for.                                       *)
(*                                                                         *)
(* A URL is a path and whether it has a query.  A request is a path and    *)
(* its kind: one of "rewrite" (the query's own keys), "append" (others),   *)
(* "post", "put" and "headers" stands for all of that kind.                *)
(***************************************************************************)
EXTENDS Fuzzer

VARIABLE storm
\*  at      where it is
\*  found   the endpoints, each path with the query it was first seen with
\*  rest    requests to make, sent: made
\*  asked, broken   observation only: requests that left, and those that are
\*          findings, with the last action of their history

folded    == run.kind # "storm"
mutations == run.mutations \/ ~folded

StormInit ==
  storm = [at |-> IF run.http \/ ~folded THEN "wait" ELSE "over",
           found |-> <<>>, rest |-> <<>>, sent |-> 0, asked |-> {}, broken |-> {}]

\* The app's own, with a server behind it, and harmless as far as its path says.
Eligible(m) ==
  /\ OwnOrigin(m)
  /\ m.path \notin site.static
  /\ run.allowDestructive \/ m.path \notin site.risky

\* One endpoint a path: the first URL of it stays.
collect(found, urls) ==
  LET met(path) == {i \in DOMAIN urls : Eligible(urls[i]) /\ urls[i].path = path}
      all       == {urls[i].path : i \in {k \in DOMAIN urls : Eligible(urls[k])}}
  IN  [path \in DOMAIN found \cup all |->
         IF path \in DOMAIN found THEN found[path] ELSE urls[Min(met(path))].query]

seedUrls == tab.issued

\* The requests for the endpoints, those of one path next to each other.
buildRequests(paths, found) ==
  LET kinds == IF mutations THEN <<"own", "post", "put", "headers">> ELSE <<"own", "headers">>
      per   == Len(kinds)
      kind(path, k) == IF k # 1 THEN kinds[k] ELSE IF found[path] THEN "rewrite" ELSE "append"
  IN  [n \in 1 .. per * Len(paths) |->
         LET path == paths[1 + ((n - 1) \div per)]
         IN  [path |-> path, kind |-> kind(path, 1 + ((n - 1) % per))]]

\* A target that is not allowed gets nothing.  A storm of its own loads it.
StormStart ==
  /\ walking = "done" /\ storm.at = "wait"
  /\ IF ~run.allowed THEN storm' = [storm EXCEPT !.at = "over"] /\ UNCHANGED <<tab, losses>>
     ELSE /\ storm' = [storm EXCEPT !.at = "resources",
                                    !.found = IF folded THEN collect(@, seedUrls) ELSE @]
          /\ IF folded \/ run.dryRun THEN UNCHANGED <<tab, losses>>
             ELSE Goto(tab, site.start)

\* What the page is asked for it may not answer while it goes somewhere else.
Answered(urls) == {urls} \cup IF tab.coming # Nothing THEN {<<>>} ELSE {}

StormResources ==
  /\ storm.at = "resources"
  /\ \E urls \in Answered(tab.entries) :
       storm' = [storm EXCEPT !.at = "links", !.found = collect(@, urls)]
  /\ UNCHANGED <<tab, losses>>

\* Links and the root; then the requests, in the order of the paths.
StormLinks ==
  LET all   == site.controls[tab.page.url]
      links == Those(all, {i \in Places(tab.page) : all[i].kind \in {"link", "hash"}})
      hrefs == [k \in DOMAIN links |-> Url(site.base[links[k].to], FALSE)]
  IN
  /\ storm.at = "links"
  /\ \E urls \in Answered(hrefs) :
       LET found == collect(storm.found, Append(urls, Url("/", FALSE)))
           paths == Those(site.order, {i \in DOMAIN site.order : site.order[i] \in DOMAIN found})
       IN  storm' = [storm EXCEPT !.at = "send", !.found = found,
                       !.rest = buildRequests(paths, found)]
  /\ UNCHANGED <<tab, losses>>

\* A request is recorded, then sent.  One that gets no answer in time shows
\* nothing; an answer of 500 and above is a finding, with the recording so far.
StormSend ==
  LET request == Head(storm.rest)
      breaks  == <<request.path, request.kind>> \in site.breaks
      next    == [storm EXCEPT !.rest = Tail(@), !.sent = @ + 1]
  IN
  /\ storm.at = "send" /\ storm.rest # <<>> /\ storm.sent < budget
  /\ tab' = Record(tab, request.kind, request.path)
  /\ IF run.dryRun THEN storm' = next /\ UNCHANGED losses
     ELSE \/ /\ storm' = [next EXCEPT !.asked = @ \cup {request},
                            !.broken = IF breaks THEN @ \cup {[request |-> request,
                                                               last |-> Last(tab'.trace)]}
                                       ELSE @]
             /\ UNCHANGED losses
          \/ /\ losses < MaxLosses /\ losses' = losses + 1
             /\ storm' = [next EXCEPT !.asked = @ \cup {request}]

StormEnd ==
  /\ storm.at = "send" /\ (storm.rest = <<>> \/ storm.sent >= budget)
  /\ storm' = [storm EXCEPT !.at = "over"]
  /\ UNCHANGED <<tab, losses>>

StormStep ==
  /\ StormStart \/ StormResources \/ StormLinks \/ StormSend \/ StormEnd
  /\ UNCHANGED <<run, pressed, walkVars>>

-----------------------------------------------------------------------------
(* Properties.                                                              *)

\* The paths of the app that a storm under these options is about.
MayAsk(path) ==
  path \notin site.foreign \cup site.static
               \cup (IF run.allowDestructive THEN {} ELSE site.risky)

\* What the page had asked the app for by any way, a click that fetched
\* included, has been tried when a storm ends within its budget; and each
\* finding of it ends with the request that broke the server, although the
\* recording is full of others.
EndpointsAreTried ==
  /\ storm.at = "over" /\ storm.sent < budget /\ run.allowed /\ run.http /\ folded /\ Prompt
     /\ ~run.dryRun /\ walking = "done" =>
       \A m \in Range(tab.issued) : MayAsk(m.path) =>
         \E kind \in {"rewrite", "append"} : [path |-> m.path, kind |-> kind] \in storm.asked
  /\ \A b \in storm.broken : b.last.what = b.request.path /\ b.last.type = b.request.kind

\* Nothing leaves for an endpoint that the options rule out, and no more
\* requests than the budget has.
StormIsTame ==
  /\ storm.sent <= budget
  /\ \A r \in storm.asked :
       /\ run.allowed /\ ~run.dryRun /\ MayAsk(r.path)
       /\ r.kind \in {"post", "put"} => run.mutations \/ run.kind = "storm"

\* A crawl leaves nothing out that it could have come to, and a storm neither.
NothingIsMissed ==
  ControlsAreTried /\ LinksAreFollowed /\ EndpointsAreTried /\ StormIsTame

=============================================================================
