-------------------------------- MODULE Ingest --------------------------------
(***************************************************************************)
(* Uploads and the server that takes them.  A scan submits envelopes on    *)
(* the way (src/src/core/telemetry/index.ts, src/src/core/cloud/index.ts)  *)
(* and awaits them before it exits (src/src/cli.ts); the ingest server     *)
(* (src/server/index.ts) answers each request and keeps one JSON file per  *)
(* run and per fingerprint (src/server/store.ts).  One organisation.       *)
(***************************************************************************)
EXTENDS Naturals, Sequences, FiniteSets

CONSTANTS
  Scans,       \* CLI processes
  Script,      \* [Scans -> what each submits: a sequence of [kind, fps]]
  Registries,  \* what the server's keys may be: sets of scans it knows
  MaxCrashes   \* bound: crashes of the server

Kinds == {"episode", "telemetry", "run"}
Fps   == UNION {UNION {{Script[p][i].fps[j] : j \in DOMAIN Script[p][i].fps} :
                         i \in DOMAIN Script[p]} : p \in Scans}
Uploads == UNION {{p} \X DOMAIN Script[p] : p \in Scans}

KindOf(u) == Script[u[1]][u[2]].kind
FpsOf(u)  == Script[u[1]][u[2]].fps

ASSUME IngestAssumption ==
  /\ \A p \in Scans : Script[p] \in Seq([kind : Kinds, fps : Seq(Fps)])
  /\ Registries \subseteq SUBSET Scans /\ MaxCrashes \in Nat

VARIABLES
  scan,      \* where each process is
  sent,      \* how many envelopes each has submitted
  upload,    \* what the client knows of each upload
  requests,  \* requests that are on their way, or whose body is being read
  replies,   \* responses on their way, <<upload, status>>
  keyed,     \* scans whose API key the server was started with
  up,        \* is the server up?
  job,       \* the recording that runs, and its step
  tmp,       \* has the temporary file of this step been written?
  runs,      \* run records
  files,     \* [kind -> [fingerprint -> what its file holds]]
  crashes,   \* observation: how often the server has crashed
  complete   \* observation: uploads that were recorded to the end

clientVars == <<scan, sent, upload>>
netVars    == <<requests, replies>>
storeVars  == <<runs, files>>
serverVars == <<keyed, up, job, tmp, storeVars, crashes, complete>>
vars       == <<clientVars, netVars, serverVars>>

NoJob  == [of |-> {}, step |-> 0]
NoFile == [occ |-> 0, latest |-> {}, torn |-> FALSE]

TypeOK ==
  /\ scan \in [Scans -> {"work", "telemetry", "cloud", "exited"}]
  /\ upload \in [Uploads -> {"none", "sent", "ok", "warned"}]
  /\ requests \subseteq Uploads
  /\ replies \subseteq Uploads \X {201, 400, 401}
  /\ keyed \in Registries /\ up \in BOOLEAN /\ tmp \in BOOLEAN
  /\ \A u \in job.of : KindOf(u) # "episode" /\ job.step \in 0 .. Len(FpsOf(u)) + 1
  /\ runs \subseteq {u \in Uploads : KindOf(u) = "run"}
  /\ complete \subseteq Uploads

Init ==
  /\ scan = [p \in Scans |-> "work"] /\ sent = [p \in Scans |-> 0]
  /\ upload = [u \in Uploads |-> "none"]
  /\ requests = {} /\ replies = {}
  /\ keyed \in Registries
  /\ up = TRUE /\ job = NoJob /\ tmp = FALSE
  /\ runs = {} /\ files = [k \in {"telemetry", "run"} |-> [fp \in Fps |-> NoFile]]
  /\ crashes = 0 /\ complete = {}

-----------------------------------------------------------------------------
(* The scan.                                                                *)

\* submitEpisode, submitTelemetry, submitRun: the upload is dispatched and
\* the scan goes on.
Submit(p) ==
  /\ scan[p] = "work" /\ sent[p] < Len(Script[p])
  /\ sent' = [sent EXCEPT ![p] = @ + 1]
  /\ upload' = [upload EXCEPT ![<<p, sent'[p]>>] = "sent"]
  /\ requests' = requests \cup {<<p, sent'[p]>>}
  /\ UNCHANGED <<scan, replies, serverVars>>

EndScan(p) ==
  /\ scan[p] = "work" /\ sent[p] = Len(Script[p])
  /\ scan' = [scan EXCEPT ![p] = "telemetry"]
  /\ UNCHANGED <<sent, upload, netVars, serverVars>>

Pending(p, kinds) ==
  {u \in Uploads : u[1] = p /\ KindOf(u) \in kinds /\ upload[u] = "sent"}

flushTelemetry(p) ==
  /\ scan[p] = "telemetry" /\ Pending(p, {"episode", "telemetry"}) = {}
  /\ scan' = [scan EXCEPT ![p] = "cloud"]
  /\ UNCHANGED <<sent, upload, netVars, serverVars>>

\* The last thing before process.exit.
flushCloud(p) ==
  /\ scan[p] = "cloud" /\ Pending(p, {"run"}) = {}
  /\ scan' = [scan EXCEPT ![p] = "exited"]
  /\ UNCHANGED <<sent, upload, netVars, serverVars>>

Settle(u, state) ==
  upload' = [upload EXCEPT ![u] = IF @ = "sent" THEN state ELSE @]

\* Variant: every response counts as a delivery.
AnswerUnread(u, status) ==
  /\ <<u, status>> \in replies
  /\ replies' = replies \ {<<u, status>>}
  /\ Settle(u, "ok")
  /\ UNCHANGED <<scan, sent, requests, serverVars>>

\* The response comes in; only a 2xx is silent.
Answer(u, status) ==
  /\ <<u, status>> \in replies
  /\ replies' = replies \ {<<u, status>>}
  /\ Settle(u, IF status = 201 THEN "ok" ELSE "warned")
  /\ UNCHANGED <<scan, sent, requests, serverVars>>

\* Variant: nothing aborts a request.
AbortNever(u) == FALSE /\ UNCHANGED vars

\* Two seconds are over: the client gives up and closes the connection.  The
\* request may be with the server by then, and is carried out all the same.
Abort(u) ==
  /\ upload[u] = "sent"
  /\ Settle(u, "warned")
  /\ replies' = {r \in replies : r[1] # u}
  /\ UNCHANGED <<scan, sent, requests, serverVars>>

\* The request is refused, or lost with its connection.
Lose(u) ==
  /\ u \in requests
  /\ requests' = requests \ {u}
  /\ Settle(u, "warned")
  /\ UNCHANGED <<scan, sent, replies, serverVars>>

-----------------------------------------------------------------------------
(* The server.  handle() awaits the body, and is synchronous from there: one *)
(* recording runs at a time, but the process may die between two writes.    *)

\* sendJson, to a client that may have gone.
Reply(u, status) ==
  replies' = IF upload[u] = "sent" THEN replies \cup {<<u, status>>} ELSE replies

\* An unknown key is refused, and so is an envelope of another schema than the
\* route takes: an episode is posted to /api/telemetry.
Handle(u) ==
  /\ up /\ job = NoJob /\ u \in requests
  /\ requests' = requests \ {u}
  /\ IF u[1] \in keyed /\ KindOf(u) # "episode"
     THEN /\ job' = [of |-> {u}, step |-> IF KindOf(u) = "run" THEN 0 ELSE 1]
          /\ UNCHANGED replies
     ELSE /\ Reply(u, IF u[1] \in keyed THEN 400 ELSE 401)
          /\ UNCHANGED job
  /\ UNCHANGED <<clientVars, keyed, up, tmp, storeVars, crashes, complete>>

\* recordRun writes the run record (step 0) and then one file per finding;
\* recordTelemetry only the files.
Writing(u) == up /\ u \in job.of /\ job.step <= Len(FpsOf(u))

\* writeJson, first half: a temporary file next to the target.
WriteTmp(u) ==
  /\ Writing(u) /\ ~tmp
  /\ tmp' = TRUE
  /\ UNCHANGED <<clientVars, netVars, keyed, up, job, storeVars, crashes, complete>>

\* What the file of a finding holds next; a file that does not parse reads as
\* none.
Counted(file, u) ==
  [occ |-> IF file.torn THEN 1 ELSE file.occ + 1, latest |-> {u}, torn |-> FALSE]

\* writeJson, second half: the rename.
Rename(u) ==
  /\ Writing(u) /\ tmp
  /\ tmp' = FALSE /\ job' = [job EXCEPT !.step = @ + 1]
  /\ IF job.step = 0
     THEN runs' = runs \cup {u} /\ UNCHANGED files
     ELSE /\ files' = [files EXCEPT
                         ![KindOf(u)][FpsOf(u)[job.step]] = Counted(@, u)]
          /\ UNCHANGED runs
  /\ UNCHANGED <<clientVars, netVars, keyed, up, crashes, complete>>

\* A write throws (a full disk): 400, and what was written stays.
WriteThrows(u) ==
  /\ Writing(u)
  /\ job' = NoJob /\ tmp' = FALSE
  /\ Reply(u, 400)
  /\ UNCHANGED <<clientVars, requests, keyed, up, storeVars, crashes, complete>>

Recorded(u) ==
  /\ up /\ u \in job.of /\ job.step > Len(FpsOf(u))
  /\ job' = NoJob
  /\ Reply(u, 201)
  /\ complete' = complete \cup {u}
  /\ UNCHANGED <<clientVars, requests, keyed, up, tmp, storeVars, crashes>>

\* The process dies with the requests it holds.  Clients see their connection
\* close, or wait for the abort.
Crash ==
  /\ up /\ crashes < MaxCrashes
  /\ up' = FALSE /\ crashes' = crashes + 1
  /\ job' = NoJob /\ tmp' = FALSE
  /\ \E lost \in SUBSET requests : requests' = requests \ lost
  /\ UNCHANGED <<clientVars, replies, keyed, storeVars, complete>>

Restart ==
  /\ ~up /\ up' = TRUE
  /\ UNCHANGED <<clientVars, netVars, keyed, job, tmp, storeVars, crashes, complete>>

ScanStep(p) == Submit(p) \/ EndScan(p) \/ flushTelemetry(p) \/ flushCloud(p)
Record(u) == WriteTmp(u) \/ Rename(u) \/ WriteThrows(u) \/ Recorded(u)

Next ==
  \/ \E p \in Scans : ScanStep(p)
  \/ \E u \in Uploads, status \in {201, 400, 401} : Answer(u, status)
  \/ \E u \in Uploads : Abort(u) \/ Lose(u) \/ Handle(u) \/ Record(u)
  \/ Crash \/ Restart

Spec == Init /\ [][Next]_vars

\* The scan is one process, and its abort timers fire.  Nothing is assumed of
\* the network or the server.
Fairness ==
  /\ \A p \in Scans : WF_vars(ScanStep(p))
  /\ \A u \in Uploads : WF_vars(Abort(u))

FairSpec == Spec /\ Fairness

-----------------------------------------------------------------------------
(* Properties.                                                              *)

\* The uploads of a set that list a fingerprint, once for every mention.
Mentioned(set, fp) ==
  {m \in UNION {{u} \X DOMAIN FpsOf(u) : u \in set} : FpsOf(m[1])[m[2]] = fp}
Mentions(set, fp) == Cardinality(Mentioned(set, fp))

\* What the dashboard counts for a fingerprint is what the run records list,
\* less only what a cut recording did not come to; and its latest sighting is
\* in a run that has a record.  In every state, between two writes as well.
CountsMatchRuns ==
  \A fp \in Fps :
    /\ files["run"][fp].occ <= Mentions(runs, fp)
    /\ files["run"][fp].occ >= Mentions(complete \cap runs, fp)
    /\ files["run"][fp].latest \subseteq runs

\* Silence is success: an upload the client has no warning for is in the store
\* to its last finding, whatever the server went through since.
SilentIsStored ==
  \A u \in Uploads : upload[u] = "ok" =>
    /\ u \in complete
    /\ KindOf(u) = "run" => u \in runs
    /\ \A j \in DOMAIN FpsOf(u) : files[KindOf(u)][FpsOf(u)[j]].occ > 0

\* The client, the run records and the counts of the dashboard tell one story.
StoreIsTruthful == TypeOK /\ CountsMatchRuns /\ SilentIsStored

\* Whatever the server does, or does not do, every scan comes to its exit.
ScansExit == <>(\A p \in Scans : scan[p] = "exited")

=============================================================================
