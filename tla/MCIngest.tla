------------------------------- MODULE MCIngest -------------------------------
(* Two scans that met the same fault, one with all three kinds of upload.    *)
(* The server knows the keys of both, or of the first alone.                 *)
EXTENDS Ingest

MCScript == [a |-> << [kind |-> "episode",   fps |-> <<>>],
                      [kind |-> "telemetry", fps |-> <<"f1">>],
                      [kind |-> "run",       fps |-> <<"f1", "f2">>] >>,
             b |-> << [kind |-> "run",       fps |-> <<"f1">>] >>]
MCRegistries == {{"a", "b"}, {"a"}}

=============================================================================
