------------------------------- MODULE Install -------------------------------
(***************************************************************************)
(* What aztrx writes into files it shares with others: the pre-push hook   *)
(* (src/src/hooks/index.ts) and an editor's MCP configuration              *)
(* (src/src/mcp/install.ts).                                               *)
(***************************************************************************)
EXTENDS Naturals

CONSTANT Others  \* servers of somebody else that a configuration may hold

VARIABLES
  hook,    \* what the pre-push hook of the repository is
  hookDir, \* git names a hooks directory
  config,  \* the editor's configuration file
  backup,  \* its .bak
  marker,  \* the editor's directory is in the project
  lost     \* observation only: contents of somebody else that an install or
           \* an uninstall without --force has destroyed

installVars == <<hook, hookDir, config, backup, marker, lost>>

\* "shim" is the script of this version and "older" that of another one; a
\* "foreign" hook is somebody else's, and a "mixed" one is too, with our line
\* among its own.
Hooks == {"absent", "shim", "older", "foreign", "mixed"}

\* A configuration that parses: our entry, other servers, and whether the key
\* that holds them is an object.
Configs == [ours : {"none", "older", "current"}, others : SUBSET Others, keyed : BOOLEAN]
Empty   == [ours |-> "none", others |-> {}, keyed |-> TRUE]
Absent  == [absent |-> TRUE]
Broken  == [broken |-> TRUE]  \* is there and does not parse

InstallInit ==
  /\ hook \in Hooks /\ hookDir \in BOOLEAN
  /\ config \in Configs \cup {Absent, Broken}
  /\ backup = Absent /\ marker \in BOOLEAN /\ lost = FALSE
  /\ ~hookDir => hook = "absent"
  /\ ~marker => config = Absent

-----------------------------------------------------------------------------
(* The hook.                                                                *)

\* isOurs: the file holds the line that marks it.  A hook of somebody else's
\* that calls aztrx itself is taken for ours, and what else it does is lost.
IsOurs(h) == h \in {"shim", "older", "mixed"}

MayWrite(force) == hook = "absent" \/ IsOurs(hook) \/ force

InstallHook(force) ==
  /\ hookDir /\ MayWrite(force)
  /\ hook' = "shim"
  /\ lost' = (lost \/ (hook = "foreign" /\ ~force))
  /\ UNCHANGED <<hookDir, config, backup, marker>>

UninstallHook ==
  /\ hookDir /\ IsOurs(hook)
  /\ hook' = "absent"
  /\ UNCHANGED <<hookDir, config, backup, marker, lost>>

-----------------------------------------------------------------------------
(* The configuration.  Each edit is of one key in one file.                 *)

\* An absent or an empty file is an empty configuration.
Parsed == IF config \in {Absent, Broken} THEN Empty ELSE config

WithOurs(c) == [c EXCEPT !.ours = "current"]

\* The file is copied aside; the copy may fail, and the install goes on.
Aside == backup' \in {config, backup}

\* Only the key that cannot be merged into is dropped.
InstallConfig(force) ==
  /\ marker
  /\ \/ /\ config # Broken /\ Parsed.keyed
        /\ config' = WithOurs(Parsed)
        /\ UNCHANGED backup
     \/ /\ config = Broken \/ ~Parsed.keyed
        /\ force
        /\ config' = WithOurs(Empty)
        /\ Aside
  /\ lost' = (lost \/ (config' # Absent /\ Parsed.others # {} /\ config'.others # Parsed.others /\ ~force))
  /\ UNCHANGED <<hook, hookDir, marker>>

\* The file stays, even when it holds nothing any more.
UninstallConfig ==
  /\ config \notin {Absent, Broken} /\ config.keyed /\ config.ours # "none"
  /\ config' = [config EXCEPT !.ours = "none"]
  /\ lost' = (lost \/ config'.others # config.others)
  /\ UNCHANGED <<hook, hookDir, backup, marker>>

InstallNext ==
  \/ \E force \in BOOLEAN : InstallHook(force) \/ InstallConfig(force)
  \/ UninstallHook \/ UninstallConfig

=============================================================================
