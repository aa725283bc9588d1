------------------------------- MODULE Ledger -------------------------------
(***************************************************************************)
(* What model calls cost. A call is refused before it is sent when its     *)
(* worst case would cross the cap (core/hypothesis/ledger.ts); what it did *)
(* cost is learnt from the provider's answer (core/llm.ts), through a sink *)
(* each transport feeds at its own moment.  Money is in units of tokens.   *)
(***************************************************************************)
EXTENDS Integers

CONSTANTS
  Cap,        \* capUsd
  Under       \* by how much the size of a request may be underestimated

ASSUME LedgerAssumption == Cap \in Nat /\ Under \in Nat

VARIABLES
  transport,  \* "anthropic", "openai" or "ollama": resolveSettings()
  spent       \* what the ledger has recorded

ledgerVars == <<transport, spent>>

Transports == {"anthropic", "openai", "ollama"}

LedgerTypeOK == transport \in Transports /\ spent \in Nat

\* Ollama is talked to natively, when AZTRX_TRANSPORT says so or the endpoint is
\* on its port; a base URL or an OpenAI key selects the compatible wire; nothing
\* configured leaves Anthropic.
TransportOf(forced, base, key, port) ==
  IF forced \/ ((base \/ key) /\ port = "ollama") THEN "ollama"
  ELSE IF base \/ key THEN "openai" ELSE "anthropic"

LedgerInit ==
  /\ transport \in {TransportOf(forced, base, key, port) :
                     forced \in BOOLEAN, base \in BOOLEAN, key \in BOOLEAN,
                     port \in {"ollama", "other"}}
  /\ spent = 0

-----------------------------------------------------------------------------
(* One request.  A response r says whether HTTP and body are without error, *)
(* whether it holds text (or a tool call), and what usage it reports: none  *)
(* counts as zero.                                                          *)

Responses(est, out) ==
  [ok : BOOLEAN, error : BOOLEAN, content : BOOLEAN,
   usage : {0} \cup {i + o : i \in est .. est + Under, o \in {0, out}}]

Thrown(cost)   == [says |-> "failed",   cost |-> cost]
Answered(cost) == [says |-> "answered", cost |-> cost]
Refused        == [says |-> "budget",   cost |-> 0]

\* Usage reaches the sink before the text is looked at: an empty completion
\* has been paid for.
AnthropicReply(r) ==
  IF ~r.ok THEN Thrown(0)
  ELSE IF r.content THEN Answered(r.usage) ELSE Thrown(r.usage)

\* So has an upstream failure reported in the body of a 200.
OpenAiReply(r) ==
  IF ~r.ok THEN Thrown(0)
  ELSE IF r.content /\ ~r.error THEN Answered(r.usage) ELSE Thrown(r.usage)

\* Ollama's errors come before its counts.
OllamaReply(r) ==
  IF ~r.ok \/ r.error THEN Thrown(0)
  ELSE IF r.content THEN Answered(r.usage) ELSE Thrown(r.usage)

\* With tools: the Anthropic transport has none, and sends nothing.
ToolsReply(r) ==
  CASE transport = "anthropic" -> Thrown(0)
    [] transport = "ollama"    -> OllamaReply(r)
    [] OTHER                   -> OpenAiReply(r)

TextReply(r) ==
  CASE transport = "anthropic" -> AnthropicReply(r)
    [] transport = "ollama"    -> OllamaReply(r)
    [] OTHER                   -> OpenAiReply(r)

\* Variant: the worst case leaves out the output.
GuardWithoutOutput(est, out) == spent + est <= Cap

\* The worst case: input at its estimated size, output at its full allowance.
Guard(est, out) == spent + est + out <= Cap

\* Everything a guarded call may come to.
Asked(est, out) ==
  IF Guard(est, out) THEN {TextReply(r) : r \in Responses(est, out)} ELSE {Refused}
AskedTools(est, out) ==
  IF Guard(est, out) THEN {ToolsReply(r) : r \in Responses(est, out)} ELSE {Refused}

Record(a) == spent' = spent + a.cost /\ UNCHANGED transport

\* The cap holds up to one request's underestimate, whatever the sequence of
\* calls: the next guard sees what the last call really cost.
SpendUnderCap == spent <= Cap + Under
=============================================================================
