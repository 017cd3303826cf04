----------------------------- MODULE ProviderWire -----------------------------
(***************************************************************************)
(* A chat transcript as each provider is sent it                           *)
(* (packages/extension/src/sidepanel/providers/*.ts).  A message is its    *)
(* role, whether it has text, and how many tool calls it asks for; a wire  *)
(* turn is a role and its parts.                                           *)
(***************************************************************************)
EXTENDS Naturals, Sequences, SequencesExt

Providers == {"openai", "anthropic", "gemini"}
Roles == {"system", "user", "assistant", "tool"}
Message(role, text, asks, of) == [role |-> role, text |-> text, asks |-> asks, of |-> of]

Text(m) == IF m.text THEN <<"text">> ELSE <<>>
Parts(m) == IF m.role = "tool" THEN <<"answer">> ELSE Text(m) \o [i \in 1..m.asks |-> "ask"]

\* toWireMessages: one for one.
OpenAIWire(ms) ==
    [i \in DOMAIN ms |-> [role |-> IF ms[i].role = "assistant" THEN "assistant" ELSE "user",
                          parts |-> Parts(ms[i])]]

\* pushBlock, pushParts: a turn of the same role is continued, an empty one
\* is not begun.
Pushed(wire, turn) ==
    IF turn.parts = <<>> THEN wire
    ELSE IF wire # <<>> /\ Last(wire).role = turn.role
    THEN Front(wire) \o <<[Last(wire) EXCEPT !.parts = @ \o turn.parts]>>
    ELSE Append(wire, turn)
PushedAll(turns) == FoldLeft(Pushed, <<>>, turns)
\* buildWire of Anthropic: the system prompt goes elsewhere, tool results are
\* the user's.
AnthropicTurn(m) ==
    [role |-> IF m.role = "assistant" THEN "assistant" ELSE "user",
     parts |-> IF m.role = "system" THEN <<>> ELSE Parts(m)]
AnthropicWire(ms) == PushedAll([i \in DOMAIN ms |-> AnthropicTurn(ms[i])])
\* buildWire of Gemini: the assistant is the model.
GeminiTurn(m) ==
    [role |-> IF m.role = "assistant" THEN "model" ELSE "user",
     parts |-> IF m.role = "system" THEN <<>> ELSE Parts(m)]
GeminiWire(ms) == PushedAll([i \in DOMAIN ms |-> GeminiTurn(ms[i])])

Wire(provider, ms) ==
    CASE provider = "openai" -> OpenAIWire(ms)
      [] provider = "anthropic" -> AnthropicWire(ms)
      [] OTHER -> GeminiWire(ms)

(***************************************************************************)
(* What the providers accept: the user begins and has the last word, and   *)
(* what a turn asks for is answered, in full, before anything else is      *)
(* said.                                                                   *)
(***************************************************************************)
Stream(wire) == FoldLeft(LAMBDA all, turn : all \o turn.parts, <<>>, wire)
\* Asks still open; below 0 once something was said out of turn.
Heard(open, part) ==
    CASE open < 0 -> open
      [] part = "ask" -> open + 1
      [] part = "answer" -> open - 1
      [] OTHER -> IF open = 0 THEN 0 ELSE 0 - 1
OpenAsks(parts) == FoldLeft(Heard, 0, parts)
Answered(parts) == OpenAsks(parts) = 0
Accepted(provider, ms) ==
    LET wire == Wire(provider, ms) IN
    /\ wire # <<>> /\ Head(wire).role = "user" /\ Last(wire).role = "user"
    /\ Answered(Stream(wire))
=============================================================================
