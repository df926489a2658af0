------------------------------- MODULE LlmWire -------------------------------
(***************************************************************************)
(* What the language models are asked, and what is made of their counts:   *)
(* stream() and report() of the three adapters in                          *)
(* src/backend/src/providers/llm/, over the conversation that the pipeline *)
(* keeps.  LlmStream has the reading of the answer.                        *)
(*                                                                         *)
(* A text is the sequence of its words, a word a number; blank is <<>>.    *)
(***************************************************************************)
EXTENDS Integers, Sequences, SequencesExt, TLC

CONSTANTS
    MaxAsks,   \* bound: turns
    Counted    \* tokens of one call: fresh, read, write, answer, thinking

VARIABLE s

Adapters == {"anthropic", "openai", "google"}

\* The models of the catalog, and the variants it offers behind their '@'.
Offered ==
    "claude-haiku-5-5" :> {"off", "low", "medium"} @@ "claude-haiku-4-5" :> {""}
    @@ "gpt-5.6-luna" :> {"none", "low", "medium"} @@ "gpt-5.6-terra" :> {"none", "low"}
    @@ "gpt-5.6-sol" :> {"none", "low"} @@ "gpt-5.4-mini" :> {"none", "low"}
    @@ "gpt-5.4-nano" :> {"none", "low"}
    @@ "gpt-4.1-mini" :> {""} @@ "gpt-4o-mini" :> {""}
    @@ "gemini-3.1-flash-lite" :> {"minimal", "off", "low", "medium", "high"}
    @@ "gemini-3.5-flash-lite" :> {"minimal", "low", "medium", "high"}
    @@ "gemini-3.5-flash" :> {"minimal", "off", "low", "medium", "high"}
    @@ "gemini-3.6-flash" :> {"minimal", "low", "medium", "high"}
    @@ "gemini-3.8-flash" :> {"off", "low", "medium", "high"}
    @@ "gemini-3.7-flash" :> {"off", "low", "medium", "high"}

Claude == {"claude-haiku-5-5", "claude-haiku-4-5"}
Gpt == {"gpt-5.6-luna", "gpt-5.6-terra", "gpt-5.6-sol", "gpt-5.4-mini", "gpt-5.4-nano",
        "gpt-4.1-mini", "gpt-4o-mini"}
AdapterOf(model) ==
    CASE model \in Claude -> "anthropic" [] model \in Gpt -> "openai" [] OTHER -> "google"

LegacyPrefixes == {"claude-haiku-4-5"}
NoReasoningPrefixes == {"gpt-4.1-mini", "gpt-4o-mini"}

-----------------------------------------------------------------------------
(* The request                                                               *)

None == <<"none">>

\* The field that sets the depth of reasoning, after splitModel().
AnthropicReasoning(model, variant) ==
    IF variant = "" \/ model \in LegacyPrefixes THEN None
    ELSE IF variant \in {"off", "none"} THEN <<"thinking", "disabled">>
    ELSE <<"effort", variant>>
OpenAiReasoning(model, variant) ==
    CASE variant = "" \/ model \in NoReasoningPrefixes -> None
      [] OTHER -> <<"effort", IF variant = "off" THEN "none" ELSE variant>>
GoogleThinking(model, variant) ==
    IF variant \in {"", "off"} THEN <<"budget", "0">> ELSE <<"level", variant>>

\* The conversation but for the system prompt, which all three take apart.
Spoken(history) == SelectSeq(history, LAMBDA m : m.role # "system")
System(history) == SelectSeq(history, LAMBDA m : m.role = "system")

\* transcriptOf(): what is blank is dropped, and adjacent messages of one role join.
Transcribed(out, m) ==
    IF m.content = <<>> THEN out
    ELSE IF out # <<>> /\ Last(out).role = m.role
         THEN [out EXCEPT ![Len(out)].content = @ \o m.content]
         ELSE Append(out, m)
TranscriptOf(history) == FoldLeft(Transcribed, <<>>, Spoken(history))

Named(history) ==
    [i \in DOMAIN Spoken(history) |->
        [Spoken(history)[i] EXCEPT !.role = IF @ = "assistant" THEN "model" ELSE @]]

Body(x, reasoning, messages) ==
    [system |-> System(x.history), temperature |-> x.temperature,
     reasoning |-> reasoning, messages |-> messages]

AnthropicRequest(x) ==
    [Body(x, AnthropicReasoning(x.model, x.variant), TranscriptOf(x.history))
        EXCEPT !.temperature = @ /\ x.model \in LegacyPrefixes]
OpenAiRequest(x) == Body(x, OpenAiReasoning(x.model, x.variant), Spoken(x.history))
GoogleRequest(x) == Body(x, GoogleThinking(x.model, x.variant), Named(x.history))

Request(x) ==
    CASE AdapterOf(x.model) = "anthropic" -> AnthropicRequest(x)
      [] AdapterOf(x.model) = "openai" -> OpenAiRequest(x)
      [] OTHER -> GoogleRequest(x)

-----------------------------------------------------------------------------
(* The counts                                                                *)

\* What each vendor says of a call, in the fields it has for that.
Stated(adapter, c) ==
    CASE adapter = "anthropic" ->
             [input |-> c.fresh, read |-> c.read, write |-> c.write,
              output |-> c.answer + c.thinking, thinking |-> c.thinking]
      [] adapter = "openai" ->
             [input |-> c.fresh + c.write + c.read, cached |-> c.read,
              output |-> c.answer + c.thinking, reasoning |-> c.thinking]
      [] OTHER ->
             [prompt |-> c.fresh + c.write + c.read, cached |-> c.read,
              candidates |-> c.answer, thoughts |-> c.thinking]

LlmUsage(input, output, thinking, cached) ==
    [input |-> input, output |-> output, thinking |-> thinking, cached |-> cached]

AnthropicReport(u) ==
    LlmUsage(u.input + u.read + u.write, u.output, u.thinking, u.read)
OpenAiReport(u) == LlmUsage(u.input, u.output, u.reasoning, u.cached)

GoogleReport(u) == LlmUsage(u.prompt, u.candidates + u.thoughts, u.thoughts, u.cached)

Report(adapter, u) ==
    CASE adapter = "anthropic" -> AnthropicReport(u)
      [] adapter = "openai" -> OpenAiReport(u)
      [] OTHER -> GoogleReport(u)

-----------------------------------------------------------------------------
(* The conversation, as PipelineSession keeps it                             *)

Message(role, content) == [role |-> role, content |-> content]

Init ==
    \E model \in DOMAIN Offered : \E variant \in Offered[model] :
        \E temperature, system \in BOOLEAN :
            s = [model |-> model, variant |-> variant, temperature |-> temperature,
                 history |-> IF system THEN <<Message("system", <<0>>)>> ELSE <<>>,
                 words |-> 1, asks |-> 0, calling |-> FALSE, usage |-> <<>>]

\* runTurn(): the words of a user are never blank.
Ask ==
    /\ ~s.calling
    /\ s.asks < MaxAsks
    /\ s' = [s EXCEPT !.history = Append(@, Message("user", <<s.words>>)),
                      !.words = @ + 1, !.asks = @ + 1, !.calling = TRUE]

\* onDone(): an answer, or none where the model failed or had only thought.
Answer(blank, c) ==
    /\ s.calling
    /\ LET content == IF blank THEN <<>> ELSE <<s.words>>
           adapter == AdapterOf(s.model)
       IN  s' = [s EXCEPT !.history = Append(@, Message("assistant", content)),
                          !.words = @ + 1, !.calling = FALSE,
                          !.usage = <<c, Report(adapter, Stated(adapter, c))>>]

\* The user talks over it, and the answer is not kept.
Cut ==
    /\ s.calling
    /\ s' = [s EXCEPT !.calling = FALSE]

Next == Ask \/ Cut \/ \E blank \in BOOLEAN, c \in Counted : Answer(blank, c)

-----------------------------------------------------------------------------
(* Properties                                                                *)

Words(messages) == FoldLeft(LAMBDA w, m : w \o m.content, <<>>, messages)

\* Every request carries all that was said, in order, and the system prompt apart; the
\* one to Anthropic, which refuses anything else, has no blank and no two messages
\* of one role in a row, whichever turns failed or were cut.
TranscriptIsTaken ==
    LET r == Request(s)
    IN  s.calling =>
            /\ Words(r.messages) = Words(Spoken(s.history))
            /\ Words(r.system) \o Words(r.messages) = Words(s.history)
            /\ Last(r.messages).role = "user"
            /\ AdapterOf(s.model) = "anthropic" =>
                   /\ \A i \in DOMAIN r.messages : r.messages[i].content # <<>>
                   /\ \A i \in 2..Len(r.messages) : r.messages[i].role # r.messages[i - 1].role
                   /\ Head(r.messages).role = "user"

\* What the vendors document, or the live API was measured to take.
Taken(model) ==
    LET levels == {<<"level", l>> : l \in {"low", "medium", "high"}}
        efforts == {<<"effort", l>> : l \in {"none", "low", "medium", "high", "xhigh"}}
    IN  CASE model = "claude-haiku-5-5" ->
                 {None, <<"thinking", "disabled">>}
                     \cup {<<"effort", l>> : l \in {"low", "medium", "high", "xhigh", "max"}}
          [] model \in {"claude-haiku-4-5", "gpt-4.1-mini", "gpt-4o-mini"} -> {None}
          [] model \in {"gpt-5.6-luna", "gpt-5.6-terra", "gpt-5.6-sol"} ->
                 {None, <<"effort", "max">>} \cup efforts
          [] model \in {"gpt-5.4-mini", "gpt-5.4-nano"} -> {None} \cup efforts
          [] model \in {"gemini-3.8-flash", "gemini-3.7-flash"} ->
                 {<<"budget", "0">>} \cup levels
          [] model \in {"gemini-3.6-flash", "gemini-3.5-flash-lite"} ->
                 {<<"level", "minimal">>} \cup levels
          [] OTHER -> {<<"level", "minimal">>, <<"budget", "0">>} \cup levels

\* No model that can be selected is asked for a depth it refuses, nor the one that
\* refuses a temperature for that.
RequestIsTaken ==
    LET r == Request(s)
    IN  /\ r.reasoning \in Taken(s.model)
        /\ r.temperature => s.model # "claude-haiku-5-5"

\* Three ways to count are one in the ledger: the input is all that was read, the
\* output all that was written, and what is broken out is inside of either.
CountsAreContained ==
    s.usage # <<>> =>
        LET c == s.usage[1]
            u == s.usage[2]
        IN  u = [input |-> c.fresh + c.read + c.write, output |-> c.answer + c.thinking,
                 thinking |-> c.thinking, cached |-> c.read]
=============================================================================
