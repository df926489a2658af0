----------------------------- MODULE LlmStream -----------------------------
(***************************************************************************)
(* The language models behind a streamed HTTP response, of                 *)
(* src/backend/src/providers/llm/: AnthropicLlmProvider.ts,                *)
(* GeminiLlmProvider.ts and OpenAiLlmProvider.ts.  stream() returns a      *)
(* handle at once and run() reads the body, one event a step; an abort may *)
(* come between two events, or from inside the callback of one.            *)
(*                                                                         *)
(* The adapters differ in when a stop is reported, in what a later count   *)
(* does to an earlier one, and in the order of the reports at a failure.   *)
(* The text is counted in deltas.  Requests, prompts and wording are left  *)
(* out, and events of the vendor that the adapter ignores.                 *)
(***************************************************************************)
EXTENDS Naturals, Sequences, SequencesExt

CONSTANTS
    MaxDeltas,   \* bound: pieces of answer text
    MaxUsage     \* bound: output tokens the vendor counts

VARIABLE s

Adapter == {"anthropic", "gemini", "openai"}
Missing == 0

\* usage.  Of the input only whether it is known matters.
Usage == [input : 0..1, output : 0..MaxUsage]
NoUsage == [input |-> Missing, output |-> Missing]

Report == {"delta", "usage", "error", "done"}

Stream ==
    [adapter : Adapter,
     stage   : {"start", "fetching", "reading", "over"},
     keyless : BOOLEAN,      \* no API key
     aborted : BOOLEAN,      \* controller.signal.aborted
     full    : 0..MaxDeltas,
     usage   : Usage,
     stop    : BOOLEAN,      \* Anthropic's stopError
     \* the vendor's side, and the reports
     counted : Usage,        \* the counts of its events so far
     over    : BOOLEAN,      \* its terminal event has been sent
     log     : Seq(Report),
     billed  : Usage]        \* of the last onUsage

TypeOK == s \in Stream

Init ==
    \E a \in Adapter, keyless \in BOOLEAN :
        s = [adapter |-> a, stage |-> "start", keyless |-> keyless, aborted |-> FALSE,
             full |-> 0, usage |-> NoUsage, stop |-> FALSE, counted |-> NoUsage,
             over |-> FALSE, log |-> <<>>, billed |-> NoUsage]

-----------------------------------------------------------------------------
(* Reports                                                                   *)

Say(x, what) == [x EXCEPT !.log = Append(@, what)]

\* report(): nothing without counts.
ReportUsage(x) ==
    IF x.usage = NoUsage THEN x
    ELSE [Say(x, "usage") EXCEPT !.billed = x.usage]

Done(x) == [Say(x, "done") EXCEPT !.stage = "over"]

\* The end of the body.
Completes(x) ==
    LET y == ReportUsage(x)
    IN  Done(IF x.stop THEN Say(y, "error") ELSE y)

\* The catch: a failure ends the answer too, and it has been billed.
Throws(x) ==
    Done(IF x.adapter = "anthropic" THEN Say(ReportUsage(x), "error")
         ELSE ReportUsage(Say(x, "error")))

-----------------------------------------------------------------------------
(* The request                                                               *)

\* Without a key the error comes in a microtask, before the caller can abort.
Begin ==
    /\ s.stage = "start"
    /\ s' = IF s.keyless THEN [Say(s, "error") EXCEPT !.stage = "over"]
            ELSE [s EXCEPT !.stage = "fetching"]

Responds ==
    /\ s.stage = "fetching"
    /\ ~s.aborted
    /\ s' = [s EXCEPT !.stage = "reading"]

\* No connection, a status that is not 2xx, or a body that breaks off.
Fails ==
    /\ s.stage \in {"fetching", "reading"}
    /\ ~s.aborted
    /\ s' = Throws(s)

Ends ==
    /\ s.stage = "reading"
    /\ ~s.aborted
    /\ s' = Completes(s)

\* After an abort the fetch rejects, or the loop over the body ends.
Unwinds ==
    /\ s.stage \in {"fetching", "reading"}
    /\ s.aborted
    /\ s' = [s EXCEPT !.stage = "over"]

-----------------------------------------------------------------------------
(* Events of the body                                                        *)

\* Mutant: the rest of the buffer is delivered after an abort.
MayDeliver_Late == s.stage = "reading" /\ ~s.over

\* sseChunks() looks at the signal before each event.
MayDeliver == s.stage = "reading" /\ ~s.over /\ ~s.aborted

\* A delta's callback may call abort().
Text(x, n) == [x EXCEPT !.full = @ + n, !.log = @ \o [i \in 1..n |-> "delta"]]

Aborting(x) == [x EXCEPT !.aborted = TRUE]

\* Anthropic's counts are merged field by field, the others' replace.
Counts(x, u) ==
    IF x.adapter # "anthropic" THEN u
    ELSE [f \in {"input", "output"} |-> IF u[f] = Missing THEN x.usage[f] ELSE u[f]]

Counted(x, u) ==
    [x EXCEPT !.usage = Counts(x, u),
              !.counted = [f \in {"input", "output"} |->
                             IF u[f] = Missing THEN @[f] ELSE u[f]]]

\* What an event may count: the output so far, and the input.
Countable(x) ==
    {u \in Usage : u # NoUsage /\ u.output \in {Missing} \cup x.counted.output..MaxUsage}

AnthropicEvent ==
    /\ s.adapter = "anthropic"
    /\ MayDeliver
    /\ \/ \E abort \in BOOLEAN :                                \* content_block_delta
            /\ s.full < MaxDeltas
            /\ s' = IF abort THEN Aborting(Text(s, 1)) ELSE Text(s, 1)
       \/ \E u \in Countable(s) : s' = Counted(s, u)            \* message_start
       \/ \E u \in Countable(s), stop \in BOOLEAN :             \* message_delta
            s' = [Counted(s, u) EXCEPT !.stop = @ \/ stop, !.over = TRUE]
       \/ s' = Throws(s)                                        \* error

OpenAiEvent ==
    /\ s.adapter = "openai"
    /\ MayDeliver
    /\ \/ \E abort \in BOOLEAN :                      \* response.output_text.delta
            /\ s.full < MaxDeltas
            /\ s' = IF abort THEN Aborting(Text(s, 1)) ELSE Text(s, 1)
       \/ s' = Throws(s)                                        \* error
       \/ \E u \in Countable(s) :
            LET y == [Counted(s, u) EXCEPT !.over = TRUE]
            IN  \/ s' = y                                       \* response.completed
                \/ s' = Say(y, "error")                         \* response.incomplete
                \/ s' = Throws(y)                               \* response.failed

\* A chunk with counts, then an error or the parts of a candidate: an abort from
\* inside a part's callback leaves the ones after it.
GeminiChunk ==
    /\ s.adapter = "gemini"
    /\ MayDeliver
    /\ \E u \in Countable(s), counts \in BOOLEAN :
         LET y == IF counts THEN Counted(s, u) ELSE s
         IN  \/ s' = Throws(y)
             \/ \E parts \in 0..(MaxDeltas - s.full), finish \in {"none", "STOP", "early"} :
                  LET z == [Text(y, parts) EXCEPT !.over = finish # "none"]
                  IN  s' = IF finish = "early" THEN Say(z, "error") ELSE z
             \/ \E parts \in 1..(MaxDeltas - s.full) :
                  s' = [Aborting(Text(y, parts)) EXCEPT !.stage = "over"]

Abort ==
    /\ s.stage # "start"
    /\ ~s.aborted
    /\ s' = Aborting(s)

-----------------------------------------------------------------------------
Next ==
    \/ Begin \/ Responds \/ Fails \/ Ends \/ Unwinds
    \/ AnthropicEvent \/ OpenAiEvent \/ GeminiChunk
    \/ Abort

Spec == Init /\ [][Next]_s

-----------------------------------------------------------------------------
(* Properties                                                                *)

Said(what) == Len(SelectSeq(s.log, LAMBDA r : r = what))

\* An answer that is not aborted is ended once, by its last report.
EndsOnce ==
    /\ Said("done") <= 1
    /\ Said("done") = 1 => Last(s.log) = "done"
    /\ s.stage = "over" /\ ~s.aborted /\ ~s.keyless => Said("done") = 1

\* Counts are reported once, for an answer that failed as well, and they are the
\* vendor's last: Anthropic's of each field, the others' of the last event counted.
BilledAsSent ==
    /\ Said("usage") <= 1
    /\ Said("done") = 1 => s.billed = s.usage
    /\ s.adapter = "anthropic" => s.usage = s.counted
    /\ s.usage.output \in {Missing, s.counted.output}

\* "usage -> error -> done, in that order, and at most one error": Anthropic's
\* posture, since the session above may close the turn at the error.
UsageFirst ==
    s.adapter = "anthropic" =>
        /\ Said("error") <= 1
        /\ \A i, j \in DOMAIN s.log : s.log[i] = "usage" /\ s.log[j] = "error" => i < j

\* What the caller hears; and from when on it hears nothing.
Gone == s.aborted
Reports == s.log
=============================================================================
